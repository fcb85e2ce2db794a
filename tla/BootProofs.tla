---- MODULE BootProofs ----
(***************************************************************************)
(* Proofs about Boot, for every pool, every set of displays, every number  *)
(* of ticks and keys, and faults stacked as deep as one likes.             *)
(***************************************************************************)
EXTENDS Boot, TLAPS

----
\* The phases by their places in Order.

LEMMA Places ==
    ASSUME pc \in 1 .. 21
    PROVE  /\ (pc = 1 <=> Phase = "check")
           /\ (pc = 2 <=> Phase = "console")
           /\ (pc = 3 <=> Phase = "pmm_init")
           /\ (pc = 4 <=> Phase = "regions")
           /\ (pc = 5 <=> Phase = "lock")
           /\ (pc = 6 <=> Phase = "vmm")
           /\ (pc = 7 <=> Phase = "gdt")
           /\ (pc = 8 <=> Phase = "pic")
           /\ (pc = 9 <=> Phase = "idt")
           /\ (pc = 10 <=> Phase = "report")
           /\ (pc = 11 <=> Phase = "sti")
           /\ (pc = 12 <=> Phase = "map")
           /\ (pc = 13 <=> Phase = "remap")
           /\ (pc = 14 <=> Phase = "banner")
           /\ (pc = 15 <=> Phase = "module")
           /\ (pc = 16 <=> Phase = "mount")
           /\ (pc = 17 <=> Phase = "frames")
           /\ (pc = 18 <=> Phase = "jump")
           /\ (pc = 19 <=> Phase = "cli")
           /\ (pc = 20 <=> Phase = "iretq")
           /\ (pc = 21 <=> Phase = "user")
BY DEF Phase, Order

LEMMA PastPlaces ==
    ASSUME pc \in 1 .. 21
    PROVE  /\ Past("console") <=> pc > 2
           /\ Past("sti") <=> pc > 11
           /\ Past("cli") <=> pc > 19
           /\ Past("iretq") <=> pc > 20
BY DEF Past, Order

----
\* The strengthening.  Interrupts are on only from sti to cli and in ring 3, and by then the
\* controller and the gates are those of pic_init and init_idt.

Open == pc \in 12 .. 19 \/ pc = 21
Causes == {"device", "demand", "console", "stray", "spurious"}
FrameType == [vector : {14, 32, 33}, cause : Causes, served : BOOLEAN]

TypeInv ==
    /\ pc \in 1 .. 21
    /\ busy = {} \/ busy = Uses(Phase)
    /\ if \in BOOLEAN
    /\ frames \in Seq(FrameType)

\* Only the outermost frame may be a device's or the program's, and only such a one is served.
Outermost(f) ==
    /\ f.vector # 14 => Open /\ f.cause = "device"
    /\ f.vector = 14 => f.cause # "device"
    /\ f.vector = 14 /\ f.cause = "demand" => pc = 21
    /\ f.served => f.cause \in {"device", "demand"}
OnTop(f) == f.vector = 14 /\ f.cause \notin {"device", "demand"} /\ ~f.served

FramesInv ==
    /\ frames # <<>> => ~if /\ pc > 9
    /\ if => Open
    /\ frames # <<>> => Outermost(frames[1])
    /\ Len(frames) > 1 => ~frames[1].served
    /\ \A k \in DOMAIN frames : k # 1 => OnTop(frames[k])

GatesInv ==
    /\ pc > 8 => base = 32
    /\ pc > 9 => gate = {8, 10, 14, 32, 33}
    /\ pc <= 9 => gate = {}
    /\ halt # "gate"

UpInv ==
    /\ pc > 3 => "bitmap" \in up
    /\ pc > 4 => "free" \in up
    /\ pc > 5 => "locked" \in up
    /\ pc > 6 => "tables" \in up
    /\ pc > 7 => {"gdt", "rsp0"} \subseteq up
    /\ pc > 8 => "pic" \in up
    /\ pc > 9 => "idt" \in up
    /\ pc > 16 => "files" \in up

IInv == TypeInv /\ FramesInv /\ GatesInv /\ UpInv

LEMMA Element ==
    ASSUME NEW S, NEW s \in Seq(S), NEW k \in DOMAIN s
    PROVE  s[k] \in S
OBVIOUS

LEMMA LastPlace ==
    ASSUME NEW S, NEW s \in Seq(S), s # <<>>
    PROVE  Len(s) \in DOMAIN s
OBVIOUS

LEMMA InitIInv == Init => IInv
<1> SUFFICES ASSUME Init PROVE IInv
  OBVIOUS
<1>1. pc = 1 /\ busy = {} /\ if = FALSE /\ frames = <<>> /\ halt = "no" /\ gate = {}
  BY DEF Init
<1>2. TypeInv
  <2>1. frames \in Seq(FrameType)
    BY <1>1
  <2>2. pc \in 1 .. 21
    BY <1>1
  <2>3. if \in BOOLEAN
    BY <1>1
  <2> QED
    BY <1>1, <2>1, <2>2, <2>3 DEF TypeInv
<1>3. FramesInv
  <2>1. Len(frames) = 0 /\ DOMAIN frames = {}
    BY <1>1
  <2> QED
    BY <1>1, <2>1 DEF FramesInv
<1>4. GatesInv /\ UpInv
  BY <1>1 DEF GatesInv, UpInv
<1> QED
  BY <1>2, <1>3, <1>4 DEF IInv

LEMMA Facts ==
    ASSUME IInv
    PROVE  /\ pc \in 1 .. 21 /\ if \in BOOLEAN /\ halt # "gate" /\ frames \in Seq(FrameType)
           /\ busy = {} \/ busy = Uses(Phase)
BY DEF IInv, TypeInv, GatesInv

\* The end of a phase: the next one begins with nothing in the midst of a change.
LEMMA PhaseEnds ==
    ASSUME IInv, NEW p, p # "user", Ends(p)
    PROVE  /\ pc < 21 /\ pc' = pc + 1 /\ busy' = {} /\ frames = <<>> /\ Phase = p
           /\ halt = "no" /\ UpInv'
<1>1. pc < 21
  BY Places DEF IInv, TypeInv, Ends
<1>2. pc' = pc + 1 /\ busy' = {} /\ frames = <<>> /\ Phase = p /\ halt = "no"
  BY DEF Ends, Running
<1>3. UpInv'
  <2>1. up \subseteq up' /\ SetsUp(Phase) \subseteq up'
    BY <1>2 DEF Ends
  <2>2. /\ pc = 3 => "bitmap" \in SetsUp(Phase)
        /\ pc = 4 => "free" \in SetsUp(Phase)
        /\ pc = 5 => "locked" \in SetsUp(Phase)
        /\ pc = 6 => "tables" \in SetsUp(Phase)
        /\ pc = 7 => {"gdt", "rsp0"} \subseteq SetsUp(Phase)
        /\ pc = 8 => "pic" \in SetsUp(Phase)
        /\ pc = 9 => "idt" \in SetsUp(Phase)
        /\ pc = 16 => "files" \in SetsUp(Phase)
    BY Places DEF IInv, TypeInv, SetsUp
  <2> QED
    BY <1>2, <2>1, <2>2 DEF IInv, TypeInv, UpInv
<1> QED
  BY <1>1, <1>2, <1>3

LEMMA NextPhase ==
    ASSUME IInv, pc < 21, pc' = pc + 1, busy' = {}, frames = <<>>, frames' = frames,
           if' \in BOOLEAN, if' => pc' \in 12 .. 19 \/ pc' = 21, GatesInv', UpInv'
    PROVE  IInv'
<1>1. TypeInv'
  <2>1. pc' \in 1 .. 21 /\ frames' \in Seq(FrameType)
    BY DEF IInv, TypeInv
  <2> QED
    BY <2>1 DEF TypeInv
<1>2. FramesInv'
  <2>1. Len(frames') = 0 /\ DOMAIN frames' = {} /\ frames' = <<>>
    OBVIOUS
  <2> QED
    BY <2>1 DEF FramesInv, Open
<1> QED
  BY <1>1, <1>2 DEF IInv

\* A phase that leaves the processor and the controller alone, if it is not the one after which
\* the flag has another value.
LEMMA QuietPhase ==
    ASSUME IInv, NEW p, p \notin {"user", "cli", "sti", "iretq", "idt", "pic"}, Ends(p),
           UNCHANGED <<if, gate, frames, halt, base>>
    PROVE  IInv'
<1>1. /\ pc < 21 /\ pc' = pc + 1 /\ busy' = {} /\ frames = <<>> /\ Phase = p
      /\ UpInv'
  BY PhaseEnds
<1>2. pc \notin {8, 9, 11, 19, 20, 21}
  BY <1>1, Places DEF IInv, TypeInv
<1>3. GatesInv'
  BY <1>1, <1>2 DEF IInv, TypeInv, GatesInv
<1>4. if' \in BOOLEAN /\ (if' => pc' \in 12 .. 19 \/ pc' = 21)
  BY <1>1, <1>2 DEF IInv, TypeInv, FramesInv, Open
<1> QED
  BY <1>1, <1>3, <1>4, NextPhase

\* Steps that do not move the boot thread on.
LEMMA StaysInPhase ==
    ASSUME IInv, UNCHANGED <<pc, up, gate, base>>, busy' = {} \/ busy' = Uses(Phase),
           halt' # "gate", if' \in BOOLEAN, frames' \in Seq(FrameType), FramesInv'
    PROVE  IInv'
<1>1. TypeInv'
  <2>1. pc' \in 1 .. 21
    BY DEF IInv, TypeInv
  <2>2. Phase' = Phase /\ Uses(Phase)' = Uses(Phase)
    BY DEF Phase, Uses
  <2> QED
    BY <2>1, <2>2 DEF TypeInv
<1>2. GatesInv' /\ UpInv'
  BY DEF IInv, GatesInv, UpInv
<1> QED
  BY <1>1, <1>2 DEF IInv

\* So does a step that also leaves the processor's frames alone.
LEMMA FramesStay ==
    ASSUME IInv, UNCHANGED <<pc, up, gate, base, frames>>, busy' = {} \/ busy' = Uses(Phase),
           halt' # "gate", if' = if \/ if' = FALSE
    PROVE  IInv'
<1>1. if' \in BOOLEAN /\ frames' \in Seq(FrameType)
  BY Facts
<1>2. FramesInv'
  BY DEF IInv, FramesInv, Outermost, OnTop, Open
<1> QED
  BY <1>1, <1>2, StaysInPhase

\* A frame that comes on top: the program's or a device's under which there is none, or a page
\* fault of the kernel's over one that has not been served.
LEMMA EntersKeeps ==
    ASSUME IInv, NEW v \in {14, 32, 33}, NEW c \in Causes, EnterGate(v, c), pc > 9,
           frames = <<>> => Outermost(Entered(v, c)),
           frames # <<>> => OnTop(Entered(v, c)) /\ ~Top.served,
           UNCHANGED <<pc, busy, up, gate, base>>
    PROVE  IInv'
<1> DEFINE e == Entered(v, c)
<1>0. frames \in Seq(FrameType) /\ halt # "gate" /\ FramesInv /\ (busy = {} \/ busy = Uses(Phase))
  BY Facts DEF IInv
<1>1. frames' = Append(frames, e) /\ if' = FALSE /\ halt' = halt /\ e \in FrameType
  BY DEF EnterGate, Entered, FrameType
<1>2. frames = <<>> => Outermost(e)
  OBVIOUS
<1>3. frames # <<>> => OnTop(e) /\ ~Top.served
  OBVIOUS
<1> HIDE DEF e
<1>4. /\ frames' \in Seq(FrameType) /\ frames' # <<>> /\ Len(frames') = Len(frames) + 1
      /\ frames'[Len(frames) + 1] = e /\ \A k \in DOMAIN frames : frames'[k] = frames[k]
      /\ \A k \in DOMAIN frames' : k \in DOMAIN frames \/ k = Len(frames) + 1
      /\ Len(frames) \in Nat
  BY <1>0, <1>1
<1>5. CASE frames = <<>>
  <2>1. Len(frames') = 1 /\ frames'[1] = e /\ \A k \in DOMAIN frames' : k = 1
    BY <1>4, <1>5
  <2>2. FramesInv'
    BY <1>1, <1>2, <1>4, <1>5, <2>1 DEF FramesInv, Outermost, Open
  <2> QED
    BY <1>0, <1>1, <1>4, <2>2, StaysInPhase
<1>6. CASE frames # <<>>
  <2>1. 1 \in DOMAIN frames /\ frames'[1] = frames[1] /\ Len(frames) + 1 # 1
    BY <1>0, <1>4, <1>6
  <2>2. ~frames[1].served
    <3>1. CASE Len(frames) = 1
      BY <1>3, <1>6, <3>1 DEF Top, Last
    <3>2. CASE Len(frames) # 1
      <4>0. DOMAIN frames = 1 .. Len(frames)
        BY <1>0
      <4>1. Len(frames) > 1
        BY <1>4, <2>1, <3>2, <4>0
      <4> QED
        BY <1>0, <4>1 DEF FramesInv
    <3> QED
      BY <3>1, <3>2
  <2>3. Outermost(frames[1]) /\ \A k \in DOMAIN frames : k # 1 => OnTop(frames[k])
    BY <1>0, <1>6 DEF FramesInv
  <2>4. \A k \in DOMAIN frames' : k # 1 => OnTop(frames'[k])
    BY <1>3, <1>4, <1>6, <2>3
  <2>5. FramesInv'
    BY <1>1, <2>1, <2>2, <2>3, <2>4 DEF FramesInv, Outermost, OnTop, Open
  <2> QED
    BY <1>0, <1>1, <1>4, <2>5, StaysInPhase
<1> QED
  BY <1>5, <1>6

\* A page fault of the kernel's own.
LEMMA FaultKeeps ==
    ASSUME IInv, NEW c \in Causes \ {"device", "demand"}, Fault(c), frames # <<>> => ~Top.served,
           UNCHANGED <<pc, busy, up, gate, base>>
    PROVE  IInv'
<1>1. CASE 14 \in gate /\ EnterGate(14, c)
  <2>1. pc > 9
    BY <1>1, Facts DEF IInv, GatesInv
  <2>2. Outermost(Entered(14, c)) /\ OnTop(Entered(14, c))
    BY DEF Outermost, OnTop, Entered
  <2> QED
    BY <1>1, <2>1, <2>2, EntersKeeps
<1>2. CASE halt' = c /\ UNCHANGED <<if, frames>>
  BY <1>2, Facts, FramesStay DEF Causes
<1> QED
  BY <1>1, <1>2 DEF Fault

\* A handler of a device, or the program's page fault, comes to its end.
LEMMA ReturnsKeeps ==
    ASSUME IInv, Returns, frames # <<>>, Top.cause \in {"device", "demand"},
           UNCHANGED <<pc, busy, up, gate, base>>
    PROVE  IInv'
<1>1. /\ frames' = [frames EXCEPT ![Len(frames)].served = TRUE] /\ UNCHANGED <<if, halt>>
      /\ Top = frames[Len(frames)]
  BY DEF Returns, Top, Last
<1>2. frames \in Seq(FrameType) /\ halt # "gate" /\ FramesInv /\ (busy = {} \/ busy = Uses(Phase))
      /\ if \in BOOLEAN
  BY Facts DEF IInv
<1>3. Len(frames) \in DOMAIN frames /\ Len(frames) \in Nat
  BY <1>2, LastPlace
<1>4. Len(frames) = 1
  BY <1>1, <1>2, <1>3 DEF FramesInv, OnTop
<1> DEFINE e == [frames[1] EXCEPT !.served = TRUE]
<1>5. frames[1] \in FrameType
  BY <1>2, <1>3, <1>4, Element
<1>6. /\ e \in FrameType /\ e.vector = frames[1].vector /\ e.cause = frames[1].cause
  BY <1>5 DEF FrameType
<1>7. frames' = [frames EXCEPT ![1] = e]
  BY <1>1, <1>4
<1> HIDE DEF e
<1>8. /\ frames' \in Seq(FrameType) /\ Len(frames') = 1 /\ frames' # <<>> /\ frames'[1] = e
      /\ \A k \in DOMAIN frames' : k = 1
  BY <1>2, <1>4, <1>6, <1>7
<1>p. pc' = pc /\ if' = if
  BY <1>1
<1>9. FramesInv'
  <2>1. frames # <<>> /\ ~if /\ pc > 9 /\ Outermost(frames[1])
    BY <1>2 DEF FramesInv
  <2>2. /\ frames'[1].vector = frames[1].vector /\ frames'[1].cause = frames[1].cause
        /\ frames[1].cause \in {"device", "demand"}
    BY <1>1, <1>4, <1>6, <1>8
  <2>3. \A x : /\ x.vector = frames[1].vector /\ x.cause = frames[1].cause
             => Outermost(x)'
    BY <1>p, <2>1, <2>2 DEF Outermost, Open
  <2>4. ~(Len(frames') > 1) /\ pc' > 9 /\ ~if'
    BY <1>8, <1>p, <2>1
  <2>5. Outermost(frames[1])'
    BY <2>2, <2>3
  <2> QED
    BY <1>8, <2>4, <2>5 DEF FramesInv
<1> QED
  BY <1>1, <1>2, <1>8, <1>9, StaysInPhase

LEMMA BootThreadKeeps ==
    ASSUME IInv, BootThread
    PROVE  IInv'
<1>0. pc \in 1 .. 21 /\ if \in BOOLEAN /\ halt # "gate" /\ (busy = {} \/ busy = Uses(Phase))
  BY Facts
<1>1. CASE Begin
  BY <1>0, <1>1, FramesStay DEF Begin, cpu, pic
<1>2. CASE PhaseFaults
  <2>1. frames = <<>> /\ UNCHANGED <<pc, busy, up, gate, base>>
    BY <1>2 DEF PhaseFaults, Running, thread, pic
  <2>2. PICK c \in {"console", "stray"} : Fault(c)
    BY <1>2 DEF PhaseFaults
  <2> QED
    BY <2>1, <2>2, FaultKeeps DEF Causes
<1>3. ASSUME hcf PROVE IInv'
  BY <1>0, <1>3, FramesStay DEF hcf, thread, pic
<1>4. CASE CheckDisplay
  <2>1. CASE Ends("check") /\ UNCHANGED <<console, cpu, pic>>
    BY <2>1, QuietPhase DEF cpu, pic
  <2> QED
    BY <1>3, <1>4, <2>1 DEF CheckDisplay
<1>5. CASE MakeConsole
  BY <1>5, QuietPhase DEF MakeConsole, cpu, pic
<1>6. CASE MemoryPhase
  BY <1>6, QuietPhase DEF MemoryPhase, cpu, pic
<1>7. CASE pic_init
  <2>1. Ends("pic") /\ base' = 32 /\ UNCHANGED <<if, gate, frames, halt>>
    BY <1>7 DEF pic_init, cpu
  <2>2. pc < 21 /\ pc' = pc + 1 /\ busy' = {} /\ frames = <<>> /\ pc = 8 /\ UpInv'
    BY <1>0, <2>1, PhaseEnds, Places
  <2>3. GatesInv'
    BY <2>1, <2>2 DEF IInv, GatesInv
  <2>4. ~if'
    BY <2>1, <2>2 DEF IInv, FramesInv, Open
  <2> QED
    BY <1>0, <2>1, <2>2, <2>3, <2>4, NextPhase
<1>8. CASE init_idt
  <2>1. Ends("idt") /\ gate' = {8, 10, 14, 32, 33} /\ UNCHANGED <<if, frames, halt, base>>
    BY <1>8 DEF init_idt
  <2>2. pc < 21 /\ pc' = pc + 1 /\ busy' = {} /\ frames = <<>> /\ pc = 9 /\ UpInv'
    BY <1>0, <2>1, PhaseEnds, Places
  <2>3. GatesInv'
    BY <2>1, <2>2 DEF IInv, GatesInv
  <2>4. ~if'
    BY <2>1, <2>2 DEF IInv, FramesInv, Open
  <2> QED
    BY <1>0, <2>1, <2>2, <2>3, <2>4, NextPhase
<1>9. CASE PrintPhase
  BY <1>9, QuietPhase DEF PrintPhase, cpu, pic
<1>10. CASE FindModule
  <2>1. CASE Ends("module") /\ UNCHANGED <<console, cpu, pic>>
    BY <2>1, QuietPhase DEF cpu, pic
  <2> QED
    BY <1>3, <1>10, <2>1 DEF FindModule
<1>11. CASE SetFlag
  <2>1. PICK p \in {"sti", "cli", "iretq"} : Ends(p) /\ if' = (p # "cli")
    BY <1>11 DEF SetFlag
  <2>2. UNCHANGED <<gate, frames, halt, base>>
    BY <1>11 DEF SetFlag, pic
  <2>3. pc < 21 /\ pc' = pc + 1 /\ busy' = {} /\ frames = <<>> /\ Phase = p /\ UpInv'
    BY <2>1, PhaseEnds
  <2>4. pc \in {11, 19, 20} /\ (p = "cli" <=> pc = 19)
    BY <1>0, <2>1, <2>3, Places
  <2>5. GatesInv'
    BY <2>2, <2>3, <2>4 DEF IInv, GatesInv
  <2>6. if' \in BOOLEAN /\ (if' => pc' = 12 \/ pc' = 21)
    <3>1. CASE p = "cli"
      BY <2>1, <3>1
    <3>2. CASE p # "cli"
      BY <2>1, <2>3, <2>4, <3>2
    <3> QED
      BY <3>1, <3>2
  <2> QED
    BY <2>2, <2>3, <2>4, <2>5, <2>6, NextPhase
<1> QED
  BY <1>1, <1>2, <1>4, <1>5, <1>6, <1>7, <1>8, <1>9, <1>10, <1>11 DEF BootThread

LEMMA DeviceKeeps ==
    ASSUME IInv, TimerEdge \/ KeyEdge \/ Spurious \/ UNCHANGED vars
    PROVE  IInv'
<1>1. CASE TimerEdge \/ KeyEdge \/ UNCHANGED vars
  <2>1. UNCHANGED <<pc, busy, up, gate, base, frames, if, halt>>
    BY <1>1 DEF TimerEdge, KeyEdge, vars, thread, cpu, pic
  <2> QED
    BY <2>1, Facts, FramesStay
<1>2. CASE Spurious
  <2>1. Fault("spurious") /\ if /\ UNCHANGED <<pc, busy, up, gate, base>>
    BY <1>2 DEF Spurious, thread, pic
  <2>2. frames = <<>>
    BY <2>1 DEF IInv, FramesInv
  <2> QED
    BY <2>1, <2>2, FaultKeeps DEF Causes
<1> QED
  BY <1>1, <1>2

LEMMA ProcessorKeeps ==
    ASSUME IInv, Processor \/ UserTouches
    PROVE  IInv'
<1>0. pc \in 1 .. 21 /\ frames \in Seq(FrameType) /\ FramesInv
  BY Facts DEF IInv
<1>1. ASSUME NEW i \in Irqs, Take(i) PROVE IInv'
  <2>1. if /\ UNCHANGED <<pc, busy, up, gate, base>>
    BY <1>1 DEF Take, thread
  <2>2. frames = <<>> /\ Open
    BY <1>0, <2>1 DEF FramesInv
  <2>3. base + i \in {32, 33} /\ base + i \in gate /\ pc > 9
    BY <2>2 DEF IInv, GatesInv, Irqs, Timer, Keyboard, Open
  <2>4. EnterGate(base + i, "device")
    BY <1>1, <2>3 DEF Take
  <2>5. Outermost(Entered(base + i, "device"))
    BY <2>2, <2>3 DEF Outermost, Entered
  <2> QED
    BY <2>1, <2>2, <2>3, <2>4, <2>5, EntersKeeps DEF Causes
<1>2. CASE UserTouches
  <2>1. /\ EnterGate(14, "demand") /\ frames = <<>> /\ Phase = "user"
        /\ UNCHANGED <<pc, busy, up, gate, base>>
    BY <1>2 DEF UserTouches, Running, thread, pic
  <2>2. pc = 21
    BY <1>0, <2>1, Places
  <2>3. Outermost(Entered(14, "demand"))
    BY <2>2 DEF Outermost, Entered
  <2> QED
    BY <2>1, <2>2, <2>3, EntersKeeps DEF Causes
<1>3. ASSUME NEW h, Serving(h), UNCHANGED Elsewhere
      PROVE  /\ frames # <<>> /\ ~Top.served /\ UNCHANGED <<pc, busy, up, gate, base>>
             /\ h # "page" => Top.cause = "device"
  <2>1. frames # <<>> /\ ~Top.served /\ UNCHANGED <<pc, busy, up, gate, base>>
    BY <1>3 DEF Serving, Elsewhere, thread, pic
  <2>2. Handler(Top.vector) = h /\ Top = frames[Len(frames)] /\ Len(frames) \in DOMAIN frames
    BY <1>0, <1>3, <2>1, LastPlace DEF Serving, Top, Last
  <2>3. h # "page" => Top.vector # 14
    BY <2>2 DEF Handler
  <2>4. h # "page" => Top.cause = "device"
    BY <1>0, <2>1, <2>2, <2>3 DEF FramesInv, Outermost, OnTop
  <2> QED
    BY <2>1, <2>4
<1>4. CASE timer_handler_c
  <2>1. Serving("timer") /\ UNCHANGED Elsewhere /\ (Returns \/ Fault("console"))
    BY <1>4 DEF timer_handler_c, Prints
  <2> QED
    BY <1>3, <2>1, ReturnsKeeps, FaultKeeps DEF Causes
<1>5. CASE keyboard_handler_c
  <2>1. Serving("keyboard") /\ UNCHANGED Elsewhere /\ (Returns \/ \E c \in {"console", "stray"} : Fault(c))
    BY <1>5 DEF keyboard_handler_c, Prints
  <2> QED
    BY <1>3, <2>1, ReturnsKeeps, FaultKeeps DEF Causes
<1>6. CASE page_fault_handler
  <2>1. Serving("page") /\ UNCHANGED Elsewhere
    BY <1>6 DEF page_fault_handler
  <2>2. CASE Top.cause = "demand" /\ Returns
    BY <1>3, <2>1, <2>2, ReturnsKeeps
  <2>3. CASE \E c \in {"console", "stray"} : Fault(c)
    BY <1>3, <2>1, <2>3, FaultKeeps DEF Causes
  <2>4. CASE halt' = "fatal" /\ UNCHANGED <<if, frames>>
    BY <1>3, <2>1, <2>4, Facts, FramesStay
  <2> QED
    BY <1>6, <2>2, <2>3, <2>4 DEF page_fault_handler
<1>7. CASE EndOfInterrupt
  <2>1. /\ frames # <<>> /\ frames' = Front(frames) /\ if' = TRUE /\ Top.served
        /\ UNCHANGED <<pc, busy, up, gate, halt, base>>
    BY <1>7 DEF EndOfInterrupt, thread
  <2>2. Len(frames) \in DOMAIN frames /\ Len(frames) \in Nat /\ Top = frames[Len(frames)]
    BY <1>0, <2>1, LastPlace DEF Top, Last
  <2>3. Len(frames) = 1
    BY <1>0, <2>1, <2>2 DEF FramesInv, OnTop
  <2>4. Open
    BY <1>0, <2>1, <2>2, <2>3 DEF FramesInv, Outermost, Open
  <2>5. frames' = <<>>
    BY <1>0, <2>1, <2>3 DEF Front
  <2>6. FramesInv'
    <3>1. Len(frames') = 0 /\ DOMAIN frames' = {}
      BY <2>5
    <3> QED
      BY <2>1, <2>4, <2>5, <3>1 DEF FramesInv, Open
  <2>7. frames' \in Seq(FrameType)
    BY <2>5
  <2> QED
    BY <2>1, <2>6, <2>7, Facts, StaysInPhase
<1> QED
  BY <1>1, <1>2, <1>4, <1>5, <1>6, <1>7 DEF Processor

LEMMA IInvHolds == Spec => []IInv
<1>1. Init => IInv
  BY InitIInv
<1>2. IInv /\ [Next]_vars => IInv'
  BY BootThreadKeeps, ProcessorKeeps, DeviceKeeps DEF Next
<1> QED
  BY <1>1, <1>2, PTL DEF Spec

----
\* A device's handler starts only over the boot thread or the program, and meets half-done work
\* only between sti and cli.  Whatever faults in the kernel, in a handler, in the boot thread or in
\* page_fault_handler itself, is never answered; the one fault that is comes from ring 3.
THEOREM OneActivity == Spec => []OneInTheKernel
<1>1. IInv => OneInTheKernel
  <2> SUFFICES ASSUME IInv, NEW k \in DOMAIN frames
               PROVE  /\ frames[k].vector # 14 =>
                            /\ k = 1
                            /\ busy \cap HandlerUses(frames[k].vector) # {} => Past("sti") /\ ~Past("cli")
                      /\ frames[k].served =>
                            /\ k = 1 /\ Len(frames) = 1
                            /\ frames[k].vector = 14 =>
                                  frames[k].cause = "demand" /\ Phase = "user" /\ busy = {}
    BY DEF OneInTheKernel
  <2>1. /\ pc \in 1 .. 21 /\ frames \in Seq(FrameType) /\ FramesInv
        /\ busy = {} \/ busy = Uses(Phase)
    BY Facts DEF IInv
  <2>2. frames # <<>> /\ k \in 1 .. Len(frames) /\ Len(frames) \in Nat
    BY <2>1
  <2>3. pc = 21 => Phase = "user" /\ busy = {}
    BY <2>1, Places DEF Uses
  <2>4. ASSUME frames[k].vector # 14
        PROVE  k = 1 /\ (busy \cap HandlerUses(frames[k].vector) # {} => Past("sti") /\ ~Past("cli"))
    <3>1. k = 1 /\ Open
      BY <2>1, <2>2, <2>4 DEF FramesInv, OnTop, Outermost
    <3>2. CASE pc \in 12 .. 19
      BY <2>1, <3>1, <3>2, PastPlaces
    <3>3. CASE pc = 21
      BY <2>3, <3>1, <3>3
    <3> QED
      BY <3>1, <3>2, <3>3 DEF Open
  <2>5. ASSUME frames[k].served
        PROVE  /\ k = 1 /\ Len(frames) = 1
               /\ frames[k].vector = 14 =>
                     frames[k].cause = "demand" /\ Phase = "user" /\ busy = {}
    <3>1. k = 1
      BY <2>1, <2>5 DEF FramesInv, OnTop
    <3>2. Len(frames) = 1
      <4>1. ~(Len(frames) > 1)
        BY <2>1, <2>5, <3>1 DEF FramesInv
      <4> QED
        BY <2>2, <4>1
    <3>3. frames[k].vector = 14 => frames[k].cause = "demand" /\ pc = 21
      BY <2>1, <2>2, <2>5, <3>1 DEF FramesInv, Outermost
    <3> QED
      BY <2>3, <3>1, <3>2, <3>3
  <2> QED
    BY <2>4, <2>5
<1> QED
  BY <1>1, IInvHolds, PTL

\* An interrupt reaches the handler meant for it, when everything that handler works with is set
\* up, no frame is allocated before the bitmap's own are locked, and nothing is printed before
\* there was an attempt to make a console.
THEOREM NothingIsUsedBefore == Spec => []SetUpBeforeUse
<1>1. IInv => SetUpBeforeUse
  <2> SUFFICES ASSUME IInv PROVE SetUpBeforeUse
    OBVIOUS
  <2>1. /\ pc \in 1 .. 21 /\ frames \in Seq(FrameType) /\ FramesInv /\ UpInv /\ halt # "gate"
        /\ busy = {} \/ busy = Uses(Phase)
    BY Facts DEF IInv
  <2>2. ASSUME NEW k \in DOMAIN frames
        PROVE  /\ frames[k].cause # "gate"
               /\ Frame \cup {"tables", "gdt", "pic", "idt"} \subseteq up
               /\ Past("iretq") => {"rsp0", "files"} \subseteq up
               /\ Handler(frames[k].vector) \in {"timer", "keyboard", "page"}
    <3>1. frames # <<>> /\ frames[k].vector \in {14, 32, 33} /\ frames[k].cause # "gate"
      <4>1. frames[k] \in FrameType
        BY <2>1, Element
      <4> QED
        BY <4>1 DEF FrameType, Causes
    <3>2. pc > 9
      BY <2>1, <3>1 DEF FramesInv
    <3>3. Handler(frames[k].vector) \in {"timer", "keyboard", "page"}
      BY <3>1 DEF Handler
    <3>4. Past("iretq") => pc > 20
      BY <2>1, PastPlaces
    <3> QED
      BY <2>1, <3>1, <3>2, <3>3, <3>4 DEF UpInv, Frame
  <2>3. ASSUME "pmm" \in busy, Phase \notin {"pmm_init", "regions", "lock"}
        PROVE  Frame \subseteq up
    <3>1. "pmm" \in Uses(Phase)
      BY <2>1, <2>3
    <3>2. pc > 5
      BY <2>1, <2>3, <3>1, Places DEF Uses
    <3> QED
      BY <2>1, <3>2 DEF UpInv, Frame
  <2>4. ASSUME "console" \in busy PROVE Past("console")
    <3>1. "console" \in Uses(Phase)
      BY <2>1, <2>4
    <3>2. pc > 2
      BY <2>1, <3>1, Places DEF Uses
    <3> QED
      BY <2>1, <3>2, PastPlaces
  <2> QED
    BY <2>1, <2>2, <2>3, <2>4 DEF SetUpBeforeUse
<1> QED
  BY <1>1, IInvHolds, PTL

----
\* What a console takes from the pool.

LEMMA PartsAreNumbers ==
    ASSUME NEW d \in Displays, NEW i \in 1 .. 7
    PROVE  Parts(d[1], d[2])[i] \in Nat
<1>1. d[1] \in Nat /\ d[2] \in Nat
  <2>1. d \in (Nat \ {0}) \X (Nat \ {0})
    BY BootAssumption
  <2> QED
    BY <2>1
<1>2. ASSUME NEW w \in Nat, NEW h \in Nat
      PROVE  Cells(w, h) \in Nat /\ 4 * w * h \in Nat
  <2>1. Scale(w, h) \in {1, 2, 4}
    BY DEF Scale
  <2>2. w \div (9 * Scale(w, h)) \in Nat /\ h \div (16 * Scale(w, h)) \in Nat
    BY <2>1
  <2>3. \A a, b \in Nat : a * b \in Nat
    OBVIOUS
  <2>4. Cells(w, h) \in Nat
    BY <2>2, <2>3 DEF Cells
  <2>5. 4 * w \in Nat
    OBVIOUS
  <2> QED
    BY <2>3, <2>4, <2>5
<1>3. Cells(d[1], d[2]) \in Nat /\ 4 * d[1] * d[2] \in Nat
  BY <1>1, <1>2
<1> DEFINE c == Cells(d[1], d[2])
           a == 4 * d[1] * d[2]
<1>4. c \in Nat /\ a \in Nat
  BY <1>3
<1>5. Parts(d[1], d[2]) = <<784, (8 * 16 * 256) \div 8, 256 * 16 * 9, 12 * c, 32 * c, 8 * c, a>>
  BY DEF Parts
<1> HIDE DEF c, a
<1>6. /\ 784 \in Nat /\ (8 * 16 * 256) \div 8 \in Nat /\ 256 * 16 * 9 \in Nat
      /\ 12 * c \in Nat /\ 32 * c \in Nat /\ 8 * c \in Nat
  BY <1>4
<1> QED
  BY <1>4, <1>5, <1>6

LEMMA SumsExist ==
    ASSUME NEW p, \A i \in 1 .. 7 : p[i] \in Nat
    PROVE  \E f : f = [n \in 0 .. 7 |-> IF n = 0 THEN 0 ELSE f[n - 1] + p[n]]
<1> DEFINE s1 == p[1]
           s2 == s1 + p[2]
           s3 == s2 + p[3]
           s4 == s3 + p[4]
           s5 == s4 + p[5]
           s6 == s5 + p[6]
           s7 == s6 + p[7]
           f == [n \in 0 .. 7 |-> IF n = 0 THEN 0 ELSE IF n = 1 THEN s1 ELSE
                                  IF n = 2 THEN s2 ELSE IF n = 3 THEN s3 ELSE
                                  IF n = 4 THEN s4 ELSE IF n = 5 THEN s5 ELSE
                                  IF n = 6 THEN s6 ELSE s7]
<1>1. p[1] = 0 + p[1]
  OBVIOUS
<1>2. ASSUME NEW n \in 0 .. 7
      PROVE  f[n] = IF n = 0 THEN 0 ELSE f[n - 1] + p[n]
  <2>0. /\ f[0] = 0 /\ f[1] = s1 /\ f[2] = s2 /\ f[3] = s3
        /\ f[4] = s4 /\ f[5] = s5 /\ f[6] = s6 /\ f[7] = s7
    <3> HIDE DEF s1, s2, s3, s4, s5, s6, s7
    <3> QED
      OBVIOUS
  <2>1. /\ s2 = s1 + p[2] /\ s3 = s2 + p[3] /\ s4 = s3 + p[4]
        /\ s5 = s4 + p[5] /\ s6 = s5 + p[6] /\ s7 = s6 + p[7] /\ s1 = 0 + p[1]
    BY <1>1
  <2> HIDE DEF f, s1, s2, s3, s4, s5, s6, s7
  <2>2. /\ 1 - 1 = 0 /\ 2 - 1 = 1 /\ 3 - 1 = 2 /\ 4 - 1 = 3 /\ 5 - 1 = 4 /\ 6 - 1 = 5 /\ 7 - 1 = 6
    OBVIOUS
  <2>3. n = 0 \/ n = 1 \/ n = 2 \/ n = 3 \/ n = 4 \/ n = 5 \/ n = 6 \/ n = 7
    OBVIOUS
  <2> QED
    BY <2>0, <2>1, <2>2, <2>3
<1>3. f = [n \in 0 .. 7 |-> f[n]]
  <2> HIDE DEF s1, s2, s3, s4, s5, s6, s7
  <2> QED
    OBVIOUS
<1> HIDE DEF f
<1>4. f = [n \in 0 .. 7 |-> IF n = 0 THEN 0 ELSE f[n - 1] + p[n]]
  BY <1>2, <1>3
<1> QED
  BY <1>4

\* Part after part, the console's bytes only grow.
LEMMA TakenGrows ==
    ASSUME NEW d \in Displays
    PROVE  /\ Taken[d][0] = 0
           /\ \A n \in 0 .. 7 : Taken[d][n] \in Nat
           /\ \A n \in 0 .. 6 : Taken[d][n] <= Taken[d][n + 1]
<1> DEFINE p == Parts(d[1], d[2])
           t == Taken[d]
<1>1. \A i \in 1 .. 7 : p[i] \in Nat
  BY PartsAreNumbers
<1>2. t = CHOOSE f : f = [n \in 0 .. 7 |-> IF n = 0 THEN 0 ELSE f[n - 1] + p[n]]
  BY DEF Taken
<1> HIDE DEF p, t
<1>3. t = [n \in 0 .. 7 |-> IF n = 0 THEN 0 ELSE t[n - 1] + p[n]]
  <2>1. \E f : f = [n \in 0 .. 7 |-> IF n = 0 THEN 0 ELSE f[n - 1] + p[n]]
    BY <1>1, SumsExist
  <2> QED
    BY <1>2, <2>1
<1>4. t[0] = 0 /\ \A n \in 1 .. 7 : t[n] = t[n - 1] + p[n]
  BY <1>3
<1>5. /\ t[1] = t[0] + p[1] /\ t[2] = t[1] + p[2] /\ t[3] = t[2] + p[3] /\ t[4] = t[3] + p[4]
      /\ t[5] = t[4] + p[5] /\ t[6] = t[5] + p[6] /\ t[7] = t[6] + p[7]
  BY <1>4
<1>6. /\ t[1] \in Nat /\ t[2] \in Nat /\ t[3] \in Nat /\ t[4] \in Nat
      /\ t[5] \in Nat /\ t[6] \in Nat /\ t[7] \in Nat /\ t[0] \in Nat
  <2>1. t[1] \in Nat
    BY <1>1, <1>4, <1>5
  <2>2. t[2] \in Nat
    BY <1>1, <1>5, <2>1
  <2>3. t[3] \in Nat
    BY <1>1, <1>5, <2>2
  <2>4. t[4] \in Nat
    BY <1>1, <1>5, <2>3
  <2>5. t[5] \in Nat
    BY <1>1, <1>5, <2>4
  <2>6. t[6] \in Nat
    BY <1>1, <1>5, <2>5
  <2> QED
    BY <1>1, <1>4, <1>5, <2>1, <2>2, <2>3, <2>4, <2>5, <2>6
<1>7. \A n \in 0 .. 7 : t[n] \in Nat
  <2> SUFFICES ASSUME NEW n \in 0 .. 7 PROVE t[n] \in Nat
    OBVIOUS
  <2>1. n = 0 \/ n = 1 \/ n = 2 \/ n = 3 \/ n = 4 \/ n = 5 \/ n = 6 \/ n = 7
    OBVIOUS
  <2> QED
    BY <1>6, <2>1
<1>8. \A n \in 0 .. 6 : t[n] <= t[n + 1]
  <2> SUFFICES ASSUME NEW n \in 0 .. 6 PROVE t[n] <= t[n + 1]
    OBVIOUS
  <2>1. n + 1 \in 1 .. 7 /\ (n + 1) - 1 = n /\ n \in 0 .. 7 /\ n + 1 \in 0 .. 7
    OBVIOUS
  <2>2. t[n + 1] = t[n] + p[n + 1]
    BY <1>4, <2>1
  <2> QED
    BY <1>1, <1>7, <2>1, <2>2
<1> QED
  BY <1>4, <1>7, <1>8 DEF t

\* All seven parts fit if and only if their sum does.
LEMMA AllOrNotAll ==
    ASSUME NEW d \in Displays, NEW ptr \in Nat, ptr <= PoolBytes
    PROVE  /\ Need(d) \in Nat /\ Taken[d][7] = Need(d)
           /\ Fitting(d, ptr) = 7 <=> ptr + Need(d) <= PoolBytes
<1> DEFINE t == Taken[d]
<1>1. /\ t[0] = 0 /\ \A n \in 0 .. 7 : t[n] \in Nat
      /\ \A n \in 0 .. 6 : t[n] <= t[n + 1]
  BY TakenGrows
<1>2. PoolBytes \in Nat
  BY BootAssumption
<1>3. Need(d) = t[7]
  BY DEF Need
<1> DEFINE Fits(n) == ptr + t[n] <= PoolBytes /\ (n < 7 => ptr + t[n + 1] > PoolBytes)
<1>4. Fitting(d, ptr) = CHOOSE n \in 0 .. 7 : Fits(n)
  BY DEF Fitting
<1> HIDE DEF t
<1>5. \E n \in 0 .. 7 : Fits(n)
  <2> SUFFICES ASSUME \A n \in 0 .. 7 : ~ Fits(n) PROVE FALSE
    OBVIOUS
  <2>1. ASSUME NEW n \in 0 .. 6, ptr + t[n] <= PoolBytes
        PROVE  ptr + t[n + 1] <= PoolBytes
    <3>1. n \in 0 .. 7 /\ n + 1 \in 0 .. 7 /\ n < 7
      OBVIOUS
    <3>2. ~ (ptr + t[n + 1] > PoolBytes)
      BY <2>1, <3>1
    <3> QED
      BY <1>1, <1>2, <3>1, <3>2
  <2>2. ptr + t[0] <= PoolBytes
    BY <1>1, <1>2
  <2>3. ptr + t[1] <= PoolBytes
    BY <2>1, <2>2
  <2>4. ptr + t[2] <= PoolBytes
    BY <2>1, <2>3
  <2>5. ptr + t[3] <= PoolBytes
    BY <2>1, <2>4
  <2>6. ptr + t[4] <= PoolBytes
    BY <2>1, <2>5
  <2>7. ptr + t[5] <= PoolBytes
    BY <2>1, <2>6
  <2>8. ptr + t[6] <= PoolBytes
    BY <2>1, <2>7
  <2>9. ptr + t[7] <= PoolBytes
    BY <2>1, <2>8
  <2> QED
    BY <2>9
<1> DEFINE f == Fitting(d, ptr)
<1>6. f \in 0 .. 7 /\ Fits(f)
  BY <1>4, <1>5
<1> HIDE DEF f
<1>7. ASSUME f = 7
      PROVE  ptr + t[7] <= PoolBytes
  BY <1>6, <1>7
<1>8. ASSUME f # 7
      PROVE  ptr + t[7] > PoolBytes
  <2>1. f \in 0 .. 6 /\ f + 1 \in 1 .. 7 /\ ptr + t[f + 1] > PoolBytes
    BY <1>6, <1>8
  <2>2. ASSUME NEW n \in 0 .. 6, ptr + t[n] > PoolBytes
        PROVE  ptr + t[n + 1] > PoolBytes
    <3>1. n \in 0 .. 7 /\ n + 1 \in 0 .. 7
      OBVIOUS
    <3> QED
      BY <1>1, <1>2, <2>2, <3>1
  <2>3. ptr + t[7] > PoolBytes
    <3>1. f + 1 = 1 \/ f + 1 = 2 \/ f + 1 = 3 \/ f + 1 = 4 \/ f + 1 = 5 \/ f + 1 = 6 \/ f + 1 = 7
      BY <2>1
    <3>2. ptr + t[1] > PoolBytes => ptr + t[2] > PoolBytes
      BY <2>2
    <3>3. ptr + t[2] > PoolBytes => ptr + t[3] > PoolBytes
      BY <2>2
    <3>4. ptr + t[3] > PoolBytes => ptr + t[4] > PoolBytes
      BY <2>2
    <3>5. ptr + t[4] > PoolBytes => ptr + t[5] > PoolBytes
      BY <2>2
    <3>6. ptr + t[5] > PoolBytes => ptr + t[6] > PoolBytes
      BY <2>2
    <3>7. ptr + t[6] > PoolBytes => ptr + t[7] > PoolBytes
      BY <2>2
    <3> QED
      BY <2>1, <3>1, <3>2, <3>3, <3>4, <3>5, <3>6, <3>7
  <2> QED
    BY <2>3
<1>9. f = 7 <=> ptr + Need(d) <= PoolBytes
  <2>1. t[7] \in Nat /\ ~ (ptr + t[7] > PoolBytes /\ ptr + t[7] <= PoolBytes)
    BY <1>1, <1>2
  <2> QED
    BY <1>3, <1>7, <1>8, <2>1
<1>10. Need(d) \in Nat
  BY <1>1, <1>3
<1> QED
  BY <1>3, <1>9, <1>10 DEF f, t

----
\* The consoles, one behind the other from the pool's beginning.  The second is made in the
\* phase "remap" (place 13 of Order), and printf is called after the first (place 2).

ChainInv ==
    \/ consoles = <<>> /\ pool = 0
    \/ consoles = << <<0, Need(display)>> >> /\ pool = Need(display) /\ pc > 2
    \/ /\ consoles = << <<0, Need(display)>>, <<Need(display), 2 * Need(display)>> >>
       /\ pool = 2 * Need(display) /\ pc > 13

Silent == halt # "console" /\ \A k \in DOMAIN frames : frames[k].cause # "console"

ConsoleInv ==
    /\ pc > 1 => display \in Displays
    /\ ChainInv
    /\ pool \in 0 .. PoolBytes
    /\ pc > 2 => (ft_ctx = 0 => 2 * Need(display) > PoolBytes)
    /\ Silent \/ 2 * Need(display) > PoolBytes

LEMMA AppendOne ==
    ASSUME NEW S, NEW x \in S, NEW y \in S
    PROVE  Append(<<x>>, y) = <<x, y>>
<1> DEFINE s == Append(<<x>>, y)
           t == <<x, y>>
<1>1. <<x>> \in Seq(S) /\ Len(<<x>>) = 1 /\ t \in Seq(S) /\ DOMAIN t = 1 .. 2
  OBVIOUS
<1>2. s \in Seq(S) /\ Len(s) = 2 /\ s[1] = x /\ s[2] = y
  BY <1>1
<1>3. t[1] = x /\ t[2] = y /\ Len(t) = 2
  BY <1>1
<1> HIDE DEF s, t
<1>4. s = [i \in 1 .. 2 |-> s[i]] /\ t = [i \in 1 .. 2 |-> t[i]]
  BY <1>1, <1>2, <1>3
<1>5. \A i \in 1 .. 2 : s[i] = t[i]
  BY <1>2, <1>3
<1>6. s = t
  BY <1>4, <1>5
<1> QED
  BY <1>6 DEF s, t

\* What the steps of the processor do to Silent.
LEMMA SilentSteps ==
    ASSUME IInv, Silent
    PROVE  /\ UNCHANGED <<halt, frames>> => Silent'
           /\ \A v, c : EnterGate(v, c) /\ c # "console" => Silent'
           /\ \A c : Fault(c) /\ c # "console" => Silent'
           /\ Returns => Silent'
           /\ halt' \in {"no", "hcf", "fatal"} /\ (frames' = frames \/ frames' = Front(frames)) => Silent'
<1>0. frames \in Seq(FrameType)
  BY Facts
<1>1. UNCHANGED <<halt, frames>> => Silent'
  BY DEF Silent
<1>2. ASSUME NEW v, NEW c, EnterGate(v, c), c # "console" PROVE Silent'
  <2> DEFINE e == Entered(v, c)
  <2>1. frames' = Append(frames, e) /\ halt' = halt /\ e.cause # "console"
    BY <1>2 DEF EnterGate, Entered
  <2> HIDE DEF e
  <2>2. \A k \in DOMAIN frames' : (k \in DOMAIN frames /\ frames'[k] = frames[k]) \/ frames'[k] = e
    BY <1>0, <2>1
  <2> QED
    BY <2>1, <2>2 DEF Silent
<1>3. ASSUME NEW c, Fault(c), c # "console" PROVE Silent'
  BY <1>2, <1>3 DEF Fault, Silent
<1>4. ASSUME Returns PROVE Silent'
  <2>1. halt' = halt /\ frames' = [frames EXCEPT ![Len(frames)] = [@ EXCEPT !.served = TRUE]]
    BY <1>4 DEF Returns
  <2>2. ASSUME NEW k \in DOMAIN frames PROVE k \in DOMAIN frames' /\ frames'[k].cause = frames[k].cause
    <3>1. frames[k] \in FrameType
      BY <1>0, Element
    <3> QED
      BY <2>1, <3>1 DEF FrameType
  <2>3. DOMAIN frames' = DOMAIN frames
    BY <2>1
  <2> QED
    BY <2>1, <2>2, <2>3 DEF Silent
<1>5. ASSUME halt' \in {"no", "hcf", "fatal"}, frames' = frames \/ frames' = Front(frames) PROVE Silent'
  <2>1. CASE frames' = Front(frames)
    <3>1. \A k \in DOMAIN frames' : k \in DOMAIN frames /\ frames'[k] = frames[k]
      BY <1>0, <2>1 DEF Front
    <3> QED
      BY <1>5, <3>1 DEF Silent
  <2> QED
    BY <1>5, <2>1 DEF Silent
<1> QED
  BY <1>1, <1>2, <1>3, <1>4, <1>5

\* Only a console that was made takes from the pool, and only it moves the pool's pointer.
LEMMA ConsoleStays ==
    ASSUME IInv, ConsoleInv, UNCHANGED <<display, console>>,
           pc' = pc \/ (pc' = pc + 1 /\ pc # 2), pc' # pc => display \in Displays,
           Silent => Silent' \/ (pc > 2 /\ ft_ctx = 0)
    PROVE  ConsoleInv'
<1>1. pc \in 1 .. 21 /\ UNCHANGED <<display, ft_ctx, pool, consoles>>
  BY DEF IInv, TypeInv, console
<1>2. Need(display)' = Need(display)
  BY <1>1 DEF Need
<1> DEFINE s == Need(display)
<1> HIDE DEF s
<1>3. ChainInv'
  <2>1. \/ consoles' = <<>> /\ pool' = 0
        \/ consoles' = << <<0, s>> >> /\ pool' = s /\ pc' > 2
        \/ /\ consoles' = << <<0, s>>, <<s, 2 * s>> >>
           /\ pool' = 2 * s /\ pc' > 13
    BY <1>1 DEF ConsoleInv, ChainInv, s
  <2> QED
    BY <1>2, <2>1 DEF ChainInv, s
<1>4. pc' > 1 => display' \in Displays
  BY <1>1 DEF ConsoleInv
<1>5. pool' \in 0 .. PoolBytes
  BY <1>1 DEF ConsoleInv
<1>6. pc' > 2 => (ft_ctx' = 0 => 2 * s > PoolBytes)
  <2>1. pc > 2 => (ft_ctx = 0 => 2 * s > PoolBytes)
    BY DEF ConsoleInv, s
  <2>2. pc' > 2 => pc > 2
    BY <1>1
  <2> QED
    BY <1>1, <2>1, <2>2
<1>7. Silent' \/ 2 * s > PoolBytes
  BY DEF ConsoleInv, s
<1> QED
  BY <1>2, <1>3, <1>4, <1>5, <1>6, <1>7 DEF ConsoleInv, s

\* flanterm_fb_init: the new console is the next stretch, or nothing is taken.
LEMMA ConsoleIsMade ==
    ASSUME IInv, ConsoleInv, MakeConsole
    PROVE  ConsoleInv'
<1> DEFINE s == Need(display)
<1>1. PICK p \in {"console", "remap"} : Ends(p)
  BY DEF MakeConsole
<1>2. flanterm_fb_init(display) /\ UNCHANGED <<display, halt, frames>>
  BY <1>1 DEF MakeConsole, Ends, loader, cpu
<1>3. pc < 21 /\ pc' = pc + 1 /\ Phase = p /\ pc \in 1 .. 21
  BY <1>1, PhaseEnds DEF IInv, TypeInv
<1>4. pc = 2 \/ pc = 13
  BY <1>1, <1>3, Places
<1>5. display \in Displays /\ pool \in Nat /\ pool <= PoolBytes /\ PoolBytes \in Nat
  BY <1>4, BootAssumption DEF ConsoleInv
<1> DEFINE n == Fitting(display, pool)
<1>6. s \in Nat /\ Taken[display][7] = s /\ (n = 7 <=> pool + s <= PoolBytes)
  BY <1>5, AllOrNotAll
<1>7. Need(display)' = s
  BY <1>2 DEF Need
<1>8. /\ pool' = IF n = 7 THEN pool + Taken[display][n] ELSE pool
      /\ consoles' = IF n = 7 THEN Append(consoles, <<pool, pool'>>) ELSE consoles
      /\ ft_ctx' = IF n = 7 THEN Len(consoles') ELSE 0
  BY <1>2 DEF flanterm_fb_init
<1>9. \/ consoles = <<>> /\ pool = 0
      \/ consoles = << <<0, s>> >> /\ pool = s /\ pc = 13
  BY <1>3, <1>4 DEF ConsoleInv, ChainInv
<1>10. Silent' \/ 2 * s > PoolBytes
  BY <1>2 DEF ConsoleInv, Silent
<1> HIDE DEF n, s
<1>11. CASE n = 7
  <2>1. pool' = pool + s /\ consoles' = Append(consoles, <<pool, pool'>>) /\ ft_ctx' = Len(consoles')
    BY <1>6, <1>8, <1>11
  <2>2. pool' \in 0 .. PoolBytes
    BY <1>5, <1>6, <1>11, <2>1
  <2>3. /\ ChainInv'
        /\ ft_ctx' # 0
    <3>1. CASE consoles = <<>> /\ pool = 0
      <4>1. pool' = s /\ consoles' = << <<0, s>> >> /\ pc' > 2
        BY <1>3, <1>4, <1>6, <2>1, <3>1
      <4>2. ft_ctx' # 0
        BY <2>1, <4>1
      <4>3. ChainInv'
        BY <1>7, <4>1 DEF ChainInv
      <4> QED
        BY <4>2, <4>3
    <3>2. CASE consoles = << <<0, s>> >> /\ pool = s /\ pc = 13
      <4>0. s + s = 2 * s /\ 13 + 1 > 13
        BY <1>6
      <4>1. pool' = 2 * s /\ pc' > 13
        BY <1>3, <2>1, <3>2, <4>0
      <4>2. Append(<< <<0, s>> >>, <<s, 2 * s>>) = << <<0, s>>, <<s, 2 * s>> >>
        <5>1. <<0, s>> \in Nat \X Nat /\ <<s, 2 * s>> \in Nat \X Nat
          BY <1>6
        <5> QED
          BY <5>1, AppendOne
      <4>3. consoles' = << <<0, s>>, <<s, 2 * s>> >>
        BY <2>1, <3>2, <4>1, <4>2
      <4>4. ft_ctx' # 0
        BY <2>1, <4>3
      <4>5. ChainInv'
        BY <1>7, <4>1, <4>3 DEF ChainInv
      <4> QED
        BY <4>4, <4>5
    <3> QED
      BY <1>9, <3>1, <3>2
  <2> QED
    BY <1>2, <1>5, <1>7, <1>10, <2>2, <2>3 DEF ConsoleInv
<1>12. CASE n # 7
  <2>1. pool' = pool /\ consoles' = consoles /\ pool + s > PoolBytes
    BY <1>5, <1>6, <1>8, <1>12
  <2>2. 2 * s > PoolBytes
    BY <1>5, <1>6, <1>9, <2>1
  <2>3. ChainInv'
    BY <1>3, <1>4, <1>7, <1>9, <2>1 DEF ChainInv
  <2>4. pool' \in 0 .. PoolBytes
    BY <1>5, <2>1
  <2> QED
    BY <1>2, <1>5, <1>7, <2>2, <2>3, <2>4 DEF ConsoleInv
<1> QED
  BY <1>11, <1>12

\* A phase that makes no console moves on.
LEMMA PhaseStays ==
    ASSUME IInv, ConsoleInv, NEW p, p \notin {"user", "console"}, Ends(p),
           UNCHANGED <<console, halt, frames>>, p = "check" => display \in Displays
    PROVE  ConsoleInv'
<1>1. pc < 21 /\ pc' = pc + 1 /\ Phase = p /\ pc \in 1 .. 21
  BY PhaseEnds DEF IInv, TypeInv
<1>2. pc # 2 /\ (pc = 1 => p = "check")
  BY <1>1, Places
<1>3. display \in Displays /\ UNCHANGED display
  BY <1>1, <1>2 DEF ConsoleInv, Ends, loader
<1>4. Silent => Silent'
  BY SilentSteps
<1> QED
  BY <1>1, <1>2, <1>3, <1>4, ConsoleStays

\* One that faults prints without a console, or does not print.
LEMMA PhaseFaultsLate ==
    ASSUME IInv, PhaseFaults
    PROVE  Silent => Silent' \/ (pc > 2 /\ ft_ctx = 0)
<1>1. CASE "console" \in Uses(Phase) /\ ft_ctx = 0
  <2>1. pc > 2
    BY <1>1, Facts, Places DEF Uses
  <2> QED
    BY <1>1, <2>1
<1>2. CASE Fault("stray")
  BY <1>2, SilentSteps
<1> QED
  BY <1>1, <1>2 DEF PhaseFaults

LEMMA BootThreadChain ==
    ASSUME IInv, ConsoleInv, display \in Displays \cup {NoDisplay}, BootThread
    PROVE  ConsoleInv'
<1>1. CASE Begin
  <2>1. UNCHANGED <<display, pc, console, halt, frames>>
    BY <1>1 DEF Begin, loader, cpu
  <2> QED
    BY <2>1, SilentSteps, ConsoleStays
<1>2. CASE PhaseFaults
  <2>1. UNCHANGED <<display, pc, console>>
    BY <1>2 DEF PhaseFaults, loader, thread
  <2> QED
    BY <1>2, <2>1, PhaseFaultsLate, ConsoleStays
<1>3. ASSUME hcf PROVE ConsoleInv'
  <2>1. UNCHANGED <<display, pc, console, frames>> /\ halt' = "hcf"
    BY <1>3 DEF hcf, loader, thread
  <2> QED
    BY <2>1, SilentSteps, ConsoleStays
<1>4. CASE CheckDisplay
  <2>1. CASE display # NoDisplay /\ Ends("check") /\ UNCHANGED <<console, cpu, pic>>
    BY <2>1, PhaseStays DEF cpu
  <2> QED
    BY <1>3, <1>4, <2>1 DEF CheckDisplay
<1>5. CASE MakeConsole
  BY <1>5, ConsoleIsMade
<1>6. CASE MemoryPhase
  BY <1>6, PhaseStays DEF MemoryPhase, cpu
<1>7. CASE pic_init
  BY <1>7, PhaseStays DEF pic_init, cpu
<1>8. CASE init_idt
  BY <1>8, PhaseStays DEF init_idt
<1>9. CASE PrintPhase
  BY <1>9, PhaseStays DEF PrintPhase, cpu
<1>10. CASE FindModule
  <2>1. CASE Ends("module") /\ UNCHANGED <<console, cpu, pic>>
    BY <2>1, PhaseStays DEF cpu
  <2> QED
    BY <1>3, <1>10, <2>1 DEF FindModule
<1>11. CASE SetFlag
  BY <1>11, PhaseStays DEF SetFlag
<1> QED
  BY <1>1, <1>2, <1>4, <1>5, <1>6, <1>7, <1>8, <1>9, <1>10, <1>11 DEF BootThread

LEMMA RestChain ==
    ASSUME IInv, ConsoleInv,
           UserTouches \/ Processor \/ TimerEdge \/ KeyEdge \/ Spurious \/ UNCHANGED vars
    PROVE  ConsoleInv'
<1>1. UNCHANGED <<display, pc, console>>
  BY DEF UserTouches, Processor, Take, timer_handler_c, keyboard_handler_c, page_fault_handler,
         Elsewhere, EndOfInterrupt, TimerEdge, KeyEdge, Spurious, vars, loader, thread
<1>2. Silent => Silent' \/ (pc > 2 /\ ft_ctx = 0)
  <2> SUFFICES ASSUME Silent PROVE Silent' \/ (pc > 2 /\ ft_ctx = 0)
    OBVIOUS
  <2>1. ASSUME NEW h, Serving(h) PROVE pc > 2 /\ halt = "no"
    BY <2>1, Facts DEF Serving, IInv, FramesInv
  <2>2. CASE UserTouches \/ TimerEdge \/ KeyEdge \/ UNCHANGED vars
    BY <2>2, SilentSteps DEF UserTouches, TimerEdge, KeyEdge, vars, cpu
  <2>3. CASE Spurious
    BY <2>3, SilentSteps DEF Spurious
  <2>4. ASSUME NEW i \in Irqs, Take(i) PROVE Silent'
    BY <2>4, SilentSteps DEF Take
  <2>5. CASE timer_handler_c
    BY <2>1, <2>5, SilentSteps DEF timer_handler_c, Prints
  <2>6. CASE keyboard_handler_c
    BY <2>1, <2>6, SilentSteps DEF keyboard_handler_c, Prints
  <2>7. CASE page_fault_handler
    BY <2>1, <2>7, SilentSteps DEF page_fault_handler
  <2>8. CASE EndOfInterrupt
    BY <2>8, SilentSteps DEF EndOfInterrupt
  <2> QED
    BY <2>2, <2>3, <2>4, <2>5, <2>6, <2>7, <2>8 DEF Processor
<1> QED
  BY <1>1, <1>2, ConsoleStays

LEMMA InitConsoleInv == Init => ConsoleInv /\ display \in Displays \cup {NoDisplay}
<1> SUFFICES ASSUME Init PROVE ConsoleInv /\ display \in Displays \cup {NoDisplay}
  OBVIOUS
<1>1. /\ pc = 1 /\ pool = 0 /\ consoles = <<>> /\ halt = "no" /\ frames = <<>>
      /\ display \in Displays \cup {NoDisplay}
  BY DEF Init
<1> QED
  BY <1>1, BootAssumption DEF ConsoleInv, ChainInv, Silent

LEMMA DisplayStays == [Next]_vars => UNCHANGED display
BY DEF Next, vars, loader, BootThread, Begin, PhaseFaults, CheckDisplay, hcf, Ends, MakeConsole, MemoryPhase,
       pic_init, init_idt, PrintPhase, FindModule, SetFlag, UserTouches, Processor, Take,
       timer_handler_c, keyboard_handler_c, page_fault_handler, Elsewhere, EndOfInterrupt,
       TimerEdge, KeyEdge, Spurious

\* The consoles lie in flanterm's pool and apart, a console that does not fit takes nothing, and
\* neither the boot thread nor any handler prints through a NULL console unless two consoles are
\* larger than the pool.
THEOREM ConsolesLieApart == Spec => []ConsolesApart
<1> DEFINE J == IInv /\ ConsoleInv /\ display \in Displays \cup {NoDisplay}
<1>1. Init => J
  BY InitIInv, InitConsoleInv
<1>2. J /\ [Next]_vars => J'
  <2> SUFFICES ASSUME J, [Next]_vars PROVE J'
    OBVIOUS
  <2>1. IInv'
    BY BootThreadKeeps, ProcessorKeeps, DeviceKeeps DEF Next
  <2>2. ConsoleInv'
    BY BootThreadChain, RestChain DEF Next
  <2>3. display' = display
    BY DisplayStays
  <2> QED
    BY <2>1, <2>2, <2>3
<1>3. J => ConsolesApart
  <2> SUFFICES ASSUME IInv, ConsoleInv PROVE ConsolesApart
    OBVIOUS
  <2> DEFINE s == Need(display)
  <2>1. /\ pool \in 0 .. PoolBytes /\ (Silent \/ 2 * s > PoolBytes)
        /\ PoolBytes \in Nat
    BY BootAssumption DEF ConsoleInv
  <2>2. \/ consoles = <<>> /\ pool = 0
        \/ consoles = << <<0, s>> >> /\ pool = s /\ s \in Nat
        \/ consoles = << <<0, s>>, <<s, 2 * s>> >> /\ pool = 2 * s /\ s \in Nat
    <3>1. pc > 2 \/ pc > 13 => display \in Displays
      BY DEF ConsoleInv, IInv, TypeInv
    <3>2. display \in Displays => s \in Nat
      BY TakenGrows DEF Need
    <3> QED
      BY <3>1, <3>2 DEF ConsoleInv, ChainInv
  <2> HIDE DEF s
  <2>3. /\ \A k \in DOMAIN consoles :
               /\ consoles[k][1] = (IF k = 1 THEN 0 ELSE consoles[k - 1][2])
               /\ consoles[k][2] - consoles[k][1] = s
        /\ pool = (IF consoles = <<>> THEN 0 ELSE Last(consoles)[2])
    <3>1. CASE consoles = <<>> /\ pool = 0
      BY <3>1
    <3>2. CASE consoles = << <<0, s>> >> /\ pool = s /\ s \in Nat
      BY <3>2 DEF Last
    <3>3. CASE consoles = << <<0, s>>, <<s, 2 * s>> >> /\ pool = 2 * s /\ s \in Nat
      <4>1. DOMAIN consoles = {1, 2} /\ Len(consoles) = 2
        BY <3>3
      <4>2. consoles[1] = <<0, s>> /\ consoles[2] = <<s, 2 * s>>
        BY <3>3
      <4>3. 2 * s - s = s /\ s - 0 = s
        BY <3>3
      <4> QED
        BY <3>3, <4>1, <4>2, <4>3 DEF Last
    <3> QED
      BY <2>2, <3>1, <3>2, <3>3
  <2> QED
    BY <2>1, <2>3 DEF ConsolesApart, Silent, s
<1> QED
  BY <1>1, <1>2, <1>3, IInvHolds, PTL DEF Spec
====
