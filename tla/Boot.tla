---- MODULE Boot ----
(***************************************************************************)
(* _start of main.c from the boot loader's hand-over to ring 3, with the   *)
(* interrupt controller, the gates of idt.c and the two devices that may   *)
(* interrupt it.  There is one processor: an activity is the boot thread,  *)
(* then the user program, with the interrupts and page faults stacked on   *)
(* top of it.  What an activity does to the kernel's data is left to the   *)
(* other modules; here it is the set of shared structures it is in the     *)
(* midst of.  An access that faults enters vector 14 wherever it is made:  *)
(* in the user program, in the boot thread, in a handler of a device or in *)
(* page_fault_handler itself.                                              *)
(*                                                                         *)
(* The consoles are allocated from flanterm's pool, in bytes.              *)
(***************************************************************************)
EXTENDS Integers, Sequences, SequencesExt

CONSTANTS
    PoolBytes,      \* FLANTERM_FB_BUMP_ALLOC_POOL_SIZE          (67108864)
    Displays,       \* the sizes a framebuffer may have, <<width, height>>
    MaxTicks,       \* bound: edges of the timer's line
    MaxKeys,        \* bound: bytes the keyboard sends
    MaxFrames       \* bound: interrupts and page faults on top of each other

Timer == 0
Keyboard == 1
Irqs == {Timer, Keyboard}

ASSUME BootAssumption ==
    /\ PoolBytes \in Nat /\ MaxTicks \in Nat /\ MaxKeys \in Nat /\ MaxFrames \in Nat \ {0}
    /\ \A d \in Displays : d \in (Nat \ {0}) \X (Nat \ {0})

VARIABLES
    display,    \* size of the framebuffer, NoDisplay if the boot loader found none
    archive,    \* did the boot loader pass a module?
    pc,         \* index in Order of the boot thread's phase
    busy,       \* structures the boot thread is in the midst of changing
    up,         \* parts of the machine that are set up
    ft_ctx,     \* number of the console printf writes to, 0 for NULL
    pool,       \* bump_alloc_ptr
    consoles,   \* the stretches of the pool the consoles took, <<from, to>>
    if,         \* the interrupt flag
    gate,       \* vectors that lead to a stub of interrupt.asm
    frames,     \* interrupts and faults under way, the innermost last
    halt,       \* "no", or what stopped the machine
    base,       \* vector of IRQ 0
    irr, isr,   \* requests latched and in service
    imr,        \* lines that are masked
    edges,      \* edges of the timer's line so far
    ticks,      \* ticks of kernel.c
    presses,    \* bytes the keyboard sent so far
    obf,        \* the keyboard's byte waits to be read, and its line is high
    touched     \* the user program's write is done

loader == <<display, archive>>
thread == <<pc, busy, up>>
console == <<ft_ctx, pool, consoles>>
cpu == <<if, gate, frames, halt>>
pic == <<base, irr, isr, imr>>
devices == <<edges, ticks, presses, obf>>
vars == <<loader, thread, console, cpu, pic, devices, touched>>

NoDisplay == <<0, 0>>

----
\* _start, phase by phase.  "report" is what init_idt prints after lidt, "map" the loop over the
\* framebuffer's pages, "banner" the print after it, "frames" the two pages of the user program,
\* "jump" the printf of test_user_entry, "user" the program itself.

\* Mutant: the bitmap's own frames are locked after the first tables were allocated.
Order_LockLate ==
    <<"check", "console", "pmm_init", "regions", "vmm", "lock", "gdt", "pic", "idt", "report",
      "sti", "map", "remap", "banner", "module", "mount", "frames", "jump", "cli", "iretq", "user">>

Order ==
    <<"check", "console", "pmm_init", "regions", "lock", "vmm", "gdt", "pic", "idt", "report",
      "sti", "map", "remap", "banner", "module", "mount", "frames", "jump", "cli", "iretq", "user">>

Phase == Order[pc]
Past(p) == \E i \in 1 .. pc - 1 : Order[i] = p

\* The structures a phase works on, and those a handler may.
Uses(p) ==
    CASE p \in {"console", "remap"} -> {"pool"}
      [] p \in {"pmm_init", "regions"} -> {"pmm", "console"}
      [] p \in {"lock", "gdt"} -> {"pmm"}
      [] p = "vmm" -> {"pmm", "tables", "console"}
      [] p \in {"map", "frames"} -> {"pmm", "tables"}
      [] p \in {"report", "banner", "jump"} -> {"console"}
      [] p = "mount" -> {"files", "heap", "pmm", "tables"}
      [] OTHER -> {}

HandlerUses(v) ==
    CASE v = 33 -> {"console", "files", "heap", "pmm", "tables"}
      [] v = 14 -> {"console", "pmm", "tables"}
      [] OTHER -> {"console"}

\* What exists once a phase is done.
SetsUp(p) ==
    CASE p = "pmm_init" -> {"bitmap"}
      [] p = "regions" -> {"free"}
      [] p = "lock" -> {"locked"}
      [] p = "vmm" -> {"tables"}
      [] p = "gdt" -> {"gdt", "rsp0"}
      [] p = "pic" -> {"pic"}
      [] p = "idt" -> {"idt"}
      [] p = "mount" -> {"files"}
      [] OTHER -> {}

----
\* The consoles.

Scale(w, h) ==
    CASE w >= 3840 + 3840 \div 3 /\ h >= 2160 + 2160 \div 3 -> 4
      [] w < 1920 + 1920 \div 3 \/ h < 1080 + 1080 \div 3 -> 1
      [] OTHER -> 2

Cells(w, h) == (w \div (9 * Scale(w, h))) * (h \div (16 * Scale(w, h)))

\* Context, font bits, font dots, grid, queue, map and canvas, in the order they are taken.
Parts(w, h) ==
    <<784, (8 * 16 * 256) \div 8, 256 * 16 * 9,
      12 * Cells(w, h), 32 * Cells(w, h), 8 * Cells(w, h), 4 * w * h>>

\* bump_alloc, part after part: what the first n parts take, and how many fit behind ptr.
Taken == [d \in Displays |->
              LET bytes[n \in 0 .. 7] ==
                      IF n = 0 THEN 0 ELSE bytes[n - 1] + Parts(d[1], d[2])[n]
              IN  bytes]
Need(d) == Taken[d][7]

Fitting(d, ptr) ==
    CHOOSE n \in 0 .. 7 : /\ ptr + Taken[d][n] <= PoolBytes
                          /\ n < 7 => ptr + Taken[d][n + 1] > PoolBytes

\* Mutant: the parts of a console that did not fit stay allocated.
flanterm_fb_init_KeepsParts(d) ==
    LET n == Fitting(d, pool)
    IN  /\ pool' = pool + Taken[d][n]
        /\ consoles' = IF n = 7 THEN Append(consoles, <<pool, pool'>>) ELSE consoles
        /\ ft_ctx' = IF n = 7 THEN Len(consoles') ELSE 0

\* A console is made of all its parts; a part that does not fit gives the others back.
flanterm_fb_init(d) ==
    LET n == Fitting(d, pool)
    IN  /\ pool' = IF n = 7 THEN pool + Taken[d][n] ELSE pool
        /\ consoles' = IF n = 7 THEN Append(consoles, <<pool, pool'>>) ELSE consoles
        /\ ft_ctx' = IF n = 7 THEN Len(consoles') ELSE 0

----
\* The gates, and the page faults that take one.  A frame's cause is a device, the page the user
\* program "demand"s, or what the kernel did: printed to a NULL "console", went through a pointer
\* or an address where nothing is ("stray"), jumped to an empty gate ("gate", "spurious").

Entered(v, cause) == [vector |-> v, cause |-> cause, served |-> FALSE]

\* Mutant: 0x8F, a trap gate, which leaves the interrupt flag as it was.
EnterGate_Trap(v, cause) ==
    /\ frames' = Append(frames, Entered(v, cause))
    /\ UNCHANGED <<if, halt>>

\* 0x8E: an interrupt gate clears the flag.
EnterGate(v, cause) ==
    /\ frames' = Append(frames, Entered(v, cause))
    /\ if' = FALSE /\ UNCHANGED halt

\* Before lidt nobody knows what the boot loader's vectors do; the machine counts as stopped.
Fault(cause) ==
    LET handled == 14 \in gate /\ Len(frames) < MaxFrames
    IN  \/ handled /\ EnterGate(14, cause)
        \/ ~handled /\ halt' = cause /\ UNCHANGED <<if, frames>>

----
\* The boot thread.  A phase that works on shared structures has a beginning and an end, and
\* interrupts may come between the two.

Running == halt = "no" /\ frames = <<>>

Begin ==
    /\ Running /\ busy = {} /\ Uses(Phase) # {}
    /\ busy' = Uses(Phase)
    /\ UNCHANGED <<loader, pc, up, console, cpu, pic, devices, touched>>

\* The end of phase p, which has printed what it prints.
Ends(p) ==
    /\ Running /\ Phase = p /\ busy = Uses(p)
    /\ "console" \in Uses(p) => ft_ctx # 0
    /\ pc' = pc + 1 /\ busy' = {} /\ up' = up \cup SetsUp(p)
    /\ UNCHANGED <<loader, devices, touched>>

\* A phase that faults: flanterm_write follows ft_ctx, and nothing is mapped at 0; pmm_init found
\* no place for the bitmap; or no frame was left, and pmm_alloc's answer was used as one.
PhaseFaults ==
    /\ Running /\ busy = Uses(Phase)
    /\ \/ "console" \in busy /\ ft_ctx = 0 /\ Fault("console")
       \/ (Phase = "pmm_init" \/ "tables" \in busy) /\ Fault("stray")
    /\ UNCHANGED <<loader, thread, console, gate, pic, devices, touched>>

\* cli, then hlt for ever.
hcf ==
    /\ Running /\ halt' = "hcf" /\ if' = FALSE
    /\ UNCHANGED <<loader, thread, console, gate, frames, pic, devices, touched>>

\* The checks of the hand-over: a boot loader that is too old counts as one without a display.
CheckDisplay ==
    \/ display = NoDisplay /\ Phase = "check" /\ hcf
    \/ display # NoDisplay /\ Ends("check") /\ UNCHANGED <<console, cpu, pic>>

MakeConsole ==
    /\ \E p \in {"console", "remap"} : Ends(p)
    /\ flanterm_fb_init(display)
    /\ UNCHANGED <<cpu, pic>>

\* pmm_init to vmm_init, init_gdt, and after sti the mappings, the archive and the frames.
MemoryPhase ==
    /\ \E p \in {"pmm_init", "regions", "lock", "vmm", "gdt", "map", "mount", "frames"} : Ends(p)
    /\ UNCHANGED <<console, cpu, pic>>

\* The first command word restarts the controller: requests it had latched are forgotten.
pic_init ==
    /\ Ends("pic")
    /\ base' = 32 /\ irr' = {} /\ isr' = {} /\ imr' = {Timer}
    /\ UNCHANGED <<console, cpu>>

\* Five gates, the other 251 present with address 0; the mask; lidt.
init_idt ==
    /\ Ends("idt")
    /\ gate' = {8, 10, 14, 32, 33} /\ imr' = {}
    /\ UNCHANGED <<console, if, frames, halt, base, irr, isr>>

PrintPhase ==
    /\ \E p \in {"report", "banner", "jump"} : Ends(p)
    /\ UNCHANGED <<console, cpu, pic>>

FindModule ==
    \/ ~archive /\ Phase = "module" /\ hcf
    \/ archive /\ Ends("module") /\ UNCHANGED <<console, cpu, pic>>

\* sti; the cli before the jump; iretq, which loads the flag with the user's registers.
SetFlag ==
    /\ \E p \in {"sti", "cli", "iretq"} : Ends(p) /\ if' = (p # "cli")
    /\ UNCHANGED <<console, gate, frames, halt, pic>>

BootThread ==
    \/ Begin \/ PhaseFaults \/ CheckDisplay \/ MakeConsole \/ MemoryPhase \/ pic_init \/ init_idt
    \/ PrintPhase \/ FindModule \/ SetFlag

----
\* The devices and the controller.

TimerEdge ==
    /\ halt = "no" /\ edges < MaxTicks
    /\ edges' = edges + 1 /\ irr' = irr \cup {Timer}
    /\ UNCHANGED <<loader, thread, console, cpu, base, isr, imr, ticks, presses, obf, touched>>

\* The keyboard raises its line for a byte, and not again before that byte is read.
KeyEdge ==
    /\ halt = "no" /\ presses < MaxKeys /\ ~obf
    /\ presses' = presses + 1 /\ obf' = TRUE /\ irr' = irr \cup {Keyboard}
    /\ UNCHANGED <<loader, thread, console, cpu, base, isr, imr, edges, ticks, touched>>

\* The request the controller signals: unmasked, and before all that are pending or in service.
Signalled(i) == i \in irr \ imr /\ (\A j \in irr \ imr : i <= j) /\ (\A j \in isr : i < j)

----
\* The processor takes an interrupt, and interrupt.asm and irq_handler serve it.

\* Through a gate with address 0 the next fetch faults.
Take(i) ==
    /\ halt = "no" /\ if /\ Signalled(i)
    /\ irr' = irr \ {i} /\ isr' = isr \cup {i}
    /\ IF base + i \in gate THEN EnterGate(base + i, "device") ELSE Fault("gate")
    /\ UNCHANGED <<loader, thread, console, gate, base, imr, devices, touched>>

\* A line that drops before the processor asks for the vector: IRQ 7, whose gate is empty.
Spurious ==
    /\ halt = "no" /\ if /\ isr = {}
    /\ Fault("spurious")
    /\ UNCHANGED <<loader, thread, console, gate, pic, devices, touched>>

\* The user program writes to a page that is not there.
UserTouches ==
    /\ Running /\ Phase = "user" /\ ~touched
    /\ EnterGate(14, "demand")
    /\ UNCHANGED <<loader, thread, console, gate, pic, devices, touched>>

Top == Last(frames)

\* irq_handler calls the handler of int_no, the innermost vector: each stub pushes its own.
\* The last test assigns, so whatever is not listed before it counts as a TSS fault.
Handler(int_no) ==
    CASE int_no = 32 -> "timer"
      [] int_no = 33 -> "keyboard"
      [] int_no = 14 -> "page"
      [] int_no = 8 -> "double"
      [] OTHER -> "tss"

Serving(h) == halt = "no" /\ frames # <<>> /\ ~Top.served /\ Handler(Top.vector) = h

\* The handler comes to its end, having printed or not,
Returns ==
    /\ frames' = [frames EXCEPT ![Len(frames)].served = TRUE]
    /\ UNCHANGED <<if, halt>>
\* or its first print faults.
Prints == IF ft_ctx # 0 THEN Returns ELSE Fault("console")

Elsewhere == <<loader, thread, console, gate, pic, edges, presses>>

\* It prints when the count that was asked for is reached; a key came before that.
timer_handler_c ==
    /\ Serving("timer")
    /\ ticks' = ticks + 1
    /\ Returns \/ (presses > 0 /\ Prints)
    /\ UNCHANGED <<Elsewhere, obf, touched>>

\* Reads the byte; a key that is a character goes to the shell, which prints.  "touch" with a
\* negative size and "read" of a large file write through the NULL that kmalloc answered, and the
\* heap may run out of frames.
keyboard_handler_c ==
    /\ Serving("keyboard")
    /\ obf' = FALSE
    /\ Returns \/ Prints \/ Fault("stray")
    /\ UNCHANGED <<Elsewhere, ticks, touched>>

\* Maps the page of its range that the program asked for, if there is a frame; without another
\* one for a table, vmm_map may fault.  Any other fault is reported, and the machine stops.
page_fault_handler ==
    /\ Serving("page")
    /\ \/ Top.cause = "demand" /\ Returns /\ touched' = TRUE
       \/ Top.cause = "demand" /\ Fault("stray") /\ UNCHANGED touched
       \/ ft_ctx # 0 /\ halt' = "fatal" /\ UNCHANGED <<if, frames, touched>>
       \/ ft_ctx = 0 /\ Fault("console") /\ UNCHANGED touched
    /\ UNCHANGED <<Elsewhere, ticks, obf>>

\* Mutant: leaves the request in service.
EndOfInterrupt_Missing ==
    /\ halt = "no" /\ frames # <<>> /\ Top.served
    /\ frames' = Front(frames) /\ if' = TRUE
    /\ UNCHANGED <<loader, thread, console, gate, halt, pic, devices, touched>>

\* The end of irq_handler and of the stub: the first request in service ends, also after a
\* page fault, and iretq brings back the flag.  It was set: what is served was a device's or the
\* user program's.
EndOfInterrupt ==
    /\ halt = "no" /\ frames # <<>> /\ Top.served
    /\ frames' = Front(frames) /\ if' = TRUE
    /\ isr' = {i \in isr : \E j \in isr : j < i}
    /\ UNCHANGED <<loader, thread, console, gate, halt, base, irr, imr, devices, touched>>

Processor ==
    \/ \E i \in Irqs : Take(i)
    \/ timer_handler_c \/ keyboard_handler_c \/ page_fault_handler \/ EndOfInterrupt

----
\* Limine enters the kernel with interrupts off, the firmware's vectors and the timer running.
Init ==
    /\ display \in Displays \cup {NoDisplay} /\ archive \in BOOLEAN
    /\ pc = 1 /\ busy = {} /\ up = {}
    /\ ft_ctx = 0 /\ pool = 0 /\ consoles = <<>>
    /\ if = FALSE /\ gate = {} /\ frames = <<>> /\ halt = "no"
    /\ base = 8 /\ irr = {} /\ isr = {} /\ imr = {}
    /\ edges = 0 /\ ticks = 0 /\ presses = 0 /\ obf = FALSE
    /\ touched = FALSE

Next == BootThread \/ UserTouches \/ Processor \/ TimerEdge \/ KeyEdge \/ Spurious

\* The processor goes on: with the handler it is in, with an interrupt that is signalled and
\* with the program.  The devices need not do anything.
Fairness ==
    /\ WF_vars(BootThread) /\ WF_vars(UserTouches)
    /\ WF_vars(Processor) /\ \A i \in Irqs : WF_vars(Take(i))

Spec == Init /\ [][Next]_vars /\ Fairness

----
Frame == {"bitmap", "free", "locked"}

(* A handler finds what it works with: the interrupts of the two devices reach the stubs and     *)
(* the C functions meant for them (idt.c:57-67, 76-91), when memory, tables, segments and, from   *)
(* ring 3, the stack of the TSS exist; nobody calls pmm_alloc before the bitmap's own frames are  *)
(* locked, and nobody prints before there was an attempt to make a console.                       *)
SetUpBeforeUse ==
    /\ halt # "gate"
    /\ \A k \in DOMAIN frames :
           /\ frames[k].cause # "gate"
           /\ Frame \cup {"tables", "gdt", "pic", "idt"} \subseteq up
           /\ Past("iretq") => {"rsp0", "files"} \subseteq up
           /\ Handler(frames[k].vector) \in {"timer", "keyboard", "page"}
    /\ "pmm" \in busy /\ Phase \notin {"pmm_init", "regions", "lock"} => Frame \subseteq up
    /\ "console" \in busy => Past("console")

(* The consoles lie in the pool and apart, one that does not fit gives back what it took          *)
(* (fb.c:1131-1136), and printf meets a NULL console only on a display so large that two of its   *)
(* consoles do not fit the pool (main.c:131).                                                     *)
ConsolesApart ==
    /\ \A k \in DOMAIN consoles :
           /\ consoles[k][1] = (IF k = 1 THEN 0 ELSE consoles[k - 1][2])
           /\ consoles[k][2] - consoles[k][1] = Need(display)
    /\ pool = (IF consoles = <<>> THEN 0 ELSE Last(consoles)[2])
    /\ pool <= PoolBytes
    /\ "console" \in {halt} \cup {frames[k].cause : k \in DOMAIN frames}
           => 2 * Need(display) > PoolBytes

(* The handlers of the two devices interrupt no handler, and find the boot thread in the midst of *)
(* a structure they use themselves only between sti (main.c:109) and the cli of test_user_entry   *)
(* (tss.c:64).  A page fault may come from anywhere, out of a handler too: a write through NULL   *)
(* (vfs.c:136-137, kernel.c:155), a print without a console.  But none of the kernel's own is     *)
(* answered: the only one page_fault_handler returns from is the program's, taken in ring 3 with  *)
(* nothing half done beneath it; and what is beneath any other, handler or boot thread, has not   *)
(* come to its end and never will.                                                                *)
OneInTheKernel ==
    \A k \in DOMAIN frames :
        LET f == frames[k]
        IN  /\ f.vector # 14 =>
                  /\ k = 1
                  /\ busy \cap HandlerUses(f.vector) # {} => Past("sti") /\ ~Past("cli")
            /\ f.served =>
                  /\ k = 1 /\ Len(frames) = 1
                  /\ f.vector = 14 => f.cause = "demand" /\ Phase = "user" /\ busy = {}

(* A tick that is pending is counted and a key that is pending is read (the EOI of idt.c:94 lets  *)
(* the next one through), unless the machine stops; ticks that never pause are excluded by        *)
(* MaxTicks.  And the user program's write is carried out, unless the machine stops.              *)
InterruptsAreServed ==
    /\ \A n \in 0 .. MaxTicks :
           (Timer \in irr /\ Past("sti") /\ ticks = n) ~> (ticks > n \/ halt # "no")
    /\ (Keyboard \in irr /\ Past("sti")) ~> (~obf \/ halt # "no")
    /\ <>(touched \/ halt # "no")
====
