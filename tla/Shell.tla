---- MODULE Shell ----
(***************************************************************************)
(* The shell of kernel.c: keyboard_handler_c feeds one character at a time *)
(* to shell_input, which edits a line in a block of the heap and runs it   *)
(* when Enter is pressed, all inside the keyboard interrupt; the timer     *)
(* interrupt counts ticks and reports when the count a command asked for   *)
(* is reached.                                                             *)
(*                                                                         *)
(* What a line says is decided when Enter is pressed.  ticks and           *)
(* target_ticks are kept as their difference, since nothing else is done   *)
(* with them; a target that has passed is at any negative distance, all    *)
(* of which behave like -1.  The heap is reduced to the blocks the shell   *)
(* and the file system hold; Slab models it.                               *)
(***************************************************************************)
EXTENDS Vfs

CONSTANTS
    MaxCommandLen,   \* MAX_COMMAND_LEN, 128
    IntBound,        \* an int holds -IntBound .. IntBound - 1  (2^31)
    SizeLimit,       \* 10240, what the size command allows
    LargestBucket,   \* 16384, what kmalloc can serve
    Numbers          \* numbers a user may type

ASSUME ShellAssumption ==
    /\ MaxCommandLen \in Nat \ {0, 1}
    /\ IntBound \in Nat /\ SizeLimit \in 0 .. LargestBucket /\ LargestBucket \in 0 .. IntBound - 2
    /\ Numbers \subseteq Nat

VARIABLES
    cmd,          \* does cmd point to a block?
    buffer_idx,
    size,         \* the int size points to; NoBlock while the pointer is NULL
    blocks,       \* blocks of the heap in use
    distance,     \* target_ticks - ticks
    waiting,      \* a count was announced and its end has not been reported
    halted

shellVars == <<cmd, buffer_idx, size, blocks, distance, waiting, halted>>
allVars == <<vars, shellVars>>

NoBlock == IntBound

----
\* simple_atoi: int arithmetic, which wraps.
Wrapped(n) == ((n + IntBound) % (2 * IntBound)) - IntBound

One(condition) == IF condition THEN 1 ELSE 0

\* *size once shell_input has made sure of its block.  Nobody writes the int before the first size
\* command, but the slot of its bucket begins with the link to no other slot, NULL.
Provided == IF size = NoBlock THEN 0 ELSE size

----
\* The line editor.

\* A character that is not Enter: both blocks are allocated if they are missing.
Edit(idx) ==
    /\ Typing /\ ~halted
    /\ cmd' = TRUE /\ size' = Provided
    /\ blocks' = blocks + One(~cmd) + One(size = NoBlock)
    /\ buffer_idx' = idx
    /\ UNCHANGED <<vars, distance, waiting, halted>>

\* Mutant: leaves no room for the terminating 0.
TypeChar_NoRoom == Edit(IF buffer_idx < MaxCommandLen THEN buffer_idx + 1 ELSE buffer_idx)

TypeChar == Edit(IF buffer_idx < MaxCommandLen - 1 THEN buffer_idx + 1 ELSE buffer_idx)

\* Mutant: does not stop at the start of the line.
Backspace_Unguarded == Edit(buffer_idx - 1)

Backspace == Edit(IF buffer_idx > 0 THEN buffer_idx - 1 ELSE buffer_idx)

\* Mutant: an early return of the command skips the kfree of the line.
FinishLine_Leaks(taken) ==
    /\ Typing /\ ~halted
    /\ cmd' = FALSE /\ buffer_idx' = 0
    /\ blocks' = blocks + One(~cmd) + One(size = NoBlock) + taken

\* Enter: the line's block is freed after the command, which leaves taken blocks allocated.
FinishLine(taken) ==
    /\ Typing /\ ~halted
    /\ cmd' = FALSE /\ buffer_idx' = 0
    /\ blocks' = blocks - One(cmd) + One(size = NoBlock) + taken

\* A page fault on address 0 inside the command stops the machine.
Faults ==
    /\ Typing /\ ~halted
    /\ halted' = TRUE
    /\ UNCHANGED <<vars, cmd, buffer_idx, size, blocks, distance, waiting>>

----
\* The commands.

\* help, clear, ticks, ls, echo, an empty or unknown line, and whatever only prints a complaint.
Prints ==
    /\ FinishLine(0)
    /\ size' = Provided
    /\ UNCHANGED <<vars, distance, waiting, halted>>

\* read takes a block for the file and a 0 behind it; kmalloc's NULL is written to.
Read(name) ==
    /\ buffer_idx > 0 /\ vfs_open(name) # 0
    /\ IF Len(nodes[vfs_open(name)].data) + 1 > LargestBucket THEN Faults ELSE Prints

\* touch makes a file of *size bytes, cleared even if kmalloc returned NULL for that many.
Touch(name) ==
    /\ buffer_idx > 0 /\ Len(created) < MaxFiles
    /\ IF Provided \in 0 .. LargestBucket
       THEN /\ vfs_touch(name, Provided)
            /\ size' = Provided
            /\ FinishLine(2)
            /\ UNCHANGED <<distance, waiting, halted>>
       ELSE Faults

Write(name, text) ==
    /\ buffer_idx > 0
    /\ vfs_write(name, text)
    /\ size' = Provided
    /\ FinishLine(0)
    /\ UNCHANGED <<distance, waiting, halted>>

\* Mutant: sets the target to the number typed instead of that many ticks ahead.
Count_Absolute(number) ==
    /\ buffer_idx > 0 /\ Wrapped(number) > 0
    /\ distance' \in {Wrapped(number), -1}
    /\ waiting' = TRUE
    /\ size' = Provided
    /\ FinishLine(0)
    /\ UNCHANGED <<vars, halted>>

\* count replaces a target that is still ahead.
Count(number) ==
    /\ buffer_idx > 0 /\ Wrapped(number) > 0
    /\ distance' = Wrapped(number)
    /\ waiting' = TRUE
    /\ size' = Provided
    /\ FinishLine(0)
    /\ UNCHANGED <<vars, halted>>

\* Beyond the limit the int's block is freed and taken again: the link kfree wrote there is NULL,
\* because a slab of that bucket has one slot.
Size(number) ==
    /\ buffer_idx > 0
    /\ size' = IF Wrapped(number) <= SizeLimit THEN Wrapped(number) ELSE 0
    /\ FinishLine(0)
    /\ UNCHANGED <<vars, distance, waiting, halted>>

\* Mutant: compares before it counts.
timer_handler_c_ComparesFirst ==
    /\ ~halted
    /\ distance' = IF distance >= 0 THEN distance - 1 ELSE -1
    /\ waiting' = (waiting /\ distance # 0)
    /\ UNCHANGED <<vars, cmd, buffer_idx, size, blocks, halted>>

timer_handler_c ==
    /\ ~halted
    /\ distance' = IF distance >= 0 THEN distance - 1 ELSE -1
    /\ waiting' = (waiting /\ distance # 1)
    /\ UNCHANGED <<vars, cmd, buffer_idx, size, blocks, halted>>

\* The boot thread, which allocates a node per header.
Mount ==
    /\ ~halted
    /\ \/ MountReads /\ blocks' = blocks + 1
       \/ MountLinks /\ UNCHANGED blocks
    /\ UNCHANGED <<cmd, buffer_idx, size, distance, waiting, halted>>

ShellInit ==
    /\ Init
    /\ cmd = FALSE /\ buffer_idx = 0 /\ size = NoBlock /\ blocks = 0
    /\ distance = 0 /\ waiting = FALSE /\ halted = FALSE

ShellNext == \/ Mount \/ timer_handler_c
             \/ TypeChar \/ Backspace \/ Prints
             \/ \E name \in Name : Read(name) \/ Touch(name)
             \/ \E name \in Name, text \in Texts : Write(name, text)
             \/ \E number \in Numbers : Count(number) \/ Size(number)

\* The timer of the machine does not stop, and interrupts are on outside the handlers.
ShellSpec == ShellInit /\ [][ShellNext]_allVars /\ WF_allVars(timer_handler_c)

----
\* Properties.

ShellTypeOK ==
    /\ cmd \in BOOLEAN
    /\ buffer_idx \in 0 .. MaxCommandLen
    /\ size \in -IntBound .. IntBound
    /\ blocks \in Nat
    /\ distance \in -1 .. IntBound - 1
    /\ waiting \in BOOLEAN /\ halted \in BOOLEAN

(* A line is never longer than its block with the 0 that ends it, and characters are only kept     *)
(* while the block is there: shell_input drops the block with each line and takes one for the next.*)
LineHasItsBlock == buffer_idx < MaxCommandLen /\ (buffer_idx > 0 => cmd)

(* The heap holds the line, the int behind size, a node per file and the data of the files that    *)
(* touch made, and nothing else: no command leaks a block or frees one twice.                      *)
HeapBalanced ==
    blocks = One(cmd) + One(size # NoBlock) + One(link # NotRead) + ptr + 2 * (Len(nodes) - ptr)

(* A count that was announced lies ahead of the tick counter, so the equality in timer_handler_c   *)
(* cannot miss it; and the counter passes no target that was not announced.                        *)
PendingCountIsAhead == waiting <=> distance > 0

(* Unless the user starts counts forever or the machine stops, a count that was announced is       *)
(* reported.                                                                                       *)
CountIsReported ==
    <>[][distance' <= distance]_distance => (waiting ~> (~waiting \/ halted))
====
