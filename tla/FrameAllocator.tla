---- MODULE FrameAllocator ----
(***************************************************************************)
(* What the physical memory manager promises its callers, without a        *)
(* bitmap: one step opens the pool, and from then on every allocation      *)
(* takes one frame out of it for good.  The kernel never returns a frame.  *)
(***************************************************************************)
EXTENDS Naturals

CONSTANTS
    Frames    \* the frame numbers of the machine

VARIABLES
    pool,     \* frames that may still be handed out
    taken,    \* frames handed out so far
    open      \* has the pool been opened?

absVars == <<pool, taken, open>>

AbsInit == pool = {} /\ taken = {} /\ open = FALSE

\* Boot ends: some set of frames becomes available.
Open == /\ ~open
        /\ open' = TRUE
        /\ pool' \in SUBSET Frames
        /\ UNCHANGED taken

\* One allocation: any frame of the pool, which leaves the pool for good.
Take == /\ open
        /\ \E f \in pool : pool' = pool \ {f} /\ taken' = taken \cup {f}
        /\ UNCHANGED open

AbsSpec == AbsInit /\ [][Open \/ Take]_absVars
====
