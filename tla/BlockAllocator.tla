---- MODULE BlockAllocator ----
(***************************************************************************)
(* What kmalloc and kfree promise: a block is a range of addresses of its  *)
(* own until it is freed.                                                  *)
(***************************************************************************)
EXTENDS Naturals

CONSTANTS
    Addresses,   \* where a block may begin
    Sizes        \* sizes a caller may ask for

VARIABLES
    blocks       \* live blocks: records with the first address and the size asked for

Bytes(b) == b.addr .. b.addr + b.size - 1

Apart(a, b) == Bytes(a) \cap Bytes(b) = {}

AbsInit == blocks = {}

Allocate == \E a \in Addresses, s \in Sizes :
               LET new == [addr |-> a, size |-> s]
               IN  /\ \A b \in blocks : Apart(new, b)
                   /\ blocks' = blocks \cup {new}

Release == \E b \in blocks : blocks' = blocks \ {b}

AbsSpec == AbsInit /\ [][Allocate \/ Release]_blocks
====
