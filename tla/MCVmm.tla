---- MODULE MCVmm ----
(***************************************************************************)
(* Three levels of four entries.  The direct map fills <<2, ., .>> and     *)
(* <<3, ., .>>, page by page in the order of the frames, but for the last  *)
(* table and the one of frames 9 to 12.  Frame 1 is at address 0, 2 to 4   *)
(* and 5, 17, 25 to 28 are the bootloader's tables, 29 and 30 the screen.  *)
(* Free memory is low (6 .. 8, before a hole of four frames that are not   *)
(* mapped), in the middle (13 .. 15, right before a frame the kernel uses  *)
(* and a table) and high (18 and up), as the memory map has it.            *)
(***************************************************************************)
EXTENDS Vmm, TLC

MCIdx == 0 .. 3
MCFrames == 1 .. 30
MCDirect == [f \in MCFrames |-> <<2 + (f - 1) \div 16, ((f - 1) % 16) \div 4, (f - 1) % 4>>]
MCPools == {6 .. 8 \cup 18 .. n : n \in {17, 21}}
             \cup {13 .. 15 \cup 18 .. 22, 6 .. 8 \cup 13 .. 15 \cup 18 .. 24, {}}
MCKept == {16}

\* A table with these frames behind its entries, 0 for none.
Table(frames, user) ==
    [i \in MCIdx |-> IF frames[i+1] = 0 THEN Absent ELSE EntryTo(frames[i+1], user)]
\* The last table of the direct map that starts with frame f.
Leaf(f) == Table(<<f, f + 1, f + 2, f + 3>>, FALSE)
MCTables ==
    2 :> Table(<<0, 0, 3, 4>>, TRUE) @@
    3 :> Table(<<5, 17, 0, 25>>, TRUE) @@ 4 :> Table(<<26, 27, 28, 0>>, TRUE) @@
    5 :> Leaf(1) @@ 17 :> Leaf(5) @@ 25 :> Leaf(13) @@
    26 :> Leaf(17) @@ 27 :> Leaf(21) @@ 28 :> Leaf(25)
MCExtras == {0, 1, 3}
MCVideo == [p \in {<<3, 3, 2>>, <<3, 3, 3>>} |-> 27 + p[3]]
\* A kernel gone astray is followed while the heap is small.
MCBound == astray => Cardinality(heap) <= 3
MCUser == {<<0, 0, 0>>, <<0, 1, 1>>}
MCDemand == {<<0, 1, 0>>, <<0, 2, 0>>}
====
