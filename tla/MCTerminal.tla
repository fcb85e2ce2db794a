---- MODULE MCTerminal ----
(***************************************************************************)
(* A screen of 4 x 3 cells with every region of it, 32-bit numbers cut to  *)
(* four bits, room for two values, and code points of four bits with some *)
(* of every kind.                                                          *)
(***************************************************************************)
EXTENDS Terminal

MCCombining == <<[first |-> 4, last |-> 4], [first |-> 7, last |-> 8],
                 [first |-> 10, last |-> 12], [first |-> 15, last |-> 15]>>
MCLeadValues == <<2, 2, 2>>
MCNumbers == {0, 1, 2, 4, 15}
MCStarts == {[x |-> 0, y |-> 0, top |-> 0, bottom |-> 3],
             [x |-> 1, y |-> 1, top |-> 0, bottom |-> 3],
             [x |-> 4, y |-> 2, top |-> 0, bottom |-> 3],
             [x |-> 2, y |-> 1, top |-> 0, bottom |-> 2],
             [x |-> 3, y |-> 2, top |-> 0, bottom |-> 2],
             [x |-> 4, y |-> 1, top |-> 1, bottom |-> 3],
             [x |-> 1, y |-> 0, top |-> 1, bottom |-> 3]}
====
