---- MODULE MCFbConsole ----
(***************************************************************************)
(* A screen of 4 x 3 cells, blank at first or with a different line of     *)
(* text in every row.  Three rows are the least a region with a line below *)
(* it needs.                                                               *)
(***************************************************************************)
EXTENDS FbConsole

MCGlyphs == {" ", "a"}
MCScreens == {[i \in 0 .. 11 |-> " "],
              [i \in 0 .. 11 |-> IF i \in {1, 2, 4, 8, 10, 11} THEN "a" ELSE " "]}
MCDefault == [fg |-> "grey", bg |-> "clear"]
MCPalettes == {MCDefault}
====
