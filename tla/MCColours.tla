---- MODULE MCColours ----
(***************************************************************************)
(* Every kind of code alone, some after one another, and groups that are   *)
(* complete, cut short, unknown or beyond the table of colours.            *)
(***************************************************************************)
EXTENDS Colours

Codes == {0, 1, 5, 7, 22, 25, 27, 31, 39, 42, 49, 93, 104, 2}
Groups == {<<38, 5, 3>>, <<48, 5, 12>>, <<38, 5, 16>>, <<48, 5, 255>>, <<38, 5, 256>>,
           <<38, 2, 1, 0, 5>>, <<48, 2, 9, 9, 9, 31>>, <<38, 9, 1>>,
           <<38>>, <<48, 5>>, <<38, 2, 1, 1>>}
MCLists == {<<c>> : c \in Codes} \cup Groups
           \cup {<<>>, <<7, 31>>, <<31, 7>>, <<7, 1>>, <<1, 31, 0>>, <<7, 39>>, <<42, 27>>}
====
