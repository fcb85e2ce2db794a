---- MODULE MCVfs ----
(***************************************************************************)
(* An archive packed with "tar -C initrd .": the directory itself, a file  *)
(* and a hidden file, whose name fills its 100 bytes.                      *)
(***************************************************************************)
EXTENDS Vfs

Dot(b) == [dot |-> TRUE, base |-> b]
Entry(b, data) == [name |-> Dot(b), dir |-> FALSE, data |-> data, long |-> FALSE]
Root == [name |-> Dot("empty"), dir |-> TRUE, data |-> <<>>, long |-> FALSE]
Long == [name |-> Dot(".h"), dir |-> FALSE, data |-> <<7>>, long |-> TRUE]

MCBases == {"empty", "a", ".h", "junk"}
MCHidden == {".h"}
PlainArchive == <<Root, Entry("a", <<7, 7>>), Long>>
MCTexts == {<<5>>, <<6, 5, 6>>}
====
