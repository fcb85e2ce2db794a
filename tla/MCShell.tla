---- MODULE MCShell ----
(***************************************************************************)
(* Ints of four bits, files of up to three bytes by the size command and   *)
(* of up to five by the heap, lines of two characters.  The archive holds  *)
(* a file too large to be read.                                            *)
(***************************************************************************)
EXTENDS Shell

MCBases == {"a", "junk"}
MCArchive == <<[name |-> [dot |-> TRUE, base |-> "a"], dir |-> FALSE,
                data |-> <<7, 7, 7, 7, 7>>, long |-> FALSE]>>
MCTexts == {<<5, 6, 5>>}
\* Within the limit, beyond it, and wrapping to -1 and to 3.
MCNumbers == {0, 2, 5, 15, 19}
====
