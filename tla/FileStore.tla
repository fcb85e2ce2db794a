---- MODULE FileStore ----
(***************************************************************************)
(* What the virtual file system promises: names lead to contents.          *)
(* Creating a file gives one name, and the names alike, a new content;     *)
(* writing replaces a content by one of the same length.  No name ever     *)
(* loses its file.                                                         *)
(***************************************************************************)
EXTENDS Naturals, Sequences

CONSTANTS
    Names,       \* what a user may ask for
    Alike,       \* [Names -> sets of names that may mean the same file]
    NoFile       \* the content of a name that leads nowhere

VARIABLES
    content,     \* [Names -> sequences of bytes, or NoFile]
    made         \* number of files created

AbsInit == content = [n \in Names |-> NoFile] /\ made = 0

\* n gets a content and may share it with names alike; every other name keeps its own.
Create ==
    LET old == content
        new == content'
    IN  /\ made' = made + 1
        /\ \E n \in Names :
              /\ new[n] # NoFile
              /\ \A m \in Names : new[m] = old[m] \/ (m \in Alike[n] /\ new[m] = new[n])

\* The content of one file changes, under each name that leads to it.
Write ==
    LET old == content
        new == content'
    IN  /\ made' = made
        /\ \E n \in Names :
              /\ old[n] # NoFile /\ new[n] # NoFile
              /\ Len(new[n]) = Len(old[n])
              /\ \A m \in Names : new[m] = old[m] \/ ( /\ m \in Alike[n]
                                                       /\ old[m] = old[n]
                                                       /\ new[m] = new[n] )

AbsSpec == AbsInit /\ [][Create \/ Write]_<<content, made>>
====
