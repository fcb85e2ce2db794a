---- MODULE AddressSpace ----
(***************************************************************************)
(* What the page tables stand for: a map from pages to frames that grows   *)
(* or changes one page at a time and never loses one, until it is lost     *)
(* altogether.                                                             *)
(***************************************************************************)
EXTENDS Naturals

CONSTANTS
    Pages,       \* virtual pages
    Targets,     \* frames a page may be mapped to
    Nowhere      \* the value of a page that is not mapped

VARIABLES
    map,         \* [Pages -> Targets \cup {Nowhere}]
    lost         \* does nobody answer for the map any longer?

AbsInit == map \in [Pages -> Targets \cup {Nowhere}] /\ lost = FALSE

MapPage ==
    LET old == map
        new == map'
    IN  /\ ~lost /\ ~lost'
        /\ DOMAIN new = Pages
        /\ \E p \in Pages : /\ new[p] \in Targets
                            /\ \A q \in Pages \ {p} : new[q] = old[q]

\* From here on the map may be anything.
Lose == lost'

AbsSpec == AbsInit /\ [][MapPage \/ Lose]_<<map, lost>>
====
