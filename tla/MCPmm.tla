---- MODULE MCPmm ----
(***************************************************************************)
(* Small machines: every memory map of two or three disjoint, sorted       *)
(* entries below frame MaxFrame.                                           *)
(***************************************************************************)
EXTENDS Pmm

CONSTANTS MaxFrame    \* bound: no frame above this one

SmallEntries == {e \in [base: 0 .. MaxFrame, len: 1 .. MaxFrame, usable: BOOLEAN] :
                    Top(e) <= MaxFrame + 1 /\ (e.usable => e.base > 0)}

After(a, S) == {e \in S : Top(a) <= e.base}

\* Larger maps are made of entries of these lengths.
Sized == {e \in SmallEntries : e.len \in {1, 3, 4}}

SmallMaps ==
    {<<a>> : a \in SmallEntries}
    \cup UNION {{<<a, b>> : b \in After(a, SmallEntries)} : a \in SmallEntries}
    \cup UNION {UNION {{<<a, b, c>> : c \in After(b, Sized)} : b \in After(a, Sized)} : a \in Sized}
====
