---- MODULE VmmProofs ----
(***************************************************************************)
(* Proofs of Vmm's safety properties, for every number of levels and of    *)
(* entries, every memory map, every page the boot thread maps and every    *)
(* size of slab.  The two walks are recursive functions: both are runs of  *)
(* a step over 1 .. n, of which IteratesExist shows that there is one.     *)
(* Linked says what one new entry does to all walks.  As long as the       *)
(* kernel's own walk through the direct map meets its tables at their      *)
(* addresses (DirectInv), it is the processor's walk, and MapDone says     *)
(* what a call of vmm_map does.                                            *)
(*                                                                         *)
(* The invariant is IInv: types, phases, how astray comes about, and,      *)
(* until then, Sound: the tables a tree apart from all else, the leaves    *)
(* distinct, the direct map true, the heap below the pool.                 *)
(***************************************************************************)
EXTENDS Vmm, WellFoundedInduction, TLAPS

----
\* Numbers up to a bound, and iteration over them.

\* A set of naturals has a least element.
LEMMA LeastElement ==
    ASSUME NEW T, T \subseteq Nat, T # {}
    PROVE  \E x \in T : \A y \in T : x <= y
<1> DEFINE R == OpToRel(<, Nat)
<1>1. IsWellFoundedOn(R, Nat)
  BY NatLessThanWellFounded
<1>2. \A a, b \in Nat : a < b => <<a, b>> \in R
  BY DEF OpToRel
<1> HIDE DEF R
<1>3. PICK x \in T : \A y \in T : <<y, x>> \notin R
  BY <1>1, WFMin
<1>4. ASSUME NEW y \in T PROVE x <= y
  <2>1. ~(y < x)
    BY <1>2, <1>3
  <2> QED
    BY <2>1
<1> QED
  BY <1>4

\* What holds at 0 and goes on from each number to the next holds up to n.
LEMMA UpTo ==
    ASSUME NEW n \in Nat, NEW P, 0 \in P, \A k \in 0 .. n - 1 : k \in P => k + 1 \in P
    PROVE  \A k \in 0 .. n : k \in P
<1> DEFINE T == {k \in 0 .. n : k \notin P}
<1>1. CASE T = {}
  BY <1>1
<1>2. CASE T # {}
  <2>0. T \subseteq Nat
    OBVIOUS
  <2>1. PICK m \in T : \A k \in T : m <= k
    <3> HIDE DEF T
    <3> QED
      BY <1>2, <2>0, LeastElement
  <2>2. m \in 1 .. n /\ m - 1 \in 0 .. n - 1 /\ m - 1 \in 0 .. n
    BY <2>1
  <2>3. m - 1 \in P
    BY <2>1, <2>2
  <2>4. m - 1 + 1 \in P
    BY <2>2, <2>3
  <2> QED
    BY <2>1, <2>2, <2>4
<1> QED
  BY <1>1, <1>2

\* g follows the step function F from b.
Iterates(g, B, n, F, b) ==
    /\ g \in [0 .. n -> B] /\ g[0] = b
    /\ \A k \in 1 .. n : g[k] = F[g[k-1], k]

LEMMA IteratesExist ==
    ASSUME NEW B, NEW n \in Nat, NEW F \in [B \X (1 .. n) -> B], NEW b \in B
    PROVE  \E g : Iterates(g, B, n, F, b)
<1> DEFINE Ok(g, k) == /\ g \in [0 .. k -> B] /\ g[0] = b
                       /\ \A j \in 1 .. k : g[j] = F[g[j-1], j]
           P == {k \in 0 .. n : \E g : Ok(g, k)}
<1>1. 0 \in P
  <2>1. Ok([k \in 0 .. 0 |-> b], 0)
    OBVIOUS
  <2> HIDE DEF Ok
  <2> QED
    BY <2>1
<1>2. ASSUME NEW k \in 0 .. n - 1, k \in P PROVE k + 1 \in P
  <2>1. PICK g : Ok(g, k)
    BY <1>2
  <2> DEFINE l == k + 1
             h == [j \in 0 .. l |-> IF j = l THEN F[g[k], l] ELSE g[j]]
  <2>2. l \in 1 .. n /\ k \in 0 .. k /\ \A j \in 0 .. l : j # l => j \in 0 .. k
    OBVIOUS
  <2>3. F[g[k], l] \in B
    BY <2>1, <2>2
  <2>4. h \in [0 .. l -> B] /\ h[0] = b
    <3>1. 0 \in 0 .. l /\ 0 # l
      OBVIOUS
    <3>2. \A j \in 0 .. l : h[j] \in B
      BY <2>1, <2>2, <2>3
    <3> QED
      BY <2>1, <3>1, <3>2
  <2>5. ASSUME NEW j \in 1 .. l PROVE h[j] = F[h[j-1], j]
    <3>1. j \in 0 .. l /\ j - 1 \in 0 .. k /\ j - 1 # l /\ j - 1 \in 0 .. l
      OBVIOUS
    <3>2. h[j-1] = g[j-1]
      BY <3>1
    <3>3. CASE j = l
      <4>1. j - 1 = k
        BY <3>3
      <4> QED
        BY <3>1, <3>2, <3>3, <4>1
    <3>4. CASE j # l
      <4>1. j \in 1 .. k /\ h[j] = g[j]
        BY <3>1, <3>4
      <4> QED
        BY <2>1, <3>2, <4>1
    <3> QED
      BY <3>3, <3>4
  <2>6. Ok(h, k + 1)
    BY <2>4, <2>5
  <2>7. k + 1 \in 0 .. n
    OBVIOUS
  <2> HIDE DEF Ok
  <2> QED
    BY <2>6, <2>7
<1> HIDE DEF P
<1>3. n \in P
  <2>1. \A k \in 0 .. n - 1 : k \in P => k + 1 \in P
    BY <1>2
  <2>2. \A k \in 0 .. n : k \in P
    BY <1>1, <2>1, UpTo
  <2> QED
    BY <2>2
<1> QED
  BY <1>3 DEF P, Iterates

----
\* The walk of the processor.

Tabs == [Frames -> [Idx -> Entries]]
Devices == {VideoMap[p] : p \in DOMAIN VideoMap}

LEMMA Constants ==
    /\ Levels \in Nat \ {0} /\ 0 \notin Frames /\ Frames \subseteq Nat
    /\ \A p \in Pages, n \in 1 .. Levels : p[n] \in Idx
    /\ LimineRoot \in Frames
BY VmmAssumption DEF Pages

\* What an entry says.
LEMMA EntryFacts ==
    /\ \A e \in Entries : e.present \in BOOLEAN /\ (e.present => e.frame \in Frames)
    /\ Absent \in Entries /\ Absent.present = FALSE
    /\ \A f \in Frames, u \in BOOLEAN :
          EntryTo(f, u) \in Entries /\ EntryTo(f, u).present = TRUE /\ EntryTo(f, u).frame = f
<1>1. ASSUME NEW e \in Entries PROVE e.present \in BOOLEAN /\ (e.present => e.frame \in Frames)
  <2>1. CASE e \in [present : {TRUE}, frame : Frames, user : BOOLEAN]
    <3>1. e.present \in {TRUE} /\ e.frame \in Frames
      BY <2>1
    <3> QED
      BY <3>1
  <2>2. CASE e = Absent
    <3>1. e.present = FALSE
      BY <2>2 DEF Absent
    <3> QED
      BY <3>1
  <2> QED
    BY <2>1, <2>2 DEF Entries
<1>2. Absent \in Entries /\ Absent.present = FALSE
  BY DEF Entries, Absent
<1>3. ASSUME NEW f \in Frames, NEW u \in BOOLEAN
      PROVE  EntryTo(f, u) \in Entries /\ EntryTo(f, u).present = TRUE /\ EntryTo(f, u).frame = f
  BY DEF Entries, EntryTo
<1> QED
  BY <1>1, <1>2, <1>3

Onward(tab, a, i) ==
    IF a = 0 THEN 0 ELSE IF tab[a][i].present THEN tab[a][i].frame ELSE 0

\* The frames of a walk, one step after the other.
LEMMA ReachSteps ==
    ASSUME NEW tab \in Tabs, NEW top \in Frames, NEW p \in Pages
    PROVE  /\ Reach(tab, top, p) \in [0 .. Levels -> Frames \cup {0}]
           /\ Reach(tab, top, p)[0] = top
           /\ \A n \in 1 .. Levels :
                 Reach(tab, top, p)[n] = Onward(tab, Reach(tab, top, p)[n-1], p[n])
<1> DEFINE B == Frames \cup {0}
           F == [s \in B \X (1 .. Levels) |-> Onward(tab, s[1], p[s[2]])]
           w == Reach(tab, top, p)
           Rec(g) == g = [n \in 0 .. Levels |->
                            IF n = 0 THEN top
                            ELSE IF g[n-1] = 0 THEN 0
                            ELSE LET e == tab[g[n-1]][p[n]] IN IF e.present THEN e.frame ELSE 0]
<1>1. ASSUME NEW a \in B, NEW n \in 1 .. Levels PROVE Onward(tab, a, p[n]) \in B
  <2>1. CASE a = 0
    BY <2>1 DEF Onward
  <2>2. CASE a # 0
    <3>1. tab[a][p[n]] \in Entries
      BY <2>2, Constants DEF Tabs
    <3> QED
      BY <3>1, EntryFacts DEF Onward
  <2> QED
    BY <2>1, <2>2
<1>2. F \in [B \X (1 .. Levels) -> B]
  BY <1>1
<1>3. PICK g : Iterates(g, B, Levels, F, top)
  <2> HIDE DEF F, B
  <2>1. Levels \in Nat /\ top \in B
    BY Constants DEF B
  <2> QED
    BY <1>2, <2>1, IteratesExist
<1>4. /\ g \in [0 .. Levels -> B] /\ g[0] = top
      /\ \A n \in 1 .. Levels : g[n] = Onward(tab, g[n-1], p[n])
  <2>1. g \in [0 .. Levels -> B] /\ g[0] = top /\ \A n \in 1 .. Levels : g[n] = F[<<g[n-1], n>>]
    BY <1>3 DEF Iterates
  <2>2. \A n \in 1 .. Levels : n - 1 \in 0 .. Levels
    BY Constants
  <2> QED
    BY <2>1, <2>2
<1>5. Rec(g)
  <2>1. \A n \in 0 .. Levels : n # 0 => n \in 1 .. Levels
    BY Constants
  <2> QED
    BY <1>4, <2>1 DEF Onward
<1>6. Rec(w)
  BY <1>5 DEF Reach
<1> HIDE DEF w
<1>7. w[0] = top /\ \A n \in 1 .. Levels : w[n] = Onward(tab, w[n-1], p[n])
  <2>1. 0 \in 0 .. Levels /\ \A n \in 1 .. Levels : n \in 0 .. Levels /\ n # 0
    BY Constants
  <2> QED
    BY <1>6, <2>1 DEF Onward
<1>8. \A n \in 0 .. Levels : w[n] \in B
  <2> DEFINE P == {n \in 0 .. Levels : w[n] \in B}
  <2>1. 0 \in P
    BY <1>7, Constants
  <2>2. \A n \in 0 .. Levels - 1 : n \in P => n + 1 \in P
    <3> SUFFICES ASSUME NEW n \in 0 .. Levels - 1, w[n] \in B PROVE n + 1 \in P
      OBVIOUS
    <3>1. n + 1 \in 1 .. Levels /\ n + 1 \in 0 .. Levels /\ (n + 1) - 1 = n
      BY Constants
    <3> HIDE DEF B
    <3>2. w[n+1] = Onward(tab, w[n], p[n+1])
      BY <1>7, <3>1
    <3> QED
      BY <1>1, <3>1, <3>2
  <2> HIDE DEF P
  <2>3. \A n \in 0 .. Levels : n \in P
    BY <2>1, <2>2, UpTo, Constants
  <2> QED
    BY <2>3 DEF P
<1>9. w \in [0 .. Levels -> B]
  BY <1>6, <1>8
<1> QED
  BY <1>7, <1>9 DEF w

\* The same, from one level to the next.
LEMMA ReachNext ==
    ASSUME NEW tab \in Tabs, NEW top \in Frames, NEW p \in Pages, NEW n \in 0 .. Levels - 1
    PROVE  Reach(tab, top, p)[n+1] = Onward(tab, Reach(tab, top, p)[n], p[n+1])
<1>1. n + 1 \in 1 .. Levels /\ (n + 1) - 1 = n
  BY Constants
<1> QED
  BY <1>1, ReachSteps

\* Pages whose ways agree up to level n.
SameWay(q, p, n) == \A k \in 1 .. n : q[k] = p[k]

\* Pages that share the way are reached through the same tables.
LEMMA SameWaySameTables ==
    ASSUME NEW tab \in Tabs, NEW top \in Frames, NEW p \in Pages, NEW q \in Pages,
           NEW k \in 0 .. Levels, SameWay(q, p, k)
    PROVE  \A n \in 0 .. k : Reach(tab, top, q)[n] = Reach(tab, top, p)[n]
<1> DEFINE a == Reach(tab, top, p)
           b == Reach(tab, top, q)
           P == {n \in 0 .. k : b[n] = a[n]}
<1>1. 0 \in P
  BY ReachSteps, Constants
<1>2. ASSUME NEW n \in 0 .. k - 1, n \in P PROVE n + 1 \in P
  <2>1. n \in 0 .. Levels - 1 /\ n + 1 \in 1 .. k /\ n + 1 \in 0 .. k
    BY Constants
  <2>2. q[n+1] = p[n+1]
    BY <2>1 DEF SameWay
  <2>3. b[n] = a[n]
    BY <1>2
  <2>4. a[n+1] = Onward(tab, a[n], p[n+1]) /\ b[n+1] = Onward(tab, b[n], q[n+1])
    BY <2>1, ReachNext
  <2> HIDE DEF a, b
  <2> QED
    BY <2>1, <2>2, <2>3, <2>4
<1> HIDE DEF P
<1>3. \A n \in 0 .. k : n \in P
  BY <1>1, <1>2, UpTo, Constants
<1> QED
  BY <1>3 DEF P

----
\* One new entry.

\* Pages whose walk meets table f before its last step.
Meets(tab, top, f) == \E q \in Pages, n \in 0 .. Levels - 1 : Reach(tab, top, q)[n] = f

\* New is tab with entry i of table c leading to g; below the last level, g is cleared.
Links(new, tab, c, i, g, k) ==
    /\ new \in Tabs /\ new[c][i].present /\ new[c][i].frame = g
    /\ \A j \in Idx : j # i => new[c][j] = tab[c][j]
    /\ \A f \in Frames : f # c => new[f] = IF k < Levels /\ f = g THEN Cleared ELSE tab[f]

TreeFact(tab, top, p, q, m, n) ==
    Reach(tab, top, p)[m] # 0 /\ Reach(tab, top, p)[m] = Reach(tab, top, q)[n]
        => m = n /\ SameWay(p, q, n)

\* Ways are the same if they are as long and agree.
LEMMA SameWays ==
    ASSUME NEW p, NEW q, NEW m \in Nat, NEW n \in Nat
    PROVE  Way(p, m) = Way(q, n) <=> m = n /\ SameWay(p, q, n)
<1>1. ASSUME Way(p, m) = Way(q, n) PROVE m = n
  <2>1. DOMAIN Way(p, m) = 1 .. m /\ DOMAIN Way(q, n) = 1 .. n
    BY DEF Way
  <2>2. 1 .. m = 1 .. n
    BY <1>1, <2>1
  <2>3. ~(m < n)
    <3>1. m < n => n \in 1 .. n /\ n \notin 1 .. m
      OBVIOUS
    <3> QED
      BY <2>2, <3>1
  <2>4. ~(n < m)
    <3>1. n < m => m \in 1 .. m /\ m \notin 1 .. n
      OBVIOUS
    <3> QED
      BY <2>2, <3>1
  <2> QED
    BY <2>3, <2>4
<1>2. ASSUME Way(p, m) = Way(q, n), m = n PROVE SameWay(p, q, n)
  <2> SUFFICES ASSUME NEW k \in 1 .. n PROVE p[k] = q[k]
    BY DEF SameWay
  <2>1. Way(p, m)[k] = p[k] /\ Way(q, n)[k] = q[k]
    BY <1>2 DEF Way
  <2> QED
    BY <1>2, <2>1
<1>3. ASSUME m = n, SameWay(p, q, n) PROVE Way(p, m) = Way(q, n)
  BY <1>3 DEF Way, SameWay
<1> QED
  BY <1>1, <1>2, <1>3

LEMMA TreeMeans ==
    ASSUME NEW tab, NEW top
    PROVE  IsTree(tab, top) <=>
             \A p, q \in Pages : \A m, n \in 0 .. Levels - 1 : TreeFact(tab, top, p, q, m, n)
<1> DEFINE node(p, n) == <<Way(p, n), Reach(tab, top, p)[n]>>
           nodes == {node(p, n) : p \in Pages, n \in 0 .. Levels - 1}
<1>1. IsTree(tab, top) <=> \A x, y \in nodes : x[2] # 0 /\ x[2] = y[2] => x[1] = y[1]
  BY DEF IsTree
<1>2. \A p, n : node(p, n)[1] = Way(p, n) /\ node(p, n)[2] = Reach(tab, top, p)[n]
  OBVIOUS
<1>3. \A n \in 0 .. Levels - 1 : n \in Nat
  BY Constants
<1>4. \A p, q \in Pages : \A m, n \in 0 .. Levels - 1 :
         Way(p, m) = Way(q, n) <=> m = n /\ SameWay(p, q, n)
  BY <1>3, SameWays
<1> HIDE DEF node
<1>5. IsTree(tab, top) <=>
        \A p, q \in Pages : \A m, n \in 0 .. Levels - 1 :
          node(p, m)[2] # 0 /\ node(p, m)[2] = node(q, n)[2] => node(p, m)[1] = node(q, n)[1]
  BY <1>1
<1> QED
  BY <1>2, <1>4, <1>5 DEF TreeFact

\* A new entry on the way to p changes the walks that take it, and only where it leads.
LEMMA Linked ==
    ASSUME NEW tab \in Tabs, NEW top \in Frames, IsTree(tab, top),
           NEW p \in Pages, NEW k \in 1 .. Levels, NEW c \in Frames, NEW g \in Frames,
           c = Reach(tab, top, p)[k-1],
           k < Levels => ~Meets(tab, top, g) /\ ~tab[c][p[k]].present,
           NEW new, Links(new, tab, c, p[k], g, k)
    PROVE  \A q \in Pages : \A n \in 0 .. Levels :
             Reach(new, top, q)[n] = IF n = k /\ SameWay(q, p, k) THEN g ELSE Reach(tab, top, q)[n]
<1>0. /\ new \in Tabs /\ new[c][p[k]].present /\ new[c][p[k]].frame = g
      /\ \A j \in Idx : j # p[k] => new[c][j] = tab[c][j]
      /\ \A f \in Frames : f # c => new[f] = IF k < Levels /\ f = g THEN Cleared ELSE tab[f]
  BY DEF Links
<1>k. k \in Nat /\ k - 1 \in 0 .. Levels - 1 /\ Levels \in Nat /\ (k - 1) + 1 = k /\ k \in 0 .. Levels
      /\ k - 1 \in 0 .. Levels
  BY Constants
<1> SUFFICES ASSUME NEW q \in Pages
             PROVE  \A n \in 0 .. Levels :
                      Reach(new, top, q)[n] =
                        IF n = k /\ SameWay(q, p, k) THEN g ELSE Reach(tab, top, q)[n]
  OBVIOUS
<1> DEFINE a == Reach(tab, top, q)
           b == Reach(new, top, q)
           Takes == SameWay(q, p, k)
           P == {n \in 0 .. Levels : b[n] = IF n = k /\ Takes THEN g ELSE a[n]}
<1>1. 0 \in P
  <2>1. b[0] = top /\ a[0] = top
    BY <1>0, ReachSteps
  <2> QED
    BY <1>k, <2>1
<1>2. /\ \A n \in 0 .. Levels - 1 : a[n+1] = Onward(tab, a[n], q[n+1])
      /\ \A n \in 0 .. Levels - 1 : b[n+1] = Onward(new, b[n], q[n+1])
      /\ \A n \in 0 .. Levels : a[n] \in Frames \cup {0}
  <2>1. \A n \in 0 .. Levels - 1 : a[n+1] = Onward(tab, a[n], q[n+1])
    BY ReachNext
  <2>2. \A n \in 0 .. Levels - 1 : b[n+1] = Onward(new, b[n], q[n+1])
    BY <1>0, ReachNext
  <2>3. a \in [0 .. Levels -> Frames \cup {0}]
    BY ReachSteps
  <2> HIDE DEF a, b
  <2> QED
    BY <2>1, <2>2, <2>3
<1>3. Takes => a[k-1] = c /\ q[k] = p[k]
  <2> SUFFICES ASSUME Takes PROVE a[k-1] = c /\ q[k] = p[k]
    OBVIOUS
  <2>1. SameWay(q, p, k-1) /\ q[k] = p[k]
    BY <1>k DEF SameWay
  <2>2. k - 1 \in 0 .. k - 1
    BY <1>k
  <2> QED
    BY <1>k, <2>1, <2>2, SameWaySameTables
<1>4. k < Levels /\ Takes => a[k] = 0 /\ a[k+1] = 0
  <2> SUFFICES ASSUME k < Levels, Takes PROVE a[k] = 0 /\ a[k+1] = 0
    OBVIOUS
  <2>1. a[k] = Onward(tab, c, p[k])
    BY <1>k, <1>2, <1>3
  <2>2. a[k] = 0
    BY <2>1 DEF Onward
  <2>3. k \in 0 .. Levels - 1
    BY <1>k
  <2> HIDE DEF a
  <2>4. a[k+1] = Onward(tab, 0, q[k+1])
    BY <1>2, <2>2, <2>3
  <2> QED
    BY <2>2, <2>4 DEF Onward
<1>5. \A n \in 0 .. Levels - 1 : a[n] = c => n = k - 1 /\ SameWay(q, p, k-1)
  <2> SUFFICES ASSUME NEW n \in 0 .. Levels - 1, a[n] = c PROVE n = k - 1 /\ SameWay(q, p, k-1)
    OBVIOUS
  <2>1. TreeFact(tab, top, q, p, n, k-1)
    BY <1>k, TreeMeans
  <2>2. c # 0
    BY Constants
  <2> QED
    BY <2>1, <2>2 DEF TreeFact
<1>6. k < Levels => \A n \in 0 .. Levels - 1 : a[n] # g
  BY DEF Meets
<1>7. SameWay(q, p, k-1) /\ q[k] = p[k] => Takes
  <2>1. \A i \in 1 .. k : i \in 1 .. k - 1 \/ i = k
    BY <1>k
  <2> QED
    BY <2>1 DEF SameWay
<1>8. ASSUME NEW n \in 0 .. Levels - 1, n \in P PROVE n + 1 \in P
  <2>0. b[n] = (IF n = k /\ Takes THEN g ELSE a[n]) /\ n + 1 \in 0 .. Levels /\ n + 1 \in 1 .. Levels
        /\ n \in 0 .. Levels /\ n \in Nat
    BY <1>8, <1>k
  <2>i. q[n+1] \in Idx
    BY <2>0, Constants
  <2>1. a[n+1] = Onward(tab, a[n], q[n+1]) /\ b[n+1] = Onward(new, b[n], q[n+1])
        /\ a[n] \in Frames \cup {0}
    BY <1>2, <2>0
  <2> SUFFICES b[n+1] = IF n + 1 = k /\ Takes THEN g ELSE a[n+1]
    BY <2>0
  <2> HIDE DEF P, a, b, Takes
  <2>2. CASE n = k /\ Takes
    <3>1. k < Levels /\ n + 1 # k
      BY <1>k, <2>2
    <3>2. a[n+1] = 0 /\ b[n] = g
      BY <1>4, <2>0, <2>2, <3>1
    <3>3. g # c
      <4>1. a[k-1] = c
        BY <1>3, <2>2
      <4> QED
        BY <1>6, <1>k, <3>1, <4>1
    <3>4. new[g] = Cleared
      BY <1>0, <3>1, <3>3
    <3>5. new[g][q[n+1]] = Absent
      BY <2>i, <3>4 DEF Cleared
    <3>6. b[n+1] = 0
      BY <2>1, <3>2, <3>5, EntryFacts DEF Onward
    <3> QED
      BY <3>1, <3>2, <3>6
  <2>3. CASE ~(n = k /\ Takes) /\ a[n] = 0
    <3>1. b[n] = 0 /\ b[n+1] = 0 /\ a[n+1] = 0
      BY <2>0, <2>1, <2>3 DEF Onward
    <3>2. ~(n + 1 = k /\ Takes)
      <4> SUFFICES ASSUME n + 1 = k, Takes PROVE FALSE
        OBVIOUS
      <4>1. n = k - 1
        BY <2>0, <1>k
      <4> QED
        BY <1>3, <2>3, <4>1, Constants
    <3> QED
      BY <3>1, <3>2
  <2>4. CASE ~(n = k /\ Takes) /\ a[n] # 0 /\ a[n] # c
    <3>1. b[n] = a[n] /\ a[n] \in Frames
      BY <2>0, <2>1, <2>4
    <3>2. new[a[n]] = tab[a[n]]
      BY <1>0, <1>6, <2>4, <3>1
    <3>3. b[n+1] = a[n+1]
      BY <2>1, <3>1, <3>2 DEF Onward
    <3>4. ~(n + 1 = k /\ Takes)
      <4> SUFFICES ASSUME n + 1 = k, Takes PROVE FALSE
        OBVIOUS
      <4>1. n = k - 1
        BY <2>0, <1>k
      <4> QED
        BY <1>3, <2>4, <4>1
    <3> QED
      BY <3>3, <3>4
  <2>5. CASE ~(n = k /\ Takes) /\ a[n] = c
    <3>1. b[n] = c /\ n = k - 1 /\ n + 1 = k /\ SameWay(q, p, k-1) /\ c # 0
      BY <1>5, <1>k, <2>0, <2>5, Constants
    <3>2. CASE q[k] = p[k]
      <4>1. Takes
        BY <1>7, <3>1, <3>2
      <4>2. b[n+1] = g
        BY <1>0, <2>1, <3>1, <3>2 DEF Onward
      <4> QED
        BY <3>1, <4>1, <4>2
    <3>3. CASE q[k] # p[k]
      <4>1. ~Takes
        BY <1>3, <3>3
      <4>2. new[c][q[n+1]] = tab[c][q[n+1]]
        BY <1>0, <2>i, <3>1, <3>3
      <4>3. b[n+1] = a[n+1]
        BY <2>1, <2>5, <3>1, <4>2 DEF Onward
      <4> QED
        BY <4>1, <4>3
    <3> QED
      BY <3>2, <3>3
  <2> QED
    BY <2>2, <2>3, <2>4, <2>5
<1> HIDE DEF P
<1>9. \A n \in 0 .. Levels : n \in P
  BY <1>1, <1>8, UpTo, Constants
<1> QED
  BY <1>9 DEF P

----
\* The walk of vmm_get_pte.

\* A tree whose tables are neither free nor taken for something else.
Good(tab, top, free, taken) ==
    /\ tab \in Tabs /\ top \in Frames /\ free \subseteq Frames /\ free \cap taken = {}
    /\ IsTree(tab, top)
    /\ \A f \in free \cup taken : ~Meets(tab, top, f)

SameMap(new, tab, top) ==
    \A q \in Pages : Reach(new, top, q)[Levels] = Reach(tab, top, q)[Levels]

\* The walks meet no frame they did not meet before, but for those in G.
MeetsMore(new, tab, top, G) ==
    \A f \in Frames : Meets(new, top, f) => Meets(tab, top, f) \/ f \in G

\* A new table in an empty entry: the tree stays one, and no page is mapped or unmapped.
LEMMA TableLinked ==
    ASSUME NEW tab, NEW top, NEW free, NEW taken, Good(tab, top, free, taken),
           NEW p \in Pages, NEW k \in 1 .. Levels - 1, NEW c \in Frames, NEW g \in free,
           c = Reach(tab, top, p)[k-1], ~tab[c][p[k]].present,
           NEW new, Links(new, tab, c, p[k], g, k)
    PROVE  /\ Good(new, top, free \ {g}, taken) /\ SameMap(new, tab, top)
           /\ Reach(new, top, p)[k] = g
           /\ MeetsMore(new, tab, top, {g})
<1>1. /\ tab \in Tabs /\ top \in Frames /\ free \subseteq Frames /\ free \cap taken = {}
      /\ IsTree(tab, top) /\ g \in Frames /\ g \notin taken
      /\ \A f \in free \cup taken : ~Meets(tab, top, f)
      /\ new \in Tabs
  BY DEF Good, Links
<1>k. k \in 1 .. Levels /\ k < Levels /\ k \in 0 .. Levels - 1 /\ k \in 0 .. Levels /\ Levels \in 0 .. Levels
      /\ k # Levels
      /\ \A n \in 0 .. Levels - 1 : n \in 0 .. Levels
  BY Constants
<1>2. ~Meets(tab, top, g)
  BY <1>1
<1> DEFINE a(q) == Reach(tab, top, q)
           b(q) == Reach(new, top, q)
           Takes(q) == SameWay(q, p, k)
<1>3. \A q \in Pages : \A n \in 0 .. Levels : b(q)[n] = IF n = k /\ Takes(q) THEN g ELSE a(q)[n]
  BY <1>1, <1>2, <1>k, Linked
<1>4. \A q \in Pages : \A n \in 0 .. Levels - 1 : a(q)[n] # g
  BY <1>2 DEF Meets
<1>5. \A q, r \in Pages : Takes(q) /\ Takes(r) => SameWay(q, r, k)
  BY DEF SameWay
<1>6. \A q, r \in Pages : \A m, n \in 0 .. Levels - 1 :
         a(q)[m] # 0 /\ a(q)[m] = a(r)[n] => m = n /\ SameWay(q, r, n)
  BY <1>1, TreeMeans DEF TreeFact
<1> HIDE DEF a, b, Takes
<1>7. ASSUME NEW q \in Pages, NEW r \in Pages, NEW m \in 0 .. Levels - 1, NEW n \in 0 .. Levels - 1,
             b(q)[m] # 0, b(q)[m] = b(r)[n]
      PROVE  m = n /\ SameWay(q, r, n)
  <2>1. /\ b(q)[m] = IF m = k /\ Takes(q) THEN g ELSE a(q)[m]
        /\ b(r)[n] = IF n = k /\ Takes(r) THEN g ELSE a(r)[n]
    BY <1>3, <1>k
  <2>2. CASE m = k /\ Takes(q)
    <3>1. n = k /\ Takes(r)
      BY <1>4, <1>7, <2>1, <2>2
    <3> QED
      BY <1>5, <2>2, <3>1
  <2>3. CASE ~(m = k /\ Takes(q))
    <3>1. ~(n = k /\ Takes(r))
      BY <1>4, <1>7, <2>1, <2>3
    <3> QED
      BY <1>6, <1>7, <2>1, <2>3, <3>1
  <2> QED
    BY <2>2, <2>3
<1>8. IsTree(new, top)
  BY <1>7, TreeMeans DEF TreeFact, b
<1>9. ASSUME NEW f \in (free \ {g}) \cup taken, Meets(new, top, f) PROVE FALSE
  <2>1. PICK q \in Pages, n \in 0 .. Levels - 1 : b(q)[n] = f
    BY <1>9 DEF Meets, b
  <2>2. f # g
    BY <1>1
  <2>3. a(q)[n] = f
    BY <1>3, <1>k, <2>1, <2>2
  <2>4. Meets(tab, top, f)
    BY <2>3 DEF Meets, a
  <2> QED
    BY <1>1, <2>4
<1>10. Good(new, top, free \ {g}, taken)
  BY <1>1, <1>8, <1>9 DEF Good
<1>11. SameMap(new, tab, top)
  BY <1>3, <1>k DEF SameMap, a, b
<1>12. b(p)[k] = g
  <2>1. Takes(p)
    BY DEF Takes, SameWay
  <2> QED
    BY <1>3, <1>k, <2>1
<1>13. ASSUME NEW f \in Frames, Meets(new, top, f), f # g PROVE Meets(tab, top, f)
  <2>1. PICK q \in Pages, n \in 0 .. Levels - 1 : b(q)[n] = f
    BY <1>13 DEF Meets, b
  <2>2. a(q)[n] = f
    BY <1>3, <1>13, <1>k, <2>1
  <2> QED
    BY <2>2 DEF Meets, a
<1> QED
  BY <1>10, <1>11, <1>12, <1>13 DEF b, MeetsMore

\* A leaf: the tree stays what it was, and the page leads to the frame.
LEMMA LeafLinked ==
    ASSUME NEW tab, NEW top, NEW free, NEW taken, Good(tab, top, free, taken),
           NEW p \in Pages, NEW c \in Frames, NEW g \in Frames,
           c = Reach(tab, top, p)[Levels-1],
           NEW new, Links(new, tab, c, p[Levels], g, Levels)
    PROVE  /\ Good(new, top, free, taken)
           /\ \A q \in Pages :
                 Reach(new, top, q)[Levels] = IF q = p THEN g ELSE Reach(tab, top, q)[Levels]
           /\ MeetsMore(new, tab, top, {})
<1>1. tab \in Tabs /\ top \in Frames /\ IsTree(tab, top) /\ new \in Tabs
  BY DEF Good, Links
<1>k. Levels \in 1 .. Levels /\ ~(Levels < Levels) /\ Levels \in 0 .. Levels
      /\ \A n \in 0 .. Levels - 1 : n \in 0 .. Levels /\ n # Levels
  BY Constants
<1>2. \A q \in Pages : \A n \in 0 .. Levels :
         Reach(new, top, q)[n] = IF n = Levels /\ SameWay(q, p, Levels) THEN g ELSE Reach(tab, top, q)[n]
  BY <1>1, <1>k, Linked
<1>3. \A q \in Pages : SameWay(q, p, Levels) <=> q = p
  <2> SUFFICES ASSUME NEW q \in Pages, SameWay(q, p, Levels) PROVE q = p
    BY DEF SameWay
  <2>1. q = [k \in 1 .. Levels |-> q[k]] /\ p = [k \in 1 .. Levels |-> p[k]]
    BY DEF Pages
  <2>2. \A k \in 1 .. Levels : q[k] = p[k]
    BY DEF SameWay
  <2> QED
    BY <2>1, <2>2
<1>4. \A q \in Pages, n \in 0 .. Levels - 1 : Reach(new, top, q)[n] = Reach(tab, top, q)[n]
  BY <1>2, <1>k
<1>5. IsTree(new, top)
  BY <1>1, <1>4, TreeMeans DEF TreeFact
<1>6. \A f : Meets(new, top, f) <=> Meets(tab, top, f)
  BY <1>4 DEF Meets
<1> QED
  BY <1>1, <1>2, <1>3, <1>5, <1>6, <1>k DEF Good, MeetsMore

----
\* The walk of the kernel.

\* One level of vmm_get_pte, through entry i.
NewTable(s, i) ==
    LET g == pmm_alloc(s.pool)
    IN  [s.tab EXCEPT ![Via(s.tab, g)] = Cleared, ![s.cur][i] = EntryTo(g, TRUE)]
Further(s, i) ==
    LET g == pmm_alloc(s.pool)
    IN  IF s.cur = 0 THEN s
        ELSE IF s.tab[s.cur][i].present THEN [s EXCEPT !.cur = Via(s.tab, s.tab[s.cur][i].frame)]
        ELSE IF Via(s.tab, g) = 0 THEN [s EXCEPT !.pool = @ \ {g}, !.cur = 0, !.zero = @ \/ g = Zero]
        ELSE [tab |-> NewTable(s, i), pool |-> s.pool \ {g}, cur |-> Via(NewTable(s, i), g),
              zero |-> s.zero \/ g = Zero]

LEMMA FurtherIsNext ==
    ASSUME NEW s \in Walks, NEW i \in Idx
    PROVE  NextTable[i][s] = Further(s, i)
<1>1. NextTable = [j \in Idx |-> [x \in Walks |-> Further(x, j)]]
  BY DEF NextTable, Further, NewTable
<1> QED
  BY <1>1

LEMMA LowestIsMember ==
    ASSUME NEW S, S \subseteq Frames, S # {}
    PROVE  Lowest(S) \in S /\ Lowest(S) \in Frames /\ \A y \in S : Lowest(S) <= y
<1>1. \E x \in S : \A y \in S : x <= y
  BY LeastElement, Constants
<1> QED
  BY <1>1 DEF Lowest

\* What pmm_alloc answers.
LEMMA Allocated ==
    ASSUME NEW free, free \subseteq Frames
    PROVE  /\ pmm_alloc(free) \in Frames
           /\ free = {} => pmm_alloc(free) = Zero
           /\ free # {} => /\ pmm_alloc(free) \in free
                           /\ \A x \in free \ {pmm_alloc(free)} : pmm_alloc(free) < x
           /\ free \subseteq Usable => (pmm_alloc(free) = Zero <=> free = {})
<1>0. Zero \in Frames /\ Zero \notin Usable
  BY VmmAssumption
<1>1. CASE free = {}
  BY <1>0, <1>1 DEF pmm_alloc
<1>2. CASE free # {}
  <2>1. pmm_alloc(free) = Lowest(free)
    BY <1>2 DEF pmm_alloc
  <2>2. Lowest(free) \in free /\ Lowest(free) \in Frames /\ \A y \in free : Lowest(free) <= y
    BY <1>2, LowestIsMember
  <2>3. \A x \in free \ {Lowest(free)} : Lowest(free) < x
    <3> SUFFICES ASSUME NEW x \in free, x # Lowest(free) PROVE Lowest(free) < x
      OBVIOUS
    <3>1. Lowest(free) <= x /\ x \in Nat /\ Lowest(free) \in Nat
      BY <2>2, Constants
    <3> QED
      BY <3>1
  <2> QED
    BY <1>0, <1>2, <2>1, <2>2, <2>3
<1> QED
  BY <1>1, <1>2

LEMMA ViaType ==
    ASSUME root \in Frames, NEW tab \in Tabs, NEW f \in Frames
    PROVE  Via(tab, f) \in Frames \cup {0}
<1>1. Direct[f] \in Pages /\ Levels \in 0 .. Levels
  BY DirectAssumption, Constants
<1>2. Reach(tab, root, Direct[f]) \in [0 .. Levels -> Frames \cup {0}]
  BY <1>1, ReachSteps
<1> QED
  BY <1>1, <1>2 DEF Via

\* A new table is linked as TableLinked needs it, if its address leads to it.
LEMMA NewTableType ==
    ASSUME root \in Frames, NEW s \in Walks, s.cur # 0, NEW i \in Idx,
           Via(s.tab, pmm_alloc(s.pool)) # 0
    PROVE  /\ NewTable(s, i) \in Tabs
           /\ \A k \in Nat : /\ k < Levels /\ pmm_alloc(s.pool) # s.cur
                             /\ Via(s.tab, pmm_alloc(s.pool)) = pmm_alloc(s.pool)
                => Links(NewTable(s, i), s.tab, s.cur, i, pmm_alloc(s.pool), k)
<1> DEFINE f == pmm_alloc(s.pool)
           to == Via(s.tab, f)
           c == s.cur
           e == EntryTo(f, TRUE)
           t == [s.tab EXCEPT ![to] = Cleared]
           u == [t EXCEPT ![c] = [t[c] EXCEPT ![i] = e]]
<1>1. s.tab \in Tabs /\ s.pool \subseteq Frames /\ c \in Frames
  BY DEF Walks, Tabs
<1>2. f \in Frames
  BY <1>1, Allocated
<1>t. to \in Frames
  BY <1>1, <1>2, ViaType
<1>3. e \in Entries /\ e.present = TRUE /\ e.frame = f
  BY <1>2, EntryFacts
<1>4. Cleared \in [Idx -> Entries]
  BY EntryFacts DEF Cleared
<1>5. NewTable(s, i) = u
  BY DEF NewTable
<1> HIDE DEF f, c, e, to
<1>6. t \in Tabs /\ \A g \in Frames : t[g] = IF g = to THEN Cleared ELSE s.tab[g]
  BY <1>1, <1>t, <1>4 DEF Tabs
<1> HIDE DEF t
<1>7. [t[c] EXCEPT ![i] = e] \in [Idx -> Entries]
  BY <1>1, <1>3, <1>6 DEF Tabs
<1>8. /\ u \in Tabs /\ u[c][i] = e /\ \A j \in Idx : j # i => u[c][j] = t[c][j]
      /\ \A g \in Frames : g # c => u[g] = t[g]
  BY <1>1, <1>6, <1>7 DEF Tabs
<1> HIDE DEF u
<1>11. ASSUME NEW k \in Nat, k < Levels, f # c, to = f PROVE Links(u, s.tab, c, i, f, k)
  <2>1. \A j \in Idx : j # i => u[c][j] = s.tab[c][j]
    BY <1>1, <1>6, <1>8, <1>11
  <2>2. \A g \in Frames : g # c => u[g] = IF k < Levels /\ g = f THEN Cleared ELSE s.tab[g]
    BY <1>6, <1>8, <1>11
  <2> QED
    BY <1>3, <1>8, <2>1, <2>2 DEF Links
<1> QED
  BY <1>5, <1>8, <1>11 DEF f, c, to

LEMMA FurtherType ==
    ASSUME root \in Frames, NEW s \in Walks, NEW i \in Idx
    PROVE  Further(s, i) \in Walks
<1> DEFINE f == pmm_alloc(s.pool)
           e == s.tab[s.cur][i]
           n == NewTable(s, i)
<1>1. /\ s.tab \in Tabs /\ s.pool \subseteq Frames /\ s.cur \in Frames \cup {0} /\ s.zero \in BOOLEAN
  BY DEF Walks, Tabs
<1>2. f \in Frames
  BY <1>1, Allocated
<1>3. CASE s.cur = 0
  BY <1>3 DEF Further
<1>4. CASE s.cur # 0 /\ e.present
  <2>1. e \in Entries
    BY <1>1, <1>4 DEF Tabs
  <2>2. Via(s.tab, e.frame) \in Frames \cup {0}
    BY <1>1, <1>4, <2>1, EntryFacts, ViaType
  <2>3. Further(s, i) = [s EXCEPT !.cur = Via(s.tab, e.frame)]
    BY <1>4 DEF Further
  <2> HIDE DEF e
  <2> QED
    BY <2>2, <2>3 DEF Walks
<1>5. CASE s.cur # 0 /\ ~e.present /\ Via(s.tab, f) = 0
  <2>1. Further(s, i) = [s EXCEPT !.pool = @ \ {f}, !.cur = 0, !.zero = @ \/ f = Zero]
    BY <1>5 DEF Further
  <2> HIDE DEF f
  <2> QED
    BY <1>1, <2>1 DEF Walks
<1>6. CASE s.cur # 0 /\ ~e.present /\ Via(s.tab, f) # 0
  <2>1. n \in Tabs
    BY <1>6, NewTableType
  <2>2. Via(n, f) \in Frames \cup {0}
    BY <1>2, <2>1, ViaType
  <2>3. Further(s, i) = [tab |-> n, pool |-> s.pool \ {f}, cur |-> Via(n, f),
                         zero |-> s.zero \/ f = Zero]
    BY <1>6 DEF Further
  <2> HIDE DEF f, n
  <2> QED
    BY <1>1, <2>1, <2>2, <2>3 DEF Walks, Tabs
<1> QED
  BY <1>3, <1>4, <1>5, <1>6

\* The start of a walk.
Start(tab, free) == [tab |-> tab, pool |-> free, cur |-> Via(tab, root), zero |-> FALSE]

\* The states of a walk, one level after the other.
WalkRun(st, page, tab, free) ==
    /\ st \in [0 .. Levels - 1 -> Walks]
    /\ st[0] = Start(tab, free)
    /\ \A k \in 1 .. Levels - 1 : st[k] = Further(st[k-1], page[k])
    /\ vmm_get_pte(page, tab, free) = st[Levels - 1]

LEMMA WalkRunExists ==
    ASSUME NEW tab \in Tabs, root \in Frames, NEW free \in SUBSET Frames, NEW page \in Pages
    PROVE  \E st : WalkRun(st, page, tab, free)
<1> DEFINE n == Levels - 1
           b == Start(tab, free)
           F == [s \in Walks \X (1 .. n) |-> NextTable[page[s[2]]][s[1]]]
           Rec(g) == g = [k \in 0 .. n |-> IF k = 0 THEN b ELSE NextTable[page[k]][g[k-1]]]
           w == CHOOSE g : Rec(g)
<1>1. n \in Nat /\ \A k \in 1 .. n : page[k] \in Idx /\ k # 0 /\ k \in 0 .. n /\ k - 1 \in 0 .. n
  BY Constants
<1>2. b \in Walks
  BY ViaType DEF Walks, Tabs, Start
<1>t. \A s \in Walks, i \in Idx : NextTable[i][s] \in Walks
  BY FurtherIsNext, FurtherType
<1>3. F \in [Walks \X (1 .. n) -> Walks]
  BY <1>1, <1>t
<1>4. PICK g : Iterates(g, Walks, n, F, b)
  <2> HIDE DEF F, b, n
  <2> QED
    BY <1>1, <1>2, <1>3, IteratesExist
<1>5. /\ g \in [0 .. n -> Walks] /\ g[0] = b
      /\ \A k \in 1 .. n : g[k] = NextTable[page[k]][g[k-1]]
  <2>1. g \in [0 .. n -> Walks] /\ g[0] = b /\ \A k \in 1 .. n : g[k] = F[<<g[k-1], k>>]
    BY <1>4 DEF Iterates
  <2> HIDE DEF b, n
  <2>2. \A k \in 1 .. n : F[<<g[k-1], k>>] = NextTable[page[k]][g[k-1]]
    BY <1>1, <2>1
  <2> QED
    BY <2>1, <2>2
<1>6. Rec(g)
  <2>1. \A k \in 0 .. n : k # 0 => k \in 1 .. n
    BY Constants
  <2> HIDE DEF b, n
  <2> QED
    BY <1>5, <2>1
<1>7. Rec(w)
  BY <1>6
<1>8. vmm_get_pte(page, tab, free) = w[Levels - 1]
  BY DEF vmm_get_pte, Start
<1>9. w = [k \in 0 .. n |-> IF k = 0 THEN b ELSE NextTable[page[k]][w[k-1]]]
  BY <1>7
<1> HIDE DEF w, b
<1>10. w[0] = b /\ \A k \in 1 .. n : w[k] = NextTable[page[k]][w[k-1]]
  <2>1. 0 \in 0 .. n
    BY Constants
  <2> HIDE DEF n
  <2> QED
    BY <1>1, <1>9, <2>1
<1>11. \A k \in 0 .. n : w[k] \in Walks
  <2> DEFINE P == {k \in 0 .. n : w[k] \in Walks}
  <2> HIDE DEF n
  <2>1. 0 \in P
    <3>1. 0 \in 0 .. n
      BY <1>1
    <3>2. w[0] = b
      BY <1>10
    <3> QED
      BY <1>2, <3>1, <3>2
  <2>2. ASSUME NEW k \in 0 .. n - 1, k \in P PROVE k + 1 \in P
    <3>1. k + 1 \in 1 .. n /\ (k + 1) - 1 = k /\ k + 1 \in 0 .. n
      BY <1>1
    <3>2. w[k+1] = NextTable[page[k+1]][w[k]]
      BY <1>10, <3>1
    <3>3. w[k] \in Walks /\ page[k+1] \in Idx
      BY <1>1, <2>2, <3>1
    <3> QED
      BY <1>t, <3>1, <3>2, <3>3
  <2> HIDE DEF P
  <2>3. \A k \in 0 .. n : k \in P
    BY <1>1, <2>1, <2>2, UpTo
  <2> QED
    BY <2>3 DEF P
<1>12. w \in [0 .. n -> Walks]
  BY <1>9, <1>11
<1>13. \A k \in 1 .. n : w[k] = Further(w[k-1], page[k])
  BY <1>1, <1>10, <1>11, FurtherIsNext
<1>14. WalkRun(w, page, tab, free)
  BY <1>8, <1>10, <1>12, <1>13 DEF WalkRun, b
<1> QED
  BY <1>14

\* The kernel finds the tables and the free frames at their addresses.
Straight(tab, top, free) ==
    \A f \in Frames : Meets(tab, top, f) \/ f \in free
        => Reach(tab, top, Direct[f])[Levels] = f

\* Frames come off the pool from below.
FromBelow(rest, free) == \A x \in free \ rest, y \in rest : x < y

\* What is true after any number of levels,
WalkTypes(s, free) == s \in Walks /\ s.pool \subseteq free /\ (s.zero => s.pool = {})
\* and after k of them as long as frame 0 was not taken for a table.
WalkOK(s, k, page, tab, free, taken) ==
    /\ Good(s.tab, root, s.pool, taken) /\ SameMap(s.tab, tab, root)
    /\ s.cur = Reach(s.tab, root, page)[k] /\ s.cur # 0
    /\ MeetsMore(s.tab, tab, root, free \ s.pool)
    /\ FromBelow(s.pool, free)
    /\ Reach(tab, root, page)[Levels] # 0 => s.pool = free

LEMMA FurtherTypes ==
    ASSUME root \in Frames, NEW free, free \subseteq Usable,
           NEW s, WalkTypes(s, free), NEW i \in Idx
    PROVE  /\ WalkTypes(Further(s, i), free)
           /\ s.zero => Further(s, i).zero
<1> DEFINE g == pmm_alloc(s.pool)
           t == Further(s, i)
<1>1. s \in Walks /\ s.pool \subseteq Usable /\ s.pool \subseteq free /\ (s.zero => s.pool = {})
      /\ s.pool \subseteq Frames
  BY VmmAssumption DEF WalkTypes
<1>2. g = Zero <=> s.pool = {}
  BY <1>1, Allocated
<1>3. t \in Walks
  BY <1>1, FurtherType
<1>4. \/ t.pool = s.pool /\ t.zero = s.zero
      \/ t.pool = s.pool \ {g} /\ t.zero = (s.zero \/ g = Zero)
  <2>1. CASE s.cur = 0
    BY <2>1 DEF Further
  <2>2. CASE s.cur # 0 /\ s.tab[s.cur][i].present
    <3>1. t = [s EXCEPT !.cur = Via(s.tab, s.tab[s.cur][i].frame)]
      BY <2>2 DEF Further
    <3> DEFINE c == Via(s.tab, s.tab[s.cur][i].frame)
    <3> HIDE DEF c, t
    <3> QED
      BY <1>1, <3>1 DEF Walks
  <2>3. CASE s.cur # 0 /\ ~s.tab[s.cur][i].present /\ Via(s.tab, g) = 0
    <3>1. t = [s EXCEPT !.pool = @ \ {g}, !.cur = 0, !.zero = @ \/ g = Zero]
      BY <2>3 DEF Further
    <3> HIDE DEF t, g
    <3> QED
      BY <1>1, <3>1 DEF Walks
  <2>4. CASE s.cur # 0 /\ ~s.tab[s.cur][i].present /\ Via(s.tab, g) # 0
    <3>1. t = [tab |-> NewTable(s, i), pool |-> s.pool \ {g}, cur |-> Via(NewTable(s, i), g),
               zero |-> s.zero \/ g = Zero]
      BY <2>4 DEF Further
    <3> HIDE DEF t, g
    <3> QED
      BY <3>1
  <2> QED
    BY <2>1, <2>2, <2>3, <2>4
<1>5. s.zero \in BOOLEAN /\ t.zero \in BOOLEAN
  BY <1>1, <1>3 DEF Walks
<1> HIDE DEF g, t
<1>6. t.pool \subseteq free /\ (t.zero => t.pool = {}) /\ (s.zero => t.zero)
  BY <1>1, <1>2, <1>4
<1> QED
  BY <1>3, <1>6 DEF WalkTypes, t

\* A walk that ended before its last step stays where it is.
LEMMA ZeroStays ==
    ASSUME NEW tab \in Tabs, NEW top \in Frames, NEW p \in Pages, NEW k \in 0 .. Levels,
           Reach(tab, top, p)[k] = 0
    PROVE  Reach(tab, top, p)[Levels] = 0
<1> DEFINE w == Reach(tab, top, p)
           P == {n \in 0 .. Levels : n >= k => w[n] = 0}
<1>1. 0 \in P
  <2>1. 0 >= k => k = 0
    OBVIOUS
  <2> QED
    BY <2>1, Constants
<1>2. ASSUME NEW n \in 0 .. Levels - 1, n \in P PROVE n + 1 \in P
  <2>1. n + 1 \in 0 .. Levels /\ (n + 1 >= k => n >= k \/ n + 1 = k)
    BY Constants
  <2>2. n >= k => w[n] = 0
    BY <1>2
  <2>3. w[n+1] = Onward(tab, w[n], p[n+1])
    BY ReachNext
  <2> HIDE DEF w
  <2>4. n >= k => w[n+1] = 0
    BY <2>2, <2>3 DEF Onward
  <2>5. n + 1 = k => w[n+1] = 0
    BY DEF w
  <2> QED
    BY <2>1, <2>4, <2>5
<1> HIDE DEF P
<1>3. \A n \in 0 .. Levels : n \in P
  BY <1>1, <1>2, UpTo, Constants
<1>4. Levels \in 0 .. Levels /\ Levels >= k
  BY Constants
<1> QED
  BY <1>3, <1>4 DEF P

LEMMA FurtherOK ==
    ASSUME root \in Frames, NEW page \in Pages, NEW tab \in Tabs, NEW free, free \subseteq Usable,
           NEW taken, Straight(tab, root, free), NEW k \in 1 .. Levels - 1,
           NEW s, WalkTypes(s, free), WalkOK(s, k - 1, page, tab, free, taken),
           ~Further(s, page[k]).zero
    PROVE  WalkOK(Further(s, page[k]), k, page, tab, free, taken)
<1> DEFINE i == page[k]
           c == s.cur
           f == pmm_alloc(s.pool)
           t == Further(s, i)
<1>0. /\ s \in Walks /\ s.pool \subseteq free
      /\ Good(s.tab, root, s.pool, taken) /\ SameMap(s.tab, tab, root)
      /\ c = Reach(s.tab, root, page)[k-1] /\ c # 0
      /\ MeetsMore(s.tab, tab, root, free \ s.pool)
      /\ FromBelow(s.pool, free)
      /\ Reach(tab, root, page)[Levels] # 0 => s.pool = free
  BY DEF WalkOK, WalkTypes
<1>1. /\ i \in Idx /\ k \in 0 .. Levels /\ k - 1 \in 0 .. Levels - 1 /\ k \in 1 .. Levels
      /\ k \in 0 .. Levels - 1 /\ k \in Nat /\ k < Levels
  BY Constants
<1>2. /\ s.tab \in Tabs /\ s.cur \in Frames /\ s.pool \subseteq Frames /\ s.pool \subseteq Usable
      /\ s.tab[c][i] \in Entries
  BY <1>0, <1>1 DEF Good, Walks, Tabs
<1>4. Reach(s.tab, root, page)[k] = Onward(s.tab, Reach(s.tab, root, page)[k-1], page[k])
  BY <1>1, <1>2, ReachSteps
\* The tables of the walk are where the kernel looks for them.
<1>v. \A x \in Frames : Meets(s.tab, root, x) \/ x \in free => Reach(s.tab, root, Direct[x])[Levels] = x
  <2> SUFFICES ASSUME NEW x \in Frames, Meets(s.tab, root, x) \/ x \in free
               PROVE  Reach(s.tab, root, Direct[x])[Levels] = x
    OBVIOUS
  <2>1. Meets(tab, root, x) \/ x \in free
    BY <1>0 DEF MeetsMore
  <2>2. Reach(tab, root, Direct[x])[Levels] = x
    BY <2>1 DEF Straight
  <2>3. Direct[x] \in Pages
    BY DirectAssumption
  <2> QED
    BY <1>0, <2>2, <2>3 DEF SameMap
<1>6. CASE s.tab[c][i].present
  <2> DEFINE e == s.tab[c][i].frame
  <2>1. t = [s EXCEPT !.cur = Via(s.tab, e)]
    BY <1>0, <1>6 DEF Further
  <2>3. e = Reach(s.tab, root, page)[k]
    BY <1>0, <1>2, <1>4, <1>6, Constants DEF Onward
  <2>4. e \in Frames
    BY <1>2, <1>6, EntryFacts
  <2>5. Meets(s.tab, root, e)
    BY <1>1, <2>3 DEF Meets
  <2>6. Via(s.tab, e) = e
    BY <1>v, <2>4, <2>5 DEF Via
  <2>7. t = [s EXCEPT !.cur = e]
    BY <2>1, <2>6
  <2> HIDE DEF e, t
  <2>8. t.tab = s.tab /\ t.pool = s.pool /\ t.cur = e /\ e # 0
    BY <1>0, <2>4, <2>7, Constants DEF Walks
  <2>9. WalkOK(t, k, page, tab, free, taken)
    BY <1>0, <2>3, <2>8 DEF WalkOK
  <2> QED
    BY <2>9 DEF t, i
<1>8. CASE ~s.tab[c][i].present
  <2>0. s.pool # {}
    <3> SUFFICES ASSUME s.pool = {} PROVE FALSE
      OBVIOUS
    <3>1. f = Zero
      BY <1>2, Allocated
    <3>2. \/ t = [s EXCEPT !.pool = @ \ {f}, !.cur = 0, !.zero = @ \/ f = Zero]
          \/ t = [tab |-> NewTable(s, i), pool |-> s.pool \ {f}, cur |-> Via(NewTable(s, i), f),
                  zero |-> s.zero \/ f = Zero]
      BY <1>0, <1>8 DEF Further
    <3>3. ~t.zero
      OBVIOUS
    <3> DEFINE n == NewTable(s, i)
               a == Via(n, f)
    <3> HIDE DEF t, f, n, a
    <3>4. t.zero = (s.zero \/ f = Zero)
      <4>1. CASE t = [s EXCEPT !.pool = @ \ {f}, !.cur = 0, !.zero = @ \/ f = Zero]
        BY <1>0, <4>1 DEF Walks
      <4>2. CASE t = [tab |-> n, pool |-> s.pool \ {f}, cur |-> a, zero |-> s.zero \/ f = Zero]
        BY <4>2
      <4> QED
        BY <3>2, <4>1, <4>2 DEF n, a
    <3> QED
      BY <3>1, <3>3, <3>4
  <2>2. f \in s.pool /\ f \in Frames /\ \A x \in s.pool \ {f} : f < x
    BY <1>2, <2>0, Allocated
  <2>a. Via(s.tab, f) = f /\ f # 0
    BY <1>0, <1>v, <2>2, Constants DEF Via
  <2>3. f # c
    <3>1. ~Meets(s.tab, root, f)
      BY <1>0, <2>2 DEF Good
    <3>2. Meets(s.tab, root, c)
      BY <1>0, <1>1 DEF Meets
    <3> QED
      BY <3>1, <3>2
  <2> DEFINE new == NewTable(s, i)
  <2>4. /\ t = [tab |-> new, pool |-> s.pool \ {f}, cur |-> Via(new, f), zero |-> s.zero \/ f = Zero]
        /\ new \in Tabs /\ Links(new, s.tab, c, i, f, k)
    <3>1. t = [tab |-> new, pool |-> s.pool \ {f}, cur |-> Via(new, f), zero |-> s.zero \/ f = Zero]
      BY <1>0, <1>8, <2>a DEF Further
    <3>2. new \in Tabs /\ Links(new, s.tab, c, i, f, k)
      BY <1>0, <1>1, <2>a, <2>3, NewTableType
    <3> QED
      BY <3>1, <3>2
  <2> HIDE DEF t, f, new
  <2>4a. t.tab = new /\ t.pool = s.pool \ {f} /\ t.cur = Via(new, f)
    BY <2>4
  <2>5. /\ Good(new, root, s.pool \ {f}, taken) /\ SameMap(new, s.tab, root)
        /\ Reach(new, root, page)[k] = f
        /\ MeetsMore(new, s.tab, root, {f})
    <3>1. /\ Good(s.tab, root, s.pool, taken) /\ c = Reach(s.tab, root, page)[k-1]
          /\ ~s.tab[c][page[k]].present /\ Links(new, s.tab, c, page[k], f, k)
          /\ c \in Frames /\ f \in s.pool
      BY <1>0, <1>2, <1>8, <2>2, <2>4
    <3> DEFINE old == s.tab
               free1 == s.pool
    <3> HIDE DEF c, i, old, free1
    <3>2. /\ Good(old, root, free1, taken) /\ c = Reach(old, root, page)[k-1]
          /\ ~old[c][page[k]].present /\ Links(new, old, c, page[k], f, k)
          /\ c \in Frames /\ f \in free1
      BY <3>1 DEF old, free1
    <3>3. /\ Good(new, root, free1 \ {f}, taken) /\ SameMap(new, old, root)
          /\ Reach(new, root, page)[k] = f /\ MeetsMore(new, old, root, {f})
      BY <3>2, TableLinked
    <3> QED
      BY <3>3 DEF old, free1
  <2>6. SameMap(new, tab, root)
    BY <1>0, <2>5 DEF SameMap
  <2>7. Via(new, f) = f
    <3>1. Reach(s.tab, root, Direct[f])[Levels] = f
      BY <2>a DEF Via
    <3>2. Direct[f] \in Pages
      BY <2>2, DirectAssumption
    <3> QED
      BY <2>5, <3>1, <3>2 DEF SameMap, Via
  <2>8. MeetsMore(new, tab, root, free \ (s.pool \ {f}))
    BY <1>0, <2>2, <2>5 DEF MeetsMore
  <2>9. FromBelow(s.pool \ {f}, free)
    <3> SUFFICES ASSUME NEW x \in free \ (s.pool \ {f}), NEW y \in s.pool \ {f} PROVE x < y
      BY DEF FromBelow
    <3>1. CASE x = f
      BY <2>2, <3>1
    <3>2. CASE x # f
      BY <1>0, <3>2 DEF FromBelow
    <3> QED
      BY <3>1, <3>2
  <2>10. Reach(tab, root, page)[Levels] = 0
    <3>1. Reach(s.tab, root, page)[k] = 0
      BY <1>0, <1>4, <1>8 DEF Onward
    <3>2. Reach(s.tab, root, page)[Levels] = 0
      BY <1>1, <1>2, <3>1, ZeroStays
    <3> QED
      BY <1>0, <3>2 DEF SameMap
  <2>11. WalkOK(t, k, page, tab, free, taken)
    BY <2>4a, <2>5, <2>6, <2>7, <2>8, <2>9, <2>10, <2>a DEF WalkOK
  <2> QED
    BY <2>11 DEF t, i
<1> QED
  BY <1>6, <1>8

\* What vmm_get_pte returns.
LEMMA WalkIsOK ==
    ASSUME root \in Frames, NEW tab \in Tabs, NEW free, free \subseteq Usable, NEW taken,
           NEW page \in Pages
    PROVE  /\ WalkTypes(vmm_get_pte(page, tab, free), free)
           /\ ~vmm_get_pte(page, tab, free).zero /\ Straight(tab, root, free)
              /\ Good(tab, root, free, taken)
                => WalkOK(vmm_get_pte(page, tab, free), Levels - 1, page, tab, free, taken)
<1>1. free \in SUBSET Frames /\ Via(tab, root) \in Frames \cup {0}
  BY VmmAssumption, ViaType
<1>2. PICK st : WalkRun(st, page, tab, free)
  BY <1>1, WalkRunExists
<1>3. /\ st[0] = Start(tab, free)
      /\ \A k \in 1 .. Levels - 1 : st[k] = Further(st[k-1], page[k])
      /\ vmm_get_pte(page, tab, free) = st[Levels - 1]
  BY <1>2 DEF WalkRun
<1> DEFINE Fine == Straight(tab, root, free) /\ Good(tab, root, free, taken)
           P == {k \in 0 .. Levels - 1 :
                   /\ WalkTypes(st[k], free)
                   /\ ~st[k].zero /\ Fine => WalkOK(st[k], k, page, tab, free, taken)}
<1>4. 0 \in P
  <2>1. st[0].tab = tab /\ st[0].pool = free /\ st[0].cur = Via(tab, root) /\ st[0].zero = FALSE
        /\ st[0] \in Walks
    BY <1>1, <1>3 DEF Start, Walks, Tabs
  <2>2. WalkTypes(st[0], free)
    BY <2>1 DEF WalkTypes
  <2>3. ASSUME Fine PROVE WalkOK(st[0], 0, page, tab, free, taken)
    <3>1. \A q \in Pages : Reach(tab, root, q)[0] = root
      BY ReachSteps
    <3>2. Meets(tab, root, root)
      BY <3>1, Constants DEF Meets
    <3>3. Via(tab, root) = root
      BY <2>3, <3>2 DEF Straight, Via
    <3>4. SameMap(tab, tab, root) /\ FromBelow(free, free) /\ root # 0
         /\ MeetsMore(tab, tab, root, free \ free)
      BY Constants DEF SameMap, FromBelow, MeetsMore
    <3> QED
      BY <2>1, <2>3, <3>1, <3>3, <3>4 DEF WalkOK
  <2> QED
    BY <2>2, <2>3, Constants
<1>5. ASSUME NEW k \in 0 .. Levels - 1 - 1, k \in P PROVE k + 1 \in P
  <2>1. k + 1 \in 1 .. Levels - 1 /\ (k + 1) - 1 = k /\ k + 1 \in 0 .. Levels - 1 /\ page[k+1] \in Idx
    BY Constants
  <2>2. WalkTypes(st[k], free) /\ (~st[k].zero /\ Fine => WalkOK(st[k], (k + 1) - 1, page, tab, free, taken))
    BY <1>5, <2>1
  <2>3. st[k+1] = Further(st[k], page[k+1])
    BY <1>3, <2>1
  <2>4. WalkTypes(st[k+1], free) /\ (st[k].zero => st[k+1].zero)
    BY <2>1, <2>2, <2>3, FurtherTypes
  <2>5. ASSUME ~st[k+1].zero, Fine PROVE WalkOK(st[k+1], k + 1, page, tab, free, taken)
    <3>1. WalkOK(st[k], (k + 1) - 1, page, tab, free, taken)
      BY <2>2, <2>4, <2>5
    <3>2. ~Further(st[k], page[k+1]).zero
      BY <2>3, <2>5
    <3>3. WalkOK(Further(st[k], page[k+1]), k + 1, page, tab, free, taken)
      BY <2>1, <2>2, <2>5, <3>1, <3>2, FurtherOK
    <3> QED
      BY <2>3, <3>3
  <2> QED
    BY <2>1, <2>4, <2>5
<1> HIDE DEF P
<1>6. Levels - 1 \in Nat /\ Levels - 1 \in 0 .. Levels - 1
  BY Constants
<1>7. \A k \in 0 .. Levels - 1 : k \in P
  BY <1>4, <1>5, <1>6, UpTo
<1> QED
  BY <1>3, <1>6, <1>7 DEF P

----
\* vmm_map, and the copy of the top table.

\* A call that stays clear of frame 0 maps its page, and changes nothing else.
Mapped(new, newpool, page, frame, free, taken) ==
    /\ Good(new, root, newpool, taken)
    /\ \A q \in Pages : Reach(new, root, q)[Levels] =
          IF q = page THEN frame ELSE Reach(table, root, q)[Levels]
    /\ MeetsMore(new, table, root, free \ newpool)
    /\ FromBelow(newpool, free)
    /\ Reach(table, root, page)[Levels] # 0 => newpool = free

LEMMA MapTypes ==
    ASSUME root \in Frames, table \in Tabs, NEW page \in Pages, NEW frame \in Frames,
           NEW user \in BOOLEAN, NEW free, free \subseteq Usable,
           vmm_map(page, frame, user, free)
    PROVE  /\ table' \in Tabs /\ pool' \subseteq free
           /\ MapUsesZero(page, free) \in BOOLEAN
           /\ MapUsesZero(page, free) => pool' = {}
<1> DEFINE s == vmm_get_pte(page, table, free)
           i == page[Levels]
           e == EntryTo(frame, user)
<1>1. WalkTypes(s, free)
  BY WalkIsOK
<1>2. pool' = s.pool /\ table' = (IF s.cur = 0 THEN s.tab ELSE [s.tab EXCEPT ![s.cur][i] = e])
      /\ (MapUsesZero(page, free) <=> s.zero) /\ MapUsesZero(page, free) = s.zero
  BY DEF vmm_map, MapUsesZero
<1>3. i \in Idx /\ e \in Entries
  BY Constants, EntryFacts
<1> HIDE DEF s, i, e
<1>4. s.tab \in [Frames -> [Idx -> Entries]] /\ s.cur \in Frames \cup {0} /\ s.zero \in BOOLEAN
  BY <1>1 DEF WalkTypes, Walks
<1>5. table' \in Tabs
  BY <1>2, <1>3, <1>4 DEF Tabs
<1> QED
  BY <1>1, <1>2, <1>4, <1>5 DEF WalkTypes

LEMMA MapMaps ==
    ASSUME root \in Frames, table \in Tabs, NEW page \in Pages, NEW frame \in Frames,
           NEW user \in BOOLEAN, NEW free, free \subseteq Usable, NEW taken,
           Good(table, root, free, taken), Straight(table, root, free),
           vmm_map(page, frame, user, free), ~MapUsesZero(page, free)
    PROVE  Mapped(table', pool', page, frame, free, taken) /\ MapSucceeds(page, free)
<1> DEFINE s == vmm_get_pte(page, table, free)
           t == s.tab
           c == s.cur
           e == EntryTo(frame, user)
           i == page[Levels]
<1>1. WalkTypes(s, free) /\ WalkOK(s, Levels - 1, page, table, free, taken)
  BY WalkIsOK DEF MapUsesZero
<1>3. pool' = s.pool /\ table' = (IF c = 0 THEN t ELSE [t EXCEPT ![c][i] = e])
      /\ (MapSucceeds(page, free) <=> c # 0)
  BY DEF vmm_map, MapSucceeds
<1> HIDE DEF s
<1>4. /\ t \in Tabs /\ c \in Frames /\ Good(t, root, s.pool, taken)
      /\ SameMap(t, table, root) /\ c # 0
      /\ c = Reach(t, root, page)[Levels - 1]
      /\ MeetsMore(t, table, root, free \ s.pool)
      /\ FromBelow(s.pool, free)
      /\ Reach(table, root, page)[Levels] # 0 => s.pool = free
  BY <1>1 DEF WalkOK, WalkTypes, Walks, Tabs
<1>5. i \in Idx /\ e \in Entries /\ e.present = TRUE /\ e.frame = frame
  BY Constants, EntryFacts
<1> DEFINE u == [t EXCEPT ![c] = [t[c] EXCEPT ![i] = e]]
<1>6. table' = u
  BY <1>3, <1>4
<1> HIDE DEF t, c, e, i
<1>7. [t[c] EXCEPT ![i] = e] \in [Idx -> Entries]
  BY <1>4, <1>5 DEF Tabs
<1>8. /\ u \in Tabs /\ u[c][i] = e /\ \A j \in Idx : j # i => u[c][j] = t[c][j]
      /\ \A g \in Frames : g # c => u[g] = t[g]
  BY <1>4, <1>5, <1>7 DEF Tabs
<1> HIDE DEF u
<1>9. Links(u, t, c, page[Levels], frame, Levels)
  <2>1. ~(Levels < Levels)
    BY Constants
  <2> QED
    BY <1>5, <1>8, <2>1 DEF Links, i
<1>10. /\ Good(u, root, s.pool, taken)
       /\ \A q \in Pages : Reach(u, root, q)[Levels] =
             IF q = page THEN frame ELSE Reach(t, root, q)[Levels]
       /\ MeetsMore(u, t, root, {})
  BY <1>4, <1>9, LeafLinked
<1>11. Mapped(u, s.pool, page, frame, free, taken)
  BY <1>4, <1>10 DEF Mapped, SameMap, MeetsMore
<1> QED
  BY <1>3, <1>4, <1>6, <1>11

LEMMA BootedType ==
    /\ Booted \in Tabs /\ IsTree(Booted, LimineRoot)
    /\ \A p \in Pages, n \in 0 .. Levels - 1 :
          Reach(Booted, LimineRoot, p)[n] \in DOMAIN LimineTables \cup {0}
    /\ Devices \subseteq Frames \ (DOMAIN LimineTables \cup Usable \cup {Zero})
    /\ DOMAIN LimineTables \cap Usable = {}
<1>1. Junk \in [Idx -> Entries]
  BY Constants, EntryFacts DEF Junk
<1>2. \A f \in DOMAIN LimineTables : LimineTables[f] \in [Idx -> Entries]
  BY LimineAssumption
<1>3. Booted \in Tabs
  BY <1>1, <1>2 DEF Booted, Tabs
<1>4. Devices \subseteq Frames \ (DOMAIN LimineTables \cup Usable \cup {Zero})
  BY VmmAssumption DEF Devices
<1>5. DOMAIN LimineTables \cap Usable = {}
  BY VmmAssumption
<1> QED
  BY <1>3, <1>4, <1>5, LimineAssumption

\* A top table that is a copy of another one, in a frame no walk meets.
IsCopy(new, r, tab, top) ==
    /\ new \in Tabs
    /\ \A q \in Pages, n \in 0 .. Levels :
          Reach(new, r, q)[n] = IF n = 0 THEN r ELSE Reach(tab, top, q)[n]

LEMMA CopyReaches ==
    ASSUME NEW tab \in Tabs, NEW top \in Frames, NEW r \in Frames, ~Meets(tab, top, r),
           NEW new, new = [tab EXCEPT ![r] = tab[top]]
    PROVE  IsCopy(new, r, tab, top)
<1>1. new \in Tabs /\ new[r] = tab[top] /\ \A f \in Frames : f # r => new[f] = tab[f]
  BY DEF Tabs
<1>2. ASSUME NEW q \in Pages
      PROVE  \A n \in 0 .. Levels : Reach(new, r, q)[n] = IF n = 0 THEN r ELSE Reach(tab, top, q)[n]
  <2> DEFINE a == Reach(tab, top, q)
             b == Reach(new, r, q)
             P == {n \in 0 .. Levels : b[n] = IF n = 0 THEN r ELSE a[n]}
  <2>1. a[0] = top /\ b[0] = r /\ a \in [0 .. Levels -> Frames \cup {0}]
    BY <1>1, ReachSteps
  <2>2. 0 \in P
    BY <2>1, Constants
  <2>3. ASSUME NEW n \in 0 .. Levels - 1, n \in P PROVE n + 1 \in P
    <3>1. n + 1 \in 0 .. Levels /\ n + 1 # 0 /\ n \in 0 .. Levels
      BY Constants
    <3>2. a[n+1] = Onward(tab, a[n], q[n+1]) /\ b[n+1] = Onward(new, b[n], q[n+1])
      BY <1>1, ReachNext
    <3>3. b[n] = IF n = 0 THEN r ELSE a[n]
      BY <2>3
    <3>4. a[n] # r
      BY DEF Meets
    <3>5. a[n] \in Frames \cup {0}
      BY <2>1, <3>1
    <3> SUFFICES b[n+1] = a[n+1]
      BY <3>1
    <3> HIDE DEF a, b
    <3>6. CASE n = 0
      <4>1. a[n] = top /\ b[n] = r /\ top # 0 /\ r # 0
        BY <2>1, <3>3, <3>6, Constants
      <4> QED
        BY <1>1, <3>2, <4>1 DEF Onward
    <3>7. CASE n # 0 /\ a[n] = 0
      BY <3>2, <3>3, <3>7 DEF Onward
    <3>8. CASE n # 0 /\ a[n] # 0
      <4>1. b[n] = a[n] /\ new[a[n]] = tab[a[n]]
        BY <1>1, <3>3, <3>4, <3>5, <3>8
      <4> QED
        BY <3>2, <4>1 DEF Onward
    <3> QED
      BY <3>6, <3>7, <3>8
  <2> HIDE DEF P
  <2>4. \A n \in 0 .. Levels : n \in P
    BY <2>2, <2>3, UpTo, Constants
  <2> QED
    BY <2>4 DEF P
<1> QED
  BY <1>1, <1>2 DEF IsCopy

----
\* The invariant.

SlabType ==
    /\ slab \in [frame : Frames, next : Nat, pages : Extras]
    /\ slab.frame \in memory \cup {Zero} /\ slab.next \in 1 .. slab.pages
TypeInv ==
    /\ table \in Tabs /\ root \in Frames \cup {0}
    /\ memory \in Pools /\ pool \subseteq memory /\ used \subseteq memory \cup {Zero}
    /\ heap \subseteq Frames /\ astray \in BOOLEAN
    /\ slab = NoSlab \/ SlabType
    /\ todo \subseteq DOMAIN VideoMap \cup UserPages
    /\ want \in UserPages \cup DemandPages \cup {NoPage}
    /\ pc \in {"start", "gdt", "boot", "user", "fault", "halted"}
PhaseInv ==
    /\ pc \in {"gdt", "boot", "user", "fault"} => root # 0
    /\ pc = "start" => root = 0
    /\ root = 0 => /\ table = Booted /\ pool = memory /\ used = {} /\ heap = {} /\ ~astray
                   /\ todo = DOMAIN VideoMap \cup UserPages
    /\ pc \in {"user", "fault"} => todo = {}
    /\ pc = "fault" => want # NoPage
    /\ slab # NoSlab => pc \in {"boot", "user"}
\* How the kernel goes astray.
LostInv == astray => pool = {} \/ ~RoomBehind(memory)

TreeInv == root # 0 => Good(table, root, pool, used \cup Devices)
\* A page mapped since boot leads to a frame in use or of a device, one of the demand range to a
\* frame in use; no two of them lead to the same frame in use.
LeafInv ==
    /\ \A p \in Pages \ DirectPages : Translate(p) # 0 => Translate(p) \in used \cup Devices
    /\ \A p \in DemandPages : Translate(p) # 0 => Translate(p) \in used
    /\ \A p, q \in Pages \ DirectPages :
          Translate(p) \in used /\ Translate(p) = Translate(q) => p = q
MappedInv ==
    pc # "halted" => \A p \in (DOMAIN VideoMap \cup UserPages) \ todo : Translate(p) # 0
\* The kernel finds its tables, the free frames and its own data at their addresses.
DirectInv ==
    root # 0 => \A f \in Frames :
        Meets(table, root, f) \/ f \in pool \/ f \in Kept => Translate(Direct[f]) = f
\* Frames leave the pool from below, so the heap and the slab it is mapping lie below the pool;
\* where there is room behind each region, the slab's next frame is free if it is memory at all.
HeapInv ==
    /\ \A h \in heap : Translate(Direct[h]) # 0 /\ \A x \in pool : h < x
    /\ FromBelow(pool, memory)
    /\ root # 0 => \A f \in Frames : Meets(table, root, f) => f \in DOMAIN LimineTables \cup memory
    /\ slab # NoSlab =>
          /\ slab.frame \in memory
          /\ \A x \in pool : slab.frame + slab.next <= x
          /\ \A h \in heap : h < slab.frame + slab.next
          /\ RoomBehind(memory) /\ slab.frame + slab.next \in memory
                => slab.frame + slab.next \in pool
Sound == TreeInv /\ LeafInv /\ MappedInv /\ DirectInv /\ HeapInv
IInv == TypeInv /\ PhaseInv /\ LostInv /\ (~astray => Sound)

\* The second half of ImplementsAddressSpace, for one step.
Stays ==
    \A p \in Held :
        pc \in {"user", "fault"} => Translate(p) # 0 /\ Translate(p)' = Translate(p)
\* What a step does that does not lead astray.
Carries == Sound' /\ (CurrentMap' = CurrentMap \/ Abs!MapPage) /\ Stays
Keeps == IInv' /\ (astray => astray') /\ (astray' \/ Carries)

LEMMA InvFacts ==
    ASSUME TypeInv
    PROVE  /\ root \in Frames \cup {0} /\ (root # 0 => root \in Frames)
           /\ pool \subseteq Frames /\ pool \subseteq Usable /\ memory \subseteq Usable
           /\ memory \subseteq Frames /\ 0 \notin Frames /\ Zero \in Frames /\ Zero \notin Usable
           /\ UserPages \subseteq Pages /\ DOMAIN VideoMap \subseteq Pages /\ DemandPages \subseteq Pages
           /\ \A p \in Pages, f \in Frames : p \in DOMAIN VideoMap \cup UserPages \cup DemandPages
                                               => Direct[f] # p
           /\ \A f \in Frames : Direct[f] \in Pages
           /\ Held \subseteq Pages /\ DemandPages \subseteq Pages \ DirectPages
<1>1. memory \subseteq Usable /\ Usable \subseteq Frames
  BY VmmAssumption DEF TypeInv, Usable
<1>2. Direct \in [Frames -> Pages \ (DOMAIN VideoMap \cup UserPages \cup DemandPages)]
  BY DirectAssumption
<1>3. /\ UserPages \subseteq Pages /\ DOMAIN VideoMap \subseteq Pages
      /\ DemandPages \subseteq Pages \ DirectPages /\ Zero \in Frames \ Usable
  BY VmmAssumption
<1>4. Held \subseteq Pages
  BY <1>2, <1>3 DEF Held, TypeInv
<1> QED
  BY <1>1, <1>2, <1>3, <1>4, Constants DEF TypeInv

----
\* Types and phases, astray or not.

\* What every step keeps.
Holds == /\ TypeInv' /\ PhaseInv'
         /\ memory' = memory /\ pool' \subseteq pool /\ (astray => astray')

LEMMA VmmInitTypes ==
    ASSUME TypeInv, PhaseInv, vmm_init PROVE Holds
<1> DEFINE r == pmm_alloc(pool)
<1>1. /\ pc = "start" /\ root' = r /\ pool' = pool \ {r} /\ pc' = "gdt"
      /\ table' = [table EXCEPT ![r] = table[LimineRoot]] /\ astray' = (pool = {})
      /\ used' = used /\ slab' = slab /\ todo' = todo /\ want' = want /\ memory' = memory /\ heap' = heap
  BY DEF vmm_init
<1>2. r \in Frames /\ r # 0 /\ LimineRoot \in Frames
  BY InvFacts, Allocated, Constants
<1> HIDE DEF r
<1>3. table' \in Tabs
  BY <1>1, <1>2 DEF TypeInv, Tabs
<1>4. SlabType => SlabType'
  BY <1>1 DEF SlabType
<1>5. TypeInv'
  BY <1>1, <1>2, <1>3, <1>4 DEF TypeInv
<1>6. PhaseInv'
  BY <1>1, <1>2 DEF PhaseInv
<1> QED
  BY <1>1, <1>5, <1>6 DEF Holds, PhaseInv

LEMMA PlainTypes ==
    ASSUME TypeInv, PhaseInv,
           init_gdt \/ EnterUser \/ UserTouches \/ UserProceeds \/ UserFaults \/ UNCHANGED vars
    PROVE  Holds
<1> DEFINE f == pmm_alloc(pool)
<1>1. f \in Frames /\ (pool # {} => f \in pool) /\ (pool = {} => f = Zero)
  BY InvFacts, Allocated
<1>2. UNCHANGED <<table, root, slab, todo, memory, heap>>
  BY DEF init_gdt, EnterUser, UserTouches, UserProceeds, UserFaults, vars
<1>3. \/ pool' = pool /\ used' = used /\ astray' = astray
      \/ pool' = pool \ {f} /\ used' = used \cup {f} /\ astray' = (astray \/ pool = {}) /\ root # 0
  BY DEF init_gdt, EnterUser, UserTouches, UserProceeds, UserFaults, vars, PhaseInv
<1>4. \/ pc' = pc /\ want' = want
      \/ pc = "gdt" /\ pc' = "boot" /\ want' = want
      \/ pc = "boot" /\ pc' = "user" /\ want' = want /\ todo = {} /\ slab = NoSlab
      \/ pc = "user" /\ pc' = "user" /\ want' \in UserPages \cup DemandPages \cup {NoPage}
      \/ pc = "user" /\ pc' = "fault" /\ want' = want /\ want # NoPage /\ slab = NoSlab
  BY DEF init_gdt, EnterUser, UserTouches, UserProceeds, UserFaults, vars
<1> HIDE DEF f
<1>5. SlabType => SlabType'
  BY <1>2 DEF SlabType
<1>6. /\ pool' \subseteq memory /\ pool' \subseteq pool /\ used' \subseteq memory \cup {Zero}
      /\ astray' \in BOOLEAN /\ (astray => astray')
  BY <1>1, <1>3 DEF TypeInv
<1>7. TypeInv'
  BY <1>2, <1>4, <1>5, <1>6 DEF TypeInv
<1>8. PhaseInv'
  <2>1. root' = 0 => /\ table' = Booted /\ pool' = memory' /\ used' = {} /\ heap' = {} /\ ~astray'
                     /\ todo' = DOMAIN VideoMap \cup UserPages
    BY <1>2, <1>3 DEF PhaseInv
  <2> QED
    BY <1>2, <1>4, <2>1 DEF PhaseInv
<1> QED
  BY <1>2, <1>6, <1>7, <1>8 DEF Holds

\* A call of vmm_map, with or without a frame taken before it.
LEMMA MapHolds ==
    ASSUME TypeInv, root # 0, root' = root, memory' = memory, NEW page \in Pages,
           NEW frame \in Frames, NEW user \in BOOLEAN,
           NEW S, S = {} \/ S = {pmm_alloc(pool)}, used' = used \cup S,
           vmm_map(page, frame, user, pool \ S)
    PROVE  /\ table' \in Tabs /\ pool' \subseteq pool \ S /\ pool' \subseteq memory'
           /\ used' \subseteq memory' \cup {Zero}
           /\ MapUsesZero(page, pool \ S) \in BOOLEAN
           /\ MapUsesZero(page, pool \ S) => pool' = {}
<1>1. /\ root \in Frames /\ table \in Tabs /\ pool \ S \subseteq Usable /\ pool \subseteq memory
      /\ used \subseteq memory \cup {Zero}
  BY InvFacts DEF TypeInv
<1>2. S \subseteq pool \cup {Zero}
  BY InvFacts, Allocated
<1>3. /\ table' \in Tabs /\ pool' \subseteq pool \ S
      /\ MapUsesZero(page, pool \ S) \in BOOLEAN
      /\ MapUsesZero(page, pool \ S) => pool' = {}
  BY <1>1, MapTypes
<1> QED
  BY <1>1, <1>2, <1>3

LEMMA MapVideoTypes ==
    ASSUME TypeInv, PhaseInv, MapVideo PROVE Holds
<1>1. PICK page \in todo \cap DOMAIN VideoMap :
         /\ vmm_map(page, VideoMap[page], FALSE, pool)
         /\ astray' = (astray \/ MapUsesZero(page, pool))
         /\ todo' = todo \ {page}
         /\ pc' = IF MapSucceeds(page, pool) THEN "boot" ELSE "halted"
  BY DEF MapVideo
<1>2. pc = "boot" /\ slab = NoSlab /\ UNCHANGED <<root, used, slab, want, memory, heap>>
  BY DEF MapVideo
<1>3. root # 0 /\ page \in Pages /\ VideoMap[page] \in Frames /\ pool \ {} = pool /\ used' = used \cup {}
  BY <1>2, VmmAssumption DEF PhaseInv
<1>4. /\ table' \in Tabs /\ pool' \subseteq pool /\ pool' \subseteq memory'
      /\ used' \subseteq memory' \cup {Zero} /\ MapUsesZero(page, pool) \in BOOLEAN
  <2>1. vmm_map(page, VideoMap[page], FALSE, pool \ {})
    BY <1>1, <1>3
  <2> DEFINE frame == VideoMap[page]
  <2> HIDE DEF frame
  <2>2. vmm_map(page, frame, FALSE, pool \ {}) /\ frame \in Frames
    BY <1>3, <2>1 DEF frame
  <2>3. /\ table' \in Tabs /\ pool' \subseteq pool \ {} /\ pool' \subseteq memory'
        /\ used' \subseteq memory' \cup {Zero} /\ MapUsesZero(page, pool \ {}) \in BOOLEAN
    BY <1>2, <1>3, <2>2, MapHolds
  <2> QED
    BY <1>3, <2>3
<1>5. pc' \in {"boot", "halted"} /\ astray' \in BOOLEAN /\ (astray => astray')
  BY <1>1, <1>4 DEF TypeInv
<1>6. TypeInv'
  BY <1>1, <1>2, <1>4, <1>5 DEF TypeInv
<1>7. PhaseInv'
  BY <1>1, <1>2, <1>3, <1>5 DEF PhaseInv
<1> QED
  BY <1>2, <1>4, <1>5, <1>6, <1>7 DEF Holds

LEMMA MapUserTypes ==
    ASSUME TypeInv, PhaseInv, MapUser PROVE Holds
<1> DEFINE f == pmm_alloc(pool)
<1>1. PICK page \in todo :
         /\ vmm_map(page, f, TRUE, pool \ {f})
         /\ astray' = (astray \/ f = Zero \/ MapUsesZero(page, pool \ {f}))
         /\ used' = used \cup {f}
         /\ todo' = todo \ {page}
         /\ pc' = IF MapSucceeds(page, pool \ {f}) THEN "boot" ELSE "halted"
  BY DEF MapUser
<1>2. pc = "boot" /\ slab = NoSlab /\ UNCHANGED <<root, slab, want, memory, heap>>
  BY DEF MapUser
<1>3. root # 0 /\ page \in Pages /\ f \in Frames
  BY <1>2, InvFacts, Allocated DEF PhaseInv, TypeInv
<1>4. /\ table' \in Tabs /\ pool' \subseteq pool \ {f} /\ pool' \subseteq memory'
      /\ used' \subseteq memory' \cup {Zero} /\ MapUsesZero(page, pool \ {f}) \in BOOLEAN
  BY <1>1, <1>2, <1>3, MapHolds
<1> HIDE DEF f
<1>5. pc' \in {"boot", "halted"} /\ astray' \in BOOLEAN /\ (astray => astray')
  BY <1>1, <1>4 DEF TypeInv
<1>6. TypeInv'
  BY <1>1, <1>2, <1>4, <1>5 DEF TypeInv
<1>7. PhaseInv'
  BY <1>1, <1>2, <1>3, <1>5 DEF PhaseInv
<1> QED
  BY <1>2, <1>4, <1>5, <1>6, <1>7 DEF Holds

LEMMA FaultTypes ==
    ASSUME TypeInv, PhaseInv, page_fault_handler PROVE Holds
<1> DEFINE f == pmm_alloc(pool)
           Serves == Translate(want) = 0 /\ want \in DemandPages /\ f # Zero
<1>1. pc = "fault" /\ UNCHANGED <<root, slab, todo, want, memory, heap>>
  BY DEF page_fault_handler
<1>2. root # 0 /\ todo = {} /\ f \in Frames
  BY <1>1, InvFacts, Allocated DEF PhaseInv
<1>3. SlabType => SlabType'
  BY <1>1 DEF SlabType
<1>4. CASE ~Serves
  <2>1. pc' = "halted" /\ UNCHANGED <<table, pool, used, astray>>
    BY <1>4 DEF page_fault_handler
  <2>2. TypeInv'
    BY <1>1, <1>3, <2>1 DEF TypeInv
  <2>3. PhaseInv'
    BY <1>1, <1>2, <2>1 DEF PhaseInv
  <2> QED
    BY <1>1, <2>1, <2>2, <2>3 DEF Holds
<1>5. CASE Serves
  <2>1. /\ vmm_map(want, f, TRUE, pool \ {f})
        /\ astray' = (astray \/ MapUsesZero(want, pool \ {f}))
        /\ used' = used \cup {f}
        /\ pc' = IF MapSucceeds(want, pool \ {f}) THEN "user" ELSE "halted"
    BY <1>5 DEF page_fault_handler
  <2>2. want \in Pages
    BY <1>5, InvFacts
  <2>3. /\ table' \in Tabs /\ pool' \subseteq pool \ {f} /\ pool' \subseteq memory'
        /\ used' \subseteq memory' \cup {Zero} /\ MapUsesZero(want, pool \ {f}) \in BOOLEAN
    BY <1>1, <1>2, <2>1, <2>2, MapHolds
  <2> HIDE DEF f
  <2>4. pc' \in {"user", "halted"} /\ astray' \in BOOLEAN /\ (astray => astray')
    BY <2>1, <2>3 DEF TypeInv
  <2>5. TypeInv'
    BY <1>1, <1>3, <2>3, <2>4 DEF TypeInv
  <2>6. PhaseInv'
    BY <1>1, <1>2, <2>4 DEF PhaseInv
  <2> QED
    BY <1>1, <2>3, <2>4, <2>5, <2>6 DEF Holds
<1> QED
  BY <1>4, <1>5

LEMMA GrowTypes ==
    ASSUME TypeInv, PhaseInv, HeapGrows PROVE Holds
<1> DEFINE f == pmm_alloc(pool)
           v == Via(table, f)
<1>1. /\ pc \in {"boot", "user"} /\ slab = NoSlab /\ pool' = pool \ {f} /\ used' = used \cup {f}
      /\ heap' = heap \cup {f} /\ astray' = (astray \/ f = Zero)
      /\ \E n \in Extras :
            slab' = IF n = 0 \/ v = 0 THEN NoSlab ELSE [frame |-> f, next |-> 1, pages |-> n]
      /\ pc' = IF v = 0 THEN "halted" ELSE pc
      /\ UNCHANGED <<table, root, todo, want, memory>>
  BY DEF HeapGrows
<1>2. f \in Frames /\ f \in memory \cup {Zero} /\ root # 0
  BY <1>1, InvFacts, Allocated DEF TypeInv, PhaseInv
<1> HIDE DEF f, v
<1>3. slab' = NoSlab \/ SlabType'
  <2>1. PICK n \in Extras :
           slab' = IF n = 0 \/ v = 0 THEN NoSlab ELSE [frame |-> f, next |-> 1, pages |-> n]
    BY <1>1
  <2>2. CASE n = 0 \/ v = 0
    BY <2>1, <2>2
  <2>3. CASE n # 0 /\ v # 0
    <3>1. slab' = [frame |-> f, next |-> 1, pages |-> n]
      BY <2>1, <2>3
    <3>2. n \in Nat
      BY DirectAssumption
    <3> QED
      BY <1>1, <1>2, <2>3, <3>1, <3>2 DEF SlabType
  <2> QED
    BY <2>2, <2>3
<1>4. v = 0 => slab' = NoSlab
  BY <1>1
<1>5. TypeInv'
  BY <1>1, <1>2, <1>3 DEF TypeInv
<1>6. PhaseInv'
  BY <1>1, <1>2, <1>4 DEF PhaseInv
<1> QED
  BY <1>1, <1>5, <1>6 DEF Holds, TypeInv

\* The frame of the direct map the loop of init_new_slab comes to.
LEMMA SlabFacts ==
    ASSUME TypeInv, slab # NoSlab
    PROVE  /\ slab.frame \in Nat /\ slab.next \in Nat /\ slab.pages \in Nat /\ slab.pages \in Extras
           /\ 1 <= slab.next /\ slab.next <= slab.pages
           /\ slab.frame + slab.next \in Frames /\ slab.frame \in Frames
           /\ slab \in [frame : Frames, next : Nat, pages : Extras]
<1>1. SlabType
  BY DEF TypeInv
<1>2. /\ slab \in [frame : Frames, next : Nat, pages : Extras]
      /\ slab.frame \in Frames /\ slab.next \in Nat /\ slab.pages \in Extras
      /\ slab.frame \in memory \cup {Zero} /\ slab.next \in 1 .. slab.pages
  BY <1>1 DEF SlabType
<1>3. slab.frame \in Usable \cup {Zero} /\ slab.frame \in Nat /\ slab.pages \in Nat
  BY <1>2, InvFacts, DirectAssumption, Constants
<1>4. slab.next \in 0 .. slab.pages /\ 1 <= slab.next /\ slab.next <= slab.pages
  BY <1>2, <1>3
<1>5. slab.frame + slab.next \in Frames
  BY <1>2, <1>3, <1>4, DirectAssumption
<1> QED
  BY <1>2, <1>3, <1>4, <1>5

LEMMA ExtendTypes ==
    ASSUME TypeInv, PhaseInv, HeapExtends PROVE Holds
<1> DEFINE g == pmm_alloc(pool)
           at == slab.frame + slab.next
           page == Direct[at]
           ok == MapSucceeds(page, pool \ {g})
           zero == MapUsesZero(page, pool \ {g})
           hit == at # g /\ at \in TablesOf(table', root) \cup Kept
<1>1. /\ slab # NoSlab /\ vmm_map(page, g, FALSE, pool \ {g})
      /\ used' = used \cup {g} /\ heap' = heap \cup {at}
      /\ astray' = (astray \/ g = Zero \/ zero \/ hit)
      /\ slab' = (IF ok /\ slab.next < slab.pages THEN [slab EXCEPT !.next = @ + 1] ELSE NoSlab)
      /\ pc' = (IF ok THEN pc ELSE "halted")
      /\ UNCHANGED <<root, todo, want, memory>>
  BY DEF HeapExtends
<1>2. /\ pc \in {"boot", "user"} /\ root # 0 /\ g \in Frames /\ at \in Frames /\ page \in Pages
  BY <1>1, InvFacts, Allocated, SlabFacts DEF PhaseInv
<1>3. /\ table' \in Tabs /\ pool' \subseteq pool \ {g} /\ pool' \subseteq memory'
      /\ used' \subseteq memory' \cup {Zero} /\ zero \in BOOLEAN
  BY <1>1, <1>2, MapHolds
<1>4. astray' \in BOOLEAN /\ (astray => astray')
  <2>1. hit \in BOOLEAN
    OBVIOUS
  <2> HIDE DEF hit, zero, g
  <2> QED
    BY <1>1, <1>3, <2>1 DEF TypeInv
<1> HIDE DEF g, at, page, ok, zero, hit
<1>5. slab' = NoSlab \/ SlabType'
  <2>1. CASE ok /\ slab.next < slab.pages
    <3>1. slab' = [slab EXCEPT !.next = @ + 1]
      BY <1>1, <2>1
    <3>2. slab \in [frame : Frames, next : Nat, pages : Extras] /\ slab.frame \in memory \cup {Zero}
      BY <1>1, SlabFacts DEF TypeInv, SlabType
    <3>3. slab.next + 1 \in 1 .. slab.pages /\ slab.next + 1 \in Nat
      BY <1>1, <2>1, SlabFacts
    <3>4. slab'.frame = slab.frame /\ slab'.pages = slab.pages /\ slab'.next = slab.next + 1
          /\ slab' \in [frame : Frames, next : Nat, pages : Extras]
      BY <3>1, <3>2, <3>3
    <3> QED
      BY <1>1, <3>2, <3>3, <3>4 DEF SlabType
  <2>2. CASE ~(ok /\ slab.next < slab.pages)
    BY <1>1, <2>2
  <2> QED
    BY <2>1, <2>2
<1>6. ~ok => slab' = NoSlab
  BY <1>1
<1>7. TypeInv'
  BY <1>1, <1>2, <1>3, <1>4, <1>5 DEF TypeInv
<1>8. PhaseInv'
  BY <1>1, <1>2, <1>6 DEF PhaseInv
<1> QED
  BY <1>1, <1>3, <1>4, <1>7, <1>8 DEF Holds

LEMMA TypesHold ==
    ASSUME TypeInv, PhaseInv, [Next]_vars PROVE Holds
BY VmmInitTypes, PlainTypes, MapVideoTypes, MapUserTypes, FaultTypes, GrowTypes, ExtendTypes DEF Next

----
\* What carries over as long as the kernel does not go astray.

LEMMA FromBelowOn ==
    ASSUME NEW A, NEW B, NEW C, B \subseteq A, C \subseteq B, FromBelow(B, A), FromBelow(C, B)
    PROVE  FromBelow(C, A)
BY DEF FromBelow

LEMMA FirstFromBelow ==
    ASSUME NEW free, free \subseteq Frames, NEW S, S = {} \/ S = {pmm_alloc(free)}
    PROVE  FromBelow(free \ S, free)
<1>1. \A x \in free \ {pmm_alloc(free)} : pmm_alloc(free) < x
  BY Allocated
<1> QED
  BY <1>1 DEF FromBelow

\* The page in M, if any, now leads to frame, all others where they led before.
Remaps(M, frame) ==
    \A q \in Pages : Translate(q)' = IF q \in M THEN frame ELSE Translate(q)

\* Frames that are used from now on come from the pool.
LEMMA LeavesKept ==
    ASSUME TypeInv, TreeInv, LeafInv, root # 0, NEW S \in SUBSET pool, used' = used \cup S,
           NEW M, NEW frame, Remaps(M, frame), \A p, q \in M : p = q,
           \/ frame \in S
           \/ frame \in Devices /\ M \cap DemandPages = {}
           \/ M = {}
    PROVE  LeafInv'
<1>1. /\ \A p \in Pages \ DirectPages : Translate(p) # 0 => Translate(p) \in used \cup Devices
      /\ \A p \in DemandPages : Translate(p) # 0 => Translate(p) \in used
      /\ \A p, q \in Pages \ DirectPages :
            Translate(p) \in used /\ Translate(p) = Translate(q) => p = q
  BY DEF LeafInv
<1>2. \A q \in Pages : Translate(q)' = IF q \in M THEN frame ELSE Translate(q)
  BY DEF Remaps
<1>3. pool \cap (used \cup Devices) = {} /\ used \cap Devices = {} /\ DemandPages \subseteq Pages
      /\ 0 \notin pool
  <2>1. pool \cap (used \cup Devices) = {}
    BY DEF TreeInv, Good
  <2>2. used \subseteq Usable \cup {Zero} /\ 0 \notin pool /\ DemandPages \subseteq Pages
    BY InvFacts DEF TypeInv
  <2> QED
    BY <2>1, <2>2, BootedType
<1>4. \A p \in Pages \ DirectPages : Translate(p) \notin S
  BY <1>1, <1>3
<1>5. \A p \in Pages \ DirectPages : Translate(p)' # 0 => Translate(p)' \in used' \cup Devices
  BY <1>1, <1>2
<1>6. \A p \in DemandPages : Translate(p)' # 0 => Translate(p)' \in used'
  BY <1>1, <1>2, <1>3
<1>7. ASSUME NEW p \in Pages \ DirectPages, NEW q \in Pages \ DirectPages,
             Translate(p)' \in used', Translate(p)' = Translate(q)'
      PROVE  p = q
  <2>1. CASE p \in M /\ q \in M
    BY <2>1
  <2>2. CASE p \notin M /\ q \notin M
    BY <1>1, <1>2, <1>4, <1>7, <2>2
  <2>3. CASE p \in M /\ q \notin M
    BY <1>1, <1>2, <1>3, <1>4, <1>7, <2>3
  <2>4. CASE p \notin M /\ q \in M
    BY <1>1, <1>2, <1>3, <1>4, <1>7, <2>4
  <2> QED
    BY <2>1, <2>2, <2>3, <2>4
<1>8. \A p, q \in Pages \ DirectPages :
         Translate(p)' \in used' /\ Translate(p)' = Translate(q)' => p = q
  BY <1>7
<1> QED
  BY <1>5, <1>6, <1>8 DEF LeafInv

\* No slab under way: the heap's pages stay mapped, frames leave the pool from below.
LEMMA HeapKept ==
    ASSUME HeapInv, memory' = memory, heap' = heap, slab' = NoSlab,
           pool' \subseteq pool, FromBelow(pool', memory),
           \A f \in Frames : root' # 0 /\ Meets(table', root', f) => f \in DOMAIN LimineTables \cup memory,
           \A h \in heap : Translate(Direct[h])' # 0
    PROVE  HeapInv'
BY DEF HeapInv

\* A step that maps nothing, and may take a frame for something else than a table.
LEMMA NothingMapped ==
    ASSUME TypeInv, PhaseInv, Sound, UNCHANGED <<table, root, memory>>,
           \/ pool' = pool /\ used' = used
           \/ root # 0 /\ \E f \in pool : pool' = pool \ {f} /\ used' = used \cup {f},
           MappedInv', HeapInv'
    PROVE  Carries
<1>1. TreeInv /\ LeafInv /\ MappedInv /\ DirectInv /\ HeapInv
  BY DEF Sound
<1>2. \A q \in Pages : Translate(q)' = Translate(q)
  BY DEF Translate
<1>3. CurrentMap' = CurrentMap
  BY DEF CurrentMap, Translate
<1>4. TreeInv' /\ LeafInv'
  <2>1. CASE pool' = pool /\ used' = used
    <3>1. TreeInv'
      BY <1>1, <2>1 DEF TreeInv
    <3>2. LeafInv'
      BY <1>1, <2>1 DEF LeafInv, Translate
    <3> QED
      BY <3>1, <3>2
  <2>2. CASE root # 0 /\ \E f \in pool : pool' = pool \ {f} /\ used' = used \cup {f}
    <3>1. PICK f \in pool : pool' = pool \ {f} /\ used' = used \cup {f}
      BY <2>2
    <3>2. Good(table, root, pool', used' \cup Devices)
      <4>1. Good(table, root, pool, used \cup Devices)
        BY <1>1, <2>2 DEF TreeInv
      <4> QED
        BY <3>1, <4>1 DEF Good
    <3>3. LeafInv'
      <4> DEFINE S == {f}
                 M == {}
      <4>1. Remaps(M, 0) /\ M = {} /\ \A p, q \in M : p = q
        BY <1>2 DEF Remaps
      <4>2. S \in SUBSET pool /\ used' = used \cup S
        BY <3>1
      <4> HIDE DEF S, M
      <4> QED
        BY <1>1, <2>2, <4>1, <4>2, LeavesKept
    <3> QED
      BY <3>2, <3>3 DEF TreeInv
  <2> QED
    BY <2>1, <2>2
<1>5. DirectInv'
  <2>1. pool' \subseteq pool
    OBVIOUS
  <2>2. \A f \in Frames : Translate(Direct[f])' = Translate(Direct[f])
    BY <1>2, InvFacts
  <2> QED
    BY <1>1, <2>1, <2>2 DEF DirectInv
<1>6. Stays
  <2> SUFFICES ASSUME NEW p \in Held, pc \in {"user", "fault"}
               PROVE  Translate(p) # 0 /\ Translate(p)' = Translate(p)
    BY DEF Stays
  <2>1. p \in Pages /\ todo = {} /\ pc # "halted"
    BY InvFacts DEF PhaseInv
  <2>2. Translate(p) # 0
    BY <1>1, <2>1 DEF Held, MappedInv, HeapInv
  <2> QED
    BY <1>2, <2>1, <2>2
<1> QED
  BY <1>3, <1>4, <1>5, <1>6 DEF Carries, Sound

\* A call of vmm_map, with the frames in S taken before it, that stays clear of frame 0.
MapDone(page, frame, S) ==
    /\ TreeInv' /\ LeafInv' /\ Remaps({page}, frame) /\ (astray' \/ Abs!MapPage)
    /\ MapSucceeds(page, pool \ S) /\ pool' \subseteq pool \ S
    /\ FromBelow(pool', memory)
    /\ MeetsMore(table', table, root, (pool \ S) \ pool')
    /\ \A f \in Frames : Meets(table', root, f) => f \in DOMAIN LimineTables \cup memory
    /\ Translate(page) # 0 => pool' = pool \ S

LEMMA MapDoes ==
    ASSUME TypeInv, Sound, ~astray, root # 0, root' = root, memory' = memory,
           NEW page \in Pages, NEW frame \in Frames, NEW user \in BOOLEAN,
           NEW S \in SUBSET pool, S = {} \/ S = {pmm_alloc(pool)}, used' = used \cup S,
           vmm_map(page, frame, user, pool \ S), ~MapUsesZero(page, pool \ S),
           frame \in S \/ (frame \in Devices /\ page \notin DemandPages)
    PROVE  MapDone(page, frame, S)
<1> DEFINE taken == used' \cup Devices
           free == pool \ S
<1>1. /\ TreeInv /\ LeafInv /\ DirectInv /\ HeapInv /\ Good(table, root, pool, used \cup Devices)
      /\ root \in Frames /\ table \in Tabs /\ pool \subseteq memory /\ pool \subseteq Frames
      /\ free \subseteq Usable /\ free \subseteq pool
  BY InvFacts DEF Sound, TreeInv, TypeInv
<1>2. Good(table, root, free, taken)
  BY <1>1 DEF Good
<1>3. Straight(table, root, free)
  BY <1>1 DEF Straight, DirectInv, Translate
<1>f. FromBelow(free, pool)
  BY <1>1, FirstFromBelow
<1> HIDE DEF taken, free
<1>v. vmm_map(page, frame, user, free) /\ ~MapUsesZero(page, free)
  BY DEF free
<1>4. Mapped(table', pool', page, frame, free, taken) /\ MapSucceeds(page, free)
  BY <1>1, <1>2, <1>3, <1>v, MapMaps
<1>5. pool' \subseteq free
  BY <1>1, <1>v, MapTypes
<1>6. /\ Good(table', root, pool', taken)
      /\ \A q \in Pages : Reach(table', root, q)[Levels] =
            IF q = page THEN frame ELSE Reach(table, root, q)[Levels]
      /\ MeetsMore(table', table, root, free \ pool')
      /\ FromBelow(pool', free)
      /\ Reach(table, root, page)[Levels] # 0 => pool' = free
  BY <1>4 DEF Mapped
<1>7. Remaps({page}, frame)
  BY <1>6 DEF Remaps, Translate
<1>8. LeafInv'
  <2> DEFINE M == {page}
  <2>1. Remaps(M, frame) /\ \A p, q \in M : p = q
    BY <1>7
  <2>2. frame \in S \/ (frame \in Devices /\ M \cap DemandPages = {}) \/ M = {}
    OBVIOUS
  <2> HIDE DEF M
  <2> QED
    BY <1>1, <2>1, <2>2, LeavesKept
<1>9. ASSUME ~astray' PROVE Abs!MapPage
  <2>1. CurrentMap = [p \in Pages |-> Translate(p)] /\ CurrentMap' = [p \in Pages |-> Translate(p)']
    BY DEF CurrentMap
  <2>2. \A q \in Pages : Translate(q)' = IF q \in {page} THEN frame ELSE Translate(q)
    BY <1>7 DEF Remaps
  <2>3. /\ CurrentMap'[page] \in Frames /\ DOMAIN CurrentMap' = Pages
        /\ \A q \in Pages \ {page} : CurrentMap'[q] = CurrentMap[q]
    BY <2>1, <2>2
  <2> QED
    BY <1>9, <2>3 DEF Abs!MapPage
<1>10. TreeInv'
  BY <1>6 DEF TreeInv, taken
<1>11. FromBelow(pool', memory)
  <2>1. FromBelow(pool, memory)
    BY <1>1 DEF HeapInv
  <2>2. FromBelow(pool', pool)
    BY <1>1, <1>5, <1>6, <1>f, FromBelowOn
  <2> QED
    BY <1>1, <1>5, <2>1, <2>2, FromBelowOn
<1>12. \A f \in Frames : Meets(table', root, f) => f \in DOMAIN LimineTables \cup memory
  BY <1>1, <1>6 DEF MeetsMore, HeapInv
<1>13. Translate(page) # 0 => pool' = free
  BY <1>6 DEF Translate
<1> QED
  BY <1>4, <1>5, <1>6, <1>7, <1>8, <1>9, <1>10, <1>11, <1>12, <1>13 DEF MapDone, free

\* The kernel's addresses stay what they are, unless the page is one of them.
LEMMA DirectKept ==
    ASSUME TypeInv, DirectInv, root # 0, root' = root, NEW page \in Pages, NEW frame \in Frames,
           NEW S \in SUBSET pool, MapDone(page, frame, S),
           \A f \in Frames : Direct[f] = page =>
              f = frame \/ ~(Meets(table', root, f) \/ f \in pool' \/ f \in Kept)
    PROVE  DirectInv'
<1> SUFFICES ASSUME NEW f \in Frames, Meets(table', root, f) \/ f \in pool' \/ f \in Kept
             PROVE  Translate(Direct[f])' = f
  BY InvFacts DEF DirectInv
<1>1. Meets(table, root, f) \/ f \in pool \/ f \in Kept
  BY DEF MapDone, MeetsMore
<1>2. Translate(Direct[f]) = f /\ Direct[f] \in Pages
  BY <1>1, InvFacts DEF DirectInv
<1>3. Translate(Direct[f])' = IF Direct[f] \in {page} THEN frame ELSE Translate(Direct[f])
  BY <1>2 DEF MapDone, Remaps
<1> QED
  BY <1>2, <1>3

\* A call for a page outside of the direct map, with no slab under way.
LEMMA MapKeeps ==
    ASSUME TypeInv, Sound, root # 0, root' = root, memory' = memory, heap' = heap, slab' = NoSlab,
           NEW page \in Pages, NEW frame \in Frames, NEW S \in SUBSET pool,
           MapDone(page, frame, S), \A f \in Frames : Direct[f] # page
    PROVE  DirectInv' /\ HeapInv'
<1>1. DirectInv /\ HeapInv /\ pool' \subseteq pool
  BY DEF Sound, MapDone
<1>2. DirectInv'
  BY <1>1, DirectKept
<1>3. \A h \in heap : Translate(Direct[h])' # 0
  <2> SUFFICES ASSUME NEW h \in heap PROVE Translate(Direct[h])' # 0
    OBVIOUS
  <2>1. h \in Frames /\ Direct[h] \in Pages
    BY InvFacts DEF TypeInv
  <2>2. Translate(Direct[h])' = Translate(Direct[h])
    BY <2>1 DEF MapDone, Remaps
  <2> QED
    BY <1>1, <2>2 DEF HeapInv
<1>4. HeapInv'
  BY <1>1, <1>3, HeapKept DEF MapDone
<1> QED
  BY <1>2, <1>4

LEMMA MapVideoKeeps ==
    ASSUME TypeInv, PhaseInv, Sound, ~astray, ~astray', MapVideo PROVE Carries
<1>1. PICK page \in todo \cap DOMAIN VideoMap :
         /\ vmm_map(page, VideoMap[page], FALSE, pool)
         /\ astray' = (astray \/ MapUsesZero(page, pool))
         /\ todo' = todo \ {page}
         /\ pc' = IF MapSucceeds(page, pool) THEN "boot" ELSE "halted"
  BY DEF MapVideo
<1>2. pc = "boot" /\ slab = NoSlab /\ UNCHANGED <<root, used, slab, want, memory, heap>>
  BY DEF MapVideo
<1>3. root # 0 /\ MappedInv
  BY <1>2 DEF PhaseInv, Sound
<1> DEFINE frame == VideoMap[page]
<1>4. /\ page \in Pages /\ page \notin DemandPages /\ frame \in Devices /\ frame \in Frames /\ frame # 0
      /\ \A f \in Frames : Direct[f] # page
  BY VmmAssumption, BootedType, InvFacts DEF Devices
<1> HIDE DEF frame
<1>5. /\ vmm_map(page, frame, FALSE, pool \ {}) /\ ~MapUsesZero(page, pool \ {})
      /\ pool \ {} = pool /\ used' = used \cup {} /\ {} \in SUBSET pool
  BY <1>1, <1>2 DEF frame
<1>6. MapDone(page, frame, {})
  BY <1>2, <1>3, <1>4, <1>5, MapDoes
<1>7. DirectInv' /\ HeapInv'
  BY <1>2, <1>3, <1>4, <1>5, <1>6, MapKeeps
<1>8. \A q \in Pages : Translate(q)' = IF q \in {page} THEN frame ELSE Translate(q)
  BY <1>6 DEF MapDone, Remaps
<1>9. MappedInv'
  <2> SUFFICES ASSUME pc' # "halted", NEW p \in (DOMAIN VideoMap \cup UserPages) \ todo'
               PROVE  Translate(p)' # 0
    BY DEF MappedInv
  <2>1. p = page \/ p \notin todo
    BY <1>1
  <2>2. p \in Pages
    BY InvFacts
  <2> QED
    BY <1>2, <1>3, <1>4, <1>8, <2>1, <2>2 DEF MappedInv
<1>10. Stays
  BY <1>2 DEF Stays
<1> QED
  BY <1>6, <1>7, <1>9, <1>10 DEF MapDone, Carries, Sound

\* A frame is there unless pmm_alloc answers frame 0.
LEMMA FrameTaken ==
    ASSUME TypeInv, NEW f, f = pmm_alloc(pool), f # Zero
    PROVE  /\ f \in pool /\ f \in Frames /\ f # 0 /\ {f} \in SUBSET pool /\ pool # {}
           /\ \A x \in pool \ {f} : f < x
BY InvFacts, Allocated

LEMMA MapUserKeeps ==
    ASSUME TypeInv, PhaseInv, Sound, ~astray, ~astray', MapUser PROVE Carries
<1> DEFINE f == pmm_alloc(pool)
<1>1. PICK page \in todo :
         /\ vmm_map(page, f, TRUE, pool \ {f})
         /\ astray' = (astray \/ f = Zero \/ MapUsesZero(page, pool \ {f}))
         /\ used' = used \cup {f}
         /\ todo' = todo \ {page}
         /\ pc' = IF MapSucceeds(page, pool \ {f}) THEN "boot" ELSE "halted"
  BY DEF MapUser
<1>2. /\ pc = "boot" /\ slab = NoSlab /\ UNCHANGED <<root, slab, want, memory, heap>>
      /\ todo \cap DOMAIN VideoMap = {}
  BY DEF MapUser
<1>3. root # 0 /\ MappedInv
  BY <1>2 DEF PhaseInv, Sound
<1>4. f # Zero /\ ~MapUsesZero(page, pool \ {f})
  BY <1>1
<1>5. f \in pool /\ f \in Frames /\ f # 0 /\ {f} \in SUBSET pool
  BY <1>4, FrameTaken
<1>6. page \in Pages /\ page \in UserPages /\ \A g \in Frames : Direct[g] # page
  <2>1. page \in UserPages
    BY <1>2 DEF TypeInv
  <2> QED
    BY <2>1, InvFacts
<1> DEFINE S == {f}
<1>7. /\ S \in SUBSET pool /\ S = {pmm_alloc(pool)} /\ used' = used \cup S
      /\ vmm_map(page, f, TRUE, pool \ S) /\ ~MapUsesZero(page, pool \ S) /\ f \in S
  BY <1>1, <1>4, <1>5
<1> HIDE DEF S, f
<1>8. MapDone(page, f, S)
  BY <1>2, <1>3, <1>5, <1>6, <1>7, MapDoes
<1>9. DirectInv' /\ HeapInv'
  BY <1>2, <1>3, <1>5, <1>6, <1>7, <1>8, MapKeeps
<1>10. \A q \in Pages : Translate(q)' = IF q \in {page} THEN f ELSE Translate(q)
  BY <1>8 DEF MapDone, Remaps
<1>11. MappedInv'
  <2> SUFFICES ASSUME pc' # "halted", NEW p \in (DOMAIN VideoMap \cup UserPages) \ todo'
               PROVE  Translate(p)' # 0
    BY DEF MappedInv
  <2>1. p = page \/ p \notin todo
    BY <1>1
  <2>2. p \in Pages
    BY InvFacts
  <2> QED
    BY <1>2, <1>3, <1>5, <1>10, <2>1, <2>2 DEF MappedInv
<1>12. Stays
  BY <1>2 DEF Stays
<1> QED
  BY <1>8, <1>9, <1>11, <1>12 DEF MapDone, Carries, Sound

LEMMA FaultKeeps ==
    ASSUME TypeInv, PhaseInv, Sound, ~astray, ~astray', page_fault_handler PROVE Carries
<1> DEFINE f == pmm_alloc(pool)
           Serves == Translate(want) = 0 /\ want \in DemandPages /\ f # Zero
<1>1. pc = "fault" /\ UNCHANGED <<root, slab, todo, want, memory, heap>> /\ slab = NoSlab
  BY DEF page_fault_handler, PhaseInv
<1>2. root # 0 /\ todo = {} /\ MappedInv /\ HeapInv
  BY <1>1 DEF PhaseInv, Sound
<1>3. CASE ~Serves
  <2>1. pc' = "halted" /\ UNCHANGED <<table, pool, used>>
    BY <1>3 DEF page_fault_handler
  <2>2. MappedInv'
    BY <2>1 DEF MappedInv
  <2>3. HeapInv'
    BY <1>1, <1>2, <2>1 DEF HeapInv, Translate
  <2> QED
    BY <1>1, <2>1, <2>2, <2>3, NothingMapped
<1>4. CASE Serves
  <2>1. /\ vmm_map(want, f, TRUE, pool \ {f}) /\ used' = used \cup {f}
        /\ astray' = (astray \/ MapUsesZero(want, pool \ {f}))
    BY <1>4 DEF page_fault_handler
  <2>2. f \in pool /\ f \in Frames /\ f # 0 /\ {f} \in SUBSET pool
    BY <1>4, FrameTaken
  <2>3. want \in Pages /\ Translate(want) = 0 /\ \A g \in Frames : Direct[g] # want
    BY <1>4, InvFacts
  <2> DEFINE S == {f}
  <2>4. /\ S \in SUBSET pool /\ S = {pmm_alloc(pool)} /\ used' = used \cup S
        /\ vmm_map(want, f, TRUE, pool \ S) /\ ~MapUsesZero(want, pool \ S) /\ f \in S
    BY <2>1, <2>2
  <2> HIDE DEF S, f
  <2>5. MapDone(want, f, S)
    BY <1>1, <1>2, <2>2, <2>3, <2>4, MapDoes
  <2>6. DirectInv' /\ HeapInv'
    BY <1>1, <1>2, <2>2, <2>3, <2>4, <2>5, MapKeeps
  <2>7. \A q \in Pages : Translate(q)' = IF q \in {want} THEN f ELSE Translate(q)
    BY <2>5 DEF MapDone, Remaps
  <2>8. \A p \in Held : Translate(p) # 0 /\ Translate(p)' = Translate(p)
    <3> SUFFICES ASSUME NEW p \in Held PROVE Translate(p) # 0 /\ Translate(p)' = Translate(p)
      OBVIOUS
    <3>1. Translate(p) # 0 /\ p \in Pages
      BY <1>1, <1>2, InvFacts DEF MappedInv, HeapInv, Held
    <3>2. p # want
      BY <2>3, <3>1
    <3> QED
      BY <2>7, <3>1, <3>2
  <2>9. MappedInv'
    <3>1. \A p \in DOMAIN VideoMap \cup UserPages : Translate(p)' # 0
      BY <2>8 DEF Held
    <3> QED
      BY <3>1 DEF MappedInv
  <2>10. Stays
    BY <2>8 DEF Stays
  <2> QED
    BY <2>5, <2>6, <2>9, <2>10 DEF MapDone, Carries, Sound
<1> QED
  BY <1>3, <1>4

LEMMA PlainKeeps ==
    ASSUME TypeInv, PhaseInv, Sound, ~astray, ~astray',
           init_gdt \/ EnterUser \/ UserTouches \/ UserProceeds \/ UserFaults \/ UNCHANGED vars
    PROVE  Carries
<1> DEFINE f == pmm_alloc(pool)
<1>1. UNCHANGED <<table, root, slab, todo, memory, heap>>
  BY DEF init_gdt, EnterUser, UserTouches, UserProceeds, UserFaults, vars
<1>2. MappedInv /\ HeapInv
  BY DEF Sound
<1>3. CASE init_gdt
  <2>1. /\ root # 0 /\ slab = NoSlab /\ pc = "gdt" /\ pc' = "boot" /\ pool # {}
        /\ pool' = pool \ {f} /\ used' = used \cup {f}
    BY <1>3 DEF init_gdt, PhaseInv
  <2>2. f \in pool /\ f \in Frames /\ pool \subseteq memory
    BY <2>1, InvFacts, Allocated DEF TypeInv
  <2>3. FromBelow(pool', memory)
    <3>1. FromBelow(pool \ {f}, pool)
      BY InvFacts, FirstFromBelow
    <3> HIDE DEF f
    <3>2. FromBelow(pool, memory) /\ pool \ {f} \subseteq pool
      BY <1>2 DEF HeapInv
    <3> QED
      BY <2>1, <2>2, <3>1, <3>2, FromBelowOn
  <2> HIDE DEF f
  <2>4. HeapInv'
    BY <1>1, <1>2, <2>1, <2>3 DEF HeapInv, Translate
  <2>5. MappedInv'
    BY <1>1, <1>2, <2>1 DEF MappedInv, Translate
  <2> QED
    BY <1>1, <2>1, <2>2, <2>4, <2>5, NothingMapped
<1>4. CASE EnterUser \/ UserTouches \/ UserProceeds \/ UserFaults \/ UNCHANGED vars
  <2>1. pool' = pool /\ used' = used /\ (pc' # "halted" => pc # "halted")
    BY <1>4 DEF EnterUser, UserTouches, UserProceeds, UserFaults, vars
  <2>2. HeapInv'
    BY <1>1, <1>2, <2>1 DEF HeapInv, Translate
  <2>3. MappedInv'
    BY <1>1, <1>2, <2>1 DEF MappedInv, Translate
  <2> QED
    BY <1>1, <2>1, <2>2, <2>3, NothingMapped
<1> QED
  BY <1>3, <1>4

LEMMA GrowKeeps ==
    ASSUME TypeInv, PhaseInv, Sound, ~astray, ~astray', HeapGrows PROVE Carries
<1> DEFINE f == pmm_alloc(pool)
           v == Via(table, f)
<1>1. /\ pc \in {"boot", "user"} /\ slab = NoSlab /\ pool' = pool \ {f} /\ used' = used \cup {f}
      /\ heap' = heap \cup {f} /\ astray' = (astray \/ f = Zero)
      /\ \E n \in Extras :
            slab' = IF n = 0 \/ v = 0 THEN NoSlab ELSE [frame |-> f, next |-> 1, pages |-> n]
      /\ pc' = IF v = 0 THEN "halted" ELSE pc
      /\ UNCHANGED <<table, root, todo, want, memory>>
  BY DEF HeapGrows
<1>2. root # 0 /\ MappedInv /\ DirectInv /\ HeapInv /\ pool \subseteq memory /\ f # Zero
      /\ heap \subseteq Frames
  BY <1>1 DEF PhaseInv, Sound, TypeInv
<1>3. f \in pool /\ f \in Frames /\ f # 0 /\ f \in Nat /\ \A x \in pool \ {f} : f < x
  BY <1>2, FrameTaken, Constants
<1>4. v = f /\ Translate(Direct[f]) = f
  BY <1>2, <1>3 DEF DirectInv, Via, Translate
<1>5. FromBelow(pool', memory)
  <2>1. FromBelow(pool \ {f}, pool)
    BY InvFacts, FirstFromBelow
  <2> HIDE DEF f
  <2>2. FromBelow(pool, memory) /\ pool \ {f} \subseteq pool
    BY <1>2 DEF HeapInv
  <2> QED
    BY <1>1, <1>2, <2>1, <2>2, FromBelowOn
<1> HIDE DEF f, v
<1>n. memory \subseteq Nat /\ pool \subseteq Nat /\ heap \subseteq Nat
  BY <1>2, InvFacts, Constants
<1>6. \A h \in heap' : Translate(Direct[h])' # 0 /\ \A x \in pool' : h < x
  <2>1. \A h \in heap' : Translate(Direct[h])' = Translate(Direct[h])
    BY <1>1 DEF Translate
  <2> QED
    BY <1>1, <1>2, <1>3, <1>4, <2>1 DEF HeapInv
<1>7. ASSUME slab' # NoSlab
      PROVE  /\ slab'.frame = f /\ slab'.next = 1
             /\ \A x \in pool' : f + 1 <= x
             /\ \A h \in heap' : h < f + 1
             /\ f + 1 \in memory => f + 1 \in pool'
  <2>1. slab'.frame = f /\ slab'.next = 1
    BY <1>1, <1>7
  <2>2. \A x \in pool' : f + 1 <= x
    BY <1>1, <1>3, <1>n
  <2>3. \A h \in heap' : h < f + 1
    <3> SUFFICES ASSUME NEW h \in heap' PROVE h < f + 1
      OBVIOUS
    <3>1. CASE h \in heap
      <4>1. h < f /\ h \in Nat
        BY <1>2, <1>3, <1>n, <3>1 DEF HeapInv
      <4> QED
        BY <1>3, <4>1
    <3>2. CASE h = f
      BY <1>3, <3>2
    <3> QED
      BY <1>1, <3>1, <3>2
  <2>4. ASSUME f + 1 \in memory, f + 1 \notin pool' PROVE FALSE
    <3>1. f + 1 \in memory \ pool
      BY <1>1, <1>3, <2>4
    <3>2. f + 1 < f
      BY <1>2, <1>3, <3>1 DEF HeapInv, FromBelow
    <3> QED
      BY <1>3, <3>2
  <2> QED
    BY <2>1, <2>2, <2>3, <2>4
<1>8. HeapInv'
  <2>1. root' # 0 => \A x \in Frames : Meets(table', root', x) => x \in DOMAIN LimineTables \cup memory'
    BY <1>1, <1>2 DEF HeapInv
  <2>2. f \in memory'
    BY <1>1, <1>2, <1>3
  <2> QED
    BY <1>1, <1>5, <1>6, <1>7, <2>1, <2>2 DEF HeapInv
<1>9. MappedInv'
  BY <1>1, <1>2, <1>3, <1>4 DEF MappedInv, Translate
<1> QED
  BY <1>1, <1>2, <1>3, <1>8, <1>9, NothingMapped

\* What one turn of the loop of init_new_slab does, unless frame 0 is taken.
LEMMA ExtendMaps ==
    ASSUME TypeInv, PhaseInv, Sound, ~astray, HeapExtends, NEW g, g = pmm_alloc(pool),
           NEW at, at = slab.frame + slab.next, g # Zero, ~MapUsesZero(Direct[at], pool \ {g})
    PROVE  /\ MapDone(Direct[at], g, {g}) /\ {g} \in SUBSET pool /\ root # 0 /\ Direct[at] \in Pages
           /\ g \in pool /\ g \in Frames /\ at \in Frames /\ at <= g /\ \A x \in pool' : g < x
           /\ RoomBehind(memory) /\ at \in memory => at = g
<1>1. /\ slab # NoSlab /\ vmm_map(Direct[at], g, FALSE, pool \ {g})
      /\ used' = used \cup {g} /\ UNCHANGED <<root, memory>>
  BY DEF HeapExtends
<1>2. pc \in {"boot", "user"} /\ root # 0 /\ HeapInv /\ at \in Frames /\ Direct[at] \in Pages
  BY <1>1, SlabFacts, InvFacts DEF PhaseInv, Sound
<1>3. g \in pool /\ g \in Frames /\ {g} \in SUBSET pool /\ \A x \in pool \ {g} : g < x
  BY FrameTaken
<1>4. MapDone(Direct[at], g, {g})
  <2> DEFINE S == {g}
             page == Direct[at]
  <2>1. /\ S \in SUBSET pool /\ S = {pmm_alloc(pool)} /\ used' = used \cup S /\ g \in S
        /\ vmm_map(page, g, FALSE, pool \ S) /\ ~MapUsesZero(page, pool \ S) /\ page \in Pages
    BY <1>1, <1>2, <1>3
  <2> HIDE DEF S, page
  <2>2. MapDone(page, g, S)
    BY <1>1, <1>2, <1>3, <2>1, MapDoes
  <2> QED
    BY <2>2 DEF S, page
<1>5. at <= g
  BY <1>1, <1>2, <1>3 DEF HeapInv
<1>6. \A x \in pool' : g < x
  BY <1>3, <1>4 DEF MapDone
<1>7. RoomBehind(memory) /\ at \in memory => at = g
  <2> SUFFICES ASSUME RoomBehind(memory), at \in memory, at # g PROVE FALSE
    OBVIOUS
  <2>1. at \in pool
    BY <1>1, <1>2 DEF HeapInv
  <2>2. g < at /\ at \in Nat /\ g \in Nat
    BY <1>2, <1>3, <2>1, Constants
  <2> QED
    BY <1>5, <2>2
<1> QED
  BY <1>2, <1>3, <1>4, <1>5, <1>6, <1>7

\* Behind a slab that reaches the end of its region, as far as it reaches, there is nothing.
LEMMA NothingBehind ==
    ASSUME TypeInv, HeapInv, slab # NoSlab, RoomBehind(memory), slab.frame + slab.next \notin memory
    PROVE  /\ slab.frame + slab.next \notin DOMAIN LimineTables \cup Kept
           /\ slab.next < slab.pages => slab.frame + slab.next + 1 \notin memory
<1>1. /\ slab.frame \in memory /\ slab.pages \in Extras /\ slab.next \in 1 .. slab.pages
      /\ slab.frame \in Nat /\ slab.next \in Nat /\ slab.pages \in Nat
  BY SlabFacts DEF HeapInv
<1>2. \A j \in slab.next .. slab.pages : slab.frame + j \notin memory \cup DOMAIN LimineTables \cup Kept
  BY <1>1 DEF RoomBehind
<1>3. slab.next \in slab.next .. slab.pages
      /\ (slab.next < slab.pages => slab.next + 1 \in slab.next .. slab.pages)
  BY <1>1
<1>4. slab.frame + (slab.next + 1) = slab.frame + slab.next + 1
  BY <1>1
<1> QED
  BY <1>2, <1>3, <1>4

LEMMA ExtendKeeps ==
    ASSUME TypeInv, PhaseInv, Sound, ~astray, ~astray', HeapExtends PROVE Carries
<1> DEFINE g == pmm_alloc(pool)
           at == slab.frame + slab.next
           page == Direct[at]
           ok == MapSucceeds(page, pool \ {g})
           zero == MapUsesZero(page, pool \ {g})
           hit == at # g /\ at \in TablesOf(table', root) \cup Kept
<1>1. /\ slab # NoSlab
      /\ used' = used \cup {g} /\ heap' = heap \cup {at}
      /\ astray' = (astray \/ g = Zero \/ zero \/ hit)
      /\ slab' = (IF ok /\ slab.next < slab.pages THEN [slab EXCEPT !.next = @ + 1] ELSE NoSlab)
      /\ pc' = (IF ok THEN pc ELSE "halted")
      /\ UNCHANGED <<root, todo, want, memory>>
  BY DEF HeapExtends
<1>2. g # Zero /\ ~zero /\ ~hit
  BY <1>1
<1>3. /\ MapDone(page, g, {g}) /\ {g} \in SUBSET pool /\ root # 0 /\ page \in Pages
      /\ g \in pool /\ g \in Frames /\ at \in Frames /\ at <= g /\ \A x \in pool' : g < x
      /\ RoomBehind(memory) /\ at \in memory => at = g
  BY <1>2, ExtendMaps
<1>4. MappedInv /\ DirectInv /\ HeapInv
  BY DEF Sound
<1>5. /\ slab.frame \in Nat /\ slab.next \in Nat /\ at \in Nat /\ g \in Nat /\ g # 0
      /\ slab \in [frame : Frames, next : Nat, pages : Extras]
      /\ memory \subseteq Nat /\ pool \subseteq Nat /\ heap \subseteq Nat /\ pool' \subseteq pool
      /\ heap \subseteq Frames /\ pool \subseteq memory
  BY <1>1, <1>3, SlabFacts, InvFacts, Constants DEF MapDone, TypeInv
<1>6. ok
  BY <1>3 DEF MapDone
<1>h. at # g => at \notin Kept /\ ~Meets(table', root, at)
  <2> SUFFICES ASSUME at # g, Meets(table', root, at) PROVE FALSE
    BY <1>2
  <2>1. PICK q \in Pages, n \in 0 .. Levels - 1 : Reach(table', root, q)[n] = at
    BY DEF Meets
  <2>2. at # 0
    BY <1>3, Constants
  <2>3. at \in TablesOf(table', root)
    <3> HIDE DEF at
    <3> QED
      BY <2>1, <2>2 DEF TablesOf
  <2> QED
    BY <1>2, <2>3
<1>i. \A f \in Frames : Direct[f] = page => f = at
  BY <1>3, DirectAssumption
<1>n. slab' = IF slab.next < slab.pages THEN [slab EXCEPT !.next = @ + 1] ELSE NoSlab
  BY <1>1, <1>6
<1>p. pc' = pc
  BY <1>1, <1>6
<1>b. slab.frame + slab.next = at
  OBVIOUS
<1>r. RoomBehind(memory) /\ at \notin memory /\ slab.next < slab.pages => at + 1 \notin memory
  BY <1>1, <1>4, NothingBehind
<1> HIDE DEF g, at, page, ok, zero, hit
<1>7. DirectInv'
  <2>1. \A f \in Frames : Direct[f] = page =>
           f = g \/ ~(Meets(table', root, f) \/ f \in pool' \/ f \in Kept)
    <3> SUFFICES ASSUME at # g PROVE at \notin pool'
      BY <1>h, <1>i
    <3>1. \A x \in pool' : at < x
      BY <1>3, <1>5
    <3> QED
      BY <1>5, <3>1
  <2> DEFINE S == {g}
  <2>2. S \in SUBSET pool /\ MapDone(page, g, S)
    BY <1>3
  <2> HIDE DEF S
  <2> QED
    BY <1>1, <1>3, <1>4, <2>1, <2>2, DirectKept
<1>8. \A q \in Pages : Translate(q)' = IF q \in {page} THEN g ELSE Translate(q)
  BY <1>3 DEF MapDone, Remaps
<1>9. \A h \in heap' : Translate(Direct[h])' # 0 /\ \A x \in pool' : h < x
  <2> SUFFICES ASSUME NEW h \in heap'
               PROVE  Translate(Direct[h])' # 0 /\ \A x \in pool' : h < x
    OBVIOUS
  <2>1. CASE h \in heap
    <3>1. Direct[h] \in Pages
      BY <1>5, <2>1, InvFacts
    <3> QED
      BY <1>4, <1>5, <1>8, <2>1, <3>1 DEF HeapInv
  <2>2. CASE h = at
    <3>1. page = Direct[h]
      BY <2>2 DEF page
    <3>3. Translate(Direct[h])' = g
      BY <1>3, <1>8, <3>1
    <3>2. \A x \in pool' : at < x
      BY <1>3, <1>5
    <3> QED
      BY <1>5, <2>2, <3>2, <3>3
  <2> QED
    BY <1>1, <2>1, <2>2
<1>10. ASSUME slab' # NoSlab
       PROVE  /\ slab'.frame \in memory
              /\ slab'.frame + slab'.next = at + 1
              /\ \A x \in pool' : at + 1 <= x
              /\ \A h \in heap' : h < at + 1
              /\ RoomBehind(memory) /\ at + 1 \in memory => at + 1 \in pool'
  <2>1. slab.next < slab.pages /\ slab'.frame = slab.frame /\ slab'.next = slab.next + 1
    BY <1>5, <1>n, <1>10
  <2>2. slab.frame \in memory /\ \A h \in heap : h < at
    BY <1>1, <1>4, <1>b DEF HeapInv
  <2>3. slab'.frame + slab'.next = at + 1
    BY <1>5, <1>b, <2>1
  <2>4. \A x \in pool' : at + 1 <= x
    BY <1>3, <1>5
  <2>5. \A h \in heap' : h < at + 1
    BY <1>1, <1>5, <2>2
  <2>6. ASSUME RoomBehind(memory), at + 1 \in memory, at + 1 \notin pool' PROVE FALSE
    <3>1. at = g
      BY <1>3, <1>r, <2>1, <2>6
    <3>2. Translate(page) # 0
      BY <1>3, <1>4, <1>5, <3>1 DEF DirectInv, page
    <3>3. pool' = pool \ {g}
      BY <1>3, <3>2 DEF MapDone
    <3>4. at + 1 \in memory \ pool
      BY <1>5, <2>6, <3>1, <3>3
    <3>5. at + 1 < g
      BY <1>3, <1>4, <3>4 DEF HeapInv, FromBelow
    <3> QED
      BY <1>5, <3>1, <3>5
  <2> QED
    BY <2>1, <2>2, <2>3, <2>4, <2>5, <2>6
<1>11. HeapInv'
  <2>1. FromBelow(pool', memory')
        /\ (root' # 0 => \A f \in Frames : Meets(table', root', f) => f \in DOMAIN LimineTables \cup memory')
    BY <1>1, <1>3 DEF MapDone
  <2> QED
    BY <1>1, <1>9, <1>10, <2>1 DEF HeapInv
<1>12. \A p \in Held : p # page /\ p \in Pages
  <2> SUFFICES ASSUME NEW p \in Held PROVE p # page /\ p \in Pages
    OBVIOUS
  <2>1. CASE p \in DOMAIN VideoMap \cup UserPages
    BY <1>3, <2>1, InvFacts DEF page
  <2>2. CASE p \in {Direct[h] : h \in heap}
    <3>1. PICK h \in heap : p = Direct[h]
      BY <2>2
    <3>2. h < at /\ h \in Frames
      BY <1>1, <1>4, <1>5, <1>b, <3>1 DEF HeapInv
    <3>3. h # at
      BY <1>5, <3>1, <3>2
    <3> QED
      BY <1>i, <3>1, <3>2, <3>3, InvFacts
  <2> QED
    BY <2>1, <2>2 DEF Held
<1>13. MappedInv'
  <2> SUFFICES ASSUME pc' # "halted", NEW p \in (DOMAIN VideoMap \cup UserPages) \ todo'
               PROVE  Translate(p)' # 0
    BY DEF MappedInv
  <2>1. p \in Held
    BY DEF Held
  <2> QED
    BY <1>1, <1>4, <1>8, <1>12, <1>p, <2>1 DEF MappedInv
<1>14. Stays
  <2> SUFFICES ASSUME NEW p \in Held, pc \in {"user", "fault"}
               PROVE  Translate(p) # 0 /\ Translate(p)' = Translate(p)
    BY DEF Stays
  <2>1. Translate(p) # 0
    BY <1>4 DEF Held, HeapInv, MappedInv, PhaseInv
  <2> QED
    BY <1>8, <1>12, <2>1
<1> QED
  BY <1>3, <1>7, <1>11, <1>13, <1>14 DEF MapDone, Carries, Sound

LEMMA VmmInitKeeps ==
    ASSUME TypeInv, PhaseInv, Sound, ~astray, ~astray', vmm_init PROVE Carries
<1> DEFINE r == pmm_alloc(pool)
<1>1. /\ pc = "start" /\ pool # {} /\ root' = r /\ pool' = pool \ {r} /\ pc' = "gdt"
      /\ table' = [table EXCEPT ![r] = table[LimineRoot]]
      /\ used' = used /\ slab' = slab /\ todo' = todo /\ want' = want /\ memory' = memory /\ heap' = heap
  BY DEF vmm_init
<1>2. /\ root = 0 /\ table = Booted /\ used = {} /\ todo = DOMAIN VideoMap \cup UserPages
      /\ pool = memory /\ heap = {} /\ slab = NoSlab /\ memory \subseteq Usable
      /\ memory \subseteq Frames /\ 0 \notin memory
  BY <1>1, InvFacts DEF PhaseInv
<1>3. r \in pool /\ r \in Frames /\ r # 0 /\ r \notin DOMAIN LimineTables /\ r \in Usable
  BY <1>1, <1>2, InvFacts, Allocated, BootedType
<1>f. FromBelow(pool', memory)
  BY <1>1, <1>2, FirstFromBelow
<1> HIDE DEF r
<1>4. ~Meets(Booted, LimineRoot, r)
  BY <1>3, BootedType DEF Meets
<1>5. /\ table' \in Tabs
      /\ \A q \in Pages, n \in 0 .. Levels :
            Reach(table', r, q)[n] = IF n = 0 THEN r ELSE Reach(Booted, LimineRoot, q)[n]
  <2> DEFINE new == table'
  <2>1. new = [Booted EXCEPT ![r] = Booted[LimineRoot]]
    BY <1>1, <1>2
  <2>2. Booted \in Tabs /\ LimineRoot \in Frames /\ r \in Frames
    BY <1>3, BootedType, Constants
  <2> HIDE DEF new
  <2>3. IsCopy(new, r, Booted, LimineRoot)
    BY <1>4, <2>1, <2>2, CopyReaches
  <2> QED
    BY <2>3 DEF new, IsCopy
<1>6. Levels \in 0 .. Levels /\ Levels # 0 /\ \A n \in 0 .. Levels - 1 : n \in 0 .. Levels
  BY Constants
<1>7. \A q \in Pages : Translate(q)' = Reach(Booted, LimineRoot, q)[Levels]
  BY <1>1, <1>3, <1>5, <1>6 DEF Translate
<1>8. CurrentMap' = CurrentMap
  <2>1. CurrentMap = [p \in Pages |-> Reach(Booted, LimineRoot, p)[Levels]]
    BY <1>2 DEF CurrentMap
  <2>2. CurrentMap' = [p \in Pages |-> Translate(p)']
    BY <1>1, <1>3 DEF CurrentMap
  <2> QED
    BY <1>7, <2>1, <2>2
<1>9. IsTree(table', r)
  <2>1. ASSUME NEW p \in Pages, NEW q \in Pages, NEW m \in 0 .. Levels - 1, NEW n \in 0 .. Levels - 1
        PROVE  TreeFact(table', r, p, q, m, n)
    <3>1. /\ Reach(table', r, p)[m] = IF m = 0 THEN r ELSE Reach(Booted, LimineRoot, p)[m]
          /\ Reach(table', r, q)[n] = IF n = 0 THEN r ELSE Reach(Booted, LimineRoot, q)[n]
      BY <1>5, <1>6
    <3>2. Reach(Booted, LimineRoot, p)[m] # r /\ Reach(Booted, LimineRoot, q)[n] # r
      BY <1>4 DEF Meets
    <3>3. TreeFact(Booted, LimineRoot, p, q, m, n)
      BY BootedType, TreeMeans
    <3>4. CASE m = 0
      <4>1. Reach(table', r, p)[m] = Reach(table', r, q)[n] => n = 0
        BY <3>1, <3>2, <3>4
      <4>2. SameWay(p, q, 0)
        BY DEF SameWay
      <4> QED
        BY <3>4, <4>1, <4>2 DEF TreeFact
    <3>5. CASE m # 0
      BY <3>1, <3>2, <3>3, <3>5 DEF TreeFact
    <3> QED
      BY <3>4, <3>5
  <2> QED
    BY <2>1, TreeMeans
<1>10. ASSUME NEW f \in Frames, Meets(table', r, f) PROVE f = r \/ f \in DOMAIN LimineTables
  <2>1. PICK q \in Pages, n \in 0 .. Levels - 1 : Reach(table', r, q)[n] = f
    BY <1>10 DEF Meets
  <2>2. Reach(Booted, LimineRoot, q)[n] \in DOMAIN LimineTables \cup {0}
    BY BootedType
  <2>3. Reach(table', r, q)[n] = IF n = 0 THEN r ELSE Reach(Booted, LimineRoot, q)[n]
    BY <1>5, <1>6
  <2> QED
    BY <2>1, <2>2, <2>3, Constants
<1>11. Good(table', r, pool', used' \cup Devices)
  <2>1. pool' \subseteq Frames /\ pool' \cap Devices = {} /\ used' = {}
    BY <1>1, <1>2, BootedType
  <2>2. \A f \in pool' \cup Devices : f \in Frames /\ f # r /\ f \notin DOMAIN LimineTables
    <3>1. \A f \in pool' : f \in Frames /\ f # r /\ f \notin DOMAIN LimineTables
      BY <1>1, <1>2, BootedType
    <3>2. \A f \in Devices : f \in Frames /\ f # r /\ f \notin DOMAIN LimineTables
      BY <1>3, BootedType
    <3> QED
      BY <3>1, <3>2
  <2>3. \A f \in pool' \cup used' \cup Devices : ~Meets(table', r, f)
    BY <1>10, <2>1, <2>2
  <2> QED
    BY <1>3, <1>5, <1>9, <2>1, <2>3 DEF Good
<1>12. TreeInv'
  BY <1>1, <1>11 DEF TreeInv
<1>13. LeafInv'
  <2>1. \A p \in Pages \ DirectPages : Translate(p)' = 0
    BY <1>7 DEF DirectPages
  <2>2. DemandPages \subseteq Pages \ DirectPages
    BY VmmAssumption
  <2>3. used' = {}
    BY <1>1, <1>2
  <2> QED
    BY <2>1, <2>2, <2>3 DEF LeafInv
<1>14. MappedInv'
  BY <1>1, <1>2 DEF MappedInv
<1>15. DirectInv'
  <2> SUFFICES ASSUME NEW f \in Frames, Meets(table', r, f) \/ f \in pool' \/ f \in Kept
               PROVE  Translate(Direct[f])' = f
    BY <1>1 DEF DirectInv
  <2>1. f \in Usable \cup DOMAIN LimineTables \cup Kept
    BY <1>1, <1>2, <1>3, <1>10
  <2>2. Reach(Booted, LimineRoot, Direct[f])[Levels] = f
    BY <2>1, DirectAssumption
  <2>3. Direct[f] \in Pages
    BY InvFacts
  <2> QED
    BY <1>7, <2>2, <2>3
<1>16. HeapInv'
  <2>1. root' # 0 => \A f \in Frames : Meets(table', root', f) => f \in DOMAIN LimineTables \cup memory'
    BY <1>1, <1>2, <1>3, <1>10
  <2> QED
    BY <1>1, <1>2, <1>f, <2>1 DEF HeapInv
<1>17. Stays
  BY <1>1 DEF Stays
<1> QED
  BY <1>8, <1>12, <1>13, <1>14, <1>15, <1>16, <1>17 DEF Carries, Sound

\* A kernel that is not astray carries everything over.
LEMMA SoundKeeps ==
    ASSUME TypeInv, PhaseInv, Sound, ~astray, ~astray', [Next]_vars PROVE Carries
BY VmmInitKeeps, PlainKeeps, MapVideoKeeps, MapUserKeeps, FaultKeeps, GrowKeeps, ExtendKeeps DEF Next

----
\* How the kernel goes astray.

LEMMA ExtendLost ==
    ASSUME TypeInv, PhaseInv, Sound, ~astray, astray', HeapExtends PROVE pool' = {} \/ ~RoomBehind(memory)
<1> DEFINE g == pmm_alloc(pool)
           at == slab.frame + slab.next
           page == Direct[at]
           zero == MapUsesZero(page, pool \ {g})
           hit == at # g /\ at \in TablesOf(table', root) \cup Kept
<1>1. /\ slab # NoSlab /\ vmm_map(page, g, FALSE, pool \ {g}) /\ used' = used \cup {g}
      /\ astray' = (astray \/ g = Zero \/ zero \/ hit) /\ UNCHANGED <<root, memory>>
  BY DEF HeapExtends
<1>2. pc \in {"boot", "user"} /\ root # 0 /\ HeapInv /\ at \in Frames /\ page \in Pages /\ g \in Frames
  BY <1>1, SlabFacts, InvFacts, Allocated DEF PhaseInv, Sound
<1>3. pool' \subseteq pool \ {g} /\ (zero => pool' = {})
  BY <1>1, <1>2, MapHolds
<1>4. CASE g = Zero
  <2>1. pool = {}
    BY <1>4, InvFacts, Allocated
  <2> QED
    BY <1>3, <2>1
<1>5. CASE zero
  BY <1>3, <1>5
<1>6. CASE g # Zero /\ ~zero /\ hit
  <2> SUFFICES ASSUME RoomBehind(memory) PROVE FALSE
    OBVIOUS
  <2>1. MapDone(page, g, {g}) /\ (at \in memory => at = g)
    BY <1>6, ExtendMaps
  <2>2. at \notin DOMAIN LimineTables \cup Kept /\ at \notin memory
    BY <1>1, <1>2, <1>6, <2>1, NothingBehind
  <2>3. at \in TablesOf(table', root) \cup Kept
    BY <1>6
  <2> HIDE DEF at, g, zero, hit, page
  <2>4. Meets(table', root, at)
    BY <2>2, <2>3 DEF TablesOf, Meets
  <2> QED
    BY <1>2, <2>1, <2>2, <2>4 DEF MapDone
<1> QED
  BY <1>1, <1>4, <1>5, <1>6

LEMMA LostKeeps ==
    ASSUME IInv, [Next]_vars, Holds PROVE LostInv'
<1> DEFINE f == pmm_alloc(pool)
<1>1. TypeInv /\ PhaseInv /\ LostInv /\ memory' = memory /\ pool' \subseteq pool
  BY DEF IInv, Holds
<1>2. CASE astray
  BY <1>1, <1>2 DEF LostInv
<1>3. CASE ~astray /\ astray'
  <2>0. Sound /\ f \in Frames /\ (f = Zero => pool = {})
    BY <1>1, <1>3, InvFacts, Allocated DEF IInv
  <2>1. CASE vmm_init \/ init_gdt \/ HeapGrows
    <3>1. pool = {}
      BY <1>3, <2>0, <2>1 DEF vmm_init, init_gdt, HeapGrows
    <3> QED
      BY <1>1, <3>1 DEF LostInv
  <2>2. CASE MapVideo
    <3>1. PICK page \in todo \cap DOMAIN VideoMap :
             vmm_map(page, VideoMap[page], FALSE, pool) /\ MapUsesZero(page, pool)
      BY <1>3, <2>2 DEF MapVideo
    <3>2. root # 0 /\ root' = root /\ used' = used \cup {} /\ pool \ {} = pool
      BY <1>1, <2>2 DEF MapVideo, PhaseInv
    <3> DEFINE frame == VideoMap[page]
    <3>3. page \in Pages /\ frame \in Frames
      BY VmmAssumption
    <3> HIDE DEF frame
    <3>4. vmm_map(page, frame, FALSE, pool \ {}) /\ MapUsesZero(page, pool \ {})
      BY <3>1, <3>2 DEF frame
    <3>5. pool' = {}
      BY <1>1, <3>2, <3>3, <3>4, MapHolds
    <3> QED
      BY <3>5 DEF LostInv
  <2>3. CASE MapUser
    <3>1. PICK page \in todo :
             /\ vmm_map(page, f, TRUE, pool \ {f}) /\ used' = used \cup {f}
             /\ f = Zero \/ MapUsesZero(page, pool \ {f})
      BY <1>3, <2>3 DEF MapUser
    <3>2. root # 0 /\ root' = root /\ page \in Pages
      BY <1>1, <2>3, InvFacts DEF MapUser, PhaseInv, TypeInv
    <3>3. MapUsesZero(page, pool \ {f}) => pool' = {}
      BY <1>1, <2>0, <3>1, <3>2, MapHolds
    <3>4. pool' = {}
      BY <1>1, <2>0, <3>1, <3>3
    <3> QED
      BY <3>4 DEF LostInv
  <2>4. CASE page_fault_handler
    <3>1. /\ want \in DemandPages /\ vmm_map(want, f, TRUE, pool \ {f}) /\ used' = used \cup {f}
          /\ MapUsesZero(want, pool \ {f})
      BY <1>3, <2>4 DEF page_fault_handler
    <3>2. root # 0 /\ root' = root /\ want \in Pages
      BY <1>1, <2>4, <3>1, InvFacts DEF page_fault_handler, PhaseInv
    <3>3. pool' = {}
      BY <1>1, <2>0, <3>1, <3>2, MapHolds
    <3> QED
      BY <3>3 DEF LostInv
  <2>5. CASE HeapExtends
    <3>1. pool' = {} \/ ~RoomBehind(memory)
      BY <1>1, <1>3, <2>0, <2>5, ExtendLost
    <3> QED
      BY <1>1, <3>1 DEF LostInv
  <2>6. CASE EnterUser \/ UserTouches \/ UserProceeds \/ UserFaults \/ UNCHANGED vars
    BY <1>3, <2>6 DEF EnterUser, UserTouches, UserProceeds, UserFaults, vars
  <2> QED
    BY <2>1, <2>2, <2>3, <2>4, <2>5, <2>6 DEF Next
<1> QED
  BY <1>2, <1>3 DEF LostInv

LEMMA InitKeeps ==
    ASSUME Init PROVE IInv /\ Abs!AbsInit
<1>1. /\ table = Booted /\ root = 0 /\ memory \in Pools /\ pool = memory /\ used = {}
      /\ slab = NoSlab /\ heap = {} /\ astray = FALSE /\ want = NoPage /\ pc = "start"
      /\ todo = DOMAIN VideoMap \cup UserPages
  BY DEF Init
<1>2. TypeInv
  BY <1>1, BootedType DEF TypeInv
<1>3. PhaseInv /\ LostInv
  BY <1>1 DEF PhaseInv, LostInv
<1>4. Sound
  BY <1>1 DEF Sound, TreeInv, LeafInv, MappedInv, DirectInv, HeapInv, Translate, FromBelow
<1>5. Abs!AbsInit
  <2>1. \A p \in Pages : Reach(Booted, LimineRoot, p)[Levels] \in Frames \cup {0}
    <3>1. Levels \in 0 .. Levels
      BY Constants
    <3> QED
      BY <3>1, BootedType, Constants, ReachSteps
  <2>2. CurrentMap = [p \in Pages |-> Reach(Booted, LimineRoot, p)[Levels]]
    BY <1>1 DEF CurrentMap
  <2> QED
    BY <1>1, <2>1, <2>2 DEF Abs!AbsInit
<1> QED
  BY <1>2, <1>3, <1>4, <1>5 DEF IInv

LEMMA NextKeeps ==
    ASSUME IInv, [Next]_vars PROVE Keeps
<1>1. TypeInv /\ PhaseInv /\ (~astray => Sound) /\ astray \in BOOLEAN
  BY DEF IInv, TypeInv
<1>2. Holds
  BY <1>1, TypesHold
<1>3. TypeInv' /\ PhaseInv' /\ (astray => astray')
  BY <1>2 DEF Holds
<1>4. LostInv'
  BY <1>2, LostKeeps
<1>5. ~astray' => Carries
  BY <1>1, <1>3, SoundKeeps
<1> QED
  BY <1>3, <1>4, <1>5 DEF Keeps, IInv, Carries

\* The invariant holds in every state.
LEMMA Invariant == Spec => []IInv
<1>1. Init => IInv
  BY InitKeeps
<1>2. IInv /\ [Next]_vars => IInv'
  BY NextKeeps DEF Keeps
<1> QED
  BY <1>1, <1>2, PTL DEF Spec

LEMMA TreeHolds ==
    ASSUME IInv PROVE TablesFormATree
<1> DEFINE way == [p \in Pages |-> Reach(table, root, p)]
           Tables == TablesOf(table, root)
           Ok == /\ IsTree(table, root)
                 /\ Tables \cap (used \cup pool) = {}
                 /\ \A p \in Pages \ DirectPages : way[p][Levels] \notin Tables
                 /\ \A p \in DemandPages : way[p][Levels] # 0 =>
                       /\ way[p][Levels] \in used
                       /\ \A q \in Pages \ (DirectPages \cup {p}) : way[q][Levels] # way[p][Levels]
                 /\ \A f \in Tables \cup pool \cup Kept : way[Direct[f]][Levels] = f
<1>1. (astray => pool = {} \/ ~RoomBehind(memory)) /\ TypeInv
  BY DEF IInv, LostInv
<1>2. ASSUME root # 0, ~astray PROVE Ok
  <2>1. /\ Good(table, root, pool, used \cup Devices) /\ LeafInv /\ DirectInv /\ 0 \notin Frames
        /\ table \in Tabs /\ root \in Frames /\ pool \subseteq Frames
        /\ DemandPages \subseteq Pages \ DirectPages /\ \A f \in Frames : Direct[f] \in Pages
    BY <1>1, <1>2, InvFacts DEF IInv, Sound, TreeInv, TypeInv
  <2>2. \A p \in Pages : way[p] = Reach(table, root, p) /\ Translate(p) = way[p][Levels]
    BY <1>2 DEF Translate
  <2>3. IsTree(table, root)
    BY <2>1 DEF Good
  <2>t. \A f \in Tables : f # 0 /\ Meets(table, root, f)
    BY DEF TablesOf, Meets
  <2>4. \A f \in Tables : f \notin used /\ f \notin pool /\ f \notin Devices
    BY <2>1, <2>t DEF Good
  <2>f. Tables \subseteq Frames
    <3> SUFFICES ASSUME NEW f \in Tables PROVE f \in Frames
      OBVIOUS
    <3>1. PICK p \in Pages, n \in 0 .. Levels - 1 : Reach(table, root, p)[n] = f
      BY <2>t DEF Meets
    <3>2. n \in 0 .. Levels /\ Reach(table, root, p) \in [0 .. Levels -> Frames \cup {0}]
      BY <2>1, ReachSteps, Constants
    <3> QED
      BY <2>t, <3>1, <3>2
  <2> HIDE DEF way, Tables
  <2>7. \A p \in Pages \ DirectPages : way[p][Levels] \notin Tables
    BY <2>1, <2>2, <2>4, <2>t DEF LeafInv
  <2>8. ASSUME NEW p \in DemandPages, way[p][Levels] # 0
        PROVE  /\ way[p][Levels] \in used
               /\ \A q \in Pages \ (DirectPages \cup {p}) : way[q][Levels] # way[p][Levels]
    BY <2>1, <2>2, <2>8 DEF LeafInv
  <2>9. \A f \in Tables \cup pool \cup Kept : way[Direct[f]][Levels] = f
    <3> SUFFICES ASSUME NEW f \in Tables \cup pool \cup Kept PROVE way[Direct[f]][Levels] = f
      OBVIOUS
    <3>1. f \in Frames
      BY <2>1, <2>f, VmmAssumption
    <3>2. Translate(Direct[f]) = f
      BY <1>2, <2>1, <2>t, <3>1 DEF DirectInv
    <3> QED
      BY <2>1, <2>2, <3>1, <3>2
  <2> QED
    BY <2>3, <2>4, <2>7, <2>8, <2>9
<1> QED
  BY <1>1, <1>2 DEF TablesFormATree

----
\* The theorems.


\* Types, of the memory behind a slab included, for every tree and every memory.
THEOREM VmmTypesCorrect == Spec => []TypeOK
<1>1. ASSUME TypeInv, PhaseInv PROVE TypeOK
  <2>1. Entries \subseteq [present : BOOLEAN, frame : Frames \cup {0}, user : BOOLEAN]
    <3> SUFFICES ASSUME NEW e \in Entries
                 PROVE  e \in [present : BOOLEAN, frame : Frames \cup {0}, user : BOOLEAN]
      OBVIOUS
    <3>1. CASE e \in [present : {TRUE}, frame : Frames, user : BOOLEAN]
      <4>1. PICK f \in Frames, u \in BOOLEAN : e = [present |-> TRUE, frame |-> f, user |-> u]
        BY <3>1
      <4>2. f \in Frames \cup {0} /\ TRUE \in BOOLEAN
        OBVIOUS
      <4> QED
        BY <4>1, <4>2
    <3>2. CASE e = Absent
      <4>1. 0 \in Frames \cup {0} /\ FALSE \in BOOLEAN
        OBVIOUS
      <4> QED
        BY <3>2, <4>1 DEF Absent
    <3> QED
      BY <3>1, <3>2 DEF Entries
  <2>2. UserPages \cup DemandPages \subseteq Pages /\ DOMAIN VideoMap \subseteq Pages
    BY VmmAssumption
  <2>3. table \in [Frames -> [Idx -> [present : BOOLEAN, frame : Frames \cup {0}, user : BOOLEAN]]]
    BY <1>1, <2>1 DEF TypeInv, Tabs
  <2> QED
    BY <1>1, <2>2, <2>3 DEF TypeOK, TypeInv, SlabType
<1>2. IInv => TypeOK
  BY <1>1 DEF IInv
<1> QED
  BY <1>2, Invariant, PTL

\* Whatever vmm_get_pte, vmm_map, page_fault_handler and the two loops of the heap take from the
\* pool and map, the pages of a large slab over the direct map included, the tables stay a tree
\* that nothing else uses and that the kernel reaches, and every page of the demand range has its
\* frame to itself.  Until frame 0 is used or a slab is mapped over a table; and that takes an
\* empty pool, or a region of memory with something of the kernel's right behind it.
THEOREM TreeStays == Spec => []TablesFormATree
<1>1. IInv => TablesFormATree
  BY TreeHolds
<1> QED
  BY <1>1, Invariant, PTL

\* Each call of vmm_map, those of a slab's loop included, changes one translation at most and
\* unmaps none, and vmm_init's copy and new tables change none; the pages of the framebuffer, of
\* the program and of the heap stay where they are, as long as the kernel is not astray.
THEOREM OnePageAtATime == Spec => ImplementsAddressSpace
<1>1. Init => Abs!AbsInit
  BY InitKeeps
<1>2. IInv /\ [Next]_vars => [Abs!MapPage \/ Abs!Lose]_<<CurrentMap, astray>>
  <2> SUFFICES ASSUME IInv, [Next]_vars PROVE [Abs!MapPage \/ Abs!Lose]_<<CurrentMap, astray>>
    OBVIOUS
  <2>1. Keeps /\ astray \in BOOLEAN /\ astray' \in BOOLEAN
    BY NextKeeps DEF Keeps, IInv, TypeInv
  <2>2. CASE astray'
    BY <2>2 DEF Abs!Lose
  <2>3. CASE ~astray'
    BY <2>1, <2>3 DEF Keeps, Carries
  <2> QED
    BY <2>2, <2>3
<1>3. IInv /\ [Next]_vars =>
        [\A p \in Held : pc \in {"user", "fault"} /\ ~astray'
             => Translate(p) # 0 /\ Translate(p)' = Translate(p)]_vars
  BY NextKeeps DEF Keeps, Carries, Stays
<1> QED
  BY <1>1, <1>2, <1>3, Invariant, PTL DEF Spec, ImplementsAddressSpace, Abs!AbsSpec
====
