---- MODULE FbConsoleProofs ----
(***************************************************************************)
(* Proofs of FbConsole's properties, for every size of the screen.  The    *)
(* calls that change many cells fold push_to_queue over them: each fold is *)
(* followed step by step (UpTo, FoldExists) to what it leaves in the cells *)
(* (Copied, RowCleared, AllCleared, RegionUp, RegionDown), and the flush's *)
(* fold over the queue to what it plots (Plotted, FlushShowsAll).  IInv is *)
(* the inductive invariant; an action that keeps it and is a step of the   *)
(* screen satisfies Keeps.                                                 *)
(***************************************************************************)
EXTENDS FbConsole, FiniteSetTheorems, WellFoundedInduction, TLAPS

----
\* Numbers up to a bound, and folds over them.

\* A set of naturals has a least element.
LEMMA LeastElement ==
    ASSUME NEW T, T \subseteq Nat, T # {}
    PROVE  \E x \in T : \A y \in T : x <= y
<1> DEFINE R == OpToRel(<, Nat)
<1>1. IsWellFoundedOn(R, Nat)
  BY NatLessThanWellFounded
<1>2. \A a, b \in Nat : a < b => <<a, b>> \in R
  BY DEF OpToRel
<1> HIDE DEF R
<1>3. PICK x \in T : \A y \in T : <<y, x>> \notin R
  BY <1>1, WFMin
<1>4. ASSUME NEW y \in T PROVE x <= y
  <2>1. ~(y < x)
    BY <1>2, <1>3
  <2> QED
    BY <2>1
<1> QED
  BY <1>4

\* What holds at 0 and goes on from each number to the next holds up to n.
LEMMA UpTo ==
    ASSUME NEW n \in Nat, NEW P, 0 \in P, \A k \in 0 .. n - 1 : k \in P => k + 1 \in P
    PROVE  \A k \in 0 .. n : k \in P
<1> DEFINE T == {k \in 0 .. n : k \notin P}
<1>1. CASE T = {}
  BY <1>1
<1>2. CASE T # {}
  <2>0. T \subseteq Nat
    OBVIOUS
  <2>1. PICK m \in T : \A k \in T : m <= k
    <3> HIDE DEF T
    <3> QED
      BY <1>2, <2>0, LeastElement
  <2>2. m \in 1 .. n /\ m - 1 \in 0 .. n - 1 /\ m - 1 \in 0 .. n
    BY <2>1
  <2>3. m - 1 \in P
    BY <2>1, <2>2
  <2>4. m - 1 + 1 \in P
    BY <2>2, <2>3
  <2> QED
    BY <2>1, <2>2, <2>4
<1> QED
  BY <1>1, <1>2

\* The greatest of the numbers up to k, and the rest.
LEMMA LastOfInitial ==
    ASSUME NEW k \in Nat, k # 0
    PROVE  Max(1 .. k) = k /\ (1 .. k) \ {k} = 1 .. k - 1
<1>1. k \in 1 .. k /\ \A y \in 1 .. k : k >= y
  OBVIOUS
<1>2. \A x \in 1 .. k : (\A y \in 1 .. k : x >= y) => x = k
  OBVIOUS
<1>3. Max(1 .. k) = k
  <2>1. Max(1 .. k) \in 1 .. k /\ \A y \in 1 .. k : Max(1 .. k) >= y
    BY <1>1 DEF Max
  <2> QED
    BY <1>2, <2>1
<1> QED
  BY <1>3

\* A set of numbers up to n has a greatest element.
LEMMA MaxIsMember ==
    ASSUME NEW n \in Nat, NEW s \in SUBSET (1 .. n), s # {}
    PROVE  Max(s) \in s /\ \A y \in s : Max(s) >= y
<1> DEFINE T == {n - y : y \in s}
<1>1. T \subseteq Nat /\ T # {}
  <2>1. PICK y \in s : TRUE
    OBVIOUS
  <2>2. n - y \in T
    OBVIOUS
  <2>3. \A z \in 1 .. n : n - z \in Nat
    OBVIOUS
  <2> QED
    BY <2>2, <2>3
<1>2. PICK t \in T : \A u \in T : t <= u
  <2> HIDE DEF T
  <2> QED
    BY <1>1, LeastElement
<1>3. PICK x \in s : t = n - x
  BY <1>2
<1>4. \A y \in s : x >= y
  <2> SUFFICES ASSUME NEW y \in s PROVE x >= y
    OBVIOUS
  <2>1. n - y \in T /\ y \in Nat /\ x \in Nat
    OBVIOUS
  <2>2. n - x <= n - y
    BY <1>2, <1>3, <2>1
  <2> QED
    BY <2>1, <2>2
<1> QED
  BY <1>3, <1>4 DEF Max

\* The recursion of FoldLeft, for a step function F on a set of states.
IsFold(g, B, n, F, b) ==
    /\ g \in [SUBSET (1 .. n) -> B]
    /\ \A s \in SUBSET (1 .. n) : g[s] = IF s = {} THEN b ELSE F[g[s \ {Max(s)}], Max(s)]

\* A step function on a set of states can be iterated over 1 .. n in order, as FoldLeft does.
LEMMA FoldExists ==
    ASSUME NEW B, NEW n \in Nat, NEW F \in [B \X (1 .. n) -> B], NEW b \in B
    PROVE  \E g : IsFold(g, B, n, F, b)
<1> DEFINE Ok(g, k) == /\ g \in [SUBSET (1 .. k) -> B]
                       /\ \A s \in SUBSET (1 .. k) :
                             g[s] = IF s = {} THEN b ELSE F[g[s \ {Max(s)}], Max(s)]
           P == {k \in 0 .. n : \E g : Ok(g, k)}
<1>1. 0 \in P
  <2>1. 1 .. 0 = {} /\ SUBSET (1 .. 0) = {{}}
    OBVIOUS
  <2>2. Ok([s \in SUBSET (1 .. 0) |-> b], 0)
    BY <2>1
  <2> HIDE DEF Ok
  <2> QED
    BY <2>2
<1>2. ASSUME NEW k \in 0 .. n - 1, k \in P PROVE k + 1 \in P
  <2>1. PICK g : Ok(g, k)
    BY <1>2
  <2> DEFINE l == k + 1
             h == [s \in SUBSET (1 .. l) |-> IF l \in s THEN F[g[s \ {l}], l] ELSE g[s]]
  <2>2. l \in 1 .. n /\ l \in Nat /\ \A s \in SUBSET (1 .. l) : s \ {l} \in SUBSET (1 .. k)
    OBVIOUS
  <2>3. \A s \in SUBSET (1 .. l) : l \notin s => s \in SUBSET (1 .. k)
    OBVIOUS
  <2>4. h \in [SUBSET (1 .. l) -> B]
    BY <2>1, <2>2, <2>3
  <2>5. ASSUME NEW s \in SUBSET (1 .. l), l \in s PROVE Max(s) = l
    <3>1. \A y \in s : l >= y /\ y \in Nat
      BY <2>2
    <3>2. Max(s) \in s /\ \A y \in s : Max(s) >= y
      BY <2>2, <2>5, MaxIsMember
    <3>3. Max(s) >= l /\ l >= Max(s) /\ Max(s) \in Nat
      BY <2>5, <3>1, <3>2
    <3> QED
      BY <2>2, <3>3
  <2>6. ASSUME NEW s \in SUBSET (1 .. l)
        PROVE  h[s] = IF s = {} THEN b ELSE F[h[s \ {Max(s)}], Max(s)]
    <3>1. CASE l \in s
      <4>1. s # {} /\ Max(s) = l /\ h[s] = F[g[s \ {l}], l]
        BY <2>5, <3>1
      <4>2. h[s \ {l}] = g[s \ {l}]
        BY <2>2
      <4> QED
        BY <4>1, <4>2
    <3>2. CASE l \notin s
      <4>1. s \in SUBSET (1 .. k) /\ h[s] = g[s]
        BY <2>3, <3>2
      <4>2. s \ {Max(s)} \in SUBSET (1 .. k) /\ l \notin s \ {Max(s)} /\ s \ {Max(s)} \in SUBSET (1 .. l)
        BY <3>2, <4>1
      <4>3. h[s \ {Max(s)}] = g[s \ {Max(s)}]
        BY <4>2
      <4> QED
        BY <2>1, <4>1, <4>3
    <3> QED
      BY <3>1, <3>2
  <2>7. Ok(h, k + 1)
    BY <2>4, <2>6
  <2>8. k + 1 \in 0 .. n
    OBVIOUS
  <2> HIDE DEF Ok
  <2> QED
    BY <2>7, <2>8
<1> HIDE DEF P
<1>3. n \in P
  <2>1. \A k \in 0 .. n - 1 : k \in P => k + 1 \in P
    BY <1>2
  <2>2. \A k \in 0 .. n : k \in P
    BY <1>1, <2>1, UpTo
  <2> QED
    BY <2>2
<1> QED
  BY <1>3 DEF P, IsFold

----
\* A cell of the screen, and the same cell by its number.

LEMMA ProductIsMonotone ==
    ASSUME NEW a \in Nat, NEW b \in Nat, NEW m \in Nat, a <= b
    PROVE  a * m <= b * m
<1>1. PICK d \in Nat : b = a + d
  <2>1. b - a \in Nat /\ b = a + (b - a)
    OBVIOUS
  <2> QED
    BY <2>1
<1>2. b * m = a * m + d * m /\ d * m \in Nat /\ a * m \in Nat
  BY <1>1
<1> QED
  BY <1>2

LEMMA CellNumber ==
    ASSUME NEW x \in 0 .. Cols - 1, NEW y \in 0 .. Rows - 1
    PROVE  y * Cols + x \in Cells
<1>1. Cols \in Nat /\ Rows \in Nat /\ x \in Nat /\ y \in Nat /\ x < Cols /\ y + 1 <= Rows
  <2>1. Cols \in Nat /\ Rows \in Nat
    BY FbAssumption
  <2> QED
    BY <2>1
<1>2. (y + 1) * Cols <= Rows * Cols
  BY <1>1, ProductIsMonotone
<1>3. y * Cols \in Nat /\ Rows * Cols \in Nat /\ (y + 1) * Cols = y * Cols + Cols
  BY <1>1
<1> DEFINE p == y * Cols
           q == Rows * Cols
<1>4. p \in Nat /\ q \in Nat /\ p + Cols <= q
  BY <1>2, <1>3
<1> HIDE DEF p, q
<1>5. p + x \in 0 .. q - 1
  BY <1>1, <1>4
<1> QED
  BY <1>5 DEF Cells, p, q

\* Buffers whose items and map belong together; c may be any character.
Items(C) == [x : 0 .. Cols - 1, y : 0 .. Rows - 1, c : C]
BufferOK(b, C) ==
    /\ b \in [queue : Seq(Items(C)), map : [Cells -> Nat]]
    /\ \A k \in DOMAIN b.queue : b.map[b.queue[k].y * Cols + b.queue[k].x] = k
    /\ \A i \in Cells : b.map[i] # NULL =>
         /\ b.map[i] \in DOMAIN b.queue
         /\ b.queue[b.map[i]].y * Cols + b.queue[b.map[i]].x = i

(* push_to_queue keeps queue and map together (fb.c: queue_i, map), whatever is queued already,   *)
(* and afterwards the screen has the character in that cell and in every other cell what it had:  *)
(* nobody who reads through the queue can tell a queued cell from a plotted one.                  *)
THEOREM WriteIsVisibleAtOnce ==
    ASSUME NEW C, NEW b, BufferOK(b, C), grid \in [Cells -> C],
           NEW c \in C, NEW x \in Nat, NEW y \in Nat
    PROVE  LET w == push_to_queue(b, c, x, y)
           IN  /\ BufferOK(w, C)
               /\ \A i \in Cells : Current(w, i) =
                     IF x < Cols /\ y < Rows /\ i = y * Cols + x THEN c ELSE Current(b, i)
<1> DEFINE n == y * Cols + x
           w == push_to_queue(b, c, x, y)
<1>0. Cols \in Nat /\ Rows \in Nat
  BY FbAssumption
<1>b. /\ b.queue \in Seq(Items(C)) /\ b.map \in [Cells -> Nat]
      /\ b = [queue |-> b.queue, map |-> b.map]
  BY DEF BufferOK
<1>k. /\ \A k \in DOMAIN b.queue : b.map[b.queue[k].y * Cols + b.queue[k].x] = k
      /\ \A i \in Cells : b.map[i] # NULL =>
           /\ b.map[i] \in DOMAIN b.queue
           /\ b.queue[b.map[i]].y * Cols + b.queue[b.map[i]].x = i
  BY DEF BufferOK
<1>1. CASE x >= Cols \/ y >= Rows
  <2>1. w = b
    BY <1>1 DEF push_to_queue
  <2>2. ~(x < Cols /\ y < Rows)
    BY <1>0, <1>1
  <2> QED
    BY <2>1, <2>2
<1>2. CASE x < Cols /\ y < Rows
  <2>n. n \in Cells /\ x \in 0 .. Cols - 1 /\ y \in 0 .. Rows - 1
    <3>1. x \in 0 .. Cols - 1 /\ y \in 0 .. Rows - 1
      BY <1>0, <1>2
    <3> QED
      BY <3>1, CellNumber
  <2>1. CASE b.map[n] # NULL
    <3> DEFINE m == b.map[n]
    <3>1. w = [b EXCEPT !.queue[m].c = c]
      BY <1>0, <1>2, <2>1 DEF push_to_queue
    <3>2. m \in DOMAIN b.queue /\ b.queue[m].y * Cols + b.queue[m].x = n
      BY <1>k, <2>n, <2>1
    <3>3. w = [queue |-> [b.queue EXCEPT ![m].c = c], map |-> b.map]
      BY <1>b, <3>1
    <3>4. /\ w.map = b.map /\ w.queue = [b.queue EXCEPT ![m] = [@ EXCEPT !.c = c]]
      BY <3>3
    <3>5. b.queue[m] \in Items(C)
      BY <1>b, <3>2
    <3>6. [b.queue[m] EXCEPT !.c = c] \in Items(C)
      BY <3>5 DEF Items
    <3> DEFINE it == [b.queue[m] EXCEPT !.c = c]
    <3>7. it.x = b.queue[m].x /\ it.y = b.queue[m].y /\ it.c = c
      BY <3>5 DEF Items
    <3> HIDE DEF it, m, w
    <3>8. w.queue = [b.queue EXCEPT ![m] = it]
      BY <3>4 DEF it
    <3>9. it \in Items(C)
      BY <3>6 DEF it
    <3>10. w.queue \in Seq(Items(C)) /\ DOMAIN w.queue = DOMAIN b.queue
      BY <1>b, <3>2, <3>8, <3>9
    <3>11. \A k \in DOMAIN b.queue : w.queue[k].x = b.queue[k].x /\ w.queue[k].y = b.queue[k].y
      BY <1>b, <3>2, <3>8, <3>7
    <3>12. BufferOK(w, C)
      BY <1>b, <1>k, <3>3, <3>4, <3>10, <3>11 DEF BufferOK, w, m
    <3>13. \A i \in Cells : Current(w, i) = IF i = n THEN c ELSE Current(b, i)
      <4> SUFFICES ASSUME NEW i \in Cells
                   PROVE  Current(w, i) = IF i = n THEN c ELSE Current(b, i)
        OBVIOUS
      <4>1. CASE i = n
        BY <1>b, <2>1, <3>2, <3>4, <3>7, <3>8, <4>1 DEF Current, m
      <4>2. CASE i # n /\ b.map[i] # NULL
        <5>1. b.map[i] # m /\ b.map[i] \in DOMAIN b.queue
          BY <1>k, <3>2, <4>2
        <5> QED
          BY <1>b, <3>2, <3>4, <3>8, <4>2, <5>1 DEF Current
      <4>3. CASE i # n /\ b.map[i] = NULL
        BY <3>4, <4>3 DEF Current
      <4> QED
        BY <4>1, <4>2, <4>3
    <3> QED
      BY <1>2, <3>12, <3>13 DEF w
  <2>2. CASE b.map[n] = NULL /\ grid[n] = c
    <3>1. w = b
      BY <1>0, <1>2, <2>2 DEF push_to_queue
    <3>2. Current(b, n) = c
      BY <2>2 DEF Current
    <3> QED
      BY <1>2, <3>1, <3>2
  <2>3. CASE b.map[n] = NULL /\ grid[n] # c
    <3> DEFINE it == [x |-> x, y |-> y, c |-> c]
               l == Len(b.queue) + 1
    <3>1. w = [queue |-> Append(b.queue, it), map |-> [b.map EXCEPT ![n] = l]]
      BY <1>0, <1>2, <2>3 DEF push_to_queue
    <3>2. it \in Items(C) /\ it.x = x /\ it.y = y /\ it.c = c
      BY <2>n DEF Items
    <3>3. Len(b.queue) \in Nat /\ l \in Nat /\ l # NULL /\ DOMAIN b.queue = 1 .. Len(b.queue)
      BY <1>b DEF NULL
    <3>4. w.queue = Append(b.queue, it) /\ w.map = [b.map EXCEPT ![n] = l]
      BY <3>1
    <3> HIDE DEF it, w
    <3>5. /\ w.queue \in Seq(Items(C)) /\ DOMAIN w.queue = 1 .. l /\ w.queue[l] = it
          /\ \A k \in 1 .. Len(b.queue) : w.queue[k] = b.queue[k]
      BY <1>b, <3>2, <3>3, <3>4
    <3>6. /\ w.map \in [Cells -> Nat] /\ w.map[n] = l
          /\ \A i \in Cells : i # n => w.map[i] = b.map[i]
      BY <1>b, <2>n, <3>3, <3>4
    <3>7. \A k \in DOMAIN w.queue : w.map[w.queue[k].y * Cols + w.queue[k].x] = k
      <4> SUFFICES ASSUME NEW k \in 1 .. l PROVE w.map[w.queue[k].y * Cols + w.queue[k].x] = k
        BY <3>5
      <4>1. CASE k = l
        BY <3>2, <3>5, <3>6, <4>1
      <4>2. CASE k # l
        <5>1. k \in DOMAIN b.queue /\ w.queue[k] = b.queue[k] /\ k # NULL
          BY <3>3, <3>5, <4>2 DEF NULL
        <5>2. b.queue[k] \in Items(C)
          BY <1>b, <5>1
        <5>3. b.queue[k].y * Cols + b.queue[k].x \in Cells
          BY <5>2, CellNumber DEF Items
        <5>4. b.map[b.queue[k].y * Cols + b.queue[k].x] = k
          BY <1>k, <5>1
        <5>5. b.queue[k].y * Cols + b.queue[k].x # n
          BY <2>3, <5>1, <5>4
        <5> QED
          BY <3>6, <5>1, <5>3, <5>4, <5>5
      <4> QED
        BY <4>1, <4>2
    <3>8. \A i \in Cells : w.map[i] # NULL =>
             /\ w.map[i] \in DOMAIN w.queue
             /\ w.queue[w.map[i]].y * Cols + w.queue[w.map[i]].x = i
      <4> SUFFICES ASSUME NEW i \in Cells, w.map[i] # NULL
                   PROVE  /\ w.map[i] \in DOMAIN w.queue
                          /\ w.queue[w.map[i]].y * Cols + w.queue[w.map[i]].x = i
        OBVIOUS
      <4>1. CASE i = n
        BY <3>2, <3>3, <3>5, <3>6, <4>1
      <4>2. CASE i # n
        <5>1. /\ b.map[i] = w.map[i] /\ b.map[i] \in DOMAIN b.queue
              /\ b.queue[b.map[i]].y * Cols + b.queue[b.map[i]].x = i
          BY <1>k, <3>6, <4>2
        <5>2. b.map[i] \in DOMAIN w.queue /\ w.queue[b.map[i]] = b.queue[b.map[i]]
          BY <3>3, <3>5, <5>1
        <5> QED
          BY <5>1, <5>2
      <4> QED
        BY <4>1, <4>2
    <3>9. BufferOK(w, C)
      <4>1. w \in [queue : Seq(Items(C)), map : [Cells -> Nat]]
        BY <3>1, <3>5, <3>6 DEF w
      <4> QED
        BY <3>7, <3>8, <4>1 DEF BufferOK
    <3>10. \A i \in Cells : Current(w, i) = IF i = n THEN c ELSE Current(b, i)
      <4> SUFFICES ASSUME NEW i \in Cells
                   PROVE  Current(w, i) = IF i = n THEN c ELSE Current(b, i)
        OBVIOUS
      <4>1. CASE i = n
        BY <3>2, <3>3, <3>5, <3>6, <4>1 DEF Current
      <4>2. CASE i # n /\ b.map[i] # NULL
        <5>1. /\ b.map[i] = w.map[i] /\ b.map[i] \in 1 .. Len(b.queue)
          BY <1>k, <3>3, <3>6, <4>2
        <5> QED
          BY <3>5, <4>2, <5>1 DEF Current
      <4>3. CASE i # n /\ b.map[i] = NULL
        BY <3>6, <4>3 DEF Current
      <4> QED
        BY <4>1, <4>2, <4>3
    <3> QED
      BY <1>2, <3>9, <3>10 DEF w
  <2> QED
    BY <2>1, <2>2, <2>3
<1> QED
  BY <1>0, <1>1, <1>2

----
\* Row and column of a cell's number.

LEMMA Sizes ==
    /\ Cols \in Nat \ {0} /\ Rows \in Nat \ {0} /\ Cols >= Rows /\ Rows >= 2
    /\ Rows * Cols \in Nat
<1>1. Cols \in Nat /\ Rows \in Nat \ {0, 1} /\ Cols >= Rows
  BY FbAssumption
<1>2. Rows >= 2 /\ Cols # 0 /\ Rows # 0
  BY <1>1
<1> QED
  BY <1>1, <1>2

\* Quotient and remainder are determined by their range.
LEMMA DivMod ==
    ASSUME NEW i \in Nat, NEW y \in Nat, NEW x \in 0 .. Cols - 1, i = y * Cols + x
    PROVE  i \div Cols = y /\ i % Cols = x
<1> DEFINE q == i \div Cols
           r == i % Cols
<1>1. Cols \in Nat \ {0}
  BY Sizes
<1>2. q \in Nat /\ r \in 0 .. Cols - 1 /\ i = q * Cols + r
  BY <1>1, SMTT(30)
<1> HIDE DEF q, r
<1>3. CASE q < y
  <2>1. (q + 1) * Cols <= y * Cols
    BY <1>1, <1>2, <1>3, ProductIsMonotone
  <2>2. (q + 1) * Cols = q * Cols + Cols /\ q * Cols \in Nat /\ y * Cols \in Nat
    BY <1>1, <1>2
  <2> QED
    BY <1>1, <1>2, <2>1, <2>2
<1>4. CASE y < q
  <2>1. (y + 1) * Cols <= q * Cols
    BY <1>1, <1>2, <1>4, ProductIsMonotone
  <2>2. (y + 1) * Cols = y * Cols + Cols /\ q * Cols \in Nat /\ y * Cols \in Nat
    BY <1>1, <1>2
  <2> QED
    BY <1>1, <1>2, <2>1, <2>2
<1>5. CASE q = y
  <2>1. y * Cols \in Nat
    BY <1>1
  <2> QED
    BY <1>1, <1>2, <1>5, <2>1 DEF q, r
<1> QED
  BY <1>2, <1>3, <1>4, <1>5

\* A cell is in its row and its column.
LEMMA RowAndColumn ==
    ASSUME NEW i \in Nat
    PROVE  /\ i \div Cols \in Nat /\ i % Cols \in 0 .. Cols - 1
           /\ i = (i \div Cols) * Cols + (i % Cols)
<1>1. Cols \in Nat \ {0}
  BY Sizes
<1> QED
  BY <1>1, SMTT(30)

\* A row begins at its number times Cols.
LEMMA RowBounds ==
    ASSUME NEW i \in Nat, NEW r \in Nat
    PROVE  /\ r <= i \div Cols <=> r * Cols <= i
           /\ i \div Cols < r <=> i < r * Cols
<1> DEFINE q == i \div Cols
           x == i % Cols
<1>1. q \in Nat /\ x \in 0 .. Cols - 1 /\ i = q * Cols + x /\ Cols \in Nat
  BY RowAndColumn, Sizes
<1> HIDE DEF q, x
<1>2. CASE r <= q
  <2>1. r * Cols <= q * Cols /\ r * Cols \in Nat /\ q * Cols \in Nat
    BY <1>1, <1>2, ProductIsMonotone
  <2> QED
    BY <1>1, <1>2, <2>1 DEF q
<1>3. CASE q < r
  <2>1. (q + 1) * Cols <= r * Cols
    BY <1>1, <1>3, ProductIsMonotone
  <2>2. (q + 1) * Cols = q * Cols + Cols /\ q * Cols \in Nat /\ r * Cols \in Nat
    BY <1>1
  <2> QED
    BY <1>1, <1>3, <2>1, <2>2 DEF q
<1> QED
  BY <1>1, <1>2, <1>3

\* Row and column of a cell are on the screen.
LEMMA CellFacts ==
    ASSUME NEW i \in Cells
    PROVE  /\ i \in Nat /\ i \div Cols \in 0 .. Rows - 1 /\ i % Cols \in 0 .. Cols - 1
           /\ i = (i \div Cols) * Cols + (i % Cols)
<1>1. i \in Nat /\ i < Rows * Cols /\ Rows \in Nat
  BY Sizes DEF Cells
<1>2. i \div Cols < Rows
  BY <1>1, RowBounds
<1> QED
  BY <1>1, <1>2, RowAndColumn

----
\* Sequences of writes.

Buffers(C) == {b \in [queue : Seq(Items(C)), map : [Cells -> Nat]] : BufferOK(b, C)}

\* What is read through the queue is a character.
LEMMA CurrentIsCharacter ==
    ASSUME NEW C, grid \in [Cells -> C], NEW b \in Buffers(C), NEW i \in Cells
    PROVE  Current(b, i) \in C
<1>1. b.queue \in Seq(Items(C)) /\ (b.map[i] # NULL => b.map[i] \in DOMAIN b.queue)
  BY DEF Buffers, BufferOK
<1>2. b.map[i] # NULL => b.queue[b.map[i]] \in Items(C)
  BY <1>1
<1> QED
  BY <1>2 DEF Current, Items

\* One write, by the number of the cell.
LEMMA WriteCell ==
    ASSUME NEW C, grid \in [Cells -> C], NEW b \in Buffers(C), NEW i \in Cells, NEW c \in C
    PROVE  LET w == push_to_queue(b, c, i % Cols, i \div Cols)
           IN  /\ w \in Buffers(C)
               /\ \A j \in Cells : Current(w, j) = IF j = i THEN c ELSE Current(b, j)
<1> DEFINE x == i % Cols
           y == i \div Cols
           w == push_to_queue(b, c, x, y)
<1>1. x \in Nat /\ y \in Nat /\ x < Cols /\ y < Rows /\ i = y * Cols + x
  <2>1. x \in 0 .. Cols - 1 /\ y \in 0 .. Rows - 1 /\ i = y * Cols + x
    BY CellFacts
  <2> HIDE DEF x, y
  <2> QED
    BY <2>1, Sizes
<1> HIDE DEF x, y
<1>2. /\ BufferOK(w, C)
      /\ \A j \in Cells : Current(w, j) =
           IF x < Cols /\ y < Rows /\ j = y * Cols + x THEN c ELSE Current(b, j)
  <2>1. BufferOK(b, C)
    BY DEF Buffers
  <2> QED
    BY <1>1, <2>1, WriteIsVisibleAtOnce
<1> QED
  BY <1>1, <1>2 DEF Buffers, BufferOK, x, y

\* A copy that writes to no cell it has yet to read moves the cells d on.
Orderly(C, b, n, from, d) ==
    /\ grid \in [Cells -> C] /\ b \in Buffers(C)
    /\ n \in Nat /\ d \in Int /\ from \in [1 .. n -> Cells]
    /\ \A k \in 1 .. n : from[k] + d \in Cells
    /\ \A j, k \in 1 .. n : j < k => from[k] # from[j] + d

Moved(w, b, n, from, d) ==
    \A i \in Cells : Current(w, i) =
       IF \E k \in 1 .. n : i = from[k] + d THEN Current(b, i - d) ELSE Current(b, i)

\* The buffers between the writes of a copy.
CopyRun(st, C, b, n, from, d) ==
    /\ st \in [0 .. n -> Buffers(C)]
    /\ st[0] = b /\ CopyCells(b, from, d) = st[n]
    /\ \A k \in 1 .. n :
          st[k] = push_to_queue(st[k-1], Current(st[k-1], from[k]),
                                (from[k] + d) % Cols, (from[k] + d) \div Cols)

\* The fold of CopyCells has a run of states, each moving one cell more.
LEMMA CopyStates ==
    ASSUME NEW C, NEW b, NEW n, NEW from, NEW d, Orderly(C, b, n, from, d)
    PROVE  \E st : CopyRun(st, C, b, n, from, d)
<1>z. /\ grid \in [Cells -> C] /\ b \in Buffers(C)
      /\ n \in Nat /\ d \in Int /\ from \in [1 .. n -> Cells]
      /\ \A k \in 1 .. n : from[k] + d \in Cells
  BY DEF Orderly
<1> USE <1>z
<1> DEFINE B == Buffers(C)
           op(v, i) == push_to_queue(v, Current(v, i), (i + d) % Cols, (i + d) \div Cols)
           F == [vk \in B \X (1 .. n) |-> op(vk[1], from[vk[2]])]
           Rec(h) == h = [s \in SUBSET (1 .. n) |->
                              IF s = {} THEN b ELSE op(h[s \ {Max(s)}], from[Max(s)])]
           h == CHOOSE h : Rec(h)
           st == [k \in 0 .. n |-> h[1 .. k]]
<1>0. DOMAIN from = 1 .. n
  OBVIOUS
<1>1. CopyCells(b, from, d) = h[1 .. n]
  BY <1>0 DEF CopyCells, FoldLeft, MapThenFoldSet
<1>2. \A v \in B, k \in 1 .. n : op(v, from[k]) \in B
  <2> SUFFICES ASSUME NEW v \in B, NEW k \in 1 .. n PROVE op(v, from[k]) \in B
    OBVIOUS
  <2>1. from[k] \in Cells /\ from[k] + d \in Cells
    OBVIOUS
  <2>2. Current(v, from[k]) \in C
    BY <2>1, CurrentIsCharacter
  <2> QED
    BY <2>1, <2>2, WriteCell
<1> HIDE DEF op, B
<1>3. F \in [B \X (1 .. n) -> B] /\ \A v \in B, k \in 1 .. n : F[v, k] = op(v, from[k])
  BY <1>2
<1>4. \E g : Rec(g)
  <2> HIDE DEF F
  <2>0. \E g : IsFold(g, B, n, F, b)
    <3>1. b \in B /\ F \in [B \X (1 .. n) -> B]
      BY <1>3 DEF B
    <3> QED
      BY <3>1, FoldExists
  <2>1. PICK g \in [SUBSET (1 .. n) -> B] : \A s \in SUBSET (1 .. n) :
              g[s] = IF s = {} THEN b ELSE F[g[s \ {Max(s)}], Max(s)]
    BY <2>0 DEF IsFold
  <2>2. \A s \in SUBSET (1 .. n) : s # {} => Max(s) \in 1 .. n /\ s \ {Max(s)} \in SUBSET (1 .. n)
    BY MaxIsMember
  <2>3. \A s \in SUBSET (1 .. n) : g[s] = IF s = {} THEN b ELSE op(g[s \ {Max(s)}], from[Max(s)])
    BY <1>3, <2>1, <2>2
  <2> QED
    BY <2>1, <2>3
<1>5. h = [s \in SUBSET (1 .. n) |-> IF s = {} THEN b ELSE op(h[s \ {Max(s)}], from[Max(s)])]
  BY <1>4
<1> HIDE DEF h
<1>6. h[1 .. 0] = b
  <2>1. 1 .. 0 = {}
    OBVIOUS
  <2> QED
    BY <1>5, <2>1
<1>7. ASSUME NEW k \in 1 .. n PROVE h[1 .. k] = op(h[1 .. k - 1], from[k])
  <2>1. 1 .. k \in SUBSET (1 .. n) /\ 1 .. k # {} /\ Max(1 .. k) = k /\ (1 .. k) \ {k} = 1 .. k - 1
    <3>1. k \in Nat /\ k # 0 /\ k \in 1 .. k /\ \A j \in 1 .. k : j \in 1 .. n
      OBVIOUS
    <3> QED
      BY <3>1, LastOfInitial
  <2> QED
    BY <1>5, <2>1
<1>8. st[0] = b /\ st[n] = h[1 .. n] /\ \A k \in 1 .. n : st[k] = op(st[k-1], from[k])
  BY <1>6, <1>7
<1>9. \A k \in 0 .. n : st[k] \in B
  <2> DEFINE P == {k \in 0 .. n : st[k] \in B}
  <2>1. 0 \in P
    BY <1>8 DEF B
  <2>2. \A k \in 0 .. n - 1 : k \in P => k + 1 \in P
    <3> SUFFICES ASSUME NEW k \in 0 .. n - 1, st[k] \in B PROVE k + 1 \in 0 .. n /\ st[k + 1] \in B
      OBVIOUS
    <3>1. k + 1 \in 1 .. n /\ (k + 1) - 1 = k
      OBVIOUS
    <3> QED
      <4>1. st[k + 1] = op(st[(k + 1) - 1], from[k + 1])
        BY <1>8, <3>1
      <4> HIDE DEF st
      <4>2. st[k + 1] = op(st[k], from[k + 1])
        BY <3>1, <4>1
      <4> QED
        BY <1>2, <3>1, <4>2
  <2> HIDE DEF st
  <2>3. \A k \in 0 .. n : k \in P
    <3> HIDE DEF P
    <3> QED
      BY <2>1, <2>2, UpTo
  <2> QED
    BY <2>3
<1>10. st \in [0 .. n -> B]
  BY <1>9
<1> HIDE DEF st
<1> QED
  BY <1>1, <1>8, <1>10 DEF B, op, CopyRun


\* CopyCells moves every cell of an orderly copy, and reads each before it is written.
LEMMA Copied ==
    ASSUME NEW C, NEW b, NEW n, NEW from, NEW d, Orderly(C, b, n, from, d)
    PROVE  CopyCells(b, from, d) \in Buffers(C) /\ Moved(CopyCells(b, from, d), b, n, from, d)
<1>0. /\ grid \in [Cells -> C] /\ b \in Buffers(C)
      /\ n \in Nat /\ d \in Int /\ from \in [1 .. n -> Cells]
      /\ \A k \in 1 .. n : from[k] + d \in Cells
      /\ \A j, k \in 1 .. n : j < k => from[k] # from[j] + d
  BY DEF Orderly
<1> USE <1>0
<1>1. PICK st \in [0 .. n -> Buffers(C)] :
              /\ st[0] = b /\ CopyCells(b, from, d) = st[n]
              /\ \A k \in 1 .. n :
                    st[k] = push_to_queue(st[k-1], Current(st[k-1], from[k]),
                                          (from[k] + d) % Cols, (from[k] + d) \div Cols)
  <2>1. \E st : CopyRun(st, C, b, n, from, d)
    BY CopyStates
  <2> QED
    BY <2>1 DEF CopyRun
<1> DEFINE P == {k \in 0 .. n : Moved(st[k], b, k, from, d)}
<1>2. 0 \in P
  BY <1>1 DEF Moved
<1>3. ASSUME NEW k \in 0 .. n - 1, k \in P PROVE k + 1 \in P
  <2> DEFINE l == k + 1
             i == from[l] + d
             c == Current(st[k], from[l])
  <2>1. l \in 1 .. n /\ l - 1 = k /\ k \in 0 .. n /\ l \in 0 .. n /\ from[l] \in Cells /\ i \in Cells
    OBVIOUS
  <2>2. st[k] \in Buffers(C) /\ st[l] = push_to_queue(st[k], c, i % Cols, i \div Cols)
    BY <1>1, <2>1
  <2>3. c \in C
    BY <2>1, <2>2, CurrentIsCharacter
  <2>4. \A j \in Cells : Current(st[l], j) = IF j = i THEN c ELSE Current(st[k], j)
    BY <2>1, <2>2, <2>3, WriteCell
  <2>5. Moved(st[k], b, k, from, d)
    BY <1>3
  <2>6. ~ \E j \in 1 .. k : from[l] = from[j] + d
    BY <2>1
  <2>7. c = Current(b, from[l])
    BY <2>1, <2>5, <2>6 DEF Moved
  <2>8. i - d = from[l]
    BY <2>1 DEF Cells
  <2>9. \A j \in 1 .. l : j \in 1 .. k \/ j = l
    BY <2>1
  <2>10. \A j \in 1 .. k : j \in 1 .. l
    BY <2>1
  <2> HIDE DEF c
  <2>11. ASSUME NEW e \in Cells
         PROVE  Current(st[l], e) =
                  IF \E j \in 1 .. l : e = from[j] + d THEN Current(b, e - d) ELSE Current(b, e)
    <3>1. CASE e = i
      <4>1. \E j \in 1 .. l : e = from[j] + d
        BY <2>1, <3>1
      <4> QED
        BY <2>4, <2>7, <2>8, <3>1, <4>1
    <3>2. CASE e # i
      <4>1. (\E j \in 1 .. l : e = from[j] + d) <=> \E j \in 1 .. k : e = from[j] + d
        BY <2>1, <2>9, <2>10, <3>2
      <4> QED
        BY <2>4, <2>5, <3>2, <4>1 DEF Moved
    <3> QED
      BY <3>1, <3>2
  <2> QED
    BY <2>1, <2>11 DEF Moved
<1>4. n \in P
  <2> HIDE DEF P
  <2>1. \A k \in 0 .. n - 1 : k \in P => k + 1 \in P
    BY <1>3
  <2>2. \A k \in 0 .. n : k \in P
    BY <1>2, <2>1, UpTo
  <2> QED
    BY <2>2
<1>5. st[n] \in Buffers(C)
  OBVIOUS
<1> QED
  BY <1>1, <1>4, <1>5

----
\* Rows filled with blanks.

\* The buffers between the writes of a row.
LEMMA RowStates ==
    ASSUME NEW C, grid \in [Cells -> C], NEW b \in Buffers(C), NEW y \in 0 .. Rows - 1, Empty \in C
    PROVE  \E st \in [0 .. Cols -> Buffers(C)] :
              /\ st[0] = b /\ ClearRow(b, y) = st[Cols]
              /\ \A k \in 1 .. Cols : st[k] = push_to_queue(st[k-1], Empty, k - 1, y)
<1> DEFINE n == Cols
           from == [x \in 1 .. Cols |-> x - 1]
           B == Buffers(C)
           op(v, x) == push_to_queue(v, Empty, x, y)
           F == [vk \in B \X (1 .. n) |-> op(vk[1], from[vk[2]])]
           Rec(h) == h = [s \in SUBSET (1 .. n) |->
                              IF s = {} THEN b ELSE op(h[s \ {Max(s)}], from[Max(s)])]
           h == CHOOSE h : Rec(h)
           st == [k \in 0 .. n |-> h[1 .. k]]
<1>0. DOMAIN from = 1 .. n /\ n \in Nat
  BY Sizes
<1>1. ClearRow(b, y) = h[1 .. n]
  BY <1>0 DEF ClearRow, FoldLeft, MapThenFoldSet
<1>2. \A v \in B, k \in 1 .. n : op(v, from[k]) \in B
  <2> SUFFICES ASSUME NEW v \in B, NEW k \in 1 .. n PROVE op(v, from[k]) \in B
    OBVIOUS
  <2>1. from[k] \in 0 .. Cols - 1 /\ from[k] \in Nat /\ y \in Nat
    BY Sizes
  <2>2. BufferOK(v, C)
    BY DEF B, Buffers
  <2>3. BufferOK(op(v, from[k]), C)
    BY <2>1, <2>2, WriteIsVisibleAtOnce
  <2> QED
    BY <2>3 DEF B, Buffers, BufferOK
<1> HIDE DEF op, B
<1> HIDE DEF n, from
<1> USE <1>0
<1>3. F \in [B \X (1 .. n) -> B] /\ \A v \in B, k \in 1 .. n : F[v, k] = op(v, from[k])
  BY <1>2
<1>4. \E g : Rec(g)
  <2> HIDE DEF F
  <2>0. \E g : IsFold(g, B, n, F, b)
    <3>1. b \in B /\ F \in [B \X (1 .. n) -> B]
      BY <1>3 DEF B
    <3> QED
      BY <3>1, FoldExists
  <2>1. PICK g \in [SUBSET (1 .. n) -> B] : \A s \in SUBSET (1 .. n) :
              g[s] = IF s = {} THEN b ELSE F[g[s \ {Max(s)}], Max(s)]
    BY <2>0 DEF IsFold
  <2>2. \A s \in SUBSET (1 .. n) : s # {} => Max(s) \in 1 .. n /\ s \ {Max(s)} \in SUBSET (1 .. n)
    BY MaxIsMember
  <2>3. \A s \in SUBSET (1 .. n) : g[s] = IF s = {} THEN b ELSE op(g[s \ {Max(s)}], from[Max(s)])
    BY <1>3, <2>1, <2>2
  <2> QED
    BY <2>1, <2>3
<1>5. h = [s \in SUBSET (1 .. n) |-> IF s = {} THEN b ELSE op(h[s \ {Max(s)}], from[Max(s)])]
  BY <1>4
<1> HIDE DEF h
<1>6. h[1 .. 0] = b
  <2>1. 1 .. 0 = {}
    OBVIOUS
  <2> QED
    BY <1>5, <2>1
<1>7. ASSUME NEW k \in 1 .. n PROVE h[1 .. k] = op(h[1 .. k - 1], from[k])
  <2>1. 1 .. k \in SUBSET (1 .. n) /\ 1 .. k # {} /\ Max(1 .. k) = k /\ (1 .. k) \ {k} = 1 .. k - 1
    <3>1. k \in Nat /\ k # 0 /\ k \in 1 .. k /\ \A j \in 1 .. k : j \in 1 .. n
      OBVIOUS
    <3> QED
      BY <3>1, LastOfInitial
  <2> QED
    BY <1>5, <2>1
<1>8. st[0] = b /\ st[n] = h[1 .. n] /\ \A k \in 1 .. n : st[k] = op(st[k-1], from[k])
  BY <1>6, <1>7
<1>9. \A k \in 0 .. n : st[k] \in B
  <2> DEFINE P == {k \in 0 .. n : st[k] \in B}
  <2>1. 0 \in P
    BY <1>8 DEF B
  <2>2. \A k \in 0 .. n - 1 : k \in P => k + 1 \in P
    <3> SUFFICES ASSUME NEW k \in 0 .. n - 1, st[k] \in B PROVE k + 1 \in 0 .. n /\ st[k + 1] \in B
      OBVIOUS
    <3>1. k + 1 \in 1 .. n /\ (k + 1) - 1 = k
      OBVIOUS
    <3> QED
      <4>1. st[k + 1] = op(st[(k + 1) - 1], from[k + 1])
        BY <1>8, <3>1
      <4> HIDE DEF st
      <4>2. st[k + 1] = op(st[k], from[k + 1])
        BY <3>1, <4>1
      <4> QED
        BY <1>2, <3>1, <4>2
  <2> HIDE DEF st
  <2>3. \A k \in 0 .. n : k \in P
    <3> HIDE DEF P
    <3> QED
      BY <2>1, <2>2, UpTo
  <2> QED
    BY <2>3
<1>10. st \in [0 .. n -> B]
  BY <1>9
<1> HIDE DEF st
<1>11. \A k \in 1 .. n : from[k] = k - 1
  BY DEF n, from
<1> QED
  BY <1>1, <1>8, <1>10, <1>11 DEF B, op, n

\* ClearRow blanks its row and leaves the others.
LEMMA RowCleared ==
    ASSUME NEW C, grid \in [Cells -> C], NEW b \in Buffers(C), NEW y \in 0 .. Rows - 1, Empty \in C
    PROVE  LET w == ClearRow(b, y)
           IN  /\ w \in Buffers(C)
               /\ \A i \in Cells :
                     Current(w, i) = IF i \div Cols = y THEN Empty ELSE Current(b, i)
<1> DEFINE w == ClearRow(b, y)
           Done(v, k) == \A i \in Cells : Current(v, i) =
                            IF i \div Cols = y /\ i % Cols < k THEN Empty ELSE Current(b, i)
<1>0. Cols \in Nat /\ y \in Nat /\ y < Rows
  BY Sizes
<1>1. PICK st \in [0 .. Cols -> Buffers(C)] :
              /\ st[0] = b /\ ClearRow(b, y) = st[Cols]
              /\ \A k \in 1 .. Cols : st[k] = push_to_queue(st[k-1], Empty, k - 1, y)
  BY RowStates
<1> DEFINE P == {k \in 0 .. Cols : Done(st[k], k)}
<1>2. 0 \in P
  <2>1. \A i \in Cells : ~(i % Cols < 0)
    BY CellFacts, <1>0
  <2>2. Done(b, 0)
    BY <2>1
  <2> HIDE DEF Done
  <2> QED
    BY <1>0, <1>1, <2>2
<1>3. ASSUME NEW k \in 0 .. Cols - 1, k \in P PROVE k + 1 \in P
  <2> DEFINE l == k + 1
  <2>1. l \in 1 .. Cols /\ l - 1 = k /\ k \in 0 .. Cols /\ l \in 0 .. Cols /\ k \in Nat /\ k < Cols
    BY <1>0
  <2>2. st[k] \in Buffers(C) /\ st[l] = push_to_queue(st[k], Empty, k, y) /\ Done(st[k], k)
    <3>1. st[l] = push_to_queue(st[l - 1], Empty, l - 1, y)
      BY <1>1, <2>1
    <3> HIDE DEF l, Done
    <3>2. st[l] = push_to_queue(st[k], Empty, k, y)
      BY <2>1, <3>1
    <3> QED
      BY <1>3, <2>1, <3>2
  <2>3. BufferOK(st[k], C)
    BY <2>2 DEF Buffers
  <2>4. \A i \in Cells : Current(st[l], i) =
           IF k < Cols /\ y < Rows /\ i = y * Cols + k THEN Empty ELSE Current(st[k], i)
    BY <1>0, <2>1, <2>2, <2>3, WriteIsVisibleAtOnce
  <2>5. ASSUME NEW i \in Cells PROVE i = y * Cols + k <=> i \div Cols = y /\ i % Cols = k
    <3>1. i = y * Cols + k => i \div Cols = y /\ i % Cols = k
      BY <1>0, <2>1, DivMod, CellFacts
    <3>2. i = (i \div Cols) * Cols + (i % Cols)
      BY CellFacts
    <3> QED
      BY <3>1, <3>2
  <2>6. ASSUME NEW i \in Cells
        PROVE  Current(st[l], i) = IF i \div Cols = y /\ i % Cols < l THEN Empty ELSE Current(b, i)
    <3>1. i % Cols \in Nat /\ (i % Cols < l <=> i % Cols < k \/ i % Cols = k)
      <4>1. i % Cols \in 0 .. Cols - 1
        BY CellFacts
      <4> DEFINE x == i % Cols
      <4> HIDE DEF x
      <4>2. x \in Nat /\ (x < l <=> x < k \/ x = k)
        BY <1>0, <2>1, <4>1 DEF x
      <4> QED
        BY <4>2 DEF x
    <3>2. Current(st[k], i) = IF i \div Cols = y /\ i % Cols < k THEN Empty ELSE Current(b, i)
      BY <2>2
    <3>3. Current(st[l], i) = IF i = y * Cols + k THEN Empty ELSE Current(st[k], i)
      BY <1>0, <2>1, <2>4
    <3> QED
      BY <2>5, <3>1, <3>2, <3>3
  <2> QED
    BY <2>1, <2>6
<1>4. Cols \in P
  <2> HIDE DEF P
  <2>1. \A k \in 0 .. Cols - 1 : k \in P => k + 1 \in P
    BY <1>3
  <2>2. \A k \in 0 .. Cols : k \in P
    BY <1>0, <1>2, <2>1, UpTo
  <2> QED
    BY <1>0, <2>2
<1>5. \A i \in Cells : i % Cols < Cols
  <2> SUFFICES ASSUME NEW i \in Cells PROVE i % Cols < Cols
    OBVIOUS
  <2>1. i % Cols \in 0 .. Cols - 1
    BY CellFacts
  <2> DEFINE x == i % Cols
  <2> HIDE DEF x
  <2>2. x < Cols
    BY <1>0, <2>1 DEF x
  <2> QED
    BY <2>2 DEF x
<1>6. \A i \in Cells : Current(w, i) = IF i \div Cols = y THEN Empty ELSE Current(b, i)
  BY <1>1, <1>4, <1>5
<1>7. w \in Buffers(C)
  BY <1>0, <1>1
<1> QED
  BY <1>6, <1>7

ClearAll(b) == FoldLeft(LAMBDA a, y : ClearRow(a, y), b, [y \in 1 .. Rows |-> y - 1])

\* The buffers between the rows of clear.
LEMMA ClearStates ==
    ASSUME NEW C, grid \in [Cells -> C], NEW b \in Buffers(C), Empty \in C
    PROVE  \E st \in [0 .. Rows -> Buffers(C)] :
              /\ st[0] = b /\ ClearAll(b) = st[Rows]
              /\ \A k \in 1 .. Rows : st[k] = ClearRow(st[k-1], k - 1)
<1> DEFINE n == Rows
           from == [y \in 1 .. Rows |-> y - 1]
           B == Buffers(C)
           op(v, y) == ClearRow(v, y)
           F == [vk \in B \X (1 .. n) |-> op(vk[1], from[vk[2]])]
           Rec(h) == h = [s \in SUBSET (1 .. n) |->
                              IF s = {} THEN b ELSE op(h[s \ {Max(s)}], from[Max(s)])]
           h == CHOOSE h : Rec(h)
           st == [k \in 0 .. n |-> h[1 .. k]]
<1>0. DOMAIN from = 1 .. n /\ n \in Nat
  BY Sizes
<1>1. ClearAll(b) = h[1 .. n]
  BY <1>0 DEF ClearAll, FoldLeft, MapThenFoldSet
<1>2. \A v \in B, k \in 1 .. n : op(v, from[k]) \in B
  <2> SUFFICES ASSUME NEW v \in B, NEW k \in 1 .. n PROVE op(v, from[k]) \in B
    OBVIOUS
  <2>1. from[k] \in 0 .. Rows - 1
    BY Sizes
  <2> QED
    BY <2>1, RowCleared DEF B
<1> HIDE DEF op, B
<1> HIDE DEF n, from
<1> USE <1>0
<1>3. F \in [B \X (1 .. n) -> B] /\ \A v \in B, k \in 1 .. n : F[v, k] = op(v, from[k])
  BY <1>2
<1>4. \E g : Rec(g)
  <2> HIDE DEF F
  <2>0. \E g : IsFold(g, B, n, F, b)
    <3>1. b \in B /\ F \in [B \X (1 .. n) -> B]
      BY <1>3 DEF B
    <3> QED
      BY <3>1, FoldExists
  <2>1. PICK g \in [SUBSET (1 .. n) -> B] : \A s \in SUBSET (1 .. n) :
              g[s] = IF s = {} THEN b ELSE F[g[s \ {Max(s)}], Max(s)]
    BY <2>0 DEF IsFold
  <2>2. \A s \in SUBSET (1 .. n) : s # {} => Max(s) \in 1 .. n /\ s \ {Max(s)} \in SUBSET (1 .. n)
    BY MaxIsMember
  <2>3. \A s \in SUBSET (1 .. n) : g[s] = IF s = {} THEN b ELSE op(g[s \ {Max(s)}], from[Max(s)])
    BY <1>3, <2>1, <2>2
  <2> QED
    BY <2>1, <2>3
<1>5. h = [s \in SUBSET (1 .. n) |-> IF s = {} THEN b ELSE op(h[s \ {Max(s)}], from[Max(s)])]
  BY <1>4
<1> HIDE DEF h
<1>6. h[1 .. 0] = b
  <2>1. 1 .. 0 = {}
    OBVIOUS
  <2> QED
    BY <1>5, <2>1
<1>7. ASSUME NEW k \in 1 .. n PROVE h[1 .. k] = op(h[1 .. k - 1], from[k])
  <2>1. 1 .. k \in SUBSET (1 .. n) /\ 1 .. k # {} /\ Max(1 .. k) = k /\ (1 .. k) \ {k} = 1 .. k - 1
    <3>1. k \in Nat /\ k # 0 /\ k \in 1 .. k /\ \A j \in 1 .. k : j \in 1 .. n
      OBVIOUS
    <3> QED
      BY <3>1, LastOfInitial
  <2> QED
    BY <1>5, <2>1
<1>8. st[0] = b /\ st[n] = h[1 .. n] /\ \A k \in 1 .. n : st[k] = op(st[k-1], from[k])
  BY <1>6, <1>7
<1>9. \A k \in 0 .. n : st[k] \in B
  <2> DEFINE P == {k \in 0 .. n : st[k] \in B}
  <2>1. 0 \in P
    BY <1>8 DEF B
  <2>2. \A k \in 0 .. n - 1 : k \in P => k + 1 \in P
    <3> SUFFICES ASSUME NEW k \in 0 .. n - 1, st[k] \in B PROVE k + 1 \in 0 .. n /\ st[k + 1] \in B
      OBVIOUS
    <3>1. k + 1 \in 1 .. n /\ (k + 1) - 1 = k
      OBVIOUS
    <3> QED
      <4>1. st[k + 1] = op(st[(k + 1) - 1], from[k + 1])
        BY <1>8, <3>1
      <4> HIDE DEF st
      <4>2. st[k + 1] = op(st[k], from[k + 1])
        BY <3>1, <4>1
      <4> QED
        BY <1>2, <3>1, <4>2
  <2> HIDE DEF st
  <2>3. \A k \in 0 .. n : k \in P
    <3> HIDE DEF P
    <3> QED
      BY <2>1, <2>2, UpTo
  <2> QED
    BY <2>3
<1>10. st \in [0 .. n -> B]
  BY <1>9
<1> HIDE DEF st
<1>11. \A k \in 1 .. n : from[k] = k - 1
  BY DEF n, from
<1> QED
  BY <1>1, <1>8, <1>10, <1>11 DEF B, op, n

\* The folds of clear blank every cell.
LEMMA AllCleared ==
    ASSUME NEW C, grid \in [Cells -> C], NEW b \in Buffers(C), Empty \in C
    PROVE  /\ ClearAll(b) \in Buffers(C)
           /\ \A i \in Cells : Current(ClearAll(b), i) = Empty
<1> DEFINE Done(v, k) == \A i \in Cells : i \div Cols < k => Current(v, i) = Empty
<1>0. Rows \in Nat
  BY Sizes
<1>1. PICK st \in [0 .. Rows -> Buffers(C)] :
              /\ st[0] = b /\ ClearAll(b) = st[Rows]
              /\ \A k \in 1 .. Rows : st[k] = ClearRow(st[k-1], k - 1)
  BY ClearStates
<1> DEFINE P == {k \in 0 .. Rows : Done(st[k], k)}
<1>9. \A i \in Cells : i \div Cols \in Nat /\ i \div Cols < Rows
  <2> SUFFICES ASSUME NEW i \in Cells PROVE i \div Cols \in Nat /\ i \div Cols < Rows
    OBVIOUS
  <2> DEFINE q == i \div Cols
  <2>1. q \in 0 .. Rows - 1
    BY CellFacts
  <2> HIDE DEF q
  <2>2. q \in Nat /\ q < Rows
    BY <1>0, <2>1
  <2> QED
    BY <2>2 DEF q
<1>2. 0 \in P
  <2>1. \A i \in Cells : ~(i \div Cols < 0)
    BY <1>9
  <2>2. Done(st[0], 0)
    BY <2>1
  <2> HIDE DEF Done
  <2> QED
    BY <1>0, <2>2
<1>3. ASSUME NEW k \in 0 .. Rows - 1, k \in P PROVE k + 1 \in P
  <2> DEFINE l == k + 1
  <2>1. l \in 1 .. Rows /\ l - 1 = k /\ k \in 0 .. Rows /\ l \in 0 .. Rows /\ k \in Nat
    BY <1>0
  <2>2. st[k] \in Buffers(C) /\ st[l] = ClearRow(st[k], k) /\ Done(st[k], k)
    <3>1. st[l] = ClearRow(st[l - 1], l - 1)
      BY <1>1, <2>1
    <3> HIDE DEF l, Done
    <3>2. st[l] = ClearRow(st[k], k)
      BY <2>1, <3>1
    <3> QED
      BY <1>3, <2>1, <3>2
  <2>3. \A i \in Cells : Current(st[l], i) = IF i \div Cols = k THEN Empty ELSE Current(st[k], i)
    BY <2>2, RowCleared
  <2>4. \A i \in Cells : i \div Cols < l => i \div Cols = k \/ i \div Cols < k
    <3> SUFFICES ASSUME NEW i \in Cells PROVE i \div Cols < l => i \div Cols = k \/ i \div Cols < k
      OBVIOUS
    <3> DEFINE q == i \div Cols
    <3>1. q \in Nat
      BY <1>9
    <3> HIDE DEF q
    <3>2. q < l => q = k \/ q < k
      BY <2>1, <3>1
    <3> QED
      BY <3>2 DEF q
  <2>5. Done(st[l], l)
    BY <2>2, <2>3, <2>4
  <2> QED
    BY <2>1, <2>5
<1>4. Rows \in P
  <2> HIDE DEF P
  <2>1. \A k \in 0 .. Rows - 1 : k \in P => k + 1 \in P
    BY <1>3
  <2>2. \A k \in 0 .. Rows : k \in P
    BY <1>0, <1>2, <2>1, UpTo
  <2> QED
    BY <1>0, <2>2
<1>5. st[Rows] \in Buffers(C)
  BY <1>0
<1> QED
  BY <1>1, <1>4, <1>5, <1>9

----
\* The region moves up or down by one row.

\* Multiples of Cols, as far as the scrolling needs them.
LEMMA Multiples ==
    ASSUME NEW t \in Nat, NEW e \in Nat, t <= e, e <= Rows
    PROVE  /\ t * Cols \in Nat /\ e * Cols \in Nat /\ (e - t) * Cols \in Nat
           /\ t * Cols + (e - t) * Cols = e * Cols
           /\ (t + 1) * Cols = t * Cols + Cols
           /\ e * Cols <= Rows * Cols
<1>1. Cols \in Nat /\ Rows \in Nat /\ e - t \in Nat
  BY Sizes
<1>2. e * Cols <= Rows * Cols
  BY <1>1, ProductIsMonotone
<1>3. e * Cols = (t + (e - t)) * Cols
  OBVIOUS
<1>4. (t + (e - t)) * Cols = t * Cols + (e - t) * Cols
  BY <1>1
<1> QED
  BY <1>1, <1>2, <1>3, <1>4

\* A scroll moves the rows of the region up by one.
LEMMA RegionUp ==
    ASSUME NEW C, grid \in [Cells -> C], NEW b \in Buffers(C), Empty \in C,
           scroll_top_margin \in 0 .. Rows - 2,
           scroll_bottom_margin \in scroll_top_margin + 2 .. Rows
    PROVE  LET w == flanterm_fb_scroll(b)
           IN  /\ w \in Buffers(C)
               /\ \A i \in Cells : Current(w, i) =
                     IF i \div Cols = scroll_bottom_margin - 1 THEN Empty
                     ELSE IF i \div Cols \in scroll_top_margin .. scroll_bottom_margin - 1
                          THEN Current(b, i + Cols) ELSE Current(b, i)
<1> DEFINE t == scroll_top_margin
           e == scroll_bottom_margin - 1
           n == (e - t) * Cols
           from == Ascending((t + 1) * Cols, n)
           d == -Cols
           v == CopyCells(b, from, d)
           w == ClearRow(v, e)
<1>0. /\ t \in Nat /\ e \in Nat /\ t < e /\ e < Rows /\ e \in 0 .. Rows - 1 /\ Rows \in Nat
      /\ scroll_bottom_margin - scroll_top_margin - 1 = e - t
      /\ Cols \in Nat /\ Cols # 0
  BY Sizes
<1> DEFINE a == t * Cols
           z == Rows * Cols
<1>1. /\ a \in Nat /\ n \in Nat /\ z \in Nat /\ e * Cols = a + n /\ (t + 1) * Cols = a + Cols
      /\ a + n + Cols <= z
  <2>1. a \in Nat /\ e * Cols \in Nat /\ n \in Nat /\ a + n = e * Cols /\ (t + 1) * Cols = a + Cols
    BY <1>0, Multiples
  <2>2. (e + 1) * Cols = e * Cols + Cols
    BY <1>0, Multiples
  <2>3. e + 1 <= Rows /\ e + 1 \in Nat
    BY <1>0
  <2>4. (e + 1) * Cols <= z
    BY <1>0, <2>3, ProductIsMonotone
  <2> QED
    BY <2>1, <2>2, <2>4, Sizes
<1>2. flanterm_fb_scroll(b) = w
  BY <1>0 DEF flanterm_fb_scroll
<1>3. from = [k \in 1 .. n |-> a + Cols + k - 1]
  BY <1>1 DEF Ascending
<1> HIDE DEF a, n, z, from, v, t, e
<1>4. /\ from \in [1 .. n -> Cells] /\ d \in Int
      /\ \A k \in 1 .. n : from[k] = a + Cols + k - 1 /\ from[k] + d = a + k - 1 /\ from[k] + d \in Cells
  <2>1. Cells = 0 .. z - 1
    BY DEF Cells, z
  <2>2. ASSUME NEW k \in 1 .. n
        PROVE  /\ a + Cols + k - 1 \in 0 .. z - 1 /\ a + k - 1 \in 0 .. z - 1
               /\ (a + Cols + k - 1) + d = a + k - 1
    BY <1>0, <1>1
  <2> QED
    BY <1>0, <1>3, <2>1, <2>2
<1>5. \A j, k \in 1 .. n : j < k => from[k] # from[j] + d
  <2> SUFFICES ASSUME NEW j \in 1 .. n, NEW k \in 1 .. n, j < k PROVE from[k] # from[j] + d
    OBVIOUS
  <2>1. a + Cols + k - 1 # a + j - 1
    BY <1>0, <1>1
  <2> QED
    BY <1>4, <2>1
<1> HIDE DEF d
<1>6. /\ v \in Buffers(C)
      /\ \A i \in Cells : Current(v, i) =
           IF \E k \in 1 .. n : i = from[k] + d THEN Current(b, i - d) ELSE Current(b, i)
  <2>1. Orderly(C, b, n, from, d)
    BY <1>1, <1>4, <1>5 DEF Orderly
  <2> QED
    BY <2>1, Copied DEF v, Moved
<1>7. /\ w \in Buffers(C)
      /\ \A i \in Cells : Current(w, i) = IF i \div Cols = e THEN Empty ELSE Current(v, i)
  BY <1>0, <1>6, RowCleared
<1>8. ASSUME NEW i \in Cells
      PROVE  /\ (\E k \in 1 .. n : i = from[k] + d) <=> i \div Cols \in t .. e - 1
             /\ i - d = i + Cols
             /\ i \div Cols \in t .. e <=> i \div Cols \in t .. e - 1 \/ i \div Cols = e
  <2>1. i \in Nat /\ i \div Cols \in Nat
    BY CellFacts, <1>0
  <2>2. (t <= i \div Cols <=> a <= i) /\ (i \div Cols < e <=> i < e * Cols)
    BY <1>0, <2>1, RowBounds DEF a
  <2>3. (\E k \in 1 .. n : i = from[k] + d) <=> a <= i /\ i < a + n
    <3>1. ASSUME NEW k \in 1 .. n, i = from[k] + d PROVE a <= i /\ i < a + n
      <4>1. i = a + k - 1
        BY <1>4, <3>1
      <4> QED
        BY <1>1, <4>1
    <3>2. ASSUME a <= i, i < a + n PROVE \E k \in 1 .. n : i = from[k] + d
      <4>1. i - a + 1 \in 1 .. n /\ i = a + (i - a + 1) - 1
        BY <1>1, <2>1, <3>2
      <4> QED
        BY <1>4, <4>1
    <3> QED
      BY <3>1, <3>2
  <2> DEFINE q == i \div Cols
  <2>4. q \in Nat
    BY <2>1
  <2>5. i - d = i + Cols
    BY <1>0, <2>1 DEF d
  <2>6. (t <= q <=> a <= i) /\ (q < e <=> i < a + n)
    BY <1>1, <2>2
  <2> HIDE DEF q
  <2>7. /\ q \in t .. e - 1 <=> t <= q /\ q < e
        /\ q \in t .. e <=> q \in t .. e - 1 \/ q = e
    BY <1>0, <2>4
  <2>8. (\E k \in 1 .. n : i = from[k] + d) <=> q \in t .. e - 1
    BY <2>3, <2>6, <2>7
  <2> QED
    BY <2>5, <2>7, <2>8 DEF q
<1>9. \A i \in Cells : Current(w, i) =
         IF i \div Cols = e THEN Empty
         ELSE IF i \div Cols \in t .. e THEN Current(b, i + Cols) ELSE Current(b, i)
  <2> SUFFICES ASSUME NEW i \in Cells
               PROVE  Current(w, i) =
                         IF i \div Cols = e THEN Empty
                         ELSE IF i \div Cols \in t .. e THEN Current(b, i + Cols) ELSE Current(b, i)
    OBVIOUS
  <2> HIDE DEF w
  <2> QED
    BY <1>6, <1>7, <1>8
<1> QED
  BY <1>2, <1>7, <1>9 DEF t, e

\* A reverse scroll moves the rows below t down by one.
LEMMA RegionDown ==
    ASSUME NEW C, grid \in [Cells -> C], NEW b \in Buffers(C), Empty \in C,
           scroll_top_margin \in 0 .. Rows - 2,
           scroll_bottom_margin \in scroll_top_margin + 2 .. Rows,
           NEW t \in 0 .. Rows - 1
    PROVE  LET w == flanterm_fb_revscroll(b, t)
           IN  /\ w \in Buffers(C)
               /\ \A i \in Cells : Current(w, i) =
                     IF i \div Cols = t THEN Empty
                     ELSE IF i \div Cols \in t + 1 .. scroll_bottom_margin - 1
                          THEN Current(b, i - Cols) ELSE Current(b, i)
<1> DEFINE e == scroll_bottom_margin - 1
           m == NoLess(e - t)
           n == m * Cols
           from == Descending(e * Cols - 1, n)
           d == Cols
           v == CopyCells(b, from, d)
           w == ClearRow(v, t)
           a == e * Cols
           z == Rows * Cols
<1>0. /\ t \in Nat /\ e \in Nat /\ e < Rows /\ Rows \in Nat /\ Cols \in Nat /\ Cols # 0
  BY Sizes
<1>a. m \in Nat /\ m <= e /\ (t <= e => m = e - t) /\ (t > e => m = 0)
  BY <1>0 DEF NoLess
<1>1. /\ a \in Nat /\ n \in Nat /\ z \in Nat /\ n <= a /\ a + Cols <= z
      /\ (e + 1) * Cols = a + Cols
      /\ t <= e => (t + 1) * Cols = a + Cols - n
      /\ t > e => n = 0
  <2> HIDE DEF m, e
  <2>1. a \in Nat /\ n \in Nat /\ z \in Nat
    BY <1>0, <1>a
  <2>2. n <= a
    BY <1>0, <1>a, ProductIsMonotone
  <2>3. (e + 1) * Cols = a + Cols
    BY <1>0
  <2>4. (e + 1) * Cols <= z
    BY <1>0, ProductIsMonotone
  <2>5. ASSUME t <= e PROVE (t + 1) * Cols = a + Cols - n
    <3>1. t * Cols + n = a /\ (t + 1) * Cols = t * Cols + Cols /\ t * Cols \in Nat
      BY <1>0, <1>a, <2>5, Multiples
    <3> QED
      BY <1>0, <2>1, <3>1
  <2>6. t > e => n = 0
    BY <1>0, <1>a
  <2> QED
    BY <1>0, <2>1, <2>2, <2>3, <2>4, <2>5, <2>6
<1>2. flanterm_fb_revscroll(b, t) = w
  BY DEF flanterm_fb_revscroll
<1> HIDE DEF a, n, z, v, e, m
<1>3. from = [k \in 1 .. n |-> a - k]
  <2>1. \A k \in 1 .. n : a - 1 - k + 1 = a - k
    BY <1>1
  <2> QED
    BY <2>1 DEF Descending, a
<1> HIDE DEF from
<1>4. /\ from \in [1 .. n -> Cells] /\ d \in Int
      /\ \A k \in 1 .. n : from[k] = a - k /\ from[k] + d = a + Cols - k /\ from[k] + d \in Cells
  <2>1. Cells = 0 .. z - 1
    BY DEF Cells, z
  <2>2. ASSUME NEW k \in 1 .. n
        PROVE  /\ a - k \in 0 .. z - 1 /\ a + Cols - k \in 0 .. z - 1
               /\ (a - k) + d = a + Cols - k
    BY <1>0, <1>1
  <2> QED
    BY <1>0, <1>3, <2>1, <2>2
<1>5. \A j, k \in 1 .. n : j < k => from[k] # from[j] + d
  <2> SUFFICES ASSUME NEW j \in 1 .. n, NEW k \in 1 .. n, j < k PROVE from[k] # from[j] + d
    OBVIOUS
  <2>1. a - k # a + Cols - j
    BY <1>0, <1>1
  <2> QED
    BY <1>4, <2>1
<1> HIDE DEF d
<1>6. /\ v \in Buffers(C)
      /\ \A i \in Cells : Current(v, i) =
           IF \E k \in 1 .. n : i = from[k] + d THEN Current(b, i - d) ELSE Current(b, i)
  <2>1. Orderly(C, b, n, from, d)
    BY <1>1, <1>4, <1>5 DEF Orderly
  <2> QED
    BY <2>1, Copied DEF v, Moved
<1>7. /\ w \in Buffers(C)
      /\ \A i \in Cells : Current(w, i) = IF i \div Cols = t THEN Empty ELSE Current(v, i)
  BY <1>0, <1>6, RowCleared
<1>8. ASSUME NEW i \in Cells
      PROVE  /\ (\E k \in 1 .. n : i = from[k] + d) <=> i \div Cols \in t + 1 .. e
             /\ i - d = i - Cols
  <2>1. i \in Nat /\ i \div Cols \in Nat
    BY CellFacts, <1>0
  <2>2. /\ t + 1 <= i \div Cols <=> (t + 1) * Cols <= i
        /\ i \div Cols < e + 1 <=> i < (e + 1) * Cols
    <3>1. t + 1 \in Nat /\ e + 1 \in Nat
      BY <1>0
    <3> QED
      BY <2>1, <3>1, RowBounds
  <2>3. (\E k \in 1 .. n : i = from[k] + d) <=> a + Cols - n <= i /\ i < a + Cols
    <3>1. ASSUME NEW k \in 1 .. n, i = from[k] + d PROVE a + Cols - n <= i /\ i < a + Cols
      <4>1. i = a + Cols - k
        BY <1>4, <3>1
      <4> QED
        BY <1>0, <1>1, <4>1
    <3>2. ASSUME a + Cols - n <= i, i < a + Cols PROVE \E k \in 1 .. n : i = from[k] + d
      <4>1. a + Cols - i \in 1 .. n /\ i = a + Cols - (a + Cols - i)
        BY <1>0, <1>1, <2>1, <3>2
      <4> QED
        BY <1>4, <4>1
    <3> QED
      BY <3>1, <3>2
  <2> DEFINE q == i \div Cols
  <2>4. q \in Nat
    BY <2>1
  <2>5. (t + 1 <= q <=> (t + 1) * Cols <= i) /\ (q < e + 1 <=> i < a + Cols)
    BY <1>1, <2>2
  <2> HIDE DEF q
  <2>6. q \in t + 1 .. e <=> t + 1 <= q /\ q < e + 1
    BY <1>0, <2>4
  <2>7. CASE t <= e
    BY <1>1, <2>3, <2>5, <2>6, <2>7 DEF q, d
  <2>8. CASE t > e
    <3>1. ~(\E k \in 1 .. n : i = from[k] + d) /\ ~(q \in t + 1 .. e)
      <4>1. n = 0
        BY <1>1, <2>8
      <4>2. ~(q \in t + 1 .. e)
        BY <1>0, <2>4, <2>8
      <4> QED
        BY <4>1, <4>2
    <3> QED
      BY <3>1 DEF q, d
  <2> QED
    BY <1>0, <2>7, <2>8
<1>9. \A i \in Cells : Current(w, i) =
         IF i \div Cols = t THEN Empty
         ELSE IF i \div Cols \in t + 1 .. e THEN Current(b, i - Cols) ELSE Current(b, i)
  <2> HIDE DEF w
  <2> QED
    BY <1>6, <1>7, <1>8
<1> QED
  BY <1>2, <1>7, <1>9 DEF e

----
\* The flush.

Chars == [c : Glyphs, fg : Colours, bg : Colours]
Plots == [grid : [Cells -> Chars], map : [Cells -> Nat], fb : [Cells -> Chars]]

\* A character with its colours exchanged is one.
LEMMA SwappedType ==
    ASSUME NEW c \in Chars PROVE Swapped(c) \in Chars
BY DEF Chars, Swapped

\* What plotting the cell i does.
Plotting(p, i, c) == [grid |-> [p.grid EXCEPT ![i] = c], map |-> [p.map EXCEPT ![i] = NULL],
                      fb |-> [p.fb EXCEPT ![i] = c]]

\* The flush plots an item once: the map forgets it.
LEMMA PlotItemIs ==
    ASSUME NEW p \in Plots, NEW q \in Items(Chars)
    PROVE  LET i == q.y * Cols + q.x
           IN  /\ i \in Cells
               /\ p.map[i] = NULL => PlotItem(p, q) = p
               /\ p.map[i] # NULL => PlotItem(p, q) = Plotting(p, i, q.c)
               /\ PlotItem(p, q) \in Plots
<1> DEFINE i == q.y * Cols + q.x
<1>1. q.x \in 0 .. Cols - 1 /\ q.y \in 0 .. Rows - 1 /\ q.c \in Chars
  BY DEF Items
<1>2. i \in Cells
  BY <1>1, CellNumber
<1>3. p = [grid |-> p.grid, map |-> p.map, fb |-> p.fb]
  BY DEF Plots
<1>4. p.map[i] = NULL => PlotItem(p, q) = p
  BY DEF PlotItem
<1> DEFINE r == [Plot(p, i, q.c) EXCEPT !.grid[i] = q.c, !.map[i] = NULL]
<1>5. p.map[i] # NULL => PlotItem(p, q) = r
  BY DEF PlotItem
<1> HIDE DEF i
<1>6. r = Plotting(p, i, q.c)
  <2>1. Plot(p, i, q.c) = [grid |-> p.grid, map |-> p.map, fb |-> [p.fb EXCEPT ![i] = q.c]]
    BY <1>3 DEF Plot
  <2> DEFINE u == Plot(p, i, q.c)
             g == [p.grid EXCEPT ![i] = q.c]
             f == [p.fb EXCEPT ![i] = q.c]
             m == [p.map EXCEPT ![i] = NULL]
  <2>2. u = [grid |-> p.grid, map |-> p.map, fb |-> f]
    BY <2>1
  <2>3. r = [u EXCEPT !.grid = [u.grid EXCEPT ![i] = q.c], !.map = [u.map EXCEPT ![i] = NULL]]
    OBVIOUS
  <2> HIDE DEF u, f
  <2>4. [u.grid EXCEPT ![i] = q.c] = g /\ [u.map EXCEPT ![i] = NULL] = m
    BY <2>2
  <2> HIDE DEF g, m, r
  <2>5. r = [u EXCEPT !.grid = g, !.map = m]
    BY <2>3, <2>4
  <2>6. r = [grid |-> g, map |-> m, fb |-> f]
    BY <2>2, <2>5
  <2> QED
    BY <2>6 DEF Plotting, g, m, f
<1>7. Plotting(p, i, q.c) \in Plots
  <2>1. p.grid \in [Cells -> Chars] /\ p.map \in [Cells -> Nat] /\ p.fb \in [Cells -> Chars]
    BY DEF Plots
  <2>2. /\ [p.grid EXCEPT ![i] = q.c] \in [Cells -> Chars]
        /\ [p.map EXCEPT ![i] = NULL] \in [Cells -> Nat]
        /\ [p.fb EXCEPT ![i] = q.c] \in [Cells -> Chars]
    BY <1>1, <2>1 DEF NULL
  <2> QED
    BY <2>2 DEF Plotting, Plots
<1> HIDE DEF r
<1> QED
  BY <1>2, <1>4, <1>5, <1>6, <1>7 DEF i

\* The framebuffer between the items of a flush.
PlotRun(st, p) ==
    /\ st \in [0 .. Len(queue) -> Plots]
    /\ st[0] = p /\ FoldLeft(PlotItem, p, queue) = st[Len(queue)]
    /\ \A k \in 1 .. Len(queue) : st[k] = PlotItem(st[k-1], queue[k])

\* The flush's fold has a run of states, each plotting one item more.
LEMMA PlotStates ==
    ASSUME NEW p \in Plots, queue \in Seq(Items(Chars))
    PROVE  \E st : PlotRun(st, p)
<1> DEFINE n == Len(queue)
           B == Plots
           F == [vk \in B \X (1 .. n) |-> PlotItem(vk[1], queue[vk[2]])]
           Rec(h) == h = [s \in SUBSET (1 .. n) |->
                              IF s = {} THEN p ELSE PlotItem(h[s \ {Max(s)}], queue[Max(s)])]
           h == CHOOSE h : Rec(h)
           st == [k \in 0 .. n |-> h[1 .. k]]
<1>0. DOMAIN queue = 1 .. n /\ n \in Nat
  OBVIOUS
<1>1. FoldLeft(PlotItem, p, queue) = h[1 .. n]
  BY <1>0 DEF FoldLeft, MapThenFoldSet
<1>2. \A v \in B, k \in 1 .. n : PlotItem(v, queue[k]) \in B
  BY PlotItemIs
<1> HIDE DEF B, n
<1> USE <1>0
<1>3. F \in [B \X (1 .. n) -> B] /\ \A v \in B, k \in 1 .. n : F[v, k] = PlotItem(v, queue[k])
  BY <1>2
<1>4. \E g : Rec(g)
  <2> HIDE DEF F
  <2>0. \E g : IsFold(g, B, n, F, p)
    <3>1. p \in B /\ F \in [B \X (1 .. n) -> B]
      BY <1>3 DEF B
    <3> QED
      BY <3>1, FoldExists
  <2>1. PICK g \in [SUBSET (1 .. n) -> B] : \A s \in SUBSET (1 .. n) :
              g[s] = IF s = {} THEN p ELSE F[g[s \ {Max(s)}], Max(s)]
    BY <2>0 DEF IsFold
  <2>2. \A s \in SUBSET (1 .. n) : s # {} => Max(s) \in 1 .. n /\ s \ {Max(s)} \in SUBSET (1 .. n)
    BY MaxIsMember
  <2>3. \A s \in SUBSET (1 .. n) : g[s] = IF s = {} THEN p ELSE PlotItem(g[s \ {Max(s)}], queue[Max(s)])
    BY <1>3, <2>1, <2>2
  <2> QED
    BY <2>1, <2>3
<1>5. h = [s \in SUBSET (1 .. n) |-> IF s = {} THEN p ELSE PlotItem(h[s \ {Max(s)}], queue[Max(s)])]
  BY <1>4
<1> HIDE DEF h
<1>6. h[1 .. 0] = p
  <2>1. 1 .. 0 = {}
    OBVIOUS
  <2> QED
    BY <1>5, <2>1
<1>7. ASSUME NEW k \in 1 .. n PROVE h[1 .. k] = PlotItem(h[1 .. k - 1], queue[k])
  <2>1. 1 .. k \in SUBSET (1 .. n) /\ 1 .. k # {} /\ Max(1 .. k) = k /\ (1 .. k) \ {k} = 1 .. k - 1
    <3>1. k \in Nat /\ k # 0 /\ k \in 1 .. k /\ \A j \in 1 .. k : j \in 1 .. n
      OBVIOUS
    <3> QED
      BY <3>1, LastOfInitial
  <2> QED
    BY <1>5, <2>1
<1>8. st[0] = p /\ st[n] = h[1 .. n] /\ \A k \in 1 .. n : st[k] = PlotItem(st[k-1], queue[k])
  BY <1>6, <1>7
<1>9. \A k \in 0 .. n : st[k] \in B
  <2> DEFINE P == {k \in 0 .. n : st[k] \in B}
  <2>1. 0 \in P
    BY <1>8 DEF B
  <2>2. \A k \in 0 .. n - 1 : k \in P => k + 1 \in P
    <3> SUFFICES ASSUME NEW k \in 0 .. n - 1, st[k] \in B PROVE k + 1 \in 0 .. n /\ st[k + 1] \in B
      OBVIOUS
    <3>1. k + 1 \in 1 .. n /\ (k + 1) - 1 = k
      OBVIOUS
    <3> QED
      <4>1. st[k + 1] = PlotItem(st[(k + 1) - 1], queue[k + 1])
        BY <1>8, <3>1
      <4> HIDE DEF st
      <4>2. st[k + 1] = PlotItem(st[k], queue[k + 1])
        BY <3>1, <4>1
      <4> QED
        BY <1>2, <3>1, <4>2
  <2> HIDE DEF st
  <2>3. \A k \in 0 .. n : k \in P
    <3> HIDE DEF P
    <3> QED
      BY <2>1, <2>2, UpTo
  <2> QED
    BY <2>3
<1>10. st \in [0 .. n -> B]
  BY <1>9
<1> HIDE DEF st
<1> QED
  BY <1>1, <1>8, <1>10 DEF B, n, PlotRun



\* After it every queued cell has been plotted, and the map is empty.
LEMMA Plotted ==
    ASSUME BufferOK(Buffer, Chars), grid \in [Cells -> Chars],
           NEW p \in Plots, \A i \in Cells : p.map[i] = NULL \/ p.map[i] = map[i]
    PROVE  LET r == FoldLeft(PlotItem, p, queue)
           IN  /\ r \in Plots
               /\ \A i \in Cells : /\ r.map[i] = NULL
                                   /\ r.grid[i] = IF p.map[i] # NULL THEN Current(Buffer, i) ELSE p.grid[i]
                                   /\ r.fb[i] = IF p.map[i] # NULL THEN Current(Buffer, i) ELSE p.fb[i]
<1> DEFINE n == Len(queue)
           Open(k, i) == p.map[i] # NULL /\ k < p.map[i]
           Done(v, k) == \A i \in Cells :
                            /\ v.map[i] = IF Open(k, i) THEN map[i] ELSE NULL
                            /\ p.map[i] = NULL \/ Open(k, i) => v.grid[i] = p.grid[i] /\ v.fb[i] = p.fb[i]
                            /\ p.map[i] # NULL /\ ~Open(k, i) =>
                                 v.grid[i] = Current(Buffer, i) /\ v.fb[i] = Current(Buffer, i)
<1>0. /\ queue \in Seq(Items(Chars)) /\ map \in [Cells -> Nat]
      /\ n \in Nat /\ DOMAIN queue = 1 .. n
      /\ \A k \in 1 .. n : map[queue[k].y * Cols + queue[k].x] = k
      /\ \A i \in Cells : map[i] # NULL =>
           map[i] \in 1 .. n /\ queue[map[i]].y * Cols + queue[map[i]].x = i
  <2>1. queue \in Seq(Items(Chars)) /\ map \in [Cells -> Nat]
    BY DEF BufferOK, Buffer
  <2>2. n \in Nat /\ DOMAIN queue = 1 .. n
    BY <2>1
  <2>3. /\ \A k \in DOMAIN queue : map[queue[k].y * Cols + queue[k].x] = k
        /\ \A i \in Cells : map[i] # NULL =>
             map[i] \in DOMAIN queue /\ queue[map[i]].y * Cols + queue[map[i]].x = i
    BY DEF BufferOK, Buffer
  <2> QED
    BY <2>1, <2>2, <2>3
<1>1. PICK st : PlotRun(st, p)
  BY <1>0, PlotStates
<1>2. /\ st \in [0 .. n -> Plots] /\ st[0] = p /\ FoldLeft(PlotItem, p, queue) = st[n]
      /\ \A k \in 1 .. n : st[k] = PlotItem(st[k-1], queue[k])
  BY <1>1 DEF PlotRun
<1> DEFINE P == {k \in 0 .. n : Done(st[k], k)}
<1>3. \A i \in Cells : map[i] \in Nat /\ p.map[i] \in Nat /\ NULL = 0
  BY <1>0 DEF Plots, NULL
<1>4. 0 \in P
  <2>1. \A i \in Cells : Open(0, i) <=> p.map[i] # NULL
    BY <1>3
  <2>2. Done(st[0], 0)
    BY <1>2, <2>1
  <2> HIDE DEF Done
  <2> QED
    BY <1>0, <2>2
<1> HIDE DEF n
<1>5. ASSUME NEW k \in 0 .. n - 1, k \in P PROVE k + 1 \in P
  <2> DEFINE l == k + 1
             q == queue[l]
             e == q.y * Cols + q.x
             v == st[k]
  <2>1. l \in 1 .. n /\ l - 1 = k /\ k \in 0 .. n /\ l \in 0 .. n /\ k \in Nat
    BY <1>0
  <2>2. v \in Plots /\ st[l] = PlotItem(v, q) /\ Done(v, k)
    <3>1. st[l] = PlotItem(st[l - 1], queue[l])
      BY <1>2, <2>1
    <3> HIDE DEF l, Done
    <3>2. st[l] = PlotItem(st[k], queue[l])
      BY <2>1, <3>1
    <3> QED
      BY <1>2, <1>5, <2>1, <3>2
  <2>3. q \in Items(Chars) /\ map[e] = l
    BY <1>0, <2>1
  <2> HIDE DEF l, q, v, e, Done
  <2>4. e \in Cells
    BY <2>3, PlotItemIs DEF e
  <2>5. Current(Buffer, e) = q.c
    <3>1. l # NULL
      BY <2>1 DEF NULL
    <3> QED
      BY <2>3, <3>1 DEF Current, Buffer, q
  <2>6. \A i \in Cells : i # e => map[i] # l
    BY <1>0, <2>1, <2>3, <1>3 DEF e, q
  <2>7. \A i \in Cells : p.map[i] # l \/ i = e
    <3>1. l # NULL
      BY <2>1 DEF NULL
    <3> QED
      BY <2>6, <3>1
  <2>8. \A i \in Cells : i # e => (Open(l, i) <=> Open(k, i))
    <3> SUFFICES ASSUME NEW i \in Cells, i # e PROVE Open(l, i) <=> Open(k, i)
      OBVIOUS
    <3>1. p.map[i] # l /\ p.map[i] \in Nat
      BY <1>3, <2>7
    <3> QED
      BY <2>1, <3>1 DEF l
  <2>9. ~Open(l, e) /\ (Open(k, e) <=> p.map[e] # NULL)
    <3>1. p.map[e] = NULL \/ p.map[e] = l
      BY <2>3, <2>4
    <3>2. ~(l < l) /\ k < l
      BY <2>1 DEF l
    <3> QED
      BY <3>1, <3>2
  <2>10. v.map[e] = NULL <=> p.map[e] = NULL
    <3>1. l # NULL
      BY <2>1 DEF NULL
    <3> HIDE DEF Open
    <3> QED
      BY <2>2, <2>3, <2>4, <2>9, <3>1 DEF Done
  <2>11. CASE p.map[e] = NULL
    <3>1. st[l] = v
      BY <2>2, <2>3, <2>10, <2>11, PlotItemIs DEF e
    <3>2. Open(l, e) <=> Open(k, e)
      BY <2>9, <2>11
    <3> HIDE DEF Open
    <3>3. Done(v, l)
      BY <2>2, <2>8, <3>2 DEF Done
    <3> QED
      BY <2>1, <3>1, <3>3 DEF l
  <2>12. CASE p.map[e] # NULL
    <3>1. st[l] = Plotting(v, e, q.c)
      BY <2>2, <2>3, <2>10, <2>12, PlotItemIs DEF e
    <3>2. v.grid \in [Cells -> Chars] /\ v.map \in [Cells -> Nat] /\ v.fb \in [Cells -> Chars]
      BY <2>2 DEF Plots
    <3>3. /\ st[l].grid[e] = q.c /\ st[l].map[e] = NULL /\ st[l].fb[e] = q.c
          /\ \A i \in Cells : i # e => /\ st[l].grid[i] = v.grid[i]
                                       /\ st[l].map[i] = v.map[i] /\ st[l].fb[i] = v.fb[i]
      BY <2>4, <3>1, <3>2 DEF Plotting
    <3> HIDE DEF Open
    <3>4. Done(st[l], l)
      BY <2>2, <2>5, <2>8, <2>9, <2>12, <3>3 DEF Done
    <3> QED
      BY <2>1, <3>4 DEF l
  <2> QED
    BY <2>11, <2>12
<1>6. n \in P
  <2> HIDE DEF P
  <2>1. \A k \in 0 .. n - 1 : k \in P => k + 1 \in P
    BY <1>5
  <2>2. \A k \in 0 .. n : k \in P
    BY <1>0, <1>4, <2>1, UpTo
  <2> QED
    BY <1>0, <2>2
<1>7. \A i \in Cells : ~Open(n, i)
  <2> SUFFICES ASSUME NEW i \in Cells, Open(n, i) PROVE FALSE
    OBVIOUS
  <2>1. map[i] \in 1 .. n /\ p.map[i] = map[i]
    BY <1>0
  <2> QED
    BY <1>0, <2>1
<1>8. Done(st[n], n) /\ st[n] \in Plots
  BY <1>0, <1>2, <1>6
<1> HIDE DEF Open
<1> QED
  BY <1>2, <1>7, <1>8

----
\* The invariant.

Text == [fg : Colours, bg : Colours]
ModesInv ==
    /\ cursor_x \in Nat /\ cursor_y \in Nat
    /\ old_cursor \in [x : Nat, y : Nat]
    /\ text \in Text /\ saved \in [text : Text, x : Nat, y : Nat]
    /\ cursor_enabled \in BOOLEAN /\ scroll_enabled \in BOOLEAN
    /\ scroll_top_margin \in 0 .. Rows - 2
    /\ scroll_bottom_margin \in scroll_top_margin + 2 .. Rows
    /\ calls \in 0 .. MaxCalls
CellsInv ==
    /\ grid \in [Cells -> Chars] /\ fb \in [Cells -> Chars]
    /\ BufferOK(Buffer, Chars)
IInv == ModesInv /\ CellsInv /\ FbShowsGrid

\* Attributes and the characters drawn in them.
LEMMA TextTypes ==
    /\ \A a \in Palettes \cup {DefaultText} : a \in Text
    /\ Black \in Colours
    /\ \A g \in Glyphs, a \in Text : Char(g, a) \in Chars /\ Swapped(a) \in Text
    /\ " " \in Glyphs
<1>1. \A a \in Palettes \cup {DefaultText} : a = [fg |-> a.fg, bg |-> a.bg]
  BY FbAssumption
<1>2. \A a \in Palettes \cup {DefaultText} : a.fg \in Colours /\ a.bg \in Colours
  BY DEF Colours
<1>3. \A a \in Palettes \cup {DefaultText} : a \in Text
  BY <1>1, <1>2 DEF Text
<1>4. ASSUME NEW g \in Glyphs, NEW a \in Text PROVE Char(g, a) \in Chars /\ Swapped(a) \in Text
  BY DEF Char, Chars, Text, Swapped
<1>5. " " \in Glyphs /\ Black \in Colours
  BY FbAssumption DEF Colours
<1> QED
  BY <1>3, <1>4, <1>5

\* The blank is a character.
LEMMA EmptyType ==
    ASSUME text \in Text PROVE Empty \in Chars
BY TextTypes DEF Empty

\* The queue and what is read through it have their types.
LEMMA BufferType ==
    ASSUME CellsInv PROVE Buffer \in Buffers(Chars) /\ \A i \in Cells : Current(Buffer, i) \in Chars
<1>1. Buffer \in Buffers(Chars)
  BY DEF CellsInv, Buffers, BufferOK
<1> QED
  BY <1>1, CurrentIsCharacter DEF CellsInv

\* What the flush shows: every cell, the cursor's with its colours exchanged.
CursorShown == cursor_enabled /\ cursor_x < Cols /\ cursor_y < Rows
Flush ==
    /\ grid' = [i \in Cells |-> Current(Buffer, i)]
    /\ map' = [i \in Cells |-> NULL]
    /\ fb' = [i \in Cells |-> IF CursorShown /\ i = cursor_y * Cols + cursor_x
                              THEN Swapped(Current(Buffer, i)) ELSE Current(Buffer, i)]

\* The place of the cursor, by its number.
LEMMA PlaceOf ==
    ASSUME NEW x \in Nat, NEW y \in Nat, x < Cols
    PROVE  /\ y < Rows => y * Cols + x \in Cells
           /\ y * Cols + x \in Cells => y < Rows
           /\ \A u, v \in Nat : u < Cols /\ v * Cols + u = y * Cols + x => u = x /\ v = y
<1>1. x \in 0 .. Cols - 1 /\ Cols \in Nat /\ Rows \in Nat
  BY Sizes
<1>2. y < Rows => y * Cols + x \in Cells
  <2>1. y < Rows => y \in 0 .. Rows - 1
    BY <1>1
  <2> QED
    BY <1>1, <2>1, CellNumber
<1> DEFINE i == y * Cols + x
<1>3. i \in Nat /\ i \div Cols = y /\ i % Cols = x
  <2>1. i \in Nat
    BY <1>1
  <2> HIDE DEF i
  <2>2. i = y * Cols + x
    BY DEF i
  <2> QED
    BY <1>1, <2>1, <2>2, DivMod
<1>4. i \in Cells => y < Rows
  <2> SUFFICES ASSUME i \in Cells PROVE y < Rows
    OBVIOUS
  <2>1. i \div Cols \in 0 .. Rows - 1
    BY CellFacts
  <2> QED
    BY <1>1, <1>3, <2>1
<1>5. ASSUME NEW u \in Nat, NEW v \in Nat, u < Cols, v * Cols + u = i PROVE u = x /\ v = y
  <2>1. u \in 0 .. Cols - 1
    BY <1>1, <1>5
  <2> HIDE DEF i
  <2>2. i \div Cols = v /\ i % Cols = u
    BY <1>3, <1>5, <2>1, DivMod
  <2> QED
    BY <1>3, <2>2
<1> QED
  BY <1>2, <1>4, <1>5

\* A flush plots what is read through the queue, in every cell, and the cursor.
LEMMA FlushShowsAll ==
    ASSUME IInv, double_buffer_flush
    PROVE  Flush
<1> DEFINE p0 == [grid |-> grid, map |-> map, fb |-> fb]
           p == IF cursor_enabled THEN draw_cursor(p0) ELSE p0
           r == FoldLeft(PlotItem, p, queue)
           done == HideOldCursor(r)
           ci == cursor_y * Cols + cursor_x
           Now(i) == Current(Buffer, i)
<1>0. /\ grid \in [Cells -> Chars] /\ fb \in [Cells -> Chars] /\ BufferOK(Buffer, Chars)
      /\ map \in [Cells -> Nat] /\ cursor_x \in Nat /\ cursor_y \in Nat
      /\ old_cursor.x \in Nat /\ old_cursor.y \in Nat /\ cursor_enabled \in BOOLEAN
      /\ \A i \in Cells : Now(i) \in Chars
  BY BufferType DEF IInv, ModesInv, CellsInv, BufferOK, Buffer
<1>1. grid' = done.grid /\ map' = done.map /\ fb' = done.fb
  BY DEF double_buffer_flush
<1>2. p0 \in Plots
  BY <1>0 DEF Plots
<1>3. /\ p \in Plots
      /\ ~CursorShown => p = p0
      /\ CursorShown => /\ ci \in Cells
                        /\ p.grid = [grid EXCEPT ![ci] = Now(ci)]
                        /\ p.map = [map EXCEPT ![ci] = NULL]
                        /\ p.fb = [fb EXCEPT ![ci] = Swapped(Now(ci))]
  <2>1. CASE ~CursorShown
    <3>1. p = p0
      <4>1. cursor_enabled => cursor_x >= Cols \/ cursor_y >= Rows
        BY <1>0, <2>1, Sizes DEF CursorShown
      <4> QED
        BY <4>1 DEF draw_cursor
    <3> QED
      BY <1>2, <2>1, <3>1
  <2>2. CASE CursorShown
    <3>1. ci \in Cells
      BY <1>0, <2>2, PlaceOf DEF CursorShown
    <3> DEFINE c == Now(ci)
    <3>2. c \in Chars /\ Swapped(c) \in Chars
      BY <1>0, <3>1, SwappedType
    <3>3. c = IF p0.map[ci] # NULL THEN queue[p0.map[ci]].c ELSE p0.grid[ci]
      BY DEF Current, Buffer
    <3>4. ~(cursor_x >= Cols \/ cursor_y >= Rows)
      BY <1>0, <2>2, Sizes DEF CursorShown
    <3> DEFINE d == IF p0.map[ci] # NULL THEN queue[p0.map[ci]].c ELSE p0.grid[ci]
               u == Plot(p0, ci, Swapped(d))
    <3>5. p = [u EXCEPT !.grid[ci] = d, !.map[ci] = NULL]
      BY <2>2, <3>4 DEF draw_cursor, CursorShown
    <3> HIDE DEF p, ci, c, p0, d
    <3>6. d = c
      BY <3>3 DEF d
    <3>7. u = [grid |-> grid, map |-> map, fb |-> [fb EXCEPT ![ci] = Swapped(c)]]
      BY <3>6 DEF Plot, p0
    <3> HIDE DEF u
    <3> DEFINE g == [grid EXCEPT ![ci] = c]
               m == [map EXCEPT ![ci] = NULL]
               f == [fb EXCEPT ![ci] = Swapped(c)]
    <3>8. p = [u EXCEPT !.grid = [u.grid EXCEPT ![ci] = d], !.map = [u.map EXCEPT ![ci] = NULL]]
      BY <3>5
    <3>9. [u.grid EXCEPT ![ci] = d] = g /\ [u.map EXCEPT ![ci] = NULL] = m
      BY <3>6, <3>7
    <3>10. u = [grid |-> grid, map |-> map, fb |-> f]
      BY <3>7
    <3>11. g \in [Cells -> Chars] /\ m \in [Cells -> Nat] /\ f \in [Cells -> Chars]
      BY <1>0, <3>2 DEF NULL
    <3> HIDE DEF g, m, f
    <3>12. p = [u EXCEPT !.grid = g, !.map = m]
      BY <3>8, <3>9
    <3>13. p = [grid |-> g, map |-> m, fb |-> f]
      BY <3>10, <3>12
    <3>14. p \in Plots
      BY <3>11, <3>13 DEF Plots
    <3> QED
      BY <2>2, <3>1, <3>13, <3>14 DEF g, m, f, c, ci
  <2> QED
    BY <2>1, <2>2
<1> HIDE DEF p, Now
<1>31. \A i \in Cells : ~(CursorShown /\ i = ci) =>
         p.map[i] = map[i] /\ p.grid[i] = grid[i] /\ p.fb[i] = fb[i]
  <2>1. p0.map = map /\ p0.grid = grid /\ p0.fb = fb
    OBVIOUS
  <2> HIDE DEF p0, ci
  <2>2. CASE CursorShown
    BY <1>0, <1>3, <2>2
  <2>3. CASE ~CursorShown
    BY <1>3, <2>1, <2>3
  <2> QED
    BY <2>2, <2>3
<1>4. \A i \in Cells : p.map[i] = NULL \/ p.map[i] = map[i]
  <2>1. CursorShown => p.map[ci] = NULL
    <3> HIDE DEF p0, ci
    <3> QED
      BY <1>0, <1>3
  <2> QED
    BY <1>31, <2>1
<1>5. /\ r \in Plots
      /\ \A i \in Cells : /\ r.map[i] = NULL
                          /\ r.grid[i] = IF p.map[i] # NULL THEN Now(i) ELSE p.grid[i]
                          /\ r.fb[i] = IF p.map[i] # NULL THEN Now(i) ELSE p.fb[i]
  BY <1>0, <1>3, <1>4, Plotted DEF Now
<1> HIDE DEF r
<1>6. \A i \in Cells : map[i] = NULL => Now(i) = grid[i]
  BY DEF Now, Current, Buffer
<1>7. \A i \in Cells : r.grid[i] = Now(i)
  <2> SUFFICES ASSUME NEW i \in Cells PROVE r.grid[i] = Now(i)
    OBVIOUS
  <2>1. CASE CursorShown /\ i = ci
    BY <1>0, <1>3, <1>5, <2>1
  <2>2. CASE ~(CursorShown /\ i = ci)
    <3>1. p.map[i] = map[i] /\ p.grid[i] = grid[i]
      BY <1>31, <2>2
    <3> QED
      BY <1>5, <1>6, <3>1
  <2> QED
    BY <2>1, <2>2
<1>8. \A i \in Cells :
         /\ CursorShown /\ i = ci => r.fb[i] = Swapped(Now(i))
         /\ ~(CursorShown /\ i = ci) =>
               r.fb[i] = Now(i) \/ (old_cursor.x < Cols /\ i = old_cursor.y * Cols + old_cursor.x)
  <2> SUFFICES ASSUME NEW i \in Cells
               PROVE /\ CursorShown /\ i = ci => r.fb[i] = Swapped(Now(i))
                     /\ ~(CursorShown /\ i = ci) =>
                        r.fb[i] = Now(i) \/ (old_cursor.x < Cols /\ i = old_cursor.y * Cols + old_cursor.x)
    OBVIOUS
  <2>1. CASE CursorShown /\ i = ci
    BY <1>0, <1>3, <1>5, <2>1
  <2>2. CASE ~(CursorShown /\ i = ci)
    <3>1. p.map[i] = map[i] /\ p.fb[i] = fb[i]
      BY <1>31, <2>2
    <3>2. fb[i] = grid[i] \/ (old_cursor.x < Cols /\ i = old_cursor.y * Cols + old_cursor.x)
      BY DEF IInv, FbShowsGrid
    <3> QED
      BY <1>5, <1>6, <2>2, <3>1, <3>2
  <2> QED
    BY <2>1, <2>2
<1> DEFINE x == old_cursor.x
           y == old_cursor.y
           oi == y * Cols + x
           hides == (x # cursor_x \/ y # cursor_y \/ ~cursor_enabled) /\ x < Cols /\ y < Rows
<1>9. /\ hides => oi \in Cells /\ done.grid = r.grid /\ done.map = r.map
                  /\ done.fb = [r.fb EXCEPT ![oi] = r.grid[oi]]
      /\ ~hides => done = r
  <2>1. hides => oi \in Cells
    BY <1>0, PlaceOf
  <2>2. hides => done = [r EXCEPT !.fb = [r.fb EXCEPT ![oi] = r.grid[oi]]]
    BY DEF HideOldCursor, Plot
  <2>3. ~hides => done = r
    BY DEF HideOldCursor
  <2> HIDE DEF done, oi, hides
  <2> DEFINE f == [r.fb EXCEPT ![oi] = r.grid[oi]]
  <2>4. r = [grid |-> r.grid, map |-> r.map, fb |-> r.fb]
    BY <1>5 DEF Plots
  <2>5. hides => done = [r EXCEPT !.fb = f]
    BY <2>2
  <2> HIDE DEF f
  <2>6. hides => done = [grid |-> r.grid, map |-> r.map, fb |-> f]
    BY <2>4, <2>5
  <2> QED
    BY <2>1, <2>3, <2>6 DEF f
<1>10. oi \in Cells /\ x < Cols => (~hides <=> CursorShown /\ oi = ci)
  <2> SUFFICES ASSUME oi \in Cells, x < Cols PROVE ~hides <=> CursorShown /\ oi = ci
    OBVIOUS
  <2>1. y < Rows
    BY <1>0, PlaceOf
  <2>2. cursor_x < Cols /\ oi = ci => cursor_x = x /\ cursor_y = y
    BY <1>0, PlaceOf
  <2>3. cursor_x = x /\ cursor_y = y => oi = ci
    OBVIOUS
  <2> QED
    BY <1>0, <2>1, <2>2, <2>3 DEF CursorShown
<1> HIDE DEF done, oi, x, y, ci
<1>11. /\ r.grid \in [Cells -> Chars] /\ r.map \in [Cells -> Nat] /\ r.fb \in [Cells -> Chars]
  BY <1>5 DEF Plots
<1>12. \A i \in Cells : (old_cursor.x < Cols /\ i = old_cursor.y * Cols + old_cursor.x) <=>
                        x < Cols /\ i = oi
  BY DEF x, y, oi
<1>13. /\ done.grid \in [Cells -> Chars] /\ done.map \in [Cells -> Nat]
       /\ DOMAIN done.fb = Cells
       /\ \A i \in Cells : done.grid[i] = Now(i) /\ done.map[i] = NULL
  <2> HIDE DEF hides
  <2> QED
    BY <1>5, <1>7, <1>9, <1>11
<1>14. ASSUME NEW i \in Cells
       PROVE  done.fb[i] = IF CursorShown /\ i = ci THEN Swapped(Now(i)) ELSE Now(i)
  <2>1. CASE x < Cols /\ i = oi
    <3>1. CASE hides
      <4>1. done.fb[i] = r.grid[i]
        BY <1>9, <1>11, <2>1, <3>1
      <4>2. ~(CursorShown /\ i = ci)
        BY <1>10, <2>1, <3>1
      <4> QED
        BY <1>7, <4>1, <4>2
    <3>2. CASE ~hides
      BY <1>8, <1>9, <1>10, <2>1, <3>2
    <3> QED
      BY <3>1, <3>2
  <2>2. CASE ~(x < Cols /\ i = oi)
    <3>1. done.fb[i] = r.fb[i]
      <4>1. hides => x < Cols
        OBVIOUS
      <4> HIDE DEF hides
      <4> QED
        BY <1>9, <1>11, <2>2, <4>1
    <3> QED
      BY <1>8, <1>12, <2>2, <3>1
  <2> QED
    BY <2>1, <2>2
<1>15. /\ done.grid = [i \in Cells |-> Now(i)] /\ done.map = [i \in Cells |-> NULL]
  BY <1>13
<1>16. done.fb \in [Cells -> Chars]
  <2> HIDE DEF hides
  <2> QED
    BY <1>9, <1>11
<1>17. done.fb = [i \in Cells |-> IF CursorShown /\ i = ci THEN Swapped(Now(i)) ELSE Now(i)]
  BY <1>14, <1>16
<1> QED
  BY <1>1, <1>15, <1>17 DEF Flush, Now, ci

----
\* The calls, as changes of the cells read through the queue.

CellsOf(b) == [i \in Cells |-> Current(b, i)]

\* A call that plots nothing leaves what the new queue says.
LEMMA BufferKept ==
    ASSUME IInv, NEW w \in Buffers(Chars), SetBuffer(w), UNCHANGED plotVars
    PROVE  CellsInv' /\ FbShowsGrid' /\ CellsOf(Buffer)' = CellsOf(w) /\ fb' = fb
<1>1. grid' = grid /\ fb' = fb /\ old_cursor' = old_cursor
  BY DEF plotVars
<1>2. queue' = w.queue /\ map' = w.map
  BY DEF SetBuffer
<1>3. w = [queue |-> w.queue, map |-> w.map] /\ BufferOK(w, Chars)
  BY DEF Buffers
<1>4. BufferOK(Buffer, Chars)'
  BY <1>2, <1>3 DEF BufferOK, Buffer
<1>5. FbShowsGrid'
  BY <1>1 DEF FbShowsGrid, IInv
<1>6. \A i \in Cells : Current(Buffer, i)' = Current(w, i)
  BY <1>1, <1>2 DEF Current, Buffer
<1> QED
  BY <1>1, <1>4, <1>5, <1>6 DEF CellsInv, IInv, CellsOf

\* The scroll of fb.c is the screen's.
LEMMA UpIsScrolled ==
    ASSUME IInv
    PROVE  /\ flanterm_fb_scroll(Buffer) \in Buffers(Chars)
           /\ CellsOf(flanterm_fb_scroll(Buffer)) = S!Scrolled
<1> DEFINE w == flanterm_fb_scroll(Buffer)
           t == scroll_top_margin
           e == scroll_bottom_margin
<1>1. /\ grid \in [Cells -> Chars] /\ Buffer \in Buffers(Chars) /\ Empty \in Chars
      /\ t \in 0 .. Rows - 2 /\ e \in t + 2 .. Rows
  BY BufferType, EmptyType DEF IInv, CellsInv, ModesInv
<1>2. /\ w \in Buffers(Chars)
      /\ \A i \in Cells : Current(w, i) =
            IF i \div Cols = e - 1 THEN Empty
            ELSE IF i \div Cols \in t .. e - 1 THEN Current(Buffer, i + Cols) ELSE Current(Buffer, i)
  BY <1>1, RegionUp
<1>3. ASSUME NEW i \in Cells, i \div Cols # e - 1, i \div Cols \in t .. e - 1
      PROVE  i + Cols \in Cells
  <2>1. e \in Nat /\ t \in Nat /\ e >= 1 /\ e <= Rows /\ Rows \in Nat /\ Cols \in Nat
    BY <1>1, Sizes
  <2>2. i \in Nat /\ i \div Cols \in Nat
    BY CellFacts, Sizes
  <2> DEFINE q == i \div Cols
  <2>3. q < e - 1 /\ e - 1 \in Nat
    <3>1. q \in Nat /\ q # e - 1 /\ q \in t .. e - 1
      BY <1>3, <2>2
    <3> HIDE DEF q
    <3> QED
      BY <2>1, <3>1
  <2>4. i < (e - 1) * Cols
    BY <2>2, <2>3, RowBounds
  <2>5. (e - 1) * Cols + Cols = e * Cols /\ (e - 1) * Cols \in Nat /\ e * Cols <= Rows * Cols
    <3>1. (e - 1 + 1) * Cols = (e - 1) * Cols + Cols /\ (e - 1) * Cols \in Nat
      BY <2>1, <2>3
    <3>2. e - 1 + 1 = e
      BY <2>1
    <3>3. e * Cols <= Rows * Cols
      BY <2>1, ProductIsMonotone
    <3> QED
      BY <3>1, <3>2, <3>3
  <2> DEFINE a == (e - 1) * Cols
             z == Rows * Cols
  <2>6. a + Cols <= z /\ a \in Nat /\ i < a /\ z \in Nat
    BY <2>4, <2>5, Sizes
  <2> HIDE DEF a, z
  <2>7. i + Cols \in 0 .. z - 1
    BY <2>1, <2>2, <2>6
  <2> QED
    BY <2>7 DEF Cells, z
<1>4. S!Scrolled = [i \in Cells |->
         IF i \div Cols = e - 1 THEN Empty
         ELSE IF i \div Cols \in t .. e - 1 THEN CellsOf(Buffer)[i + Cols] ELSE CellsOf(Buffer)[i]]
  BY DEF S!Scrolled, S!Cells, Cells, S!RowOf, S!Cell, S!Blank, CellsOf, Empty, Char
<1> HIDE DEF w
<1>5. \A i \in Cells : Current(w, i) =
         IF i \div Cols = e - 1 THEN Empty
         ELSE IF i \div Cols \in t .. e - 1 THEN CellsOf(Buffer)[i + Cols] ELSE CellsOf(Buffer)[i]
  BY <1>2, <1>3 DEF CellsOf
<1>6. CellsOf(w) = S!Scrolled
  BY <1>4, <1>5 DEF CellsOf
<1> QED
  BY <1>2, <1>6 DEF w

\* The reverse scroll of fb.c is the screen's.
LEMMA DownIsScrolledBack ==
    ASSUME IInv, NEW t \in 0 .. Rows - 1
    PROVE  /\ flanterm_fb_revscroll(Buffer, t) \in Buffers(Chars)
           /\ CellsOf(flanterm_fb_revscroll(Buffer, t)) = S!ScrolledBack(t)
<1> DEFINE w == flanterm_fb_revscroll(Buffer, t)
           e == scroll_bottom_margin
<1>1. /\ grid \in [Cells -> Chars] /\ Buffer \in Buffers(Chars) /\ Empty \in Chars
      /\ scroll_top_margin \in 0 .. Rows - 2 /\ e \in scroll_top_margin + 2 .. Rows
  BY BufferType, EmptyType DEF IInv, CellsInv, ModesInv
<1>2. /\ w \in Buffers(Chars)
      /\ \A i \in Cells : Current(w, i) =
            IF i \div Cols = t THEN Empty
            ELSE IF i \div Cols \in t + 1 .. e - 1 THEN Current(Buffer, i - Cols) ELSE Current(Buffer, i)
  BY <1>1, RegionDown
<1>3. ASSUME NEW i \in Cells, i \div Cols \in t + 1 .. e - 1
      PROVE  i - Cols \in Cells
  <2>1. t \in Nat /\ e \in Int /\ Cols \in Nat /\ 1 * Cols = Cols
    BY <1>1, Sizes
  <2>2. i \in Nat /\ i \div Cols \in Nat
    BY CellFacts, Sizes
  <2> DEFINE q == i \div Cols
  <2>3. 1 <= q
    <3>1. q \in Nat /\ q \in t + 1 .. e - 1
      BY <1>3, <2>2
    <3> HIDE DEF q
    <3> QED
      BY <2>1, <3>1
  <2>4. Cols <= i
    BY <2>1, <2>2, <2>3, RowBounds
  <2> DEFINE z == Rows * Cols
  <2>5. i \in 0 .. z - 1 /\ z \in Nat
    BY Sizes DEF Cells
  <2> HIDE DEF z
  <2>6. i - Cols \in 0 .. z - 1
    BY <2>1, <2>2, <2>4, <2>5
  <2> QED
    BY <2>6 DEF Cells, z
<1>4. S!ScrolledBack(t) = [i \in Cells |->
         IF i \div Cols = t THEN Empty
         ELSE IF i \div Cols \in t + 1 .. e - 1 THEN CellsOf(Buffer)[i - Cols] ELSE CellsOf(Buffer)[i]]
  BY DEF S!ScrolledBack, S!Cells, Cells, S!RowOf, S!Cell, S!Blank, CellsOf, Empty, Char
<1> HIDE DEF w
<1>5. \A i \in Cells : Current(w, i) =
         IF i \div Cols = t THEN Empty
         ELSE IF i \div Cols \in t + 1 .. e - 1 THEN CellsOf(Buffer)[i - Cols] ELSE CellsOf(Buffer)[i]
  BY <1>2, <1>3 DEF CellsOf
<1>6. CellsOf(w) = S!ScrolledBack(t)
  BY <1>4, <1>5 DEF CellsOf
<1> QED
  BY <1>2, <1>6 DEF w

\* A push of a character is the screen's write.
LEMMA WriteIsWritten ==
    ASSUME IInv, NEW b \in Buffers(Chars), NEW g \in Glyphs, NEW x \in Nat, NEW y \in Nat
    PROVE  /\ push_to_queue(b, Char(g, text), x, y) \in Buffers(Chars)
           /\ CellsOf(push_to_queue(b, Char(g, text), x, y)) = S!Written(CellsOf(b), g, x, y)
<1> DEFINE c == Char(g, text)
           w == push_to_queue(b, c, x, y)
<1>1. grid \in [Cells -> Chars] /\ c \in Chars /\ BufferOK(b, Chars)
  BY TextTypes DEF IInv, CellsInv, ModesInv, Buffers
<1> HIDE DEF c
<1>2. /\ BufferOK(w, Chars)
      /\ \A i \in Cells : Current(w, i) =
            IF x < Cols /\ y < Rows /\ i = y * Cols + x THEN c ELSE Current(b, i)
  BY <1>1, WriteIsVisibleAtOnce
<1>3. w \in Buffers(Chars)
  BY <1>2 DEF Buffers, BufferOK
<1>4. S!Written(CellsOf(b), g, x, y) =
         IF x < Cols /\ y < Rows THEN [CellsOf(b) EXCEPT ![y * Cols + x] = c] ELSE CellsOf(b)
  BY DEF S!Written, S!OnScreen, S!CellAt, S!Cell, c, Char
<1> HIDE DEF w
<1>5. CellsOf(w) = IF x < Cols /\ y < Rows THEN [CellsOf(b) EXCEPT ![y * Cols + x] = c] ELSE CellsOf(b)
  BY <1>2 DEF CellsOf
<1> QED
  BY <1>3, <1>4, <1>5 DEF w, c

----
\* Every action keeps the invariant and is a step of the abstract screen.

Keeps == IInv' /\ [S!ScreenNext]_S!screenVars

\* The numbers of the cursor, the margins and the calls.
LEMMA Numbers ==
    ASSUME ModesInv
    PROVE  /\ cursor_x \in Nat /\ cursor_y \in Nat /\ Cols \in Nat /\ Rows \in Nat
           /\ Cols >= Rows /\ Rows >= 2
           /\ scroll_top_margin \in Nat /\ scroll_bottom_margin \in Nat
           /\ scroll_top_margin + 2 <= scroll_bottom_margin /\ scroll_bottom_margin <= Rows
           /\ text \in Text /\ scroll_enabled \in BOOLEAN /\ calls \in Nat /\ MaxCalls \in Nat
<1>1. Cols \in Nat /\ Rows \in Nat /\ Cols >= Rows /\ Rows >= 2 /\ MaxCalls \in Nat
  <2>1. MaxCalls \in Nat
    BY FbAssumption
  <2> QED
    BY <2>1, Sizes
<1>2. /\ cursor_x \in Nat /\ cursor_y \in Nat /\ text \in Text /\ scroll_enabled \in BOOLEAN
      /\ scroll_top_margin \in 0 .. Rows - 2 /\ scroll_bottom_margin \in scroll_top_margin + 2 .. Rows
      /\ calls \in 0 .. MaxCalls
  BY DEF ModesInv
<1>3. /\ scroll_top_margin \in Nat /\ scroll_bottom_margin \in Nat /\ calls \in Nat
      /\ scroll_top_margin + 2 <= scroll_bottom_margin /\ scroll_bottom_margin <= Rows
  BY <1>1, <1>2
<1> QED
  BY <1>1, <1>2, <1>3

\* raw_putchar: in the line, at the region's last row, and on the way to the next.
LEMMA PutcharKeeps ==
    ASSUME IInv, raw_putchar PROVE Keeps
<1> DEFINE wraps == cursor_x >= Cols /\ (cursor_y < scroll_bottom_margin - 1 \/ scroll_enabled)
           line == IF wraps THEN NextLine(Buffer) ELSE [buffer |-> Buffer, y |-> cursor_y]
           x == IF wraps THEN 0 ELSE cursor_x
           b == line.buffer
           y == line.y
<1>1. PICK g \in Glyphs : /\ SetBuffer(push_to_queue(line.buffer, Char(g, text), x, line.y))
                          /\ cursor_x' = x + 1 /\ cursor_y' = line.y
  BY DEF raw_putchar
<1>2. UNCHANGED <<plotVars, textVars, modeVars>> /\ calls < MaxCalls /\ calls' = calls + 1
  BY DEF raw_putchar, Call
<1>3. /\ cursor_x \in Nat /\ cursor_y \in Nat /\ Cols \in Nat /\ Rows \in Nat /\ Cols >= Rows /\ Rows >= 2
      /\ scroll_bottom_margin \in Nat /\ scroll_bottom_margin <= Rows /\ scroll_bottom_margin >= 2
      /\ calls \in Nat /\ MaxCalls \in Nat
  BY Numbers DEF IInv
<1>4. Buffer \in Buffers(Chars)
  BY BufferType DEF IInv
<1>5. CASE ~wraps
  <2>1. b = Buffer /\ y = cursor_y /\ x = cursor_x
    BY <1>5
  <2> QED
    <3>1. /\ SetBuffer(push_to_queue(Buffer, Char(g, text), cursor_x, cursor_y))
          /\ cursor_x' = cursor_x + 1 /\ cursor_y' = cursor_y
      BY <1>1, <2>1
    <3> DEFINE w == push_to_queue(Buffer, Char(g, text), cursor_x, cursor_y)
    <3>2. w \in Buffers(Chars) /\ CellsOf(w) = S!Written(CellsOf(Buffer), g, cursor_x, cursor_y)
      BY <1>3, <1>4, WriteIsWritten
    <3> HIDE DEF w
    <3>3. SetBuffer(w)
      BY <3>1 DEF w
    <3>4. CellsInv' /\ FbShowsGrid' /\ CellsOf(Buffer)' = CellsOf(w) /\ fb' = fb
      BY <1>2, <3>2, <3>3, BufferKept
    <3>5. S!WriteChar
      <4>1. cursor_x < Cols \/ ~(cursor_y < scroll_bottom_margin - 1 \/ scroll_enabled)
        BY <1>3, <1>5
      <4> QED
        BY <3>1, <3>2, <3>4, <4>1 DEF S!WriteChar, CellsOf
    <3>6. ModesInv'
      BY <1>2, <1>3, <3>1 DEF IInv, ModesInv, textVars, modeVars, plotVars
    <3> QED
      BY <1>2, <3>4, <3>5, <3>6 DEF Keeps, IInv, S!ScreenNext, S!WriteCharStep, textVars, modeVars
<1>6. CASE wraps /\ cursor_y + 1 = scroll_bottom_margin
  <2> DEFINE u == flanterm_fb_scroll(Buffer)
  <2>1. b = u /\ y = cursor_y /\ x = 0
    <3>1. ~(cursor_y >= Cols)
      BY <1>3, <1>6
    <3>2. NextLine(Buffer) = [buffer |-> u, y |-> cursor_y]
      BY <1>6, <3>1 DEF NextLine
    <3> QED
      BY <1>6, <3>2
  <2>2. /\ SetBuffer(push_to_queue(u, Char(g, text), 0, cursor_y))
        /\ cursor_x' = 1 /\ cursor_y' = cursor_y
    BY <1>1, <2>1
  <2> DEFINE w == push_to_queue(u, Char(g, text), 0, cursor_y)
  <2>3. u \in Buffers(Chars) /\ CellsOf(u) = S!Scrolled
    BY UpIsScrolled
  <2> HIDE DEF u
  <2>4. w \in Buffers(Chars) /\ CellsOf(w) = S!Written(CellsOf(u), g, 0, cursor_y)
    BY <1>3, <2>3, WriteIsWritten
  <2> HIDE DEF w
  <2>5. SetBuffer(w)
    BY <2>2 DEF w
  <2>6. CellsInv' /\ FbShowsGrid' /\ CellsOf(Buffer)' = CellsOf(w) /\ fb' = fb
    BY <1>2, <2>4, <2>5, BufferKept
  <2>7. S!WriteChar
    <3>1. ~(cursor_x < Cols \/ ~(cursor_y < scroll_bottom_margin - 1 \/ scroll_enabled))
      BY <1>3, <1>6
    <3>2. cursor_y = scroll_bottom_margin - 1
      BY <1>3, <1>6
    <3> QED
      BY <2>2, <2>3, <2>4, <2>6, <3>1, <3>2 DEF S!WriteChar, CellsOf
  <2>8. ModesInv'
    BY <1>2, <1>3, <2>2 DEF IInv, ModesInv, textVars, modeVars, plotVars
  <2> QED
    BY <1>2, <2>6, <2>7, <2>8 DEF Keeps, IInv, S!ScreenNext, S!WriteCharStep, textVars, modeVars
<1>7. CASE wraps /\ cursor_y + 1 # scroll_bottom_margin
  <2> DEFINE v == IF cursor_y + 1 >= Cols THEN Cols - 1 ELSE cursor_y + 1
  <2>1. b = Buffer /\ y = v /\ x = 0
    <3>1. NextLine(Buffer) = [buffer |-> Buffer, y |-> v]
      BY <1>7 DEF NextLine
    <3> QED
      BY <1>7, <3>1
  <2>2. /\ SetBuffer(push_to_queue(Buffer, Char(g, text), 0, v))
        /\ cursor_x' = 1 /\ cursor_y' = v
    BY <1>1, <2>1
  <2>3. /\ v \in Nat
        /\ cursor_y < Rows - 1 => v = cursor_y + 1
        /\ cursor_y >= Rows - 1 => v >= Rows - 1
    BY <1>3
  <2> HIDE DEF v
  <2> DEFINE w == push_to_queue(Buffer, Char(g, text), 0, v)
  <2>4. w \in Buffers(Chars) /\ CellsOf(w) = S!Written(CellsOf(Buffer), g, 0, v)
    BY <1>4, <2>3, WriteIsWritten
  <2> HIDE DEF w
  <2>5. SetBuffer(w)
    BY <2>2 DEF w
  <2>6. CellsInv' /\ FbShowsGrid' /\ CellsOf(Buffer)' = CellsOf(w) /\ fb' = fb
    BY <1>2, <2>4, <2>5, BufferKept
  <2>7. S!WriteChar
    <3>1. ~(cursor_x < Cols \/ ~(cursor_y < scroll_bottom_margin - 1 \/ scroll_enabled))
      BY <1>3, <1>7
    <3>2. cursor_y # scroll_bottom_margin - 1
      BY <1>3, <1>7
    <3>3. CASE cursor_y < Rows - 1
      BY <2>2, <2>3, <2>4, <2>6, <3>1, <3>2, <3>3 DEF S!WriteChar, CellsOf
    <3>4. CASE cursor_y >= Rows - 1
      BY <2>2, <2>3, <2>4, <2>6, <3>1, <3>2, <3>4 DEF S!WriteChar, CellsOf
    <3> QED
      BY <1>3, <3>3, <3>4
  <2>8. ModesInv'
    BY <1>2, <1>3, <2>2, <2>3 DEF IInv, ModesInv, textVars, modeVars, plotVars
  <2> QED
    BY <1>2, <2>6, <2>7, <2>8 DEF Keeps, IInv, S!ScreenNext, S!WriteCharStep, textVars, modeVars
<1> QED
  BY <1>5, <1>6, <1>7

\* A call that leaves the cursor and the modes alone.
LEMMA CellCallKeeps ==
    ASSUME IInv, NEW w \in Buffers(Chars), SetBuffer(w), Call,
           UNCHANGED <<cursorVars, plotVars, textVars, modeVars>>,
           \/ CellsOf(w) = S!Scrolled
           \/ \E t \in 0 .. Rows - 1 : CellsOf(w) = S!ScrolledBack(t)
           \/ \E i, j \in Cells : CellsOf(w) = [CellsOf(Buffer) EXCEPT ![i] = CellsOf(Buffer)[j]]
    PROVE  Keeps
<1>1. CellsInv' /\ FbShowsGrid' /\ CellsOf(Buffer)' = CellsOf(w) /\ fb' = fb
  BY BufferKept
<1>2. ModesInv'
  <2>1. calls' = calls + 1 /\ calls < MaxCalls /\ calls \in Nat /\ MaxCalls \in Nat
    BY Numbers DEF Call, IInv
  <2> QED
    BY <2>1 DEF IInv, ModesInv, cursorVars, textVars, modeVars, plotVars
<1>3. S!CellsStep
  BY <1>1 DEF S!CellsStep, S!Cells, Cells, CellsOf, cursorVars, textVars, modeVars
<1> QED
  BY <1>1, <1>2, <1>3 DEF Keeps, IInv, S!ScreenNext

\* scroll.
LEMMA ScrollKeeps ==
    ASSUME IInv, scroll PROVE Keeps
BY UpIsScrolled, CellCallKeeps DEF scroll

\* The rows that a reverse scroll may begin at.
LEMMA CursorRowType ==
    ASSUME IInv PROVE CursorRow \in 0 .. Rows - 1 /\ scroll_top_margin \in 0 .. Rows - 1
<1>1. ModesInv
  BY DEF IInv
<1> QED
  BY <1>1, Numbers DEF CursorRow

\* revscroll, for the region or from the cursor's row.
LEMMA RevscrollKeeps ==
    ASSUME IInv, revscroll PROVE Keeps
<1>1. PICK t \in {scroll_top_margin, CursorRow} : SetBuffer(flanterm_fb_revscroll(Buffer, t))
  BY DEF revscroll
<1>2. t \in 0 .. Rows - 1
  BY CursorRowType
<1>3. /\ flanterm_fb_revscroll(Buffer, t) \in Buffers(Chars)
      /\ CellsOf(flanterm_fb_revscroll(Buffer, t)) = S!ScrolledBack(t)
  BY <1>2, DownIsScrolledBack
<1> QED
  BY <1>1, <1>2, <1>3, CellCallKeeps DEF revscroll

\* move_character, off the screen's right edge too.
LEMMA MoveKeeps ==
    ASSUME IInv, move_character PROVE Keeps
<1>1. PICK old_x \in 0 .. Cols - 1 : \E new_x \in {old_x - 1, old_x + 1} \ {-1} :
         SetBuffer(push_to_queue(Buffer, Current(Buffer, CursorRow * Cols + old_x), new_x, CursorRow))
  BY DEF move_character
<1>2. PICK new_x \in {old_x - 1, old_x + 1} \ {-1} :
         SetBuffer(push_to_queue(Buffer, Current(Buffer, CursorRow * Cols + old_x), new_x, CursorRow))
  BY <1>1
<1> DEFINE y == CursorRow
           j == y * Cols + old_x
           i == y * Cols + new_x
           c == Current(Buffer, j)
           w == push_to_queue(Buffer, c, new_x, y)
<1>3. /\ new_x \in Nat /\ y \in Nat /\ y < Rows /\ y \in 0 .. Rows - 1 /\ new_x <= Cols /\ Cols \in Nat
      /\ Rows \in Nat
  <2>1. Cols \in Nat /\ Rows \in Nat
    BY Sizes
  <2>2. y \in 0 .. Rows - 1
    BY CursorRowType
  <2> HIDE DEF y
  <2> QED
    BY <2>1, <2>2
<1>4. j \in Cells /\ (new_x < Cols => i \in Cells)
  <2>1. new_x < Cols => new_x \in 0 .. Cols - 1
    BY <1>3
  <2> HIDE DEF y
  <2> QED
    BY <1>3, <2>1, CellNumber
<1>5. c \in Chars /\ BufferOK(Buffer, Chars) /\ grid \in [Cells -> Chars]
  BY <1>4, BufferType DEF IInv, CellsInv
<1> HIDE DEF c, y, j
<1>6. /\ BufferOK(w, Chars)
      /\ \A k \in Cells : Current(w, k) =
            IF new_x < Cols /\ y < Rows /\ k = y * Cols + new_x THEN c ELSE Current(Buffer, k)
  BY <1>3, <1>5, WriteIsVisibleAtOnce
<1> HIDE DEF w
<1>7. w \in Buffers(Chars) /\ SetBuffer(w)
  BY <1>2, <1>6 DEF Buffers, BufferOK, w, c, y, j
<1>8. \E k, l \in Cells : CellsOf(w) = [CellsOf(Buffer) EXCEPT ![k] = CellsOf(Buffer)[l]]
  <2>1. CASE new_x < Cols
    <3>1. \A k \in Cells : Current(w, k) = IF k = i THEN c ELSE Current(Buffer, k)
      BY <1>3, <1>6, <2>1
    <3>2. i \in Cells
      BY <1>4, <2>1
    <3>3. CellsOf(Buffer)[j] = c
      BY <1>4 DEF CellsOf, c
    <3> HIDE DEF i
    <3>4. CellsOf(w) = [CellsOf(Buffer) EXCEPT ![i] = CellsOf(Buffer)[j]]
      BY <3>1, <3>2, <3>3 DEF CellsOf
    <3> QED
      BY <1>4, <3>2, <3>4
  <2>2. CASE ~(new_x < Cols)
    <3>1. \A k \in Cells : Current(w, k) = Current(Buffer, k)
      BY <1>6, <2>2
    <3>2. CellsOf(w) = [CellsOf(Buffer) EXCEPT ![j] = CellsOf(Buffer)[j]]
      BY <1>4, <3>1 DEF CellsOf
    <3> QED
      BY <1>4, <3>2
  <2> QED
    BY <2>1, <2>2
<1> QED
  BY <1>7, <1>8, CellCallKeeps DEF move_character

\* clear, with and without the cursor's way home.
LEMMA ClearKeeps ==
    ASSUME IInv, clear PROVE Keeps
<1> DEFINE w == ClearAll(Buffer)
<1>1. SetBuffer(w)
  BY DEF clear, ClearAll
<1>2. grid \in [Cells -> Chars] /\ Buffer \in Buffers(Chars) /\ Empty \in Chars
  BY BufferType, EmptyType DEF IInv, CellsInv, ModesInv
<1>3. w \in Buffers(Chars) /\ \A i \in Cells : Current(w, i) = Empty
  BY <1>2, AllCleared
<1> HIDE DEF w
<1>4. UNCHANGED plotVars /\ UNCHANGED textVars /\ UNCHANGED modeVars /\ Call
  BY DEF clear
<1>5. CellsInv' /\ FbShowsGrid' /\ CellsOf(Buffer)' = CellsOf(w) /\ fb' = fb
  BY <1>1, <1>3, <1>4, BufferKept
<1>6. \/ cursor_x' = 0 /\ cursor_y' = 0
      \/ cursor_x' = cursor_x /\ cursor_y' = cursor_y
  BY DEF clear, cursorVars
<1>7. ModesInv'
  <2>1. calls' = calls + 1 /\ calls < MaxCalls /\ calls \in Nat /\ MaxCalls \in Nat
    BY <1>4, Numbers DEF Call, IInv
  <2> QED
    BY <1>4, <1>6, <2>1 DEF IInv, ModesInv, textVars, modeVars, plotVars
<1>8. CellsOf(w) = [i \in Cells |-> S!Cell(S!Blank, text)]
  BY <1>3 DEF CellsOf, S!Cell, S!Blank, Empty, Char
<1>9. S!ClearStep
  BY <1>4, <1>5, <1>6, <1>8 DEF S!ClearStep, S!Cells, Cells, CellsOf, textVars, modeVars
<1> QED
  BY <1>5, <1>7, <1>9 DEF Keeps, IInv, S!ScreenNext

\* double_buffer_flush: the queue is empty, the map too, the framebuffer shows it all.
LEMMA FlushKeeps ==
    ASSUME IInv, double_buffer_flush PROVE Keeps
<1>1. Flush
  BY FlushShowsAll
<1>2. /\ queue' = <<>> /\ old_cursor' = [x |-> cursor_x, y |-> cursor_y]
      /\ UNCHANGED <<cursorVars, textVars, modeVars, calls>>
  BY DEF double_buffer_flush
<1>3. \A i \in Cells : Current(Buffer, i) \in Chars /\ Swapped(Current(Buffer, i)) \in Chars
  BY BufferType, SwappedType DEF IInv
<1> DEFINE Now(i) == Current(Buffer, i)
           P(i) == CursorShown /\ i = cursor_y * Cols + cursor_x
<1>4. /\ grid' = [i \in Cells |-> Now(i)] /\ map' = [i \in Cells |-> NULL]
      /\ fb' = [i \in Cells |-> IF P(i) THEN Swapped(Now(i)) ELSE Now(i)]
  BY <1>1 DEF Flush
<1>5. \A i \in Cells : Current(Buffer, i)' = Now(i)
  <2>1. \A i \in Cells : Buffer'.map[i] = NULL /\ grid'[i] = Now(i)
    <3> HIDE DEF Now, P
    <3> QED
      BY <1>4 DEF Buffer
  <2> HIDE DEF Now
  <2> QED
    BY <2>1 DEF Current
<1>6. CellsOf(Buffer)' = CellsOf(Buffer)
  BY <1>5 DEF CellsOf
<1>7. S!FlushStep
  <2>1. S!Picture = [i \in Cells |-> IF P(i) THEN Swapped(Now(i)) ELSE Now(i)]
    <3>1. \A c : S!Inverted(c) = Swapped(c)
      BY DEF S!Inverted, Swapped
    <3>2. CursorShown <=> cursor_enabled /\ S!OnScreen(cursor_x, cursor_y)
      BY DEF S!OnScreen, CursorShown
    <3>3. S!Picture = [i \in Cells |->
              IF cursor_enabled /\ S!OnScreen(cursor_x, cursor_y) /\ i = S!CellAt(cursor_x, cursor_y)
              THEN S!Inverted(CellsOf(Buffer)[i]) ELSE CellsOf(Buffer)[i]]
      BY DEF S!Picture, S!Cells, Cells, CellsOf
    <3> QED
      BY <3>1, <3>2, <3>3 DEF S!CellAt, CellsOf
  <2>2. fb' = S!Picture
    BY <1>4, <2>1
  <2> HIDE DEF Now
  <2> QED
    BY <1>2, <1>6, <2>2 DEF S!FlushStep, CellsOf, cursorVars, textVars, modeVars
<1>8. ModesInv'
  BY <1>2 DEF IInv, ModesInv, cursorVars, textVars, modeVars
<1>9. CellsInv'
  <2>1. grid' \in [Cells -> Chars] /\ fb' \in [Cells -> Chars] /\ map' \in [Cells -> Nat]
    BY <1>3, <1>4 DEF NULL
  <2>2. \A i \in Cells : map'[i] = NULL
    BY <1>4
  <2>3. queue' \in Seq(Items(Chars)) /\ DOMAIN queue' = {}
    BY <1>2
  <2>4. BufferOK(Buffer, Chars)'
    BY <2>1, <2>2, <2>3 DEF BufferOK, Buffer
  <2> QED
    BY <2>1, <2>4 DEF CellsInv
<1>10. FbShowsGrid'
  <2> SUFFICES ASSUME NEW i \in Cells
               PROVE  \/ fb'[i] = grid'[i]
                      \/ /\ fb'[i] = Swapped(grid'[i])
                         /\ old_cursor'.x < Cols /\ i = old_cursor'.y * Cols + old_cursor'.x
    BY DEF FbShowsGrid, Swapped
  <2>1. grid'[i] = Now(i) /\ fb'[i] = IF P(i) THEN Swapped(Now(i)) ELSE Now(i)
    <3> HIDE DEF Now, P
    <3> QED
      BY <1>4
  <2>2. old_cursor'.x = cursor_x /\ old_cursor'.y = cursor_y
    BY <1>2
  <2> HIDE DEF Now
  <2> QED
    BY <2>1, <2>2 DEF CursorShown
<1> QED
  BY <1>7, <1>8, <1>9, <1>10 DEF Keeps, IInv, S!ScreenNext

\* The parser's own changes touch neither cells nor pixels.
LEMMA QuietKeeps ==
    ASSUME IInv, ModesInv', UNCHANGED <<cellVars, grid, fb, old_cursor>> PROVE Keeps
<1>1. grid' = grid /\ fb' = fb /\ queue' = queue /\ map' = map /\ old_cursor' = old_cursor
  BY DEF cellVars
<1>2. CellsInv' /\ FbShowsGrid'
  BY <1>1 DEF IInv, CellsInv, BufferOK, Buffer, FbShowsGrid
<1>3. CellsOf(Buffer)' = CellsOf(Buffer)
  BY <1>1 DEF CellsOf, Current, Buffer
<1>4. S!TerminalStep
  BY <1>1, <1>3 DEF S!TerminalStep, CellsOf
<1> QED
  BY <1>2, <1>4 DEF Keeps, IInv, S!ScreenNext

\* The actions of the parser.
LEMMA ParserKeeps ==
    ASSUME IInv,
           MoveCursor \/ set_text \/ save_state \/ restore_state
             \/ ControlSequence \/ SetMargins \/ ShowCursor
    PROVE  Keeps
<1>1. /\ cursor_x \in Nat /\ cursor_y \in Nat /\ Cols \in Nat /\ Rows \in Nat /\ Cols >= 2 /\ Rows >= 2
      /\ calls \in Nat /\ MaxCalls \in Nat
  BY Numbers DEF IInv
<1>2. \A x \in Int : Clamp(x, Cols) \in Nat /\ Clamp(x, Rows) \in Nat
  BY <1>1 DEF Clamp
<1>3. ModesInv
  BY DEF IInv
<1>4. CASE MoveCursor
  <2>1. cursor_x' \in Nat /\ cursor_y' \in Nat /\ calls' \in 0 .. MaxCalls
    BY <1>1, <1>2, <1>4 DEF MoveCursor, set_cursor_pos, Call
  <2>2. ModesInv'
    BY <1>3, <1>4, <2>1 DEF MoveCursor, ModesInv, plotVars, textVars, modeVars
  <2> QED
    BY <1>4, <2>2, QuietKeeps DEF MoveCursor, plotVars
<1>5. CASE set_text
  <2>1. text' \in Text /\ calls' \in 0 .. MaxCalls
    <3>1. text' \in Palettes \cup {DefaultText} \/ text' = Swapped(text)
      BY <1>5 DEF set_text
    <3>2. text' \in Text
      BY <1>3, <3>1, TextTypes DEF ModesInv
    <3>3. calls' \in 0 .. MaxCalls
      BY <1>1, <1>5 DEF set_text, Call
    <3> QED
      BY <3>2, <3>3
  <2>2. ModesInv'
    BY <1>3, <1>5, <2>1 DEF set_text, ModesInv, plotVars, cursorVars, modeVars
  <2> QED
    BY <1>5, <2>2, QuietKeeps DEF set_text, plotVars
<1>6. CASE save_state
  <2>1. saved' \in [text : Text, x : Nat, y : Nat] /\ calls' \in 0 .. MaxCalls
    BY <1>1, <1>3, <1>6 DEF save_state, Call, ModesInv
  <2>2. ModesInv'
    BY <1>3, <1>6, <2>1 DEF save_state, ModesInv, plotVars, cursorVars, modeVars
  <2> QED
    BY <1>6, <2>2, QuietKeeps DEF save_state, plotVars
<1>7. CASE restore_state
  <2>1. text' \in Text /\ cursor_x' \in Nat /\ cursor_y' \in Nat /\ calls' \in 0 .. MaxCalls
    BY <1>1, <1>3, <1>7 DEF restore_state, Call, ModesInv
  <2>2. ModesInv'
    BY <1>3, <1>7, <2>1 DEF restore_state, ModesInv, plotVars, modeVars
  <2> QED
    BY <1>7, <2>2, QuietKeeps DEF restore_state, plotVars
<1>8. CASE ControlSequence
  <2>1. ModesInv'
    BY <1>3, <1>8 DEF ControlSequence, ModesInv, plotVars, cursorVars, textVars
  <2> QED
    BY <1>8, <2>1, QuietKeeps DEF ControlSequence, plotVars
<1>9. CASE SetMargins
  <2>1. PICK t \in 0 .. Rows - 1, b \in 0 .. Rows :
           t < b - 1 /\ scroll_top_margin' = t /\ scroll_bottom_margin' = b
    BY <1>9 DEF SetMargins
  <2>2. /\ scroll_top_margin' \in 0 .. Rows - 2
        /\ scroll_bottom_margin' \in scroll_top_margin' + 2 .. Rows
    BY <1>1, <2>1
  <2>3. cursor_x' \in Nat /\ cursor_y' \in Nat /\ calls' \in 0 .. MaxCalls
    BY <1>1, <1>2, <1>9 DEF SetMargins, set_cursor_pos, Call
  <2>4. ModesInv'
    BY <1>3, <1>9, <2>2, <2>3 DEF SetMargins, ModesInv, plotVars, textVars
  <2> QED
    BY <1>9, <2>4, QuietKeeps DEF SetMargins, plotVars
<1>10. CASE ShowCursor
  <2>1. calls' \in 0 .. MaxCalls
    BY <1>1, <1>10 DEF ShowCursor, Call
  <2>2. ModesInv'
    BY <1>3, <1>10, <2>1 DEF ShowCursor, ModesInv, plotVars, cursorVars, textVars
  <2> QED
    BY <1>10, <2>2, QuietKeeps DEF ShowCursor, plotVars
<1> QED
  BY <1>4, <1>5, <1>6, <1>7, <1>8, <1>9, <1>10

\* The initial states.
LEMMA InitKeeps ==
    ASSUME Init PROVE IInv /\ S!ScreenInit
<1> DEFINE Glyphed(s) == [i \in Cells |-> Char(s[i], text)]
<1>0. /\ text = DefaultText /\ queue = <<>> /\ map = [i \in Cells |-> NULL]
      /\ cursor_x = 0 /\ cursor_y = 0 /\ old_cursor = [x |-> 0, y |-> 0]
      /\ fb = FullRefresh(grid)
      /\ saved = [text |-> [fg |-> Black, bg |-> Black], x |-> 0, y |-> 0]
      /\ cursor_enabled = TRUE /\ scroll_enabled = TRUE
      /\ scroll_top_margin = 0 /\ scroll_bottom_margin = Rows /\ calls = 0
  BY DEF Init
<1>1. PICK s \in Screens : grid = [i \in Cells |-> Char(s[i], text)]
  BY DEF Init
<1>2. Cols \in Nat /\ Rows \in Nat /\ Rows >= 2 /\ Cols >= 2 /\ MaxCalls \in Nat /\ 0 \in Cells
  <2>1. Cols \in Nat /\ Rows \in Nat /\ Rows >= 2 /\ Cols >= 2 /\ MaxCalls \in Nat
    <3>1. MaxCalls \in Nat
      BY FbAssumption
    <3> QED
      BY <3>1, Sizes
  <2>2. 0 * Cols + 0 \in Cells
    BY <2>1, CellNumber
  <2> QED
    BY <2>1, <2>2
<1>3. text \in Text /\ \A i \in Cells : s[i] \in Glyphs /\ Char(s[i], text) \in Chars
  <2>1. text \in Text
    BY <1>0, TextTypes
  <2>2. s \in [Cells -> Glyphs]
    BY FbAssumption DEF Cells
  <2> QED
    BY <2>1, <2>2, TextTypes
<1>4. grid \in [Cells -> Chars]
  BY <1>1, <1>3
<1>5. fb = [grid EXCEPT ![0] = Swapped(grid[0])] /\ fb \in [Cells -> Chars]
  <2>1. fb = [grid EXCEPT ![0] = Swapped(grid[0])]
    BY <1>0 DEF FullRefresh
  <2>2. Swapped(grid[0]) \in Chars
    BY <1>2, <1>4, SwappedType
  <2> QED
    BY <1>4, <2>1, <2>2
<1>6. ModesInv
  <2>1. [fg |-> Black, bg |-> Black] \in Text
    BY TextTypes DEF Text
  <2> QED
    BY <1>0, <1>2, <1>3, <2>1 DEF ModesInv
<1>7. CellsInv
  <2>1. map \in [Cells -> Nat] /\ \A i \in Cells : map[i] = NULL
    BY <1>0 DEF NULL
  <2>2. queue \in Seq(Items(Chars)) /\ DOMAIN queue = {}
    BY <1>0
  <2>3. BufferOK(Buffer, Chars)
    BY <2>1, <2>2 DEF BufferOK, Buffer
  <2> QED
    BY <1>4, <1>5, <2>3 DEF CellsInv
<1>8. FbShowsGrid
  <2> SUFFICES ASSUME NEW i \in Cells
               PROVE  \/ fb[i] = grid[i]
                      \/ /\ fb[i] = Swapped(grid[i])
                         /\ old_cursor.x < Cols /\ i = old_cursor.y * Cols + old_cursor.x
    BY DEF FbShowsGrid
  <2>1. CASE i = 0
    BY <1>0, <1>2, <1>4, <1>5, <2>1
  <2>2. CASE i # 0
    BY <1>2, <1>4, <1>5, <2>2
  <2> QED
    BY <2>1, <2>2
<1>9. \A i \in Cells : Current(Buffer, i) = grid[i]
  BY <1>0 DEF Current, Buffer
<1>10. CellsOf(Buffer) = grid
  BY <1>4, <1>9 DEF CellsOf
<1>11. S!ScreenInit
  <2>1. text \in S!Attributes
    BY <1>3 DEF S!Attributes, Text
  <2>2. grid \in [S!Cells -> [c : Glyphs, fg : {text.fg}, bg : {text.bg}]]
    BY <1>1, <1>3 DEF S!Cells, Cells, Char
  <2>3. fb = S!Picture
    <3>1. \A i \in Cells : (S!OnScreen(cursor_x, cursor_y) /\ i = S!CellAt(cursor_x, cursor_y)) <=> i = 0
      BY <1>0, <1>2 DEF S!OnScreen, S!CellAt
    <3>2. S!Picture = [i \in Cells |->
              IF cursor_enabled /\ S!OnScreen(cursor_x, cursor_y) /\ i = S!CellAt(cursor_x, cursor_y)
              THEN S!Inverted(CellsOf(Buffer)[i]) ELSE CellsOf(Buffer)[i]]
      BY DEF S!Picture, S!Cells, Cells, CellsOf
    <3>3. S!Picture = [i \in Cells |-> IF i = 0 THEN Swapped(grid[i]) ELSE grid[i]]
      BY <1>0, <1>10, <3>1, <3>2 DEF S!Inverted, Swapped
    <3> QED
      BY <1>2, <1>4, <1>5, <3>3
  <2> QED
    BY <1>0, <1>10, <2>1, <2>2, <2>3 DEF S!ScreenInit, CellsOf
<1> QED
  BY <1>6, <1>7, <1>8, <1>11 DEF IInv

\* Every step, the stuttering one included.
LEMMA NextKeeps ==
    ASSUME IInv, [Next]_vars PROVE Keeps
<1>1. CASE UNCHANGED vars
  <2>1. ModesInv'
    BY <1>1 DEF IInv, ModesInv, vars
  <2> QED
    BY <1>1, <2>1, QuietKeeps DEF vars, cellVars
<1>2. CASE Next
  BY <1>2, PutcharKeeps, ScrollKeeps, RevscrollKeeps, MoveKeeps, ClearKeeps, FlushKeeps, ParserKeeps
     DEF Next
<1> QED
  BY <1>1, <1>2

----
\* What the invariant says of the properties.

\* The queue is no longer than the screen has cells.
LEMMA QueueFits ==
    ASSUME IInv PROVE Len(queue) \in 0 .. Rows * Cols /\ map \in [Cells -> 0 .. Rows * Cols]
<1> DEFINE n == Len(queue)
           S0 == 1 .. n
           Place(k) == queue[k].y * Cols + queue[k].x
<1>1. /\ queue \in Seq(Items(Chars)) /\ map \in [Cells -> Nat]
      /\ \A k \in DOMAIN queue : map[Place(k)] = k
      /\ \A i \in Cells : map[i] # NULL => map[i] \in DOMAIN queue
  BY DEF IInv, CellsInv, BufferOK, Buffer
<1>2. n \in Nat /\ DOMAIN queue = S0
  BY <1>1
<1>3. \A k \in S0 : Place(k) \in Cells
  <2> SUFFICES ASSUME NEW k \in S0 PROVE Place(k) \in Cells
    OBVIOUS
  <2>1. queue[k] \in Items(Chars)
    BY <1>1, <1>2
  <2> QED
    BY <2>1, CellNumber DEF Items
<1>4. Rows * Cols \in Nat /\ Cells = 0 .. Rows * Cols - 1
  <2>1. Rows \in Nat /\ Cols \in Nat
    BY Sizes
  <2> QED
    BY <2>1 DEF Cells
<1> DEFINE m == Rows * Cols
           f == [k \in S0 |-> Place(k)]
<1>5. f \in [S0 -> Cells] /\ \A j, k \in S0 : f[j] = f[k] => j = k
  BY <1>1, <1>2, <1>3
<1>6. n <= m
  <2> SUFFICES ASSUME ~(n <= m) PROVE FALSE
    OBVIOUS
  <2> HIDE DEF m, n, f
  <2>1. IsFiniteSet(S0) /\ Cardinality(S0) = n
    BY <1>2, FS_Interval
  <2>2. m \in Nat /\ Cells = 0 .. m - 1
    BY <1>4 DEF m
  <2>3. IsFiniteSet(Cells) /\ Cardinality(Cells) = m
    BY <2>2, FS_Interval
  <2>4. Cardinality(S0) > Cardinality(Cells)
    BY <1>2, <2>1, <2>2, <2>3
  <2>5. \E j, k \in S0 : j # k /\ f[j] = f[k]
    BY <1>5, <2>1, <2>3, <2>4, FS_PigeonHole
  <2> QED
    BY <1>5, <2>5
<1>7. map \in [Cells -> 0 .. m]
  <2> HIDE DEF m
  <2>1. m \in Nat
    BY <1>4 DEF m
  <2>2. \A i \in Cells : map[i] \in 0 .. m
    BY <1>1, <1>2, <1>6, <2>1 DEF NULL
  <2> QED
    BY <1>1, <2>2
<1> QED
  BY <1>2, <1>4, <1>6, <1>7

\* Types and the exact queue.
LEMMA TypesHold ==
    ASSUME IInv PROVE TypeOK /\ QueueIsExact
<1>1. Len(queue) <= Rows * Cols /\ map \in [Cells -> 0 .. Rows * Cols]
  BY QueueFits
<1>2. queue \in Seq([x : 0 .. Cols - 1, y : 0 .. Rows - 1, c : Chars])
  BY DEF IInv, CellsInv, BufferOK, Buffer, Items
<1>3. TypeOK
  BY <1>1, <1>2 DEF TypeOK, IInv, ModesInv, CellsInv, Text, Chars
<1>4. QueueIsExact
  BY DEF QueueIsExact, IInv, CellsInv, BufferOK, Buffer
<1> QED
  BY <1>3, <1>4

\* The cursor's row, action by action.
LEMMA RowStays ==
    ASSUME IInv, [Next]_vars, scroll_top_margin = 0, scroll_bottom_margin = Rows,
           cursor_y < Rows, saved.y < Rows
    PROVE  cursor_y' < Rows
<1>1. cursor_y \in Nat /\ Cols \in Nat /\ Rows \in Nat /\ Cols >= Rows /\ Rows >= 2
  BY Numbers DEF IInv
<1>2. \A y \in Int : Clamp(y, Rows) < Rows
  BY <1>1 DEF Clamp
<1>3. CASE raw_putchar
  <2> DEFINE wraps == cursor_x >= Cols /\ (cursor_y < scroll_bottom_margin - 1 \/ scroll_enabled)
             line == IF wraps THEN NextLine(Buffer) ELSE [buffer |-> Buffer, y |-> cursor_y]
  <2>1. cursor_y' = line.y
    BY <1>3 DEF raw_putchar
  <2>2. NextLine(Buffer).y < Rows
    BY <1>1 DEF NextLine
  <2> QED
    BY <2>1, <2>2
<1>4. CASE clear
  <2>1. cursor_y' = 0 \/ cursor_y' = cursor_y
    BY <1>4 DEF clear, cursorVars
  <2> QED
    BY <1>1, <2>1
<1>5. CASE MoveCursor
  BY <1>1, <1>2, <1>5 DEF MoveCursor, set_cursor_pos
<1>6. CASE SetMargins
  BY <1>2, <1>6 DEF SetMargins, set_cursor_pos
<1>7. CASE restore_state
  BY <1>7 DEF restore_state
<1>8. CASE \/ scroll \/ revscroll \/ move_character \/ set_text \/ save_state
           \/ double_buffer_flush \/ ControlSequence \/ ShowCursor \/ UNCHANGED vars
  <2>1. UNCHANGED cursorVars
    BY <1>8 DEF scroll, revscroll, move_character, set_text, save_state, double_buffer_flush,
                ControlSequence, ShowCursor, vars, cursorVars
  <2> QED
    BY <2>1 DEF cursorVars
<1> QED
  BY <1>3, <1>4, <1>5, <1>6, <1>7, <1>8 DEF Next

----
\* The theorems.

\* The inductive invariant holds in every state.
LEMMA Invariant == Spec => []IInv
<1>1. Init => IInv
  BY InitKeeps
<1>2. IInv /\ [Next]_vars => IInv'
  BY NextKeeps DEF Keeps
<1> QED
  BY <1>1, <1>2, PTL DEF Spec

(* Every variable keeps its type, and the queue never holds more items than *)
(* the screen has cells: push_to_queue never writes behind the array that   *)
(* flanterm_fb_init allocates, on a screen of any size.                     *)
THEOREM ConsoleTypesCorrect == Spec => []TypeOK
<1>1. IInv => TypeOK
  BY TypesHold
<1> QED
  BY <1>1, Invariant, PTL

(* The queue and the map belong together one to one between any two calls,  *)
(* whatever region scrolls and whatever is written.                         *)
THEOREM QueueStaysExact == Spec => []QueueIsExact
<1>1. IInv => QueueIsExact
  BY TypesHold
<1> QED
  BY <1>1, Invariant, PTL

(* The framebuffer shows the grid, but for the cell of the cursor as of the *)
(* last flush (Plot, draw_cursor and the end of the flush).                 *)
THEOREM FramebufferFollows == Spec => []FbShowsGrid
<1>1. IInv => FbShowsGrid
  BY DEF IInv
<1> QED
  BY <1>1, Invariant, PTL

(* While the whole screen scrolls, no call takes the cursor's row off it:   *)
(* raw_putchar compares the row with the number of columns, which is enough *)
(* because a screen is never higher than wide.                              *)
THEOREM RowStaysOnScreen == Spec => CursorRowOnScreen
<1>1. IInv /\ [Next]_vars =>
        [ /\ scroll_top_margin = 0 /\ scroll_bottom_margin = Rows
          /\ cursor_y < Rows /\ saved.y < Rows
          => cursor_y' < Rows ]_vars
  BY RowStays
<1> QED
  BY <1>1, Invariant, PTL DEF Spec, CursorRowOnScreen

(* The queue is invisible: every call is a step of a screen whose cells     *)
(* change at once, and the flush shows exactly that screen (fb.c's calls    *)
(* implement the grid of cells that flanterm.c writes to).                  *)
THEOREM QueueIsInvisible == Spec => ImplementsScreen
<1>1. Init => S!ScreenInit
  BY InitKeeps
<1>2. IInv /\ [Next]_vars => [S!ScreenNext]_S!screenVars
  BY NextKeeps DEF Keeps
<1> QED
  BY <1>1, <1>2, Invariant, PTL DEF Spec, ImplementsScreen, S!ScreenSpec
====
