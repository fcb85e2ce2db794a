---- MODULE PrintfProofs ----
(***************************************************************************)
(* What printf.c promises, for every format, every size of the integers,   *)
(* of the conversion buffer and of the caller's.                            *)
(*                                                                         *)
(* The digits, which the code makes from the last one on, are the numeral  *)
(* read backwards (NtoaIsNumeral); out_fct of a text in two parts is that   *)
(* of the parts (OutFctInParts).  From there on it is counting: each step   *)
(* of _ntoa_format is stated as what it appends (PlainFormat, ZeroFormat)   *)
(* and compared with the parts of the number as C writes it.  CallInv says  *)
(* what each byte of the buffer holds at any moment of a call.              *)
(***************************************************************************)
EXTENDS Printf, FiniteSetTheorems, WellFoundedInduction, TLAPS

----
\* The inductions below.

\* A set of numbers that is not empty has a least element.
LEMMA LeastElement ==
    ASSUME NEW T, T \subseteq Nat, T # {}
    PROVE  \E x \in T : \A y \in T : x <= y
<1> DEFINE R == OpToRel(<, Nat)
<1>1. IsWellFoundedOn(R, Nat)
  BY NatLessThanWellFounded
<1>2. \A a, b \in Nat : a < b => <<a, b>> \in R
  BY DEF OpToRel
<1> HIDE DEF R
<1>3. PICK x \in T : \A y \in T : <<y, x>> \notin R
  BY <1>1, WFMin
<1>4. ASSUME NEW y \in T PROVE x <= y
  <2>1. ~(y < x)
    BY <1>2, <1>3
  <2> QED
    BY <2>1
<1> QED
  BY <1>4

\* What holds at 0 and goes on from each number to the next holds up to n.
LEMMA UpTo ==
    ASSUME NEW n \in Nat, NEW P, 0 \in P, \A k \in 0 .. n - 1 : k \in P => k + 1 \in P
    PROVE  \A k \in 0 .. n : k \in P
<1> DEFINE T == {k \in 0 .. n : k \notin P}
<1>1. CASE T = {}
  BY <1>1
<1>2. CASE T # {}
  <2>0. T \subseteq Nat
    OBVIOUS
  <2>1. PICK m \in T : \A k \in T : m <= k
    <3> HIDE DEF T
    <3> QED
      BY <1>2, <2>0, LeastElement
  <2>2. m \in 1 .. n /\ m - 1 \in 0 .. n - 1 /\ m - 1 \in 0 .. n
    BY <2>1
  <2>3. m - 1 \in P
    BY <2>1, <2>2
  <2>4. m - 1 + 1 \in P
    BY <2>2, <2>3
  <2> QED
    BY <2>1, <2>2, <2>4
<1> QED
  BY <1>1, <1>2


----
\* Sequences of characters.

LEMMA SameSequence ==
    ASSUME NEW S, NEW s \in Seq(S), NEW t \in Seq(S), Len(s) = Len(t),
           \A i \in 1 .. Len(s) : s[i] = t[i]
    PROVE  s = t
OBVIOUS

LEMMA Repeats ==
    ASSUME NEW c \in Chars, NEW n \in Nat
    PROVE  Repeat(c, n) \in Seq(Chars) /\ Len(Repeat(c, n)) = n /\ \A i \in 1 .. n : Repeat(c, n)[i] = c
BY DEF Repeat

LEMMA Pads ==
    ASSUME NEW n \in Int, NEW m \in Nat
    PROVE  /\ PadTo(n, m) \in Seq(Chars) /\ Len(PadTo(n, m)) = Larger(n - m, 0)
           /\ Len(PadTo(n, m)) \in Nat /\ Len(PadTo(n, m)) >= n - m
           /\ \A i \in 1 .. Len(PadTo(n, m)) : PadTo(n, m)[i] = Blank
<1>1. Larger(n - m, 0) \in Nat /\ Larger(n - m, 0) >= n - m
  BY DEF Larger
<1>2. Blank \in Chars
  BY DEF Blank, Chars
<1> QED
  BY <1>1, <1>2, Repeats DEF PadTo

LEMMA Joined ==
    ASSUME NEW s \in Seq(Chars), NEW t \in Seq(Chars)
    PROVE  /\ s \o t \in Seq(Chars) /\ Len(s \o t) = Len(s) + Len(t)
           /\ \A i \in 1 .. Len(s) : (s \o t)[i] = s[i]
           /\ \A i \in 1 .. Len(t) : (s \o t)[Len(s) + i] = t[i]
OBVIOUS

LEMMA Reversed ==
    ASSUME NEW s \in Seq(Chars)
    PROVE  /\ Reverse(s) \in Seq(Chars) /\ Len(Reverse(s)) = Len(s)
           /\ \A i \in 1 .. Len(s) : Reverse(s)[i] = s[Len(s) - i + 1]
BY DEF Reverse

LEMMA Beginning ==
    ASSUME NEW s \in Seq(Chars), NEW n \in 0 .. Len(s)
    PROVE  /\ SubSeq(s, 1, n) \in Seq(Chars) /\ Len(SubSeq(s, 1, n)) = n
           /\ \A i \in 1 .. n : SubSeq(s, 1, n)[i] = s[i]
OBVIOUS

LEMMA WholeBeginning ==
    ASSUME NEW s \in Seq(Chars)
    PROVE  SubSeq(s, 1, Len(s)) = s
OBVIOUS

LEMMA FitsIn ==
    ASSUME NEW s \in Seq(Chars), NEW t \in Seq(Chars)
    PROVE  /\ Fits(s, t) \in Seq(Chars) /\ Len(Fits(s, t)) = Smaller(Len(s) + Len(t), NtoaSize)
           /\ Len(s) + Len(t) <= NtoaSize => Fits(s, t) = s \o t
<1> DEFINE u == s \o t
           n == Smaller(Len(u), NtoaSize)
<1>1. u \in Seq(Chars) /\ Len(u) = Len(s) + Len(t)
  BY Joined
<1>2. NtoaSize \in Nat
  BY PrintfAssumption DEF PrintfAssumption
<1>3. Fits(s, t) = SubSeq(u, 1, n)
  BY DEF Fits
<1> HIDE DEF u
<1>4. n \in 0 .. Len(u) /\ (Len(u) <= NtoaSize => n = Len(u))
  BY <1>1, <1>2 DEF Smaller
<1> HIDE DEF n
<1>5. SubSeq(u, 1, n) \in Seq(Chars) /\ Len(SubSeq(u, 1, n)) = n /\ SubSeq(u, 1, Len(u)) = u
  BY <1>1, <1>4, Beginning, WholeBeginning
<1> QED
  BY <1>1, <1>3, <1>4, <1>5 DEF n, u

----
\* The digits of a number.

Bases == {2, 8, 10, 16}

LEMMA Divided ==
    ASSUME NEW b \in Bases, NEW k \in Nat
    PROVE  /\ k % b \in 0 .. 15 /\ k % b \in Chars
           /\ k >= b => k \div b \in 0 .. k - 1
           /\ k < b => k \in Chars
<1>1. CASE b = 2
  BY <1>1 DEF Chars
<1>2. CASE b = 8
  BY <1>2 DEF Chars
<1>3. CASE b = 10
  BY <1>3 DEF Chars
<1>4. CASE b = 16
  BY <1>4 DEF Chars
<1> QED
  BY <1>1, <1>2, <1>3, <1>4 DEF Bases

\* A function that looks back at the quotient is defined for every number.
IsRun(f, S, n, b, I, F) ==
    /\ f \in [0 .. n -> S]
    /\ \A k \in 0 .. n : f[k] = IF k < b THEN I[k] ELSE F[k, f[k \div b]]

LEMMA RunExists ==
    ASSUME NEW S, NEW n \in Nat, NEW b \in Bases, NEW I \in [0 .. n -> S],
           NEW F \in [(0 .. n) \X S -> S]
    PROVE  \E f : IsRun(f, S, n, b, I, F)
<1> DEFINE q(k) == k \div b
           Ok(f, m) == /\ f \in [0 .. m -> S]
                       /\ \A k \in 0 .. m : f[k] = IF k < b THEN I[k] ELSE F[k, f[q(k)]]
           P == {m \in 0 .. n : \E f : Ok(f, m)}
<1>0. b \in Nat /\ b >= 2
  BY DEF Bases
<1>a. \A k \in Nat : k >= b => q(k) \in 0 .. k - 1
  BY Divided
<1> HIDE DEF q
<1>1. 0 \in P
  <2> DEFINE z == [k \in 0 .. 0 |-> I[0]]
  <2>1. 0 \in 0 .. n /\ 0 < b /\ 0 .. 0 = {0} /\ I[0] \in S
    BY <1>0
  <2>2. z \in [0 .. 0 -> S] /\ z[0] = I[0]
    BY <2>1
  <2>3. Ok(z, 0)
    <3> HIDE DEF z
    <3> QED
      BY <2>1, <2>2
  <2> HIDE DEF Ok
  <2> QED
    BY <2>1, <2>3
<1>2. ASSUME NEW m \in 0 .. n - 1, m \in P PROVE m + 1 \in P
  <2>1. PICK f : Ok(f, m)
    BY <1>2
  <2> DEFINE l == m + 1
             e == IF l < b THEN I[l] ELSE F[l, f[q(l)]]
             g == [k \in 0 .. l |-> IF k = l THEN e ELSE f[k]]
  <2>2. l \in 0 .. n /\ l \in Nat /\ 0 .. l = 0 .. m \cup {l} /\ l \notin 0 .. m /\ l - 1 = m
    OBVIOUS
  <2> HIDE DEF l
  <2>3. e \in S
    <3>1. l >= b => F[l, f[q(l)]] \in S
      <4> SUFFICES ASSUME l >= b PROVE F[l, f[q(l)]] \in S
        OBVIOUS
      <4>1. q(l) \in 0 .. m
        BY <1>a, <2>2
      <4>2. f[q(l)] \in S
        BY <2>1, <4>1
      <4> QED
        BY <2>2, <4>2
    <3>2. I[l] \in S /\ (l < b \/ l >= b)
      BY <1>0, <2>2
    <3> QED
      BY <3>1, <3>2
  <2>3a. e = IF l < b THEN I[l] ELSE F[l, f[q(l)]]
    OBVIOUS
  <2> HIDE DEF e
  <2>4. g \in [0 .. l -> S]
    BY <2>1, <2>2, <2>3
  <2>4a. g[l] = e /\ \A k \in 0 .. m : g[k] = f[k]
    BY <2>2
  <2> HIDE DEF g
  <2>5. ASSUME NEW k \in 0 .. l PROVE g[k] = IF k < b THEN I[k] ELSE F[k, g[q(k)]]
    <3>1. k \in Nat /\ (k >= b \/ k < b)
      BY <1>0, <2>2
    <3>2. k >= b => g[q(k)] = f[q(k)]
      <4>1. k >= b => q(k) \in 0 .. m
        BY <1>a, <2>2, <3>1
      <4> QED
        BY <2>4a, <4>1
    <3>3. CASE k = l
      BY <1>0, <2>3a, <2>4a, <3>1, <3>2, <3>3
    <3>4. CASE k # l
      <4>1. k \in 0 .. m /\ g[k] = f[k]
        BY <2>2, <2>4a, <3>4
      <4>2. f[k] = IF k < b THEN I[k] ELSE F[k, f[q(k)]]
        BY <2>1, <4>1
      <4> QED
        BY <1>0, <3>1, <3>2, <4>1, <4>2
    <3> QED
      BY <3>3, <3>4
  <2>6. Ok(g, l)
    BY <2>4, <2>5
  <2> HIDE DEF Ok
  <2>7. l \in P
    BY <2>2, <2>6
  <2> QED
    BY <2>7 DEF l
<1>3. n \in P
  <2> HIDE DEF P
  <2>1. \A m \in 0 .. n : m \in P
    BY <1>1, <1>2, UpTo
  <2> QED
    BY <2>1
<1> QED
  BY <1>3 DEF IsRun, q

\* What holds of a number whenever it holds of all smaller ones.
LEMMA UpToAll ==
    ASSUME NEW n \in Nat, NEW P,
           \A k \in 0 .. n : (\A j \in 0 .. n : j < k => j \in P) => k \in P
    PROVE  \A k \in 0 .. n : k \in P
<1> DEFINE T == {k \in 0 .. n : k \notin P}
<1>1. CASE T = {}
  BY <1>1
<1>2. CASE T # {}
  <2>0. T \subseteq Nat
    OBVIOUS
  <2>1. PICK m \in T : \A k \in T : m <= k
    <3> HIDE DEF T
    <3> QED
      BY <1>2, <2>0, LeastElement
  <2>2. m \in 0 .. n /\ m \notin P
    OBVIOUS
  <2>3. \A j \in 0 .. n : j < m => j \in P
    BY <2>1, <2>2
  <2> QED
    BY <2>2, <2>3
<1> QED
  BY <1>1, <1>2

\* From the last digit on, as the code makes them, and from the first.
LastFirst(n, b) ==
    LET digits[k \in 0 .. n] == IF k < b THEN <<k>> ELSE <<k % b>> \o digits[k \div b] IN digits[n]

LEMMA LastFirstRun ==
    ASSUME NEW n \in Nat, NEW b \in Bases
    PROVE  \E f : /\ f \in [0 .. n -> Seq(Chars)] /\ f[n] = LastFirst(n, b)
                  /\ \A k \in 0 .. n : f[k] = IF k < b THEN <<k>> ELSE <<k % b>> \o f[k \div b]
<1> DEFINE S == Seq(Chars)
           I == [k \in 0 .. n |-> IF k < b THEN <<k>> ELSE <<>>]
           F == [p \in (0 .. n) \X S |-> <<p[1] % b>> \o p[2]]
           E(f) == [k \in 0 .. n |-> IF k < b THEN <<k>> ELSE <<k % b>> \o f[k \div b]]
           d == CHOOSE f : f = E(f)
<1>1. I \in [0 .. n -> S] /\ \A k \in 0 .. n : k < b => I[k] = <<k>>
  BY Divided
<1>2. /\ F \in [(0 .. n) \X S -> S]
      /\ \A k \in 0 .. n, s \in S : F[k, s] = <<k % b>> \o s
  <2>1. \A c \in Chars, s \in S : <<c>> \o s \in S
    OBVIOUS
  <2>2. \A k \in 0 .. n : k % b \in Chars
    BY Divided
  <2>3. \A p \in (0 .. n) \X S : p[1] \in 0 .. n /\ p[2] \in S
    OBVIOUS
  <2> HIDE DEF S
  <2>4. \A p \in (0 .. n) \X S : <<p[1] % b>> \o p[2] \in S
    BY <2>1, <2>2, <2>3
  <2> QED
    BY <2>4
<1>3. LastFirst(n, b) = d[n]
  BY DEF LastFirst
<1> HIDE DEF I, F
<1>4. PICK f : IsRun(f, S, n, b, I, F)
  BY <1>1, <1>2, RunExists
<1>5. ASSUME NEW k \in 0 .. n PROVE f[k] = IF k < b THEN <<k>> ELSE <<k % b>> \o f[k \div b]
  <2>1. k < b \/ k >= b
    BY DEF Bases
  <2>2. k >= b => f[k \div b] \in S
    <3>1. k >= b => k \div b \in 0 .. n
      BY Divided
    <3> QED
      BY <1>4, <3>1 DEF IsRun
  <2> QED
    BY <1>1, <1>2, <1>4, <2>1, <2>2 DEF IsRun
<1>6. f = E(f)
  BY <1>4, <1>5 DEF IsRun
<1>7. d = E(d)
  BY <1>6
<1> HIDE DEF d
<1>8. \A k \in 0 .. n : d[k] = IF k < b THEN <<k>> ELSE <<k % b>> \o d[k \div b]
  BY <1>7
<1>9. d = [k \in 0 .. n |-> d[k]]
  BY <1>7
<1>10. ASSUME NEW k \in 0 .. n, \A j \in 0 .. n : j < k => d[j] \in S PROVE d[k] \in S
  <2>1. k >= b => k \div b \in 0 .. n /\ k \div b < k
    BY Divided
  <2>2. k % b \in Chars /\ (k < b => k \in Chars)
    BY Divided
  <2>3. k >= b => d[k \div b] \in S
    BY <1>10, <2>1
  <2>4. CASE k < b
    <3>1. d[k] = <<k>>
      BY <1>8, <2>4
    <3> QED
      BY <2>2, <2>4, <3>1
  <2>5. CASE k >= b
    <3> DEFINE c == k % b
               s == d[k \div b]
    <3>1. c \in Chars /\ s \in S /\ ~(k < b)
      BY <2>2, <2>3, <2>5 DEF Bases
    <3>2. d[k] = <<c>> \o s
      BY <1>8, <3>1
    <3> HIDE DEF c, s
    <3> QED
      BY <3>1, <3>2
  <2> QED
    BY <2>4, <2>5 DEF Bases
<1>11. \A k \in 0 .. n : d[k] \in S
  <2> DEFINE P == {k \in 0 .. n : d[k] \in S}
  <2>1. \A k \in 0 .. n : (\A j \in 0 .. n : j < k => j \in P) => k \in P
    BY <1>10
  <2>2. \A k \in 0 .. n : k \in P
    <3> HIDE DEF P
    <3> QED
      BY <2>1, UpToAll
  <2> QED
    BY <2>2
<1> QED
  BY <1>3, <1>8, <1>9, <1>11

LEMMA NumeralRun ==
    ASSUME NEW n \in Nat, NEW b \in Bases
    PROVE  \E f : /\ f \in [0 .. n -> Seq(Chars)] /\ f[n] = Numeral(n, b)
                  /\ \A k \in 0 .. n : f[k] = IF k < b THEN <<k>> ELSE Append(f[k \div b], k % b)
<1> DEFINE S == Seq(Chars)
           I == [k \in 0 .. n |-> IF k < b THEN <<k>> ELSE <<>>]
           F == [p \in (0 .. n) \X S |-> Append(p[2], p[1] % b)]
           E(f) == [k \in 0 .. n |-> IF k < b THEN <<k>> ELSE Append(f[k \div b], k % b)]
           d == CHOOSE f : f = E(f)
<1>1. I \in [0 .. n -> S] /\ \A k \in 0 .. n : k < b => I[k] = <<k>>
  BY Divided
<1>2. /\ F \in [(0 .. n) \X S -> S]
      /\ \A k \in 0 .. n, s \in S : F[k, s] = Append(s, k % b)
  <2>1. \A c \in Chars, s \in S : Append(s, c) \in S
    OBVIOUS
  <2>2. \A k \in 0 .. n : k % b \in Chars
    BY Divided
  <2>3. \A p \in (0 .. n) \X S : p[1] \in 0 .. n /\ p[2] \in S
    OBVIOUS
  <2> HIDE DEF S
  <2>4. \A p \in (0 .. n) \X S : Append(p[2], p[1] % b) \in S
    BY <2>1, <2>2, <2>3
  <2> QED
    BY <2>4
<1>3. Numeral(n, b) = d[n]
  BY DEF Numeral
<1> HIDE DEF I, F
<1>4. PICK f : IsRun(f, S, n, b, I, F)
  BY <1>1, <1>2, RunExists
<1>5. ASSUME NEW k \in 0 .. n PROVE f[k] = IF k < b THEN <<k>> ELSE Append(f[k \div b], k % b)
  <2>1. k < b \/ k >= b
    BY DEF Bases
  <2>2. k >= b => f[k \div b] \in S
    <3>1. k >= b => k \div b \in 0 .. n
      BY Divided
    <3> QED
      BY <1>4, <3>1 DEF IsRun
  <2> QED
    BY <1>1, <1>2, <1>4, <2>1, <2>2 DEF IsRun
<1>6. f = E(f)
  BY <1>4, <1>5 DEF IsRun
<1>7. d = E(d)
  BY <1>6
<1> HIDE DEF d
<1>8. \A k \in 0 .. n : d[k] = IF k < b THEN <<k>> ELSE Append(d[k \div b], k % b)
  BY <1>7
<1>9. d = [k \in 0 .. n |-> d[k]]
  BY <1>7
<1>10. ASSUME NEW k \in 0 .. n, \A j \in 0 .. n : j < k => d[j] \in S PROVE d[k] \in S
  <2>1. k >= b => k \div b \in 0 .. n /\ k \div b < k
    BY Divided
  <2>2. k % b \in Chars /\ (k < b => k \in Chars)
    BY Divided
  <2>3. k >= b => d[k \div b] \in S
    BY <1>10, <2>1
  <2>4. CASE k < b
    <3>1. d[k] = <<k>>
      BY <1>8, <2>4
    <3> QED
      BY <2>2, <2>4, <3>1
  <2>5. CASE k >= b
    <3> DEFINE c == k % b
               s == d[k \div b]
    <3>1. c \in Chars /\ s \in S /\ ~(k < b)
      BY <2>2, <2>3, <2>5 DEF Bases
    <3>2. d[k] = Append(s, c)
      BY <1>8, <3>1
    <3> HIDE DEF c, s
    <3> QED
      BY <3>1, <3>2
  <2> QED
    BY <2>4, <2>5 DEF Bases
<1>11. \A k \in 0 .. n : d[k] \in S
  <2> DEFINE P == {k \in 0 .. n : d[k] \in S}
  <2>1. \A k \in 0 .. n : (\A j \in 0 .. n : j < k => j \in P) => k \in P
    BY <1>10
  <2>2. \A k \in 0 .. n : k \in P
    <3> HIDE DEF P
    <3> QED
      BY <2>1, UpToAll
  <2> QED
    BY <2>2
<1> QED
  BY <1>3, <1>8, <1>9, <1>11

LEMMA ReversedWhole ==
    ASSUME NEW c \in Chars, NEW s \in Seq(Chars)
    PROVE  Reverse(<<c>>) = <<c>> /\ Reverse(<<c>> \o s) = Append(Reverse(s), c)
<1>1. Reverse(<<c>>) = <<c>>
  <2>0. <<c>> \in Seq(Chars) /\ Len(<<c>>) = 1 /\ <<c>>[1] = c
    OBVIOUS
  <2>1. Reverse(<<c>>) \in Seq(Chars) /\ Len(Reverse(<<c>>)) = 1 /\ Reverse(<<c>>)[1] = c
    BY <2>0 DEF Reverse
  <2> QED
    BY <2>1
<1>2. Reverse(<<c>> \o s) = Append(Reverse(s), c)
  <2> DEFINE u == <<c>> \o s
             l == Reverse(u)
             r == Append(Reverse(s), c)
             n == Len(s)
  <2>1. u \in Seq(Chars) /\ Len(u) = n + 1 /\ u[1] = c /\ \A i \in 1 .. n : u[i + 1] = s[i]
    BY Joined
  <2>2. Reverse(s) \in Seq(Chars) /\ Len(Reverse(s)) = n /\ n \in Nat
        /\ \A i \in 1 .. n : Reverse(s)[i] = s[n - i + 1]
    BY Reversed
  <2>3. r \in Seq(Chars) /\ Len(r) = n + 1 /\ r[n + 1] = c /\ \A i \in 1 .. n : r[i] = s[n - i + 1]
    BY <2>2
  <2> HIDE DEF u, n
  <2>4. l \in Seq(Chars) /\ Len(l) = n + 1 /\ \A i \in 1 .. n + 1 : l[i] = u[n + 1 - i + 1]
    <3>1. /\ Reverse(u) \in Seq(Chars) /\ Len(Reverse(u)) = Len(u)
          /\ \A i \in 1 .. Len(u) : Reverse(u)[i] = u[Len(u) - i + 1]
      BY <2>1, Reversed
    <3> DEFINE h == Len(u)
    <3>2. h = n + 1 /\ l = Reverse(u)
      BY <2>1
    <3>3. l \in Seq(Chars) /\ Len(l) = h /\ \A i \in 1 .. h : l[i] = u[h - i + 1]
      BY <3>1
    <3> HIDE DEF h, l
    <3> QED
      BY <2>2, <3>2, <3>3
  <2> HIDE DEF l, r
  <2>5. ASSUME NEW i \in 1 .. n + 1 PROVE l[i] = r[i]
    <3>1. CASE i = n + 1
      <4>1. n + 1 - i + 1 = 1
        BY <2>2, <3>1
      <4> QED
        BY <2>1, <2>3, <2>4, <3>1, <4>1
    <3>2. CASE i # n + 1
      <4>1. i \in 1 .. n /\ n - i + 1 \in 1 .. n /\ n + 1 - i + 1 = (n - i + 1) + 1
        BY <2>2, <3>2
      <4> QED
        BY <2>1, <2>3, <2>4, <4>1
    <3> QED
      BY <3>1, <3>2
  <2> QED
    BY <2>3, <2>4, <2>5, SameSequence DEF l, r, u
<1> QED
  BY <1>1, <1>2

\* ntoa makes the numeral from its end on, as far as the buffer goes.
LEMMA NtoaIsNumeral ==
    ASSUME NEW n \in Nat, NEW b \in Bases
    PROVE  /\ Numeral(n, b) \in Seq(Chars) /\ Len(Numeral(n, b)) \in Nat /\ Len(Numeral(n, b)) >= 1
           /\ ntoa(n, b) \in Seq(Chars)
           /\ Len(ntoa(n, b)) = Smaller(Len(Numeral(n, b)), NtoaSize)
           /\ Len(Numeral(n, b)) <= NtoaSize => Reverse(ntoa(n, b)) = Numeral(n, b)
<1>1. PICK f : /\ f \in [0 .. n -> Seq(Chars)] /\ f[n] = LastFirst(n, b)
               /\ \A k \in 0 .. n : f[k] = IF k < b THEN <<k>> ELSE <<k % b>> \o f[k \div b]
  BY LastFirstRun
<1>2. PICK g : /\ g \in [0 .. n -> Seq(Chars)] /\ g[n] = Numeral(n, b)
               /\ \A k \in 0 .. n : g[k] = IF k < b THEN <<k>> ELSE Append(g[k \div b], k % b)
  BY NumeralRun
<1>3. ASSUME NEW k \in 0 .. n, \A j \in 0 .. n : j < k => Reverse(f[j]) = g[j]
      PROVE  Reverse(f[k]) = g[k] /\ Len(f[k]) >= 1
  <2>1. CASE k < b
    <3>0. k \in Chars
      BY <2>1, Divided
    <3>1. k \in Chars /\ f[k] = <<k>> /\ g[k] = <<k>>
      BY <1>1, <1>2, <2>1, <3>0
    <3>2. Reverse(<<k>>) = <<k>>
      <4>1. <<>> \in Seq(Chars)
        OBVIOUS
      <4> QED
        BY <3>1, <4>1, ReversedWhole
    <3> QED
      BY <3>1, <3>2
  <2>2. CASE k >= b
    <3> DEFINE q == k \div b
               c == k % b
    <3>1. q \in 0 .. n /\ q < k /\ c \in Chars /\ ~(k < b)
      BY <2>2, Divided DEF Bases
    <3>2. f[k] = <<c>> \o f[q] /\ g[k] = Append(g[q], c)
      BY <1>1, <1>2, <3>1
    <3> HIDE DEF q, c
    <3>3. f[q] \in Seq(Chars) /\ Reverse(f[q]) = g[q]
      BY <1>1, <1>3, <3>1
    <3>4. Reverse(<<c>> \o f[q]) = Append(Reverse(f[q]), c)
      BY <3>1, <3>3, ReversedWhole
    <3>5. Len(<<c>> \o f[q]) = 1 + Len(f[q]) /\ Len(f[q]) \in Nat
      BY <3>1, <3>3
    <3> QED
      BY <3>2, <3>3, <3>4, <3>5
  <2> QED
    BY <2>1, <2>2 DEF Bases
<1>4. \A k \in 0 .. n : Reverse(f[k]) = g[k]
  <2> DEFINE P == {k \in 0 .. n : Reverse(f[k]) = g[k]}
  <2>1. \A k \in 0 .. n : (\A j \in 0 .. n : j < k => j \in P) => k \in P
    BY <1>3
  <2>2. \A k \in 0 .. n : k \in P
    <3> HIDE DEF P
    <3> QED
      BY <2>1, UpToAll
  <2> QED
    BY <2>2
<1> DEFINE r == LastFirst(n, b)
           m == Numeral(n, b)
<1>5. r \in Seq(Chars) /\ m \in Seq(Chars) /\ Reverse(r) = m /\ Len(r) >= 1
  BY <1>1, <1>2, <1>3, <1>4
<1>6. ntoa(n, b) = SubSeq(r, 1, Smaller(Len(r), NtoaSize))
  BY DEF ntoa, LastFirst
<1>7. NtoaSize \in Nat
  BY PrintfAssumption DEF PrintfAssumption
<1> HIDE DEF r, m
<1>8. Len(m) = Len(r) /\ Len(r) \in Nat
  BY <1>5, Reversed
<1> DEFINE l == Smaller(Len(r), NtoaSize)
<1>9. l \in 0 .. Len(r) /\ (Len(r) <= NtoaSize => l = Len(r))
  BY <1>7, <1>8 DEF Smaller
<1> HIDE DEF l
<1>10. SubSeq(r, 1, l) \in Seq(Chars) /\ Len(SubSeq(r, 1, l)) = l /\ SubSeq(r, 1, Len(r)) = r
  BY <1>5, <1>9, Beginning, WholeBeginning
<1>11. Len(m) <= NtoaSize => Reverse(ntoa(n, b)) = m
  BY <1>5, <1>6, <1>8, <1>9, <1>10 DEF l
<1>12. ntoa(n, b) \in Seq(Chars) /\ Len(ntoa(n, b)) = Smaller(Len(m), NtoaSize)
  BY <1>6, <1>8, <1>10 DEF l
<1> QED
  BY <1>5, <1>8, <1>11, <1>12 DEF m

----
\* Widths and signs.

LEMMA NothingJoined ==
    /\ <<>> \in Seq(Chars) /\ Len(<<>>) = 0
    /\ \A s \in Seq(Chars) : <<>> \o s = s /\ s \o <<>> = s
OBVIOUS

LEMMA Single ==
    ASSUME NEW c \in Chars
    PROVE  <<c>> \in Seq(Chars) /\ Len(<<c>>) = 1 /\ <<c>>[1] = c
OBVIOUS

LEMMA Signs ==
    ASSUME NEW negative \in BOOLEAN, NEW flags
    PROVE  /\ SignOf(negative, flags) \in Seq(Chars)
           /\ SignOf(negative, flags) = <<>> \/ Len(SignOf(negative, flags)) = 1
           /\ Len(SignOf(negative, flags)) \in {0, 1}
<1>1. /\ <<>> \in Seq(Chars) /\ <<Minus>> \in Seq(Chars) /\ <<Plus>> \in Seq(Chars)
      /\ <<Blank>> \in Seq(Chars)
  BY DEF Chars, Minus, Plus, Blank
<1> QED
  BY <1>1 DEF SignOf

LEMMA ZerosPad ==
    ASSUME NEW buf \in Seq(Chars), NEW n \in Int
    PROVE  LET z == Larger(n - Len(buf), 0)
           IN  /\ z \in Nat /\ Repeat(0, z) \in Seq(Chars) /\ Len(Repeat(0, z)) = z
               /\ Zeros(buf, n) \in Seq(Chars)
               /\ Len(Zeros(buf, n)) = Smaller(Len(buf) + z, NtoaSize)
               /\ Len(buf) + z <= NtoaSize => Zeros(buf, n) = buf \o Repeat(0, z)
<1> DEFINE z == Larger(n - Len(buf), 0)
<1>1. z \in Nat
  BY DEF Larger
<1>2. 0 \in Chars
  BY DEF Chars
<1>a. Zeros(buf, n) = Fits(buf, Repeat(0, z))
  BY DEF Zeros
<1> HIDE DEF z
<1>3. Repeat(0, z) \in Seq(Chars) /\ Len(Repeat(0, z)) = z
  BY <1>1, <1>2, Repeats
<1> DEFINE r == Repeat(0, z)
<1>4. /\ Fits(buf, r) \in Seq(Chars) /\ Len(Fits(buf, r)) = Smaller(Len(buf) + Len(r), NtoaSize)
      /\ Len(buf) + Len(r) <= NtoaSize => Fits(buf, r) = buf \o r
  BY <1>3, FitsIn
<1> QED
  BY <1>1, <1>3, <1>4, <1>a DEF z

\* The places a prefix takes are given back.
LEMMA HashedKeepsLength ==
    ASSUME NEW buf \in Seq(Chars), NEW base \in Bases, NEW prec, NEW width \in Nat
    PROVE  /\ Hashed(buf, base, prec, width) \in Seq(Chars)
           /\ Len(Hashed(buf, base, prec, width)) >= Smaller(Len(buf), NtoaSize)
<1> DEFINE taken == IF prec = NoPrecision /\ buf # <<>> /\ Len(buf) = width
                    THEN Smaller(Len(buf), IF base = 16 THEN 2 ELSE 1) ELSE 0
           letter == IF base = 16 THEN <<LetterX>> ELSE IF base = 2 THEN <<LetterB>> ELSE <<>>
           m == Len(buf) - taken
           s == SubSeq(buf, 1, m)
           t == Fits(s, letter)
<1>0. NtoaSize \in Nat /\ NtoaSize > 0 /\ Len(buf) \in Nat
  BY PrintfAssumption DEF PrintfAssumption
<1>1. taken \in Nat /\ taken <= Len(buf) /\ taken <= 2 /\ (base # 16 => taken <= 1)
  BY <1>0 DEF Smaller
<1>2. /\ letter \in Seq(Chars) /\ Len(letter) \in {0, 1} /\ (base = 16 => Len(letter) = 1)
      /\ <<0>> \in Seq(Chars) /\ Len(<<0>>) = 1
  <2>1. LetterX \in Chars /\ LetterB \in Chars /\ 0 \in Chars
    BY DEF LetterX, LetterB, Chars
  <2>2. /\ <<LetterX>> \in Seq(Chars) /\ Len(<<LetterX>>) = 1
        /\ <<LetterB>> \in Seq(Chars) /\ Len(<<LetterB>>) = 1
        /\ <<0>> \in Seq(Chars) /\ Len(<<0>>) = 1
    BY <2>1, Single
  <2>3. letter \in {<<LetterX>>, <<LetterB>>, <<>>} /\ (base = 16 => letter = <<LetterX>>)
    OBVIOUS
  <2> HIDE DEF letter
  <2> QED
    BY <2>2, <2>3, NothingJoined
<1>3. Hashed(buf, base, prec, width) = Fits(t, <<0>>)
  BY DEF Hashed
<1> HIDE DEF taken, letter
<1>4. m \in 0 .. Len(buf)
  BY <1>0, <1>1
<1> HIDE DEF m
<1>5. s \in Seq(Chars) /\ Len(s) = m
  BY <1>4, Beginning
<1> HIDE DEF s
<1>6. t \in Seq(Chars) /\ Len(t) = Smaller(m + Len(letter), NtoaSize)
  BY <1>2, <1>5, FitsIn
<1> HIDE DEF t
<1>7. Fits(t, <<0>>) \in Seq(Chars) /\ Len(Fits(t, <<0>>)) = Smaller(Len(t) + 1, NtoaSize)
  BY <1>2, <1>6, FitsIn
<1> DEFINE h == Len(Fits(t, <<0>>))
           n == Len(buf)
           l == Len(letter)
           u == Len(t)
<1>8. h = Smaller(u + 1, NtoaSize) /\ u = Smaller(m + l, NtoaSize) /\ m = n - taken /\ n \in Nat
      /\ l \in {0, 1} /\ (base = 16 => l = 1)
  BY <1>0, <1>2, <1>6, <1>7 DEF m
<1> HIDE DEF h, n, l, u
<1>9. h >= Smaller(n, NtoaSize)
  <2>1. taken <= l + 1
    BY <1>1, <1>8
  <2> QED
    BY <1>0, <1>1, <1>8, <2>1 DEF Smaller
<1> QED
  BY <1>3, <1>7, <1>9 DEF h, n

\* A number fills its width: with blanks however wide it is, with zeros as long
\* as the buffer holds that many.
ToFill(width, flags) ==
    IF "0" \in flags /\ "-" \notin flags THEN Smaller(width, NtoaSize) ELSE width

LEMMA FormatFills ==
    ASSUME NEW digits \in Seq(Chars), NEW negative \in BOOLEAN, NEW base \in Bases, NEW prec \in Int,
           NEW width \in Nat, NEW flags
    PROVE  LET text == ntoa_format(digits, negative, base, prec, width, flags)
           IN  text \in Seq(Chars) /\ Len(text) >= ToFill(width, flags)
<1> DEFINE left == "-" \in flags
           zeropad == "0" \in flags
           sign == SignOf(negative, flags)
           w == IF ~left /\ zeropad /\ width > 0 /\ sign # <<>> THEN width - 1 ELSE width
           precise == IF left THEN digits ELSE Zeros(digits, prec)
           padded == IF left \/ ~zeropad THEN precise ELSE Zeros(precise, w)
           prefixed == IF "#" \in flags THEN Hashed(padded, base, prec, w) ELSE padded
           buf == Fits(prefixed, sign)
           pad == PadTo(w, Len(buf))
<1>0. NtoaSize \in Nat /\ NtoaSize > 0
  BY PrintfAssumption DEF PrintfAssumption
<1>1. ntoa_format(digits, negative, base, prec, width, flags) = out_rev(buf, w, left, zeropad)
  BY DEF ntoa_format
<1>2. sign \in Seq(Chars) /\ Len(sign) \in {0, 1} /\ (sign # <<>> => Len(sign) = 1)
  BY Signs
<1>3. w \in Nat /\ w <= width /\ (w # width => ~left /\ zeropad /\ w = width - 1 /\ Len(sign) = 1)
  BY <1>2
<1> HIDE DEF sign, w
<1>4. precise \in Seq(Chars)
  BY ZerosPad
<1> HIDE DEF precise
<1>5. padded \in Seq(Chars)
  BY <1>3, <1>4, ZerosPad
<1>6. ~left /\ zeropad => Len(padded) >= Smaller(w, NtoaSize)
  <2> DEFINE n == Len(precise)
             z == Larger(w - n, 0)
             q == Zeros(precise, w)
  <2>1. Len(q) = Smaller(n + z, NtoaSize) /\ n \in Nat
    <3>1. w \in Int
      BY <1>3
    <3>2. n \in Nat
      BY <1>4
    <3>3. LET y == Larger(w - Len(precise), 0)
          IN  Len(Zeros(precise, w)) = Smaller(Len(precise) + y, NtoaSize)
      BY <3>1, <1>4, ZerosPad
    <3> QED
      BY <3>2, <3>3
  <2>2. n + z >= w /\ z \in Nat
    <3> HIDE DEF n
    <3> QED
      BY <1>3, <2>1 DEF Larger
  <2> HIDE DEF z, n
  <2>3. Smaller(n + z, NtoaSize) >= Smaller(w, NtoaSize)
    BY <1>0, <1>3, <2>1, <2>2 DEF Smaller
  <2> QED
    BY <2>1, <2>3
<1> HIDE DEF padded
<1>7. prefixed \in Seq(Chars) /\ Len(prefixed) >= Smaller(Len(padded), NtoaSize)
  <2>1. Len(padded) \in Nat
    BY <1>5
  <2>2. Len(padded) >= Smaller(Len(padded), NtoaSize)
    BY <1>0, <2>1 DEF Smaller
  <2> QED
    BY <1>3, <1>5, <2>2, HashedKeepsLength
<1> HIDE DEF prefixed
<1>8. buf \in Seq(Chars) /\ Len(buf) = Smaller(Len(prefixed) + Len(sign), NtoaSize)
  BY <1>2, <1>7, FitsIn
<1> HIDE DEF buf
<1>9. /\ pad \in Seq(Chars) /\ Len(pad) \in Nat /\ Len(pad) >= w - Len(buf)
      /\ Reverse(buf) \in Seq(Chars) /\ Len(Reverse(buf)) = Len(buf) /\ Len(buf) \in Nat
  <2>1. Len(buf) \in Nat /\ w \in Int
    BY <1>3, <1>8
  <2>2. /\ PadTo(w, Len(buf)) \in Seq(Chars) /\ Len(PadTo(w, Len(buf))) \in Nat
        /\ Len(PadTo(w, Len(buf))) >= w - Len(buf)
    BY <2>1, Pads
  <2>3. Reverse(buf) \in Seq(Chars) /\ Len(Reverse(buf)) = Len(buf)
    BY <1>8, Reversed
  <2> QED
    BY <2>1, <2>2, <2>3
<1> HIDE DEF pad
<1>a. out_rev(buf, w, left, zeropad)
        = (IF left \/ zeropad THEN <<>> ELSE pad) \o Reverse(buf) \o (IF left THEN pad ELSE <<>>)
  BY DEF out_rev, pad
<1> DEFINE r == Reverse(buf)
           text == (IF left \/ zeropad THEN <<>> ELSE pad) \o r \o (IF left THEN pad ELSE <<>>)
<1>b. r \in Seq(Chars) /\ Len(r) = Len(buf)
  BY <1>9
<1> HIDE DEF r
<1>10. CASE left
  <2>0. text = <<>> \o r \o pad
    BY <1>10
  <2>1. text \in Seq(Chars) /\ Len(text) = Len(buf) + Len(pad)
    <3> HIDE DEF text
    <3>1. <<>> \o r = r
      BY <1>b, NothingJoined
    <3> QED
      BY <1>9, <1>b, <2>0, <3>1, Joined
  <2>2. w = width
    BY <1>3, <1>10
  <2> HIDE DEF text
  <2>3. Len(text) >= width
    BY <1>3, <1>9, <2>1, <2>2
  <2> QED
    <3>1. ntoa_format(digits, negative, base, prec, width, flags) = text
      BY <1>1, <1>a DEF text, r
    <3>2. ToFill(width, flags) = width
      BY <1>10 DEF ToFill
    <3> QED
      BY <2>1, <2>3, <3>1, <3>2
<1>11. CASE ~left /\ ~zeropad
  <2>0. text = (pad \o r) \o <<>>
    BY <1>11
  <2>1. text \in Seq(Chars) /\ Len(text) = Len(buf) + Len(pad)
    <3> HIDE DEF text
    <3>1. pad \o r \in Seq(Chars) /\ Len(pad \o r) = Len(pad) + Len(r)
      BY <1>9, <1>b, Joined
    <3>2. (pad \o r) \o <<>> = pad \o r
      BY <3>1, NothingJoined
    <3> QED
      BY <1>9, <1>b, <2>0, <3>1, <3>2
  <2>2. w = width
    BY <1>3, <1>11
  <2> HIDE DEF text
  <2>3. Len(text) >= width
    BY <1>3, <1>9, <2>1, <2>2
  <2> QED
    <3>1. ntoa_format(digits, negative, base, prec, width, flags) = text
      BY <1>1, <1>a DEF text, r
    <3>2. ToFill(width, flags) = width
      BY <1>11 DEF ToFill
    <3> QED
      BY <2>1, <2>3, <3>1, <3>2
<1>12. CASE ~left /\ zeropad
  <2>0. text = (<<>> \o r) \o <<>>
    BY <1>12
  <2>1. text \in Seq(Chars) /\ Len(text) = Len(buf)
    <3> HIDE DEF text
    <3>1. (<<>> \o r) \o <<>> = r
      BY <1>b, NothingJoined
    <3> QED
      BY <1>b, <2>0, <3>1
  <2> HIDE DEF text
  <2>2. Len(buf) >= Smaller(width, NtoaSize)
    <3> DEFINE n == Len(buf)
               m == Len(prefixed)
               p == Len(padded)
               g == Len(sign)
    <3>1. n = Smaller(m + g, NtoaSize) /\ m >= Smaller(p, NtoaSize) /\ p >= Smaller(w, NtoaSize)
      BY <1>6, <1>7, <1>8, <1>12
    <3>2. m \in Nat /\ p \in Nat /\ g \in {0, 1} /\ (w # width => g = 1 /\ w = width - 1)
      BY <1>2, <1>3, <1>5, <1>7
    <3> HIDE DEF n, m, p, g
    <3>3. n >= Smaller(width, NtoaSize)
      BY <1>0, <1>3, <3>1, <3>2 DEF Smaller
    <3> QED
      BY <3>3 DEF n
  <2> QED
    <3>1. ntoa_format(digits, negative, base, prec, width, flags) = text
      BY <1>1, <1>a DEF text, r
    <3>2. ToFill(width, flags) = Smaller(width, NtoaSize)
      BY <1>12 DEF ToFill
    <3> QED
      BY <2>1, <2>2, <3>1, <3>2
<1> QED
  BY <1>10, <1>11, <1>12

----
\* What a directive writes.

LEMMA Arguments ==
    ASSUME NEW d \in Directives
    PROVE  /\ d.spec \in {"d", "u", "x", "o", "b", "p", "c", "s", "%", "literal", "other"}
           /\ d.width \in Int /\ d.prec \in Nat \cup {NoPrecision, NegativePrecision}
           /\ d.arg \in Nat /\ d.text \in Seq(Chars)
           /\ Width(d) \in Nat /\ Precision(d) \in Int /\ BaseOf(d.spec) \in Bases
<1>1. /\ d.spec \in {"d", "u", "x", "o", "b", "p", "c", "s", "%", "literal", "other"}
      /\ d.width \in Int /\ d.prec \in Nat \cup {NoPrecision, NegativePrecision}
      /\ d.arg \in Nat /\ d.text \in Seq(Chars)
  BY DEF Directives
<1>2. Width(d) \in Nat
  BY <1>1 DEF Width, Abs
<1>3. Precision(d) \in Int
  BY <1>1 DEF Precision, NoPrecision, NegativePrecision
<1>4. BaseOf(d.spec) \in Bases
  BY DEF BaseOf, Bases
<1> QED
  BY <1>1, <1>2, <1>3, <1>4

LEMMA Moduli ==
    /\ LongMod \in Nat /\ LongMod > 0
    /\ \A size : Bounded(size) \in Nat /\ Bounded(size) > 0
<1>1. /\ CharMod \in Nat \ {0} /\ ShortMod \in Nat \ {0} /\ IntMod \in Nat \ {0} /\ LongMod \in Nat \ {0}
  BY PrintfAssumption DEF PrintfAssumption
<1>2. \A size : Bounded(size) \in {CharMod, ShortMod, IntMod, LongMod}
  BY DEF Bounded
<1> QED
  BY <1>1, <1>2

LEMMA Values ==
    ASSUME NEW d \in Directives
    PROVE  /\ Value(d) \in Int /\ Abs(Value(d)) \in Nat
           /\ Unsigned(d.arg, LongMod) \in Nat
           /\ d.spec # "d" => Value(d) >= 0
           /\ (Value(d) = 0) <=> (Abs(Value(d)) = 0)
<1> DEFINE m == Bounded(d.size)
           a == d.arg
<1>1. m \in Nat /\ m > 0 /\ a \in Nat /\ LongMod \in Nat /\ LongMod > 0
  BY Moduli, Arguments
<1>2. Value(d) = IF d.spec = "d" THEN (IF a % m < m \div 2 THEN a % m ELSE (a % m) - m) ELSE a % m
  BY DEF Value, Signed, Unsigned
<1>3. Unsigned(d.arg, LongMod) = a % LongMod
  BY DEF Unsigned
<1> HIDE DEF m, a
<1>4. a % m \in Nat /\ a % LongMod \in Nat
  BY <1>1
<1> DEFINE v == Value(d)
           r == a % m
           h == m \div 2
<1>5. v \in Int /\ (d.spec # "d" => v >= 0)
  <2>1. (v = r \/ v = r - m) /\ (d.spec # "d" => v = r) /\ r \in Nat
    BY <1>2, <1>4
  <2> HIDE DEF v, r
  <2> QED
    BY <1>1, <2>1
<1> HIDE DEF v
<1>6. Abs(v) \in Nat /\ ((v = 0) <=> (Abs(v) = 0))
  BY <1>5 DEF Abs
<1> QED
  BY <1>3, <1>4, <1>5, <1>6 DEF v

LEMMA LongFills ==
    ASSUME NEW value \in Nat, NEW negative \in BOOLEAN, NEW base \in Bases, NEW prec \in Int,
           NEW width \in Nat, NEW flags
    PROVE  LET text == ntoa_long(value, negative, base, prec, width, flags)
           IN  text \in Seq(Chars) /\ Len(text) >= ToFill(width, flags)
<1> DEFINE digits == IF prec # NoPrecision /\ value = 0 THEN <<>> ELSE ntoa(value, base)
           kept == IF value = 0 THEN flags \ {"#"} ELSE flags
<1>1. digits \in Seq(Chars)
  BY NtoaIsNumeral, NothingJoined
<1>2. ntoa_long(value, negative, base, prec, width, flags)
        = ntoa_format(digits, negative, base, prec, width, kept)
  BY DEF ntoa_long
<1>3. ToFill(width, kept) = ToFill(width, flags)
  BY DEF ToFill
<1> HIDE DEF digits, kept
<1> QED
  BY <1>1, <1>2, <1>3, FormatFills

LEMMA AlignedFills ==
    ASSUME NEW text \in Seq(Chars), NEW d \in Directives
    PROVE  /\ Aligned(text, d) \in Seq(Chars)
           /\ Len(Aligned(text, d)) = Larger(Width(d), Len(text))
           /\ LET first == IF "-" \in Flags(d) THEN 0 ELSE Len(Aligned(text, d)) - Len(text)
              IN  \A k \in DOMAIN Aligned(text, d) :
                     Aligned(text, d)[k] = IF k - first \in DOMAIN text THEN text[k - first] ELSE Blank
<1> DEFINE w == Width(d)
           n == Len(text)
           pad == PadTo(w, n)
           p == Len(pad)
           left == "-" \in Flags(d)
<1>1. w \in Nat /\ n \in Nat
  BY Arguments
<1> HIDE DEF w
<1>2. pad \in Seq(Chars) /\ p = Larger(w - n, 0) /\ p \in Nat /\ \A i \in 1 .. p : pad[i] = Blank
  <2>1. w \in Int
    BY <1>1
  <2> HIDE DEF n
  <2> QED
    BY <1>1, <2>1, Pads
<1> HIDE DEF pad
<1>3. n + p = Larger(w, n)
  <2> HIDE DEF n, p
  <2> QED
    BY <1>1, <1>2 DEF Larger
<1>4. CASE left
  <2> DEFINE a == text \o pad
  <2>1. Aligned(text, d) = a
    BY <1>4 DEF Aligned, pad, w
  <2>2. /\ a \in Seq(Chars) /\ Len(a) = n + p
        /\ \A i \in 1 .. n : a[i] = text[i]
        /\ \A i \in 1 .. p : a[n + i] = pad[i]
    BY <1>2, Joined
  <2> HIDE DEF a
  <2>3. \A k \in 1 .. n + p : a[k] = IF k - 0 \in 1 .. n THEN text[k - 0] ELSE Blank
    <3> TAKE k \in 1 .. n + p
    <3> HIDE DEF n, p
    <3>1. CASE k \in 1 .. n
      BY <2>2, <3>1
    <3>2. CASE k \notin 1 .. n
      <4>1. k - n \in 1 .. p /\ k = n + (k - n)
        BY <1>1, <1>2, <3>2
      <4>2. a[k] = pad[k - n]
        BY <2>2, <4>1
      <4> QED
        BY <1>2, <3>2, <4>1, <4>2
    <3> QED
      BY <3>1, <3>2
  <2>4. DOMAIN text = 1 .. n /\ DOMAIN a = 1 .. n + p
    BY <2>2
  <2> QED
    BY <1>3, <1>4, <2>1, <2>2, <2>3, <2>4 DEF w
<1>5. CASE ~left
  <2> DEFINE a == pad \o text
  <2>1. Aligned(text, d) = a
    BY <1>5 DEF Aligned, pad, w
  <2>2. /\ a \in Seq(Chars) /\ Len(a) = p + n
        /\ \A i \in 1 .. p : a[i] = pad[i]
        /\ \A i \in 1 .. n : a[p + i] = text[i]
    BY <1>2, Joined
  <2> HIDE DEF a
  <2>3. \A k \in 1 .. p + n : a[k] = IF k - p \in 1 .. n THEN text[k - p] ELSE Blank
    <3> TAKE k \in 1 .. p + n
    <3> HIDE DEF n, p
    <3>1. CASE k \in 1 .. p
      <4>1. k - p \notin 1 .. n
        BY <1>1, <1>2, <3>1
      <4> QED
        BY <1>2, <2>2, <3>1, <4>1
    <3>2. CASE k \notin 1 .. p
      <4>1. k - p \in 1 .. n /\ k = p + (k - p)
        BY <1>1, <1>2, <3>2
      <4> QED
        BY <2>2, <4>1
    <3> QED
      BY <3>1, <3>2
  <2>4. DOMAIN text = 1 .. n /\ DOMAIN a = 1 .. p + n
    BY <2>2
  <2>5. Len(a) - n = p
    <3> HIDE DEF n, p
    <3> QED
      BY <1>1, <1>2, <2>2
  <2>6. n + p = p + n
    <3> HIDE DEF n, p
    <3> QED
      BY <1>1, <1>2
  <2> QED
    BY <1>3, <1>5, <2>1, <2>2, <2>3, <2>4, <2>5, <2>6 DEF w
<1> QED
  BY <1>4, <1>5

\* The part of its argument a string shows.
Shown(d) == IF Precision(d) = NoPrecision THEN d.text
            ELSE SubSeq(d.text, 1, Smaller(Precision(d), Len(d.text)))

LEMMA ShownIsText ==
    ASSUME NEW d \in Directives
    PROVE  Shown(d) \in Seq(Chars)
<1> DEFINE t == d.text
           p == Precision(d)
           n == Smaller(p, Len(t))
<1>1. t \in Seq(Chars) /\ p \in Nat \cup {NoPrecision}
  <2>1. d.prec \in Nat \cup {NoPrecision, NegativePrecision}
    BY Arguments
  <2> QED
    BY <2>1, Arguments DEF Precision
<1>2. CASE p = NoPrecision
  BY <1>1, <1>2 DEF Shown
<1>3. CASE p # NoPrecision
  <2>1. n \in 0 .. Len(t)
    <3>1. p \in Nat /\ Len(t) \in Nat
      BY <1>1, <1>3
    <3> HIDE DEF p, t
    <3> QED
      BY <3>1 DEF Smaller
  <2>2. Shown(d) = SubSeq(t, 1, n)
    BY <1>3 DEF Shown
  <2> HIDE DEF n, t
  <2> QED
    BY <1>1, <2>1, <2>2, Beginning
<1> QED
  BY <1>2, <1>3

\* A directive writes characters, and at least what it is to fill.
LEMMA TextFills ==
    ASSUME NEW d \in Directives
    PROVE  /\ Text(d) \in Seq(Chars)
           /\ d.spec \notin {"%", "literal", "other"} => Len(Text(d)) >= Filled(d)
<1> DEFINE t == Text(d)
           wide == Filled(d)
<1> SUFFICES t \in Seq(Chars) /\ (d.spec \notin {"%", "literal", "other"} => Len(t) >= wide)
  OBVIOUS
<1>0. /\ Width(d) \in Nat /\ Precision(d) \in Int /\ BaseOf(d.spec) \in Bases /\ 16 \in Bases
      /\ PointerDigits \in Nat /\ d.text \in Seq(Chars)
  BY Arguments, PrintfAssumption DEF PrintfAssumption, Bases
<1>1. CASE d.spec \in {"d", "u", "x", "o", "b"}
  <2> DEFINE ignored == (IF BaseOf(d.spec) = 10 THEN {"#"} ELSE {})
                        \cup (IF d.spec = "d" THEN {} ELSE {"+", " "})
                        \cup (IF Precision(d) # NoPrecision THEN {"0"} ELSE {})
             a == Abs(Value(d))
             g == Value(d) < 0
             b == BaseOf(d.spec)
             p == Precision(d)
             w == Width(d)
             f == Flags(d) \ ignored
  <2>1. t = ntoa_long(a, g, b, p, w, f)
    BY <1>1 DEF Text, IntegerText
  <2>2. a \in Nat /\ g \in BOOLEAN /\ b \in Bases /\ p \in Int /\ w \in Nat
    BY <1>0, Values
  <2>3. wide = ToFill(w, f)
    <3>1. (Precision(d) = NoPrecision) <=> (d.prec = NoPrecision)
      BY Arguments DEF Precision, NoPrecision, NegativePrecision
    <3>2. d.spec # "p" /\ d.spec \notin {"c", "s"}
      BY <1>1
    <3>3. wide = IF PadsWithZeros(d) THEN Smaller(w, NtoaSize) ELSE w
      BY <3>2 DEF Filled
    <3>4. ("0" \in f) <=> ("0" \in Flags(d) /\ d.prec = NoPrecision)
      BY <3>1
    <3>5. ("-" \in f) <=> ("-" \in Flags(d))
      OBVIOUS
    <3>6. PadsWithZeros(d) <=> ("0" \in f /\ "-" \notin f)
      BY <3>4, <3>5 DEF PadsWithZeros
    <3> HIDE DEF f, w, wide
    <3> QED
      BY <3>3, <3>6 DEF ToFill
  <2> HIDE DEF a, g, b, p, w, f, t, wide
  <2> QED
    BY <2>1, <2>2, <2>3, LongFills
<1>2. CASE d.spec = "p"
  <2> DEFINE u == Unsigned(d.arg, LongMod)
             p == Precision(d)
             f == Flags(d) \cup {"0"}
  <2>1. t = ntoa_long(u, FALSE, 16, p, PointerDigits, f)
    BY <1>2 DEF Text, PointerText
  <2>2. u \in Nat /\ FALSE \in BOOLEAN /\ p \in Int
    BY <1>0, Values
  <2>3. wide = ToFill(PointerDigits, f)
    <3>1. "0" \in f /\ (("-" \in f) <=> ("-" \in Flags(d)))
      OBVIOUS
    <3>2. wide = IF "-" \notin Flags(d) THEN Smaller(PointerDigits, NtoaSize) ELSE PointerDigits
      BY <1>2 DEF Filled
    <3> HIDE DEF f, wide
    <3> QED
      BY <3>1, <3>2 DEF ToFill
  <2> HIDE DEF u, p, f, t, wide
  <2> QED
    BY <1>0, <2>1, <2>2, <2>3, LongFills
<1>3. CASE d.spec = "c"
  <2>1. t = Aligned(d.text, d)
    BY <1>3 DEF Text
  <2>2. t \in Seq(Chars) /\ Len(t) = Larger(Width(d), Len(d.text)) /\ Len(d.text) \in Nat
    BY <1>0, <2>1, AlignedFills
  <2>3. Len(t) >= Width(d)
    <3> HIDE DEF t
    <3> QED
      BY <1>0, <2>2 DEF Larger
  <2>4. wide = Width(d)
    BY <1>3 DEF Filled
  <2> QED
    BY <1>3, <2>2, <2>3, <2>4
<1>4. CASE d.spec = "s"
  <2>1. t = Aligned(Shown(d), d)
    BY <1>4 DEF Text, StringText, Shown
  <2>2. t \in Seq(Chars) /\ Len(t) = Larger(Width(d), Len(Shown(d))) /\ Len(Shown(d)) \in Nat
    BY <2>1, ShownIsText, AlignedFills
  <2>3. Len(t) >= Width(d)
    <3> HIDE DEF t
    <3> QED
      BY <1>0, <2>2 DEF Larger
  <2>4. wide = Width(d)
    BY <1>4 DEF Filled
  <2> QED
    BY <1>4, <2>2, <2>3, <2>4
<1>5. CASE d.spec \in {"%", "literal", "other"}
  <2>1. t \in {<<Percent>>, <<Letter>>, <<Unknown>>}
    BY <1>5 DEF Text
  <2>2. Percent \in Chars /\ Letter \in Chars /\ Unknown \in Chars
    BY DEF Percent, Letter, Unknown, Chars
  <2>3. <<Percent>> \in Seq(Chars) /\ <<Letter>> \in Seq(Chars) /\ <<Unknown>> \in Seq(Chars)
    BY <2>2, Single
  <2> QED
    BY <1>5, <2>1, <2>3
<1> QED
  BY <1>1, <1>2, <1>3, <1>4, <1>5, Arguments

----
\* What a function receives.

Shows(f, s, m) ==
    /\ f \in [0 .. m -> Seq(Chars)] /\ f[0] = <<>>
    /\ \A k \in 1 .. m : f[k] = IF s[k] = Nul THEN f[k - 1] ELSE Append(f[k - 1], s[k])

LEMMA ShowsExists ==
    ASSUME NEW s \in Seq(Chars), NEW n \in Nat, n = Len(s)
    PROVE  \E f : Shows(f, s, n)
<1> DEFINE P == {m \in 0 .. n : \E f : Shows(f, s, m)}
<1>0. \A k \in 1 .. n : s[k] \in Chars
  OBVIOUS
<1>1. 0 \in P
  <2> DEFINE z == [k \in 0 .. 0 |-> <<>>]
  <2>1. z \in [0 .. 0 -> Seq(Chars)] /\ z[0] = <<>> /\ 0 \in 0 .. n
    OBVIOUS
  <2> HIDE DEF z
  <2>2. Shows(z, s, 0)
    BY <2>1 DEF Shows
  <2> QED
    BY <2>1, <2>2
<1>2. ASSUME NEW m \in 0 .. n - 1, m \in P PROVE m + 1 \in P
  <2>1. PICK f : Shows(f, s, m)
    BY <1>2
  <2> DEFINE l == m + 1
             e == IF s[l] = Nul THEN f[m] ELSE Append(f[m], s[l])
             g == [k \in 0 .. l |-> IF k = l THEN e ELSE f[k]]
  <2>2. /\ l \in 1 .. n /\ l \in 0 .. n /\ 0 .. l = 0 .. m \cup {l} /\ l \notin 0 .. m /\ l - 1 = m
        /\ m \in 0 .. m /\ 0 \in 0 .. m
    OBVIOUS
  <2> HIDE DEF l
  <2>3. e \in Seq(Chars)
    <3>1. f[m] \in Seq(Chars) /\ s[l] \in Chars
      BY <1>0, <2>1, <2>2 DEF Shows
    <3> QED
      BY <3>1
  <2>4. e = IF s[l] = Nul THEN f[m] ELSE Append(f[m], s[l])
    OBVIOUS
  <2> HIDE DEF e
  <2>5. g \in [0 .. l -> Seq(Chars)] /\ g[l] = e /\ \A k \in 0 .. m : g[k] = f[k]
    BY <2>1, <2>2, <2>3 DEF Shows
  <2> HIDE DEF g
  <2>6. ASSUME NEW k \in 1 .. l PROVE g[k] = IF s[k] = Nul THEN g[k - 1] ELSE Append(g[k - 1], s[k])
    <3>1. CASE k = l
      BY <2>2, <2>4, <2>5, <3>1
    <3>2. CASE k # l
      <4>1. k \in 1 .. m /\ k \in 0 .. m /\ k - 1 \in 0 .. m
        BY <2>2, <3>2
      <4> QED
        BY <2>1, <2>5, <4>1 DEF Shows
    <3> QED
      BY <3>1, <3>2
  <2>7. g[0] = <<>>
    BY <2>1, <2>2, <2>5 DEF Shows
  <2>8. Shows(g, s, l)
    BY <2>5, <2>6, <2>7 DEF Shows
  <2> QED
    BY <2>2, <2>8 DEF l
<1>3. \A k \in 0 .. n : k \in P
  <2>1. \A k \in 0 .. n - 1 : k \in P => k + 1 \in P
    BY <1>2
  <2> HIDE DEF P
  <2> QED
    BY <1>1, <2>1, UpTo
<1> QED
  BY <1>3

LEMMA OutFctShows ==
    ASSUME NEW s \in Seq(Chars), NEW n \in Nat, n = Len(s)
    PROVE  \E f : Shows(f, s, n) /\ f[n] = out_fct(s)
<1> DEFINE E(f) == [k \in 0 .. n |-> IF k = 0 THEN <<>> ELSE IF s[k] = Nul THEN f[k - 1]
                                     ELSE Append(f[k - 1], s[k])]
           d == CHOOSE f : f = E(f)
<1>1. out_fct(s) = d[n]
  BY DEF out_fct
<1>2. PICK f : Shows(f, s, n)
  BY ShowsExists
<1>3. f = E(f)
  <2>1. f = [k \in 0 .. n |-> f[k]]
    BY <1>2 DEF Shows
  <2>2. ASSUME NEW k \in 0 .. n
        PROVE  f[k] = IF k = 0 THEN <<>> ELSE IF s[k] = Nul THEN f[k - 1] ELSE Append(f[k - 1], s[k])
    <3>1. k = 0 \/ k \in 1 .. n
      OBVIOUS
    <3> QED
      BY <1>2, <3>1 DEF Shows
  <2> QED
    BY <2>1, <2>2
<1>4. d = E(d)
  BY <1>3
<1> HIDE DEF d
<1>5. /\ d = [k \in 0 .. n |-> d[k]] /\ d[0] = <<>>
      /\ \A k \in 1 .. n : d[k] = IF s[k] = Nul THEN d[k - 1] ELSE Append(d[k - 1], s[k])
  <2> DEFINE e == [k \in 0 .. n |-> IF k = 0 THEN <<>> ELSE IF s[k] = Nul THEN d[k - 1]
                                     ELSE Append(d[k - 1], s[k])]
  <2>1. d = e
    BY <1>4
  <2>2. e = [k \in 0 .. n |-> e[k]]
    OBVIOUS
  <2>3. e[0] = <<>>
    BY 0 \in 0 .. n
  <2>4. \A k \in 1 .. n : e[k] = IF s[k] = Nul THEN d[k - 1] ELSE Append(d[k - 1], s[k])
    <3>1. \A k \in 1 .. n : k \in 0 .. n /\ k # 0
      OBVIOUS
    <3> QED
      BY <3>1
  <2> HIDE DEF e
  <2> QED
    BY <2>1, <2>2, <2>3, <2>4
<1>6. \A k \in 0 .. n : d[k] \in Seq(Chars)
  <2> DEFINE P == {k \in 0 .. n : d[k] \in Seq(Chars)}
  <2>1. 0 \in P
    BY <1>5
  <2>2. ASSUME NEW k \in 0 .. n - 1, k \in P PROVE k + 1 \in P
    <3>1. k + 1 \in 1 .. n /\ k + 1 \in 0 .. n /\ k + 1 - 1 = k /\ s[k + 1] \in Chars /\ d[k] \in Seq(Chars)
      BY <2>2
    <3>2. d[k + 1] = IF s[k + 1] = Nul THEN d[k] ELSE Append(d[k], s[k + 1])
      BY <1>5, <3>1
    <3> DEFINE u == d[k]
               c == s[k + 1]
    <3>3. u \in Seq(Chars) /\ c \in Chars /\ d[k + 1] = IF c = Nul THEN u ELSE Append(u, c)
      BY <3>1, <3>2
    <3> HIDE DEF u, c
    <3>4. d[k + 1] \in Seq(Chars)
      BY <3>3
    <3> QED
      BY <3>1, <3>4
  <2> HIDE DEF P
  <2>3. \A k \in 0 .. n : k \in P
    BY <2>1, <2>2, UpTo
  <2> QED
    BY <2>3 DEF P
<1>7. Shows(d, s, n)
  BY <1>5, <1>6 DEF Shows
<1> QED
  BY <1>1, <1>7

LEMMA OutFctTyped ==
    ASSUME NEW s \in Seq(Chars)
    PROVE  out_fct(s) \in Seq(Chars)
<1>1. Len(s) \in Nat
  OBVIOUS
<1>2. PICK f : Shows(f, s, Len(s)) /\ f[Len(s)] = out_fct(s)
  BY <1>1, OutFctShows
<1> QED
  BY <1>1, <1>2 DEF Shows

LEMMA OutFctOfNul == out_fct(<<>>) = <<>> /\ out_fct(<<Nul>>) = <<>>
<1>1. <<>> \in Seq(Chars) /\ Len(<<>>) = 0
  BY NothingJoined
<1>2. PICK e : Shows(e, <<>>, 0) /\ e[0] = out_fct(<<>>)
  BY <1>1, OutFctShows
<1>3. Nul \in Chars
  BY DEF Nul, Chars
<1>4. <<Nul>> \in Seq(Chars) /\ Len(<<Nul>>) = 1 /\ <<Nul>>[1] = Nul
  BY <1>3, Single
<1>5. PICK f : Shows(f, <<Nul>>, 1) /\ f[1] = out_fct(<<Nul>>)
  BY <1>4, OutFctShows
<1>6. f[1] = f[1 - 1] /\ f[0] = <<>> /\ 1 - 1 = 0
  BY <1>4, <1>5 DEF Shows
<1> QED
  BY <1>2, <1>5, <1>6 DEF Shows

Associate(a, b, c) == (a \o b) \o c = a \o (b \o c)

LEMMA Regrouped ==
    ASSUME NEW a \in Seq(Chars), NEW b \in Seq(Chars), NEW c \in Seq(Chars)
    PROVE  Associate(a, b, c)
<1> DEFINE u == a \o b
           v == b \o c
           x == u \o c
           y == a \o v
           k == Len(a)
           m == Len(b)
           n == Len(c)
<1>0. k \in Nat /\ m \in Nat /\ n \in Nat
  OBVIOUS
<1>1. /\ u \in Seq(Chars) /\ Len(u) = k + m
      /\ (\A i \in 1 .. k : u[i] = a[i]) /\ (\A j \in 1 .. m : u[k + j] = b[j])
  BY Joined
<1>2. /\ v \in Seq(Chars) /\ Len(v) = m + n
      /\ (\A i \in 1 .. m : v[i] = b[i]) /\ (\A j \in 1 .. n : v[m + j] = c[j])
  BY Joined
<1> HIDE DEF u, v
<1>3. /\ x \in Seq(Chars) /\ Len(x) = Len(u) + n
      /\ (\A i \in 1 .. Len(u) : x[i] = u[i]) /\ (\A j \in 1 .. n : x[Len(u) + j] = c[j])
  BY <1>1, Joined
<1>4. /\ y \in Seq(Chars) /\ Len(y) = k + Len(v)
      /\ (\A i \in 1 .. k : y[i] = a[i]) /\ (\A j \in 1 .. Len(v) : y[k + j] = v[j])
  BY <1>2, Joined
<1> HIDE DEF x, y, k, m, n
<1>5. Len(x) = k + m + n /\ Len(y) = k + m + n
  BY <1>0, <1>1, <1>2, <1>3, <1>4
<1>6. ASSUME NEW i \in 1 .. k + m + n PROVE x[i] = y[i]
  <2>1. CASE i \in 1 .. k
    <3>1. i \in 1 .. Len(u)
      BY <1>0, <1>1, <2>1
    <3> QED
      BY <1>1, <1>3, <1>4, <2>1, <3>1
  <2>2. CASE i \notin 1 .. k /\ i \in 1 .. k + m
    <3> DEFINE j == i - k
    <3>1. j \in 1 .. m /\ i = k + j /\ i \in 1 .. Len(u) /\ j \in 1 .. Len(v)
      BY <1>0, <1>1, <1>2, <2>2
    <3> HIDE DEF j
    <3>2. x[i] = b[j]
      BY <1>1, <1>3, <3>1
    <3>3. y[i] = b[j]
      BY <1>2, <1>4, <3>1
    <3> QED
      BY <3>2, <3>3
  <2>3. CASE i \notin 1 .. k + m
    <3> DEFINE j == i - (k + m)
    <3>1. j \in 1 .. n /\ i = Len(u) + j /\ i = k + (m + j) /\ m + j \in 1 .. Len(v)
      BY <1>0, <1>1, <1>2, <2>3
    <3> HIDE DEF j
    <3>2. x[i] = c[j]
      BY <1>3, <3>1
    <3>3. y[i] = c[j]
      BY <1>2, <1>4, <3>1
    <3> QED
      BY <3>2, <3>3
  <2> QED
    BY <2>1, <2>2, <2>3
<1>7. Len(x) = Len(y) /\ \A i \in 1 .. Len(x) : x[i] = y[i]
  BY <1>5, <1>6
<1> QED
  BY <1>3, <1>4, <1>7, SameSequence DEF Associate, x, y, u, v

LEMMA AppendJoins ==
    ASSUME NEW s \in Seq(Chars), NEW c \in Chars
    PROVE  Append(s, c) = s \o <<c>>
<1> DEFINE e == <<c>>
           x == Append(s, c)
           y == s \o e
           n == Len(s)
<1>1. n \in Nat /\ e \in Seq(Chars) /\ Len(e) = 1 /\ e[1] = c
  OBVIOUS
<1>2. x \in Seq(Chars) /\ Len(x) = n + 1 /\ x[n + 1] = c /\ \A i \in 1 .. n : x[i] = s[i]
  OBVIOUS
<1> HIDE DEF e, x
<1>3. /\ y \in Seq(Chars) /\ Len(y) = n + Len(e)
      /\ (\A i \in 1 .. n : y[i] = s[i]) /\ (\A j \in 1 .. Len(e) : y[n + j] = e[j])
  BY <1>1, Joined
<1> HIDE DEF y, n
<1>4. y[n + 1] = c /\ Len(y) = n + 1
  <2>1. 1 \in 1 .. Len(e)
    BY <1>1
  <2> QED
    BY <1>1, <1>3, <2>1
<1>5. \A i \in 1 .. n + 1 : x[i] = y[i]
  <2> TAKE i \in 1 .. n + 1
  <2>1. i \in 1 .. n \/ i = n + 1
    BY <1>1
  <2> QED
    BY <1>2, <1>3, <1>4, <2>1
<1> QED
  BY <1>2, <1>3, <1>4, <1>5, SameSequence DEF x, y, e

LEMMA OutFctInParts ==
    ASSUME NEW a \in Seq(Chars), NEW b \in Seq(Chars)
    PROVE  out_fct(a \o b) = out_fct(a) \o out_fct(b)
<1> DEFINE m == Len(a)
           n == Len(b)
           s == a \o b
<1>1. m \in Nat /\ n \in Nat /\ m + n \in Nat /\ s \in Seq(Chars) /\ Len(s) = m + n
  OBVIOUS
<1>2. /\ (\A i \in 1 .. m : s[i] = a[i])
      /\ (\A j \in 1 .. n : s[m + j] = b[j] /\ b[j] \in Chars)
  BY Joined
<1>3. PICK f : Shows(f, s, m + n) /\ f[m + n] = out_fct(s)
  BY <1>1, OutFctShows
<1>4. PICK g : Shows(g, a, m) /\ g[m] = out_fct(a)
  BY <1>1, OutFctShows
<1>5. PICK h : Shows(h, b, n) /\ h[n] = out_fct(b)
  BY <1>1, OutFctShows
<1> HIDE DEF m, n, s
<1>6. \A k \in 0 .. m : f[k] = g[k]
  <2> DEFINE P == {k \in 0 .. m : f[k] = g[k]}
  <2>1. 0 \in P
    BY <1>1, <1>3, <1>4 DEF Shows
  <2>2. ASSUME NEW k \in 0 .. m - 1, k \in P PROVE k + 1 \in P
    <3>1. k + 1 \in 1 .. m /\ k + 1 \in 0 .. m /\ k + 1 \in 1 .. m + n /\ k + 1 - 1 = k
      BY <1>1
    <3>2. f[k + 1] = IF s[k + 1] = Nul THEN f[k] ELSE Append(f[k], s[k + 1])
      BY <1>3, <3>1 DEF Shows
    <3>3. g[k + 1] = IF a[k + 1] = Nul THEN g[k] ELSE Append(g[k], a[k + 1])
      BY <1>4, <3>1 DEF Shows
    <3>4. f[k] = g[k] /\ s[k + 1] = a[k + 1]
      BY <1>2, <2>2, <3>1
    <3> QED
      BY <3>1, <3>2, <3>3, <3>4
  <2> HIDE DEF P
  <2>3. \A k \in 0 .. m : k \in P
    BY <1>1, <2>1, <2>2, UpTo
  <2> QED
    BY <2>3 DEF P
<1>7. \A k \in 0 .. n : f[m + k] = g[m] \o h[k]
  <2> DEFINE P == {k \in 0 .. n : f[m + k] = g[m] \o h[k]}
  <2>0. g[m] \in Seq(Chars) /\ m \in 0 .. m /\ h[0] = <<>> /\ m + 0 = m
    BY <1>1, <1>4, <1>5 DEF Shows
  <2>1. 0 \in P
    <3>1. g[m] \o <<>> = g[m] /\ f[m] = g[m]
      BY <1>6, <2>0
    <3>2. f[m + 0] = g[m] \o h[0]
      BY <2>0, <3>1
    <3>3. 0 \in 0 .. n
      BY <1>1
    <3> QED
      BY <3>2, <3>3
  <2>2. ASSUME NEW k \in 0 .. n - 1, k \in P PROVE k + 1 \in P
    <3>1. k + 1 \in 1 .. n /\ k + 1 \in 0 .. n /\ m + (k + 1) \in 1 .. m + n /\ (k + 1) - 1 = k
          /\ (m + (k + 1)) - 1 = m + k /\ k \in 0 .. n
      BY <1>1
    <3>2. f[m + (k + 1)] = IF s[m + (k + 1)] = Nul THEN f[m + k] ELSE Append(f[m + k], s[m + (k + 1)])
      BY <1>3, <3>1 DEF Shows
    <3>3. h[k + 1] = IF b[k + 1] = Nul THEN h[k] ELSE Append(h[k], b[k + 1])
      BY <1>5, <3>1 DEF Shows
    <3>4. f[m + k] = g[m] \o h[k] /\ s[m + (k + 1)] = b[k + 1] /\ b[k + 1] \in Chars /\ h[k] \in Seq(Chars)
      <4>1. s[m + (k + 1)] = b[k + 1] /\ b[k + 1] \in Chars
        BY <1>2, <3>1
      <4>2. h[k] \in Seq(Chars)
        BY <1>5, <3>1 DEF Shows
      <4> QED
        BY <2>2, <4>1, <4>2
    <3> DEFINE c == b[k + 1]
               u == g[m]
               v == h[k]
    <3>5. Append(u \o v, c) = u \o Append(v, c)
      <4>1. c \in Chars /\ u \in Seq(Chars) /\ v \in Seq(Chars)
        BY <2>0, <3>4
      <4> HIDE DEF c, u, v
      <4> DEFINE e == <<c>>
      <4>2. e \in Seq(Chars) /\ u \o v \in Seq(Chars)
        BY <4>1, Single, Joined
      <4>3. Append(u \o v, c) = (u \o v) \o e /\ Append(v, c) = v \o e
        BY <4>1, <4>2, AppendJoins
      <4> HIDE DEF e
      <4>4. Associate(u, v, e)
        BY <4>1, <4>2, Regrouped
      <4> QED
        BY <4>3, <4>4 DEF Associate
    <3>6. f[m + (k + 1)] = g[m] \o h[k + 1]
      BY <3>2, <3>3, <3>4, <3>5
    <3> QED
      BY <3>1, <3>6
  <2> HIDE DEF P
  <2>3. \A k \in 0 .. n : k \in P
    BY <1>1, <2>1, <2>2, UpTo
  <2> QED
    BY <2>3 DEF P
<1>8. f[m + n] = g[m] \o h[n]
  <2>1. n \in 0 .. n
    BY <1>1
  <2> QED
    BY <1>7, <2>1
<1>9. s = a \o b
  BY DEF s
<1> QED
  BY <1>3, <1>4, <1>5, <1>8, <1>9

----
(* The invariant: what a byte of the caller's memory holds, and what the    *)
(* console or the function has received, are determined by the text made.   *)

Kept == IF job.maxlen = Unlimited THEN Len(made) ELSE Smaller(Len(made), job.maxlen - 1)
OutOfReach(i) == job.sink # "buffer" \/ (job.maxlen # Unlimited /\ i >= job.maxlen)
Held(i) == IF OutOfReach(i) THEN Untouched
           ELSE IF ret # -1 /\ i = Kept THEN Nul
           ELSE IF i < Len(made) THEN made[i + 1] ELSE Untouched
Received == IF job.sink = "console" THEN (IF ret = -1 THEN made ELSE Append(made, Nul))
            ELSE IF job.sink = "function" THEN out_fct(made) ELSE <<>>

CallInv ==
    /\ job \in Jobs /\ next \in Nat
    /\ made \in Seq(Chars) /\ idx = Len(made)
    /\ ret \in {-1, Len(made)} /\ (ret # -1 => next > Len(job.format))
    /\ memory = [i \in 0 .. BufferBytes - 1 |-> Held(i)]
    /\ sent = Received

LEMMA JobTypes ==
    ASSUME job \in Jobs
    PROVE  /\ job.sink \in {"buffer", "console", "function", "null"}
           /\ job.maxlen \in Nat \cup {Unlimited} /\ job.format \in Seq(Directives)
           /\ job.sink \in {"console", "function"} => job.maxlen = Unlimited
           /\ \A i \in DOMAIN job.format : job.format[i] \in Directives /\ i \in Nat /\ i <= Len(job.format)
<1> DEFINE D == Directives
<1>1. job \in [sink : {"buffer", "console", "function", "null"},
               maxlen : Nat \cup {Unlimited}, format : Seq(D)]
  BY PrintfAssumption DEF PrintfAssumption
<1> HIDE DEF D
<1>2. job.format \in Seq(D) /\ job.sink \in {"buffer", "console", "function", "null"}
      /\ job.maxlen \in Nat \cup {Unlimited}
  BY <1>1
<1>3. \A i \in DOMAIN job.format : job.format[i] \in D /\ i \in Nat /\ i <= Len(job.format)
  BY <1>2
<1>4. job.sink \in {"console", "function"} => job.maxlen = Unlimited
  BY PrintfAssumption DEF PrintfAssumption
<1> QED
  BY <1>2, <1>3, <1>4 DEF D

LEMMA CallStarts == Init => CallInv
<1> SUFFICES ASSUME Init PROVE CallInv
  OBVIOUS
<1>1. /\ job \in Jobs /\ next = 1 /\ idx = 0 /\ sent = <<>> /\ made = <<>> /\ ret = -1
      /\ memory = [i \in 0 .. BufferBytes - 1 |-> Untouched]
  BY DEF Init
<1>2. made \in Seq(Chars) /\ Len(made) = 0
  BY <1>1, NothingJoined
<1>3. sent = Received
  BY <1>1, OutFctOfNul DEF Received
<1>4. \A i \in 0 .. BufferBytes - 1 : Held(i) = Untouched
  <2>1. BufferBytes \in Nat
    BY PrintfAssumption DEF PrintfAssumption
  <2>2. \A i \in 0 .. BufferBytes - 1 : ~(i < Len(made))
    BY <1>2, <2>1
  <2> QED
    BY <1>1, <2>2 DEF Held
<1>5. memory = [i \in 0 .. BufferBytes - 1 |-> Held(i)]
  BY <1>1, <1>4
<1> QED
  BY <1>1, <1>2, <1>3, <1>5 DEF CallInv

\* What an output function leaves, byte by byte.
LEMMA OutWrites ==
    ASSUME NEW s \in Seq(Chars), NEW at \in Nat, job \in Jobs, Out(s, at),
           memory = [i \in 0 .. BufferBytes - 1 |-> Held(i)]
    PROVE  /\ memory' = [i \in 0 .. BufferBytes - 1 |->
                           IF ~OutOfReach(i) /\ i >= at /\ i < at + Len(s)
                           THEN s[i - at + 1] ELSE Held(i)]
           /\ job.sink = "console" => sent' = sent \o s
           /\ job.sink = "function" => sent' = sent \o out_fct(s)
           /\ job.sink \notin {"console", "function"} => sent' = sent
<1> DEFINE B == 0 .. BufferBytes - 1
<1>0. B \subseteq Nat /\ DOMAIN s = 1 .. Len(s) /\ Len(s) \in Nat /\ DOMAIN memory = B
  <2>1. BufferBytes \in Nat
    BY PrintfAssumption DEF PrintfAssumption
  <2> QED
    BY <2>1
<1>1. job.maxlen \in Nat \cup {Unlimited} /\ job.sink \in {"buffer", "console", "function", "null"}
  BY JobTypes
<1> HIDE DEF B
<1>2. \A i \in B : memory[i] = Held(i)
  BY DEF B
<1>3. CASE job.sink = "buffer"
  <2>1. memory' = out_buffer(s, at)
    BY <1>3 DEF Out
  <2>2. out_buffer(s, at) = [i \in B |->
           IF i - at + 1 \in DOMAIN s /\ (job.maxlen = Unlimited \/ i < job.maxlen)
           THEN s[i - at + 1] ELSE memory[i]]
    BY <1>0 DEF out_buffer
  <2>3. ASSUME NEW i \in B
        PROVE  (i - at + 1 \in DOMAIN s /\ (job.maxlen = Unlimited \/ i < job.maxlen))
                 <=> (~OutOfReach(i) /\ i >= at /\ i < at + Len(s))
    <3> DEFINE n == Len(s)
               m == job.maxlen
    <3>1. i \in Nat /\ n \in Nat /\ m \in Nat \cup {Unlimited} /\ DOMAIN s = 1 .. n
      BY <1>0, <1>1
    <3>2. ~OutOfReach(i) <=> (m = Unlimited \/ ~(i >= m))
      BY <1>3 DEF OutOfReach
    <3> HIDE DEF n, m
    <3>3. (i - at + 1 \in 1 .. n) <=> (i >= at /\ i < at + n)
      BY <3>1
    <3>4. m = Unlimited \/ ((i < m) <=> ~(i >= m))
      BY <3>1 DEF Unlimited
    <3>5. (i - at + 1 \in DOMAIN s /\ (m = Unlimited \/ i < m))
            <=> (~OutOfReach(i) /\ i >= at /\ i < at + n)
      BY <3>1, <3>2, <3>3, <3>4
    <3> QED
      BY <3>5 DEF n, m
  <2>4. memory' = [i \in B |-> IF ~OutOfReach(i) /\ i >= at /\ i < at + Len(s)
                               THEN s[i - at + 1] ELSE Held(i)]
    BY <1>2, <2>1, <2>2, <2>3
  <2>5. sent' = sent
    BY <1>3 DEF Out
  <2> QED
    BY <1>3, <2>4, <2>5 DEF B
<1>4. CASE job.sink # "buffer"
  <2>1. memory' = memory
    BY <1>4 DEF Out
  <2>2. \A i \in B : OutOfReach(i)
    BY <1>4 DEF OutOfReach
  <2>3. memory' = [i \in B |-> IF ~OutOfReach(i) /\ i >= at /\ i < at + Len(s)
                               THEN s[i - at + 1] ELSE Held(i)]
    BY <2>1, <2>2 DEF B
  <2>4. /\ job.sink = "console" => sent' = sent \o s
        /\ job.sink = "function" => sent' = sent \o out_fct(s)
        /\ job.sink \notin {"console", "function"} => sent' = sent
    BY DEF Out
  <2> QED
    BY <2>3, <2>4 DEF B
<1> QED
  BY <1>3, <1>4

LEMMA ConvertKeepsCall ==
    ASSUME CallInv, NEW n \in DOMAIN job.format, Convert(n)
    PROVE  CallInv' /\ made' = made \o Text(job.format[n]) /\ made' \in Seq(Chars) /\ job' = job
<1> DEFINE s == Text(job.format[n])
           l == Len(made)
           r == Len(s)
<1>1. /\ job \in Jobs /\ next \in Nat /\ made \in Seq(Chars) /\ idx = l /\ l \in Nat
      /\ memory = [i \in 0 .. BufferBytes - 1 |-> Held(i)] /\ sent = Received
      /\ ret \in {-1, Len(made)} /\ (ret # -1 => next > Len(job.format))
  BY DEF CallInv
<1>2. n \in Nat /\ n <= Len(job.format) /\ job.format[n] \in Directives /\ Len(job.format) \in Nat
  BY <1>1, JobTypes
<1>3. s \in Seq(Chars) /\ r \in Nat
  BY <1>2, TextFills
<1>4. /\ next = n /\ next' = n + 1 /\ Out(s, idx) /\ idx' = idx + r /\ made' = made \o s
      /\ job' = job /\ ret' = ret
  BY DEF Convert
<1>5. ret = -1
  <2> DEFINE f == Len(job.format)
  <2>1. ret # -1 => next > f
    BY <1>1
  <2>2. f \in Nat /\ n <= f
    BY <1>2
  <2> HIDE DEF f
  <2> QED
    BY <1>2, <1>4, <2>1, <2>2
<1>a. job.maxlen \in Nat \cup {Unlimited} /\ job.sink \in {"buffer", "console", "function", "null"}
  BY <1>1, JobTypes
<1> HIDE DEF s
<1>6. /\ made' \in Seq(Chars) /\ Len(made') = l + r
      /\ (\A i \in 1 .. l : made'[i] = made[i]) /\ (\A i \in 1 .. r : made'[l + i] = s[i])
  BY <1>1, <1>3, <1>4, Joined
<1>7. idx' = Len(made') /\ ret' \in {-1, Len(made')} /\ ret' = -1
  BY <1>1, <1>4, <1>5, <1>6
<1>8. /\ memory' = [i \in 0 .. BufferBytes - 1 |->
                      IF ~OutOfReach(i) /\ i >= l /\ i < l + r THEN s[i - l + 1] ELSE Held(i)]
      /\ job.sink = "console" => sent' = sent \o s
      /\ job.sink = "function" => sent' = sent \o out_fct(s)
      /\ job.sink \notin {"console", "function"} => sent' = sent
  BY <1>1, <1>3, <1>4, OutWrites
<1>9. ASSUME NEW i \in 0 .. BufferBytes - 1
      PROVE  (IF ~OutOfReach(i) /\ i >= l /\ i < l + r THEN s[i - l + 1] ELSE Held(i)) = Held(i)'
  <2>0. i \in Nat
    BY PrintfAssumption DEF PrintfAssumption
  <2>1. OutOfReach(i)' <=> OutOfReach(i)
    BY <1>4 DEF OutOfReach
  <2>2. CASE OutOfReach(i)
    BY <2>1, <2>2 DEF Held
  <2>3. CASE ~OutOfReach(i)
    <3> DEFINE new == made'
    <3>1. Held(i)' = IF i < l + r THEN new[i + 1] ELSE Untouched
      BY <1>6, <1>7, <2>1, <2>3 DEF Held
    <3>2. Held(i) = IF i < l THEN made[i + 1] ELSE Untouched
      BY <1>5, <2>3 DEF Held
    <3>3. (\A k \in 1 .. l : new[k] = made[k]) /\ (\A k \in 1 .. r : new[l + k] = s[k])
      BY <1>6
    <3> HIDE DEF new, l, r
    <3>4. CASE i < l
      <4>1. i + 1 \in 1 .. l /\ i < l + r /\ ~(i >= l)
        BY <1>1, <1>3, <2>0, <3>4
      <4> QED
        BY <3>1, <3>2, <3>3, <3>4, <4>1
    <3>5. CASE i >= l /\ i < l + r
      <4>1. i - l + 1 \in 1 .. r /\ l + (i - l + 1) = i + 1
        BY <1>1, <1>3, <2>0, <3>5
      <4>2. new[i + 1] = s[i - l + 1]
        BY <3>3, <4>1
      <4> QED
        BY <2>3, <3>1, <3>5, <4>2
    <3>6. CASE i >= l + r
      <4>1. ~(i < l + r) /\ ~(i < l)
        BY <1>1, <1>3, <2>0, <3>6
      <4> QED
        BY <3>1, <3>2, <4>1
    <3> QED
      BY <1>1, <1>3, <2>0, <3>4, <3>5, <3>6
  <2> QED
    BY <2>2, <2>3
<1>10. memory' = [i \in 0 .. BufferBytes - 1 |-> Held(i)']
  BY <1>8, <1>9
<1>11. sent' = Received'
  <2>1. Received = IF job.sink = "console" THEN made
                   ELSE IF job.sink = "function" THEN out_fct(made) ELSE <<>>
    BY <1>5 DEF Received
  <2>2. Received' = IF job.sink = "console" THEN made'
                    ELSE IF job.sink = "function" THEN out_fct(made') ELSE <<>>
    BY <1>4, <1>7 DEF Received
  <2>3. out_fct(made') = out_fct(made) \o out_fct(s)
    BY <1>1, <1>3, <1>4, OutFctInParts
  <2> QED
    BY <1>1, <1>4, <1>8, <2>1, <2>2, <2>3
<1>12. job' \in Jobs /\ next' \in Nat /\ (ret' # -1 => next' > Len(job'.format))
  BY <1>1, <1>2, <1>4, <1>7
<1>13. CallInv'
  BY <1>6, <1>7, <1>10, <1>11, <1>12 DEF CallInv
<1> QED
  BY <1>4, <1>6, <1>13 DEF s

LEMMA TerminateKeepsCall ==
    ASSUME CallInv, Terminate
    PROVE  CallInv'
<1> DEFINE l == Len(made)
           m == job.maxlen
           s == <<Nul>>
<1>1. /\ job \in Jobs /\ next \in Nat /\ made \in Seq(Chars) /\ idx = l /\ l \in Nat
      /\ memory = [i \in 0 .. BufferBytes - 1 |-> Held(i)] /\ sent = Received
  BY DEF CallInv
<1>2. /\ m \in Nat \cup {Unlimited} /\ job.sink \in {"buffer", "console", "function", "null"}
      /\ job.sink \in {"console", "function"} => m = Unlimited
  BY <1>1, JobTypes
<1>3. s \in Seq(Chars) /\ Len(s) = 1 /\ s[1] = Nul /\ Nul \in Chars
  BY Single DEF Nul, Chars
<1>4. /\ next > Len(job.format) /\ ret = -1 /\ ret' = l /\ ret' # -1
      /\ job' = job /\ next' = next /\ idx' = idx /\ made' = made
  BY <1>1 DEF Terminate
<1>5. IF m = Unlimited \/ l < m THEN Out(s, l)
      ELSE IF m > 0 THEN Out(s, m - 1) ELSE UNCHANGED <<memory, sent>>
  BY <1>1 DEF Terminate
<1>6. Kept' = (IF m = Unlimited THEN l ELSE Smaller(l, m - 1))
  BY <1>4 DEF Kept
<1>7. \A i : OutOfReach(i)' <=> OutOfReach(i)
  BY <1>4 DEF OutOfReach
<1>8. \A i : Held(i)' = IF OutOfReach(i) THEN Untouched ELSE IF i = Kept' THEN Nul
                        ELSE IF i < l THEN made[i + 1] ELSE Untouched
  BY <1>4, <1>7 DEF Held
<1>9. \A i : Held(i) = IF OutOfReach(i) THEN Untouched ELSE IF i < l THEN made[i + 1] ELSE Untouched
  BY <1>4 DEF Held
<1>10. BufferBytes \in Nat
  BY PrintfAssumption DEF PrintfAssumption
<1> DEFINE k == Kept'
           B == 0 .. BufferBytes - 1
<1>11. \A i \in B : OutOfReach(i) <=> (job.sink # "buffer" \/ (m # Unlimited /\ i >= m))
  BY DEF OutOfReach
<1>12. ASSUME NEW at \in Nat, Out(s, at), at = k
       PROVE  memory' = [i \in B |-> Held(i)']
  <2>1. memory' = [i \in B |-> IF ~OutOfReach(i) /\ i >= at /\ i < at + Len(s)
                               THEN s[i - at + 1] ELSE Held(i)]
    BY <1>1, <1>3, <1>12, OutWrites
  <2>2. ASSUME NEW i \in B
        PROVE  (IF ~OutOfReach(i) /\ i >= at /\ i < at + Len(s) THEN s[i - at + 1] ELSE Held(i))
                  = Held(i)'
    <3>0. i \in Nat
      BY <1>10
    <3> HIDE DEF k, s
    <3>1. (i >= at /\ i < at + Len(s)) <=> i = at
      BY <1>3, <3>0
    <3>2. i = at => s[i - at + 1] = Nul
      BY <1>3, <3>0
    <3> QED
      BY <1>8, <1>9, <1>12, <3>1, <3>2 DEF k
  <2> QED
    BY <2>1, <2>2
<1>13. memory' = [i \in B |-> Held(i)']
  <2>1. CASE m = Unlimited \/ l < m
    <3>1. k = l
      <4> HIDE DEF l, m
      <4> QED
        BY <1>1, <1>2, <1>6, <2>1 DEF Smaller, Unlimited
    <3> QED
      BY <1>1, <1>5, <1>12, <2>1, <3>1
  <2>2. CASE ~(m = Unlimited \/ l < m) /\ m > 0
    <3>1. k = m - 1 /\ m - 1 \in Nat
      <4> HIDE DEF l, m
      <4> QED
        BY <1>1, <1>2, <1>6, <2>2 DEF Smaller, Unlimited
    <3> QED
      BY <1>5, <1>12, <2>2, <3>1
  <2>3. CASE ~(m = Unlimited \/ l < m) /\ ~(m > 0)
    <3>1. memory' = memory
      BY <1>5, <2>3
    <3>2. ASSUME NEW i \in B PROVE OutOfReach(i)
      <4>0. i \in Nat
        BY <1>10
      <4> HIDE DEF l, m
      <4>1. m # Unlimited /\ i >= m
        BY <1>2, <2>3, <4>0 DEF Unlimited
      <4> QED
        BY <1>11, <4>1
    <3>3. \A i \in B : Held(i)' = Held(i)
      BY <1>8, <1>9, <3>2
    <3> QED
      BY <1>1, <3>1, <3>3
  <2> QED
    BY <2>1, <2>2, <2>3
<1>14. sent' = Received'
  <2>1. Received = IF job.sink = "console" THEN made
                   ELSE IF job.sink = "function" THEN out_fct(made) ELSE <<>>
    BY <1>4 DEF Received
  <2>2. Received' = IF job.sink = "console" THEN Append(made, Nul)
                    ELSE IF job.sink = "function" THEN out_fct(made) ELSE <<>>
    BY <1>4 DEF Received
  <2>3. CASE job.sink \in {"console", "function"}
    <3>1. Out(s, l)
      BY <1>2, <1>5, <2>3
    <3>2. /\ job.sink = "console" => sent' = sent \o s
          /\ job.sink = "function" => sent' = sent \o out_fct(s)
      BY <1>1, <1>3, <3>1, OutWrites
    <3>3. made \o s = Append(made, Nul)
      BY <1>1, <1>3
    <3>4. out_fct(made) \o out_fct(s) = out_fct(made)
      BY <1>1, OutFctOfNul, OutFctTyped, NothingJoined
    <3> QED
      BY <1>1, <2>1, <2>2, <2>3, <3>2, <3>3, <3>4
  <2>4. CASE job.sink \notin {"console", "function"}
    <3>1. sent' = sent
      BY <1>5, <2>4 DEF Out
    <3> QED
      BY <1>1, <2>1, <2>2, <2>4, <3>1
  <2> QED
    BY <2>3, <2>4
<1> QED
  BY <1>1, <1>4, <1>13, <1>14 DEF CallInv

LEMMA CallKept == CallInv /\ [Next]_vars => CallInv'
<1> SUFFICES ASSUME CallInv, [Next]_vars PROVE CallInv'
  OBVIOUS
<1>1. CASE Directive
  BY <1>1, ConvertKeepsCall DEF Directive
<1>2. CASE Terminate
  BY <1>2, TerminateKeepsCall
<1>3. CASE UNCHANGED vars
  <2>1. /\ job' = job /\ next' = next /\ idx' = idx /\ memory' = memory /\ sent' = sent
        /\ made' = made /\ ret' = ret
    BY <1>3 DEF vars
  <2>2. \A i : Held(i)' = Held(i)
    BY <2>1 DEF Held, OutOfReach, Kept
  <2>3. Received' = Received
    BY <2>1 DEF Received
  <2> QED
    BY <2>1, <2>2, <2>3 DEF CallInv
<1> QED
  BY <1>1, <1>2, <1>3 DEF Next

LEMMA CallHolds == Spec => []CallInv
<1> QED
  BY CallStarts, CallKept, PTL DEF Spec

\* The caller's buffer is written below maxlen only and holds the beginning of
\* the text and a NUL, whatever the directives, their lengths and the room; the
\* console receives the whole of it, a function all but its NULs, and the result
\* is its length.
THEOREM TextIsCutToFit == Spec => []BufferHoldsTheText
<1>1. CallInv => BufferHoldsTheText
  <2> SUFFICES ASSUME CallInv PROVE BufferHoldsTheText
    OBVIOUS
  <2> DEFINE l == Len(made)
             m == job.maxlen
  <2>1. /\ job \in Jobs /\ made \in Seq(Chars) /\ l \in Nat
        /\ memory = [i \in 0 .. BufferBytes - 1 |-> Held(i)] /\ sent = Received
        /\ ret \in {-1, l}
    BY DEF CallInv
  <2>2. m \in Nat \cup {Unlimited}
    BY <2>1, JobTypes
  <2>3. DOMAIN memory = 0 .. BufferBytes - 1 /\ \A i \in DOMAIN memory : memory[i] = Held(i)
    BY <2>1
  <2>4. ret # -1 => ret = Len(made)
    BY <2>1
  <2>5. \A i \in DOMAIN memory : (m # Unlimited /\ i >= m) \/ job.sink # "buffer"
                                   => memory[i] = Untouched
    BY <2>3 DEF Held, OutOfReach
  <2>6. ASSUME ret # -1, job.sink = "buffer", m # 0
        PROVE  /\ \A i \in 1 .. Kept : i - 1 \in DOMAIN memory => memory[i - 1] = made[i]
               /\ Kept \in DOMAIN memory => memory[Kept] = Nul
    <3>1. Kept = (IF m = Unlimited THEN l ELSE Smaller(l, m - 1))
      BY DEF Kept
    <3>2. Kept \in Nat /\ Kept <= l /\ (m # Unlimited => Kept < m)
      <4> HIDE DEF l, m
      <4> QED
        BY <2>1, <2>2, <2>6, <3>1 DEF Smaller, Unlimited
    <3>3. \A i \in Nat : i <= Kept => ~OutOfReach(i)
      <4>1. \A i : OutOfReach(i) <=> (m # Unlimited /\ i >= m)
        BY <2>6 DEF OutOfReach
      <4> HIDE DEF m
      <4> QED
        BY <2>2, <3>2, <4>1 DEF Unlimited
    <3>4. ASSUME NEW i \in 1 .. Kept, i - 1 \in DOMAIN memory PROVE memory[i - 1] = made[i]
      <4>1. i - 1 \in Nat /\ i - 1 <= Kept /\ i - 1 # Kept /\ i - 1 < l /\ (i - 1) + 1 = i
        BY <2>1, <3>2
      <4>2. Held(i - 1) = made[(i - 1) + 1]
        BY <2>6, <3>3, <4>1 DEF Held
      <4> QED
        BY <2>3, <3>4, <4>1, <4>2
    <3>5. Kept \in DOMAIN memory => memory[Kept] = Nul
      BY <2>3, <2>6, <3>2, <3>3 DEF Held
    <3> QED
      BY <3>4, <3>5
  <2>7. /\ ret # -1 /\ job.sink = "console" => sent = Append(made, Nul)
        /\ ret # -1 /\ job.sink = "function" => sent = out_fct(made)
    BY <2>1 DEF Received
  <2> QED
    BY <2>4, <2>5, <2>6, <2>7 DEF BufferHoldsTheText, Kept
<1> QED
  BY <1>1, CallHolds, PTL

\* No character or string is shorter than its width, and no number unless it is
\* padded with zeros and wider than the buffer, which it then fills; characters
\* and strings are padded with blanks on the side the flags name, and strings are
\* cut by their precision only.
THEOREM WidthsAreFilled == Spec => PaddedToWidth
<1> DEFINE Step ==
      \A i \in DOMAIN job.format :
          LET d == job.format[i]
              piece == SubSeq(made', Len(made) + 1, Len(made'))
          IN  Convert(i) /\ d.spec \notin {"%", "literal", "other"} =>
                /\ Len(piece) >= Filled(d)
                /\ d.spec \in {"c", "s"} /\ d.prec # NegativePrecision =>
                     LET whole == IF d.spec = "c" \/ d.prec < 0 THEN d.text
                                  ELSE SubSeq(d.text, 1, Smaller(d.prec, Len(d.text)))
                         first == IF "-" \in Flags(d) THEN 0 ELSE Len(piece) - Len(whole)
                     IN  /\ Len(piece) = Larger(Width(d), Len(whole))
                         /\ \A k \in DOMAIN piece :
                              piece[k] = IF k - first \in DOMAIN whole THEN whole[k - first]
                                         ELSE Blank
<1>1. CallInv /\ [Next]_vars => [Step]_vars
  <2> SUFFICES ASSUME CallInv,
                      NEW i \in DOMAIN job.format,
                      Convert(i), job.format[i].spec \notin {"%", "literal", "other"}
               PROVE  LET d == job.format[i]
                          piece == SubSeq(made', Len(made) + 1, Len(made'))
                      IN  /\ Len(piece) >= Filled(d)
                          /\ d.spec \in {"c", "s"} /\ d.prec # NegativePrecision =>
                               LET whole == IF d.spec = "c" \/ d.prec < 0 THEN d.text
                                            ELSE SubSeq(d.text, 1, Smaller(d.prec, Len(d.text)))
                                   first == IF "-" \in Flags(d) THEN 0
                                            ELSE Len(piece) - Len(whole)
                               IN  /\ Len(piece) = Larger(Width(d), Len(whole))
                                   /\ \A k \in DOMAIN piece :
                                        piece[k] = IF k - first \in DOMAIN whole
                                                   THEN whole[k - first] ELSE Blank
    OBVIOUS
  <2> DEFINE d == job.format[i]
             piece == SubSeq(made', Len(made) + 1, Len(made'))
             whole == IF d.spec = "c" \/ d.prec < 0 THEN d.text
                      ELSE SubSeq(d.text, 1, Smaller(d.prec, Len(d.text)))
             first == IF "-" \in Flags(d) THEN 0 ELSE Len(piece) - Len(whole)
             t == Text(d)
  <2>0. d.spec \notin {"%", "literal", "other"}
    OBVIOUS
  <2>1. made \in Seq(Chars) /\ job \in Jobs
    BY DEF CallInv
  <2>2. d \in Directives
    BY <2>1, JobTypes
  <2>3. made' = made \o t
    BY ConvertKeepsCall
  <2> HIDE DEF d
  <2>4. t \in Seq(Chars) /\ Len(t) >= Filled(d)
    BY <2>0, <2>2, TextFills
  <2>5. piece = t
    <3> HIDE DEF t
    <3>1. made \o t \in Seq(Chars) /\ Len(made \o t) = Len(made) + Len(t)
          /\ \A k \in 1 .. Len(t) : (made \o t)[Len(made) + k] = t[k]
      BY <2>1, <2>4, Joined
    <3> DEFINE u == made \o t
               l == Len(made)
               n == Len(t)
               p == SubSeq(u, l + 1, Len(u))
    <3>2. l \in Nat /\ n \in Nat /\ Len(u) = l + n /\ u \in Seq(Chars)
      BY <2>1, <2>4, <3>1
    <3>3. \A k \in 1 .. n : u[l + k] = t[k]
      BY <3>1
    <3> HIDE DEF u, l, n
    <3>4. p \in Seq(Chars) /\ Len(p) = n /\ \A k \in 1 .. n : p[k] = u[l + k]
      BY <3>2
    <3>5. p = t
      <4> HIDE DEF p
      <4>1. Len(p) = Len(t) /\ \A k \in 1 .. Len(p) : p[k] = t[k]
        BY <3>3, <3>4 DEF n
      <4> QED
        BY <2>4, <3>4, <4>1, SameSequence
    <3> QED
      BY <2>3, <3>5 DEF u, l
  <2>6. Len(piece) >= Filled(d)
    BY <2>4, <2>5
  <2>7. ASSUME d.spec \in {"c", "s"}, d.prec # NegativePrecision
        PROVE  /\ Len(piece) = Larger(Width(d), Len(whole))
               /\ \A k \in DOMAIN piece :
                     piece[k] = IF k - first \in DOMAIN whole THEN whole[k - first] ELSE Blank
    <3>2. whole \in Seq(Chars) /\ t = Aligned(whole, d)
      <4>1. CASE d.spec = "c"
        BY <2>2, <4>1, Arguments DEF Text
      <4>2. CASE d.spec = "s"
        <5>1. d.prec \in Nat \cup {NoPrecision}
          BY <2>2, <2>7, Arguments
        <5>2. Precision(d) = d.prec
          BY <2>7 DEF Precision
        <5>3. (d.prec < 0) <=> (d.prec = NoPrecision)
          BY <5>1 DEF NoPrecision
        <5>4. whole = Shown(d)
          BY <4>2, <5>2, <5>3 DEF Shown
        <5>5. t = Aligned(Shown(d), d)
          BY <4>2 DEF Text, StringText, Shown
        <5> QED
          BY <2>2, <5>4, <5>5, ShownIsText
      <4> QED
        BY <2>7, <4>1, <4>2
    <3> HIDE DEF whole, piece, t
    <3> DEFINE a == Aligned(whole, d)
               o == IF "-" \in Flags(d) THEN 0 ELSE Len(a) - Len(whole)
    <3>3. Len(a) = Larger(Width(d), Len(whole))
      BY <2>2, <3>2, AlignedFills
    <3>4. \A k \in DOMAIN a : a[k] = IF k - o \in DOMAIN whole THEN whole[k - o] ELSE Blank
      BY <2>2, <3>2, AlignedFills
    <3>5. piece = a /\ first = o
      BY <2>5, <3>2
    <3> HIDE DEF a, o, first
    <3> QED
      BY <3>3, <3>4, <3>5
  <2> QED
    BY <2>6, <2>7 DEF d
<1> QED
  BY <1>1, CallHolds, PTL DEF Spec, PaddedToWidth

----
\* The reverse of what is put together.

LEMMA ReverseJoined ==
    ASSUME NEW a \in Seq(Chars), NEW b \in Seq(Chars)
    PROVE  Reverse(a \o b) = Reverse(b) \o Reverse(a)
<1> DEFINE m == Len(a)
           n == Len(b)
           u == a \o b
           ra == Reverse(a)
           rb == Reverse(b)
           l == Reverse(u)
           r == rb \o ra
<1>1. /\ u \in Seq(Chars) /\ Len(u) = m + n /\ m \in Nat /\ n \in Nat
      /\ (\A i \in 1 .. m : u[i] = a[i]) /\ (\A j \in 1 .. n : u[m + j] = b[j])
  BY Joined
<1>2. /\ ra \in Seq(Chars) /\ Len(ra) = m /\ (\A i \in 1 .. m : ra[i] = a[m - i + 1])
      /\ rb \in Seq(Chars) /\ Len(rb) = n /\ (\A j \in 1 .. n : rb[j] = b[n - j + 1])
  BY Reversed
<1> HIDE DEF u, ra, rb
<1>3. l \in Seq(Chars) /\ Len(l) = m + n /\ \A i \in 1 .. m + n : l[i] = u[m + n - i + 1]
  BY <1>1, Reversed
<1>4. /\ r \in Seq(Chars) /\ Len(r) = n + m
      /\ (\A i \in 1 .. n : r[i] = rb[i]) /\ (\A j \in 1 .. m : r[n + j] = ra[j])
  <2>1. /\ r \in Seq(Chars) /\ Len(r) = Len(rb) + Len(ra)
        /\ (\A i \in 1 .. Len(rb) : r[i] = rb[i])
        /\ (\A j \in 1 .. Len(ra) : r[Len(rb) + j] = ra[j])
    BY <1>2, Joined
  <2> HIDE DEF r, m, n
  <2> QED
    BY <1>2, <2>1
<1> HIDE DEF l, r, m, n
<1>5. ASSUME NEW i \in 1 .. m + n PROVE l[i] = r[i]
  <2>1. CASE i \in 1 .. n
    <3>1. n - i + 1 \in 1 .. n /\ m + n - i + 1 = m + (n - i + 1)
      BY <1>1, <2>1
    <3>2. l[i] = u[m + (n - i + 1)]
      BY <1>3, <3>1
    <3>3. u[m + (n - i + 1)] = b[n - i + 1]
      BY <1>1, <3>1
    <3> QED
      BY <1>2, <1>4, <2>1, <3>2, <3>3
  <2>2. CASE i \notin 1 .. n
    <3> DEFINE j == i - n
    <3>1. j \in 1 .. m /\ i = n + j /\ m + n - i + 1 = m - j + 1 /\ m - j + 1 \in 1 .. m
      BY <1>1, <2>2
    <3> HIDE DEF j
    <3>2. l[i] = u[m - j + 1]
      BY <1>3, <3>1
    <3>3. r[i] = ra[j]
      BY <1>4, <3>1
    <3> QED
      BY <1>1, <1>2, <3>1, <3>2, <3>3
  <2> QED
    BY <2>1, <2>2
<1>6. Len(l) = Len(r) /\ \A i \in 1 .. Len(l) : l[i] = r[i]
  BY <1>1, <1>3, <1>4, <1>5
<1> QED
  BY <1>3, <1>4, <1>6, SameSequence DEF l, r, u, ra, rb

LEMMA ReverseRepeat ==
    ASSUME NEW c \in Chars, NEW n \in Nat
    PROVE  Reverse(Repeat(c, n)) = Repeat(c, n)
<1> DEFINE s == Repeat(c, n)
           r == Reverse(s)
<1>1. s \in Seq(Chars) /\ Len(s) = n /\ \A i \in 1 .. n : s[i] = c
  BY Repeats
<1> HIDE DEF s
<1>2. r \in Seq(Chars) /\ Len(r) = n /\ \A i \in 1 .. n : r[i] = s[n - i + 1]
  BY <1>1, Reversed
<1> HIDE DEF r
<1>3. \A i \in 1 .. n : r[i] = s[i]
  <2> TAKE i \in 1 .. n
  <2>1. n - i + 1 \in 1 .. n
    OBVIOUS
  <2> QED
    BY <1>1, <1>2, <2>1
<1> QED
  BY <1>1, <1>2, <1>3, SameSequence DEF r, s

LEMMA ReverseShort ==
    /\ Reverse(<<>>) = <<>>
    /\ \A c \in Chars : Reverse(<<c>>) = <<c>>
<1>1. Reverse(<<>>) = <<>>
  <2>1. <<>> \in Seq(Chars) /\ Len(<<>>) = 0
    BY NothingJoined
  <2>2. Reverse(<<>>) \in Seq(Chars) /\ Len(Reverse(<<>>)) = 0
    BY <2>1, Reversed
  <2> QED
    BY <2>2
<1>2. \A c \in Chars : Reverse(<<c>>) = <<c>>
  BY NothingJoined, ReversedWhole
<1> QED
  BY <1>1, <1>2

LEMMA Pair ==
    ASSUME NEW c \in Chars, NEW e \in Chars
    PROVE  <<c, e>> \in Seq(Chars) /\ Len(<<c, e>>) = 2 /\ <<c>> \o <<e>> = <<c, e>>
<1>1. <<c, e>> \in Seq(Chars) /\ Len(<<c, e>>) = 2 /\ <<c, e>>[1] = c /\ <<c, e>>[2] = e
  OBVIOUS
<1>2. <<c>> \o <<e>> \in Seq(Chars) /\ Len(<<c>> \o <<e>>) = 2
  OBVIOUS
<1>3. (<<c>> \o <<e>>)[1] = c /\ (<<c>> \o <<e>>)[2] = e
  OBVIOUS
<1>4. \A i \in 1 .. 2 : (<<c>> \o <<e>>)[i] = <<c, e>>[i]
  <2>1. \A i \in 1 .. 2 : i = 1 \/ i = 2
    OBVIOUS
  <2> QED
    BY <1>1, <1>3, <2>1
<1> QED
  BY <1>1, <1>2, <1>4, SameSequence

LEMMA RepeatNone == \A c : Repeat(c, 0) = <<>>
BY DEF Repeat

\* The beginning of what was put together.
LEMMA BeginningJoined ==
    ASSUME NEW a \in Seq(Chars), NEW c \in Chars, NEW z \in Nat, NEW t \in 0 .. z
    PROVE  SubSeq(a \o Repeat(c, z), 1, Len(a) + (z - t)) = a \o Repeat(c, z - t)
<1> DEFINE u == a \o Repeat(c, z)
           v == a \o Repeat(c, z - t)
           m == Len(a)
           y == z - t
           s == SubSeq(u, 1, m + y)
<1>0. y \in Nat /\ y <= z /\ m \in Nat
  OBVIOUS
<1>1. /\ u \in Seq(Chars) /\ Len(u) = m + z
      /\ (\A i \in 1 .. m : u[i] = a[i]) /\ (\A j \in 1 .. z : u[m + j] = c)
  <2> DEFINE q == Repeat(c, z)
  <2>1. q \in Seq(Chars) /\ Len(q) = z /\ \A j \in 1 .. z : q[j] = c
    BY Repeats
  <2> HIDE DEF q
  <2>2. /\ a \o q \in Seq(Chars) /\ Len(a \o q) = Len(a) + Len(q)
        /\ (\A i \in 1 .. Len(a) : (a \o q)[i] = a[i])
        /\ (\A j \in 1 .. Len(q) : (a \o q)[Len(a) + j] = q[j])
    BY <2>1, Joined
  <2>3. u = a \o q
    BY DEF q
  <2> HIDE DEF u, m
  <2>4. m = Len(a)
    BY DEF m
  <2> QED
    BY <2>1, <2>2, <2>3, <2>4
<1>2. /\ v \in Seq(Chars) /\ Len(v) = m + y
      /\ (\A i \in 1 .. m : v[i] = a[i]) /\ (\A j \in 1 .. y : v[m + j] = c)
  <2> DEFINE q == Repeat(c, y)
  <2> HIDE DEF y
  <2>1. q \in Seq(Chars) /\ Len(q) = y /\ \A j \in 1 .. y : q[j] = c
    BY <1>0, Repeats
  <2>3. v = a \o q
    BY DEF y
  <2> HIDE DEF q, v
  <2>2. /\ a \o q \in Seq(Chars) /\ Len(a \o q) = Len(a) + Len(q)
        /\ (\A i \in 1 .. Len(a) : (a \o q)[i] = a[i])
        /\ (\A j \in 1 .. Len(q) : (a \o q)[Len(a) + j] = q[j])
    BY <2>1, Joined
  <2> HIDE DEF m
  <2>4. m = Len(a)
    BY DEF m
  <2> QED
    BY <2>1, <2>2, <2>3, <2>4
<1> HIDE DEF u, v, m, y
<1>3. s \in Seq(Chars) /\ Len(s) = m + y /\ \A i \in 1 .. m + y : s[i] = u[i]
  <2>1. m + y \in 0 .. Len(u)
    BY <1>0, <1>1
  <2> QED
    BY <1>1, <2>1, Beginning
<1> HIDE DEF s
<1>4. ASSUME NEW i \in 1 .. m + y PROVE s[i] = v[i]
  <2>1. CASE i \in 1 .. m
    BY <1>1, <1>2, <1>3, <2>1
  <2>2. CASE i \notin 1 .. m
    <3> DEFINE j == i - m
    <3>1. j \in 1 .. y /\ j \in 1 .. z /\ i = m + j
      BY <1>0, <2>2
    <3> HIDE DEF j
    <3> QED
      BY <1>1, <1>2, <1>3, <3>1
  <2> QED
    BY <2>1, <2>2
<1> QED
  BY <1>2, <1>3, <1>4, SameSequence DEF s, u, v, m, y

----
\* What a conversion of the code puts together.

Prefix(base, flags) ==
    IF "#" \notin flags THEN <<>>
    ELSE CASE base = 16 -> <<0, LetterX>> [] base = 2 -> <<0, LetterB>> [] OTHER -> <<0>>

LEMMA PrefixLengths ==
    ASSUME NEW base \in Bases, NEW flags
    PROVE  /\ Prefix(base, flags) \in Seq(Chars) /\ Len(Prefix(base, flags)) \in 0 .. 2
           /\ "#" \notin flags => Prefix(base, flags) = <<>> /\ Len(Prefix(base, flags)) = 0
           /\ "#" \in flags /\ base = 16 => Len(Prefix(base, flags)) = 2
           /\ "#" \in flags /\ base = 8 => Len(Prefix(base, flags)) = 1
<1>1. LetterX \in Chars /\ LetterB \in Chars /\ 0 \in Chars
  BY DEF LetterX, LetterB, Chars
<1>2. /\ <<0, LetterX>> \in Seq(Chars) /\ Len(<<0, LetterX>>) = 2
      /\ <<0, LetterB>> \in Seq(Chars) /\ Len(<<0, LetterB>>) = 2
      /\ <<0>> \in Seq(Chars) /\ Len(<<0>>) = 1
  BY <1>1
<1>3. "#" \in flags => Prefix(base, flags) = IF base = 16 THEN <<0, LetterX>>
                                             ELSE IF base = 2 THEN <<0, LetterB>> ELSE <<0>>
  BY DEF Prefix
<1>4. "#" \notin flags => Prefix(base, flags) = <<>>
  BY DEF Prefix
<1> DEFINE p == Prefix(base, flags)
<1>5. p \in {<<0, LetterX>>, <<0, LetterB>>, <<0>>, <<>>}
  BY <1>3, <1>4
<1> HIDE DEF p
<1>6. p \in Seq(Chars) /\ Len(p) \in 0 .. 2
  <2> DEFINE a == <<0, LetterX>>
             b == <<0, LetterB>>
             c == <<0>>
             e == <<>>
  <2>1. p \in {a, b, c, e}
    BY <1>5
  <2>2. /\ a \in Seq(Chars) /\ Len(a) = 2 /\ b \in Seq(Chars) /\ Len(b) = 2
        /\ c \in Seq(Chars) /\ Len(c) = 1 /\ e \in Seq(Chars) /\ Len(e) = 0
    BY <1>2, NothingJoined
  <2> HIDE DEF a, b, c, e
  <2>3. p = a => p \in Seq(Chars) /\ Len(p) = 2
    BY <2>2
  <2>4. p = b => p \in Seq(Chars) /\ Len(p) = 2
    BY <2>2
  <2>5. p = c => p \in Seq(Chars) /\ Len(p) = 1
    BY <2>2
  <2>6. p = e => p \in Seq(Chars) /\ Len(p) = 0
    BY <2>2
  <2>7. p = a \/ p = b \/ p = c \/ p = e
    BY <2>1
  <2> QED
    BY <2>3, <2>4, <2>5, <2>6, <2>7
<1>7. "#" \notin flags => p = <<>> /\ Len(p) = 0
  BY <1>4, NothingJoined DEF p
<1>8. "#" \in flags /\ base = 16 => Len(p) = 2
  BY <1>2, <1>3 DEF p
<1>9. "#" \in flags /\ base = 8 => Len(p) = 1
  BY <1>2, <1>3 DEF p
<1> QED
  BY <1>6, <1>7, <1>8, <1>9 DEF p

\* The places that a prefix takes.
Given(buf, base, prec, width) ==
    IF prec = NoPrecision /\ buf # <<>> /\ Len(buf) = width
    THEN Smaller(Len(buf), IF base = 16 THEN 2 ELSE 1) ELSE 0

IsHashed(buf, base, prec, width, flags) ==
    LET h == Hashed(buf, base, prec, width)
        m == Len(buf) - Given(buf, base, prec, width)
    IN  /\ h \in Seq(Chars) /\ Len(h) = m + Len(Prefix(base, flags))
        /\ Reverse(h) = Prefix(base, flags) \o Reverse(SubSeq(buf, 1, m))

LEMMA HashedAs ==
    ASSUME NEW buf \in Seq(Chars), NEW base \in Bases, NEW prec \in Int, NEW width \in Nat, NEW flags,
           "#" \in flags, Given(buf, base, prec, width) \in 0 .. Len(buf),
           Len(buf) - Given(buf, base, prec, width) + Len(Prefix(base, flags)) <= NtoaSize
    PROVE  IsHashed(buf, base, prec, width, flags)
<1> DEFINE letter == IF base = 16 THEN <<LetterX>> ELSE IF base = 2 THEN <<LetterB>> ELSE <<>>
           t == Given(buf, base, prec, width)
           m == Len(buf) - t
           s == SubSeq(buf, 1, m)
           h == Hashed(buf, base, prec, width)
           pre == Prefix(base, flags)
           g == Len(letter)
<1>0. LetterX \in Chars /\ LetterB \in Chars /\ 0 \in Chars
  BY DEF LetterX, LetterB, Chars
<1>1. h = Fits(Fits(s, letter), <<0>>)
  BY DEF Hashed, Given
<1> HIDE DEF t
<1>2. m \in 0 .. Len(buf) /\ m \in Nat
  BY DEF t
<1>3. /\ letter \in Seq(Chars) /\ g \in {0, 1} /\ Reverse(letter) = letter
      /\ pre = <<0>> \o letter /\ Len(pre) = 1 + g
  <2>1. CASE base = 16
    <3>1. letter = <<LetterX>> /\ pre = <<0, LetterX>>
      BY <2>1 DEF Prefix
    <3> HIDE DEF letter, pre
    <3>2. <<0>> \o <<LetterX>> = <<0, LetterX>> /\ Len(<<0, LetterX>>) = 2
      BY <1>0, Pair
    <3> QED
      BY <1>0, <3>1, <3>2, Single, ReverseShort
  <2>2. CASE base = 2
    <3>1. letter = <<LetterB>> /\ pre = <<0, LetterB>>
      BY <2>2 DEF Prefix
    <3> HIDE DEF letter, pre
    <3>2. <<0>> \o <<LetterB>> = <<0, LetterB>> /\ Len(<<0, LetterB>>) = 2
      BY <1>0, Pair
    <3> QED
      BY <1>0, <3>1, <3>2, Single, ReverseShort
  <2>3. CASE base \notin {2, 16}
    <3>1. letter = <<>> /\ pre = <<0>>
      BY <2>3 DEF Prefix
    <3> HIDE DEF letter, pre
    <3> QED
      BY <1>0, <3>1, Single, NothingJoined, ReverseShort
  <2> QED
    BY <2>1, <2>2, <2>3
<1>4. s \in Seq(Chars) /\ Len(s) = m
  <2> HIDE DEF m
  <2> QED
    BY <1>2, Beginning
<1>5. m + (1 + g) <= NtoaSize
  <2>1. m + Len(pre) <= NtoaSize
    BY DEF t
  <2> QED
    BY <1>3, <2>1
<1> HIDE DEF letter, m, s, h, pre
<1>6. Fits(s, letter) = s \o letter /\ s \o letter \in Seq(Chars) /\ Len(s \o letter) = m + g
  <2>1. Len(s) + Len(letter) <= NtoaSize
    <3>1. NtoaSize \in Nat
      BY PrintfAssumption DEF PrintfAssumption
    <3> QED
      BY <1>2, <1>3, <1>4, <1>5, <3>1
  <2> QED
    BY <1>3, <1>4, <2>1, FitsIn, Joined
<1> DEFINE u == s \o letter
           z == <<0>>
<1>7. z \in Seq(Chars) /\ Len(z) = 1 /\ Reverse(z) = z
  BY <1>0, Single, ReverseShort
<1>8. u \in Seq(Chars) /\ Len(u) = m + g /\ h = Fits(u, z) /\ Reverse(u) = letter \o Reverse(s)
  BY <1>1, <1>3, <1>4, <1>6, ReverseJoined
<1> HIDE DEF u, z
<1>9. Len(u) + Len(z) <= NtoaSize /\ Len(u) + Len(z) = m + (1 + g)
  BY <1>2, <1>3, <1>5, <1>7, <1>8
<1>10. h = u \o z
  BY <1>7, <1>8, <1>9, FitsIn
<1>11. h \in Seq(Chars) /\ Len(h) = m + (1 + g)
  BY <1>7, <1>8, <1>9, <1>10, Joined
<1>12. Reverse(h) = z \o (letter \o Reverse(s))
  BY <1>7, <1>8, <1>10, ReverseJoined
<1>13. z \o (letter \o Reverse(s)) = (z \o letter) \o Reverse(s)
  <2> DEFINE rs == Reverse(s)
  <2>1. rs \in Seq(Chars)
    BY <1>4, Reversed
  <2> HIDE DEF rs
  <2>2. Associate(z, letter, rs)
    BY <1>3, <1>7, <2>1, Regrouped
  <2> QED
    BY <2>2 DEF Associate, rs
<1>14. pre = z \o letter
  BY <1>3 DEF z
<1> QED
  BY <1>3, <1>11, <1>12, <1>13, <1>14 DEF IsHashed, h, pre, m, s, t

LEMMA SignReversed ==
    ASSUME NEW negative \in BOOLEAN, NEW flags
    PROVE  Reverse(SignOf(negative, flags)) = SignOf(negative, flags)
<1>1. Minus \in Chars /\ Plus \in Chars /\ Blank \in Chars
  BY DEF Minus, Plus, Blank, Chars
<1>2. SignOf(negative, flags) \in {<<Minus>>, <<Plus>>, <<Blank>>, <<>>}
  BY DEF SignOf
<1> QED
  BY <1>1, <1>2, ReverseShort

\* The digits with the zeros of the precision, the last one first.
Precise(digits, prec, flags) == IF "-" \in flags THEN digits ELSE Zeros(digits, prec)

\* A number that is not padded with zeros.
Plainly(sign, pre, precise, width, flags) ==
    LET body == (sign \o pre) \o Reverse(precise)
        pad == PadTo(width, Len(sign) + Len(pre) + Len(precise))
    IN  IF "-" \in flags THEN body \o pad ELSE pad \o body

LEMMA PlainFormat ==
    ASSUME NEW digits \in Seq(Chars), NEW negative \in BOOLEAN, NEW base \in Bases, NEW prec \in Int,
           NEW width \in Nat, NEW flags,
           "-" \in flags \/ "0" \notin flags,
           "#" \in flags => prec # NoPrecision \/ Len(Precise(digits, prec, flags)) # width,
           Len(SignOf(negative, flags)) + Len(Prefix(base, flags)) + Len(Precise(digits, prec, flags))
             <= NtoaSize
    PROVE  ntoa_format(digits, negative, base, prec, width, flags)
             = Plainly(SignOf(negative, flags), Prefix(base, flags), Precise(digits, prec, flags),
                       width, flags)
<1> DEFINE sign == SignOf(negative, flags)
           precise == Precise(digits, prec, flags)
           left == "-" \in flags
           zeropad == "0" \in flags
           pre == Prefix(base, flags)
           body == (sign \o pre) \o Reverse(precise)
           prefixed == IF "#" \in flags THEN Hashed(precise, base, prec, width) ELSE precise
           buf == Fits(prefixed, sign)
           g == Len(sign)
           q == Len(pre)
           n == Len(precise)
           pad == PadTo(width, g + q + n)
<1>0. NtoaSize \in Nat
  BY PrintfAssumption DEF PrintfAssumption
<1>1. ntoa_format(digits, negative, base, prec, width, flags) = out_rev(buf, width, left, zeropad)
  BY DEF ntoa_format, Precise
<1>a. precise \in Seq(Chars)
  <2>1. "-" \in flags => precise = digits
    BY DEF Precise
  <2>2. "-" \notin flags => precise \in Seq(Chars)
    BY ZerosPad DEF Precise
  <2> QED
    BY <2>1, <2>2
<1> HIDE DEF precise
<1>2. sign \in Seq(Chars) /\ g \in {0, 1} /\ Reverse(sign) = sign
  BY Signs, SignReversed
<1>4. /\ g + q + n <= NtoaSize
      /\ "#" \in flags => prec # NoPrecision \/ Len(precise) # width
  BY DEF precise
<1> HIDE DEF sign
<1>3. /\ pre \in Seq(Chars) /\ q \in 0 .. 2 /\ n \in Nat
      /\ "#" \notin flags => pre = <<>> /\ q = 0
  BY <1>a, PrefixLengths
<1>5. /\ prefixed \in Seq(Chars) /\ Len(prefixed) = q + n
      /\ Reverse(prefixed) = pre \o Reverse(precise)
  <2>1. CASE "#" \notin flags
    <3>1. prefixed = precise /\ pre = <<>> /\ q = 0
      BY <1>3, <2>1
    <3>2. Reverse(precise) \in Seq(Chars)
      BY <1>a, Reversed
    <3>3. pre \o Reverse(precise) = Reverse(precise)
      BY <3>1, <3>2, NothingJoined
    <3>4. q + n = n
      <4> HIDE DEF q, n
      <4> QED
        BY <1>3, <3>1
    <3> HIDE DEF prefixed
    <3> QED
      BY <1>a, <3>1, <3>3, <3>4
  <2>2. CASE "#" \in flags
    <3> DEFINE t == Given(precise, base, prec, width)
               h == Hashed(precise, base, prec, width)
    <3>1. t = 0
      BY <1>4, <2>2 DEF Given
    <3> HIDE DEF t
    <3>2. t \in 0 .. Len(precise) /\ Len(precise) - t = n
      BY <1>3, <3>1
    <3>3. Len(precise) - t + Len(Prefix(base, flags)) <= NtoaSize
      <4>1. n + q <= NtoaSize
        <5> HIDE DEF g, q, n
        <5> QED
          BY <1>0, <1>2, <1>3, <1>4
      <4>2. Len(precise) - t + Len(Prefix(base, flags)) = n + q
        BY <3>2
      <4> QED
        BY <4>1, <4>2
    <3>4. /\ h \in Seq(Chars) /\ Len(h) = Len(precise) - t + Len(Prefix(base, flags))
          /\ Reverse(h) = Prefix(base, flags) \o Reverse(SubSeq(precise, 1, Len(precise) - t))
      <4>1. IsHashed(precise, base, prec, width, flags)
        BY <1>a, <2>2, <3>2, <3>3, HashedAs DEF t
      <4> QED
        BY <4>1 DEF IsHashed, t, h
    <3> HIDE DEF h
    <3>5. SubSeq(precise, 1, Len(precise) - t) = precise
      BY <1>a, <3>2, WholeBeginning
    <3>6. prefixed = h
      BY <2>2 DEF h
    <3>7. Len(h) = n + q
      BY <3>2, <3>4
    <3>8. n + q = q + n
      <4> HIDE DEF q, n
      <4> QED
        BY <1>3
    <3> HIDE DEF prefixed, n, q
    <3> QED
      BY <3>4, <3>5, <3>6, <3>7, <3>8
  <2> QED
    BY <2>1, <2>2
<1> HIDE DEF prefixed, pre
<1>6. buf = prefixed \o sign
  <2>1. Len(prefixed) + Len(sign) <= NtoaSize
    <3> HIDE DEF q, n, g
    <3>1. Len(prefixed) + g <= NtoaSize
      BY <1>0, <1>2, <1>3, <1>4, <1>5
    <3> QED
      BY <3>1 DEF g
  <2> QED
    BY <1>2, <1>5, <2>1, FitsIn
<1> DEFINE r == Reverse(precise)
<1>7. r \in Seq(Chars)
  BY <1>a, Reversed
<1> HIDE DEF r
<1>8. Reverse(buf) = body /\ body \in Seq(Chars)
  <2>1. Reverse(prefixed \o sign) = sign \o (pre \o r)
    BY <1>2, <1>5, ReverseJoined DEF r
  <2>2. (sign \o pre) \o r = sign \o (pre \o r)
    <3>1. Associate(sign, pre, r)
      BY <1>2, <1>3, <1>7, Regrouped
    <3> QED
      BY <3>1 DEF Associate
  <2>3. sign \o pre \in Seq(Chars)
    BY <1>2, <1>3, Joined
  <2>4. (sign \o pre) \o r \in Seq(Chars)
    BY <1>7, <2>3, Joined
  <2>5. body = (sign \o pre) \o r
    BY DEF r
  <2> QED
    BY <1>6, <2>1, <2>2, <2>4, <2>5
<1>9. Len(buf) = g + q + n
  <2> HIDE DEF buf
  <2>1. Len(buf) = Len(prefixed) + g
    <3>1. Len(buf) = Len(prefixed) + Len(sign)
      BY <1>2, <1>5, <1>6, Joined
    <3> QED
      BY <3>1
  <2> HIDE DEF q, n, g
  <2> QED
    BY <1>2, <1>3, <1>5, <2>1
<1> HIDE DEF body, buf
<1>10. out_rev(buf, width, left, zeropad)
         = (IF left \/ zeropad THEN <<>> ELSE pad) \o body \o (IF left THEN pad ELSE <<>>)
  BY <1>8, <1>9 DEF out_rev
<1>11. pad \in Seq(Chars)
  <2>1. g + q + n \in Nat /\ width \in Int
    <3> HIDE DEF g, q, n
    <3> QED
      BY <1>2, <1>3
  <2> HIDE DEF g, q, n
  <2> QED
    BY <2>1, Pads
<1> HIDE DEF pad
<1>12. CASE left
  <2>1. out_rev(buf, width, left, zeropad) = (<<>> \o body) \o pad
    BY <1>10, <1>12
  <2>2. <<>> \o body = body
    BY <1>8, NothingJoined
  <2> QED
    BY <1>1, <1>12, <2>1, <2>2 DEF Plainly, pad, body, pre, g, q, n, sign, precise
<1>13. CASE ~left
  <2>1. out_rev(buf, width, left, zeropad) = (pad \o body) \o <<>>
    BY <1>10, <1>13
  <2>2. (pad \o body) \o <<>> = pad \o body
    BY <1>8, <1>11, Joined, NothingJoined
  <2> QED
    BY <1>1, <1>13, <2>1, <2>2 DEF Plainly, pad, body, pre, g, q, n, sign, precise
<1> QED
  BY <1>12, <1>13

\* A number that is padded with zeros.
ZerosToGo(sign, pre, digits, width) == Larger(width - Len(sign) - Len(pre) - Len(digits), 0)

WithZeros(sign, pre, digits, width) ==
    ((sign \o pre) \o Repeat(0, ZerosToGo(sign, pre, digits, width))) \o Reverse(digits)

LEMMA ZeroFormat ==
    ASSUME NEW digits \in Seq(Chars), NEW negative \in BOOLEAN, NEW base \in Bases, NEW width \in Nat,
           NEW flags, "-" \notin flags, "0" \in flags, digits # <<>>,
           "#" \in flags => /\ SignOf(negative, flags) = <<>> /\ base \in {8, 16}
                            /\ width \notin Len(digits) .. Len(digits) + 1,
           Len(SignOf(negative, flags)) + Len(Prefix(base, flags)) + Len(digits)
             + ZerosToGo(SignOf(negative, flags), Prefix(base, flags), digits, width) <= NtoaSize
    PROVE  ntoa_format(digits, negative, base, NoPrecision, width, flags)
             = WithZeros(SignOf(negative, flags), Prefix(base, flags), digits, width)
<1> DEFINE sign == SignOf(negative, flags)
           pre == Prefix(base, flags)
           g == Len(sign)
           q == Len(pre)
           n == Len(digits)
           room == ZerosToGo(sign, pre, digits, width)
           w == IF width > 0 /\ sign # <<>> THEN width - 1 ELSE width
           precise == Zeros(digits, NoPrecision)
           padded == Zeros(precise, w)
           prefixed == IF "#" \in flags THEN Hashed(padded, base, NoPrecision, w) ELSE padded
           buf == Fits(prefixed, sign)
           z == Larger(w - n, 0)
           r == Repeat(0, room)
           d == Reverse(digits)
           left == "-" \in flags
           zeropad == "0" \in flags
<1>0. NtoaSize \in Nat /\ 0 \in Chars
  BY PrintfAssumption DEF PrintfAssumption, Chars
<1>1. ntoa_format(digits, negative, base, NoPrecision, width, flags) = out_rev(buf, w, left, zeropad)
  BY DEF ntoa_format
<1>2. /\ sign \in Seq(Chars) /\ g \in {0, 1} /\ Reverse(sign) = sign
      /\ (sign = <<>> /\ g = 0) \/ (sign # <<>> /\ g = 1)
  <2>1. sign \in Seq(Chars) /\ g \in {0, 1} /\ Reverse(sign) = sign
        /\ (sign = <<>> \/ g = 1)
    BY Signs, SignReversed
  <2> HIDE DEF sign
  <2>2. sign = <<>> => g = 0
    BY NothingJoined
  <2> QED
    BY <2>1, <2>2
<1>3. /\ pre \in Seq(Chars) /\ q \in 0 .. 2
      /\ "#" \notin flags => pre = <<>> /\ q = 0
      /\ "#" \in flags /\ base = 16 => q = 2
      /\ "#" \in flags /\ base = 8 => q = 1
  BY PrefixLengths
<1>4. n \in Nat /\ d \in Seq(Chars)
  BY Reversed
<1>5. g + q + n + room <= NtoaSize
  OBVIOUS
<1>6. room = Larger(width - g - q - n, 0)
  BY DEF ZerosToGo
<1>7. "#" \in flags => g = 0 /\ base \in {8, 16} /\ width \notin n .. n + 1
  BY <1>2
<1>8. w = IF width > 0 /\ g = 1 THEN width - 1 ELSE width
  <2>1. w = IF width > 0 /\ sign # <<>> THEN width - 1 ELSE width
    OBVIOUS
  <2> HIDE DEF w, sign, g
  <2>2. (sign # <<>>) <=> (g = 1)
    BY <1>2
  <2> QED
    BY <2>1, <2>2
<1> HIDE DEF sign, pre, g, q, n, room, w, z
<1>9. room \in Nat /\ w \in Nat /\ z \in Nat /\ z = Larger(w - n, 0)
  BY <1>2, <1>3, <1>4, <1>6, <1>8 DEF Larger, z
<1>10. n + z <= NtoaSize
  <2>1. CASE "#" \in flags
    BY <1>0, <1>2, <1>3, <1>4, <1>5, <1>6, <1>7, <1>8, <1>9, <2>1 DEF Larger
  <2>2. CASE "#" \notin flags
    BY <1>0, <1>2, <1>3, <1>4, <1>5, <1>6, <1>8, <1>9, <2>2 DEF Larger
  <2> QED
    BY <2>1, <2>2
<1>11. precise = digits
  <2> DEFINE y == Larger(NoPrecision - Len(digits), 0)
  <2>1. y = 0
    BY DEF Larger, NoPrecision
  <2>2. NoPrecision \in Int
    BY DEF NoPrecision
  <2>3. Len(digits) + y <= NtoaSize => precise = digits \o Repeat(0, y)
    BY <2>2, ZerosPad
  <2>4. Len(digits) + y <= NtoaSize
    <3>1. n <= NtoaSize
      BY <1>0, <1>4, <1>9, <1>10
    <3> QED
      BY <2>1, <3>1 DEF n
  <2> HIDE DEF y
  <2> QED
    BY <2>1, <2>3, <2>4, RepeatNone, NothingJoined
<1>12. /\ padded = digits \o Repeat(0, z) /\ padded \in Seq(Chars) /\ Len(padded) = n + z
  <2>0. Repeat(0, z) \in Seq(Chars) /\ Len(Repeat(0, z)) = z
    BY <1>0, <1>9, Repeats
  <2>1. w \in Int
    BY <1>9
  <2>2. Len(digits) + Larger(w - Len(digits), 0) <= NtoaSize
          => Zeros(digits, w) = digits \o Repeat(0, Larger(w - Len(digits), 0))
    BY <2>1, ZerosPad
  <2>3. Len(digits) = n /\ Larger(w - Len(digits), 0) = z
    BY DEF n, z
  <2>4. padded = digits \o Repeat(0, z)
    BY <1>10, <1>11, <2>2, <2>3
  <2>5. padded \in Seq(Chars) /\ Len(padded) = Len(digits) + Len(Repeat(0, z))
    BY <2>0, <2>4, Joined
  <2> HIDE DEF padded
  <2> QED
    BY <2>0, <2>3, <2>4, <2>5
<1> HIDE DEF precise, padded
<1>13. r \in Seq(Chars) /\ Len(r) = room /\ Reverse(r) = r
  BY <1>0, <1>9, Repeats, ReverseRepeat
<1> HIDE DEF r
<1>14. digits \o r \in Seq(Chars) /\ Reverse(digits \o r) = r \o d
  BY <1>13, Joined, ReverseJoined
<1>15. /\ prefixed \in Seq(Chars) /\ Len(prefixed) = q + n + room
       /\ Reverse(prefixed) = pre \o (r \o d)
  <2>1. CASE "#" \notin flags
    <3>1. prefixed = padded
      BY <2>1
    <3>2. z = room
      BY <1>2, <1>3, <1>4, <1>6, <1>8, <1>9, <2>1 DEF Larger
    <3>3. padded = digits \o r
      BY <1>12, <3>2 DEF r
    <3>4. q + n + room = n + z
      BY <1>3, <1>4, <1>9, <2>1, <3>2
    <3>5. pre \o (r \o d) = r \o d
      <4>1. r \o d \in Seq(Chars)
        BY <1>4, <1>13, Joined
      <4>2. pre = <<>>
        BY <1>3, <2>1
      <4> QED
        BY <4>1, <4>2, NothingJoined
    <3> HIDE DEF prefixed
    <3> QED
      BY <1>12, <1>14, <3>1, <3>3, <3>4, <3>5
  <2>2. CASE "#" \in flags
    <3> DEFINE t == Given(padded, base, NoPrecision, w)
               p == Len(padded)
               h == Hashed(padded, base, NoPrecision, w)
    <3>0. p = n + z /\ w = width /\ p \in Nat
      BY <1>4, <1>7, <1>8, <1>9, <1>12, <2>2
    <3>1. padded # <<>>
      <4>1. p # 0
        <5>1. n # 0
          BY DEF n
        <5> HIDE DEF p
        <5> QED
          BY <1>4, <1>9, <3>0, <5>1
      <4> QED
        BY <4>1, NothingJoined
    <3>2. t = IF p = w THEN Smaller(p, IF base = 16 THEN 2 ELSE 1) ELSE 0
      BY <3>1 DEF Given
    <3>3. q = IF base = 16 THEN 2 ELSE 1
      BY <1>3, <1>7, <2>2
    <3> HIDE DEF t, p
    <3>4. t \in 0 .. z /\ z - t = room
      <4>1. CASE width < n
        BY <1>3, <1>4, <1>6, <1>7, <1>9, <2>2, <3>0, <3>2, <3>3, <4>1 DEF Larger, Smaller
      <4>2. CASE width >= n + 2
        <5>1. z = width - n /\ p = width /\ t = Smaller(p, q)
          BY <1>4, <1>9, <3>0, <3>2, <3>3, <4>2 DEF Larger
        <5>2. t = q
          BY <1>3, <1>4, <3>0, <5>1, <4>2 DEF Smaller
        <5>3. g = 0
          BY <1>7, <2>2
        <5> QED
          BY <1>3, <1>4, <1>6, <5>1, <5>2, <5>3, <4>2 DEF Larger
      <4> QED
        BY <1>4, <1>7, <2>2, <4>1, <4>2
    <3>5. t \in 0 .. p /\ p - t = n + room
      <4>1. t \in Nat /\ t <= z /\ z = t + room
        BY <1>9, <3>4
      <4>2. p = n + z
        BY <3>0
      <4> QED
        BY <1>4, <1>9, <4>1, <4>2
    <3>6. p - t + q <= NtoaSize
      BY <1>0, <1>2, <1>3, <1>4, <1>5, <1>9, <3>5
    <3>7. NoPrecision \in Int
      BY DEF NoPrecision
    <3>8. IsHashed(padded, base, NoPrecision, w, flags)
      BY <1>9, <1>12, <2>2, <3>5, <3>6, <3>7, HashedAs DEF p, t, q, pre
    <3>9. /\ h \in Seq(Chars) /\ Len(h) = p - t + q
          /\ Reverse(h) = pre \o Reverse(SubSeq(padded, 1, p - t))
      BY <3>8 DEF IsHashed, p, t, q, pre
    <3>10. SubSeq(padded, 1, p - t) = digits \o r
      <4>1. SubSeq(digits \o Repeat(0, z), 1, Len(digits) + (z - t)) = digits \o Repeat(0, z - t)
        BY <1>0, <1>9, <3>4, BeginningJoined
      <4>2. Len(digits) + (z - t) = p - t
        BY <3>4, <3>5 DEF n
      <4> QED
        BY <1>12, <3>4, <4>1, <4>2 DEF r
    <3>11. prefixed = h
      BY <2>2
    <3>12. Len(h) = q + n + room
      BY <1>3, <1>4, <1>9, <3>5, <3>9
    <3> HIDE DEF prefixed, h
    <3> QED
      BY <1>14, <3>9, <3>10, <3>11, <3>12
  <2> QED
    BY <2>1, <2>2
<1> HIDE DEF prefixed, d
<1>16. buf = prefixed \o sign
  <2>1. Len(prefixed) + Len(sign) <= NtoaSize
    <3>1. Len(prefixed) + g <= NtoaSize
      BY <1>0, <1>2, <1>3, <1>4, <1>5, <1>9, <1>15
    <3> QED
      BY <3>1 DEF g
  <2> QED
    BY <1>2, <1>15, <2>1, FitsIn
<1>17. Reverse(buf) = ((sign \o pre) \o r) \o d /\ Reverse(buf) \in Seq(Chars)
  <2>1. Reverse(prefixed \o sign) = sign \o (pre \o (r \o d))
    BY <1>2, <1>15, ReverseJoined
  <2>2. r \o d \in Seq(Chars) /\ sign \o pre \in Seq(Chars)
    BY <1>2, <1>3, <1>4, <1>13, Joined
  <2> DEFINE rd == r \o d
             sp == sign \o pre
  <2>r. rd \in Seq(Chars) /\ sp \in Seq(Chars)
    BY <2>2
  <2> HIDE DEF rd, sp
  <2>a. Associate(sign, pre, rd)
    BY <1>2, <1>3, <2>r, Regrouped
  <2>b. Associate(sp, r, d)
    BY <1>4, <1>13, <2>r, Regrouped
  <2>3. sign \o (pre \o (r \o d)) = (sign \o pre) \o (r \o d)
    BY <2>a DEF Associate, rd
  <2>4. (sign \o pre) \o (r \o d) = ((sign \o pre) \o r) \o d
    BY <2>b DEF Associate, sp
  <2>5. (sign \o pre) \o (r \o d) \in Seq(Chars)
    BY <2>2, Joined
  <2> QED
    BY <1>16, <2>1, <2>3, <2>4, <2>5
<1> HIDE DEF buf
<1>18. out_rev(buf, w, left, zeropad) = (<<>> \o Reverse(buf)) \o <<>>
  BY DEF out_rev
<1>19. (<<>> \o Reverse(buf)) \o <<>> = Reverse(buf)
  BY <1>17, NothingJoined
<1> QED
  BY <1>1, <1>17, <1>18, <1>19 DEF WithZeros, sign, pre, room, r, d

----
\* The number as C writes it, and what the code is given for it, in their parts.

CRoom(d) == Larger(Width(d) - Len(CSign(d) \o CPrefix(d)) - Len(CPrecise(d)), 0)

LEMMA CNumberParts ==
    ASSUME NEW d
    PROVE  CNumber(d) =
             IF "-" \in Flags(d)
             THEN ((CSign(d) \o CPrefix(d)) \o CPrecise(d)) \o Repeat(Blank, CRoom(d))
             ELSE IF PadsWithZeros(d)
             THEN ((CSign(d) \o CPrefix(d)) \o Repeat(0, CRoom(d))) \o CPrecise(d)
             ELSE (Repeat(Blank, CRoom(d)) \o (CSign(d) \o CPrefix(d))) \o CPrecise(d)
BY DEF CNumber, CRoom

GivenDigits(d) == IF Precision(d) # NoPrecision /\ Abs(Value(d)) = 0 THEN <<>>
                  ELSE ntoa(Abs(Value(d)), BaseOf(d.spec))
GivenFlags(d) ==
    LET ignored == (IF BaseOf(d.spec) = 10 THEN {"#"} ELSE {})
                   \cup (IF d.spec = "d" THEN {} ELSE {"+", " "})
                   \cup (IF Precision(d) # NoPrecision THEN {"0"} ELSE {})
    IN  IF Abs(Value(d)) = 0 THEN (Flags(d) \ ignored) \ {"#"} ELSE Flags(d) \ ignored

LEMMA IntegerTextParts ==
    ASSUME NEW d
    PROVE  IntegerText(d) = ntoa_format(GivenDigits(d), Value(d) < 0, BaseOf(d.spec), Precision(d),
                                        Width(d), GivenFlags(d))
BY DEF IntegerText, ntoa_long, GivenDigits, GivenFlags

LEMMA GivenFlagsAre ==
    ASSUME NEW d \in Directives
    PROVE  /\ ("-" \in GivenFlags(d)) <=> ("-" \in Flags(d))
           /\ ("0" \in GivenFlags(d)) <=> ("0" \in Flags(d) /\ Precision(d) = NoPrecision)
           /\ ("#" \in GivenFlags(d)) <=> ("#" \in Flags(d) /\ BaseOf(d.spec) # 10 /\ Value(d) # 0)
           /\ ("+" \in GivenFlags(d)) <=> ("+" \in Flags(d) /\ d.spec = "d")
           /\ (" " \in GivenFlags(d)) <=> (" " \in Flags(d) /\ d.spec = "d")
<1> DEFINE ignored == (IF BaseOf(d.spec) = 10 THEN {"#"} ELSE {})
                      \cup (IF d.spec = "d" THEN {} ELSE {"+", " "})
                      \cup (IF Precision(d) # NoPrecision THEN {"0"} ELSE {})
           f == GivenFlags(d)
<1>1. (Value(d) = 0) <=> (Abs(Value(d)) = 0)
  BY Values
<1>2. f = IF Abs(Value(d)) = 0 THEN (Flags(d) \ ignored) \ {"#"} ELSE Flags(d) \ ignored
  BY DEF GivenFlags
<1>3. /\ "-" \notin ignored
      /\ ("0" \in ignored) <=> (Precision(d) # NoPrecision)
      /\ ("#" \in ignored) <=> (BaseOf(d.spec) = 10)
      /\ ("+" \in ignored) <=> (d.spec # "d")
      /\ (" " \in ignored) <=> (d.spec # "d")
  OBVIOUS
<1> HIDE DEF ignored, f
<1>4. \A x : x # "#" => ((x \in f) <=> (x \in Flags(d) /\ x \notin ignored))
  BY <1>2
<1>5. ("#" \in f) <=> ("#" \in Flags(d) /\ "#" \notin ignored /\ Abs(Value(d)) # 0)
  BY <1>2
<1>6. ("-" \in f) <=> ("-" \in Flags(d))
  BY <1>3, <1>4
<1>7. ("0" \in f) <=> ("0" \in Flags(d) /\ Precision(d) = NoPrecision)
  BY <1>3, <1>4
<1>8. ("#" \in f) <=> ("#" \in Flags(d) /\ BaseOf(d.spec) # 10 /\ Value(d) # 0)
  BY <1>1, <1>3, <1>5
<1>9. ("+" \in f) <=> ("+" \in Flags(d) /\ d.spec = "d")
  BY <1>3, <1>4
<1>10. (" " \in f) <=> (" " \in Flags(d) /\ d.spec = "d")
  BY <1>3, <1>4
<1> QED
  BY <1>6, <1>7, <1>8, <1>9, <1>10 DEF f

LEMMA NumeralOfZero ==
    ASSUME NEW b \in Bases
    PROVE  Numeral(0, b) = <<0>>
<1>1. PICK f : /\ f \in [0 .. 0 -> Seq(Chars)] /\ f[0] = Numeral(0, b)
               /\ \A k \in 0 .. 0 : f[k] = IF k < b THEN <<k>> ELSE Append(f[k \div b], k % b)
  BY NumeralRun
<1>2. 0 \in 0 .. 0 /\ 0 < b
  BY DEF Bases
<1>3. f[0] = <<0>>
  BY <1>1, <1>2
<1> QED
  BY <1>1, <1>3

\* A number but 0 does not begin with 0.
LEMMA FirstDigit ==
    ASSUME NEW n \in Nat, n # 0, NEW b \in Bases
    PROVE  Numeral(n, b)[1] # 0
<1>1. PICK f : /\ f \in [0 .. n -> Seq(Chars)] /\ f[n] = Numeral(n, b)
               /\ \A k \in 0 .. n : f[k] = IF k < b THEN <<k>> ELSE Append(f[k \div b], k % b)
  BY NumeralRun
<1> DEFINE Good(k) == Len(f[k]) >= 1 /\ (k # 0 => f[k][1] # 0)
<1>2. ASSUME NEW k \in 0 .. n, \A j \in 0 .. n : j < k => Good(j)
      PROVE  Good(k)
  <2>1. CASE k < b
    <3>1. f[k] = <<k>>
      BY <1>1, <2>1
    <3> QED
      BY <3>1
  <2>2. CASE k >= b
    <3> DEFINE q == k \div b
               c == k % b
               s == f[q]
    <3>1. q \in 0 .. n /\ q < k /\ q # 0 /\ c \in Chars /\ ~(k < b)
      <4>1. q # 0
        BY <2>2 DEF Bases
      <4> QED
        BY <2>2, <4>1, Divided DEF Bases
    <3>2. f[k] = Append(s, c)
      BY <1>1, <3>1
    <3>3. s \in Seq(Chars) /\ Len(s) >= 1 /\ s[1] # 0
      BY <1>1, <1>2, <3>1
    <3> HIDE DEF q, c, s
    <3>4. Len(Append(s, c)) = Len(s) + 1 /\ Append(s, c)[1] = s[1]
      BY <3>1, <3>3
    <3> QED
      BY <3>2, <3>3, <3>4
  <2> QED
    BY <2>1, <2>2 DEF Bases
<1>3. Good(n)
  <2> DEFINE P == {k \in 0 .. n : Good(k)}
  <2>1. \A k \in 0 .. n : (\A j \in 0 .. n : j < k => j \in P) => k \in P
    BY <1>2
  <2>2. \A k \in 0 .. n : k \in P
    <3> HIDE DEF P
    <3> QED
      BY <2>1, UpToAll
  <2> QED
    BY <2>2
<1> QED
  BY <1>1, <1>3

\* What C puts in front is a sign and a prefix.
LEMMA FrontTyped ==
    ASSUME NEW d
    PROVE  CSign(d) \in Seq(Chars) /\ CPrefix(d) \in Seq(Chars)
<1>1. CSign(d) \in {<<>>, <<Minus>>, <<Plus>>, <<Blank>>}
  BY DEF CSign
<1>2. CPrefix(d) \in {<<>>, <<0, LetterX>>, <<0, LetterB>>, <<0>>}
  <2> DEFINE b == BaseOf(d.spec)
             written == CASE b = 16 -> <<0, LetterX>> [] b = 2 -> <<0, LetterB>> [] OTHER -> <<0>>
  <2>1. CPrefix(d) = <<>> \/ CPrefix(d) = written
    BY DEF CPrefix
  <2> HIDE DEF b
  <2>2. written \in {<<0, LetterX>>, <<0, LetterB>>, <<0>>}
    OBVIOUS
  <2> QED
    BY <2>1, <2>2
<1>3. /\ Minus \in Chars /\ Plus \in Chars /\ Blank \in Chars /\ 0 \in Chars
      /\ LetterX \in Chars /\ LetterB \in Chars
  BY DEF Minus, Plus, Blank, LetterX, LetterB, Chars
<1>4. CSign(d) \in Seq(Chars)
  BY <1>1, <1>3, NothingJoined, Single
<1>5. CPrefix(d) \in Seq(Chars)
  <2>1. <<0, LetterX>> \in Seq(Chars) /\ <<0, LetterB>> \in Seq(Chars) /\ << 0 >> \in Seq(Chars)
    BY <1>3
  <2> QED
    BY <1>2, <2>1, NothingJoined
<1> QED
  BY <1>4, <1>5

LEMMA CPartsLength ==
    ASSUME NEW d \in Directives
    PROVE  /\ CDigits(d) \in Seq(Chars) /\ CPrecise(d) \in Seq(Chars)
           /\ Len(CPrecise(d)) = Larger(d.prec - Len(CDigits(d)), 0) + Len(CDigits(d))
           /\ CRoom(d) \in Nat
           /\ CRoom(d) = Larger(Width(d) - Len(CSign(d)) - Len(CPrefix(d)) - Len(CPrecise(d)), 0)
<1> DEFINE c == CDigits(d)
           z == Larger(d.prec - Len(c), 0)
           p == CPrecise(d)
           s == CSign(d)
           x == CPrefix(d)
           r == CRoom(d)
           w == Width(d)
<1>0. 0 \in Chars
  BY DEF Chars
<1>1. c \in Seq(Chars)
  <2>1. Numeral(Abs(Value(d)), BaseOf(d.spec)) \in Seq(Chars)
    BY Arguments, Values, NtoaIsNumeral
  <2> QED
    BY <2>1, NothingJoined DEF CDigits
<1>2. s \in Seq(Chars) /\ x \in Seq(Chars) /\ w \in Nat
  BY FrontTyped, Arguments
<1>3. p = Repeat(0, z) \o c
  BY DEF CPrecise
<1>4. z \in Nat /\ Len(c) \in Nat
  <2>1. d.prec \in Int
    BY Arguments DEF NoPrecision, NegativePrecision
  <2>2. Len(c) \in Nat
    BY <1>1
  <2> HIDE DEF c
  <2> QED
    BY <2>1, <2>2 DEF Larger
<1> HIDE DEF c, z, p, s, x, w
<1>5. p \in Seq(Chars) /\ Len(p) = z + Len(c)
  <2>1. Repeat(0, z) \in Seq(Chars) /\ Len(Repeat(0, z)) = z
    BY <1>0, <1>4, Repeats
  <2> QED
    BY <1>1, <1>3, <2>1, Joined
<1>6. s \o x \in Seq(Chars) /\ Len(s \o x) = Len(s) + Len(x)
  BY <1>2, Joined
<1>7. r = Larger(w - Len(s \o x) - Len(p), 0)
  BY DEF CRoom, s, x, p, w
<1> DEFINE gs == Len(s)
           gx == Len(x)
           gp == Len(p)
<1>8. gs \in Nat /\ gx \in Nat /\ gp \in Nat
  BY <1>2, <1>5
<1>9. r = Larger(w - (gs + gx) - gp, 0)
  BY <1>6, <1>7
<1> HIDE DEF gs, gx, gp, r
<1>10. r \in Nat /\ r = Larger(w - gs - gx - gp, 0)
  BY <1>2, <1>8, <1>9 DEF Larger
<1> QED
  BY <1>1, <1>5, <1>10 DEF gs, gx, gp, r, w, c, z, p, s, x

\* What the negation of Differs says.
LEMMA NotDiffers ==
    ASSUME NEW d \in Directives, ~Differs(d)
    PROVE  LET n == Len(Numeral(Abs(Value(d)), BaseOf(d.spec)))
           IN  /\ d.prec \in Nat \cup {NoPrecision} /\ Precision(d) = d.prec
               /\ "-" \in Flags(d) => d.prec <= (IF Value(d) = 0 THEN 0 ELSE n)
               /\ Value(d) # 0 /\ "#" \in Flags(d) /\ BaseOf(d.spec) # 10 =>
                    /\ d.prec = NoPrecision => Width(d) \notin n .. n + 1
                    /\ ~(BaseOf(d.spec) = 2 /\ "0" \in Flags(d))
                    /\ BaseOf(d.spec) = 8 => d.prec <= n
               /\ Value(d) = 0 /\ "#" \in Flags(d) /\ BaseOf(d.spec) = 8 => d.prec # 0
               /\ Len(CSign(d)) + Len(CPrefix(d)) + Len(CPrecise(d)) <= NtoaSize
               /\ PadsWithZeros(d) => Width(d) <= NtoaSize
<1> DEFINE n == Len(Numeral(Abs(Value(d)), BaseOf(d.spec)))
           l == IF Value(d) = 0 THEN 0 ELSE n
           c == Len(CSign(d)) + Len(CPrefix(d)) + Len(CPrecise(d))
           w == Width(d)
           p == d.prec
           hash == Value(d) # 0 /\ "#" \in Flags(d) /\ BaseOf(d.spec) # 10
           zeros == PadsWithZeros(d)
<1>0. n \in Nat /\ l \in Nat /\ w \in Nat /\ NtoaSize \in Nat
  BY Arguments, Values, NtoaIsNumeral, PrintfAssumption DEF PrintfAssumption
<1>1. c \in Nat
  <2> DEFINE gs == Len(CSign(d))
             gx == Len(CPrefix(d))
             gp == Len(CPrecise(d))
  <2>1. gs \in Nat /\ gx \in Nat /\ gp \in Nat
    BY CPartsLength, FrontTyped
  <2>2. c = gs + gx + gp
    OBVIOUS
  <2> HIDE DEF gs, gx, gp, c
  <2> QED
    BY <2>1, <2>2
<1>2. /\ ~("-" \in Flags(d) /\ p > l)
      /\ p # NegativePrecision
      /\ hash => /\ ~(p = NoPrecision /\ w \in l .. l + 1) /\ ~(BaseOf(d.spec) = 2 /\ "0" \in Flags(d))
                 /\ ~(BaseOf(d.spec) = 8 /\ p > l)
      /\ ~(c > NtoaSize)
  BY DEF Differs
<1>a. Value(d) = 0 /\ "#" \in Flags(d) /\ BaseOf(d.spec) = 8 => p # 0
  BY DEF Differs
<1>b. ~(zeros /\ w > NtoaSize)
  BY DEF Differs
<1>3. p \in Nat \cup {NoPrecision}
  BY <1>2, Arguments
<1>4. Precision(d) = p
  BY <1>2 DEF Precision
<1>5. p \in Int
  BY <1>3 DEF NoPrecision
<1>6. hash => l = n
  OBVIOUS
<1> HIDE DEF n, l, c, w, p, hash, zeros
<1>7. c <= NtoaSize /\ (zeros => w <= NtoaSize)
  BY <1>0, <1>1, <1>2, <1>b
<1>8. "-" \in Flags(d) => p <= l
  BY <1>0, <1>2, <1>5
<1>9. hash => /\ p = NoPrecision => w \notin n .. n + 1
              /\ ~(BaseOf(d.spec) = 2 /\ "0" \in Flags(d))
  BY <1>2, <1>6
<1>10. hash => (BaseOf(d.spec) = 8 => p <= n)
  BY <1>0, <1>2, <1>5, <1>6
<1> QED
  BY <1>3, <1>4, <1>7, <1>8, <1>9, <1>10, <1>a DEF n, l, c, w, p, hash, zeros

\* The code leaves the prefix to the value 0, and so does C but for what Differs names.
Needless(d) == IF BaseOf(d.spec) = 8 THEN CPrecise(d) # <<>> /\ CPrecise(d)[1] = 0 ELSE Value(d) = 0

LEMMA PrefixNeeded ==
    ASSUME NEW d \in Directives, ~Differs(d), "#" \in Flags(d)
    PROVE  Needless(d) <=> Value(d) = 0
<1> DEFINE num == Numeral(Abs(Value(d)), BaseOf(d.spec))
           n == Len(num)
           p == d.prec
           c == CDigits(d)
           z == Larger(p - Len(c), 0)
           y == CPrecise(d)
<1>0. BaseOf(d.spec) \in Bases /\ Abs(Value(d)) \in Nat /\ (Value(d) = 0 <=> Abs(Value(d)) = 0)
  BY Arguments, Values
<1>1. /\ p \in Nat \cup {NoPrecision}
      /\ Value(d) # 0 /\ BaseOf(d.spec) = 8 => p <= n
      /\ Value(d) = 0 /\ BaseOf(d.spec) = 8 => p # 0
  BY NotDiffers
<1>2. p \in Int
  BY <1>1 DEF NoPrecision
<1>3. num \in Seq(Chars) /\ n \in Nat /\ n >= 1
  BY <1>0, NtoaIsNumeral
<1>4. y = Repeat(0, z) \o c
  BY DEF CPrecise
<1>5. c = IF Value(d) = 0 /\ p = 0 THEN <<>> ELSE num
  BY DEF CDigits
<1>6. CASE BaseOf(d.spec) # 8
  BY <1>6 DEF Needless
<1>7. CASE BaseOf(d.spec) = 8 /\ Value(d) # 0
  <2>1. c = num /\ p <= n
    BY <1>1, <1>5, <1>7
  <2>2. Len(c) = n
    BY <2>1
  <2>3. z = 0
    <3> DEFINE m == Len(c)
    <3>1. m = n
      BY <2>2
    <3> HIDE DEF m, n, p
    <3>2. Larger(p - m, 0) = 0
      BY <1>2, <1>3, <2>1, <3>1 DEF Larger
    <3> QED
      BY <3>2 DEF m
  <2>4. y = num
    <3> HIDE DEF num, z, c
    <3> QED
      BY <1>3, <1>4, <2>1, <2>3, RepeatNone, NothingJoined
  <2>5. num[1] # 0
    <3> DEFINE a == Abs(Value(d))
               b == BaseOf(d.spec)
    <3>1. a \in Nat /\ a # 0 /\ b \in Bases
      BY <1>0, <1>7
    <3> HIDE DEF a, b
    <3>2. Numeral(a, b)[1] # 0
      BY <3>1, FirstDigit
    <3> QED
      BY <3>2 DEF a, b
  <2> QED
    BY <1>7, <2>4, <2>5 DEF Needless
<1>8. CASE BaseOf(d.spec) = 8 /\ Value(d) = 0
  <2>1. p # 0 /\ c = num
    BY <1>1, <1>5, <1>8
  <2>2. num = << 0 >>
    <3>1. Abs(Value(d)) = 0
      BY <1>0, <1>8
    <3> QED
      BY <1>0, <3>1, NumeralOfZero
  <2>3. 0 \in Chars /\ z \in Nat
    <3> DEFINE m == Len(c)
    <3>1. m \in Nat
      BY <1>3, <2>1
    <3> HIDE DEF m, p
    <3>2. Larger(p - m, 0) \in Nat
      BY <1>2, <3>1 DEF Larger
    <3> QED
      BY <3>2 DEF m, Chars
  <2> DEFINE r == Repeat(0, z)
             e == << 0 >>
  <2> HIDE DEF z
  <2>4. r \in Seq(Chars) /\ Len(r) = z /\ \A i \in 1 .. z : r[i] = 0
    BY <2>3, Repeats
  <2>5. e \in Seq(Chars) /\ Len(e) = 1 /\ e[1] = 0
    BY <2>3, Single
  <2>6. y = r \o e
    BY <1>4, <2>1, <2>2
  <2> HIDE DEF r, e, y
  <2>7. /\ r \o e \in Seq(Chars) /\ Len(r \o e) = z + 1
        /\ \A i \in 1 .. z : (r \o e)[i] = r[i]
        /\ (r \o e)[z + 1] = e[1]
    <3>1. 1 \in 1 .. Len(e)
      BY <2>5
    <3> QED
      BY <2>4, <2>5, <3>1, Joined
  <2>8. (r \o e)[1] = 0
    <3>1. CASE z = 0
      BY <2>5, <2>7, <3>1
    <3>2. CASE z # 0
      <4>1. 1 \in 1 .. z
        BY <2>3, <3>2
      <4> QED
        BY <2>4, <2>7, <4>1
    <3> QED
      BY <3>1, <3>2
  <2>9. y # <<>> /\ y[1] = 0
    <3>1. Len(r \o e) # 0
      BY <2>3, <2>7
    <3> QED
      BY <2>6, <2>8, <3>1, NothingJoined
  <2> QED
    BY <1>8, <2>9 DEF Needless, y
<1> QED
  BY <1>6, <1>7, <1>8

\* The parts are the same, but for the directives of Differs.
LEMMA FrontAsInC ==
    ASSUME NEW d \in Directives, ~Differs(d)
    PROVE  /\ SignOf(Value(d) < 0, GivenFlags(d)) = CSign(d)
           /\ Prefix(BaseOf(d.spec), GivenFlags(d)) = CPrefix(d)
<1>1. SignOf(Value(d) < 0, GivenFlags(d)) = CSign(d)
  <2>1. CASE d.spec = "d"
    BY <2>1, GivenFlagsAre DEF SignOf, CSign
  <2>2. CASE d.spec # "d"
    <3>1. ~(Value(d) < 0)
      BY <2>2, Values
    <3> QED
      BY <2>2, <3>1, GivenFlagsAre DEF SignOf, CSign
  <2> QED
    BY <2>1, <2>2
<1>2. Prefix(BaseOf(d.spec), GivenFlags(d)) = CPrefix(d)
  <2> DEFINE b == BaseOf(d.spec)
             written == CASE b = 16 -> <<0, LetterX>> [] b = 2 -> <<0, LetterB>> [] OTHER -> <<0>>
  <2>1. Prefix(b, GivenFlags(d)) = IF "#" \notin GivenFlags(d) THEN <<>> ELSE written
    BY DEF Prefix
  <2>2. CPrefix(d) = IF "#" \notin Flags(d) \/ b = 10 \/ Needless(d) THEN <<>> ELSE written
    BY DEF CPrefix, Needless
  <2> HIDE DEF written
  <2>3. ("#" \notin GivenFlags(d)) <=> ("#" \notin Flags(d) \/ Needless(d) \/ b = 10)
    <3>1. "#" \in Flags(d) => (Needless(d) <=> Value(d) = 0)
      BY PrefixNeeded
    <3> QED
      BY <3>1, GivenFlagsAre
  <2>4. CASE "#" \notin GivenFlags(d)
    BY <2>1, <2>2, <2>3, <2>4
  <2>5. CASE "#" \in GivenFlags(d)
    BY <2>1, <2>2, <2>3, <2>5
  <2> QED
    BY <2>4, <2>5
<1> QED
  BY <1>1, <1>2

LEMMA RepeatMore ==
    ASSUME NEW c \in Chars, NEW n \in Nat, n > 0
    PROVE  Repeat(c, n - 1) \o <<c>> = Repeat(c, n)
<1> DEFINE s == Repeat(c, n - 1)
           t == Repeat(c, n)
           k == n - 1
           e == <<c>>
           u == s \o e
<1>0. k \in Nat /\ n = k + 1
  OBVIOUS
<1>1. s \in Seq(Chars) /\ Len(s) = k /\ (\A i \in 1 .. k : s[i] = c)
  BY <1>0, Repeats
<1>2. t \in Seq(Chars) /\ Len(t) = n /\ (\A i \in 1 .. n : t[i] = c)
  BY Repeats
<1>3. e \in Seq(Chars) /\ Len(e) = 1 /\ e[1] = c
  BY Single
<1> HIDE DEF s, t, e
<1>4. /\ u \in Seq(Chars) /\ Len(u) = Len(s) + Len(e)
      /\ (\A i \in 1 .. Len(s) : u[i] = s[i]) /\ (\A j \in 1 .. Len(e) : u[Len(s) + j] = e[j])
  BY <1>1, <1>3, Joined
<1> HIDE DEF u, k
<1>5. u[k + 1] = c
  <2>1. 1 \in 1 .. Len(e)
    BY <1>3
  <2> QED
    BY <1>1, <1>3, <1>4, <2>1
<1>6. \A i \in 1 .. n : u[i] = t[i]
  <2> TAKE i \in 1 .. n
  <2>1. i \in 1 .. k \/ i = k + 1
    BY <1>0
  <2> QED
    BY <1>1, <1>2, <1>4, <1>5, <2>1
<1>7. Len(u) = n
  BY <1>0, <1>1, <1>3, <1>4
<1> QED
  BY <1>2, <1>4, <1>6, <1>7, SameSequence DEF u, s, t, e

\* The digits and the zeros of the precision, read backwards, are C's.
LEMMA PreciseAsInC ==
    ASSUME NEW d \in Directives, ~Differs(d)
    PROVE  LET y == Precise(GivenDigits(d), Precision(d), GivenFlags(d))
           IN  /\ GivenDigits(d) \in Seq(Chars) /\ y \in Seq(Chars) /\ Reverse(y) = CPrecise(d)
               /\ d.prec = NoPrecision =>
                    /\ y = GivenDigits(d) /\ y # <<>>
                    /\ Len(y) = Len(Numeral(Abs(Value(d)), BaseOf(d.spec)))
<1> DEFINE a == Abs(Value(d))
           b == BaseOf(d.spec)
           num == Numeral(a, b)
           n == Len(num)
           p == d.prec
           g == GivenDigits(d)
           c == CDigits(d)
           z == Larger(p - Len(c), 0)
           left == "-" \in Flags(d)
           y == Precise(g, p, GivenFlags(d))
<1>0. NtoaSize \in Nat /\ NtoaSize > 0 /\ 0 \in Chars
  BY PrintfAssumption DEF PrintfAssumption, Chars
<1>1. /\ p \in Nat \cup {NoPrecision} /\ Precision(d) = p
      /\ left => p <= (IF Value(d) = 0 THEN 0 ELSE n)
      /\ Len(CSign(d)) + Len(CPrefix(d)) + Len(CPrecise(d)) <= NtoaSize
  BY NotDiffers
<1>2. p \in Int /\ (p # NoPrecision => p >= 0) /\ (p = NoPrecision => p = -1)
  BY <1>1 DEF NoPrecision
<1>3. b \in Bases /\ a \in Nat /\ ((Value(d) = 0) <=> (a = 0))
  BY Arguments, Values
<1>4. /\ num \in Seq(Chars) /\ n \in Nat /\ n >= 1
      /\ ntoa(a, b) \in Seq(Chars) /\ Len(ntoa(a, b)) = Smaller(n, NtoaSize)
      /\ n <= NtoaSize => Reverse(ntoa(a, b)) = num
  BY <1>3, NtoaIsNumeral
<1>5. /\ c \in Seq(Chars) /\ CPrecise(d) = Repeat(0, z) \o c /\ Len(CPrecise(d)) = z + Len(c)
      /\ Len(CPrecise(d)) <= NtoaSize
  <2>1. c \in Seq(Chars) /\ Len(CPrecise(d)) = z + Len(c)
    BY CPartsLength
  <2>2. CPrecise(d) = Repeat(0, z) \o c
    BY DEF CPrecise
  <2> DEFINE gs == Len(CSign(d))
             gx == Len(CPrefix(d))
             gp == Len(CPrecise(d))
  <2>3. gs \in Nat /\ gx \in Nat /\ gp \in Nat /\ gs + gx + gp <= NtoaSize
    BY <1>1, CPartsLength, FrontTyped
  <2> HIDE DEF gs, gx, gp
  <2>4. gp <= NtoaSize
    BY <1>0, <1>1, <2>3
  <2> QED
    BY <2>1, <2>2, <2>4 DEF gp
<1>6. g = IF p # NoPrecision /\ a = 0 THEN <<>> ELSE ntoa(a, b)
  BY <1>1 DEF GivenDigits
<1>7. c = IF Value(d) = 0 /\ p = 0 THEN <<>> ELSE num
  BY DEF CDigits
<1>8. y = IF left THEN g ELSE Zeros(g, p)
  BY GivenFlagsAre DEF Precise
<1>9. z \in Nat /\ Len(c) \in Nat
  <2>1. Len(c) \in Nat
    BY <1>5
  <2> HIDE DEF c, p
  <2> QED
    BY <1>2, <2>1 DEF Larger
<1> HIDE DEF a, b, num, p, g, c, y
\* A zero of which only the zeros of the precision are left.
<1>10. CASE p # NoPrecision /\ a = 0
  <2>1. g = <<>> /\ g \in Seq(Chars) /\ Len(g) = 0
    BY <1>6, <1>10, NothingJoined
  <2>2. Value(d) = 0
    BY <1>3, <1>10
  <2>3. CPrecise(d) = Repeat(0, p) /\ Len(CPrecise(d)) = p
    <3>1. CASE p = 0
      <4>1. c = <<>> /\ Len(c) = 0
        BY <1>7, <2>2, <3>1, NothingJoined
      <4>2. z = 0
        <5> DEFINE l == Len(c)
        <5>1. l = 0
          BY <4>1
        <5> HIDE DEF l
        <5>2. Larger(p - l, 0) = 0
          BY <3>1, <5>1 DEF Larger
        <5> QED
          BY <5>2 DEF l
      <4>3. CPrecise(d) = <<>> \o <<>>
        BY <1>5, <4>1, <4>2, RepeatNone
      <4>4. <<>> \o <<>> = <<>>
        BY NothingJoined
      <4> QED
        BY <3>1, <4>3, <4>4, RepeatNone, NothingJoined
    <3>2. CASE p # 0
      <4>1. c = <<0>>
        BY <1>3, <1>7, <1>10, <3>2, NumeralOfZero DEF num
      <4>2. Len(c) = 1 /\ p > 0 /\ p \in Nat
        BY <1>0, <1>2, <1>10, <3>2, <4>1, Single
      <4>3. z = p - 1
        BY <4>2 DEF Larger
      <4>4. CPrecise(d) = Repeat(0, p)
        BY <1>0, <1>5, <4>1, <4>2, <4>3, RepeatMore
      <4> QED
        BY <1>0, <4>2, <4>4, Repeats
    <3> QED
      BY <3>1, <3>2
  <2>4. p \in Nat /\ p <= NtoaSize
    BY <1>1, <1>5, <1>10, <2>3
  <2>5. y = Repeat(0, p)
    <3>1. CASE left
      <4>1. p = 0
        BY <1>1, <2>2, <2>4, <3>1
      <4> QED
        BY <1>8, <2>1, <3>1, <4>1, RepeatNone
    <3>2. CASE ~left
      <4>1. /\ Len(g) + Larger(p - Len(g), 0) <= NtoaSize
                  => Zeros(g, p) = g \o Repeat(0, Larger(p - Len(g), 0))
        BY <1>2, <2>1, ZerosPad
      <4>2. Larger(p - Len(g), 0) = p
        BY <2>1, <2>4 DEF Larger
      <4>3. Zeros(g, p) = g \o Repeat(0, p)
        BY <2>1, <2>4, <4>1, <4>2
      <4>4. Repeat(0, p) \in Seq(Chars)
        BY <1>0, <2>4, Repeats
      <4>5. g \o Repeat(0, p) = Repeat(0, p)
        BY <2>1, <4>4, NothingJoined
      <4> QED
        BY <1>8, <3>2, <4>3, <4>5
    <3> QED
      BY <3>1, <3>2
  <2>6. y \in Seq(Chars) /\ Reverse(y) = CPrecise(d)
    BY <1>0, <2>3, <2>4, <2>5, Repeats, ReverseRepeat
  <2> QED
    BY <1>1, <1>10, <2>1, <2>6 DEF g, y, p
\* The digits of the number, all of which the buffer holds.
<1>11. CASE ~(p # NoPrecision /\ a = 0)
  <2>1. g = ntoa(a, b)
    BY <1>6, <1>11
  <2>2. c = num
    <3>1. ~(Value(d) = 0 /\ p = 0)
      BY <1>2, <1>3, <1>11
    <3> QED
      BY <1>7, <3>1
  <2>3. Len(c) = n /\ n <= NtoaSize /\ z + n <= NtoaSize
    <3>1. Len(c) = n
      BY <2>2
    <3>2. z + n <= NtoaSize
      BY <1>5, <3>1
    <3> QED
      BY <1>0, <1>4, <1>9, <3>1, <3>2
  <2>4. g \in Seq(Chars) /\ Len(g) = n /\ Reverse(g) = num
    <3>1. Len(g) = Smaller(n, NtoaSize)
      BY <1>4, <2>1
    <3> HIDE DEF n
    <3>2. Smaller(n, NtoaSize) = n
      BY <1>0, <1>4, <2>3 DEF Smaller
    <3> QED
      BY <1>4, <2>1, <2>3, <3>1, <3>2
  <2>5. z = Larger(p - n, 0) /\ Larger(p - Len(g), 0) = z
    BY <2>3, <2>4
  <2>6. y = g \o Repeat(0, z)
    <3>1. CASE left
      <4>1. p <= n
        <5> HIDE DEF n
        <5> QED
          BY <1>1, <1>2, <1>3, <1>4, <1>11, <3>1
      <4>2. z = 0
        <5> HIDE DEF n, z
        <5> QED
          BY <1>2, <1>4, <2>5, <4>1 DEF Larger
      <4> QED
        BY <1>8, <2>4, <3>1, <4>2, RepeatNone, NothingJoined
    <3>2. CASE ~left
      <4>1. /\ Len(g) + Larger(p - Len(g), 0) <= NtoaSize
                  => Zeros(g, p) = g \o Repeat(0, Larger(p - Len(g), 0))
        BY <1>2, <2>4, ZerosPad
      <4>2. Len(g) + z <= NtoaSize
        <5>1. n + z <= NtoaSize
          <6> HIDE DEF n, z
          <6> QED
            BY <1>0, <1>4, <1>9, <2>3
        <5> QED
          BY <2>4, <5>1
      <4> QED
        BY <1>8, <2>5, <3>2, <4>1, <4>2
    <3> QED
      BY <3>1, <3>2
  <2> DEFINE r == Repeat(0, z)
  <2>7. r \in Seq(Chars) /\ Reverse(r) = r
    BY <1>0, <1>9, Repeats, ReverseRepeat
  <2>8. y \in Seq(Chars) /\ Reverse(y) = r \o num
    <3> HIDE DEF r
    <3>1. y = g \o r
      BY <2>6 DEF r
    <3> QED
      BY <2>4, <2>7, <3>1, Joined, ReverseJoined
  <2>9. Reverse(y) = CPrecise(d)
    BY <1>5, <2>2, <2>8
  <2>10. p = NoPrecision => y = g /\ y # <<>> /\ Len(y) = n
    <3> SUFFICES ASSUME p = NoPrecision PROVE y = g /\ y # <<>> /\ Len(y) = n
      OBVIOUS
    <3>1. z = 0
      <4> HIDE DEF n, z
      <4> QED
        BY <1>2, <1>4, <2>5 DEF Larger
    <3>2. y = g
      BY <2>4, <2>6, <3>1, RepeatNone, NothingJoined
    <3>3. Len(y) # 0
      BY <1>4, <2>4, <3>2
    <3> QED
      BY <2>4, <3>2, <3>3, NothingJoined
  <2> QED
    BY <1>1, <2>4, <2>8, <2>9, <2>10 DEF g, y, p, n, num, a, b
<1> QED
  BY <1>10, <1>11

LEMMA IntegerAsInC ==
    ASSUME NEW d \in Directives, ~Differs(d)
    PROVE  IntegerText(d) = CNumber(d)
<1> DEFINE f == GivenFlags(d)
           sign == CSign(d)
           pre == CPrefix(d)
           precise == CPrecise(d)
           room == CRoom(d)
           g == GivenDigits(d)
           y == Precise(g, Precision(d), f)
           b == BaseOf(d.spec)
           w == Width(d)
           p == d.prec
           neg == Value(d) < 0
           n == Len(Numeral(Abs(Value(d)), b))
           q == Len(sign)
           x == Len(pre)
           l == Len(precise)
           left == "-" \in Flags(d)
           zero == "0" \in Flags(d) /\ p = NoPrecision
           zeros == PadsWithZeros(d)
           number == CNumber(d)
           front == sign \o pre
<1>0. /\ b \in Bases /\ w \in Nat /\ neg \in BOOLEAN /\ NtoaSize \in Nat /\ Blank \in Chars /\ 0 \in Chars
  BY Arguments, PrintfAssumption DEF PrintfAssumption, Blank, Chars
<1>1. /\ p \in Nat \cup {NoPrecision} /\ Precision(d) = p
      /\ q + x + l <= NtoaSize /\ (zeros => w <= NtoaSize)
  BY NotDiffers
<1>2. Value(d) # 0 /\ "#" \in Flags(d) /\ b # 10 =>
        (p = NoPrecision => w \notin n .. n + 1) /\ ~(b = 2 /\ "0" \in Flags(d))
  BY NotDiffers
<1>3. IntegerText(d) = ntoa_format(g, neg, b, p, w, f)
  BY <1>1, IntegerTextParts
<1>4. SignOf(neg, f) = sign /\ Prefix(b, f) = pre /\ sign \in Seq(Chars) /\ pre \in Seq(Chars)
  BY FrontAsInC, FrontTyped
<1>5. /\ g \in Seq(Chars) /\ y \in Seq(Chars) /\ Reverse(y) = precise
      /\ p = NoPrecision => y = g /\ y # <<>> /\ Len(y) = n
  BY PreciseAsInC
<1>6. /\ precise \in Seq(Chars) /\ room \in Nat /\ room = Larger(w - q - x - l, 0)
  BY CPartsLength
<1>7. Len(y) = l /\ y = Precise(g, p, f)
  BY <1>1, <1>5, Reversed
<1>8. number = IF left THEN (front \o precise) \o Repeat(Blank, room)
               ELSE IF zeros THEN (front \o Repeat(0, room)) \o precise
               ELSE (Repeat(Blank, room) \o front) \o precise
  BY CNumberParts
<1>9. /\ ("-" \in f) <=> left
      /\ ("0" \in f) <=> zero
      /\ ("#" \in f) <=> ("#" \in Flags(d) /\ b # 10 /\ Value(d) # 0)
  BY <1>1, GivenFlagsAre
<1>10. q \in Nat /\ x \in Nat /\ l \in Nat
  BY <1>4, <1>6
<1>a. zeros <=> (~left /\ zero)
  BY DEF PadsWithZeros
<1>11. q + x + l <= NtoaSize /\ (zeros => q + x + l + room <= NtoaSize)
  <2> HIDE DEF q, x, l, room, number, zeros, w
  <2> QED
    BY <1>0, <1>1, <1>6, <1>10 DEF Larger
<1>12. n \in Nat
  BY Arguments, Values, NtoaIsNumeral
<1>13. front \in Seq(Chars)
  BY <1>4, Joined
<1>14. PadTo(w, q + x + l) = Repeat(Blank, room)
  <2> HIDE DEF q, x, l, room, w
  <2>1. w - (q + x + l) = w - q - x - l
    BY <1>0, <1>10
  <2> QED
    BY <1>6, <2>1 DEF PadTo
<1>p. p \in Int
  BY <1>1 DEF NoPrecision
<1> HIDE DEF f, sign, pre, precise, room, g, y, b, w, p, neg, n, number, zeros
<1>15. ASSUME left \/ ~zero
       PROVE  IntegerText(d) = IF left THEN (front \o precise) \o Repeat(Blank, room)
                               ELSE Repeat(Blank, room) \o (front \o precise)
  <2>1. "#" \in f => p # NoPrecision \/ Len(y) # w
    <3>1. ASSUME "#" \in f, p = NoPrecision PROVE Len(y) # w
      <4>1. w \notin n .. n + 1
        BY <1>2, <1>9, <3>1
      <4>2. Len(y) = n
        BY <1>5, <3>1
      <4> HIDE DEF l
      <4>3. w # n
        BY <1>12, <4>1
      <4> QED
        BY <4>2, <4>3
    <3> QED
      BY <3>1
  <2>2. "-" \in f \/ "0" \notin f
    BY <1>9, <1>15
  <2>3. Len(SignOf(neg, f)) + Len(Prefix(b, f)) + Len(Precise(g, p, f)) <= NtoaSize
    BY <1>4, <1>7, <1>11
  <2>4. "#" \in f => p # NoPrecision \/ Len(Precise(g, p, f)) # w
    BY <1>7, <2>1
  <2>5. ntoa_format(g, neg, b, p, w, f)
          = Plainly(SignOf(neg, f), Prefix(b, f), Precise(g, p, f), w, f)
    BY <1>0, <1>p, <1>5, <2>2, <2>3, <2>4, PlainFormat
  <2>6. IntegerText(d) = Plainly(sign, pre, y, w, f)
    BY <1>3, <1>4, <1>7, <2>5
  <2>7. PadTo(w, Len(sign) + Len(pre) + Len(y)) = Repeat(Blank, room)
    BY <1>7, <1>14
  <2>8. Plainly(sign, pre, y, w, f) = IF "-" \in f THEN (front \o precise) \o Repeat(Blank, room)
                                      ELSE Repeat(Blank, room) \o (front \o precise)
    BY <1>5, <2>7 DEF Plainly
  <2> QED
    BY <1>9, <2>6, <2>8
<1>16. CASE left
  BY <1>8, <1>15, <1>16 DEF number
<1>17. CASE ~left /\ ~zero
  <2>1. Repeat(Blank, room) \in Seq(Chars)
    BY <1>0, <1>6, Repeats
  <2>2. (Repeat(Blank, room) \o front) \o precise = Repeat(Blank, room) \o (front \o precise)
    <3> DEFINE bl == Repeat(Blank, room)
    <3>1. bl \in Seq(Chars)
      BY <2>1
    <3> HIDE DEF bl, front
    <3>2. Associate(bl, front, precise)
      BY <1>6, <1>13, <3>1, Regrouped
    <3> QED
      BY <3>2 DEF Associate, bl
  <2> QED
    BY <1>8, <1>15, <1>17, <1>a, <2>2 DEF number
<1>18. CASE ~left /\ zero
  <2>1. "-" \notin f /\ "0" \in f /\ p = NoPrecision
    BY <1>9, <1>18
  <2>2. y = g /\ g # <<>> /\ Len(g) = n /\ Reverse(g) = precise /\ Len(g) = l
    BY <1>5, <1>7, <2>1
  <2>3. "#" \in f => /\ SignOf(neg, f) = <<>> /\ b \in {8, 16}
                     /\ w \notin Len(g) .. Len(g) + 1
    <3> SUFFICES ASSUME "#" \in f
                 PROVE  SignOf(neg, f) = <<>> /\ b \in {8, 16} /\ w \notin Len(g) .. Len(g) + 1
      OBVIOUS
    <3>1. "#" \in Flags(d) /\ b # 10 /\ Value(d) # 0
      BY <1>9
    <3>2. w \notin n .. n + 1 /\ b # 2
      BY <1>2, <1>18, <2>1, <3>1
    <3>3. b \in {8, 16}
      BY <1>0, <3>1, <3>2 DEF Bases
    <3>4. sign = <<>>
      <4>1. d.spec # "d"
        BY <3>1 DEF b, BaseOf
      <4> QED
        BY <4>1 DEF sign, CSign
    <3> QED
      BY <1>4, <2>2, <3>2, <3>3, <3>4
  <2>4. ZerosToGo(SignOf(neg, f), Prefix(b, f), g, w) = room
    BY <1>4, <1>6, <2>2 DEF ZerosToGo
  <2>5. Len(SignOf(neg, f)) + Len(Prefix(b, f)) + Len(g)
          + ZerosToGo(SignOf(neg, f), Prefix(b, f), g, w) <= NtoaSize
    BY <1>4, <1>11, <1>18, <1>a, <2>2, <2>4
  <2>6. ntoa_format(g, neg, b, NoPrecision, w, f)
          = WithZeros(SignOf(neg, f), Prefix(b, f), g, w)
    BY <1>0, <1>5, <2>1, <2>2, <2>3, <2>5, ZeroFormat
  <2>7. WithZeros(sign, pre, g, w) = (front \o Repeat(0, room)) \o precise
    BY <1>4, <2>2, <2>4 DEF WithZeros
  <2> QED
    BY <1>3, <1>4, <1>8, <1>18, <1>a, <2>1, <2>6, <2>7 DEF number
<1> QED
  BY <1>16, <1>17, <1>18

\* A number is written as C writes it, whatever the sizes of the integers and of
\* the conversion buffer, but for the directives that Differs names.
THEOREM NumbersAreC == Spec => NumbersAsInC
<1> DEFINE Step == \A i \in DOMAIN job.format :
                      LET d == job.format[i]
                      IN  Convert(i) /\ d.spec \in {"d", "u", "x", "o", "b"} /\ ~Differs(d)
                          => made' = made \o CNumber(d)
<1>1. CallInv /\ [Next]_vars => [Step]_vars
  <2> SUFFICES ASSUME CallInv, NEW i \in DOMAIN job.format, Convert(i),
                      job.format[i].spec \in {"d", "u", "x", "o", "b"}, ~Differs(job.format[i])
               PROVE  made' = made \o CNumber(job.format[i])
    OBVIOUS
  <2> DEFINE d == job.format[i]
  <2>1. d \in Directives
    BY JobTypes DEF CallInv
  <2>2. made' = made \o Text(d)
    BY ConvertKeepsCall
  <2>3. Text(d) = IntegerText(d)
    BY DEF Text
  <2>4. IntegerText(d) = CNumber(d)
    <3> HIDE DEF d
    <3>1. ~Differs(d)
      BY DEF d
    <3> QED
      BY <2>1, <3>1, IntegerAsInC
  <2> QED
    BY <2>2, <2>3, <2>4
<1> QED
  BY <1>1, CallHolds, PTL DEF Spec, NumbersAsInC
====
