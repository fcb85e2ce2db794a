---- MODULE SlabProofs ----
(***************************************************************************)
(* The heap, for any buckets, page size, memory and order of calls.  The   *)
(* invariant says of each linked list that it is a chain: a set of places, *)
(* each visited once from the head to NULL.  Every operation of the heap   *)
(* pushes on a chain, pops its head or unlinks one of its members, so the  *)
(* induction over the length of a list is done once, for chains.           *)
(*                                                                         *)
(* RequestsFit is the condition the heap relies on and does not check: a   *)
(* block of a slab with one slot fits behind the header (run slab_page     *)
(* shows what happens otherwise).                                          *)
(***************************************************************************)
EXTENDS Slab, FiniteSetTheorems, WellFoundedInduction, TLAPS

----
\* The lemma of every induction below.

\* A set of numbers that is not empty has a least element.
LEMMA LeastElement ==
    ASSUME NEW T, T \subseteq Nat, T # {}
    PROVE  \E x \in T : \A y \in T : x <= y
<1> DEFINE R == OpToRel(<, Nat)
<1>1. IsWellFoundedOn(R, Nat)
  BY NatLessThanWellFounded
<1>2. \A a, b \in Nat : a < b => <<a, b>> \in R
  BY DEF OpToRel
<1> HIDE DEF R
<1>3. PICK x \in T : \A y \in T : <<y, x>> \notin R
  BY <1>1, WFMin
<1>4. ASSUME NEW y \in T PROVE x <= y
  <2>1. ~(y < x)
    BY <1>2, <1>3
  <2> QED
    BY <2>1
<1> QED
  BY <1>4

----
\* Chains: a set of places, linked in some order from a head to NULL.

Linked(n, s, S, head, nxt) ==
    /\ s \in [1 .. n + 1 -> S \cup {NULL}]
    /\ s[1] = head /\ s[n + 1] = NULL
    /\ \A i \in 1 .. n : s[i] \in S /\ nxt[s[i]] = s[i + 1]
    /\ \A i, j \in 1 .. n : s[i] = s[j] => i = j
    /\ \A x \in S : \E i \in 1 .. n : s[i] = x

Chained(S, head, nxt) == NULL \notin S /\ \E n \in Nat : \E s : Linked(n, s, S, head, nxt)

\* Nothing is linked from NULL.
LEMMA EmptyChain ==
    ASSUME NEW nxt PROVE Chained({}, NULL, nxt)
<1>1. Linked(0, [i \in 1 .. 1 |-> NULL], {}, NULL, nxt)
  BY DEF Linked
<1> QED
  BY <1>1 DEF Chained

\* The head is a member, or NULL when there is none; a successor is a member or NULL.
LEMMA ChainHead ==
    ASSUME NEW S, NEW head, NEW nxt, Chained(S, head, nxt)
    PROVE  /\ head \in S \cup {NULL}
           /\ head = NULL <=> S = {}
           /\ \A x \in S : nxt[x] \in S \cup {NULL}
<1>0. PICK n \in Nat : \E s : Linked(n, s, S, head, nxt)
  BY DEF Chained
<1>1. PICK s : Linked(n, s, S, head, nxt)
  BY <1>0
<1>2. NULL \notin S
  BY DEF Chained
<1>3. CASE n = 0
  BY <1>1, <1>2, <1>3 DEF Linked
<1>4. CASE n # 0
  <2>1. 1 \in 1 .. n /\ s[1] \in S
    BY <1>1, <1>4 DEF Linked
  <2>2. \A x \in S : nxt[x] \in S \cup {NULL}
    <3> SUFFICES ASSUME NEW x \in S PROVE nxt[x] \in S \cup {NULL}
      OBVIOUS
    <3>1. PICK i \in 1 .. n : s[i] = x
      BY <1>1 DEF Linked
    <3>2. i + 1 \in 1 .. n + 1 /\ nxt[x] = s[i + 1]
      BY <1>1, <3>1 DEF Linked
    <3> QED
      BY <1>1, <3>2 DEF Linked
  <2> QED
    BY <1>1, <1>2, <2>1, <2>2 DEF Linked
<1> QED
  BY <1>3, <1>4

\* A chain depends on the successors of its members only.
LEMMA SameChain ==
    ASSUME NEW S, NEW head, NEW nxt, Chained(S, head, nxt),
           NEW new, \A x \in S : new[x] = nxt[x]
    PROVE  Chained(S, head, new)
<1>0. PICK n \in Nat : \E s : Linked(n, s, S, head, nxt)
  BY DEF Chained
<1>1. PICK s : Linked(n, s, S, head, nxt)
  BY <1>0
<1>2. Linked(n, s, S, head, new)
  BY <1>1 DEF Linked
<1> QED
  BY <1>2 DEF Chained

\* A new head in front of a chain (the insertions of move_slab_to_* and slab_free).
LEMMA PushChain ==
    ASSUME NEW S, NEW head, NEW nxt, Chained(S, head, nxt),
           NEW x, x \notin S, x # NULL,
           NEW new, new[x] = head, \A y \in S : new[y] = nxt[y]
    PROVE  Chained(S \cup {x}, x, new)
<1>0. PICK n \in Nat : \E s : Linked(n, s, S, head, nxt)
  BY DEF Chained
<1>1. PICK s : Linked(n, s, S, head, nxt)
  BY <1>0
<1> DEFINE t == [i \in 1 .. (n + 1) + 1 |-> IF i = 1 THEN x ELSE s[i - 1]]
<1>2. \A i \in 2 .. n + 2 : i - 1 \in 1 .. n + 1 /\ t[i] = s[i - 1] /\ t[i] \in S \cup {NULL}
  BY <1>1 DEF Linked
<1>3. t[1] = x /\ t \in [1 .. (n + 1) + 1 -> (S \cup {x}) \cup {NULL}] /\ t[(n + 1) + 1] = NULL
  BY <1>1, <1>2 DEF Linked
<1>4. \A i \in 2 .. n + 1 : /\ i - 1 \in 1 .. n /\ t[i] = s[i - 1] /\ t[i] \in S
                            /\ t[i + 1] = s[(i - 1) + 1]
  BY <1>1, <1>2 DEF Linked
<1>5. t[2] = head
  BY <1>1, <1>2 DEF Linked
<1> HIDE DEF t
<1>6. ASSUME NEW i \in 1 .. n + 1 PROVE t[i] \in S \cup {x} /\ new[t[i]] = t[i + 1]
  <2>1. CASE i = 1
    BY <1>3, <1>5, <2>1
  <2>2. CASE i # 1
    <3>1. i \in 2 .. n + 1
      BY <2>2
    <3>2. nxt[s[i - 1]] = s[(i - 1) + 1]
      BY <1>1, <1>4, <3>1 DEF Linked
    <3> QED
      BY <1>4, <3>1, <3>2
  <2> QED
    BY <2>1, <2>2
<1>7. ASSUME NEW i \in 1 .. n + 1, NEW j \in 1 .. n + 1, t[i] = t[j] PROVE i = j
  <2>1. CASE i = 1 \/ j = 1
    BY <1>3, <1>4, <1>7, <2>1
  <2>2. CASE i # 1 /\ j # 1
    <3>1. i - 1 = j - 1
      BY <1>1, <1>4, <1>7, <2>2 DEF Linked
    <3> QED
      BY <3>1
  <2> QED
    BY <2>1, <2>2
<1>8. ASSUME NEW y \in S \cup {x} PROVE \E i \in 1 .. n + 1 : t[i] = y
  <2>1. CASE y = x
    BY <1>3, <2>1
  <2>2. CASE y \in S
    <3>1. PICK i \in 1 .. n : s[i] = y
      BY <1>1, <2>2 DEF Linked
    <3>2. i + 1 \in 2 .. n + 1 /\ (i + 1) - 1 = i
      OBVIOUS
    <3> QED
      BY <1>4, <3>1, <3>2
  <2> QED
    BY <2>1, <2>2
<1>9. Linked(n + 1, t, S \cup {x}, x, new)
  BY <1>3, <1>6, <1>7, <1>8 DEF Linked
<1>10. NULL \notin S \cup {x} /\ n + 1 \in Nat
  BY DEF Chained
<1> QED
  BY <1>9, <1>10 DEF Chained

\* The rest of a chain without its head.
LEMMA PopChain ==
    ASSUME NEW S, NEW head, NEW nxt, Chained(S, head, nxt), head # NULL,
           NEW new, \A y \in S \ {head} : new[y] = nxt[y]
    PROVE  head \in S /\ Chained(S \ {head}, nxt[head], new)
<1>0. PICK n \in Nat : \E s : Linked(n, s, S, head, nxt)
  BY DEF Chained
<1>1. PICK s : Linked(n, s, S, head, nxt)
  BY <1>0
<1>2. n >= 1 /\ n - 1 \in Nat /\ 1 \in 1 .. n
  BY <1>1 DEF Linked
<1> DEFINE t == [i \in 1 .. (n - 1) + 1 |-> s[i + 1]]
<1>3. \A i \in 1 .. n : t[i] = s[i + 1] /\ i + 1 \in 1 .. n + 1
  BY <1>2
<1>4. \A i \in 1 .. n - 1 : /\ i \in 1 .. n /\ i + 1 \in 1 .. n
                            /\ t[i] = s[i + 1] /\ t[i + 1] = s[(i + 1) + 1]
  BY <1>2
<1>5. head \in S /\ s[1] = head
  BY <1>1, <1>2 DEF Linked
<1>6. \A i \in 2 .. n : s[i] \in S \ {head}
  <2> SUFFICES ASSUME NEW i \in 2 .. n PROVE s[i] \in S \ {head}
    OBVIOUS
  <2>1. i \in 1 .. n /\ i # 1
    OBVIOUS
  <2> QED
    BY <1>1, <1>2, <1>5, <2>1 DEF Linked
<1>7. t \in [1 .. (n - 1) + 1 -> (S \ {head}) \cup {NULL}]
  <2>1. ASSUME NEW i \in 1 .. (n - 1) + 1 PROVE s[i + 1] \in (S \ {head}) \cup {NULL}
    <3>1. i + 1 \in 2 .. n \/ i + 1 = n + 1
      BY <1>2
    <3> QED
      BY <1>1, <1>6, <3>1 DEF Linked
  <2> QED
    BY <2>1
<1>8. t[1] = nxt[head] /\ t[(n - 1) + 1] = NULL
  BY <1>1, <1>2, <1>3, <1>5 DEF Linked
<1> HIDE DEF t
<1>9. ASSUME NEW i \in 1 .. n - 1 PROVE t[i] \in S \ {head} /\ new[t[i]] = t[i + 1]
  <2>1. i + 1 \in 2 .. n
    BY <1>2
  <2>2. nxt[s[i + 1]] = s[(i + 1) + 1]
    BY <1>1, <1>4 DEF Linked
  <2> QED
    BY <1>4, <1>6, <2>1, <2>2
<1>10. ASSUME NEW i \in 1 .. n - 1, NEW j \in 1 .. n - 1, t[i] = t[j] PROVE i = j
  <2>1. i + 1 = j + 1
    BY <1>1, <1>4, <1>10 DEF Linked
  <2> QED
    BY <2>1
<1>11. ASSUME NEW y \in S \ {head} PROVE \E i \in 1 .. n - 1 : t[i] = y
  <2>1. PICK i \in 1 .. n : s[i] = y
    BY <1>1 DEF Linked
  <2>2. i # 1
    BY <1>5, <2>1
  <2>3. i - 1 \in 1 .. n - 1 /\ (i - 1) + 1 = i
    BY <2>2
  <2> QED
    BY <1>4, <2>1, <2>3
<1>12. Linked(n - 1, t, S \ {head}, nxt[head], new)
  BY <1>7, <1>8, <1>9, <1>10, <1>11 DEF Linked
<1> QED
  BY <1>2, <1>5, <1>12 DEF Chained

\* Unlinking a place from the middle, where exactly one other leads to it.
LEMMA UnlinkChain ==
    ASSUME NEW S, NEW head, NEW nxt, Chained(S, head, nxt), NEW x \in S, x # head
    PROVE  \E p \in S :
             /\ p # x /\ nxt[p] = x /\ \A q \in S : nxt[q] = x => q = p
             /\ \A new : /\ new[p] = nxt[x] /\ \A y \in S \ {p, x} : new[y] = nxt[y]
                         => Chained(S \ {x}, head, new)
<1>0. PICK n \in Nat : \E s : Linked(n, s, S, head, nxt)
  BY DEF Chained
<1>1. PICK s : Linked(n, s, S, head, nxt)
  BY <1>0
<1>2. PICK k \in 1 .. n : s[k] = x
  BY <1>1 DEF Linked
<1>3. k \in 2 .. n /\ k - 1 \in 1 .. n /\ n >= 2 /\ n - 1 \in Nat /\ (k - 1) + 1 = k
  BY <1>1, <1>2 DEF Linked
<1>4. PICK p : p = s[k - 1]
  OBVIOUS
<1>5. p \in S /\ p # x /\ nxt[p] = x
  <2>1. k - 1 # k /\ s[k - 1] # s[k]
    BY <1>1, <1>3 DEF Linked
  <2> QED
    BY <1>1, <1>2, <1>3, <1>4, <2>1 DEF Linked
<1>6. ASSUME NEW q \in S, nxt[q] = x PROVE q = p
  <2>1. PICK j \in 1 .. n : s[j] = q
    BY <1>1 DEF Linked
  <2>2. s[j + 1] = x /\ x # NULL
    BY <1>1, <1>6, <2>1 DEF Linked, Chained
  <2>3. j + 1 # n + 1
    BY <1>1, <2>2 DEF Linked
  <2>4. j + 1 \in 1 .. n
    BY <2>3
  <2>5. j + 1 = k
    BY <1>1, <1>2, <2>2, <2>4 DEF Linked
  <2>6. j = k - 1
    BY <2>5
  <2> QED
    BY <1>4, <2>1, <2>6
<1>7. ASSUME NEW new, new[p] = nxt[x], \A y \in S \ {p, x} : new[y] = nxt[y]
      PROVE  Chained(S \ {x}, head, new)
  <2> DEFINE t == [i \in 1 .. (n - 1) + 1 |-> IF i < k THEN s[i] ELSE s[i + 1]]
  <2>1. \A i \in 1 .. n : i # k => s[i] \in S \ {x}
    BY <1>1, <1>2 DEF Linked
  <2>2. /\ \A i \in 1 .. k - 1 : i \in 1 .. n /\ i # k /\ t[i] = s[i]
        /\ \A i \in k .. n - 1 : i + 1 \in 1 .. n /\ i + 1 # k /\ t[i] = s[i + 1]
        /\ t[n] = s[n + 1]
    BY <1>3
  <2>3. \A i \in 1 .. n - 1 : t[i] \in S \ {x}
    <3> SUFFICES ASSUME NEW i \in 1 .. n - 1 PROVE t[i] \in S \ {x}
      OBVIOUS
    <3>1. i \in 1 .. k - 1 \/ i \in k .. n - 1
      BY <1>3
    <3> HIDE DEF t
    <3> QED
      BY <2>1, <2>2, <3>1
  <2>4. t[n] = NULL /\ t[1] = head
    BY <1>1, <1>3, <2>2 DEF Linked
  <2>5. t \in [1 .. (n - 1) + 1 -> (S \ {x}) \cup {NULL}]
    <3>1. DOMAIN t = 1 .. n /\ t = [i \in 1 .. n |-> t[i]]
      BY <1>3
    <3>2. \A i \in 1 .. n : i \in 1 .. n - 1 \/ i = n
      OBVIOUS
    <3>3. (n - 1) + 1 = n
      OBVIOUS
    <3> HIDE DEF t
    <3> QED
      BY <2>3, <2>4, <3>1, <3>2, <3>3
  <2> HIDE DEF t
  <2>6. ASSUME NEW i \in 1 .. n - 1 PROVE new[t[i]] = t[i + 1]
    <3>1. CASE i \in 1 .. k - 2
      <4>1. i \in 1 .. k - 1 /\ i + 1 \in 1 .. k - 1 /\ i \in 1 .. n /\ i # k /\ i # k - 1
        BY <1>3, <3>1
      <4>2. t[i] = s[i] /\ t[i + 1] = s[i + 1] /\ nxt[s[i]] = s[i + 1]
        BY <1>1, <2>2, <4>1 DEF Linked
      <4>3. s[i] # p /\ s[i] # x /\ s[i] \in S
        BY <1>1, <1>2, <1>3, <1>4, <4>1 DEF Linked
      <4> QED
        BY <1>7, <4>2, <4>3
    <3>2. CASE i = k - 1
      <4>1. t[i] = p
        BY <1>3, <1>4, <2>2, <3>2
      <4>2. t[i + 1] = s[k + 1]
        <5>1. i + 1 = k /\ (k \in k .. n - 1 \/ k = n)
          BY <1>3, <3>2
        <5> QED
          BY <2>2, <5>1
      <4>3. nxt[x] = s[k + 1]
        BY <1>1, <1>2 DEF Linked
      <4> QED
        BY <1>7, <4>1, <4>2, <4>3
    <3>3. CASE i \in k .. n - 1
      <4>1. i + 1 \in 1 .. n /\ i + 1 # k /\ i + 1 # k - 1 /\ t[i] = s[i + 1]
        BY <1>3, <2>2, <3>3
      <4>2. t[i + 1] = s[(i + 1) + 1]
        <5>1. i + 1 \in k .. n - 1 \/ i + 1 = n
          BY <1>3, <3>3
        <5> QED
          BY <2>2, <5>1
      <4>3. s[i + 1] # p /\ s[i + 1] # x /\ s[i + 1] \in S /\ nxt[s[i + 1]] = s[(i + 1) + 1]
        BY <1>1, <1>2, <1>3, <1>4, <4>1 DEF Linked
      <4> QED
        BY <1>7, <4>1, <4>2, <4>3
    <3> QED
      BY <1>3, <3>1, <3>2, <3>3
  <2>7. ASSUME NEW i \in 1 .. n - 1, NEW j \in 1 .. n - 1, t[i] = t[j] PROVE i = j
    <3>1. \A m \in 1 .. n - 1 : m \in 1 .. k - 1 \/ m \in k .. n - 1
      BY <1>3
    <3>2. ASSUME NEW a \in 1 .. n, NEW b \in 1 .. n, s[a] = s[b] PROVE a = b
      BY <1>1, <3>2 DEF Linked
    <3>3. CASE i \in 1 .. k - 1 /\ j \in 1 .. k - 1
      BY <2>2, <2>7, <3>2, <3>3
    <3>4. CASE i \in k .. n - 1 /\ j \in k .. n - 1
      <4>1. i + 1 = j + 1
        BY <2>2, <2>7, <3>2, <3>4
      <4> QED
        BY <4>1
    <3>5. CASE i \in 1 .. k - 1 /\ j \in k .. n - 1
      <4>1. i = j + 1
        BY <2>2, <2>7, <3>2, <3>5
      <4> QED
        BY <1>3, <3>5, <4>1
    <3>6. CASE j \in 1 .. k - 1 /\ i \in k .. n - 1
      <4>1. j = i + 1
        BY <2>2, <2>7, <3>2, <3>6
      <4> QED
        BY <1>3, <3>6, <4>1
    <3> QED
      BY <3>1, <3>3, <3>4, <3>5, <3>6
  <2>8. ASSUME NEW y \in S \ {x} PROVE \E i \in 1 .. n - 1 : t[i] = y
    <3>1. PICK i \in 1 .. n : s[i] = y
      BY <1>1 DEF Linked
    <3>2. i # k
      BY <1>2, <3>1
    <3>3. CASE i < k
      <4>1. i \in 1 .. k - 1 /\ i \in 1 .. n - 1
        BY <1>3, <3>3
      <4> QED
        BY <2>2, <3>1, <4>1
    <3>4. CASE i > k
      <4>1. i - 1 \in k .. n - 1 /\ i - 1 \in 1 .. n - 1 /\ (i - 1) + 1 = i
        BY <1>3, <3>4
      <4> QED
        BY <2>2, <3>1, <4>1
    <3> QED
      BY <3>2, <3>3, <3>4
  <2>9. (n - 1) + 1 = n
    OBVIOUS
  <2>10. Linked(n - 1, t, S \ {x}, head, new)
    BY <2>3, <2>4, <2>5, <2>6, <2>7, <2>8, <2>9 DEF Linked
  <2> QED
    BY <1>3, <2>10 DEF Chained
<1> QED
  BY <1>5, <1>6, <1>7

\* The header leaves room for whatever callers ask for.
RequestsFit ==
    \A size \in Requests : \A c \in BucketFor(size) :
        SlotsPerSlab(c) = 1 => HeaderBytes + size <= PagesPerSlab(c) * PageBytes

----
\* Arithmetic.

\* What the quotient of a division bounds.
LEMMA Division ==
    ASSUME NEW a \in Nat, NEW b \in Nat \ {0}
    PROVE  /\ a \div b \in Nat
           /\ (a \div b) * b <= a
           /\ a < (a \div b) * b + b
OBVIOUS

\* Multiplication keeps order, and the gap between two multiples.
LEMMA Multiples ==
    ASSUME NEW a \in Nat, NEW b \in Nat, NEW m \in Nat
    PROVE  /\ a * m \in Nat
           /\ a <= b => a * m <= b * m
           /\ a < b => a * m + m <= b * m
<1>1. a * m \in Nat
  OBVIOUS
<1>2. ASSUME NEW d \in Nat, b = a + d PROVE b * m = a * m + d * m /\ d * m \in Nat
  BY <1>2
<1>3. ASSUME NEW d \in Nat, d >= 1 PROVE d * m >= m
  <2>1. (d - 1) * m >= 0 /\ d * m = (d - 1) * m + m
    <3>1. d - 1 \in Nat
      BY <1>3
    <3> QED
      BY <3>1
  <2> QED
    BY <2>1
<1>4. a <= b => b - a \in Nat /\ b = a + (b - a)
  OBVIOUS
<1>5. ASSUME a <= b PROVE a * m <= b * m
  BY <1>1, <1>2, <1>4, <1>5
<1>6. ASSUME a < b PROVE a * m + m <= b * m
  <2>1. b - a \in Nat /\ b - a >= 1 /\ b = a + (b - a)
    BY <1>6
  <2>2. b * m = a * m + (b - a) * m
    BY <1>2, <2>1
  <2>3. (b - a) * m >= m
    BY <1>3, <2>1
  <2> QED
    BY <1>1, <2>1, <2>2, <2>3
<1> QED
  BY <1>1, <1>5, <1>6

\* An address of k pages from page p on lies in one of them.
LEMMA Quotient ==
    ASSUME NEW a \in Nat, NEW b \in Nat \ {0}, NEW p \in Nat, NEW k \in Nat,
           p * b <= a, a < (p + k) * b
    PROVE  a \div b \in p .. p + k - 1
<1> DEFINE q == a \div b
<1>1. q \in Nat /\ q * b <= a /\ a < q * b + b
  BY Division
<1> HIDE DEF q
<1>2. q >= p
  <2> SUFFICES ASSUME q < p PROVE FALSE
    BY <1>1
  <2>1. q * b + b <= p * b
    BY <1>1, Multiples
  <2> QED
    BY <1>1, <2>1
<1>3. q < p + k
  <2> SUFFICES ASSUME q >= p + k PROVE FALSE
    BY <1>1
  <2>1. (p + k) * b <= q * b
    BY <1>1, Multiples
  <2> QED
    BY <1>1, <2>1
<1> QED
  BY <1>1, <1>2, <1>3 DEF q

\* Every cache has slots and pages, and several slots fit a page behind the header.
LEMMA Sizes ==
    /\ PageBytes \in Nat \ {0} /\ HeaderBytes \in Nat \ {0} /\ HeaderBytes < PageBytes
    /\ Caches \subseteq Nat \ {0}
    /\ \A c \in Caches :
          /\ Buckets[c] \in Nat \ {0} /\ SlotsPerSlab(c) \in Nat \ {0}
          /\ PagesPerSlab(c) \in Nat \ {0}
          /\ SlotsPerSlab(c) = 1 \/ HeaderBytes + SlotsPerSlab(c) * Buckets[c] <= PageBytes
<1>1. /\ PageBytes \in Nat \ {0} /\ HeaderBytes \in Nat \ {0} /\ 2 * HeaderBytes <= PageBytes
      /\ Buckets \in Seq(Nat \ {0})
  BY SlabAssumption
<1>2. ASSUME NEW c \in Caches
      PROVE  /\ Buckets[c] \in Nat \ {0} /\ SlotsPerSlab(c) \in Nat \ {0}
             /\ PagesPerSlab(c) \in Nat \ {0}
             /\ SlotsPerSlab(c) = 1 \/ HeaderBytes + SlotsPerSlab(c) * Buckets[c] <= PageBytes
  <2>1. Buckets[c] \in Nat \ {0}
    BY <1>1 DEF Caches
  <2>2. SlotsPerSlab(c) \in Nat \ {0}
        /\ (SlotsPerSlab(c) = 1 \/ HeaderBytes + SlotsPerSlab(c) * Buckets[c] <= PageBytes)
    <3>1. CASE 2 * Buckets[c] > PageBytes
      BY <3>1 DEF SlotsPerSlab
    <3>2. CASE ~(2 * Buckets[c] > PageBytes)
      <4>1. PageBytes - HeaderBytes \in Nat /\ Buckets[c] <= PageBytes - HeaderBytes
        BY <1>1, <2>1, <3>2
      <4> DEFINE q == (PageBytes - HeaderBytes) \div Buckets[c]
      <4>2. q \in Nat /\ q * Buckets[c] <= PageBytes - HeaderBytes
            /\ PageBytes - HeaderBytes < q * Buckets[c] + Buckets[c]
        BY <2>1, <4>1, Division
      <4>3. SlotsPerSlab(c) = q
        BY <3>2 DEF SlotsPerSlab
      <4> HIDE DEF q
      <4>4. q # 0
        <5>1. 0 * Buckets[c] = 0
          BY <2>1
        <5> QED
          BY <2>1, <4>1, <4>2, <5>1
      <4>5. q * Buckets[c] \in Nat
        BY <2>1, <4>2
      <4> QED
        BY <1>1, <4>2, <4>3, <4>4, <4>5
    <3> QED
      BY <3>1, <3>2
  <2>3. PagesPerSlab(c) \in Nat \ {0}
    <3>1. CASE Buckets[c] > PageBytes
      <4> DEFINE q == Buckets[c] \div PageBytes
      <4>1. q \in Nat /\ Buckets[c] < q * PageBytes + PageBytes
        BY <1>1, <2>1, Division
      <4>2. PagesPerSlab(c) = q
        BY <3>1 DEF PagesPerSlab
      <4> HIDE DEF q
      <4>3. 0 * PageBytes = 0
        BY <1>1
      <4> QED
        BY <1>1, <2>1, <3>1, <4>1, <4>2, <4>3
    <3>2. CASE ~(Buckets[c] > PageBytes)
      BY <3>2 DEF PagesPerSlab
    <3> QED
      BY <3>1, <3>2
  <2> QED
    BY <2>1, <2>2, <2>3
<1>3. Caches \subseteq Nat \ {0}
  BY <1>1 DEF Caches
<1> QED
  BY <1>1, <1>2, <1>3

\* A slot begins in the first page of its slab, behind the header,
LEMMA SlotInPage ==
    ASSUME NEW p \in Nat, NEW c \in Caches, NEW i \in 0 .. SlotsPerSlab(c) - 1
    PROVE  /\ SlotAddr(p, c, i) \in Nat \ {0} /\ PageOf(SlotAddr(p, c, i)) = p
           /\ p * PageBytes + HeaderBytes <= SlotAddr(p, c, i)
           /\ \/ SlotAddr(p, c, i) = p * PageBytes + HeaderBytes
              \/ SlotAddr(p, c, i) + Buckets[c] <= p * PageBytes + PageBytes
<1> DEFINE B == Buckets[c]
           N == SlotsPerSlab(c)
           a == SlotAddr(p, c, i)
<1>1. /\ PageBytes \in Nat \ {0} /\ HeaderBytes \in Nat \ {0} /\ HeaderBytes < PageBytes
      /\ B \in Nat \ {0} /\ N \in Nat \ {0} /\ (N = 1 \/ HeaderBytes + N * B <= PageBytes)
      /\ i \in Nat /\ i < N
  BY Sizes
<1>2. a = p * PageBytes + HeaderBytes + i * B
  BY DEF SlotAddr, PageAddr
<1> HIDE DEF B, N, a
<1>3. i * B \in Nat /\ i * B + B <= N * B /\ p * PageBytes \in Nat /\ N * B \in Nat
  BY <1>1, Multiples
<1>4. N = 1 => i * B = 0
  <2>1. N = 1 => i = 0
    BY <1>1
  <2>2. 0 * B = 0
    BY <1>1
  <2> QED
    BY <2>1, <2>2
<1>5. HeaderBytes + i * B < PageBytes
  BY <1>1, <1>3, <1>4
<1>6. a \in Nat \ {0} /\ p * PageBytes + HeaderBytes <= a /\ a < p * PageBytes + PageBytes
  BY <1>1, <1>2, <1>3, <1>5
<1>7. \/ a = p * PageBytes + HeaderBytes
      \/ a + B <= p * PageBytes + PageBytes
  BY <1>1, <1>2, <1>3, <1>4
<1>8. (p + 1) * PageBytes = p * PageBytes + PageBytes
  BY <1>1
<1>9. a \div PageBytes \in p .. p + 1 - 1
  BY <1>1, <1>3, <1>6, <1>8, Quotient
<1>10. PageOf(a) = p
  BY <1>9 DEF PageOf
<1> QED
  BY <1>6, <1>7, <1>10 DEF a, B

\* two slots of a slab are a slot apart,
LEMMA SlotsApart ==
    ASSUME NEW p \in Nat, NEW c \in Caches, NEW x \in SlotsOf(p, c), NEW y \in SlotsOf(p, c), x # y
    PROVE  x + Buckets[c] <= y \/ y + Buckets[c] <= x
<1>1. PICK i \in 0 .. SlotsPerSlab(c) - 1 : x = SlotAddr(p, c, i)
  BY DEF SlotsOf
<1>2. PICK j \in 0 .. SlotsPerSlab(c) - 1 : y = SlotAddr(p, c, j)
  BY DEF SlotsOf
<1> DEFINE B == Buckets[c]
<1>3. B \in Nat \ {0} /\ i \in Nat /\ j \in Nat /\ i # j /\ PageBytes \in Nat /\ HeaderBytes \in Nat
  BY <1>1, <1>2, Sizes
<1>4. x = p * PageBytes + HeaderBytes + i * B /\ y = p * PageBytes + HeaderBytes + j * B
  BY <1>1, <1>2 DEF SlotAddr, PageAddr
<1> HIDE DEF B
<1>5. /\ i * B \in Nat /\ j * B \in Nat /\ p * PageBytes \in Nat
      /\ i < j => i * B + B <= j * B
      /\ j < i => j * B + B <= i * B
  BY <1>3, Multiples
<1>6. i < j \/ j < i
  BY <1>3
<1>7. x + B <= y \/ y + B <= x
  BY <1>3, <1>4, <1>5, <1>6
<1> QED
  BY <1>7 DEF B

\* and the bytes of a block stay in the pages of its slab.
LEMMA BlockInSpan ==
    ASSUME RequestsFit, NEW p \in Nat, NEW size \in Requests, NEW c \in BucketFor(size),
           NEW x \in SlotsOf(p, c), NEW y \in x .. x + size - 1
    PROVE  PageOf(y) \in p .. p + PagesPerSlab(c) - 1
<1>1. PICK i \in 0 .. SlotsPerSlab(c) - 1 : x = SlotAddr(p, c, i)
  BY DEF SlotsOf
<1>2. c \in Caches /\ size <= Buckets[c] /\ size \in Nat \ {0}
  BY SlabAssumption DEF BucketFor
<1> DEFINE B == Buckets[c]
           N == SlotsPerSlab(c)
           k == PagesPerSlab(c)
<1>3. /\ PageBytes \in Nat \ {0} /\ HeaderBytes \in Nat \ {0}
      /\ B \in Nat \ {0} /\ N \in Nat \ {0} /\ k \in Nat \ {0} /\ size <= B
  BY <1>2, Sizes
<1>4. /\ x \in Nat /\ p * PageBytes + HeaderBytes <= x
      /\ x = p * PageBytes + HeaderBytes \/ x + B <= p * PageBytes + PageBytes
  BY <1>1, <1>2, SlotInPage
<1>5. N = 1 => HeaderBytes + size <= k * PageBytes
  BY DEF RequestsFit
<1>5a. N = 1 => x = p * PageBytes + HeaderBytes
  <2>1. N = 1 => i = 0
    BY <1>1
  <2>2. 0 * B = 0
    BY <1>3
  <2>3. x = p * PageBytes + HeaderBytes + i * B
    BY <1>1 DEF SlotAddr, PageAddr
  <2>4. p * PageBytes \in Nat
    BY <1>3
  <2> QED
    BY <1>3, <2>1, <2>2, <2>3, <2>4
<1>6. N # 1 => HeaderBytes + B <= PageBytes
  <2>1. N # 1 => HeaderBytes + N * B <= PageBytes
    BY <1>2, Sizes
  <2>2. B <= N * B /\ N * B \in Nat
    <3>1. 1 * B <= N * B
      BY <1>3, Multiples
    <3> QED
      BY <1>3, <3>1
  <2> QED
    BY <1>3, <2>1, <2>2
<1> HIDE DEF B, N, k
<1>7. /\ p * PageBytes \in Nat /\ (p + k) * PageBytes = p * PageBytes + k * PageBytes
      /\ k * PageBytes \in Nat
  BY <1>3
<1>8. PageBytes <= k * PageBytes
  <2>1. 1 * PageBytes <= k * PageBytes
    BY <1>3, Multiples
  <2> QED
    BY <1>3, <2>1
<1>9. x + size <= (p + k) * PageBytes
  <2>1. CASE N = 1
    BY <1>2, <1>3, <1>4, <1>5, <1>5a, <1>7, <2>1
  <2>2. CASE N # 1
    BY <1>2, <1>3, <1>4, <1>6, <1>7, <1>8, <2>2
  <2> QED
    BY <2>1, <2>2
<1>10. y \in Nat /\ p * PageBytes <= y /\ y < (p + k) * PageBytes
  BY <1>2, <1>3, <1>4, <1>7, <1>9
<1>11. y \div PageBytes \in p .. p + k - 1
  BY <1>3, <1>10, Quotient
<1> QED
  BY <1>11 DEF PageOf, k

----
\* The lowest frames of a pool.

\* Any number of lowest members can be taken from a set.
LEMMA LowestSubset ==
    ASSUME NEW S, S \subseteq Nat, IsFiniteSet(S)
    PROVE  \A n \in 0 .. Cardinality(S) :
              \E T \in SUBSET S : Cardinality(T) = n /\ \A x \in T, y \in S \ T : x < y
<1> DEFINE Has(n) == \E T \in SUBSET S : Cardinality(T) = n /\ \A x \in T, y \in S \ T : x < y
           Not == {n \in 0 .. Cardinality(S) : ~Has(n)}
<1>1. Cardinality(S) \in Nat
  BY FS_CardinalityType
<1>2. SUFFICES ASSUME Not # {} PROVE FALSE
  OBVIOUS
<1>3. Not \subseteq Nat
  BY <1>1
<1> HIDE DEF Not
<1>4. PICK n \in Not : \A m \in Not : n <= m
  BY <1>2, <1>3, LeastElement
<1> USE DEF Not
<1>5. n # 0
  <2>1. Cardinality({}) = 0
    BY FS_EmptySet
  <2>2. Has(0)
    BY <2>1
  <2> QED
    BY <1>4, <2>2
<1>6. n \in 1 .. Cardinality(S) /\ n - 1 \in 0 .. Cardinality(S) /\ n - 1 < n
  BY <1>1, <1>4, <1>5
<1>7. Has(n - 1)
  BY <1>4, <1>6
<1>8. PICK T \in SUBSET S : Cardinality(T) = n - 1 /\ \A x \in T, y \in S \ T : x < y
  BY <1>7
<1>9. IsFiniteSet(T)
  BY FS_Subset
<1>10. S \ T # {}
  <2>1. S \ T = {} => T = S
    OBVIOUS
  <2> QED
    BY <1>1, <1>6, <1>8, <2>1
<1>11. PICK x \in S \ T : \A y \in S \ T : x <= y
  BY <1>10, LeastElement
<1>12. Cardinality(T \cup {x}) = n
  <2>1. Cardinality(T \cup {x}) = Cardinality(T) + 1
    BY <1>9, <1>11, FS_AddElement
  <2> QED
    BY <1>6, <1>8, <2>1
<1>13. ASSUME NEW a \in T \cup {x}, NEW b \in S \ (T \cup {x}) PROVE a < b
  <2>1. a \in Nat /\ b \in Nat /\ b \in S \ T /\ b # x
    BY <1>11
  <2>2. CASE a \in T
    BY <1>8, <2>1, <2>2
  <2>3. CASE a = x
    BY <1>11, <2>1, <2>3
  <2> QED
    BY <2>2, <2>3
<1>14. Has(n)
  <2>1. T \cup {x} \in SUBSET S
    BY <1>11
  <2> QED
    BY <1>12, <1>13, <2>1
<1> QED
  BY <1>4, <1>14

\* pmm_alloc called n times takes n frames, all below those that stay.
LEMMA TakenFrames ==
    ASSUME NEW pool, pool \subseteq Nat, IsFiniteSet(pool),
           NEW n \in Nat \ {0}, n <= Cardinality(pool)
    PROVE  LET T == Taken(pool, n)
           IN  /\ T \subseteq pool /\ IsFiniteSet(T) /\ Cardinality(T) = n
               /\ \A x \in T, y \in pool \ T : x < y
               /\ Lowest(T) \in T /\ \A x \in T : Lowest(T) <= x
<1> DEFINE T == Taken(pool, n)
<1>1. n \in 0 .. Cardinality(pool)
  BY FS_CardinalityType
<1>2. \E U \in SUBSET pool : Cardinality(U) = n /\ \A x \in U, y \in pool \ U : x < y
  BY <1>1, LowestSubset
<1>3. T \in SUBSET pool /\ Cardinality(T) = n /\ \A x \in T, y \in pool \ T : x < y
  BY <1>2 DEF Taken
<1> HIDE DEF T
<1>4. IsFiniteSet(T)
  BY <1>3, FS_Subset
<1>5. T # {}
  <2>1. T = {} => Cardinality(T) = 0
    BY FS_EmptySet
  <2> QED
    BY <1>3, <2>1
<1>6. \E x \in T : \A y \in T : x <= y
  BY <1>3, <1>5, LeastElement
<1>7. Lowest(T) \in T /\ \A x \in T : Lowest(T) <= x
  BY <1>6 DEF Lowest
<1> QED
  BY <1>3, <1>4, <1>7 DEF T

\* A set whose least element is p reaches at least as far as its size says.
LEMMA Reaches ==
    ASSUME NEW T, NEW p \in Nat, NEW top \in Nat,
           \A x \in T : x \in p .. top, IsFiniteSet(T)
    PROVE  Cardinality(T) <= (top - p) + 1 \/ T = {}
<1>1. T \in SUBSET (p .. top)
  OBVIOUS
<1>2. IsFiniteSet(p .. top) /\ Cardinality(p .. top) = IF p > top THEN 0 ELSE (top - p) + 1
  BY FS_Interval
<1>3. Cardinality(T) <= Cardinality(p .. top)
  BY <1>1, <1>2, FS_Subset
<1>4. p > top => T = {}
  BY <1>1
<1> QED
  BY <1>2, <1>3, <1>4

\* The places of a set of numbers in order.
LEMMA NthElement ==
    ASSUME NEW T, T \subseteq Nat, IsFiniteSet(T), NEW j \in Nat, j < Cardinality(T)
    PROVE  Nth(T, j) \in T /\ Cardinality({y \in T : y < Nth(T, j)}) = j
<1>1. j \in 0 .. Cardinality(T) /\ Cardinality(T) \in Nat
  BY FS_CardinalityType
<1>2. PICK U \in SUBSET T : Cardinality(U) = j /\ \A x \in U, y \in T \ U : x < y
  BY <1>1, LowestSubset
<1>3. T \ U # {}
  <2>1. T \ U = {} => U = T
    OBVIOUS
  <2> QED
    BY <1>1, <1>2, <2>1
<1>4. PICK x \in T \ U : \A y \in T \ U : x <= y
  BY <1>3, LeastElement
<1>5. {y \in T : y < x} = U
  <2>1. ASSUME NEW y \in T, y < x PROVE y \in U
    BY <1>4, <2>1
  <2>2. ASSUME NEW y \in U PROVE y \in T /\ y < x
    BY <1>2, <1>4
  <2> QED
    BY <2>1, <2>2
<1>6. \E z \in T : Cardinality({y \in T : y < z}) = j
  BY <1>2, <1>4, <1>5
<1> QED
  BY <1>6 DEF Nth

----
\* The inductive invariant, of the allocator's data h and the blocks L in use.

HeaderType ==
    [cache: Caches \cup {0}, next: Frames \cup {NULL}, free: Addresses \cup {NULL},
     used: Nat, total: Nat]
HeapType ==
    [partial: [Caches -> Frames \cup {NULL}], full: [Caches -> Frames \cup {NULL}],
     hdr: [Frames -> HeaderType], word: [Addresses -> Pointer],
     pool: SUBSET FirstPool, hhdm: [Frames -> Frames]]

NextIn(h) == [p \in Frames |-> h.hdr[p].next]
SlabsIn(h) == {p \in Frames : h.hdr[p].cache # 0}
Roomy(h, c) == {p \in Frames : h.hdr[p].cache = c /\ h.hdr[p].used # h.hdr[p].total}
Crowded(h, c) == {p \in Frames : h.hdr[p].cache = c /\ h.hdr[p].used = h.hdr[p].total}
AddrsOf(L) == {b.addr : b \in L}
FreeIn(h, L, p) == SlotsOf(p, h.hdr[p].cache) \ AddrsOf(L)
SpanIn(h, p) == p .. p + PagesPerSlab(h.hdr[p].cache) - 1

HeadersInv(h) ==
    \A p \in Frames :
        IF h.hdr[p].cache = 0 THEN h.hdr[p] = NoHeader
        ELSE h.hdr[p].total = SlotsPerSlab(h.hdr[p].cache) /\ h.hdr[p].used <= h.hdr[p].total
ListsInv(h) ==
    \A c \in Caches : /\ Chained(Roomy(h, c), h.partial[c], NextIn(h))
                      /\ Chained(Crowded(h, c), h.full[c], NextIn(h))
FreeInv(h, L) ==
    \A p \in SlabsIn(h) :
        /\ Chained(FreeIn(h, L, p), h.hdr[p].free, h.word)
        /\ Cardinality(FreeIn(h, L, p)) = h.hdr[p].total - h.hdr[p].used
BlockOf(h, b) ==
    LET p == PageOf(b.addr)
    IN  /\ p \in SlabsIn(h)
        /\ b.addr \in SlotsOf(p, h.hdr[p].cache)
        /\ h.hdr[p].cache \in BucketFor(b.size)
LiveInv(h, L) ==
    /\ L \subseteq [addr: Addresses, size: Requests]
    /\ \A b \in L : BlockOf(h, b)
    /\ \A a, b \in L : a.addr = b.addr => a = b
PagesInv(h) ==
    /\ \A p \in SlabsIn(h) : \A v \in SpanIn(h, p) :
          /\ v \in Frames /\ h.hhdm[v] \notin h.pool
          /\ \A x \in h.pool : v < x
    /\ \A p, q \in SlabsIn(h) :
          /\ p # q => SpanIn(h, p) \cap SpanIn(h, q) = {}
          /\ \A v \in SpanIn(h, p), w \in SpanIn(h, q) : v # w => h.hhdm[v] # h.hhdm[w]

HeapInv(h, L) ==
    h \in HeapType /\ HeadersInv(h) /\ ListsInv(h) /\ FreeInv(h, L) /\ LiveInv(h, L) /\ PagesInv(h)

----
\* Facts about frames, slots and lists.

\* Frames are positive numbers, and finitely many.
LEMMA FrameFacts ==
    /\ Frames \subseteq Nat \ {0} /\ NULL \notin Frames /\ IsFiniteSet(Frames)
    /\ FirstPool \subseteq Frames
<1>1. PICK n \in Nat : Frames = 1 .. n
  BY SlabAssumption, FS_CardinalityType
<1>2. IsFiniteSet(Frames)
  BY <1>1, FS_Interval
<1> QED
  BY <1>1, <1>2, SlabAssumption DEF NULL

\* The slots of a slab are SlotsPerSlab distinct addresses of its first page.
LEMMA SlotFacts ==
    ASSUME NEW p \in Frames, NEW c \in Caches
    PROVE  /\ SlotsOf(p, c) \subseteq Addresses /\ NULL \notin SlotsOf(p, c)
           /\ \A x \in SlotsOf(p, c) : PageOf(x) = p /\ x \in Nat
           /\ IsFiniteSet(SlotsOf(p, c)) /\ Cardinality(SlotsOf(p, c)) = SlotsPerSlab(c)
           /\ \A i, j \in 0 .. SlotsPerSlab(c) - 1 :
                 SlotAddr(p, c, i) = SlotAddr(p, c, j) => i = j
<1> DEFINE N == SlotsPerSlab(c)
           B == Buckets[c]
<1>1. p \in Nat /\ N \in Nat \ {0} /\ B \in Nat \ {0} /\ PageBytes \in Nat /\ HeaderBytes \in Nat
  BY FrameFacts, Sizes
<1>2. SlotsOf(p, c) \subseteq Addresses
  BY DEF Addresses
<1>3. ASSUME NEW x \in SlotsOf(p, c) PROVE PageOf(x) = p /\ x \in Nat \ {0}
  <2>1. PICK i \in 0 .. N - 1 : x = SlotAddr(p, c, i)
    BY DEF SlotsOf
  <2> QED
    BY <1>1, <2>1, SlotInPage
<1>4. ASSUME NEW i \in 0 .. N - 1, NEW j \in 0 .. N - 1, SlotAddr(p, c, i) = SlotAddr(p, c, j)
      PROVE  i = j
  <2>1. /\ SlotAddr(p, c, i) = p * PageBytes + HeaderBytes + i * B
        /\ SlotAddr(p, c, j) = p * PageBytes + HeaderBytes + j * B
    BY DEF SlotAddr, PageAddr
  <2> HIDE DEF B, N
  <2>2. /\ i \in Nat /\ j \in Nat /\ i * B \in Nat /\ j * B \in Nat /\ p * PageBytes \in Nat
        /\ i < j => i * B + B <= j * B
        /\ j < i => j * B + B <= i * B
    BY <1>1, Multiples
  <2>3. PICK a \in Nat, x \in Nat, y \in Nat :
           a = p * PageBytes /\ x = i * B /\ y = j * B
    BY <2>2
  <2>4. a + HeaderBytes + x = a + HeaderBytes + y
    BY <1>4, <2>1, <2>3
  <2>5. x = y
    BY <1>1, <2>4
  <2> QED
    BY <1>1, <2>2, <2>3, <2>5
<1>5. IsFiniteSet(SlotsOf(p, c)) /\ Cardinality(SlotsOf(p, c)) = N
  <2> DEFINE f == [i \in 0 .. N - 1 |-> SlotAddr(p, c, i)]
  <2>1. f \in [0 .. N - 1 -> SlotsOf(p, c)]
    BY DEF SlotsOf
  <2>2. \A x \in SlotsOf(p, c) : \E i \in 0 .. N - 1 : f[i] = x
    BY DEF SlotsOf
  <2>3. \A i, j \in 0 .. N - 1 : f[i] = f[j] => i = j
    BY <1>4
  <2> HIDE DEF f
  <2>4. f \in Surjection(0 .. N - 1, SlotsOf(p, c)) /\ f \in Injection(0 .. N - 1, SlotsOf(p, c))
    BY <2>1, <2>2, <2>3 DEF Surjection, Injection, IsInjective
  <2>5. f \in Bijection(0 .. N - 1, SlotsOf(p, c))
    BY <2>4 DEF Bijection
  <2>6. IsFiniteSet(0 .. N - 1) /\ Cardinality(0 .. N - 1) = N
    <3>1. IsFiniteSet(0 .. N - 1) /\ Cardinality(0 .. N - 1) = IF 0 > N - 1 THEN 0 ELSE (N - 1) - 0 + 1
      <4>1. 0 \in Int /\ N - 1 \in Int
        BY <1>1
      <4> HIDE DEF N
      <4> QED
        BY <4>1, FS_Interval
    <3> QED
      BY <1>1, <3>1
  <2>7. ExistsBijection(0 .. N - 1, SlotsOf(p, c))
    BY <2>5 DEF ExistsBijection
  <2> QED
    BY <2>6, <2>7, FS_Bijection
<1> QED
  BY <1>1, <1>2, <1>3, <1>4, <1>5 DEF NULL

\* Walking a chain of slabs from its head meets each of them.
LEMMA WalkMeets ==
    ASSUME NEW h, NEW S, NEW head, S \subseteq Frames, Chained(S, head, NextIn(h))
    PROVE  OnList(h, head) = S /\ Walk(h, head)[Cardinality(Frames)] = NULL
<1> DEFINE C == Cardinality(Frames)
           w == Walk(h, head)
<1>1. C \in Nat /\ IsFiniteSet(Frames)
  BY FrameFacts, FS_CardinalityType
<1>0. PICK n \in Nat : \E s : Linked(n, s, S, head, NextIn(h))
  BY DEF Chained
<1>2. PICK s : Linked(n, s, S, head, NextIn(h))
  BY <1>0
<1>3. n <= C
  <2>1. [i \in 1 .. n |-> s[i]] \in Injection(1 .. n, Frames)
    BY <1>2 DEF Linked, Injection, IsInjective
  <2>2. Cardinality(1 .. n) = n /\ IsFiniteSet(1 .. n)
    <3>1. IsFiniteSet(1 .. n) /\ Cardinality(1 .. n) = IF 1 > n THEN 0 ELSE n - 1 + 1
      BY FS_Interval
    <3> QED
      BY <3>1
  <2>3. Cardinality(1 .. n) <= C
    BY <1>1, <2>1, FS_Injection
  <2> QED
    BY <2>2, <2>3
<1> DEFINE W == [m \in 0 .. C |-> IF m <= n THEN s[m + 1] ELSE NULL]
<1>4. W = [m \in 0 .. C |-> IF m = 0 THEN head
                            ELSE IF W[m-1] = NULL THEN NULL ELSE h.hdr[W[m-1]].next]
  <2> SUFFICES ASSUME NEW m \in 0 .. C
               PROVE  W[m] = IF m = 0 THEN head
                             ELSE IF W[m-1] = NULL THEN NULL ELSE h.hdr[W[m-1]].next
    OBVIOUS
  <2>1. CASE m = 0
    BY <1>2, <2>1 DEF Linked
  <2> HIDE DEF C
  <2>2. CASE m # 0 /\ m <= n
    <3>1. m - 1 \in 0 .. C /\ m \in 1 .. n /\ W[m] = s[m + 1] /\ W[m - 1] = s[m]
      <4>1. m - 1 \in 0 .. C /\ m \in 1 .. n /\ m - 1 <= n /\ (m - 1) + 1 = m
        BY <1>1, <2>2
      <4> QED
        BY <2>2, <4>1
    <3>2. s[m] \in S /\ NextIn(h)[s[m]] = s[m + 1]
      BY <1>2, <3>1 DEF Linked
    <3>3. s[m] # NULL /\ NextIn(h)[s[m]] = h.hdr[s[m]].next
      BY <3>2, FrameFacts DEF NextIn
    <3> HIDE DEF W
    <3> QED
      BY <2>2, <3>1, <3>2, <3>3
  <2>3. CASE m > n
    <3>1. m - 1 \in 0 .. C /\ W[m] = NULL /\ m # 0
      <4>1. m - 1 \in 0 .. C /\ m # 0 /\ ~(m <= n)
        BY <1>1, <1>2, <2>3
      <4> QED
        BY <4>1
    <3>2. W[m - 1] = NULL
      <4>1. CASE m - 1 = n
        <5>1. W[m - 1] = s[n + 1]
          BY <3>1, <4>1
        <5> QED
          BY <1>2, <5>1 DEF Linked
      <4>2. CASE m - 1 # n
        <5>1. ~(m - 1 <= n)
          BY <1>1, <2>3, <4>2
        <5> QED
          BY <3>1, <5>1
      <4> QED
        BY <4>1, <4>2
    <3> HIDE DEF W
    <3> QED
      BY <3>1, <3>2
  <2> QED
    BY <2>1, <2>2, <2>3
<1> HIDE DEF W
<1>5. w = [m \in 0 .. C |-> IF m = 0 THEN head
                            ELSE IF w[m-1] = NULL THEN NULL ELSE h.hdr[w[m-1]].next]
  BY <1>4 DEF Walk
<1> HIDE DEF w
<1> DEFINE Wrong == {m \in 0 .. C : w[m] # W[m]}
<1>6. Wrong = {}
  <2> SUFFICES ASSUME Wrong # {} PROVE FALSE
    OBVIOUS
  <2>1. Wrong \subseteq Nat
    OBVIOUS
  <2> HIDE DEF Wrong
  <2>2. PICK m \in Wrong : \A k \in Wrong : m <= k
    BY <2>1, LeastElement
  <2> USE DEF Wrong
  <2>3. CASE m = 0
    BY <1>4, <1>5, <2>2, <2>3
  <2>4. CASE m # 0
    <3>1. m - 1 \in 0 .. C /\ m - 1 \notin Wrong /\ m \in 0 .. C
      <4>1. m \in 0 .. C
        OBVIOUS
      <4> HIDE DEF C
      <4>2. m - 1 \in 0 .. C /\ ~(m <= m - 1)
        BY <1>1, <2>4, <4>1
      <4> HIDE DEF Wrong
      <4> QED
        BY <2>2, <4>1, <4>2
    <3>2. w[m - 1] = W[m - 1]
      BY <3>1
    <3>3. w[m] = IF w[m-1] = NULL THEN NULL ELSE h.hdr[w[m-1]].next
      BY <1>5, <2>4, <3>1
    <3>4. W[m] = IF W[m-1] = NULL THEN NULL ELSE h.hdr[W[m-1]].next
      BY <1>4, <2>4, <3>1
    <3> QED
      BY <2>2, <3>2, <3>3, <3>4
  <2> QED
    BY <2>3, <2>4
<1>7. \A m \in 0 .. C : w[m] = IF m <= n THEN s[m + 1] ELSE NULL
  BY <1>6 DEF W
<1>8. OnList(h, head) = {w[m] : m \in 0 .. C} \ {NULL}
  BY DEF OnList, w
<1>9. ASSUME NEW x \in S PROVE x \in OnList(h, head)
  <2>1. PICK i \in 1 .. n : s[i] = x
    BY <1>2 DEF Linked
  <2>2. i - 1 \in 0 .. C /\ i - 1 <= n /\ (i - 1) + 1 = i
    BY <1>1, <1>3
  <2>3. w[i - 1] = x
    BY <1>7, <2>1, <2>2
  <2> QED
    BY <1>8, <2>2, <2>3, FrameFacts
<1>10. ASSUME NEW m \in 0 .. C, w[m] # NULL PROVE w[m] \in S
  <2>1. m <= n /\ w[m] = s[m + 1]
    BY <1>7, <1>10
  <2>2. m + 1 \in 1 .. n
    BY <1>2, <1>10, <2>1 DEF Linked
  <2> QED
    BY <1>2, <2>1, <2>2 DEF Linked
<1>11. w[C] = NULL
  <2>1. C \in 0 .. C
    BY <1>1
  <2>2. C <= n => C = n
    BY <1>1, <1>3
  <2> QED
    BY <1>2, <1>7, <2>1, <2>2 DEF Linked
<1> QED
  BY <1>8, <1>9, <1>10, <1>11 DEF w

----
\* What the operations do to the data, field by field.

\* The header of slab s after a change of its list, free list and counter.
Changed(h, s, next, free, used) ==
    [h.hdr EXCEPT ![s] = [cache |-> h.hdr[s].cache, next |-> next, free |-> free, used |-> used,
                          total |-> h.hdr[s].total]]

\* Changing the next field afterwards is the same as writing another one.
LEMMA RelinkChanged ==
    ASSUME NEW h, h.hdr \in [Frames -> HeaderType], NEW s \in Frames,
           NEW next, NEW free, NEW used, NEW old, old = Changed(h, s, next, free, used),
           NEW n2
    PROVE  [old EXCEPT ![s].next = n2] = Changed(h, s, n2, free, used)
<1> DEFINE r == [cache |-> h.hdr[s].cache, next |-> next, free |-> free, used |-> used,
                 total |-> h.hdr[s].total]
<1>1. [r EXCEPT !.next = n2] = [cache |-> h.hdr[s].cache, next |-> n2, free |-> free, used |-> used,
                                total |-> h.hdr[s].total]
  OBVIOUS
<1>2. old = [h.hdr EXCEPT ![s] = r]
  BY DEF Changed
<1> HIDE DEF r
<1>3. [[h.hdr EXCEPT ![s] = r] EXCEPT ![s].next = n2] = [h.hdr EXCEPT ![s] = [r EXCEPT !.next = n2]]
  OBVIOUS
<1>4. [old EXCEPT ![s].next = n2] = [[h.hdr EXCEPT ![s] = r] EXCEPT ![s].next = n2]
  BY <1>2
<1> QED
  BY <1>1, <1>3, <1>4 DEF Changed

\* g is h's headers with these fields in slab s.
Rewritten(h, g, s, next, free, used) ==
    /\ g \in [Frames -> HeaderType]
    /\ g[s].next = next /\ g[s].free = free /\ g[s].used = used
    /\ g[s].cache = h.hdr[s].cache /\ g[s].total = h.hdr[s].total
    /\ \A p \in Frames \ {s} : g[p] = h.hdr[p]

\* What Changed changes and what it keeps.
LEMMA ChangedFields ==
    ASSUME NEW h, h.hdr \in [Frames -> HeaderType], NEW s \in Frames,
           NEW next \in Frames \cup {NULL}, NEW free \in Addresses \cup {NULL}, NEW used \in Nat
    PROVE  Rewritten(h, Changed(h, s, next, free, used), s, next, free, used)
<1> DEFINE r == [cache |-> h.hdr[s].cache, next |-> next, free |-> free, used |-> used,
                 total |-> h.hdr[s].total]
           f == [h.hdr EXCEPT ![s] = r]
<1>1. r \in HeaderType
  BY DEF HeaderType
<1>2. r.next = next /\ r.free = free /\ r.used = used /\ r.cache = h.hdr[s].cache
      /\ r.total = h.hdr[s].total
  OBVIOUS
<1> HIDE DEF r
<1>3. f \in [Frames -> HeaderType] /\ f[s] = r /\ \A p \in Frames \ {s} : f[p] = h.hdr[p]
  BY <1>1
<1>4. Changed(h, s, next, free, used) = f
  BY DEF Changed, r
<1> HIDE DEF f
<1> QED
  BY <1>2, <1>3, <1>4 DEF Rewritten

\* slab_alloc's pop, field by field, with the move to the full list of a slab it fills.
LEMMA TakeSlotShape ==
    ASSUME NEW h \in HeapType, NEW c \in Caches, h.partial[c] # NULL
    PROVE  LET s    == h.partial[c]
               free == h.word[h.hdr[s].free]
               used == h.hdr[s].used + 1
               k    == TakeSlot(h, c)
           IN  /\ k.word = h.word /\ k.pool = h.pool /\ k.hhdm = h.hhdm
               /\ DOMAIN k = {"partial", "full", "hdr", "word", "pool", "hhdm"}
               /\ IF used = h.hdr[s].total
                  THEN /\ k.hdr = Changed(h, s, h.full[c], free, used)
                       /\ k.partial = [h.partial EXCEPT ![c] = h.hdr[s].next]
                       /\ k.full = [h.full EXCEPT ![c] = s]
                  ELSE /\ k.hdr = Changed(h, s, h.hdr[s].next, free, used)
                       /\ k.partial = h.partial /\ k.full = h.full
<1> DEFINE s == h.partial[c]
           free == h.word[h.hdr[s].free]
           used == h.hdr[s].used + 1
           h1 == [h EXCEPT !.hdr[s].free = free, !.hdr[s].used = @ + 1]
<1>1. s \in Frames /\ h.hdr[s] \in HeaderType /\ h.hdr \in [Frames -> HeaderType]
      /\ h.partial \in [Caches -> Frames \cup {NULL}] /\ h.full \in [Caches -> Frames \cup {NULL}]
  BY DEF HeapType
<1>2. /\ h1.partial = h.partial /\ h1.full = h.full /\ h1.word = h.word /\ h1.pool = h.pool
      /\ h1.hhdm = h.hhdm /\ h1.hdr = Changed(h, s, h.hdr[s].next, free, used)
      /\ DOMAIN h1 = {"partial", "full", "hdr", "word", "pool", "hhdm"}
  BY <1>1 DEF HeapType, HeaderType, Changed
<1>3. TakeSlot(h, c) = IF h1.hdr[s].used = h1.hdr[s].total THEN move_slab_to_full(h1, c, s) ELSE h1
  BY DEF TakeSlot
<1> HIDE DEF h1
<1>4. h1.hdr[s].used = used /\ h1.hdr[s].total = h.hdr[s].total /\ h1.hdr[s].next = h.hdr[s].next
  BY <1>1, <1>2 DEF Changed
<1>5. CASE used = h.hdr[s].total
  <2> DEFINE h2 == [h1 EXCEPT !.partial[c] = h1.hdr[s].next]
  <2>1. remove_slab_from_list(h1, "partial", c, s) = h2
    BY <1>2 DEF remove_slab_from_list
  <2>2. /\ h2.partial = [h.partial EXCEPT ![c] = h.hdr[s].next] /\ h2.full = h.full
        /\ h2.word = h.word /\ h2.pool = h.pool /\ h2.hhdm = h.hhdm /\ h2.hdr = h1.hdr
        /\ DOMAIN h2 = {"partial", "full", "hdr", "word", "pool", "hhdm"}
    BY <1>2, <1>4
  <2> HIDE DEF h2
  <2> DEFINE h3 == [h2 EXCEPT !.hdr[s].next = h2.full[c], !.full[c] = s]
  <2>3. TakeSlot(h, c) = h3
    BY <1>3, <1>4, <1>5, <2>1 DEF move_slab_to_full, push
  <2>4. /\ h3.partial = h2.partial /\ h3.full = [h2.full EXCEPT ![c] = s]
        /\ h3.word = h2.word /\ h3.pool = h2.pool /\ h3.hhdm = h2.hhdm
        /\ h3.hdr = [h2.hdr EXCEPT ![s].next = h2.full[c]]
        /\ DOMAIN h3 = {"partial", "full", "hdr", "word", "pool", "hhdm"}
    BY <2>2
  <2> HIDE DEF h3
  <2>5. h3.hdr = Changed(h, s, h.full[c], free, used)
    <3>1. h2.hdr = Changed(h, s, h.hdr[s].next, free, used) /\ h2.full[c] = h.full[c]
      BY <1>2, <2>2
    <3> HIDE DEF free, used, s
    <3>2. [h2.hdr EXCEPT ![s].next = h2.full[c]] = Changed(h, s, h2.full[c], free, used)
      BY <1>1, <3>1, RelinkChanged
    <3> QED
      BY <2>4, <3>1, <3>2
  <2> QED
    BY <1>5, <2>2, <2>3, <2>4, <2>5
<1>6. CASE used # h.hdr[s].total
  BY <1>2, <1>3, <1>4, <1>6
<1> QED
  BY <1>5, <1>6

\* m is k after the bytes of block b were written.
Wrote(k, b, m) ==
    /\ m.partial = k.partial /\ m.full = k.full /\ m.hdr = k.hdr
    /\ m.pool = k.pool /\ m.hhdm = k.hhdm
    /\ m = [partial |-> m.partial, full |-> m.full, hdr |-> m.hdr, word |-> m.word,
            pool |-> m.pool, hhdm |-> m.hhdm]
    /\ m.word \in [Addresses -> Pointer]
    /\ \A x \in Addresses : x \notin b.addr .. b.addr + b.size - 1 => m.word[x] = k.word[x]

\* A caller's bytes change words of its block only.
LEMMA FilledShape ==
    ASSUME NEW k, k.word \in [Addresses -> Pointer],
           DOMAIN k = {"partial", "full", "hdr", "word", "pool", "hhdm"},
           NEW b
    PROVE  Wrote(k, b, Filled(k, b))
<1> DEFINE bytes == b.addr .. b.addr + b.size - 1
           W == Override(k.word, [a \in bytes |-> Data])
           f == [k EXCEPT !.word = W]
<1>1. Filled(k, b) = f
  BY DEF Filled
<1>2. W = [x \in Addresses |-> IF x \in bytes THEN Data ELSE k.word[x]]
  BY DEF Override
<1>3. W \in [Addresses -> Pointer]
  BY <1>2 DEF Pointer
<1> HIDE DEF W
<1>4. /\ f.partial = k.partial /\ f.full = k.full /\ f.hdr = k.hdr
      /\ f.pool = k.pool /\ f.hhdm = k.hhdm /\ f.word = W
      /\ f = [partial |-> f.partial, full |-> f.full, hdr |-> f.hdr, word |-> f.word,
              pool |-> f.pool, hhdm |-> f.hhdm]
  OBVIOUS
<1> HIDE DEF f
<1> QED
  BY <1>1, <1>2, <1>3, <1>4 DEF Wrote

----
\* What depends on the counters and the caches only.

\* h and k agree on the caches and the sizes of the slabs.
SameSlabs(h, k) ==
    \A p \in Frames : k.hdr[p].cache = h.hdr[p].cache /\ k.hdr[p].total = h.hdr[p].total

\* Slabs, spans, free slots and pages depend on caches and sizes only.
LEMMA SlabsKept ==
    ASSUME NEW h, NEW k, SameSlabs(h, k)
    PROVE  /\ SlabsIn(k) = SlabsIn(h)
           /\ \A p \in Frames : SpanIn(k, p) = SpanIn(h, p)
           /\ \A p \in Frames : \A L : FreeIn(k, L, p) = FreeIn(h, L, p)
           /\ PagesInv(h) /\ k.pool = h.pool /\ k.hhdm = h.hhdm => PagesInv(k)
<1>1. SlabsIn(k) = SlabsIn(h)
  BY DEF SameSlabs, SlabsIn
<1>2. \A p \in Frames : SpanIn(k, p) = SpanIn(h, p)
  BY DEF SameSlabs, SpanIn
<1>3. \A p \in Frames : \A L : FreeIn(k, L, p) = FreeIn(h, L, p)
  BY DEF SameSlabs, FreeIn
<1>4. PagesInv(h) /\ k.pool = h.pool /\ k.hhdm = h.hhdm => PagesInv(k)
  <2>1. SlabsIn(h) \subseteq Frames
    BY DEF SlabsIn
  <2> QED
    BY <1>1, <1>2, <2>1 DEF PagesInv
<1> QED
  BY <1>1, <1>2, <1>3, <1>4

\* A block of another slab, or of another slot of its slab, does not touch a slot.
LEMMA BlocksMissSlots ==
    ASSUME RequestsFit, NEW h \in HeapType, PagesInv(h), NEW p \in SlabsIn(h), NEW q \in SlabsIn(h),
           NEW size \in Requests, h.hdr[p].cache \in BucketFor(size),
           NEW a \in SlotsOf(p, h.hdr[p].cache), NEW x \in SlotsOf(q, h.hdr[q].cache), x # a
    PROVE  x \notin a .. a + size - 1
<1>1. p \in Frames /\ q \in Frames /\ h.hdr[p].cache \in Caches
  BY DEF SlabsIn, BucketFor
<1>2. SUFFICES ASSUME x \in a .. a + size - 1 PROVE FALSE
  OBVIOUS
<1>3. PageOf(x) \in SpanIn(h, p)
  BY <1>1, <1>2, FrameFacts, BlockInSpan DEF SpanIn
<1>4. CASE p = q
  <2>1. x + Buckets[h.hdr[p].cache] <= a \/ a + Buckets[h.hdr[p].cache] <= x
    BY <1>1, <1>4, FrameFacts, SlotsApart
  <2>2. size <= Buckets[h.hdr[p].cache] /\ Buckets[h.hdr[p].cache] \in Nat \ {0} /\ size \in Nat
    BY <1>1, Sizes, SlabAssumption DEF BucketFor
  <2>3. x \in Nat /\ a \in Nat
    BY <1>1, <1>4, SlotFacts
  <2> QED
    BY <1>2, <2>1, <2>2, <2>3
<1>5. CASE p # q
  <2>1. h.hdr[q].cache \in Caches
    BY DEF SlabsIn, HeapType, HeaderType
  <2>2. PageOf(x) = q
    BY <1>1, <2>1, SlotFacts
  <2>3. q \in SpanIn(h, q)
    <3>1. q \in Nat /\ PagesPerSlab(h.hdr[q].cache) \in Nat \ {0}
      BY <1>1, <2>1, FrameFacts, Sizes
    <3> QED
      BY <3>1 DEF SpanIn
  <2> QED
    BY <1>3, <1>5, <2>2, <2>3 DEF PagesInv
<1> QED
  BY <1>4, <1>5

----
\* kmalloc.

\* So do the blocks in use.
LEMMA LiveKept ==
    ASSUME NEW h, NEW k, SameSlabs(h, k), NEW L, LiveInv(h, L)
    PROVE  LiveInv(k, L)
<1>1. SlabsIn(k) = SlabsIn(h) /\ SlabsIn(h) \subseteq Frames
  BY SlabsKept DEF SlabsIn
<1>2. \A b \in L : BlockOf(k, b)
  BY <1>1 DEF LiveInv, BlockOf, SameSlabs
<1> QED
  BY <1>2 DEF LiveInv

\* A block more.
LEMMA LiveGrows ==
    ASSUME NEW h, NEW L, LiveInv(h, L), NEW b \in [addr: Addresses, size: Requests],
           BlockOf(h, b), b.addr \notin AddrsOf(L)
    PROVE  LiveInv(h, L \cup {b})
<1>1. \A x \in L : x.addr # b.addr
  BY DEF AddrsOf
<1> QED
  BY <1>1 DEF LiveInv

\* The slab kmalloc takes a slot from.
LEMMA HeadSlab ==
    ASSUME NEW h, NEW L, HeapInv(h, L), NEW c \in Caches, h.partial[c] # NULL
    PROVE  LET s == h.partial[c]
               a == h.hdr[s].free
           IN  /\ s \in Frames /\ s \in SlabsIn(h) /\ h.hdr[s].cache = c /\ s \in Roomy(h, c)
               /\ h.hdr[s].used \in Nat /\ h.hdr[s].total \in Nat
               /\ h.hdr[s].used + 1 <= h.hdr[s].total
               /\ a \in FreeIn(h, L, s) /\ a \in SlotsOf(s, c) /\ a \in Addresses
               /\ a # NULL /\ PageOf(a) = s
               /\ h.word[a] \in FreeIn(h, L, s) \cup {NULL}
               /\ h.word[a] \in Addresses \cup {NULL}
<1> DEFINE s == h.partial[c]
           a == h.hdr[s].free
<1>1. c # 0 /\ h \in HeapType
  BY Sizes DEF HeapInv
<1>2. s \in Roomy(h, c)
  BY ChainHead DEF HeapInv, ListsInv
<1>3. s \in Frames /\ s \in SlabsIn(h) /\ h.hdr[s].cache = c /\ h.hdr[s].used # h.hdr[s].total
  BY <1>1, <1>2 DEF Roomy, SlabsIn
<1>4. h.hdr[s].used \in Nat /\ h.hdr[s].total \in Nat /\ h.hdr[s].used <= h.hdr[s].total
  BY <1>1, <1>3 DEF HeapInv, HeadersInv, HeapType, HeaderType
<1>5. Chained(FreeIn(h, L, s), a, h.word)
      /\ Cardinality(FreeIn(h, L, s)) = h.hdr[s].total - h.hdr[s].used
  BY <1>3 DEF HeapInv, FreeInv
<1>6. h.hdr[s].used + 1 <= h.hdr[s].total /\ Cardinality(FreeIn(h, L, s)) # 0
  BY <1>3, <1>4, <1>5
<1>7. FreeIn(h, L, s) # {}
  BY <1>6, FS_EmptySet
<1>8. a \in FreeIn(h, L, s) /\ h.word[a] \in FreeIn(h, L, s) \cup {NULL}
  BY <1>5, <1>7, ChainHead
<1>9. FreeIn(h, L, s) \subseteq SlotsOf(s, c) /\ SlotsOf(s, c) \subseteq Addresses
      /\ PageOf(a) = s /\ NULL \notin SlotsOf(s, c)
  BY <1>3, <1>8, SlotFacts DEF FreeIn
<1> QED
  BY <1>2, <1>3, <1>4, <1>6, <1>8, <1>9

\* The free slots of a slab are finitely many addresses of its page.
LEMMA SlabFinite ==
    ASSUME NEW h, h \in HeapType, NEW L, NEW p \in SlabsIn(h)
    PROVE  /\ p \in Frames /\ h.hdr[p].cache \in Caches
           /\ SlotsOf(p, h.hdr[p].cache) \subseteq Addresses
           /\ \A x \in SlotsOf(p, h.hdr[p].cache) : PageOf(x) = p /\ x \in Nat /\ x # NULL
           /\ FreeIn(h, L, p) \subseteq SlotsOf(p, h.hdr[p].cache)
           /\ IsFiniteSet(FreeIn(h, L, p))
           /\ Cardinality(SlotsOf(p, h.hdr[p].cache)) = SlotsPerSlab(h.hdr[p].cache)
           /\ IsFiniteSet(SlotsOf(p, h.hdr[p].cache))
<1>1. p \in Frames /\ h.hdr[p].cache \in Caches
  BY DEF SlabsIn, HeapType, HeaderType
<1>2. FreeIn(h, L, p) \subseteq SlotsOf(p, h.hdr[p].cache)
  BY DEF FreeIn
<1> QED
  BY <1>1, <1>2, SlotFacts, FS_Subset

\* Slab s heads the partial list of cache c, its slot a becomes block b; k and m are what
\* TakeSlot and the caller's writes make of h.
Taking(h, L, size, c, s, a, b, k, m) ==
    /\ HeapInv(h, L) /\ size \in Requests /\ c \in BucketFor(size)
    /\ s = h.partial[c] /\ s # NULL /\ a = h.hdr[s].free
    /\ b = [addr |-> a, size |-> size]
    /\ k = TakeSlot(h, c) /\ m = Filled(k, b)

\* kmalloc from the head of the partial list keeps the invariant.
LEMMA TakeKeeps ==
    ASSUME RequestsFit, NEW h, NEW L, NEW size, NEW c, NEW s, NEW a, NEW b, NEW k, NEW m,
           Taking(h, L, size, c, s, a, b, k, m)
    PROVE  HeapInv(m, L \cup {b})
<1> DEFINE used == h.hdr[s].used + 1
           total == h.hdr[s].total
<1>0. b \in [addr: {a}, size: Requests] /\ b.addr = a /\ b.size = size /\ size \in Requests
      /\ c \in BucketFor(size)
  BY DEF Taking
<1>1. c \in Caches /\ c # 0
  BY <1>0, Sizes DEF BucketFor
<1>2. h \in HeapType /\ HeadersInv(h) /\ ListsInv(h) /\ FreeInv(h, L) /\ LiveInv(h, L) /\ PagesInv(h)
  BY DEF HeapInv, Taking
<1>3. /\ s \in Frames /\ s \in SlabsIn(h) /\ h.hdr[s].cache = c /\ s \in Roomy(h, c)
      /\ h.hdr[s].used \in Nat /\ total \in Nat /\ used <= total
      /\ a \in FreeIn(h, L, s) /\ a \in SlotsOf(s, c) /\ a \in Addresses
      /\ a # NULL /\ PageOf(a) = s
      /\ h.word[a] \in FreeIn(h, L, s) \cup {NULL} /\ h.word[a] \in Addresses \cup {NULL}
  BY <1>1, HeadSlab DEF Taking
<1>4. /\ k.word = h.word /\ k.pool = h.pool /\ k.hhdm = h.hhdm
      /\ DOMAIN k = {"partial", "full", "hdr", "word", "pool", "hhdm"}
      /\ IF used = total
         THEN /\ k.hdr = Changed(h, s, h.full[c], h.word[a], used)
              /\ k.partial = [h.partial EXCEPT ![c] = h.hdr[s].next]
              /\ k.full = [h.full EXCEPT ![c] = s]
         ELSE /\ k.hdr = Changed(h, s, h.hdr[s].next, h.word[a], used)
              /\ k.partial = h.partial /\ k.full = h.full
  BY <1>1, <1>2, TakeSlotShape DEF Taking
<1>5. h.word \in [Addresses -> Pointer] /\ h.hdr \in [Frames -> HeaderType] /\ h.hdr[s] \in HeaderType
      /\ h.partial \in [Caches -> Frames \cup {NULL}] /\ h.full \in [Caches -> Frames \cup {NULL}]
      /\ h.pool \in SUBSET FirstPool /\ h.hhdm \in [Frames -> Frames]
  BY <1>2, <1>3 DEF HeapType
<1>6. /\ m.partial = k.partial /\ m.full = k.full /\ m.hdr = k.hdr
      /\ m.pool = k.pool /\ m.hhdm = k.hhdm
      /\ m = [partial |-> m.partial, full |-> m.full, hdr |-> m.hdr, word |-> m.word,
              pool |-> m.pool, hhdm |-> m.hhdm]
      /\ m.word \in [Addresses -> Pointer]
      /\ \A x \in Addresses : x \notin a .. a + size - 1 => m.word[x] = h.word[x]
  <2>1. m = Filled(k, b)
    BY DEF Taking
  <2>2. k.word \in [Addresses -> Pointer]
    BY <1>4, <1>5
  <2>3. Wrote(k, b, Filled(k, b))
    BY <1>4, <2>2, FilledShape
  <2> QED
    BY <1>0, <1>4, <2>1, <2>3 DEF Wrote
<1> DEFINE next == IF used = total THEN h.full[c] ELSE h.hdr[s].next
<1>7. /\ next \in Frames \cup {NULL} /\ m.hdr = Changed(h, s, next, h.word[a], used)
      /\ m.partial = IF used = total THEN [h.partial EXCEPT ![c] = h.hdr[s].next] ELSE h.partial
      /\ m.full = IF used = total THEN [h.full EXCEPT ![c] = s] ELSE h.full
  <2>1. h.hdr[s].next \in Frames \cup {NULL} /\ h.full[c] \in Frames \cup {NULL}
    BY <1>1, <1>5 DEF HeaderType
  <2> QED
    BY <1>4, <1>6, <2>1
<1> HIDE DEF next
<1>8. /\ m.hdr \in [Frames -> HeaderType]
      /\ m.hdr[s].free = h.word[a] /\ m.hdr[s].used = used /\ m.hdr[s].next = next
      /\ m.hdr[s].total = total /\ m.hdr[s].cache = c
      /\ \A p \in Frames \ {s} : m.hdr[p] = h.hdr[p]
  <2>1. used \in Nat
    BY <1>3
  <2> HIDE DEF used, total
  <2>2. h.hdr \in [Frames -> HeaderType] /\ s \in Frames /\ next \in Frames \cup {NULL}
        /\ h.word[a] \in Addresses \cup {NULL} /\ m.hdr = Changed(h, s, next, h.word[a], used)
    BY <1>3, <1>5, <1>7
  <2>3. Rewritten(h, Changed(h, s, next, h.word[a], used), s, next, h.word[a], used)
    BY <2>1, <2>2, ChangedFields
  <2> QED
    BY <1>3, <2>2, <2>3 DEF Rewritten, total
<1>9. SameSlabs(h, m)
  BY <1>3, <1>8 DEF SameSlabs
<1> DEFINE K == L \cup {b}
<1>10. m \in HeapType
  <2>1. k.partial \in [Caches -> Frames \cup {NULL}] /\ k.full \in [Caches -> Frames \cup {NULL}]
    BY <1>1, <1>3, <1>4, <1>5 DEF HeaderType
  <2> QED
    BY <1>4, <1>5, <1>6, <1>8, <2>1 DEF HeapType
<1>11. HeadersInv(m)
  <2> SUFFICES ASSUME NEW p \in Frames
               PROVE  IF m.hdr[p].cache = 0 THEN m.hdr[p] = NoHeader
                      ELSE m.hdr[p].total = SlotsPerSlab(m.hdr[p].cache)
                           /\ m.hdr[p].used <= m.hdr[p].total
    BY DEF HeadersInv
  <2>1. CASE p = s
    BY <1>1, <1>2, <1>3, <1>8, <2>1 DEF HeadersInv
  <2>2. CASE p # s
    BY <1>2, <1>8, <2>2 DEF HeadersInv
  <2> QED
    BY <2>1, <2>2
<1>12. ListsInv(m)
  <2> SUFFICES ASSUME NEW d \in Caches
               PROVE  /\ Chained(Roomy(m, d), m.partial[d], NextIn(m))
                      /\ Chained(Crowded(m, d), m.full[d], NextIn(m))
    BY DEF ListsInv
  <2>0. /\ Chained(Roomy(h, d), h.partial[d], NextIn(h))
        /\ Chained(Crowded(h, d), h.full[d], NextIn(h))
    BY <1>2 DEF ListsInv
  <2>1. /\ \A p \in Frames : NextIn(m)[p] = m.hdr[p].next /\ NextIn(h)[p] = h.hdr[p].next
        /\ \A p \in Frames \ {s} : NextIn(m)[p] = NextIn(h)[p]
    BY <1>8 DEF NextIn
  <2>2. Roomy(h, d) \subseteq Frames /\ Crowded(h, d) \subseteq Frames
    BY DEF Roomy, Crowded
  <2>3. CASE used = total /\ d = c
    <3>1. /\ m.partial[d] = h.hdr[s].next /\ m.full[d] = s /\ m.hdr[s].next = h.full[d]
      BY <1>1, <1>5, <1>7, <1>8, <2>3 DEF next
    <3>2. Roomy(m, d) = Roomy(h, d) \ {s} /\ Crowded(m, d) = Crowded(h, d) \cup {s}
          /\ s \notin Crowded(h, d)
      BY <1>3, <1>8, <2>3 DEF Roomy, Crowded
    <3>3. Chained(Roomy(h, d) \ {s}, NextIn(h)[s], NextIn(m))
      <4>1. \A y \in Roomy(h, d) \ {s} : NextIn(m)[y] = NextIn(h)[y]
        BY <2>1, <2>2
      <4>2. s # NULL /\ Chained(Roomy(h, d), s, NextIn(h))
        BY <2>0, <2>3 DEF Taking
      <4> QED
        BY <4>1, <4>2, PopChain
    <3>4. Chained(Crowded(h, d) \cup {s}, s, NextIn(m))
      <4>1. NextIn(m)[s] = h.full[d] /\ \A y \in Crowded(h, d) : NextIn(m)[y] = NextIn(h)[y]
        BY <1>3, <2>1, <2>2, <3>1, <3>2
      <4> QED
        BY <1>3, <2>0, <3>2, <4>1, PushChain, FrameFacts
    <3> QED
      BY <1>3, <2>1, <3>1, <3>2, <3>3, <3>4
  <2>4. CASE used = total /\ d # c
    <3>1. m.partial[d] = h.partial[d] /\ m.full[d] = h.full[d]
      BY <1>5, <1>7, <2>4
    <3>2. Roomy(m, d) = Roomy(h, d) /\ Crowded(m, d) = Crowded(h, d)
          /\ s \notin Crowded(h, d) /\ s \notin Roomy(h, d)
      BY <1>3, <1>8, <2>4 DEF Roomy, Crowded
    <3> QED
      BY <2>0, <2>1, <2>2, <3>1, <3>2, SameChain
  <2>5. CASE used # total
    <3>1. m.partial[d] = h.partial[d] /\ m.full[d] = h.full[d] /\ m.hdr[s].next = h.hdr[s].next
      BY <1>7, <1>8, <2>5 DEF next
    <3>2. Roomy(m, d) = Roomy(h, d) /\ Crowded(m, d) = Crowded(h, d)
      BY <1>3, <1>8, <2>5 DEF Roomy, Crowded
    <3>3. \A p \in Frames : NextIn(m)[p] = NextIn(h)[p]
      BY <1>3, <2>1, <3>1
    <3> QED
      BY <2>0, <2>2, <3>1, <3>2, <3>3, SameChain
  <2> QED
    BY <2>3, <2>4, <2>5
<1>13. LiveInv(m, K)
  <2>1. LiveInv(m, L)
    BY <1>2, <1>9, LiveKept
  <2>2. BlockOf(m, b)
    BY <1>0, <1>3, <1>8, <1>9, SlabsKept DEF BlockOf
  <2>3. a \notin AddrsOf(L)
    BY <1>3 DEF FreeIn
  <2> QED
    BY <1>0, <1>3, <2>1, <2>2, <2>3, LiveGrows
<1>14. FreeInv(m, K)
  <2> SUFFICES ASSUME NEW p \in SlabsIn(m)
               PROVE  /\ Chained(FreeIn(m, K, p), m.hdr[p].free, m.word)
                      /\ Cardinality(FreeIn(m, K, p)) = m.hdr[p].total - m.hdr[p].used
    BY DEF FreeInv
  <2>1. p \in SlabsIn(h) /\ FreeIn(m, K, p) = FreeIn(h, K, p)
    <3>1. p \in Frames
      BY DEF SlabsIn
    <3> QED
      BY <1>9, <3>1, SlabsKept
  <2>2. /\ p \in Frames /\ h.hdr[p].cache \in Caches /\ SlotsOf(p, h.hdr[p].cache) \subseteq Addresses
        /\ \A x \in SlotsOf(p, h.hdr[p].cache) : PageOf(x) = p
        /\ FreeIn(h, L, p) \subseteq SlotsOf(p, h.hdr[p].cache) /\ IsFiniteSet(FreeIn(h, L, p))
    BY <1>2, <2>1, SlabFinite
  <2>3. FreeIn(h, K, p) = FreeIn(h, L, p) \ {a}
    <3>1. AddrsOf(K) = AddrsOf(L) \cup {a}
      BY <1>0 DEF AddrsOf
    <3> QED
      BY <3>1 DEF FreeIn
  <2>4. \A x \in FreeIn(h, L, p) \ {a} : m.word[x] = h.word[x]
    <3> SUFFICES ASSUME NEW x \in FreeIn(h, L, p) \ {a} PROVE m.word[x] = h.word[x]
      OBVIOUS
    <3>1. x \notin a .. a + size - 1
      BY <1>0, <1>2, <1>3, <2>1, <2>2, BlocksMissSlots
    <3> QED
      BY <1>6, <2>2, <3>1
  <2>5. Chained(FreeIn(h, L, p), h.hdr[p].free, h.word)
        /\ Cardinality(FreeIn(h, L, p)) = h.hdr[p].total - h.hdr[p].used
    BY <1>2, <2>1 DEF FreeInv
  <2>6. CASE p = s
    <3>1. Chained(FreeIn(h, L, s) \ {a}, h.word[a], m.word)
      <4>1. a # NULL /\ Chained(FreeIn(h, L, s), a, h.word)
        BY <1>3, <2>5, <2>6 DEF Taking
      <4>2. \A x \in FreeIn(h, L, s) \ {a} : m.word[x] = h.word[x]
        BY <2>4, <2>6
      <4> QED
        BY <4>1, <4>2, PopChain
    <3>2. Cardinality(FreeIn(h, L, s) \ {a}) = Cardinality(FreeIn(h, L, s)) - 1
      BY <1>3, <2>2, <2>6, FS_RemoveElement
    <3>3. (total - h.hdr[s].used) - 1 = total - used
      BY <1>3
    <3> QED
      BY <1>8, <2>1, <2>3, <2>5, <2>6, <3>1, <3>2, <3>3
  <2>7. CASE p # s
    <3>1. FreeIn(h, L, p) \ {a} = FreeIn(h, L, p)
      BY <1>3, <2>2, <2>7
    <3>2. Chained(FreeIn(h, L, p), h.hdr[p].free, m.word)
      BY <2>4, <2>5, <3>1, SameChain
    <3> QED
      BY <1>8, <2>1, <2>2, <2>3, <2>5, <2>7, <3>1, <3>2
  <2> QED
    BY <2>6, <2>7
<1>15. PagesInv(m)
  BY <1>2, <1>4, <1>6, <1>9, SlabsKept
<1> HIDE DEF K
<1> QED
  BY <1>10, <1>11, <1>12, <1>13, <1>14, <1>15 DEF HeapInv, K

----
\* kfree.

\* g is the headers f with another successor of slab s.
Relinked(f, g, s, next) ==
    /\ g \in [Frames -> HeaderType]
    /\ \A p \in Frames :
          /\ g[p].cache = f[p].cache /\ g[p].free = f[p].free /\ g[p].used = f[p].used
          /\ g[p].total = f[p].total /\ g[p].next = IF p = s THEN next ELSE f[p].next

\* What Relinked says of an assignment to next.
LEMMA Relinking ==
    ASSUME NEW f \in [Frames -> HeaderType], NEW s \in Frames, NEW next \in Frames \cup {NULL}
    PROVE  Relinked(f, [f EXCEPT ![s].next = next], s, next)
<1> DEFINE r == [f[s] EXCEPT !.next = next]
           g == [f EXCEPT ![s] = r]
<1>1. /\ r \in HeaderType /\ r.next = next
      /\ r.cache = f[s].cache /\ r.free = f[s].free /\ r.used = f[s].used /\ r.total = f[s].total
  BY DEF HeaderType
<1>2. [f EXCEPT ![s].next = next] = g
  OBVIOUS
<1> HIDE DEF r
<1>3. g \in [Frames -> HeaderType] /\ g[s] = r /\ \A p \in Frames \ {s} : g[p] = f[p]
  BY <1>1
<1> HIDE DEF g
<1> QED
  BY <1>1, <1>2, <1>3 DEF Relinked

\* h and k agree on all but headers and lists.
SameMemory(h, k) == k.word = h.word /\ k.pool = h.pool /\ k.hhdm = h.hhdm

\* push, field by field.
LEMMA PushShape ==
    ASSUME NEW h \in HeapType, NEW c \in Caches, NEW s \in Frames
    PROVE  LET k == push(h, "partial", c, s)
           IN  /\ k \in HeapType /\ SameMemory(h, k) /\ k.full = h.full
               /\ k.partial = [h.partial EXCEPT ![c] = s]
               /\ Relinked(h.hdr, k.hdr, s, h.partial[c])
<1> DEFINE H == [h.hdr EXCEPT ![s].next = h.partial[c]]
           P == [h.partial EXCEPT ![c] = s]
           k == [h EXCEPT !.hdr = H, !.partial = P]
<1>1. push(h, "partial", c, s) = k
  BY DEF push, HeapType
<1>2. Relinked(h.hdr, H, s, h.partial[c])
  BY Relinking DEF HeapType
<1>3. P \in [Caches -> Frames \cup {NULL}] /\ H \in [Frames -> HeaderType]
  BY <1>2 DEF HeapType, Relinked
<1> HIDE DEF H, P
<1>4. k \in HeapType /\ k.hdr = H /\ k.partial = P /\ k.full = h.full /\ SameMemory(h, k)
  BY <1>3 DEF HeapType, SameMemory
<1> HIDE DEF k
<1> QED
  BY <1>1, <1>2, <1>4 DEF P

\* remove_slab_from_list of the head, field by field.
LEMMA RemoveHeadShape ==
    ASSUME NEW h \in HeapType, NEW c \in Caches, NEW s \in Frames, h.full[c] = s
    PROVE  LET k == remove_slab_from_list(h, "full", c, s)
           IN  /\ k \in HeapType /\ SameMemory(h, k) /\ k.partial = h.partial /\ k.hdr = h.hdr
               /\ k.full = [h.full EXCEPT ![c] = h.hdr[s].next]
<1> DEFINE F == [h.full EXCEPT ![c] = h.hdr[s].next]
           k == [h EXCEPT !.full = F]
<1>1. remove_slab_from_list(h, "full", c, s) = k
  BY DEF remove_slab_from_list, HeapType
<1>2. F \in [Caches -> Frames \cup {NULL}]
  BY DEF HeapType, HeaderType
<1> HIDE DEF F
<1>3. k \in HeapType /\ k.full = F /\ k.partial = h.partial /\ k.hdr = h.hdr /\ SameMemory(h, k)
  BY <1>2 DEF HeapType, SameMemory
<1> HIDE DEF k
<1> QED
  BY <1>1, <1>3 DEF F

\* remove_slab_from_list of a slab behind p, field by field.
LEMMA RemoveBehindShape ==
    ASSUME NEW h \in HeapType, NEW c \in Caches, NEW s \in Frames, h.full[c] # s, NEW p \in Frames,
           {x \in OnList(h, h.full[c]) : h.hdr[x].next = s} = {p}
    PROVE  LET k == remove_slab_from_list(h, "full", c, s)
           IN  /\ k \in HeapType /\ SameMemory(h, k) /\ k.partial = h.partial /\ k.full = h.full
               /\ Relinked(h.hdr, k.hdr, p, h.hdr[s].next)
<1> DEFINE H == [h.hdr EXCEPT ![p].next = h.hdr[s].next]
           k == [h EXCEPT !.hdr = H]
<1>1. remove_slab_from_list(h, "full", c, s) = k
  <2>1. h["full"][c] # s /\ {x \in OnList(h, h["full"][c]) : h.hdr[x].next = s} = {p}
    OBVIOUS
  <2>2. remove_slab_from_list(h, "full", c, s)
          = LET q == CHOOSE x \in {p} : TRUE IN [h EXCEPT !.hdr[q].next = h.hdr[s].next]
    BY <2>1 DEF remove_slab_from_list
  <2>3. (CHOOSE x \in {p} : TRUE) = p
    OBVIOUS
  <2> QED
    BY <2>2, <2>3 DEF HeapType
<1>2. Relinked(h.hdr, H, p, h.hdr[s].next)
  BY Relinking DEF HeapType, HeaderType
<1>3. H \in [Frames -> HeaderType]
  BY <1>2 DEF Relinked
<1> HIDE DEF H
<1>4. k \in HeapType /\ k.hdr = H /\ k.partial = h.partial /\ k.full = h.full /\ SameMemory(h, k)
  BY <1>3 DEF HeapType, SameMemory
<1> HIDE DEF k
<1> QED
  BY <1>1, <1>2, <1>4

\* The slot a goes back to the head of the free list of slab s.
Freed(h, s, a) ==
    [h EXCEPT !.word[a] = h.hdr[s].free, !.hdr[s].free = a, !.hdr[s].used = @ - 1]

\* slab_free's push of a slot, field by field.
LEMMA FreedShape ==
    ASSUME NEW h \in HeapType, NEW s \in Frames, NEW a \in Addresses, h.hdr[s].used - 1 \in Nat
    PROVE  LET k == Freed(h, s, a)
           IN  /\ k \in HeapType /\ k.partial = h.partial /\ k.full = h.full
               /\ k.pool = h.pool /\ k.hhdm = h.hhdm
               /\ k.word = [h.word EXCEPT ![a] = h.hdr[s].free]
               /\ Rewritten(h, k.hdr, s, h.hdr[s].next, a, h.hdr[s].used - 1)
<1> DEFINE H == Changed(h, s, h.hdr[s].next, a, h.hdr[s].used - 1)
           W == [h.word EXCEPT ![a] = h.hdr[s].free]
           k == [h EXCEPT !.word[a] = h.hdr[s].free, !.hdr[s].free = a, !.hdr[s].used = @ - 1]
<1>1. h.hdr[s] \in HeaderType /\ h.hdr \in [Frames -> HeaderType]
      /\ h.word \in [Addresses -> Pointer]
  BY DEF HeapType
<1>2. k.hdr = H /\ k.word = W
  BY <1>1 DEF HeapType, HeaderType, Changed
<1>3. k.partial = h.partial /\ k.full = h.full /\ k.pool = h.pool /\ k.hhdm = h.hhdm
  BY DEF HeapType
<1>4. Rewritten(h, H, s, h.hdr[s].next, a, h.hdr[s].used - 1)
  <2>1. h.hdr \in [Frames -> HeaderType] /\ h.hdr[s].next \in Frames \cup {NULL}
    BY DEF HeapType, HeaderType
  <2> QED
    BY <2>1, ChangedFields
<1>5. H \in [Frames -> HeaderType] /\ W \in [Addresses -> Pointer]
  BY <1>4 DEF Rewritten, HeapType, HeaderType, Pointer
<1>6. k \in HeapType
  <2> DEFINE V == [[h EXCEPT !.word[a] = h.hdr[s].free] EXCEPT !.hdr[s].free = a]
  <2>1. DOMAIN V = {"partial", "full", "hdr", "word", "pool", "hhdm"}
    BY DEF HeapType
  <2>2. k = [V EXCEPT !.hdr[s].used = @ - 1]
    OBVIOUS
  <2> HIDE DEF V
  <2>3. k = [x \in {"partial", "full", "hdr", "word", "pool", "hhdm"} |-> k[x]]
    BY <2>1, <2>2
  <2>4. k = [partial |-> k.partial, full |-> k.full, hdr |-> k.hdr, word |-> k.word,
             pool |-> k.pool, hhdm |-> k.hhdm]
    <3> HIDE DEF k
    <3> QED
      BY <2>3
  <2> HIDE DEF k, H, W
  <2> QED
    BY <1>2, <1>3, <1>5, <2>4 DEF HeapType
<1> HIDE DEF k
<1> QED
  BY <1>2, <1>3, <1>4, <1>6 DEF Freed, k

\* Block b, slot a of slab s of cache c, is freed; k is what becomes of h.
Giving(h, L, b, s, c, a, k) ==
    /\ HeapInv(h, L) /\ b \in L /\ a = b.addr /\ s = PageOf(a) /\ c = h.hdr[s].cache
    /\ k = GiveSlot(h, a)

\* The slab a freed block came from: its slot was in use and its counter is positive.
LEMMA GivenSlab ==
    ASSUME NEW h, NEW L, NEW b, NEW s, NEW c, NEW a, NEW k, Giving(h, L, b, s, c, a, k)
    PROVE  /\ s \in SlabsIn(h) /\ s \in Frames /\ c \in Caches /\ h.hdr[s].cache = c
           /\ a \in SlotsOf(s, c) /\ a \in Addresses /\ a # NULL
           /\ a \notin FreeIn(h, L, s) /\ FreeIn(h, L \ {b}, s) = FreeIn(h, L, s) \cup {a}
           /\ h.hdr[s].used \in Nat /\ h.hdr[s].total \in Nat /\ h.hdr[s].used <= h.hdr[s].total
           /\ h.hdr[s].used - 1 \in Nat
<1>1. h \in HeapType /\ HeadersInv(h) /\ FreeInv(h, L) /\ LiveInv(h, L) /\ b \in L
  BY DEF Giving, HeapInv
<1>2. a = b.addr /\ s = PageOf(a) /\ c = h.hdr[s].cache
  BY DEF Giving
<1>3. s \in SlabsIn(h) /\ a \in SlotsOf(s, c)
  BY <1>1, <1>2 DEF LiveInv, BlockOf
<1>4. /\ s \in Frames /\ c \in Caches
      /\ SlotsOf(s, c) \subseteq Addresses /\ NULL \notin SlotsOf(s, c)
      /\ FreeIn(h, L, s) \subseteq SlotsOf(s, c) /\ IsFiniteSet(FreeIn(h, L, s))
      /\ Cardinality(SlotsOf(s, c)) = SlotsPerSlab(c) /\ IsFiniteSet(SlotsOf(s, c))
  BY <1>1, <1>2, <1>3, SlabFinite
<1>5. a \in AddrsOf(L) /\ AddrsOf(L) = AddrsOf(L \ {b}) \cup {a} /\ a \notin AddrsOf(L \ {b})
  BY <1>1, <1>2 DEF AddrsOf, LiveInv
<1>6. a \notin FreeIn(h, L, s) /\ FreeIn(h, L \ {b}, s) = FreeIn(h, L, s) \cup {a}
  BY <1>2, <1>3, <1>5 DEF FreeIn
<1>7. /\ h.hdr[s].used \in Nat /\ h.hdr[s].total \in Nat /\ h.hdr[s].used <= h.hdr[s].total
      /\ h.hdr[s].total = SlotsPerSlab(c)
  <2>1. c # 0
    BY <1>4, Sizes
  <2> QED
    BY <1>1, <1>2, <1>4, <2>1 DEF HeadersInv, HeapType, HeaderType
<1>8. h.hdr[s].used # 0
  <2>1. Cardinality(SlotsOf(s, c) \ {a}) = SlotsPerSlab(c) - 1 /\ IsFiniteSet(SlotsOf(s, c) \ {a})
    BY <1>3, <1>4, FS_RemoveElement
  <2>2. FreeIn(h, L, s) \subseteq SlotsOf(s, c) \ {a}
    BY <1>4, <1>6
  <2>3. Cardinality(FreeIn(h, L, s)) <= SlotsPerSlab(c) - 1
    BY <2>1, <2>2, FS_Subset
  <2>4. Cardinality(FreeIn(h, L, s)) = h.hdr[s].total - h.hdr[s].used
    BY <1>1, <1>3 DEF FreeInv
  <2> QED
    BY <1>7, <2>3, <2>4
<1>9. h.hdr[s].used - 1 \in Nat
  BY <1>7, <1>8
<1> QED
  BY <1>2, <1>3, <1>4, <1>6, <1>7, <1>9

\* What the headers and the lists of k are.
GivenBack(h, k, s, c, a) ==
    /\ k \in HeapType /\ k.pool = h.pool /\ k.hhdm = h.hhdm
    /\ k.word = [h.word EXCEPT ![a] = h.hdr[s].free]
    /\ SameSlabs(h, k)
    /\ k.hdr[s].free = a /\ k.hdr[s].used = h.hdr[s].used - 1
    /\ \A x \in Frames \ {s} : k.hdr[x].free = h.hdr[x].free /\ k.hdr[x].used = h.hdr[x].used
    /\ IF h.hdr[s].used = h.hdr[s].total
       THEN /\ k.partial = [h.partial EXCEPT ![c] = s] /\ k.hdr[s].next = h.partial[c]
            /\ Chained(Crowded(h, c) \ {s}, k.full[c], NextIn(k))
            /\ \A d \in Caches \ {c} : k.full[d] = h.full[d]
            /\ \A x \in Frames \ Crowded(h, c) : k.hdr[x].next = h.hdr[x].next
       ELSE /\ k.partial = h.partial /\ k.full = h.full
            /\ \A x \in Frames : k.hdr[x].next = h.hdr[x].next

\* kfree, field by field; the search of the full list finds the one slab before s.
LEMMA GiveShape ==
    ASSUME NEW h, NEW L, NEW b, NEW s, NEW c, NEW a, NEW k, Giving(h, L, b, s, c, a, k)
    PROVE  GivenBack(h, k, s, c, a)
<1>1. /\ s \in SlabsIn(h) /\ s \in Frames /\ c \in Caches /\ h.hdr[s].cache = c
      /\ a \in SlotsOf(s, c) /\ a \in Addresses
      /\ h.hdr[s].used \in Nat /\ h.hdr[s].total \in Nat /\ h.hdr[s].used <= h.hdr[s].total
      /\ h.hdr[s].used - 1 \in Nat
  BY GivenSlab
<1>2. h \in HeapType /\ ListsInv(h)
  BY DEF Giving, HeapInv
<1> DEFINE g == Freed(h, s, a)
<1>3. /\ g \in HeapType /\ g.partial = h.partial /\ g.full = h.full
      /\ g.pool = h.pool /\ g.hhdm = h.hhdm /\ g.word = [h.word EXCEPT ![a] = h.hdr[s].free]
      /\ Rewritten(h, g.hdr, s, h.hdr[s].next, a, h.hdr[s].used - 1)
  BY <1>1, <1>2, FreedShape
<1>4. k = IF g.hdr[s].used = g.hdr[s].total - 1
          THEN move_slab_to_partial(g, g.hdr[s].cache, s) ELSE g
  BY DEF Giving, GiveSlot, Freed
<1> HIDE DEF g
<1>5. /\ \A x \in Frames : /\ g.hdr[x].cache = h.hdr[x].cache /\ g.hdr[x].total = h.hdr[x].total
                           /\ g.hdr[x].next = h.hdr[x].next
      /\ g.hdr[s].free = a /\ g.hdr[s].used = h.hdr[s].used - 1
      /\ \A x \in Frames \ {s} : g.hdr[x].free = h.hdr[x].free /\ g.hdr[x].used = h.hdr[x].used
  BY <1>1, <1>3 DEF Rewritten
<1>6. CASE h.hdr[s].used # h.hdr[s].total
  <2>1. k = g
    BY <1>1, <1>4, <1>5, <1>6
  <2> QED
    BY <1>3, <1>5, <1>6, <2>1 DEF GivenBack, SameSlabs
<1>7. CASE h.hdr[s].used = h.hdr[s].total
  <2> DEFINE r == remove_slab_from_list(g, "full", c, s)
             S == Crowded(h, c)
  <2>1. k = push(r, "partial", c, s)
    BY <1>1, <1>4, <1>5, <1>7 DEF move_slab_to_partial
  <2>2. Chained(S, h.full[c], NextIn(h)) /\ s \in S /\ S \subseteq Frames
    BY <1>1, <1>2, <1>7 DEF ListsInv, Crowded
  <2>3. NextIn(g) = NextIn(h)
    BY <1>5 DEF NextIn
  <2>4. CASE h.full[c] = s
    <3>1. /\ r \in HeapType /\ SameMemory(g, r) /\ r.partial = g.partial /\ r.hdr = g.hdr
          /\ r.full = [g.full EXCEPT ![c] = g.hdr[s].next]
      BY <1>1, <1>3, <2>4, RemoveHeadShape
    <3> HIDE DEF r
    <3>2. /\ k \in HeapType /\ SameMemory(r, k) /\ k.full = r.full
          /\ k.partial = [r.partial EXCEPT ![c] = s]
          /\ Relinked(r.hdr, k.hdr, s, r.partial[c])
      BY <1>1, <2>1, <3>1, PushShape
    <3>3. \A x \in Frames :
             /\ k.hdr[x].cache = h.hdr[x].cache /\ k.hdr[x].total = h.hdr[x].total
             /\ k.hdr[x].free = g.hdr[x].free /\ k.hdr[x].used = g.hdr[x].used
             /\ k.hdr[x].next = IF x = s THEN h.partial[c] ELSE h.hdr[x].next
      BY <1>3, <1>5, <3>1, <3>2 DEF Relinked
    <3>4. k.full = [h.full EXCEPT ![c] = h.hdr[s].next] /\ k.partial = [h.partial EXCEPT ![c] = s]
      BY <1>1, <1>3, <1>5, <3>1, <3>2
    <3>5. Chained(S \ {s}, k.full[c], NextIn(k))
      <4>1. \A y \in S \ {s} : NextIn(k)[y] = NextIn(h)[y]
        BY <2>2, <3>3 DEF NextIn
      <4>2. k.full[c] = NextIn(h)[s]
        BY <1>1, <1>2, <3>4 DEF HeapType, NextIn
      <4>3. s # NULL
        BY <1>1, FrameFacts
      <4> QED
        BY <2>2, <2>4, <4>1, <4>2, <4>3, PopChain
    <3>6. \A d \in Caches \ {c} : k.full[d] = h.full[d]
      BY <1>2, <3>4 DEF HeapType
    <3>7. k.pool = h.pool /\ k.hhdm = h.hhdm /\ k.word = [h.word EXCEPT ![a] = h.hdr[s].free]
      BY <1>3, <3>1, <3>2 DEF SameMemory
    <3> HIDE DEF S
    <3> QED
      BY <1>1, <1>5, <1>7, <2>2, <3>2, <3>3, <3>4, <3>5, <3>6, <3>7 DEF GivenBack, SameSlabs, S
  <2>5. CASE h.full[c] # s
    <3>1. PICK p \in S :
             /\ p # s /\ NextIn(h)[p] = s /\ \A q \in S : NextIn(h)[q] = s => q = p
             /\ \A new : /\ new[p] = NextIn(h)[s] /\ \A y \in S \ {p, s} : new[y] = NextIn(h)[y]
                         => Chained(S \ {s}, h.full[c], new)
      BY <2>2, <2>5, UnlinkChain
    <3>2. OnList(g, g.full[c]) = S
      BY <1>3, <2>2, <2>3, WalkMeets
    <3>3. {x \in OnList(g, g.full[c]) : g.hdr[x].next = s} = {p}
      <4>1. \A x \in S : g.hdr[x].next = NextIn(h)[x]
        BY <1>5, <2>2 DEF NextIn
      <4> HIDE DEF S
      <4>2. p \in S /\ NextIn(h)[p] = s /\ \A q \in S : NextIn(h)[q] = s => q = p
        BY <3>1
      <4> QED
        BY <3>2, <4>1, <4>2
    <3>4. p \in Frames /\ p \in S /\ p # s
      BY <2>2, <3>1
    <3>5. /\ r \in HeapType /\ SameMemory(g, r) /\ r.partial = g.partial /\ r.full = g.full
          /\ Relinked(g.hdr, r.hdr, p, g.hdr[s].next)
      BY <1>1, <1>3, <2>5, <3>3, <3>4, RemoveBehindShape
    <3> HIDE DEF r
    <3>6. /\ k \in HeapType /\ SameMemory(r, k) /\ k.full = r.full
          /\ k.partial = [r.partial EXCEPT ![c] = s]
          /\ Relinked(r.hdr, k.hdr, s, r.partial[c])
      BY <1>1, <2>1, <3>5, PushShape
    <3>7. \A x \in Frames :
             /\ k.hdr[x].cache = h.hdr[x].cache /\ k.hdr[x].total = h.hdr[x].total
             /\ k.hdr[x].free = g.hdr[x].free /\ k.hdr[x].used = g.hdr[x].used
             /\ k.hdr[x].next = IF x = s THEN h.partial[c]
                                ELSE IF x = p THEN h.hdr[s].next ELSE h.hdr[x].next
      BY <1>1, <1>3, <1>5, <3>5, <3>6 DEF Relinked
    <3>8. k.full = h.full /\ k.partial = [h.partial EXCEPT ![c] = s]
      BY <1>3, <3>5, <3>6
    <3>9. Chained(S \ {s}, k.full[c], NextIn(k))
      <4>1. NextIn(k)[p] = NextIn(h)[s] /\ \A y \in S \ {p, s} : NextIn(k)[y] = NextIn(h)[y]
        BY <1>1, <2>2, <3>4, <3>7 DEF NextIn
      <4> QED
        BY <3>1, <3>8, <4>1
    <3>10. k.pool = h.pool /\ k.hhdm = h.hhdm /\ k.word = [h.word EXCEPT ![a] = h.hdr[s].free]
      BY <1>3, <3>5, <3>6 DEF SameMemory
    <3> HIDE DEF S
    <3> QED
      BY <1>1, <1>5, <1>7, <2>2, <3>4, <3>6, <3>7, <3>8, <3>9, <3>10 DEF GivenBack, SameSlabs, S
  <2> QED
    BY <2>4, <2>5
<1> QED
  BY <1>6, <1>7

\* kfree keeps the invariant.
LEMMA GiveKeeps ==
    ASSUME NEW h, NEW L, NEW b, NEW s, NEW c, NEW a, NEW k, Giving(h, L, b, s, c, a, k)
    PROVE  HeapInv(k, L \ {b})
<1>1. /\ s \in SlabsIn(h) /\ s \in Frames /\ c \in Caches /\ h.hdr[s].cache = c
      /\ a \in SlotsOf(s, c) /\ a \in Addresses /\ a # NULL
      /\ a \notin FreeIn(h, L, s) /\ FreeIn(h, L \ {b}, s) = FreeIn(h, L, s) \cup {a}
      /\ h.hdr[s].used \in Nat /\ h.hdr[s].total \in Nat /\ h.hdr[s].used <= h.hdr[s].total
      /\ h.hdr[s].used - 1 \in Nat
  BY GivenSlab
<1>2. h \in HeapType /\ HeadersInv(h) /\ ListsInv(h) /\ FreeInv(h, L) /\ LiveInv(h, L) /\ PagesInv(h)
      /\ b \in L /\ a = b.addr /\ s = PageOf(a)
  BY DEF Giving, HeapInv
<1>3. GivenBack(h, k, s, c, a)
  BY GiveShape
<1>4. /\ k \in HeapType /\ k.pool = h.pool /\ k.hhdm = h.hhdm
      /\ k.word = [h.word EXCEPT ![a] = h.hdr[s].free]
      /\ SameSlabs(h, k) /\ k.hdr[s].free = a /\ k.hdr[s].used = h.hdr[s].used - 1
      /\ \A x \in Frames \ {s} : k.hdr[x].free = h.hdr[x].free /\ k.hdr[x].used = h.hdr[x].used
  BY <1>3 DEF GivenBack
<1>5. HeadersInv(k)
  <2> SUFFICES ASSUME NEW p \in Frames
               PROVE  IF k.hdr[p].cache = 0 THEN k.hdr[p] = NoHeader
                      ELSE k.hdr[p].total = SlotsPerSlab(k.hdr[p].cache)
                           /\ k.hdr[p].used <= k.hdr[p].total
    BY DEF HeadersInv
  <2>1. k.hdr[p].cache = h.hdr[p].cache /\ k.hdr[p].total = h.hdr[p].total
    BY <1>4 DEF SameSlabs
  <2>2. CASE h.hdr[p].cache # 0
    <3>1. CASE p = s
      BY <1>1, <1>2, <1>4, <2>1, <2>2, <3>1 DEF HeadersInv
    <3>2. CASE p # s
      BY <1>2, <1>4, <2>1, <2>2, <3>2 DEF HeadersInv
    <3> QED
      BY <3>1, <3>2
  <2>3. CASE h.hdr[p].cache = 0
    <3>1. p # s
      BY <1>1, <2>3, Sizes
    <3>2. p \notin Crowded(h, c)
      BY <1>1, <2>3, Sizes DEF Crowded
    <3>3. k.hdr[p].next = h.hdr[p].next
      BY <1>3, <3>2 DEF GivenBack
    <3>4. k.hdr[p].free = h.hdr[p].free /\ k.hdr[p].used = h.hdr[p].used
      BY <1>4, <3>1
    <3>5. k.hdr[p] \in HeaderType /\ h.hdr[p] \in HeaderType
      BY <1>2, <1>4 DEF HeapType
    <3>6. k.hdr[p] = h.hdr[p]
      BY <2>1, <3>3, <3>4, <3>5 DEF HeaderType
    <3> QED
      BY <1>2, <2>3, <3>6 DEF HeadersInv
  <2> QED
    BY <2>2, <2>3
<1>6. ListsInv(k)
  <2> SUFFICES ASSUME NEW d \in Caches
               PROVE  /\ Chained(Roomy(k, d), k.partial[d], NextIn(k))
                      /\ Chained(Crowded(k, d), k.full[d], NextIn(k))
    BY DEF ListsInv
  <2>1. /\ Chained(Roomy(h, d), h.partial[d], NextIn(h))
        /\ Chained(Crowded(h, d), h.full[d], NextIn(h))
    BY <1>2 DEF ListsInv
  <2>2. \A x \in Frames : NextIn(k)[x] = k.hdr[x].next /\ NextIn(h)[x] = h.hdr[x].next
    BY DEF NextIn
  <2>3. Roomy(h, d) \subseteq Frames /\ Crowded(h, d) \subseteq Frames
    BY DEF Roomy, Crowded
  <2>4. CASE h.hdr[s].used # h.hdr[s].total
    <3>1. k.partial = h.partial /\ k.full = h.full /\ \A x \in Frames : k.hdr[x].next = h.hdr[x].next
      BY <1>3, <2>4 DEF GivenBack
    <3>2. Roomy(k, d) = Roomy(h, d) /\ Crowded(k, d) = Crowded(h, d)
      <4>1. k.hdr[s].used # k.hdr[s].total
        BY <1>1, <1>4, <2>4 DEF SameSlabs
      <4> QED
        BY <1>4, <2>4, <4>1 DEF SameSlabs, Roomy, Crowded
    <3> QED
      BY <2>1, <2>2, <2>3, <3>1, <3>2, SameChain
  <2>5. CASE h.hdr[s].used = h.hdr[s].total
    <3>1. /\ k.partial = [h.partial EXCEPT ![c] = s] /\ k.hdr[s].next = h.partial[c]
          /\ Chained(Crowded(h, c) \ {s}, k.full[c], NextIn(k))
          /\ \A e \in Caches \ {c} : k.full[e] = h.full[e]
          /\ \A x \in Frames \ Crowded(h, c) : k.hdr[x].next = h.hdr[x].next
      BY <1>3, <2>5 DEF GivenBack
    <3>2. k.hdr[s].used # k.hdr[s].total
      BY <1>1, <1>4, <2>5 DEF SameSlabs
    <3>3. h.partial \in [Caches -> Frames \cup {NULL}]
      BY <1>2 DEF HeapType
    <3>4. CASE d = c
      <4>1. Roomy(k, c) = Roomy(h, c) \cup {s} /\ Crowded(k, c) = Crowded(h, c) \ {s}
            /\ s \notin Roomy(h, c)
        BY <1>1, <1>4, <2>5, <3>2 DEF SameSlabs, Roomy, Crowded
      <4>2. \A y \in Roomy(h, c) : NextIn(k)[y] = NextIn(h)[y]
        <5>1. \A y \in Roomy(h, c) : y \in Frames \ Crowded(h, c)
          BY DEF Roomy, Crowded
        <5> QED
          BY <2>2, <3>1, <5>1
      <4>3. NextIn(k)[s] = h.partial[c] /\ s # NULL /\ k.partial[c] = s
        BY <1>1, <2>2, <3>1, <3>3, FrameFacts
      <4>4. Chained(Roomy(h, c), h.partial[c], NextIn(h))
        BY <2>1, <3>4
      <4>5. Chained(Roomy(h, c) \cup {s}, s, NextIn(k))
        BY <4>1, <4>2, <4>3, <4>4, PushChain
      <4> QED
        BY <3>1, <3>4, <4>1, <4>3, <4>5
    <3>5. CASE d # c
      <4>1. Roomy(k, d) = Roomy(h, d) /\ Crowded(k, d) = Crowded(h, d)
        <5>1. s \notin Roomy(h, d) /\ s \notin Crowded(h, d)
              /\ s \notin Roomy(k, d) /\ s \notin Crowded(k, d)
          BY <1>1, <1>4, <3>5 DEF SameSlabs, Roomy, Crowded
        <5>2. \A x \in Frames \ {s} : /\ k.hdr[x].cache = h.hdr[x].cache
                                     /\ k.hdr[x].used = h.hdr[x].used
                                     /\ k.hdr[x].total = h.hdr[x].total
          BY <1>4 DEF SameSlabs
        <5> QED
          BY <5>1, <5>2 DEF Roomy, Crowded
      <4>2. \A y \in Roomy(h, d) \cup Crowded(h, d) : y \in Frames \ Crowded(h, c)
        BY <3>5 DEF Roomy, Crowded
      <4>3. \A y \in Roomy(h, d) \cup Crowded(h, d) : NextIn(k)[y] = NextIn(h)[y]
        BY <2>2, <3>1, <4>2
      <4>4. k.partial[d] = h.partial[d] /\ k.full[d] = h.full[d]
        BY <3>1, <3>3, <3>5
      <4> QED
        BY <2>1, <4>1, <4>3, <4>4, SameChain
    <3> QED
      BY <3>4, <3>5
  <2> QED
    BY <2>4, <2>5
<1>7. LiveInv(k, L \ {b})
  <2>1. LiveInv(k, L)
    BY <1>2, <1>4, LiveKept
  <2> QED
    BY <2>1 DEF LiveInv
<1>8. FreeInv(k, L \ {b})
  <2> DEFINE K == L \ {b}
  <2> SUFFICES ASSUME NEW p \in SlabsIn(k)
               PROVE  /\ Chained(FreeIn(k, K, p), k.hdr[p].free, k.word)
                      /\ Cardinality(FreeIn(k, K, p)) = k.hdr[p].total - k.hdr[p].used
    BY DEF FreeInv
  <2>1. p \in SlabsIn(h) /\ FreeIn(k, K, p) = FreeIn(h, K, p) /\ p \in Frames
    <3>1. p \in Frames
      BY DEF SlabsIn
    <3> QED
      BY <1>4, <3>1, SlabsKept
  <2>2. /\ SlotsOf(p, h.hdr[p].cache) \subseteq Addresses
        /\ \A x \in SlotsOf(p, h.hdr[p].cache) : PageOf(x) = p
        /\ FreeIn(h, L, p) \subseteq SlotsOf(p, h.hdr[p].cache) /\ IsFiniteSet(FreeIn(h, L, p))
    BY <1>2, <2>1, SlabFinite
  <2>3. h.word \in [Addresses -> Pointer]
    BY <1>2 DEF HeapType
  <2>4. Chained(FreeIn(h, L, p), h.hdr[p].free, h.word)
        /\ Cardinality(FreeIn(h, L, p)) = h.hdr[p].total - h.hdr[p].used
    BY <1>2, <2>1 DEF FreeInv
  <2>5. a \notin FreeIn(h, L, p)
    BY <1>1, <1>2, <2>2
  <2>6. \A x \in FreeIn(h, L, p) : k.word[x] = h.word[x]
    BY <1>1, <1>4, <2>2, <2>3, <2>5
  <2>7. k.word[a] = h.hdr[s].free
    BY <1>1, <1>4, <2>3
  <2>8. k.hdr[p].total = h.hdr[p].total
    BY <1>4, <2>1 DEF SameSlabs
  <2> HIDE DEF K
  <2>9. CASE p = s
    <3>1. FreeIn(h, K, p) = FreeIn(h, L, p) \cup {a}
      BY <1>1, <2>9 DEF K
    <3>2. Chained(FreeIn(h, L, p) \cup {a}, a, k.word)
      BY <1>1, <2>4, <2>5, <2>6, <2>7, <2>9, PushChain
    <3>3. Cardinality(FreeIn(h, L, p) \cup {a}) = Cardinality(FreeIn(h, L, p)) + 1
      BY <2>2, <2>5, FS_AddElement
    <3>4. (h.hdr[s].total - h.hdr[s].used) + 1 = h.hdr[s].total - (h.hdr[s].used - 1)
      BY <1>1
    <3> QED
      BY <1>4, <2>1, <2>4, <2>8, <2>9, <3>1, <3>2, <3>3, <3>4
  <2>10. CASE p # s
    <3>1. FreeIn(h, K, p) = FreeIn(h, L, p)
      <4>1. \A x \in SlotsOf(p, h.hdr[p].cache) : x # a
        BY <1>2, <2>2, <2>10
      <4>2. AddrsOf(L) = AddrsOf(K) \cup {a}
        BY <1>2 DEF AddrsOf, K
      <4> QED
        BY <4>1, <4>2 DEF FreeIn
    <3>2. Chained(FreeIn(h, L, p), h.hdr[p].free, k.word)
      BY <2>4, <2>6, SameChain
    <3>3. k.hdr[p].free = h.hdr[p].free /\ k.hdr[p].used = h.hdr[p].used
      BY <1>4, <2>1, <2>10
    <3> QED
      BY <2>1, <2>4, <2>8, <3>1, <3>2, <3>3
  <2> QED
    BY <2>9, <2>10
<1>9. PagesInv(k)
  BY <1>2, <1>4, SlabsKept
<1> QED
  BY <1>4, <1>5, <1>6, <1>7, <1>8, <1>9 DEF HeapInv

----
\* A new slab.

\* The chain through the slots of a new slab.
LEMMA NewChain ==
    ASSUME NEW p \in Frames, NEW c \in Caches, NEW word,
           \A x \in SlotsOf(p, c) :
              word[x] = IF x + Buckets[c] \in SlotsOf(p, c) THEN x + Buckets[c] ELSE NULL
    PROVE  Chained(SlotsOf(p, c), SlotAddr(p, c, 0), word)
<1> DEFINE N == SlotsPerSlab(c)
           B == Buckets[c]
           S == SlotsOf(p, c)
<1>1. N \in Nat \ {0} /\ B \in Nat \ {0} /\ p \in Nat /\ PageBytes \in Nat /\ HeaderBytes \in Nat
  BY Sizes, FrameFacts
<1>2. /\ NULL \notin S /\ \A x \in S : x \in Nat
      /\ \A i, j \in 0 .. N - 1 : SlotAddr(p, c, i) = SlotAddr(p, c, j) => i = j
      /\ \A i \in 0 .. N - 1 : SlotAddr(p, c, i) \in S
  BY SlotFacts DEF SlotsOf
<1>3. \A x \in S : \E i \in 0 .. N - 1 : x = SlotAddr(p, c, i)
  BY DEF SlotsOf
<1>4. \A i \in 0 .. N - 1 : SlotAddr(p, c, i) + B = SlotAddr(p, c, i + 1)
  <2> SUFFICES ASSUME NEW i \in 0 .. N - 1 PROVE SlotAddr(p, c, i) + B = SlotAddr(p, c, i + 1)
    OBVIOUS
  <2>1. /\ SlotAddr(p, c, i) = p * PageBytes + HeaderBytes + i * B
        /\ SlotAddr(p, c, i + 1) = p * PageBytes + HeaderBytes + (i + 1) * B
    BY DEF SlotAddr, PageAddr
  <2> HIDE DEF B, N
  <2>2. i \in Nat /\ i * B \in Nat /\ (i + 1) * B = i * B + B /\ p * PageBytes \in Nat
    BY <1>1
  <2>3. PICK x \in Nat, y \in Nat : x = p * PageBytes /\ y = i * B
    BY <2>2
  <2>4. (x + HeaderBytes + y) + B = x + HeaderBytes + (y + B)
    BY <1>1
  <2> QED
    BY <2>1, <2>2, <2>3, <2>4
<1>5. SlotAddr(p, c, N) \notin S
  <2> SUFFICES ASSUME NEW j \in 0 .. N - 1, SlotAddr(p, c, N) = SlotAddr(p, c, j) PROVE FALSE
    BY <1>3
  <2>1. /\ SlotAddr(p, c, N) = p * PageBytes + HeaderBytes + N * B
        /\ SlotAddr(p, c, j) = p * PageBytes + HeaderBytes + j * B
    BY DEF SlotAddr, PageAddr
  <2>2. PICK M \in Nat, C \in Nat \ {0} : M = N /\ C = B
    BY <1>1
  <2> HIDE DEF B, N
  <2>3. j \in Nat /\ j < M /\ j * C \in Nat /\ M * C \in Nat /\ p * PageBytes \in Nat
        /\ j * C + C <= M * C
    BY <1>1, <2>2, Multiples
  <2>4. PICK x \in Nat, y \in Nat, z \in Nat : x = p * PageBytes /\ y = j * C /\ z = M * C
    BY <2>3
  <2>5. x + HeaderBytes + z = x + HeaderBytes + y /\ y + C <= z
    BY <2>1, <2>2, <2>3, <2>4
  <2> QED
    BY <1>1, <2>5
<1>6. \A x \in S : word[x] = IF x + B \in S THEN x + B ELSE NULL
  OBVIOUS
<1> DEFINE s == [i \in 1 .. N + 1 |-> IF i = N + 1 THEN NULL ELSE SlotAddr(p, c, i - 1)]
<1> HIDE DEF N, S, B
<1>7. \A i \in 1 .. N : /\ i \in 1 .. N + 1 /\ i - 1 \in 0 .. N - 1 /\ i # N + 1
                        /\ s[i] = SlotAddr(p, c, i - 1)
  BY <1>1
<1>8. s \in [1 .. N + 1 -> S \cup {NULL}]
  <2> SUFFICES ASSUME NEW i \in 1 .. N + 1, i # N + 1 PROVE SlotAddr(p, c, i - 1) \in S
    OBVIOUS
  <2>1. i - 1 \in 0 .. N - 1
    BY <1>1
  <2> QED
    BY <1>2, <2>1
<1>9. s[1] = SlotAddr(p, c, 0) /\ s[N + 1] = NULL
  <2>1. 1 \in 1 .. N /\ N + 1 \in 1 .. N + 1 /\ 1 - 1 = 0
    BY <1>1
  <2> QED
    BY <1>7, <2>1
<1> HIDE DEF s
<1>10. \A i \in 1 .. N : s[i] \in S /\ word[s[i]] = s[i + 1]
  <2> SUFFICES ASSUME NEW i \in 1 .. N PROVE s[i] \in S /\ word[s[i]] = s[i + 1]
    OBVIOUS
  <2>1. s[i] = SlotAddr(p, c, i - 1) /\ s[i] \in S /\ i - 1 \in 0 .. N - 1
    BY <1>2, <1>7
  <2>2. s[i] + B = SlotAddr(p, c, i)
    <3>1. (i - 1) + 1 = i
      OBVIOUS
    <3> QED
      BY <1>4, <2>1, <3>1
  <2>3. word[s[i]] = IF SlotAddr(p, c, i) \in S THEN SlotAddr(p, c, i) ELSE NULL
    BY <1>6, <2>1, <2>2
  <2>4. CASE i = N
    BY <1>5, <1>9, <2>1, <2>3, <2>4
  <2>5. CASE i # N
    <3>1. i + 1 \in 1 .. N /\ (i + 1) - 1 = i /\ i \in 0 .. N - 1
      BY <1>1, <2>5
    <3>2. s[i + 1] = SlotAddr(p, c, i) /\ SlotAddr(p, c, i) \in S
      BY <1>2, <1>7, <3>1
    <3> QED
      BY <2>1, <2>3, <3>2
  <2> QED
    BY <2>4, <2>5
<1>11. \A i, j \in 1 .. N : s[i] = s[j] => i = j
  <2> SUFFICES ASSUME NEW i \in 1 .. N, NEW j \in 1 .. N, s[i] = s[j] PROVE i = j
    OBVIOUS
  <2>1. i - 1 = j - 1
    BY <1>2, <1>7
  <2> QED
    BY <2>1
<1>12. \A x \in S : \E i \in 1 .. N : s[i] = x
  <2> SUFFICES ASSUME NEW x \in S PROVE \E i \in 1 .. N : s[i] = x
    OBVIOUS
  <2>1. PICK i \in 0 .. N - 1 : x = SlotAddr(p, c, i)
    BY <1>3
  <2>2. i + 1 \in 1 .. N /\ (i + 1) - 1 = i
    BY <1>1
  <2> QED
    BY <1>7, <2>1, <2>2
<1>13. Linked(N, s, S, SlotAddr(p, c, 0), word)
  BY <1>8, <1>9, <1>10, <1>11, <1>12 DEF Linked
<1> QED
  BY <1>1, <1>2, <1>13 DEF Chained, S

\* Slab p of cache c on the frames T of the pool; k is what becomes of h.
Growing(h, L, c, T, p, k) ==
    /\ HeapInv(h, L) /\ c \in Caches /\ PagesPerSlab(c) <= Cardinality(h.pool)
    /\ T = Taken(h.pool, PagesPerSlab(c)) /\ p = Lowest(T)
    /\ k = init_new_slab(h, c)

\* The frames a slab takes, and where they are mapped.
LEMMA NewFrames ==
    ASSUME NEW h, NEW L, NEW c, NEW T, NEW p, NEW k, Growing(h, L, c, T, p, k)
    PROVE  LET n == PagesPerSlab(c)
           IN  /\ n \in Nat \ {0} /\ p \in Frames /\ p \in h.pool /\ T \subseteq h.pool
               /\ \A x \in h.pool : p <= x
               /\ p .. p + n - 1 \subseteq Frames
               /\ \A v \in p .. p + n - 1, x \in h.pool \ T : v < x
               /\ \A v \in p .. p + n - 1 : Nth(T, v - p) \in T
               /\ \A v, w \in p .. p + n - 1 : v # w => Nth(T, v - p) # Nth(T, w - p)
<1> DEFINE n == PagesPerSlab(c)
<1>1. c \in Caches /\ n \in Nat \ {0} /\ h.pool \subseteq FirstPool /\ n <= Cardinality(h.pool)
  BY Sizes DEF Growing, HeapInv, HeapType
<1>2. PICK m \in Nat : Frames = 1 .. m
  BY SlabAssumption, FS_CardinalityType
<1>3. h.pool \subseteq Frames /\ h.pool \subseteq Nat /\ IsFiniteSet(h.pool)
  BY <1>1, FrameFacts, FS_Subset
<1> HIDE DEF n
<1>4. /\ T \subseteq h.pool /\ IsFiniteSet(T) /\ Cardinality(T) = n
      /\ \A x \in T, y \in h.pool \ T : x < y
      /\ p \in T /\ \A x \in T : p <= x
  <2>1. T = Taken(h.pool, n) /\ p = Lowest(T)
    BY DEF Growing, n
  <2> QED
    BY <1>1, <1>3, <2>1, TakenFrames
<1>5. p \in Frames /\ p \in h.pool /\ p \in Nat /\ T \subseteq Nat /\ T \subseteq 1 .. m /\ T # {}
  BY <1>2, <1>3, <1>4
<1>6. \A x \in h.pool : p <= x
  <2> SUFFICES ASSUME NEW x \in h.pool PROVE p <= x
    OBVIOUS
  <2>1. CASE x \in T
    BY <1>4, <2>1
  <2>2. CASE x \notin T
    BY <1>3, <1>4, <1>5, <2>2
  <2> QED
    BY <2>1, <2>2
<1>7. \A top \in Nat : (\A x \in T : x <= top) => p + n - 1 <= top
  <2> SUFFICES ASSUME NEW top \in Nat, \A x \in T : x <= top PROVE p + n - 1 <= top
    OBVIOUS
  <2>1. \A x \in T : x \in p .. top
    BY <1>4, <1>5
  <2>2. Cardinality(T) <= (top - p) + 1
    BY <1>4, <1>5, <2>1, Reaches
  <2> QED
    BY <1>1, <1>4, <1>5, <2>2
<1>8. p .. p + n - 1 \subseteq Frames
  <2>1. p + n - 1 <= m
    BY <1>5, <1>7
  <2> QED
    BY <1>1, <1>2, <1>5, <2>1
<1>9. \A v \in p .. p + n - 1, x \in h.pool \ T : v < x
  <2> SUFFICES ASSUME NEW v \in p .. p + n - 1, NEW x \in h.pool \ T PROVE v < x
    OBVIOUS
  <2>1. x \in Nat /\ x # 0
    BY <1>3, FrameFacts
  <2>2. x - 1 \in Nat /\ \A y \in T : y <= x - 1
    BY <1>4, <1>5, <2>1
  <2>3. p + n - 1 <= x - 1
    BY <1>7, <2>2
  <2> QED
    BY <1>1, <1>5, <2>1, <2>3
<1>10. \A v \in p .. p + n - 1 :
          /\ Nth(T, v - p) \in T
          /\ Cardinality({y \in T : y < Nth(T, v - p)}) = v - p
  <2> SUFFICES ASSUME NEW v \in p .. p + n - 1
               PROVE  /\ Nth(T, v - p) \in T
                      /\ Cardinality({y \in T : y < Nth(T, v - p)}) = v - p
    OBVIOUS
  <2>1. v - p \in Nat /\ v - p < Cardinality(T)
    BY <1>1, <1>4, <1>5
  <2> QED
    BY <1>4, <1>5, <2>1, NthElement
<1>11. \A v, w \in p .. p + n - 1 : v # w => Nth(T, v - p) # Nth(T, w - p)
  <2> SUFFICES ASSUME NEW v \in p .. p + n - 1, NEW w \in p .. p + n - 1,
                      Nth(T, v - p) = Nth(T, w - p)
               PROVE  v = w
    OBVIOUS
  <2>1. v - p = w - p
    BY <1>10
  <2> QED
    BY <1>1, <1>5, <2>1
<1> QED
  BY <1>1, <1>4, <1>5, <1>6, <1>8, <1>9, <1>10, <1>11 DEF n

\* The data after a slab was added.
Grown(h, k, c, T, p) ==
    /\ k \in HeapType /\ k.pool = h.pool \ T /\ k.full = h.full
    /\ k.partial = [h.partial EXCEPT ![c] = p]
    /\ k.hdr \in [Frames -> HeaderType]
    /\ k.hdr[p].cache = c /\ k.hdr[p].next = h.partial[c] /\ k.hdr[p].free = SlotAddr(p, c, 0)
    /\ k.hdr[p].used = 0 /\ k.hdr[p].total = SlotsPerSlab(c)
    /\ \A q \in Frames \ {p} : k.hdr[q] = h.hdr[q]
    /\ \A v \in Frames : k.hhdm[v] = IF v \in p .. p + PagesPerSlab(c) - 1 THEN Nth(T, v - p)
                                     ELSE h.hhdm[v]
    /\ \A x \in Addresses :
          k.word[x] = IF x \in SlotsOf(p, c)
                      THEN IF x + Buckets[c] \in SlotsOf(p, c) THEN x + Buckets[c] ELSE NULL
                      ELSE h.word[x]

\* init_new_slab, field by field.
LEMMA NewShape ==
    ASSUME NEW h, NEW L, NEW c, NEW T, NEW p, NEW k, Growing(h, L, c, T, p, k)
    PROVE  Grown(h, k, c, T, p)
<1> DEFINE n == PagesPerSlab(c)
           slots == SlotsOf(p, c)
           M == Override(h.hhdm, [q \in p .. p + n - 1 |-> Nth(T, q - p)])
           W == Override(h.word, [a \in slots |->
                    IF a + Buckets[c] \in slots THEN a + Buckets[c] ELSE NULL])
           r == [cache |-> c, next |-> h.partial[c], free |-> SlotAddr(p, c, 0), used |-> 0,
                 total |-> SlotsPerSlab(c)]
           H == [h.hdr EXCEPT ![p] = r]
           P == [h.partial EXCEPT ![c] = p]
           f == [h EXCEPT !.pool = @ \ T, !.hhdm = M, !.word = W, !.hdr[p] = r, !.partial[c] = p]
<1>1. /\ n \in Nat \ {0} /\ p \in Frames /\ p \in h.pool /\ T \subseteq h.pool
      /\ p .. p + n - 1 \subseteq Frames
      /\ \A v \in p .. p + n - 1 : Nth(T, v - p) \in T
  BY NewFrames
<1>2. h \in HeapType /\ c \in Caches
  BY DEF Growing, HeapInv
<1>3. k = f
  BY DEF Growing, init_new_slab
<1>4. T \subseteq Frames
  BY <1>1, <1>2, FrameFacts DEF HeapType
<1>5. /\ h.hhdm \in [Frames -> Frames] /\ h.word \in [Addresses -> Pointer]
      /\ h.hdr \in [Frames -> HeaderType] /\ h.partial \in [Caches -> Frames \cup {NULL}]
      /\ h.pool \subseteq FirstPool /\ h.full \in [Caches -> Frames \cup {NULL}]
      /\ h = [partial |-> h.partial, full |-> h.full, hdr |-> h.hdr, word |-> h.word,
              pool |-> h.pool, hhdm |-> h.hhdm]
  BY <1>2 DEF HeapType
<1>6. slots \subseteq Addresses /\ SlotAddr(p, c, 0) \in slots
  <2>1. 0 \in 0 .. SlotsPerSlab(c) - 1
    BY <1>2, Sizes
  <2> QED
    BY <1>1, <1>2, <2>1, SlotFacts DEF SlotsOf
<1>7. M = [v \in Frames |-> IF v \in p .. p + n - 1 THEN Nth(T, v - p) ELSE h.hhdm[v]]
  BY <1>5 DEF Override
<1>8. M \in [Frames -> Frames]
  <2>1. \A v \in Frames : (IF v \in p .. p + n - 1 THEN Nth(T, v - p) ELSE h.hhdm[v]) \in Frames
    BY <1>1, <1>4, <1>5
  <2> HIDE DEF M
  <2> QED
    BY <1>7, <2>1
<1>9. W = [x \in Addresses |->
             IF x \in slots THEN IF x + Buckets[c] \in slots THEN x + Buckets[c] ELSE NULL
             ELSE h.word[x]]
  BY <1>5 DEF Override
<1>10. W \in [Addresses -> Pointer]
  <2>1. \A x \in Addresses :
           (IF x \in slots THEN IF x + Buckets[c] \in slots THEN x + Buckets[c] ELSE NULL
            ELSE h.word[x]) \in Pointer
    BY <1>5, <1>6 DEF Pointer
  <2> HIDE DEF W
  <2> QED
    BY <1>9, <2>1
<1>11. /\ r \in HeaderType /\ r.cache = c /\ r.next = h.partial[c] /\ r.free = SlotAddr(p, c, 0)
       /\ r.used = 0 /\ r.total = SlotsPerSlab(c)
  <2>1. SlotsPerSlab(c) \in Nat /\ h.partial[c] \in Frames \cup {NULL}
        /\ SlotAddr(p, c, 0) \in Addresses
    BY <1>2, <1>5, <1>6, Sizes
  <2> QED
    BY <1>2, <2>1 DEF HeaderType
<1> HIDE DEF r
<1>12. H \in [Frames -> HeaderType] /\ H[p] = r /\ \A q \in Frames \ {p} : H[q] = h.hdr[q]
  BY <1>1, <1>5, <1>11
<1>13. P \in [Caches -> Frames \cup {NULL}]
  BY <1>1, <1>2, <1>5
<1> HIDE DEF M, W
<1>14. f = [partial |-> P, full |-> h.full, hdr |-> H, word |-> W, pool |-> h.pool \ T, hhdm |-> M]
  <2>1. f.partial = P /\ f.full = h.full
    BY <1>5
  <2>2. f.hdr = H
    BY <1>5
  <2>3. f.word = W /\ f.pool = h.pool \ T /\ f.hhdm = M
    BY <1>5
  <2> DEFINE V == [h EXCEPT !.pool = @ \ T, !.hhdm = M, !.word = W, !.hdr[p] = r]
  <2>4. DOMAIN V = {"partial", "full", "hdr", "word", "pool", "hhdm"}
    BY <1>5
  <2>5. f = [V EXCEPT !.partial[c] = p]
    OBVIOUS
  <2> HIDE DEF V
  <2>6. f = [x \in {"partial", "full", "hdr", "word", "pool", "hhdm"} |-> f[x]]
    BY <2>4, <2>5
  <2> HIDE DEF f, H, P
  <2>7. f = [partial |-> f.partial, full |-> f.full, hdr |-> f.hdr, word |-> f.word,
             pool |-> f.pool, hhdm |-> f.hhdm]
    BY <2>6
  <2> QED
    BY <2>1, <2>2, <2>3, <2>7
<1> HIDE DEF f, H
<1>15. f.partial = P /\ f.full = h.full /\ f.hdr = H /\ f.word = W /\ f.pool = h.pool \ T
       /\ f.hhdm = M
  BY <1>14
<1>16. f \in HeapType
  <2> HIDE DEF P
  <2> QED
    BY <1>5, <1>8, <1>10, <1>12, <1>13, <1>14 DEF HeapType
<1>17. \A v \in Frames : M[v] = IF v \in p .. p + n - 1 THEN Nth(T, v - p) ELSE h.hhdm[v]
  BY <1>7
<1>18. \A x \in Addresses :
          W[x] = IF x \in slots THEN IF x + Buckets[c] \in slots THEN x + Buckets[c] ELSE NULL
                 ELSE h.word[x]
  BY <1>9
<1> QED
  BY <1>3, <1>11, <1>12, <1>15, <1>16, <1>17, <1>18 DEF Grown

\* init_new_slab keeps the invariant.
LEMMA NewKeeps ==
    ASSUME NEW h, NEW L, NEW c, NEW T, NEW p, NEW k, Growing(h, L, c, T, p, k)
    PROVE  HeapInv(k, L)
<1> DEFINE n == PagesPerSlab(c)
           new == p .. p + n - 1
<1>0. Grown(h, k, c, T, p)
  BY NewShape
<1>1. /\ n \in Nat \ {0} /\ p \in Frames /\ p \in h.pool /\ T \subseteq h.pool
      /\ new \subseteq Frames
      /\ \A v \in new, x \in h.pool \ T : v < x
      /\ \A v \in new : Nth(T, v - p) \in T
      /\ \A v, w \in new : v # w => Nth(T, v - p) # Nth(T, w - p)
  BY NewFrames
<1>2. h \in HeapType /\ HeadersInv(h) /\ ListsInv(h) /\ FreeInv(h, L) /\ LiveInv(h, L) /\ PagesInv(h)
      /\ c \in Caches /\ c # 0
  BY Sizes DEF Growing, HeapInv
<1>3. /\ k \in HeapType /\ k.pool = h.pool \ T /\ k.full = h.full
      /\ k.partial = [h.partial EXCEPT ![c] = p]
      /\ k.hdr \in [Frames -> HeaderType]
      /\ k.hdr[p].cache = c /\ k.hdr[p].next = h.partial[c] /\ k.hdr[p].free = SlotAddr(p, c, 0)
      /\ k.hdr[p].used = 0 /\ k.hdr[p].total = SlotsPerSlab(c)
      /\ \A q \in Frames \ {p} : k.hdr[q] = h.hdr[q]
  BY <1>0 DEF Grown
<1>4. \A v \in Frames : k.hhdm[v] = IF v \in new THEN Nth(T, v - p) ELSE h.hhdm[v]
  BY <1>0 DEF Grown
<1>5. \A x \in Addresses :
         k.word[x] = IF x \in SlotsOf(p, c)
                     THEN IF x + Buckets[c] \in SlotsOf(p, c) THEN x + Buckets[c] ELSE NULL
                     ELSE h.word[x]
  BY <1>0 DEF Grown
<1>6. p \in Nat /\ SlotsPerSlab(c) \in Nat \ {0}
  BY <1>1, <1>2, FrameFacts, Sizes
<1> HIDE DEF n
<1>7. p \in new
  BY <1>1, <1>6
<1> HIDE DEF new
<1>8. \A q \in SlabsIn(h) : q \in SpanIn(h, q) /\ q \in Frames /\ h.hdr[q].cache \in Caches
  <2> SUFFICES ASSUME NEW q \in SlabsIn(h)
               PROVE  q \in SpanIn(h, q) /\ q \in Frames /\ h.hdr[q].cache \in Caches
    OBVIOUS
  <2>1. q \in Frames /\ h.hdr[q].cache \in Caches
    BY <1>2 DEF SlabsIn, HeapType, HeaderType
  <2>2. q \in Nat /\ PagesPerSlab(h.hdr[q].cache) \in Nat \ {0}
    BY <2>1, FrameFacts, Sizes
  <2> QED
    BY <2>1, <2>2 DEF SpanIn
\* Old slabs lie below p.
<1>9. \A q \in SlabsIn(h) : \A v \in SpanIn(h, q) : v \in Frames /\ v < p /\ v \notin new
  <2> SUFFICES ASSUME NEW q \in SlabsIn(h), NEW v \in SpanIn(h, q)
               PROVE  v \in Frames /\ v < p /\ v \notin new
    OBVIOUS
  <2>1. v \in Frames /\ v < p
    BY <1>1, <1>2 DEF PagesInv
  <2>2. v \in Nat
    BY <2>1, FrameFacts
  <2> QED
    BY <1>6, <2>1, <2>2 DEF new
<1>10. p \notin SlabsIn(h) /\ h.hdr[p].cache = 0
  <2>1. p \notin SlabsIn(h)
    BY <1>6, <1>8, <1>9
  <2> QED
    BY <1>1, <2>1 DEF SlabsIn
<1>11. SlabsIn(k) = SlabsIn(h) \cup {p}
  BY <1>1, <1>2, <1>3, <1>10 DEF SlabsIn
<1>12. /\ SpanIn(k, p) = new
       /\ \A q \in SlabsIn(h) : SpanIn(k, q) = SpanIn(h, q) /\ k.hdr[q] = h.hdr[q] /\ q # p
  <2>1. SpanIn(k, p) = new
    BY <1>3 DEF SpanIn, new, n
  <2>2. \A q \in SlabsIn(h) : q \in Frames \ {p}
    BY <1>8, <1>10
  <2> QED
    BY <1>3, <2>1, <2>2 DEF SpanIn
<1>13. HeadersInv(k)
  <2> SUFFICES ASSUME NEW q \in Frames
               PROVE  IF k.hdr[q].cache = 0 THEN k.hdr[q] = NoHeader
                      ELSE k.hdr[q].total = SlotsPerSlab(k.hdr[q].cache)
                           /\ k.hdr[q].used <= k.hdr[q].total
    BY DEF HeadersInv
  <2>1. CASE q = p
    BY <1>2, <1>3, <1>6, <2>1
  <2>2. CASE q # p
    BY <1>2, <1>3, <2>2 DEF HeadersInv
  <2> QED
    BY <2>1, <2>2
<1>14. ListsInv(k)
  <2> SUFFICES ASSUME NEW d \in Caches
               PROVE  /\ Chained(Roomy(k, d), k.partial[d], NextIn(k))
                      /\ Chained(Crowded(k, d), k.full[d], NextIn(k))
    BY DEF ListsInv
  <2>1. /\ Chained(Roomy(h, d), h.partial[d], NextIn(h))
        /\ Chained(Crowded(h, d), h.full[d], NextIn(h))
    BY <1>2 DEF ListsInv
  <2>2. d # 0 /\ h.partial \in [Caches -> Frames \cup {NULL}]
    BY <1>2, Sizes DEF HeapType
  <2>3. /\ p \notin Roomy(h, d) /\ p \notin Crowded(h, d)
        /\ Roomy(h, d) \subseteq Frames /\ Crowded(h, d) \subseteq Frames
    BY <1>10, <2>2 DEF Roomy, Crowded
  <2>4. \A y \in Roomy(h, d) \cup Crowded(h, d) : NextIn(k)[y] = NextIn(h)[y]
    BY <1>3, <2>3 DEF NextIn
  <2>5. Crowded(k, d) = Crowded(h, d)
    BY <1>3, <1>6, <2>3 DEF Crowded
  <2>6. Chained(Crowded(k, d), k.full[d], NextIn(k))
    BY <1>3, <2>1, <2>4, <2>5, SameChain
  <2>7. CASE d = c
    <3>1. Roomy(k, d) = Roomy(h, d) \cup {p}
      BY <1>1, <1>3, <1>6, <2>3, <2>7 DEF Roomy
    <3>2. NextIn(k)[p] = h.partial[d] /\ k.partial[d] = p /\ p # NULL
      BY <1>1, <1>3, <2>2, <2>7, FrameFacts DEF NextIn
    <3>3. Chained(Roomy(h, d) \cup {p}, p, NextIn(k))
      BY <2>1, <2>3, <2>4, <3>2, PushChain
    <3> QED
      BY <2>6, <3>1, <3>2, <3>3
  <2>8. CASE d # c
    <3>1. Roomy(k, d) = Roomy(h, d) /\ k.partial[d] = h.partial[d]
      BY <1>3, <2>2, <2>3, <2>8 DEF Roomy
    <3> QED
      BY <2>1, <2>4, <2>6, <3>1, SameChain
  <2> QED
    BY <2>7, <2>8
<1>15. LiveInv(k, L)
  <2>1. \A b \in L : BlockOf(k, b)
    BY <1>2, <1>11, <1>12 DEF LiveInv, BlockOf
  <2> QED
    BY <1>2, <2>1 DEF LiveInv
<1>16. FreeInv(k, L)
  <2> SUFFICES ASSUME NEW q \in SlabsIn(k)
               PROVE  /\ Chained(FreeIn(k, L, q), k.hdr[q].free, k.word)
                      /\ Cardinality(FreeIn(k, L, q)) = k.hdr[q].total - k.hdr[q].used
    BY DEF FreeInv
  <2>1. /\ SlotsOf(p, c) \subseteq Addresses /\ \A x \in SlotsOf(p, c) : PageOf(x) = p
        /\ Cardinality(SlotsOf(p, c)) = SlotsPerSlab(c)
    BY <1>1, <1>2, SlotFacts
  <2>2. CASE q = p
    <3>1. FreeIn(k, L, p) = SlotsOf(p, c)
      <4>1. \A x \in SlotsOf(p, c) : x \notin AddrsOf(L)
        BY <1>2, <1>10, <2>1 DEF AddrsOf, LiveInv, BlockOf
      <4> QED
        BY <1>3, <4>1 DEF FreeIn
    <3>2. \A x \in SlotsOf(p, c) :
             k.word[x] = IF x + Buckets[c] \in SlotsOf(p, c) THEN x + Buckets[c] ELSE NULL
      BY <1>5, <2>1
    <3>3. Chained(SlotsOf(p, c), SlotAddr(p, c, 0), k.word)
      BY <1>1, <1>2, <3>2, NewChain
    <3> QED
      BY <1>3, <1>6, <2>1, <2>2, <3>1, <3>3
  <2>3. CASE q # p
    <3>1. q \in SlabsIn(h) /\ k.hdr[q] = h.hdr[q]
      BY <1>11, <1>12, <2>3
    <3>2. FreeIn(k, L, q) = FreeIn(h, L, q)
      BY <3>1 DEF FreeIn
    <3>3. \A x \in FreeIn(h, L, q) : x \in Addresses /\ PageOf(x) = q
      BY <1>2, <3>1, SlabFinite
    <3>4. \A x \in FreeIn(h, L, q) : k.word[x] = h.word[x]
      BY <1>5, <2>1, <2>3, <3>3
    <3>5. Chained(FreeIn(h, L, q), h.hdr[q].free, h.word)
          /\ Cardinality(FreeIn(h, L, q)) = h.hdr[q].total - h.hdr[q].used
      BY <1>2, <3>1 DEF FreeInv
    <3>6. Chained(FreeIn(h, L, q), h.hdr[q].free, k.word)
      BY <3>4, <3>5, SameChain
    <3> QED
      BY <3>1, <3>2, <3>5, <3>6
  <2> QED
    BY <2>2, <2>3
<1>17. \A q \in SlabsIn(h) : \A v \in SpanIn(h, q) : k.hhdm[v] = h.hhdm[v] /\ h.hhdm[v] \notin h.pool
  BY <1>2, <1>4, <1>9 DEF PagesInv
<1>18. \A v \in new : v \in Frames /\ k.hhdm[v] = Nth(T, v - p) /\ k.hhdm[v] \in T
  BY <1>1, <1>4
<1>19. PagesInv(k)
  <2>1. \A q \in SlabsIn(k) : \A v \in SpanIn(k, q) :
           v \in Frames /\ k.hhdm[v] \notin k.pool /\ \A x \in k.pool : v < x
    <3> SUFFICES ASSUME NEW q \in SlabsIn(k), NEW v \in SpanIn(k, q)
                 PROVE  v \in Frames /\ k.hhdm[v] \notin k.pool /\ \A x \in k.pool : v < x
      OBVIOUS
    <3>1. CASE q = p
      BY <1>1, <1>3, <1>12, <1>18, <3>1
    <3>2. CASE q # p
      <4>1. q \in SlabsIn(h) /\ v \in SpanIn(h, q)
        BY <1>11, <1>12, <3>2
      <4> QED
        BY <1>2, <1>3, <1>17, <4>1 DEF PagesInv
    <3> QED
      BY <3>1, <3>2
  <2>2. \A q, r \in SlabsIn(k) :
           /\ q # r => SpanIn(k, q) \cap SpanIn(k, r) = {}
           /\ \A v \in SpanIn(k, q), w \in SpanIn(k, r) : v # w => k.hhdm[v] # k.hhdm[w]
    <3> SUFFICES ASSUME NEW q \in SlabsIn(k), NEW r \in SlabsIn(k)
                 PROVE  /\ q # r => SpanIn(k, q) \cap SpanIn(k, r) = {}
                        /\ \A v \in SpanIn(k, q), w \in SpanIn(k, r) :
                              v # w => k.hhdm[v] # k.hhdm[w]
      OBVIOUS
    <3>1. CASE q = p /\ r = p
      <4>1. \A v, w \in new : v # w => k.hhdm[v] # k.hhdm[w]
        BY <1>1, <1>18
      <4> QED
        BY <1>12, <3>1, <4>1
    <3>2. CASE q # p /\ r # p
      <4>1. q \in SlabsIn(h) /\ r \in SlabsIn(h) /\ SpanIn(k, q) = SpanIn(h, q)
            /\ SpanIn(k, r) = SpanIn(h, r)
        BY <1>11, <1>12, <3>2
      <4> QED
        BY <1>2, <1>17, <4>1 DEF PagesInv
    <3>3. \A s \in SlabsIn(k) \ {p} :
             /\ SpanIn(k, s) \cap SpanIn(k, p) = {}
             /\ \A v \in SpanIn(k, s), w \in SpanIn(k, p) : k.hhdm[v] # k.hhdm[w]
      <4> SUFFICES ASSUME NEW s \in SlabsIn(k) \ {p}
                   PROVE  /\ SpanIn(k, s) \cap SpanIn(k, p) = {}
                          /\ \A v \in SpanIn(k, s), w \in SpanIn(k, p) : k.hhdm[v] # k.hhdm[w]
        OBVIOUS
      <4>1. s \in SlabsIn(h) /\ SpanIn(k, s) = SpanIn(h, s) /\ SpanIn(k, p) = new
        BY <1>11, <1>12
      <4>2. \A v \in SpanIn(h, s) : k.hhdm[v] \notin T
        BY <1>1, <1>17, <4>1
      <4> QED
        BY <1>9, <1>18, <4>1, <4>2
    <3> QED
      BY <3>1, <3>2, <3>3
  <2> QED
    BY <2>1, <2>2 DEF PagesInv
<1> QED
  BY <1>3, <1>13, <1>14, <1>15, <1>16, <1>19 DEF HeapInv

----
\* Blocks and walks.

\* kmalloc from the head of the partial list takes no frame and moves no slab to another cache.
LEMMA TakeShape ==
    ASSUME NEW h, NEW L, NEW size, NEW c, NEW s, NEW a, NEW b, NEW k, NEW m,
           Taking(h, L, size, c, s, a, b, k, m)
    PROVE  m.pool = h.pool /\ SameSlabs(h, m)
<1>1. c \in Caches /\ HeapInv(h, L) /\ h \in HeapType /\ s = h.partial[c] /\ s # NULL
      /\ a = h.hdr[s].free /\ k = TakeSlot(h, c) /\ m = Filled(k, b)
  BY DEF Taking, HeapInv, BucketFor
<1>2. /\ s \in Frames /\ h.hdr[s].used + 1 \in Nat /\ h.word[a] \in Addresses \cup {NULL}
  BY <1>1, HeadSlab
<1> DEFINE used == h.hdr[s].used + 1
           total == h.hdr[s].total
           next == IF used = total THEN h.full[c] ELSE h.hdr[s].next
<1>3. /\ k.word = h.word /\ k.pool = h.pool
      /\ DOMAIN k = {"partial", "full", "hdr", "word", "pool", "hhdm"}
      /\ k.hdr = Changed(h, s, next, h.word[a], used)
  BY <1>1, TakeSlotShape
<1>4. h.hdr \in [Frames -> HeaderType] /\ h.word \in [Addresses -> Pointer]
      /\ next \in Frames \cup {NULL}
  BY <1>1, <1>2 DEF HeapType, HeaderType
<1> HIDE DEF next, used
<1>5. Rewritten(h, Changed(h, s, next, h.word[a], used), s, next, h.word[a], used)
  BY <1>2, <1>4, ChangedFields DEF used
<1>6. Wrote(k, b, Filled(k, b))
  BY <1>3, <1>4, FilledShape
<1>7. m.pool = h.pool /\ m.hdr = k.hdr
  BY <1>1, <1>3, <1>6 DEF Wrote
<1>8. SameSlabs(h, m)
  BY <1>2, <1>3, <1>5, <1>7 DEF Rewritten, SameSlabs
<1> QED
  BY <1>7, <1>8

\* Blocks in use share no byte.
LEMMA BlocksApart ==
    ASSUME RequestsFit, NEW h, NEW L, HeapInv(h, L), NEW x \in L, NEW y \in L, x # y
    PROVE  (x.addr .. x.addr + x.size - 1) \cap (y.addr .. y.addr + y.size - 1) = {}
<1> DEFINE p == PageOf(x.addr)
           q == PageOf(y.addr)
           c == h.hdr[p].cache
           d == h.hdr[q].cache
<1>1. h \in HeapType /\ LiveInv(h, L) /\ PagesInv(h)
  BY DEF HeapInv
<1>2. /\ x.size \in Requests /\ y.size \in Requests /\ x.addr # y.addr
      /\ p \in SlabsIn(h) /\ q \in SlabsIn(h)
      /\ x.addr \in SlotsOf(p, c) /\ y.addr \in SlotsOf(q, d)
      /\ c \in BucketFor(x.size) /\ d \in BucketFor(y.size)
  BY <1>1 DEF LiveInv, BlockOf
<1>3. p \in Frames /\ q \in Frames /\ p \in Nat /\ q \in Nat /\ c \in Caches
  BY <1>2, FrameFacts DEF SlabsIn, BucketFor
<1>4. SUFFICES ASSUME NEW z, z \in x.addr .. x.addr + x.size - 1, z \in y.addr .. y.addr + y.size - 1
               PROVE  FALSE
  OBVIOUS
<1>5. PageOf(z) \in SpanIn(h, p) /\ PageOf(z) \in SpanIn(h, q)
  <2>1. PageOf(z) \in p .. p + PagesPerSlab(c) - 1
    <3> HIDE DEF p, c
    <3> QED
      BY <1>2, <1>3, <1>4, BlockInSpan
  <2>2. PageOf(z) \in q .. q + PagesPerSlab(d) - 1
    <3> HIDE DEF q, d
    <3> QED
      BY <1>2, <1>3, <1>4, BlockInSpan
  <2> QED
    BY <2>1, <2>2 DEF SpanIn
<1>6. p = q
  BY <1>1, <1>2, <1>5 DEF PagesInv
<1>7. x.addr \in SlotsOf(p, c) /\ y.addr \in SlotsOf(p, c) /\ c \in BucketFor(y.size)
  BY <1>2, <1>6
<1> HIDE DEF p, q, c, d
<1>8. x.addr + Buckets[c] <= y.addr \/ y.addr + Buckets[c] <= x.addr
  BY <1>2, <1>3, <1>7, SlotsApart
<1>9. /\ x.addr \in Nat /\ y.addr \in Nat /\ x.size \in Nat /\ y.size \in Nat
      /\ x.size <= Buckets[c] /\ y.size <= Buckets[c] /\ Buckets[c] \in Nat
  BY <1>2, <1>3, <1>7, SlotFacts, Sizes, SlabAssumption DEF BucketFor
<1> QED
  BY <1>4, <1>8, <1>9

\* Walking the free list of a slab meets its free slots.
LEMMA FreeWalkMeets ==
    ASSUME HeapInv(heap, live), NEW p \in SlabsIn(heap)
    PROVE  /\ FreeSlots(p) = FreeIn(heap, live, p)
           /\ FreeWalk(p)[Cardinality(FreeSlots(p))] = NULL
           /\ Cardinality(FreeSlots(p)) = heap.hdr[p].total - heap.hdr[p].used
<1> DEFINE C == heap.hdr[p].total
           S == FreeIn(heap, live, p)
           head == heap.hdr[p].free
           w == FreeWalk(p)
<1>1. heap \in HeapType /\ HeadersInv(heap) /\ FreeInv(heap, live)
  BY DEF HeapInv
<1>2. p \in Frames /\ heap.hdr[p].cache \in Caches /\ heap.hdr[p].cache # 0
  BY <1>1, Sizes DEF SlabsIn, HeapType, HeaderType
<1>3. C \in Nat /\ heap.hdr[p].used \in Nat /\ heap.hdr[p].used <= C
  BY <1>1, <1>2 DEF HeadersInv, HeapType, HeaderType
<1>4. Chained(S, head, heap.word) /\ Cardinality(S) = C - heap.hdr[p].used
  BY <1>1 DEF FreeInv
<1>5. \A x \in S : x # NULL /\ x # Data
  <2>1. \A x \in S : x \in Nat /\ x # NULL
    BY <1>1, SlabFinite
  <2> HIDE DEF S
  <2> QED
    BY <2>1 DEF Data
<1>0. PICK n \in Nat : \E s : Linked(n, s, S, head, heap.word)
  BY <1>4 DEF Chained
<1>6. PICK s : Linked(n, s, S, head, heap.word)
  BY <1>0
<1>7. n = Cardinality(S)
  <2> DEFINE f == [i \in 1 .. n |-> s[i]]
  <2>1. f \in Injection(1 .. n, S) /\ f \in Surjection(1 .. n, S)
    BY <1>6 DEF Linked, Injection, IsInjective, Surjection
  <2>2. ExistsBijection(1 .. n, S)
    BY <2>1 DEF Bijection, ExistsBijection
  <2>3. Cardinality(1 .. n) = n /\ IsFiniteSet(1 .. n)
    <3>1. IsFiniteSet(1 .. n) /\ Cardinality(1 .. n) = IF 1 > n THEN 0 ELSE n - 1 + 1
      BY FS_Interval
    <3> QED
      BY <3>1
  <2> HIDE DEF S
  <2> QED
    BY <2>2, <2>3, FS_Bijection
<1>8. n <= C
  BY <1>3, <1>4, <1>7
<1> DEFINE W == [m \in 0 .. C |-> IF m <= n THEN s[m + 1] ELSE NULL]
<1>9. W = [m \in 0 .. C |-> IF m = 0 THEN head
                            ELSE IF W[m-1] \in {NULL, Data} THEN W[m-1] ELSE heap.word[W[m-1]]]
  <2> SUFFICES ASSUME NEW m \in 0 .. C
               PROVE  W[m] = IF m = 0 THEN head
                             ELSE IF W[m-1] \in {NULL, Data} THEN W[m-1] ELSE heap.word[W[m-1]]
    OBVIOUS
  <2>1. CASE m = 0
    BY <1>6, <2>1 DEF Linked
  <2> HIDE DEF C, S, head
  <2>2. CASE m # 0 /\ m <= n
    <3>1. m - 1 \in 0 .. C /\ m \in 1 .. n /\ W[m] = s[m + 1] /\ W[m - 1] = s[m]
      <4>1. m - 1 \in 0 .. C /\ m \in 1 .. n /\ m - 1 <= n /\ (m - 1) + 1 = m
        BY <1>3, <2>2
      <4> QED
        BY <2>2, <4>1
    <3>2. s[m] \in S /\ heap.word[s[m]] = s[m + 1]
      BY <1>6, <3>1 DEF Linked
    <3>3. s[m] \notin {NULL, Data}
      BY <1>5, <3>2
    <3> HIDE DEF W
    <3> QED
      BY <2>2, <3>1, <3>2, <3>3
  <2>3. CASE m > n
    <3>1. m - 1 \in 0 .. C /\ W[m] = NULL /\ m # 0
      <4>1. m - 1 \in 0 .. C /\ m # 0 /\ ~(m <= n)
        BY <1>3, <1>6, <2>3
      <4> QED
        BY <4>1
    <3>2. W[m - 1] = NULL
      <4>1. CASE m - 1 = n
        <5>1. W[m - 1] = s[n + 1]
          BY <3>1, <4>1
        <5> QED
          BY <1>6, <5>1 DEF Linked
      <4>2. CASE m - 1 # n
        <5>1. ~(m - 1 <= n)
          BY <1>3, <2>3, <4>2
        <5> QED
          BY <3>1, <5>1
      <4> QED
        BY <4>1, <4>2
    <3> HIDE DEF W
    <3> QED
      BY <3>1, <3>2
  <2> QED
    BY <1>3, <2>1, <2>2, <2>3
<1> HIDE DEF W
<1>10. w = [m \in 0 .. C |-> IF m = 0 THEN head
                             ELSE IF w[m-1] \in {NULL, Data} THEN w[m-1] ELSE heap.word[w[m-1]]]
  BY <1>9 DEF FreeWalk
<1>11. FreeSlots(p) = {w[m] : m \in 0 .. C} \ {NULL}
  BY DEF FreeSlots
<1> HIDE DEF w
<1> DEFINE Wrong == {m \in 0 .. C : w[m] # W[m]}
<1>12. Wrong = {}
  <2> SUFFICES ASSUME Wrong # {} PROVE FALSE
    OBVIOUS
  <2>1. Wrong \subseteq Nat
    OBVIOUS
  <2> HIDE DEF Wrong
  <2>2. PICK m \in Wrong : \A k \in Wrong : m <= k
    BY <2>1, LeastElement
  <2> USE DEF Wrong
  <2>3. CASE m = 0
    BY <1>9, <1>10, <2>2, <2>3
  <2>4. CASE m # 0
    <3>1. m - 1 \in 0 .. C /\ m - 1 \notin Wrong /\ m \in 0 .. C
      <4>1. m \in 0 .. C
        OBVIOUS
      <4> HIDE DEF C
      <4>2. m - 1 \in 0 .. C /\ ~(m <= m - 1)
        BY <1>3, <2>4, <4>1
      <4> HIDE DEF Wrong
      <4> QED
        BY <2>2, <4>1, <4>2
    <3>2. w[m - 1] = W[m - 1]
      BY <3>1
    <3>3. w[m] = IF w[m-1] \in {NULL, Data} THEN w[m-1] ELSE heap.word[w[m-1]]
      BY <1>10, <2>4, <3>1
    <3>4. W[m] = IF W[m-1] \in {NULL, Data} THEN W[m-1] ELSE heap.word[W[m-1]]
      BY <1>9, <2>4, <3>1
    <3> QED
      BY <2>2, <3>2, <3>3, <3>4
  <2> QED
    BY <2>3, <2>4
<1>13. \A m \in 0 .. C : w[m] = IF m <= n THEN s[m + 1] ELSE NULL
  BY <1>12 DEF W
<1>14. ASSUME NEW x \in S PROVE x \in FreeSlots(p)
  <2>1. PICK i \in 1 .. n : s[i] = x
    BY <1>6 DEF Linked
  <2>2. i - 1 \in 0 .. C /\ i - 1 <= n /\ (i - 1) + 1 = i
    BY <1>3, <1>8
  <2>3. w[i - 1] = x
    BY <1>13, <2>1, <2>2
  <2> QED
    BY <1>5, <1>11, <2>2, <2>3
<1>15. ASSUME NEW m \in 0 .. C, w[m] # NULL PROVE w[m] \in S
  <2>1. m <= n /\ w[m] = s[m + 1]
    BY <1>13, <1>15
  <2>2. m + 1 \in 1 .. n
    BY <1>6, <1>15, <2>1 DEF Linked
  <2> QED
    BY <1>6, <2>1, <2>2 DEF Linked
<1>16. FreeSlots(p) = S
  BY <1>11, <1>14, <1>15
<1>17. w[n] = NULL
  <2>1. n \in 0 .. C /\ n <= n
    BY <1>3, <1>8
  <2> QED
    BY <1>6, <1>13, <2>1 DEF Linked
<1> QED
  BY <1>4, <1>7, <1>16, <1>17 DEF w

----
\* The invariant of the specification.

IInv == HeapInv(heap, live) /\ halted \in BOOLEAN

\* The invariant holds before the first call.
LEMMA InitKeeps == Init => IInv
<1> SUFFICES ASSUME Init PROVE IInv
  OBVIOUS
<1> USE DEF Init
<1>1. /\ heap.partial = [c \in Caches |-> NULL] /\ heap.full = [c \in Caches |-> NULL]
      /\ heap.hdr = [p \in Frames |-> NoHeader] /\ heap.word = [a \in Addresses |-> Data]
      /\ heap.pool = FirstPool /\ heap.hhdm = [p \in Frames |-> p]
      /\ live = {} /\ halted \in BOOLEAN
  OBVIOUS
<1>2. heap \in HeapType
  <2>1. NoHeader \in HeaderType
    BY DEF NoHeader, HeaderType
  <2>2. [p \in Frames |-> NoHeader] \in [Frames -> HeaderType]
    BY <2>1
  <2>3. /\ [c \in Caches |-> NULL] \in [Caches -> Frames \cup {NULL}]
        /\ [a \in Addresses |-> Data] \in [Addresses -> Pointer]
        /\ FirstPool \in SUBSET FirstPool /\ [p \in Frames |-> p] \in [Frames -> Frames]
    BY DEF Pointer
  <2> QED
    BY <2>2, <2>3 DEF HeapType
<1>3. \A p \in Frames : heap.hdr[p] = NoHeader /\ heap.hdr[p].cache = 0
  BY <1>1 DEF NoHeader
<1> DEFINE h == heap
<1>4. SlabsIn(h) = {} /\ HeadersInv(h)
  BY <1>3 DEF SlabsIn, HeadersInv
<1>5. ListsInv(h)
  <2> SUFFICES ASSUME NEW c \in Caches
               PROVE  /\ Chained(Roomy(h, c), h.partial[c], NextIn(h))
                      /\ Chained(Crowded(h, c), h.full[c], NextIn(h))
    BY DEF ListsInv
  <2>1. c # 0
    BY Sizes
  <2>2. Roomy(h, c) = {} /\ Crowded(h, c) = {}
    BY <1>3, <2>1 DEF Roomy, Crowded
  <2>3. h.partial[c] = NULL /\ h.full[c] = NULL
    BY <1>1
  <2> QED
    BY <2>2, <2>3, EmptyChain
<1>6. FreeInv(h, live) /\ PagesInv(h)
  BY <1>4 DEF FreeInv, PagesInv
<1>7. LiveInv(h, live)
  BY <1>1 DEF LiveInv
<1> QED
  BY <1>1, <1>2, <1>4, <1>5, <1>6, <1>7 DEF IInv, HeapInv

\* What a call of kmalloc that returns has done.
LEMMA Refilled ==
    ASSUME HeapInv(heap, live), NEW c \in Caches, Enough(c)
    PROVE  LET h == Refill(heap, c)
           IN  HeapInv(h, live) /\ h.partial[c] \in Frames /\ h.partial[c] # NULL
<1> DEFINE T == Taken(heap.pool, PagesPerSlab(c))
           p == Lowest(T)
           h == Refill(heap, c)
<1>1. CASE heap.partial[c] = NULL
  <2>1. Growing(heap, live, c, T, p, h)
    BY <1>1 DEF Growing, Refill, Enough
  <2> HIDE DEF T, p, h
  <2>2. HeapInv(h, live) /\ Grown(heap, h, c, T, p)
    BY <2>1, NewKeeps, NewShape
  <2>3. p \in Frames
    BY <2>1, NewFrames
  <2>4. heap.partial \in [Caches -> Frames \cup {NULL}]
    BY DEF HeapInv, HeapType
  <2>5. h.partial[c] = p
    BY <2>2, <2>4 DEF Grown
  <2> QED
    BY <2>2, <2>3, <2>5, FrameFacts DEF h
<1>2. CASE heap.partial[c] # NULL
  <2>1. h = heap
    BY <1>2 DEF Refill
  <2> QED
    BY <1>2, <2>1 DEF HeapInv, HeapType
<1> QED
  BY <1>1, <1>2

\* A call of kmalloc that returns keeps the invariant and returns a slot that was free.
LEMMA AllocationKeeps ==
    ASSUME RequestsFit, IInv, NEW size \in Requests, kmalloc(size)
    PROVE  /\ IInv'
           /\ \E b \in [addr: Addresses, size: Requests] :
                 live' = live \cup {b} /\ b.addr \notin AddrsOf(live)
<1>1. PICK c \in BucketFor(size) :
         /\ Enough(c)
         /\ LET h == Refill(heap, c)
                b == [addr |-> h.hdr[h.partial[c]].free, size |-> size]
            IN  heap' = Filled(TakeSlot(h, c), b) /\ live' = live \cup {b}
  BY DEF kmalloc
<1> DEFINE h == Refill(heap, c)
           s == h.partial[c]
           a == h.hdr[s].free
           b == [addr |-> a, size |-> size]
           k == TakeSlot(h, c)
<1>2. c \in Caches /\ HeapInv(h, live) /\ s # NULL
  BY <1>1, Refilled DEF BucketFor, IInv
<1>3. heap' = Filled(k, b) /\ live' = live \cup {b} /\ halted' = halted
  BY <1>1 DEF kmalloc
<1>4. Taking(h, live, size, c, s, a, b, k, heap')
  BY <1>2, <1>3 DEF Taking
<1>5. a \in FreeIn(h, live, s) /\ a \in Addresses
  BY <1>2, HeadSlab
<1>6. b \in [addr: Addresses, size: Requests] /\ b.addr = a
  BY <1>5
<1> HIDE DEF h, s, a, b, k
<1>7. HeapInv(heap', live')
  BY <1>3, <1>4, TakeKeeps
<1>8. a \notin AddrsOf(live)
  BY <1>5 DEF FreeIn
<1> QED
  BY <1>3, <1>6, <1>7, <1>8 DEF IInv

\* A call of kfree keeps the invariant.
LEMMA FreeKeeps ==
    ASSUME IInv, NEW b \in live, kfree(b)
    PROVE  IInv' /\ heap'.pool = heap.pool /\ live' = live \ {b}
<1> DEFINE a == b.addr
           s == PageOf(a)
           c == heap.hdr[s].cache
<1>1. Giving(heap, live, b, s, c, a, heap') /\ live' = live \ {b} /\ halted' = halted
  BY DEF Giving, kfree, IInv
<1> HIDE DEF a, s, c
<1>2. HeapInv(heap', live \ {b}) /\ GivenBack(heap, heap', s, c, a)
  BY <1>1, GiveKeeps, GiveShape
<1> QED
  BY <1>1, <1>2 DEF IInv, GivenBack

\* Every step keeps the invariant.
LEMMA NextKeeps == RequestsFit /\ IInv /\ [Next]_vars => IInv'
<1> SUFFICES ASSUME RequestsFit, IInv, [Next]_vars PROVE IInv'
  OBVIOUS
<1>1. CASE \E size \in Requests : kmalloc(size)
  BY <1>1, AllocationKeeps
<1>2. CASE \E size \in Requests : kmallocOutOfMemory(size)
  BY <1>2 DEF kmallocOutOfMemory, IInv
<1>3. CASE \E b \in live : kfree(b)
  BY <1>3, FreeKeeps
<1>4. CASE UNCHANGED vars
  BY <1>4 DEF vars, IInv
<1> QED
  BY <1>1, <1>2, <1>3, <1>4 DEF Next

\* The invariant holds in every reachable state.
LEMMA Invariant == RequestsFit => (Spec => []IInv)
<1> SUFFICES ASSUME RequestsFit PROVE Spec => []IInv
  OBVIOUS
<1>1. IInv /\ [Next]_vars => IInv'
  BY NextKeeps
<1> QED
  BY <1>1, InitKeeps, PTL DEF Spec

----
\* The properties.

\* A frame has a header exactly when it has a cache.
LEMMA SlabsAreSlabs ==
    ASSUME HeapInv(heap, live)
    PROVE  /\ Slabs = SlabsIn(heap) /\ Slabs \subseteq Frames
           /\ \A p \in Slabs : /\ heap.hdr[p].cache \in Caches
                               /\ heap.hdr[p].used \in Nat /\ heap.hdr[p].total \in Nat
                               /\ heap.hdr[p].used <= heap.hdr[p].total
<1>1. heap \in HeapType /\ HeadersInv(heap)
  BY DEF HeapInv
<1>2. NoHeader.cache = 0
  BY DEF NoHeader
<1>3. \A p \in Frames : heap.hdr[p] = NoHeader <=> heap.hdr[p].cache = 0
  BY <1>1, <1>2 DEF HeadersInv
<1>4. Slabs = SlabsIn(heap) /\ Slabs \subseteq Frames
  BY <1>3 DEF Slabs, SlabsIn
<1> SUFFICES ASSUME NEW p \in Slabs
             PROVE  /\ heap.hdr[p].cache \in Caches
                    /\ heap.hdr[p].used \in Nat /\ heap.hdr[p].total \in Nat
                    /\ heap.hdr[p].used <= heap.hdr[p].total
  BY <1>4
<1>5. p \in Frames /\ heap.hdr[p].cache # 0
  BY <1>4 DEF SlabsIn
<1> QED
  BY <1>1, <1>5 DEF HeadersInv, HeapType, HeaderType

\* The invariant implies the types.
LEMMA TypesHold == ASSUME IInv PROVE TypeOK
BY DEF IInv, HeapInv, HeapType, HeaderType, LiveInv, TypeOK

\* The chains are what walking the lists meets.
LEMMA ListsHold == ASSUME IInv PROVE SlabsOnTheirList
<1>1. HeapInv(heap, live) /\ ListsInv(heap)
  BY DEF IInv, HeapInv
<1> SUFFICES ASSUME NEW c \in Caches
             PROVE
        /\ OnList(heap, heap.partial[c]) =
              {p \in Slabs : heap.hdr[p].cache = c /\ heap.hdr[p].used < heap.hdr[p].total}
        /\ OnList(heap, heap.full[c]) =
              {p \in Slabs : heap.hdr[p].cache = c /\ heap.hdr[p].used = heap.hdr[p].total}
        /\ Walk(heap, heap.partial[c])[Cardinality(Frames)] = NULL
        /\ Walk(heap, heap.full[c])[Cardinality(Frames)] = NULL
  BY DEF SlabsOnTheirList
<1>2. /\ Chained(Roomy(heap, c), heap.partial[c], NextIn(heap)) /\ Roomy(heap, c) \subseteq Frames
      /\ Chained(Crowded(heap, c), heap.full[c], NextIn(heap)) /\ Crowded(heap, c) \subseteq Frames
  BY <1>1 DEF ListsInv, Roomy, Crowded
<1>3. /\ OnList(heap, heap.partial[c]) = Roomy(heap, c)
      /\ Walk(heap, heap.partial[c])[Cardinality(Frames)] = NULL
  BY <1>2, WalkMeets
<1>4. /\ OnList(heap, heap.full[c]) = Crowded(heap, c)
      /\ Walk(heap, heap.full[c])[Cardinality(Frames)] = NULL
  BY <1>2, WalkMeets
<1>5. c # 0
  BY Sizes
<1>6. \A p \in Frames : heap.hdr[p].cache = c => p \in Slabs
  BY <1>1, <1>5, SlabsAreSlabs DEF SlabsIn
<1>7. Roomy(heap, c) = {p \in Slabs : heap.hdr[p].cache = c /\ heap.hdr[p].used < heap.hdr[p].total}
  BY <1>1, <1>6, SlabsAreSlabs DEF Roomy
<1>8. Crowded(heap, c) =
         {p \in Slabs : heap.hdr[p].cache = c /\ heap.hdr[p].used = heap.hdr[p].total}
  BY <1>1, <1>6, SlabsAreSlabs DEF Crowded
<1> QED
  BY <1>3, <1>4, <1>7, <1>8

\* And what walking the free lists meets.
LEMMA FreeListsHold == ASSUME IInv PROVE FreeListsAreExact
<1>1. HeapInv(heap, live) /\ Slabs = SlabsIn(heap)
  BY SlabsAreSlabs DEF IInv
<1>2. ASSUME NEW p \in Slabs
      PROVE  /\ FreeSlots(p) = SlotsOf(p, heap.hdr[p].cache) \ {b.addr : b \in live}
             /\ Cardinality(FreeSlots(p)) = heap.hdr[p].total - heap.hdr[p].used
             /\ FreeWalk(p)[Cardinality(FreeSlots(p))] = NULL
  BY <1>1, FreeWalkMeets DEF FreeIn, AddrsOf
<1> QED
  BY <1>2 DEF FreeListsAreExact

\* The invariant implies that pages are not shared.
LEMMA PagesHold == ASSUME IInv PROVE SlabPagesAreTheirOwn
<1>1. HeapInv(heap, live) /\ PagesInv(heap) /\ Slabs = SlabsIn(heap)
  BY SlabsAreSlabs DEF IInv, HeapInv
<1>2. \A p \in Slabs : Span(p) = SpanIn(heap, p)
  BY DEF Span, SpanIn
<1> QED
  BY <1>1, <1>2 DEF PagesInv, SlabPagesAreTheirOwn

(* The heap keeps its types, for all buckets, pages and requests that fit. *)
THEOREM HeapTypeCorrect == RequestsFit => (Spec => []TypeOK)
<1> SUFFICES ASSUME RequestsFit PROVE Spec => []TypeOK
  OBVIOUS
<1>1. Spec => []IInv
  BY Invariant
<1>2. IInv => TypeOK
  BY TypesHold
<1> QED
  BY <1>1, <1>2, PTL

(* In every order of calls each slab is on the one list its counter says, its free list is exactly
   its slots not in use, and its pages are its own (mem.c:365-450). *)
THEOREM HeapStaysConsistent == RequestsFit => (Spec => []HeapIsConsistent)
<1> SUFFICES ASSUME RequestsFit PROVE Spec => []HeapIsConsistent
  OBVIOUS
<1>1. Spec => []IInv
  BY Invariant
<1>2. IInv => HeapIsConsistent
  BY ListsHold, FreeListsHold, PagesHold DEF HeapIsConsistent
<1> QED
  BY <1>1, <1>2, PTL

(* A block never reaches past the pages of its slab. *)
THEOREM BlocksStayInTheirSlab == RequestsFit => (Spec => []BlockFitsItsPages)
<1> SUFFICES ASSUME RequestsFit PROVE Spec => []BlockFitsItsPages
  OBVIOUS
<1>1. Spec => []IInv
  BY Invariant
<1>2. IInv => BlockFitsItsPages
  <2> SUFFICES ASSUME IInv, NEW b \in live
               PROVE  PageOf(b.addr + b.size - 1) \in Span(PageOf(b.addr))
    BY DEF BlockFitsItsPages
  <2> DEFINE p == PageOf(b.addr)
             c == heap.hdr[p].cache
  <2>1. /\ p \in SlabsIn(heap) /\ b.addr \in SlotsOf(p, c) /\ c \in BucketFor(b.size)
        /\ b.size \in Requests
    BY DEF IInv, HeapInv, LiveInv, BlockOf
  <2>2. p \in Frames /\ p \in Nat /\ c \in Caches
    BY <2>1, FrameFacts DEF SlabsIn, BucketFor
  <2>3. Span(p) = p .. p + PagesPerSlab(c) - 1
    BY DEF Span
  <2> HIDE DEF p, c
  <2>4. b.addr \in Nat /\ b.size \in Nat \ {0}
    BY <2>1, <2>2, SlotFacts, SlabAssumption
  <2>5. b.addr + b.size - 1 \in b.addr .. b.addr + b.size - 1
    BY <2>4
  <2> QED
    BY <2>1, <2>2, <2>3, <2>5, BlockInSpan DEF p
<1> QED
  BY <1>1, <1>2, PTL

(* kmalloc and kfree implement the abstract allocator: no two blocks in use share a byte. *)
THEOREM BlocksAreOwn == RequestsFit => (Spec => ImplementsBlockAllocator)
<1> SUFFICES ASSUME RequestsFit PROVE Spec => ImplementsBlockAllocator
  OBVIOUS
<1>1. Init => Abs!AbsInit
  BY DEF Init, Abs!AbsInit
<1>2. IInv /\ [Next]_vars => [Abs!Allocate \/ Abs!Release]_live
  <2> SUFFICES ASSUME IInv, [Next]_vars
               PROVE  Abs!Allocate \/ Abs!Release \/ live' = live
    OBVIOUS
  <2>1. CASE \E size \in Requests : kmalloc(size)
    <3>1. PICK size \in Requests : kmalloc(size)
      BY <2>1
    <3>2. /\ IInv'
          /\ \E b \in [addr: Addresses, size: Requests] :
                live' = live \cup {b} /\ b.addr \notin AddrsOf(live)
      BY <3>1, AllocationKeeps
    <3>3. PICK b \in [addr: Addresses, size: Requests] :
             live' = live \cup {b} /\ b.addr \notin AddrsOf(live)
      BY <3>2
    <3>4. HeapInv(heap', live')
      BY <3>2 DEF IInv
    <3>5. \A y \in live : Abs!Apart(b, y)
      <4> SUFFICES ASSUME NEW y \in live PROVE Abs!Apart(b, y)
        OBVIOUS
      <4>1. y \in live' /\ b \in live' /\ b # y
        BY <3>3 DEF AddrsOf
      <4>2. (b.addr .. b.addr + b.size - 1) \cap (y.addr .. y.addr + y.size - 1) = {}
        BY <3>4, <4>1, BlocksApart
      <4> QED
        BY <4>2 DEF Abs!Apart, Abs!Bytes
    <3>6. b = [addr |-> b.addr, size |-> b.size] /\ b.addr \in Addresses /\ b.size \in Requests
      OBVIOUS
    <3>7. Abs!Allocate
      BY <3>3, <3>5, <3>6 DEF Abs!Allocate
    <3> QED
      BY <3>7
  <2>2. CASE \E size \in Requests : kmallocOutOfMemory(size)
    BY <2>2 DEF kmallocOutOfMemory
  <2>3. CASE \E b \in live : kfree(b)
    BY <2>3, FreeKeeps DEF Abs!Release
  <2>4. CASE UNCHANGED vars
    BY <2>4 DEF vars
  <2> QED
    BY <2>1, <2>2, <2>3, <2>4 DEF Next
<1>3. Spec => []IInv
  BY Invariant
<1> QED
  BY <1>1, <1>2, <1>3, PTL DEF Spec, ImplementsBlockAllocator, Abs!AbsSpec

(* kmalloc takes frames only when every slab of the cache is full. *)
THEOREM GrowthIsNeeded == RequestsFit => (Spec => GrowsOnlyWhenFull)
<1> SUFFICES ASSUME RequestsFit PROVE Spec => GrowsOnlyWhenFull
  OBVIOUS
<1> DEFINE Needed ==
       \A c \in Caches :
          heap.pool # heap'.pool /\ heap'.hdr[Lowest(heap.pool)].cache = c
          => \A p \in Slabs : heap.hdr[p].cache = c => heap.hdr[p].used = heap.hdr[p].total
<1>1. IInv /\ [Next]_vars => [Needed]_vars
  <2> SUFFICES ASSUME IInv, [Next]_vars, NEW d \in Caches, heap.pool # heap'.pool,
                      heap'.hdr[Lowest(heap.pool)].cache = d,
                      NEW q \in Slabs, heap.hdr[q].cache = d
               PROVE  heap.hdr[q].used = heap.hdr[q].total
    BY DEF vars
  <2>1. ASSUME NEW size \in Requests, kmalloc(size)
        PROVE  heap.hdr[q].used = heap.hdr[q].total
    <3>1. PICK c \in BucketFor(size) :
             /\ Enough(c)
             /\ LET h == Refill(heap, c)
                    b == [addr |-> h.hdr[h.partial[c]].free, size |-> size]
                IN  heap' = Filled(TakeSlot(h, c), b)
      BY <2>1 DEF kmalloc
    <3> DEFINE h == Refill(heap, c)
               s == h.partial[c]
               a == h.hdr[s].free
               b == [addr |-> a, size |-> size]
               k == TakeSlot(h, c)
               T == Taken(heap.pool, PagesPerSlab(c))
               p == Lowest(T)
    <3>2. c \in Caches /\ HeapInv(h, live) /\ s # NULL /\ HeapInv(heap, live)
      BY <3>1, Refilled DEF BucketFor, IInv
    <3>3. Taking(h, live, size, c, s, a, b, k, heap')
      BY <3>1, <3>2 DEF Taking
    <3>4. heap.partial[c] # NULL => h = heap
      BY DEF Refill
    <3>5. heap.partial[c] = NULL => Growing(heap, live, c, T, p, h)
      BY <3>1, <3>2 DEF Growing, Refill, Enough
    <3> HIDE DEF h, s, a, b, k, T, p
    <3>6. heap'.pool = h.pool /\ SameSlabs(h, heap')
      BY <3>3, TakeShape
    <3>7. heap.partial[c] = NULL
      BY <3>4, <3>6
    <3>8. /\ Grown(heap, h, c, T, p) /\ p \in Frames /\ p \in heap.pool
          /\ \A x \in heap.pool : p <= x
      BY <3>5, <3>7, NewShape, NewFrames
    <3>9. Lowest(heap.pool) = p
      <4>1. heap.pool \subseteq Nat
        BY <3>2, FrameFacts DEF HeapInv, HeapType
      <4>2. \A x \in heap.pool : (\A y \in heap.pool : x <= y) => x = p
        BY <3>8, <4>1
      <4> QED
        BY <3>8, <4>2 DEF Lowest
    <3>10. d = c
      BY <3>6, <3>8, <3>9 DEF SameSlabs, Grown
    <3>11. Roomy(heap, c) = {}
      BY <3>2, <3>7, ChainHead DEF HeapInv, ListsInv
    <3> QED
      BY <3>2, <3>10, <3>11, SlabsAreSlabs DEF Roomy
  <2>2. CASE \E size \in Requests : kmallocOutOfMemory(size)
    BY <2>2 DEF kmallocOutOfMemory
  <2>3. CASE \E b \in live : kfree(b)
    BY <2>3, FreeKeeps
  <2>4. CASE UNCHANGED vars
    BY <2>4 DEF vars
  <2> QED
    BY <2>1, <2>2, <2>3, <2>4 DEF Next
<1>2. Spec => []IInv
  BY Invariant
<1> QED
  BY <1>1, <1>2, PTL DEF Spec, GrowsOnlyWhenFull
====
