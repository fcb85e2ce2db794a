---- MODULE PmmProofs ----
(***************************************************************************)
(* Proofs about Pmm, for every set of memory maps and every choice of the  *)
(* page, byte and chunk sizes.                                             *)
(***************************************************************************)
EXTENDS Pmm, TLAPS

----
\* Arithmetic of the bitmap's geometry.

LEMMA Division ==
    ASSUME NEW a \in Nat, NEW b \in Nat \ {0}
    PROVE  /\ a \div b \in Nat
           /\ (a \div b) * b <= a
           /\ a < (a \div b) * b + b
OBVIOUS

LEMMA QuotientIsMonotone ==
    ASSUME NEW q \in Nat, NEW a \in Nat, NEW b \in Nat \ {0}, q * b <= a
    PROVE  q <= a \div b
<1>1. a < (a \div b) * b + b /\ a \div b \in Nat
  BY Division
<1>2. q * b < (a \div b + 1) * b
  BY <1>1
<1>3. CASE q <= a \div b
  BY <1>3
<1>4. CASE q >= a \div b + 1
  <2>1. q * b >= (a \div b + 1) * b
    BY <1>1, <1>4
  <2> QED
    BY <2>1, <1>2, <1>1
<1> QED
  BY <1>1, <1>3, <1>4


\* A whole number of chunks below t is a whole number of bytes below t.
LEMMA ChunksFitBytes ==
    ASSUME NEW t \in Nat
    PROVE  (t \div ChunkBits) * ChunkBits <= (t \div ByteBits) * ByteBits
<1> DEFINE k == ChunkBits \div ByteBits
           q == t \div ChunkBits
<1>1. ByteBits \in Nat \ {0} /\ ChunkBits \in Nat \ {0} /\ ChunkBits % ByteBits = 0
  BY SizeAssumption
<1>2. k \in Nat /\ ChunkBits = k * ByteBits
  BY <1>1
<1>3. q \in Nat /\ q * ChunkBits <= t
  BY <1>1, Division
<1>4. (q * k) * ByteBits <= t /\ q * k \in Nat
  <2>1. q * ChunkBits = (q * k) * ByteBits
    <3> HIDE DEF k, q
    <3> QED  BY <1>1, <1>2, <1>3
  <2>2. q * k \in Nat
    <3> HIDE DEF k, q
    <3> QED  BY <1>2, <1>3
  <2> QED
    BY <1>3, <2>1, <2>2
<1>5. q * k <= t \div ByteBits
  <2> HIDE DEF k, q
  <2> QED  BY <1>1, <1>4, QuotientIsMonotone
<1>6. t \div ByteBits \in Nat
  BY <1>1, Division
<1>7. (q * k) * ByteBits <= (t \div ByteBits) * ByteBits
  <2> DEFINE d == t \div ByteBits  p == q * k
  <2>1. p \in Nat /\ d \in Nat /\ p <= d /\ ByteBits \in Nat
    BY <1>1, <1>4, <1>5, <1>6
  <2> HIDE DEF d, p
  <2>2. p * ByteBits <= d * ByteBits
    BY <2>1
  <2> QED
    BY <2>2 DEF d, p
<1>8. q * ChunkBits = (q * k) * ByteBits
  <2> HIDE DEF k, q
  <2> QED  BY <1>1, <1>2, <1>3
<1> QED
  BY <1>7, <1>8

\* A bitmap of n bytes placed in an entry that holds n bytes stays in that entry.
LEMMA PagesFit ==
    ASSUME NEW n \in Nat, NEW l \in Nat, l * PageBytes >= n
    PROVE  /\ (n + PageBytes - 1) \div PageBytes \in Nat
           /\ (n + PageBytes - 1) \div PageBytes <= l
<1> DEFINE p == (n + PageBytes - 1) \div PageBytes
<1>1. PageBytes \in Nat \ {0}
  BY SizeAssumption
<1>2. p \in Nat /\ p * PageBytes <= n + PageBytes - 1
  BY <1>1, Division
<1> HIDE DEF p
<1>3. p * PageBytes < (l + 1) * PageBytes
  BY <1>1, <1>2
<1>4. CASE p >= l + 1
  <2>1. p * PageBytes >= (l + 1) * PageBytes
    BY <1>1, <1>2, <1>4
  <2> QED
    BY <2>1, <1>3, <1>1, <1>2
<1> QED
  BY <1>2, <1>4 DEF p

----
\* The inductive invariant: what each boot call leaves for the next one.

\* Frames the bitmap must show as free at the end of boot.
Available == Usable(mem_map) \ BitmapFrames

GeometryInv ==
    /\ bitmap_size = BitmapBytes(total_pages)
    /\ \A f \in Usable(mem_map) : f \in Nat /\ 0 < f /\ f < total_pages
    /\ bitmap # NoBitmap => BitmapFrames \subseteq Usable(mem_map)
    /\ bitmap = NoBitmap /\ Usable(mem_map) = {} => total_pages = 0

\* Contents of the bitmap: filled, then swept, then locked, then frame by frame taken.
MarkedInv ==
    /\ pc = "sweep" => marked = IF bitmap = NoBitmap THEN {} ELSE InBitmap
    /\ pc = "lock" => marked = InBitmap \ Usable(mem_map)
    /\ pc = "running" => marked = (InBitmap \ Available) \cup allocated

HandedInv ==
    /\ pc # "running" => handed = <<>>
    /\ allocated \subseteq Available \cap Scanned
    /\ NeverHandsOutTwice

StrayInv == \A b \in stray : b = bitmap_size /\ bitmap # NoBitmap

IInv ==
    /\ TypeOK
    /\ mem_map \in MemMaps
    /\ pc = "init" => bitmap = NoBitmap /\ handed = <<>> /\ stray = {} /\ marked = {}
    /\ pc \in {"lock", "running"} => bitmap # NoBitmap \/ Usable(mem_map) = {}
    /\ pc # "init" => GeometryInv /\ MarkedInv /\ HandedInv /\ StrayInv

LEMMA UsableFrames ==
    ASSUME NEW m \in MemMaps
    PROVE  \A f \in Usable(m) : /\ f \in Nat
                                /\ 0 < f
                                /\ \E i \in UsableEntries(m) : f < Top(m[i])
<1>1. m \in Seq(Entry) /\ \A i \in DOMAIN m : m[i].usable => m[i].base > 0
  BY MemMapAssumption
<1>2. \A i \in DOMAIN m : m[i] \in Entry
  BY <1>1
<1> QED
  BY <1>1, <1>2 DEF Usable, UsableEntries, FramesOf, Top, Entry

\* The scan reads only bytes pmm_init filled.
LEMMA ScanStaysInside ==
    ASSUME total_pages \in Nat, bitmap_size = BitmapBytes(total_pages)
    PROVE  Scanned \subseteq InBitmap
<1>1. (total_pages \div ChunkBits) * ChunkBits <= (total_pages \div ByteBits) * ByteBits
  BY ChunksFitBytes
<1>2. /\ (total_pages \div ChunkBits) * ChunkBits \in Int
      /\ (total_pages \div ByteBits) * ByteBits \in Int
  BY Division, SizeAssumption
<1> QED
  BY <1>1, <1>2 DEF Scanned, InBitmap, BitmapBytes

\* A frame below total_pages that is not in the bitmap is in the byte after it.
LEMMA OutsideIsNextByte ==
    ASSUME total_pages \in Nat, bitmap_size = BitmapBytes(total_pages),
           NEW S, \A f \in S : f \in Nat /\ f < total_pages
    PROVE  Outside(S) \subseteq {bitmap_size}
<1>1. SUFFICES ASSUME NEW f \in S, f \notin InBitmap
               PROVE  f \div ByteBits = bitmap_size
  BY DEF Outside
<1>2. ByteBits \in Nat \ {0} /\ f \in Nat /\ f < total_pages
  BY SizeAssumption
<1>3. bitmap_size \in Nat /\ total_pages < bitmap_size * ByteBits + ByteBits
  BY <1>2, Division DEF BitmapBytes
<1>4. bitmap_size * ByteBits <= f
  BY <1>1, <1>2, <1>3 DEF InBitmap
<1>5. bitmap_size <= f \div ByteBits
  BY <1>2, <1>3, <1>4, QuotientIsMonotone
<1>6. f \div ByteBits \in Nat /\ (f \div ByteBits) * ByteBits <= total_pages
  BY <1>2, Division
<1>7. f \div ByteBits <= total_pages \div ByteBits
  BY <1>2, <1>6, QuotientIsMonotone
<1> QED
  BY <1>3, <1>5, <1>6, <1>7 DEF BitmapBytes

LEMMA InitEstablishes == Init => IInv
BY MemMapAssumption DEF Init, IInv, TypeOK, NoBitmap

LEMMA PmmInitStep ==
    ASSUME IInv, PmmInit
    PROVE  IInv'
<1>1. mem_map \in MemMaps /\ mem_map' = mem_map /\ TypeOK /\ handed = <<>> /\ stray = {}
  BY DEF PmmInit, IInv
<1>2. \A i \in DOMAIN mem_map : mem_map[i] \in Entry
  BY <1>1, MemMapAssumption
<1>3. PICK t \in CandidateTops(mem_map) : /\ IsHighest(mem_map, t)
                                          /\ total_pages' = t
                                          /\ bitmap_size' = BitmapBytes(t)
  BY DEF PmmInit
<1>4. t \in Nat
  BY <1>2, <1>3 DEF CandidateTops, UsableEntries, Top, Entry
<1>5. bitmap_size' \in Nat
  BY <1>3, <1>4, SizeAssumption, Division DEF BitmapBytes
<1>6. \A f \in Usable(mem_map) : f \in Nat /\ 0 < f /\ f < t
  <2>1. \A i \in UsableEntries(mem_map) : Top(mem_map[i]) <= t /\ Top(mem_map[i]) \in Nat
    BY <1>2, <1>3 DEF IsHighest, UsableEntries, Top, Entry
  <2> QED
    BY <1>1, <1>4, <2>1, UsableFrames
<1>7. InBitmap' \subseteq Nat
  <2>1. bitmap_size' * ByteBits - 1 \in Int
    BY <1>5, SizeAssumption
  <2> QED
    BY <2>1 DEF InBitmap
<1>8. CASE \E i \in DOMAIN mem_map : /\ FirstFit(mem_map, i, bitmap_size')
                                     /\ bitmap' = mem_map[i].base
                                     /\ marked' = InBitmap'
  <2>1. PICK i \in UsableEntries(mem_map) :
            /\ mem_map[i].len * PageBytes >= bitmap_size'
            /\ bitmap' = mem_map[i].base
            /\ marked' = InBitmap'
    BY <1>8 DEF FirstFit, Fits
  <2>2. mem_map[i] \in Entry /\ mem_map[i].base \in Nat /\ mem_map[i].len \in Nat
    BY <1>2 DEF UsableEntries, Entry
  <2>3. PagesToLock' <= mem_map[i].len /\ PagesToLock' \in Nat
    BY <1>5, <2>1, <2>2, PagesFit DEF PagesToLock
  <2>4. BitmapFrames' \subseteq FramesOf(mem_map[i])
    BY <2>1, <2>2, <2>3 DEF BitmapFrames, FramesOf, Top, NoBitmap
  <2>5. BitmapFrames' \subseteq Usable(mem_map)
    BY <2>4 DEF Usable
  <2>6. TypeOK'
    BY <1>1, <1>3, <1>4, <1>5, <1>7, <2>1, <2>2 DEF TypeOK, PmmInit
  <2>7. pc' = "sweep" /\ handed' = <<>> /\ stray' = {} /\ bitmap' # NoBitmap
    BY <1>1, <2>1, <2>2 DEF PmmInit, NoBitmap
  <2> QED
    BY <1>1, <1>3, <1>6, <2>1, <2>5, <2>6, <2>7
    DEF IInv, GeometryInv, MarkedInv, HandedInv, StrayInv, allocated, NeverHandsOutTwice
<1>9. CASE /\ \A i \in DOMAIN mem_map : ~Fits(mem_map, i, bitmap_size')
           /\ UNCHANGED <<bitmap, marked>>
  <2>1. bitmap' = NoBitmap
    BY <1>9 DEF IInv, PmmInit
  <2>5. marked' = {}
    BY <1>9 DEF IInv, PmmInit
  <2>2. TypeOK'
    BY <1>1, <1>3, <1>4, <1>5, <1>9 DEF TypeOK, PmmInit
  <2>3. Usable(mem_map) = {} => t = 0
    <3>1. ASSUME Usable(mem_map) = {}
          PROVE  UsableEntries(mem_map) = {}
      <4>1. ASSUME NEW i \in UsableEntries(mem_map)
            PROVE  mem_map[i].base \in FramesOf(mem_map[i])
        BY <1>2 DEF UsableEntries, Entry, FramesOf, Top
      <4> QED
        BY <3>1, <4>1 DEF Usable
    <3> QED
      BY <1>3, <3>1 DEF IsHighest
  <2>4. pc' = "sweep" /\ handed' = <<>> /\ stray' = {}
    BY <1>1 DEF PmmInit
  <2> QED
    BY <1>1, <1>3, <1>6, <2>1, <2>2, <2>3, <2>4, <2>5
    DEF IInv, GeometryInv, MarkedInv, HandedInv, StrayInv, allocated, NeverHandsOutTwice
<1> QED
  BY <1>8, <1>9 DEF PmmInit

LEMMA SweepFaultsStep ==
    ASSUME IInv, SweepFaults
    PROVE  IInv'
BY DEF IInv, SweepFaults, geometry, TypeOK, GeometryInv, MarkedInv, HandedInv, StrayInv,
       BitmapFrames, PagesToLock, InBitmap, Available, allocated, Scanned, NeverHandsOutTwice

\* A set of frames below total_pages strays into the byte after the bitmap at most.
LEMMA StrayStep ==
    ASSUME IInv, pc # "init", geometry' = geometry, NEW S \in SUBSET Usable(mem_map),
           stray' = stray \cup Outside(S)
    PROVE  \A b \in stray' : b = bitmap_size'
<1>1. Outside(S) \subseteq {bitmap_size}
  BY OutsideIsNextByte DEF IInv, GeometryInv, TypeOK
<1> QED
  BY <1>1 DEF IInv, StrayInv, geometry

LEMMA PmmInitFreeRegionsStep ==
    ASSUME IInv, PmmInitFreeRegions
    PROVE  IInv'
<1>1. /\ TypeOK /\ mem_map \in MemMaps /\ handed = <<>>
      /\ GeometryInv /\ MarkedInv /\ StrayInv
  BY DEF IInv, PmmInitFreeRegions, HandedInv
<1>2. /\ geometry' = geometry /\ handed' = handed /\ pc = "sweep" /\ pc' = "lock"
      /\ stray' = stray \cup Outside(Usable(mem_map))
      /\ marked' = marked \ Usable(mem_map)
      /\ bitmap # NoBitmap \/ Usable(mem_map) = {}
  BY DEF PmmInitFreeRegions, pmm_free_page
<1>3. marked' = InBitmap \ Usable(mem_map)
  <2>1. CASE bitmap # NoBitmap
    BY <1>1, <1>2, <2>1 DEF MarkedInv
  <2>2. CASE bitmap = NoBitmap
    <3>1. total_pages = 0 /\ marked = {}
      BY <1>1, <1>2, <2>2 DEF MarkedInv, GeometryInv
    <3>2. bitmap_size = 0
      BY <1>1, <3>1, SizeAssumption DEF GeometryInv, BitmapBytes
    <3>3. bitmap_size * ByteBits = 0
      BY <3>2, SizeAssumption
    <3>4. InBitmap = {}
      BY <3>3 DEF InBitmap
    <3> QED
      BY <1>2, <3>1, <3>4
  <2> QED
    BY <2>1, <2>2
<1>4. \A b \in stray' : b = bitmap_size' /\ bitmap' # NoBitmap
  <2>1. \A b \in stray' : b = bitmap_size'
    BY <1>2, StrayStep
  <2>2. bitmap = NoBitmap => stray' = {}
    <3>1. Outside({}) = {}
      BY DEF Outside
    <3> QED
      BY <1>1, <1>2, <3>1 DEF StrayInv
  <2> QED
    BY <1>2, <2>1, <2>2 DEF geometry
<1>5. TypeOK'
  <2>1. stray' \subseteq Nat
    BY <1>1, <1>2, <1>4 DEF geometry, TypeOK
  <2> QED
    BY <1>1, <1>2, <2>1 DEF geometry, TypeOK, PmmInitFreeRegions
<1>6. GeometryInv'
  BY <1>1, <1>2 DEF geometry, GeometryInv, BitmapFrames, PagesToLock
<1>7. MarkedInv'
  BY <1>2, <1>3 DEF geometry, MarkedInv, InBitmap
<1>8. HandedInv'
  BY <1>1, <1>2 DEF HandedInv, allocated, NeverHandsOutTwice
<1> QED
  BY <1>1, <1>2, <1>4, <1>5, <1>6, <1>7, <1>8 DEF geometry, IInv, StrayInv

LEMMA LockBitmapStep ==
    ASSUME IInv, LockBitmap
    PROVE  IInv'
<1>1. /\ TypeOK /\ mem_map \in MemMaps /\ handed = <<>>
      /\ GeometryInv /\ MarkedInv /\ StrayInv
      /\ bitmap # NoBitmap \/ Usable(mem_map) = {}
  BY DEF IInv, LockBitmap, HandedInv
<1>2. /\ geometry' = geometry /\ handed' = handed /\ pc = "lock" /\ pc' = "running"
      /\ stray' = stray \cup Outside(BitmapFrames)
      /\ marked' = marked \cup (BitmapFrames \cap InBitmap)
      /\ ret' = ret
  BY DEF LockBitmap, pmm_set_page
<1>3. BitmapFrames \subseteq Usable(mem_map)
  BY <1>1 DEF GeometryInv, BitmapFrames
<1>4. marked' = InBitmap \ Available
  BY <1>1, <1>2, <1>3 DEF MarkedInv, Available
<1>5. \A b \in stray' : b = bitmap_size' /\ bitmap' # NoBitmap
  <2>1. \A b \in stray' : b = bitmap_size'
    BY <1>2, <1>3, StrayStep
  <2>2. bitmap = NoBitmap => stray' = {}
    BY <1>1, <1>2 DEF StrayInv, Outside, BitmapFrames
  <2> QED
    BY <1>2, <2>1, <2>2 DEF geometry
<1>6. TypeOK'
  <2>1. stray' \subseteq Nat
    BY <1>1, <1>2, <1>5 DEF geometry, TypeOK
  <2>2. marked' \subseteq Nat
    BY <1>1, <1>2, <1>3 DEF TypeOK, GeometryInv
  <2> QED
    BY <1>1, <1>2, <2>1, <2>2 DEF geometry, TypeOK
<1>7. GeometryInv'
  BY <1>1, <1>2 DEF geometry, GeometryInv, BitmapFrames, PagesToLock
<1>8. allocated' = {}
  BY <1>1, <1>2 DEF allocated
<1>9. MarkedInv'
  BY <1>2, <1>4, <1>8 DEF geometry, MarkedInv, InBitmap, Available, BitmapFrames, PagesToLock
<1>10. HandedInv'
  BY <1>1, <1>2, <1>8 DEF HandedInv, NeverHandsOutTwice
<1> QED
  BY <1>1, <1>2, <1>5, <1>6, <1>7, <1>9, <1>10 DEF geometry, IInv, StrayInv

(* A result appended to the sequence of results adds itself to their set. *)
LEMMA AppendRange ==
    ASSUME NEW s \in Seq(Nat), NEW f \in Nat
    PROVE  {Append(s, f)[i] : i \in DOMAIN Append(s, f)} = {s[i] : i \in DOMAIN s} \cup {f}
<1> DEFINE t == Append(s, f)
<1>1. /\ DOMAIN s = 1 .. Len(s)
      /\ DOMAIN t = 1 .. Len(s) + 1
      /\ Len(s) \in Nat
  OBVIOUS
<1>2. \A i \in 1 .. Len(s) : t[i] = s[i]
  OBVIOUS
<1>3. t[Len(s) + 1] = f
  OBVIOUS
<1>4. \A i \in DOMAIN t : i \in DOMAIN s \/ i = Len(s) + 1
  BY <1>1
<1>5. DOMAIN s \subseteq DOMAIN t /\ Len(s) + 1 \in DOMAIN t
  BY <1>1
<1> HIDE DEF t
<1>6. {t[i] : i \in DOMAIN t} = {s[i] : i \in DOMAIN s} \cup {f}
  BY <1>1, <1>2, <1>3, <1>4, <1>5
<1> QED
  BY <1>6 DEF t

LEMMA PmmAllocStep ==
    ASSUME IInv, PmmAlloc
    PROVE  IInv'
<1>1. /\ TypeOK /\ mem_map \in MemMaps
      /\ GeometryInv /\ MarkedInv /\ StrayInv /\ HandedInv
      /\ bitmap # NoBitmap \/ Usable(mem_map) = {}
  BY DEF IInv, PmmAlloc
<1>2. PICK f \in Free : /\ pmm_set_page({f})
                        /\ ret' = f
                        /\ handed' = Append(handed, f)
  BY DEF PmmAlloc
<1>3. geometry' = geometry /\ pc = "running" /\ pc' = "running"
  BY DEF PmmAlloc
<1>4. Scanned \subseteq InBitmap
  BY <1>1, ScanStaysInside DEF TypeOK, GeometryInv
<1>5. /\ f \in Scanned /\ f \in InBitmap /\ f \in Available /\ f \notin allocated
  BY <1>1, <1>3, <1>4 DEF Free, MarkedInv
<1>6. f \in Nat
  BY <1>1, <1>5 DEF Available, GeometryInv
<1>7. marked' = marked \cup {f} /\ stray' = stray
  BY <1>2, <1>5 DEF pmm_set_page, Outside
<1>8. handed \in Seq(Nat) /\ handed' \in Seq(Nat)
  BY <1>1, <1>2, <1>6 DEF TypeOK
<1>9. allocated' = allocated \cup {f}
  BY <1>2, <1>6, <1>8, AppendRange DEF allocated
<1>10. TypeOK'
  BY <1>1, <1>2, <1>3, <1>6, <1>7, <1>8 DEF TypeOK, geometry
<1>11. GeometryInv'
  BY <1>1, <1>3 DEF geometry, GeometryInv, BitmapFrames, PagesToLock
<1>12. MarkedInv'
  BY <1>1, <1>3, <1>7, <1>9
  DEF geometry, MarkedInv, InBitmap, Available, BitmapFrames, PagesToLock
<1>13. NeverHandsOutTwice'
  <2>1. \A i \in DOMAIN handed : handed[i] # f
    BY <1>5 DEF allocated
  <2> QED
    BY <1>1, <1>2, <1>6, <1>8, <2>1 DEF NeverHandsOutTwice, HandedInv
<1>14. HandedInv'
  BY <1>1, <1>3, <1>5, <1>9, <1>13
  DEF geometry, HandedInv, Available, BitmapFrames, PagesToLock, Scanned
<1> QED
  BY <1>1, <1>3, <1>7, <1>10, <1>11, <1>12, <1>14 DEF geometry, IInv, StrayInv

THEOREM NextPreserves == IInv /\ [Next]_vars => IInv'
<1> SUFFICES ASSUME IInv, [Next]_vars PROVE IInv'
  OBVIOUS
<1>1. CASE PmmInit
  BY <1>1, PmmInitStep
<1>2. CASE SweepFaults
  BY <1>2, SweepFaultsStep
<1>3. CASE PmmInitFreeRegions
  BY <1>3, PmmInitFreeRegionsStep
<1>4. CASE LockBitmap
  BY <1>4, LockBitmapStep
<1>5. CASE PmmAlloc
  BY <1>5, PmmAllocStep
<1>6. CASE PmmAllocFails
  BY <1>6 DEF PmmAllocFails, geometry, IInv, TypeOK, GeometryInv, MarkedInv, HandedInv, StrayInv,
              BitmapFrames, PagesToLock, InBitmap, Available, allocated, Scanned, NeverHandsOutTwice
<1>7. CASE UNCHANGED vars
  BY <1>7 DEF vars, IInv, TypeOK, GeometryInv, MarkedInv, HandedInv, StrayInv,
              BitmapFrames, PagesToLock, InBitmap, Available, allocated, Scanned, NeverHandsOutTwice
<1> QED
  BY <1>1, <1>2, <1>3, <1>4, <1>5, <1>6, <1>7 DEF Next

THEOREM Invariance == Spec => []IInv
<1>1. Init => IInv
  BY InitEstablishes
<1>2. IInv /\ [Next]_vars => IInv'
  BY NextPreserves
<1> QED
  BY <1>1, <1>2, PTL DEF Spec

----
\* The theorems a reader should know of.

(* Every variable keeps its type through boot and every allocation. *)
THEOREM TypeCorrect == Spec => []TypeOK
<1>1. IInv => TypeOK
  BY DEF IInv
<1> QED
  BY <1>1, Invariance, PTL

(* Whatever the memory map, pmm_alloc hands out usable RAM outside the bitmap, never frame 0. *)
THEOREM HandsOutOnlyUsable == Spec => []HandsOutUsableFrames
<1>1. IInv => HandsOutUsableFrames
  <2> SUFFICES ASSUME IInv PROVE HandsOutUsableFrames
    OBVIOUS
  <2>1. CASE pc = "init"
    BY <2>1 DEF IInv, HandsOutUsableFrames, allocated
  <2>2. CASE pc # "init"
    BY <2>2 DEF IInv, HandsOutUsableFrames, HandedInv, Available, GeometryInv
  <2> QED
    BY <2>1, <2>2
<1> QED
  BY <1>1, Invariance, PTL

(* No two calls of pmm_alloc return the same frame. *)
THEOREM FramesAreDistinct == Spec => []NeverHandsOutTwice
<1>1. IInv => NeverHandsOutTwice
  <2> SUFFICES ASSUME IInv PROVE NeverHandsOutTwice
    OBVIOUS
  <2>1. CASE pc = "init"
    BY <2>1 DEF IInv, NeverHandsOutTwice
  <2>2. CASE pc # "init"
    BY <2>2 DEF IInv, HandedInv
  <2> QED
    BY <2>1, <2>2
<1> QED
  BY <1>1, Invariance, PTL

(* After boot a usable frame within the scan's reach is in the bitmap, free or handed out. *)
THEOREM NoFrameIsLost == Spec => []EveryFrameAccounted
<1>1. IInv => EveryFrameAccounted
  <2> SUFFICES ASSUME IInv, pc = "running" PROVE EveryFrameAccounted
    BY DEF EveryFrameAccounted
  <2>1. GeometryInv /\ MarkedInv /\ HandedInv /\ total_pages \in Nat
    BY DEF IInv, TypeOK
  <2>2. Scanned \subseteq InBitmap
    BY <2>1, ScanStaysInside DEF GeometryInv
  <2>3. Free = ((Usable(mem_map) \cap Scanned) \ BitmapFrames) \ allocated
    BY <2>1, <2>2 DEF MarkedInv, Free, Available
  <2> QED
    BY <2>1, <2>3 DEF HandedInv, EveryFrameAccounted
<1> QED
  BY <1>1, Invariance, PTL

(* Boot writes at most one byte past the bitmap, in the frame after it only if it fills its page. *)
THEOREM OverrunIsBounded == Spec => []OverrunIsOneByte
<1>1. IInv => OverrunIsOneByte
  <2> SUFFICES ASSUME IInv, NEW b \in stray
               PROVE  /\ b = bitmap_size
                      /\ bitmap + b \div PageBytes \in BitmapFrames \/ bitmap_size % PageBytes = 0
    BY DEF OverrunIsOneByte
  <2>1. pc # "init" /\ StrayInv /\ b = bitmap_size /\ bitmap # NoBitmap
    BY DEF IInv, StrayInv
  <2>2. bitmap_size \in Nat /\ bitmap \in Nat /\ PageBytes \in Nat \ {0}
    BY <2>1, SizeAssumption DEF IInv, TypeOK
  <2> DEFINE q == bitmap_size \div PageBytes
  <2>3. q \in Nat /\ q * PageBytes <= bitmap_size
    BY <2>2, Division
  <2>4. CASE bitmap_size % PageBytes # 0
    <3>1. bitmap_size = q * PageBytes + (bitmap_size % PageBytes) /\ bitmap_size % PageBytes \in Nat
      BY <2>2
    <3>2. (q + 1) * PageBytes <= bitmap_size + PageBytes - 1
      <4> HIDE DEF q
      <4> QED  BY <2>2, <2>3, <2>4, <3>1
    <3>3. q + 1 <= PagesToLock /\ PagesToLock \in Nat
      <4>1. bitmap_size + PageBytes - 1 \in Nat
        BY <2>2
      <4> HIDE DEF q
      <4> QED  BY <2>2, <2>3, <3>2, <4>1, QuotientIsMonotone, Division DEF PagesToLock
    <3>4. bitmap + q \in BitmapFrames
      <4> HIDE DEF q
      <4> QED  BY <2>1, <2>2, <2>3, <3>3 DEF BitmapFrames
    <3> QED
      BY <2>1, <3>4
  <2> QED
    BY <2>1, <2>4
<1> QED
  BY <1>1, Invariance, PTL


----
\* The bitmap implements the abstract allocator.

LEMMA RefinesInit == Init => Abs!AbsInit
BY DEF Init, Abs!AbsInit, Pool, allocated

LEMMA RefinesNext ==
    ASSUME IInv, IInv', [Next]_vars
    PROVE  [Abs!Open \/ Abs!Take]_Abs!absVars
<1> USE DEF Abs!absVars
<1>1. pc # "running" => allocated = {}
  BY DEF IInv, HandedInv, allocated
<1>2. CASE PmmInit \/ SweepFaults \/ PmmInitFreeRegions
  BY <1>2 DEF PmmInit, SweepFaults, PmmInitFreeRegions, Pool, allocated
<1>3. CASE LockBitmap
  <2>1. Pool' \subseteq Nat
    <3>1. total_pages' \in Nat
      BY DEF IInv, TypeOK
    <3>2. (total_pages' \div ChunkBits) * ChunkBits - 1 \in Int
      BY <3>1, SizeAssumption, Division
    <3> QED
      BY <3>2 DEF Pool, Free, Scanned
  <2>2. Abs!Open
    BY <1>3, <2>1 DEF LockBitmap, Abs!Open, allocated
  <2> QED
    BY <2>2
<1>4. CASE PmmAlloc
  <2>1. PICK f \in Free : /\ pmm_set_page({f})
                          /\ handed' = Append(handed, f)
    BY <1>4 DEF PmmAlloc
  <2>2. pc = "running" /\ pc' = "running" /\ geometry' = geometry /\ handed \in Seq(Nat)
    BY <1>4 DEF PmmAlloc, IInv, TypeOK
  <2>3. Scanned \subseteq InBitmap
    BY <2>2, ScanStaysInside DEF IInv, TypeOK, GeometryInv
  <2>4. marked' = marked \cup {f}
    BY <2>1, <2>3 DEF pmm_set_page, Free
  <2>5. Pool' = Pool \ {f} /\ f \in Pool
    BY <2>1, <2>2, <2>4 DEF Pool, Free, Scanned, geometry
  <2>6. allocated' = allocated \cup {f}
    <3>1. f \in Nat
      BY <1>4, <2>1, <2>3 DEF IInv, GeometryInv, TypeOK, Free, MarkedInv, Available
    <3> QED
      BY <2>1, <2>2, <3>1, AppendRange DEF allocated
  <2> QED
    BY <2>2, <2>5, <2>6 DEF Abs!Take
<1>5. CASE PmmAllocFails
  BY <1>5 DEF PmmAllocFails, geometry, Pool, Free, Scanned, allocated
<1>6. CASE UNCHANGED vars
  BY <1>6 DEF vars, Pool, Free, Scanned, allocated
<1> QED
  BY <1>2, <1>3, <1>4, <1>5, <1>6 DEF Next

(* Every run of the bitmap allocator is a run of the abstract one. *)
THEOREM Refinement == Spec => ImplementsAllocator
<1>1. Init => Abs!AbsInit
  BY RefinesInit
<1>2. IInv /\ IInv' /\ [Next]_vars => [Abs!Open \/ Abs!Take]_Abs!absVars
  BY RefinesNext
<1> QED
  BY <1>1, <1>2, Invariance, PTL DEF Spec, ImplementsAllocator, Abs!AbsSpec

====
