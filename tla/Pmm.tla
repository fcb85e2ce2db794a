---- MODULE Pmm ----
(***************************************************************************)
(* The physical memory manager of mem.c: a bitmap with one bit per frame,  *)
(* built from the bootloader's memory map by three calls in a row          *)
(* (pmm_init, pmm_init_free_regions, lock_bitmap) and consulted by         *)
(* pmm_alloc ever after.                                                   *)
(*                                                                         *)
(* Frames are numbers (address / 4096).  Each call is one step: where an   *)
(* interrupt can come between the halves of pmm_alloc is the business of   *)
(* module Boot (OneInTheKernel).                                           *)
(***************************************************************************)
EXTENDS Integers, Sequences

CONSTANTS
    MemMaps,      \* the memory maps Limine may hand over: sequences of entries
    PageBytes,    \* bytes of a page frame                       (4096)
    ByteBits,     \* bits of one element of the bitmap array     (8)
    ChunkBits     \* bits pmm_alloc looks at in one comparison   (64)

Entry == [base: Nat, len: Nat \ {0}, usable: BOOLEAN]

\* Limine's protocol: entries are page aligned and frame 0 is never usable.
ASSUME MemMapAssumption ==
    \A m \in MemMaps : m \in Seq(Entry)
                       /\ \A i \in DOMAIN m : m[i].usable => m[i].base > 0

\* A chunk is a whole number of bitmap bytes.
ASSUME SizeAssumption ==
    /\ PageBytes \in Nat \ {0}
    /\ ByteBits \in Nat \ {0}
    /\ ChunkBits \in Nat \ {0}
    /\ ChunkBits % ByteBits = 0

VARIABLES
    mem_map,       \* memmap_request.response
    total_pages,   \* frames below the highest usable address
    bitmap_size,   \* bytes of the bitmap
    bitmap,        \* first frame of the bitmap, or NoBitmap for the NULL pointer
    marked,        \* indexes of the bits that are 1, within the bitmap
    stray,         \* byte offsets past the end of the bitmap that were written
    pc,            \* progress of the boot calls
    ret,           \* what the last pmm_alloc returned, 0 for out of memory
    handed         \* the frames handed out so far, in order

vars == <<mem_map, total_pages, bitmap_size, bitmap, marked, stray, pc, ret, handed>>
geometry == <<mem_map, total_pages, bitmap_size, bitmap>>

NoBitmap == -1

----
\* The memory map.

UsableEntries(m) == {i \in DOMAIN m : m[i].usable}
Top(e) == e.base + e.len
FramesOf(e) == e.base .. Top(e) - 1
Usable(m) == UNION {FramesOf(m[i]) : i \in UsableEntries(m)}

\* highest_addr of pmm_init: the running maximum over the usable entries.
IsHighest(m, t) ==
    /\ \A i \in UsableEntries(m) : Top(m[i]) <= t
    /\ t = 0 \/ \E i \in UsableEntries(m) : Top(m[i]) = t

CandidateTops(m) == {0} \cup {Top(m[i]) : i \in UsableEntries(m)}

\* The first usable entry at least bitmap_size bytes long.
Fits(m, i, size) == i \in UsableEntries(m) /\ m[i].len * PageBytes >= size
FirstFit(m, i, size) ==
    Fits(m, i, size) /\ \A k \in DOMAIN m : k < i => ~Fits(m, k, size)

----
\* The bitmap.

\* Mutant: divides by the bits of a chunk.
BitmapBytes_PerChunk(t) == t \div ChunkBits

BitmapBytes(t) == t \div ByteBits

InBitmap == 0 .. bitmap_size * ByteBits - 1

PagesToLock == (bitmap_size + PageBytes - 1) \div PageBytes

BitmapFrames == IF bitmap = NoBitmap THEN {} ELSE bitmap .. bitmap + PagesToLock - 1

\* Bytes past the end that a write of the bits S touches.
Outside(S) == {f \div ByteBits : f \in S \ InBitmap}

pmm_set_page(S) == /\ marked' = marked \cup (S \cap InBitmap)
                   /\ stray' = stray \cup Outside(S)

pmm_free_page(S) == /\ marked' = marked \ S
                    /\ stray' = stray \cup Outside(S)

\* Bits pmm_alloc compares: the loop stops at total_pages / 64 whole chunks.
Scanned == 0 .. (total_pages \div ChunkBits) * ChunkBits - 1

Free == Scanned \ marked

----
\* The calls.

Init ==
    /\ mem_map \in MemMaps
    /\ total_pages = 0 /\ bitmap_size = 0 /\ bitmap = NoBitmap
    /\ marked = {} /\ stray = {}
    /\ pc = "init" /\ ret = 0 /\ handed = <<>>

PmmInit ==
    /\ pc = "init"
    /\ \E t \in CandidateTops(mem_map) :
          /\ IsHighest(mem_map, t)
          /\ total_pages' = t
          /\ bitmap_size' = BitmapBytes(t)
    /\ \/ \E i \in DOMAIN mem_map :
             /\ FirstFit(mem_map, i, bitmap_size')
             /\ bitmap' = mem_map[i].base
             /\ marked' = InBitmap'
       \/ /\ \A i \in DOMAIN mem_map : ~Fits(mem_map, i, bitmap_size')
          /\ UNCHANGED <<bitmap, marked>>
    /\ pc' = "sweep"
    /\ UNCHANGED <<mem_map, stray, ret, handed>>

\* The sweep writes through the NULL pointer when no entry could hold the bitmap.
SweepFaults ==
    /\ pc = "sweep" /\ bitmap = NoBitmap /\ Usable(mem_map) # {}
    /\ pc' = "fault"
    /\ UNCHANGED <<geometry, marked, stray, ret, handed>>

\* Mutant: stops one page short of the end of a region.
PmmInitFreeRegions_OffByOne ==
    /\ pc = "sweep" /\ (bitmap # NoBitmap \/ Usable(mem_map) = {})
    /\ pmm_free_page(UNION {FramesOf(mem_map[i]) \ {Top(mem_map[i]) - 1} : i \in UsableEntries(mem_map)})
    /\ pc' = "lock"
    /\ UNCHANGED <<geometry, ret, handed>>

PmmInitFreeRegions ==
    /\ pc = "sweep" /\ (bitmap # NoBitmap \/ Usable(mem_map) = {})
    /\ pmm_free_page(Usable(mem_map))
    /\ pc' = "lock"
    /\ UNCHANGED <<geometry, ret, handed>>

\* Mutant: locks only the whole pages of the bitmap.
LockBitmap_RoundsDown ==
    /\ pc = "lock"
    /\ pmm_set_page(bitmap .. bitmap + (bitmap_size \div PageBytes) - 1)
    /\ pc' = "running"
    /\ UNCHANGED <<geometry, ret, handed>>

LockBitmap ==
    /\ pc = "lock"
    /\ pmm_set_page(BitmapFrames)
    /\ pc' = "running"
    /\ UNCHANGED <<geometry, ret, handed>>

\* Mutant: returns the frame without marking it.
PmmAlloc_ForgetsMark ==
    /\ pc = "running"
    /\ \E f \in Free : /\ \A g \in Free : f <= g
                       /\ ret' = f
                       /\ handed' = Append(handed, f)
    /\ UNCHANGED <<geometry, pc, marked, stray>>

\* First fit over the whole chunks.
PmmAlloc ==
    /\ pc = "running"
    /\ \E f \in Free : /\ \A g \in Free : f <= g
                       /\ pmm_set_page({f})
                       /\ ret' = f
                       /\ handed' = Append(handed, f)
    /\ UNCHANGED <<geometry, pc>>

\* Mutant: reports failure with all ones instead of 0.
PmmAllocFails_MinusOne ==
    /\ pc = "running" /\ Free = {}
    /\ ret' = -1
    /\ UNCHANGED <<geometry, pc, marked, stray, handed>>

PmmAllocFails ==
    /\ pc = "running" /\ Free = {}
    /\ ret' = 0
    /\ UNCHANGED <<geometry, pc, marked, stray, handed>>

Next == \/ PmmInit \/ SweepFaults \/ PmmInitFreeRegions \/ LockBitmap
        \/ PmmAlloc \/ PmmAllocFails

Spec == Init /\ [][Next]_vars

----
\* Properties.

allocated == {handed[i] : i \in DOMAIN handed}

TypeOK ==
    /\ mem_map \in Seq(Entry)
    /\ total_pages \in Nat /\ bitmap_size \in Nat
    /\ bitmap \in Nat \cup {NoBitmap}
    /\ marked \subseteq Nat /\ stray \subseteq Nat /\ handed \in Seq(Nat)
    /\ pc \in {"init", "sweep", "lock", "running", "fault"}
    /\ ret \in Nat

(* Every frame pmm_alloc ever handed out is RAM the map calls usable, is not part of the bitmap  *)
(* that records it, and is not frame 0, whose address pmm_alloc returns for "Out of memory!".    *)
HandsOutUsableFrames ==
    /\ allocated \subseteq Usable(mem_map)
    /\ allocated \cap BitmapFrames = {}
    /\ 0 \notin allocated

(* pmm_alloc never returns a frame it returned before: the mark it leaves is found by every later *)
(* scan, whatever bits the sweep and the lock changed.                                            *)
NeverHandsOutTwice ==
    \A i, j \in DOMAIN handed : i # j => handed[i] # handed[j]

(* Once boot is over, no usable frame the scan reaches is lost: it is part of the bitmap, still   *)
(* free, or handed out, and exactly one of these.                                                 *)
EveryFrameAccounted ==
    pc = "running" =>
        /\ Free = ((Usable(mem_map) \cap Scanned) \ BitmapFrames) \ allocated
        /\ allocated \subseteq Scanned

(* The sweep and the lock write past the end of the bitmap (total_pages / 8 rounds down), but by  *)
(* one byte at most, and outside the frames the lock reserves only when the bitmap fills its last *)
(* page exactly.                                                                                  *)
OverrunIsOneByte ==
    \A b \in stray : /\ b = bitmap_size
                     /\ bitmap + b \div PageBytes \in BitmapFrames \/ bitmap_size % PageBytes = 0

\* The frames the abstract allocator may still hand out.
Pool == IF pc = "running" THEN Free ELSE {}

Abs == INSTANCE FrameAllocator
         WITH Frames <- Nat, pool <- Pool, taken <- allocated, open <- pc = "running"

(* The bitmap implements the abstract frame allocator: a pool opened once, frames leaving it one  *)
(* by one, none coming back.                                                                      *)
ImplementsAllocator == Abs!AbsSpec
====
