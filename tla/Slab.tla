---- MODULE Slab ----
(***************************************************************************)
(* The kernel heap of mem.c.  A cache per bucket size keeps its slabs on   *)
(* one of two singly linked lists; a slab is a page whose first bytes are  *)
(* its header; the free slots of a slab are chained through their own      *)
(* first word.  A slab of a bucket above half a page holds one slot, and   *)
(* above a page it takes further frames, mapped behind its first page.     *)
(*                                                                         *)
(* An address is a number; page p of the kernel's direct map is the bytes  *)
(* p * PageBytes and up, and hhdm says which frame lies under it.          *)
(* The calls of this module are not interrupted; callers free only what    *)
(* they were given.                                                        *)
(***************************************************************************)
EXTENDS Integers, Sequences, FiniteSets

CONSTANTS
    Buckets,       \* slot sizes, in the order of kmalloc_caches
    PageBytes,     \* 4096
    HeaderBytes,   \* sizeof(slab_header_t), 48
    Frames,        \* frame numbers of the machine
    FirstPool,     \* frames pmm_alloc may hand to the heap
    Requests,      \* sizes callers ask kmalloc for
    MaxLive        \* bound: blocks in use at a time

ASSUME SlabAssumption ==
    /\ Buckets \in Seq(Nat \ {0})
    /\ PageBytes \in Nat \ {0} /\ HeaderBytes \in Nat \ {0} /\ 2 * HeaderBytes <= PageBytes
    /\ IsFiniteSet(Frames) /\ Frames = 1 .. Cardinality(Frames)
    /\ FirstPool \subseteq Frames
    /\ Requests \subseteq Nat \ {0} /\ MaxLive \in Nat

VARIABLES
    heap,     \* the allocator's own data, see Heap
    live,     \* blocks handed out and not freed yet
    halted    \* a page fault nobody handles stopped the machine

vars == <<heap, live, halted>>

NULL == 0
Data == -1    \* what a caller's bytes look like when read as a pointer

Caches == DOMAIN Buckets
NoHeader == [cache |-> 0, next |-> NULL, free |-> NULL, used |-> 0, total |-> 0]

\* Mutant: takes one page whatever the size of the slot.
PagesPerSlab_One(c) == 1

\* The pages a slab of cache c spans.
PagesPerSlab(c) == IF Buckets[c] > PageBytes THEN Buckets[c] \div PageBytes ELSE 1

SlotsPerSlab(c) ==
    IF 2 * Buckets[c] > PageBytes THEN 1 ELSE (PageBytes - HeaderBytes) \div Buckets[c]

PageAddr(p) == p * PageBytes
PageOf(ptr) == ptr \div PageBytes
SlotAddr(p, c, i) == PageAddr(p) + HeaderBytes + i * Buckets[c]
SlotsOf(p, c) == {SlotAddr(p, c, i) : i \in 0 .. SlotsPerSlab(c) - 1}

\* f with the values of g where g is defined.
Override(f, g) == [x \in DOMAIN f |-> IF x \in DOMAIN g THEN g[x] ELSE f[x]]

----
\* Singly linked lists of slabs, through the next field of the headers.

\* The slabs met from head on, in order; NULL from the end on.
Walk(h, head) ==
    LET at[n \in 0 .. Cardinality(Frames)] ==
            IF n = 0 THEN head
            ELSE IF at[n-1] = NULL THEN NULL ELSE h.hdr[at[n-1]].next
    IN  at

OnList(h, head) == {Walk(h, head)[n] : n \in 0 .. Cardinality(Frames)} \ {NULL}

\* Mutant: forgets the case in which the slab is the head of the list.
remove_slab_from_list_NotHead(h, which, c, s) ==
    LET before == {p \in OnList(h, h[which][c]) : h.hdr[p].next = s}
    IN  IF before # {}
        THEN LET p == CHOOSE x \in before : TRUE
             IN  [h EXCEPT !.hdr[p].next = h.hdr[s].next]
        ELSE h

remove_slab_from_list(h, which, c, s) ==
    LET before == {p \in OnList(h, h[which][c]) : h.hdr[p].next = s}
    IN  IF h[which][c] = s
        THEN [h EXCEPT ![which][c] = h.hdr[s].next]
        ELSE IF before # {}
        THEN LET p == CHOOSE x \in before : TRUE
             IN  [h EXCEPT !.hdr[p].next = h.hdr[s].next]
        ELSE h

push(h, which, c, s) ==
    [h EXCEPT !.hdr[s].next = h[which][c], ![which][c] = s]

move_slab_to_full(h, c, s) ==
    push(remove_slab_from_list(h, "partial", c, s), "full", c, s)

move_slab_to_partial(h, c, s) ==
    push(remove_slab_from_list(h, "full", c, s), "partial", c, s)

----
\* A new slab.

Lowest(S) == CHOOSE x \in S : \A y \in S : x <= y

\* pmm_alloc takes the lowest free frame; n calls in a row take these.
Taken(pool, n) == CHOOSE T \in SUBSET pool :
                     Cardinality(T) = n /\ \A x \in T, y \in pool \ T : x < y

\* The j-th lowest of a set of numbers, from 0.
Nth(T, j) == CHOOSE x \in T : Cardinality({y \in T : y < x}) = j

\* Mutant: does not end the chain of slots.
init_new_slab_OpenChain(h, c) ==
    LET T     == Taken(h.pool, PagesPerSlab(c))
        p     == Lowest(T)
        slots == SlotsOf(p, c)
    IN  [h EXCEPT
           !.pool = @ \ T,
           !.hhdm = Override(@, [q \in p .. p + PagesPerSlab(c) - 1 |-> Nth(T, q - p)]),
           !.word = Override(@, [a \in {x \in slots : x + Buckets[c] \in slots} |-> a + Buckets[c]]),
           !.hdr[p] = [cache |-> c, next |-> h.partial[c], free |-> SlotAddr(p, c, 0),
                       used |-> 0, total |-> SlotsPerSlab(c)],
           !.partial[c] = p]

\* The first frame holds the header; the others are mapped behind it.
init_new_slab(h, c) ==
    LET T     == Taken(h.pool, PagesPerSlab(c))
        p     == Lowest(T)
        slots == SlotsOf(p, c)
    IN  [h EXCEPT
           !.pool = @ \ T,
           !.hhdm = Override(@, [q \in p .. p + PagesPerSlab(c) - 1 |-> Nth(T, q - p)]),
           !.word = Override(@, [a \in slots |->
                        IF a + Buckets[c] \in slots THEN a + Buckets[c] ELSE NULL]),
           !.hdr[p] = [cache |-> c, next |-> h.partial[c], free |-> SlotAddr(p, c, 0),
                       used |-> 0, total |-> SlotsPerSlab(c)],
           !.partial[c] = p]

----
\* kmalloc and kfree.

\* The first bucket of the array that is large enough.
BucketFor(size) == {c \in Caches : size <= Buckets[c] /\ \A k \in Caches : k < c => size > Buckets[k]}

\* Mutant: does not move the free list past the slot it returns.
TakeSlot_SameSlot(h, c) ==
    LET s  == h.partial[c]
        h1 == [h EXCEPT !.hdr[s].used = @ + 1]
    IN  IF h1.hdr[s].used = h1.hdr[s].total THEN move_slab_to_full(h1, c, s) ELSE h1

\* slab_alloc's work on the slab at the head of the partial list.
TakeSlot(h, c) ==
    LET s    == h.partial[c]
        slot == h.hdr[s].free
        h1   == [h EXCEPT !.hdr[s].free = h.word[slot], !.hdr[s].used = @ + 1]
    IN  IF h1.hdr[s].used = h1.hdr[s].total THEN move_slab_to_full(h1, c, s) ELSE h1

Refill(h, c) == IF h.partial[c] = NULL THEN init_new_slab(h, c) ELSE h

\* Mutant: moves a slab back to the partial list only when its last slot is freed.
GiveSlot_OnlyWhenEmpty(h, ptr) ==
    LET s  == PageOf(ptr)
        h1 == [h EXCEPT !.word[ptr] = h.hdr[s].free, !.hdr[s].free = ptr, !.hdr[s].used = @ - 1]
    IN  IF h1.hdr[s].used = 0
        THEN move_slab_to_partial(h1, h1.hdr[s].cache, s) ELSE h1

\* kfree of a pointer whose page carries the magic stamp.
GiveSlot(h, ptr) ==
    LET s  == PageOf(ptr)
        h1 == [h EXCEPT !.word[ptr] = h.hdr[s].free, !.hdr[s].free = ptr, !.hdr[s].used = @ - 1]
    IN  IF h1.hdr[s].used = h1.hdr[s].total - 1
        THEN move_slab_to_partial(h1, h1.hdr[s].cache, s) ELSE h1

Addresses == UNION {SlotsOf(p, c) : p \in Frames, c \in Caches}

Init ==
    /\ heap = [partial |-> [c \in Caches |-> NULL],
               full    |-> [c \in Caches |-> NULL],
               hdr     |-> [p \in Frames |-> NoHeader],
               word    |-> [a \in Addresses |-> Data],
               pool    |-> FirstPool,
               hhdm    |-> [p \in Frames |-> p]]
    /\ live = {}
    /\ halted = FALSE

\* Is there memory for the slab this request may need?
Enough(c) == heap.partial[c] # NULL \/ Cardinality(heap.pool) >= PagesPerSlab(c)

\* From its return on a block's bytes are the caller's, the word that was the link included.
Filled(h, b) ==
    [h EXCEPT !.word = Override(@, [a \in b.addr .. b.addr + b.size - 1 |-> Data])]

kmalloc(size) ==
    /\ ~halted /\ Cardinality(live) < MaxLive
    /\ \E c \in BucketFor(size) :
          /\ Enough(c)
          /\ LET h == Refill(heap, c)
                 b == [addr |-> h.hdr[h.partial[c]].free, size |-> size]
             IN  /\ heap' = Filled(TakeSlot(h, c), b)
                 /\ live' = live \cup {b}
    /\ UNCHANGED halted

\* pmm_alloc's 0 is not tested: the header is written to frame 0, which is not mapped.
kmallocOutOfMemory(size) ==
    /\ ~halted
    /\ \E c \in BucketFor(size) : ~Enough(c)
    /\ halted' = TRUE
    /\ UNCHANGED <<heap, live>>

kfree(b) ==
    /\ ~halted
    /\ heap' = GiveSlot(heap, b.addr)
    /\ live' = live \ {b}
    /\ UNCHANGED halted

Next == \/ \E size \in Requests : kmalloc(size) \/ kmallocOutOfMemory(size)
        \/ \E b \in live : kfree(b)

Spec == Init /\ [][Next]_vars

----
\* Properties.

Slabs == {p \in Frames : heap.hdr[p] # NoHeader}

\* The free slots of slab p, from its free list head on; NULL or Data from the end on.
FreeWalk(p) ==
    LET at[n \in 0 .. heap.hdr[p].total] ==
            IF n = 0 THEN heap.hdr[p].free
            ELSE IF at[n-1] \in {NULL, Data} THEN at[n-1] ELSE heap.word[at[n-1]]
    IN  at

FreeSlots(p) == {FreeWalk(p)[n] : n \in 0 .. heap.hdr[p].total} \ {NULL}

Pointer == Addresses \cup {NULL, Data}

TypeOK ==
    /\ heap.partial \in [Caches -> Frames \cup {NULL}]
    /\ heap.full \in [Caches -> Frames \cup {NULL}]
    /\ heap.hdr \in [Frames -> [cache: Caches \cup {0}, next: Frames \cup {NULL},
                                free: Addresses \cup {NULL}, used: Nat, total: Nat]]
    /\ heap.word \in [Addresses -> Pointer]
    /\ heap.pool \subseteq FirstPool
    /\ heap.hhdm \in [Frames -> Frames]
    /\ live \subseteq [addr: Addresses, size: Requests]
    /\ halted \in BOOLEAN

(* A slab with a free slot is on its cache's partial list and a slab without one on the full      *)
(* list, on no other list, and the lists end: kmalloc finds every free slot and never a full slab.*)
SlabsOnTheirList ==
    \A c \in Caches :
        /\ OnList(heap, heap.partial[c]) =
              {p \in Slabs : heap.hdr[p].cache = c /\ heap.hdr[p].used < heap.hdr[p].total}
        /\ OnList(heap, heap.full[c]) =
              {p \in Slabs : heap.hdr[p].cache = c /\ heap.hdr[p].used = heap.hdr[p].total}
        /\ Walk(heap, heap.partial[c])[Cardinality(Frames)] = NULL
        /\ Walk(heap, heap.full[c])[Cardinality(Frames)] = NULL

(* The free list of a slab runs through each of its slots that is not in use exactly once, through *)
(* no slot in use and through nothing a caller wrote; the header's counter agrees.                *)
FreeListsAreExact ==
    \A p \in Slabs :
        /\ FreeSlots(p) = SlotsOf(p, heap.hdr[p].cache) \ {b.addr : b \in live}
        /\ Cardinality(FreeSlots(p)) = heap.hdr[p].total - heap.hdr[p].used
        /\ FreeWalk(p)[Cardinality(FreeSlots(p))] = NULL

(* Pages two slabs address never overlap, and no two of those pages lie on the same frame, though *)
(* a large slab maps whatever frames it gets behind its first page.                               *)
Span(p) == p .. p + PagesPerSlab(heap.hdr[p].cache) - 1
SlabPagesAreTheirOwn ==
    \A p, q \in Slabs :
        /\ p # q => Span(p) \cap Span(q) = {}
        /\ \A v \in Span(p), w \in Span(q) : v # w => heap.hhdm[v] # heap.hhdm[w]
        /\ \A v \in Span(p) : heap.hhdm[v] \notin heap.pool

(* Whatever the order of calls: every slab on the one list its counter says, its free list exact, *)
(* and its pages its own (mem.c:365-450).                                                         *)
HeapIsConsistent == SlabsOnTheirList /\ FreeListsAreExact /\ SlabPagesAreTheirOwn

(* The heap takes a frame from the physical memory manager only when no slab of that cache has a  *)
(* free slot left.                                                                                *)
GrowsOnlyWhenFull ==
    [][\A c \in Caches :
          heap.pool # heap'.pool /\ heap'.hdr[Lowest(heap.pool)].cache = c
          => \A p \in Slabs : heap.hdr[p].cache = c => heap.hdr[p].used = heap.hdr[p].total]_vars

(* mem.c:108 calls the 4096-byte bucket one page, and init_new_slab gives it one: so a block lies  *)
(* in the pages of its slab.                                                                      *)
BlockFitsItsPages ==
    \A b \in live : PageOf(b.addr + b.size - 1) \in Span(PageOf(b.addr))

Abs == INSTANCE BlockAllocator WITH Sizes <- Requests, blocks <- live

(* kmalloc and kfree implement the abstract allocator: every block is disjoint from every other.  *)
ImplementsBlockAllocator == Abs!AbsSpec
====
