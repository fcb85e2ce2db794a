---- MODULE Vmm ----
(***************************************************************************)
(* The virtual memory manager of mem.c and its clients: vmm_init copies    *)
(* the bootloader's top table, vmm_get_pte walks the tree and allocates    *)
(* the tables that are missing, vmm_map writes the leaf.  The boot thread  *)
(* maps the framebuffer, the user program's code and its stack; from then  *)
(* on the user program touches pages and page_fault_handler of idt.c maps  *)
(* them on demand, while the kernel heap takes frames from the same        *)
(* physical memory manager and maps those behind the first of a large slab *)
(* over the direct map.                                                    *)
(*                                                                         *)
(* A virtual page is the sequence of its table indexes, top level first.   *)
(* The processor walks the tables by their frames, the kernel reads and    *)
(* writes them through the direct map, whose pages are mapped by the same  *)
(* tables.  A call of vmm_map is one step: it runs with interrupts off in  *)
(* a handler, and no handler that falls into one of the boot thread shares *)
(* a table with it below the top one.                                      *)
(*                                                                         *)
(* Two things take the tables out of the kernel's control: frame 0, which  *)
(* pmm_alloc answers when no frame is left and which only the page fault   *)
(* handler refuses, and a slab that is mapped over the address of a table. *)
(* The kernel notices neither and goes on, and so does the model; astray   *)
(* remembers that it happened.                                             *)
(***************************************************************************)
EXTENDS Integers, Sequences, FiniteSets

CONSTANTS
    Levels,         \* levels of the tree                        (4)
    Idx,            \* indexes of a table's entries              (0 .. 511)
    Frames,         \* frames, numbered from 1: the address divided by 4096, and 1 more
    Zero,           \* the frame at physical address 0           (1)
    Pools,          \* sets of frames the memory map may leave for pmm_alloc
    Kept,           \* frames outside of the pool that the kernel uses: bitmap, archive
    Direct,         \* virtual page of each frame in the direct map (hhdm_offset)
    LimineRoot,     \* frame of the bootloader's top table
    LimineTables,   \* tables the bootloader built: [frames -> [Idx -> entries]]
    Extras,         \* pages a slab of some bucket has behind its first ({0, 1, 3})
    VideoMap,       \* framebuffer: [virtual pages -> device frames]
    UserPages,      \* virtual pages of the user program's code and stack
    DemandPages     \* virtual pages of the range page_fault_handler serves

Pages == [1 .. Levels -> Idx]
Usable == UNION Pools
Absent == [present |-> FALSE, frame |-> 0, user |-> FALSE]
EntryTo(f, u) == [present |-> TRUE, frame |-> f, user |-> u]
Entries == [present : {TRUE}, frame : Frames, user : BOOLEAN] \cup {Absent}
\* Memory nobody cleared may hold anything, entries that look valid included.
Junk == [i \in Idx |-> EntryTo(LimineRoot, TRUE)]
Cleared == [i \in Idx |-> Absent]

\* The frames the processor meets on its way to a page, from the top table to the page's own.
Reach(tab, top, page) ==
    LET at[n \in 0 .. Levels] ==
            IF n = 0 THEN top
            ELSE IF at[n-1] = 0 THEN 0
            ELSE LET e == tab[at[n-1]][page[n]] IN IF e.present THEN e.frame ELSE 0
    IN  at
TablesOf(tab, top) == {Reach(tab, top, p)[n] : p \in Pages, n \in 0 .. Levels - 1} \ {0}

\* Every table is met at the end of one way only.
Way(page, n) == [k \in 1 .. n |-> page[k]]
IsTree(tab, top) ==
    LET nodes == {<<Way(p, n), Reach(tab, top, p)[n]>> : p \in Pages, n \in 0 .. Levels - 1}
    IN  \A x, y \in nodes : x[2] # 0 /\ x[2] = y[2] => x[1] = y[1]

\* Memory as the bootloader leaves it, and the pages it mapped: the kernel and the direct map of
\* all memory, whose frames may be anything.
Booted == [f \in Frames |-> IF f \in DOMAIN LimineTables THEN LimineTables[f] ELSE Junk]
DirectPages == {p \in Pages : Reach(Booted, LimineRoot, p)[Levels] # 0}

ASSUME VmmAssumption ==
    /\ Levels \in Nat \ {0} /\ Idx \subseteq Nat
    /\ Frames \subseteq Nat \ {0} /\ Usable \subseteq Frames
    /\ Zero \in Frames \ (Usable \cup DOMAIN LimineTables \cup Kept)
    /\ LimineRoot \in DOMAIN LimineTables
    /\ DOMAIN LimineTables \subseteq Frames \ Usable
    /\ Kept \subseteq Frames \ Usable
    /\ VideoMap \in [DOMAIN VideoMap ->
                        Frames \ (DOMAIN LimineTables \cup Usable \cup {Zero})]
    /\ DOMAIN VideoMap \subseteq Pages /\ UserPages \subseteq Pages
    /\ DemandPages \subseteq Pages \ (DOMAIN VideoMap \cup DirectPages)

\* The bootloader's tables are a tree of their own, outside the memory it leaves to the kernel.
ASSUME LimineAssumption ==
    /\ \A f \in DOMAIN LimineTables :
          LimineTables[f] \in [Idx -> Entries]
    /\ \A p \in Pages : \A n \in 0 .. Levels - 1 :
          Reach(Booted, LimineRoot, p)[n] \in DOMAIN LimineTables \cup {0}
    /\ IsTree(Booted, LimineRoot)

\* The direct map has a page for every frame, apart from the pages mapped elsewhere, and leads to
\* all memory the kernel uses; the pages of a slab stay within it.
ASSUME DirectAssumption ==
    /\ Direct \in [Frames -> Pages \ (DOMAIN VideoMap \cup UserPages \cup DemandPages)]
    /\ \A f, g \in Frames : Direct[f] = Direct[g] => f = g
    /\ \A f \in Usable \cup DOMAIN LimineTables \cup Kept :
          Reach(Booted, LimineRoot, Direct[f])[Levels] = f
    /\ Extras \subseteq Nat
    /\ \A f \in Usable \cup {Zero}, n \in Extras : \A i \in 0 .. n : f + i \in Frames

VARIABLES
    table,     \* contents of every frame, read as a page table
    root,      \* kernel_pml4, 0 before vmm_init
    pool,      \* frames pmm_alloc has left
    used,      \* frames taken for something else than a table
    slab,      \* the slab init_new_slab is mapping, or NoSlab
    todo,      \* pages the boot thread has yet to map
    want,      \* the user access under way: a virtual page, or NoPage
    pc,        \* "start", "gdt", "boot", "user", "fault" (handler entered) or "halted"
    memory,    \* history: the pool the memory map left
    heap,      \* history: the frames whose pages of the direct map the heap was given
    astray     \* history: frame 0 was used for a frame, or a slab mapped over a table

vars == <<table, root, pool, used, slab, todo, want, pc, memory, heap, astray>>

NoPage == <<>>
NoSlab == [frame |-> 0, next |-> 0, pages |-> 0]

Lowest(S) == CHOOSE x \in S : \A y \in S : x <= y
\* What pmm_alloc answers, 0 included.
pmm_alloc(free) == IF free = {} THEN Zero ELSE Lowest(free)

----
\* The walk.

\* The frame behind the address frame + hhdm_offset, 0 if the access faults.
Via(tab, frame) == Reach(tab, root, Direct[frame])[Levels]

\* A walk of the kernel: tables and pool, the frame it takes its next entry from, 0 after a fault,
\* and whether frame 0 was taken for a table.
Walks == [tab : [Frames -> [Idx -> Entries]], pool : SUBSET Frames,
          cur : Frames \cup {0}, zero : BOOLEAN]

\* One level further, through entry i, with a new table if there is none.  Neither the frame nor
\* its address in the direct map is tested.
NextTable ==
    [i \in Idx |-> [s \in Walks |->
        LET e == s.tab[s.cur][i]
            g == pmm_alloc(s.pool)
            to == Via(s.tab, g)
            new == [s.tab EXCEPT ![to] = Cleared, ![s.cur][i] = EntryTo(g, TRUE)]
        IN  IF s.cur = 0 THEN s
            ELSE IF e.present THEN [s EXCEPT !.cur = Via(s.tab, e.frame)]
            ELSE IF to = 0 THEN [s EXCEPT !.pool = @ \ {g}, !.cur = 0, !.zero = @ \/ g = Zero]
            ELSE [tab |-> new, pool |-> s.pool \ {g}, cur |-> Via(new, g),
                  zero |-> s.zero \/ g = Zero]]]

\* The table the leaf belongs to, all levels but the last one taken.
vmm_get_pte(page, tab, free) ==
    LET at[n \in 0 .. Levels - 1] ==
            IF n = 0 THEN [tab |-> tab, pool |-> free, cur |-> Via(tab, root), zero |-> FALSE]
            ELSE NextTable[page[n]][at[n-1]]
    IN  at[Levels - 1]

\* Writes the leaf, unless the kernel faults on the way and halts.
vmm_map(page, frame, user, free) ==
    LET s == vmm_get_pte(page, table, free)
    IN  /\ table' = IF s.cur = 0 THEN s.tab
                    ELSE [s.tab EXCEPT ![s.cur][page[Levels]] = EntryTo(frame, user)]
        /\ pool' = s.pool

MapSucceeds(page, free) == vmm_get_pte(page, table, free).cur # 0
MapUsesZero(page, free) == vmm_get_pte(page, table, free).zero

Translate(page) == IF root = 0 THEN 0 ELSE Reach(table, root, page)[Levels]

\* Is every entry on the way open to user mode?
UserMayUse(page) ==
    /\ Translate(page) # 0
    /\ \A n \in 1 .. Levels : table[Reach(table, root, page)[n-1]][page[n]].user

----
\* The boot thread.

Init ==
    /\ table = Booted
    /\ root = 0 /\ memory \in Pools /\ pool = memory /\ used = {}
    /\ slab = NoSlab /\ heap = {} /\ astray = FALSE
    /\ todo = DOMAIN VideoMap \cup UserPages
    /\ want = NoPage /\ pc = "start"

vmm_init ==
    /\ pc = "start"
    /\ root' = pmm_alloc(pool)
    /\ pool' = pool \ {pmm_alloc(pool)}
    /\ table' = [table EXCEPT ![pmm_alloc(pool)] = table[LimineRoot]]
    /\ astray' = (pool = {})
    /\ pc' = "gdt"
    /\ UNCHANGED <<used, slab, todo, want, memory, heap>>

\* The stack the processor takes when it leaves user mode, under its address in the direct map.
init_gdt ==
    /\ pc = "gdt"
    /\ pool' = pool \ {pmm_alloc(pool)}
    /\ used' = used \cup {pmm_alloc(pool)}
    /\ astray' = (astray \/ pool = {})
    /\ pc' = "boot"
    /\ UNCHANGED <<table, root, slab, todo, want, memory, heap>>

\* The loop over the framebuffer: device frames, supervisor only.
MapVideo ==
    /\ pc = "boot" /\ slab = NoSlab
    /\ \E page \in todo \cap DOMAIN VideoMap :
          /\ \A q \in todo \cap DOMAIN VideoMap : VideoMap[page] <= VideoMap[q]
          /\ vmm_map(page, VideoMap[page], FALSE, pool)
          /\ astray' = (astray \/ MapUsesZero(page, pool))
          /\ todo' = todo \ {page}
          /\ pc' = IF MapSucceeds(page, pool) THEN "boot" ELSE "halted"
    /\ UNCHANGED <<root, used, slab, want, memory, heap>>

\* The code page and then the stack page: a frame, and its mapping for user mode.  The copy of the
\* program goes to the code's frame, whose contents no property is about.
MapUser ==
    /\ pc = "boot" /\ slab = NoSlab
    /\ todo # {} /\ todo \cap DOMAIN VideoMap = {}
    /\ \E page \in todo :
          LET f == pmm_alloc(pool)
          IN  /\ vmm_map(page, f, TRUE, pool \ {f})
              /\ astray' = (astray \/ f = Zero \/ MapUsesZero(page, pool \ {f}))
              /\ used' = used \cup {f}
              /\ todo' = todo \ {page}
              /\ pc' = IF MapSucceeds(page, pool \ {f}) THEN "boot" ELSE "halted"
    /\ UNCHANGED <<root, slab, want, memory, heap>>

EnterUser ==
    /\ pc = "boot" /\ slab = NoSlab /\ todo = {}
    /\ pc' = "user"
    /\ UNCHANGED <<table, root, pool, used, slab, todo, want, memory, heap, astray>>

----
\* The user program and the kernel under it.

\* The program decides to touch a page.
UserTouches ==
    /\ pc = "user" /\ slab = NoSlab /\ want = NoPage
    /\ want' \in UserPages \cup DemandPages
    /\ UNCHANGED <<table, root, pool, used, slab, todo, pc, memory, heap, astray>>

\* The access goes through,
UserProceeds ==
    /\ pc = "user" /\ slab = NoSlab /\ want # NoPage /\ UserMayUse(want)
    /\ want' = NoPage
    /\ UNCHANGED <<table, root, pool, used, slab, todo, pc, memory, heap, astray>>

\* or the processor raises a page fault.
UserFaults ==
    /\ pc = "user" /\ slab = NoSlab /\ want # NoPage /\ ~UserMayUse(want)
    /\ pc' = "fault"
    /\ UNCHANGED <<table, root, pool, used, slab, todo, want, memory, heap, astray>>

\* Mutant: maps the frame for the kernel only.
page_fault_handler_NoUserFlag ==
    /\ pc = "fault"
    /\ LET f == pmm_alloc(pool)
       IN  IF Translate(want) = 0 /\ want \in DemandPages /\ f # Zero
           THEN /\ vmm_map(want, f, FALSE, pool \ {f})
                /\ astray' = (astray \/ MapUsesZero(want, pool \ {f}))
                /\ used' = used \cup {f}
                /\ pc' = IF MapSucceeds(want, pool \ {f}) THEN "user" ELSE "halted"
           ELSE pc' = "halted" /\ UNCHANGED <<table, pool, used, astray>>
    /\ UNCHANGED <<root, slab, todo, want, memory, heap>>

\* Mutant: the frame it maps is not marked as used.
page_fault_handler_Unmarked ==
    /\ pc = "fault"
    /\ LET f == pmm_alloc(pool)
       IN  IF Translate(want) = 0 /\ want \in DemandPages /\ f # Zero
           THEN /\ vmm_map(want, f, TRUE, pool)
                /\ astray' = (astray \/ MapUsesZero(want, pool))
                /\ used' = used \cup {f}
                /\ pc' = IF MapSucceeds(want, pool) THEN "user" ELSE "halted"
           ELSE pc' = "halted" /\ UNCHANGED <<table, pool, used, astray>>
    /\ UNCHANGED <<root, slab, todo, want, memory, heap>>

\* Serves a page of its range that is not mapped, if there is a frame, and halts otherwise.
page_fault_handler ==
    /\ pc = "fault"
    /\ LET f == pmm_alloc(pool)
       IN  IF Translate(want) = 0 /\ want \in DemandPages /\ f # Zero
           THEN /\ vmm_map(want, f, TRUE, pool \ {f})
                /\ astray' = (astray \/ MapUsesZero(want, pool \ {f}))
                /\ used' = used \cup {f}
                /\ pc' = IF MapSucceeds(want, pool \ {f}) THEN "user" ELSE "halted"
           ELSE pc' = "halted" /\ UNCHANGED <<table, pool, used, astray>>
    /\ UNCHANGED <<root, slab, todo, want, memory, heap>>

----
\* The heap, in the keyboard handler: nothing else runs until init_new_slab is through.

\* slab_alloc finds no slab with room: one more frame, whose header is written through the direct
\* map, and for the large buckets the pages behind it.
HeapGrows ==
    /\ pc \in {"boot", "user"} /\ slab = NoSlab
    /\ LET f == pmm_alloc(pool)
       IN  /\ pool' = pool \ {f}
           /\ used' = used \cup {f}
           /\ heap' = heap \cup {f}
           /\ astray' = (astray \/ f = Zero)
           /\ \E n \in Extras :
                 slab' = IF n = 0 \/ Via(table, f) = 0 THEN NoSlab
                         ELSE [frame |-> f, next |-> 1, pages |-> n]
           /\ pc' = IF Via(table, f) = 0 THEN "halted" ELSE pc
    /\ UNCHANGED <<table, root, todo, want, memory>>

\* Mutant: the loop starts at the slab's first page.
HeapExtends_FromZero ==
    /\ slab # NoSlab
    /\ LET g == pmm_alloc(pool)
           at == slab.frame + slab.next - 1
           ok == MapSucceeds(Direct[at], pool \ {g})
           hit == at # g /\ at \in TablesOf(table', root) \cup Kept
       IN  /\ vmm_map(Direct[at], g, FALSE, pool \ {g})
           /\ used' = used \cup {g}
           /\ heap' = heap \cup {at}
           /\ astray' = (astray \/ g = Zero \/ MapUsesZero(Direct[at], pool \ {g}) \/ hit)
           /\ slab' = IF ok /\ slab.next < slab.pages THEN [slab EXCEPT !.next = @ + 1] ELSE NoSlab
           /\ pc' = IF ok THEN pc ELSE "halted"
    /\ UNCHANGED <<root, todo, want, memory>>

\* One turn of init_new_slab's loop: another frame, mapped where the direct map has the frame
\* behind the slab.  It is the same one unless the slab lies at the end of its region.
HeapExtends ==
    /\ slab # NoSlab
    /\ LET g == pmm_alloc(pool)
           at == slab.frame + slab.next
           ok == MapSucceeds(Direct[at], pool \ {g})
           hit == at # g /\ at \in TablesOf(table', root) \cup Kept
       IN  /\ vmm_map(Direct[at], g, FALSE, pool \ {g})
           /\ used' = used \cup {g}
           /\ heap' = heap \cup {at}
           /\ astray' = (astray \/ g = Zero \/ MapUsesZero(Direct[at], pool \ {g}) \/ hit)
           /\ slab' = IF ok /\ slab.next < slab.pages THEN [slab EXCEPT !.next = @ + 1] ELSE NoSlab
           /\ pc' = IF ok THEN pc ELSE "halted"
    /\ UNCHANGED <<root, todo, want, memory>>

Next == \/ vmm_init \/ init_gdt \/ MapVideo \/ MapUser \/ EnterUser
        \/ UserTouches \/ UserProceeds \/ UserFaults \/ page_fault_handler
        \/ HeapGrows \/ HeapExtends

\* The processor completes or faults an access it began, and the handlers it enters run to their end.
Fairness == /\ WF_vars(UserProceeds) /\ WF_vars(UserFaults)
            /\ WF_vars(page_fault_handler) /\ WF_vars(HeapExtends)

Spec == Init /\ [][Next]_vars
FairSpec == Spec /\ Fairness

----
\* Properties.

TypeOK ==
    /\ table \in [Frames -> [Idx -> [present: BOOLEAN, frame: Frames \cup {0}, user: BOOLEAN]]]
    /\ root \in Frames \cup {0}
    /\ memory \in Pools /\ pool \subseteq memory /\ used \subseteq memory \cup {Zero}
    /\ heap \subseteq Frames /\ astray \in BOOLEAN
    /\ slab = NoSlab \/ /\ slab.frame \in memory \cup {Zero} /\ slab.pages \in Extras
                        /\ slab.next \in 1 .. slab.pages
    /\ todo \subseteq Pages /\ want \in Pages \cup {NoPage}
    /\ pc \in {"start", "gdt", "boot", "user", "fault", "halted"}

\* Where a slab may reach past the memory it starts in, nothing the kernel uses follows: behind
\* each region there are as many frames of nobody as a slab has pages behind its first.
RoomBehind(P) ==
    \A f \in P, n \in Extras : \A i \in 1 .. n :
        f + i \in P \/ \A j \in i .. n : f + j \notin P \cup DOMAIN LimineTables \cup Kept

(* The tables form a tree: walks to different pages share a table only as far as they share the   *)
(* way to it.  No table is a frame of a page mapped since boot, in use for something else or still *)
(* in the allocator's pool.  A page of the demand range that is mapped has a frame to itself,      *)
(* which neither the heap nor a table uses.  And the kernel reaches each table, each free frame    *)
(* and its own data at their addresses in the direct map, whatever init_new_slab maps over it.     *)
(* All this until frame 0 is used or a slab falls on a table, which takes an empty pool, or a      *)
(* region of memory with something of the kernel's right behind it.                                *)
TablesFormATree ==
    LET way == [p \in Pages |-> Reach(table, root, p)]
        Tables == TablesOf(table, root)
    IN  /\ root # 0 /\ ~astray =>
              /\ IsTree(table, root)
              /\ Tables \cap (used \cup pool) = {}
              /\ \A p \in Pages \ DirectPages : way[p][Levels] \notin Tables
              /\ \A p \in DemandPages : way[p][Levels] # 0 =>
                    /\ way[p][Levels] \in used
                    /\ \A q \in Pages \ (DirectPages \cup {p}) : way[q][Levels] # way[p][Levels]
              /\ \A f \in Tables \cup pool \cup Kept : way[Direct[f]][Levels] = f
        /\ astray => pool = {} \/ ~RoomBehind(memory)

(* A touched page of the demand range becomes usable and the program goes on, or the machine ran   *)
(* out of frames and halted: the handler never returns to the same fault again and again.  A       *)
(* kernel gone astray promises nothing.                                                            *)
FaultsAreServed ==
    (want \in DemandPages /\ pc = "user")
        ~> (want = NoPage \/ (pc = "halted" /\ pool = {}) \/ astray)

\* The map the tables stand for; the bootloader's before vmm_init switches to the copy.
CurrentMap == [p \in Pages |->
                 IF root = 0 THEN Reach(table, LimineRoot, p)[Levels] ELSE Translate(p)]

Abs == INSTANCE AddressSpace WITH Targets <- Frames, Nowhere <- 0, map <- CurrentMap, lost <- astray

\* Pages whose memory somebody holds: the framebuffer's, the program's, the heap's.
Held == DOMAIN VideoMap \cup UserPages \cup {Direct[f] : f \in heap}

(* Each step changes the translation of one page at most, and unmaps none, one turn of the loop    *)
(* that maps a slab included: vmm_init's copy translates like the bootloader's tables, a table     *)
(* allocated on a walk disturbs no other page.  And the program's code and stack and the           *)
(* framebuffer stay where boot mapped them, and each page the heap was given where it was then,    *)
(* whatever the fault handler and later slabs map.  Until the kernel goes astray.                  *)
ImplementsAddressSpace ==
    /\ Abs!AbsSpec
    /\ [][\A p \in Held :
             pc \in {"user", "fault"} /\ ~astray'
                 => Translate(p) # 0 /\ Translate(p)' = Translate(p)]_vars
====
