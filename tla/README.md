# Dypiro OS: specifications, model checking and proofs

Dypiro OS is a small x86-64 kernel started by the Limine boot loader.  It has a
bitmap allocator of physical frames, four-level page tables with demand paging
for one ring-3 program, a slab heap, a file system in memory filled from a tar
archive, a shell that runs inside the keyboard interrupt, and a framebuffer
console taken from flanterm.  This directory holds TLA+ models of those parts,
configurations that check them with TLC, and theorems checked by TLAPS.

Paths below are relative to `src/kernel/src/`.

Contents: [1 The system](#1-the-system) · [2 Modules](#2-modules) ·
[3 Runs](#3-runs) · [4 What the runs refute](#4-what-the-runs-refute) ·
[5 Bounds](#5-bounds) · [6 Fairness](#6-fairness) · [7 Proofs](#7-proofs) ·
[8 What is not covered](#8-what-is-not-covered) · [9 Plan](#9-plan)

## 1 The system

### 1.1 Components

| Component | State | Operations | What makes it correct |
|---|---|---|---|
| Physical memory manager, `mem.c` | `bitmap`, `bitmap_size`, `total_pages`, the boot loader's memory map | `pmm_init`, `pmm_init_free_regions`, `lock_bitmap`, `pmm_alloc`, `pmm_set_page`, `pmm_free_page` | Only usable RAM is handed out, each frame once, never the bitmap's own; no frame is lost; writes stay in the bitmap |
| Virtual memory manager, `mem.c`, `mem.h` | page tables, `kernel_pml4` | `vmm_init`, `vmm_get_pte`, `vmm_map` | The tables form a tree; mapping one page changes that page's translation only; new tables are empty; the kernel reaches its tables, free frames and data through the direct map |
| Demand paging, `idt.c` | the tables, CR2 | `page_fault_handler` | A legal fault is served once and the program goes on; a frame serves one page; no frame left ends the machine |
| Slab heap, `mem.c` | `kmalloc_caches` (a partial and a full list per bucket), slab headers, free lists inside the free slots | `kmalloc`, `kfree`, `slab_alloc`, `init_new_slab`, `move_slab_to_full`, `move_slab_to_partial`, `remove_slab_from_list` | Blocks in use never overlap, lie in frames of the heap, and a freed block can be had again |
| File system, `vfs.c` | the list `root_fs` | `vfs_mount_tar`, `vfs_open`, `vfs_touch`, `vfs_write`, `vfs_ls` | No file is lost; a name leads to the newest file of that name; a write stays in the file |
| Shell, `kernel.c`, `keyboard.h` | `cmd`, `buffer_idx`, `size`, `ticks`, `target_ticks` | `keyboard_handler_c`, `shell_input`, `execute_command`, `timer_handler_c` | The line fits its block; no command leaks or frees twice; a count that was announced is reported; sizes stay within the limit |
| Framebuffer console, `flanterm/backends/fb.c` | `grid`, `queue`, `map`, the framebuffer, cursor, colours, margins | `raw_putchar`, `scroll`, `revscroll`, `clear`, `move_character`, `set_cursor_pos`, the colour setters, save and restore, `double_buffer_flush` | The queue is invisible: the screen shows what was written, and one cursor |
| Escape-sequence parser, `flanterm/flanterm.c` | flags and up to 16 values of the sequence under way, margins, saved cursors, modes, character sets | `flanterm_putchar`, `escape_parse`, `control_sequence_parse`, `osc_parse`, the Unicode functions | A sequence, complete or aborted, leaves the parser where plain text continues; a command changes the cells it names; the scroll region stays usable |
| Colours of the text, `flanterm.c`, `fb.c` | bold, reverse video, the two chosen colours, the two drawn ones | `sgr`, the setters, save, restore and reinit | The colours drawn in are those the attributes name |
| `printf.c` | none between calls | `vsnprintf_` with four output functions | Nothing is written past the caller's limit; numbers are those of C |
| Boot, `main.c`, `tss.c` | the order of phases, `ft_ctx`, flanterm's pool | `_start`, `flanterm_fb_init`, `test_user_entry` | Each phase runs when what it needs is there; the consoles fit the pool |
| Interrupts, `idt.c`, `interrupt.asm`, `pic.c` | gates, masks, requests | `init_idt`, `irq_handler`, `pic_init`, `timer_init` | A handler is not interrupted by a device, finds what it works with, and every interrupt that is on is served; a page fault of the kernel itself stops the machine |
| GDT and TSS, `gdt.c`, `tss.c`, `gdt.asm` | descriptors, the ring-0 stack | `init_gdt` | Entering the kernel from ring 3 finds a stack |
| limine, makefiles | none of the kernel's | | |

### 1.2 Interactions

* **Frames.**  `pmm_alloc` serves `vmm_init`, `vmm_get_pte`, `init_gdt`, the boot
  mappings, `page_fault_handler` and `slab_alloc` with `init_new_slab`.  Nothing is
  given back (`pmm_free_page` is called only while the bitmap is set up).  Only
  `page_fault_handler` looks whether the result is 0; everybody else goes on with frame 0.
* **Direct map.**  The kernel reaches bitmap, tables, slabs and the archive at their
  physical address plus `hhdm_offset`, through page tables the boot loader built and
  the kernel's top table shares.  `init_new_slab` maps frames of a large slab over the
  same pages, with `vmm_map`, at the first key press already (`kmalloc(10240)`).
* **Blocks.**  The file system takes two blocks per created file (node and data)
  and one per mounted header; the shell one for the line, one for `size` and
  one while `read` prints.
* **Two threads of control.**  The boot thread (`_start`, then the user program)
  and the interrupt handlers.  All gates are interrupt gates, so no device interrupts a
  handler; but a page fault may be taken anywhere, in the boot thread or inside a
  handler (a write through the NULL `kmalloc` returned, a print without a console), and
  then enters vector 14 on top of it.  And `_start` executes `sti` (`main.c:109`) before it maps
  the framebuffer and mounts the archive, and from then on a key press runs the
  shell, and with it the heap, the frame allocator, the file system and the
  console, between any two instructions of the boot thread.
* **Console.**  `printf` formats into `flanterm_write`, which parses (`Terminal`,
  `Colours`), changes cells (`FbConsole`) and flushes at its end.  Both threads of
  control call it.

### 1.3 What is hard

Interrupts during boot (allocations, `root_fs`, the console); the lists and free
lists of the heap over long sequences of calls; roundings at the edges of the
bitmap and of slabs; stale memory read as a page table, a name or an argument;
the direct map changed under the kernel that uses it, and frame 0 taken for memory; the equality test that decides whether a count is ever reported; the queue of
changed cells, whose items may be newer or older than the grid; escape sequences
that end anywhere, and commands that are loops over a function that wraps and
scrolls; colours swapped and set in any order; the conversion buffer of `printf`,
filled from the back by digits, zeros, prefix and sign.
`PROJECT.json` lists every such hazard at its line, with the properties that
would catch it.

## 2 Modules

Operator and action names are those of the C functions wherever the action is
the whole function.  Definitions whose name is that of another with a suffix
(`LockBitmap_RoundsDown`) are faulty variants; each shows that one property
notices a plausible bug.

| Module | Models | Abstract specification | MC modules | Proofs |
|---|---|---|---|---|
| `Pmm` | physical memory manager | `FrameAllocator` | `MCPmm` | `PmmProofs` |
| `Slab` | heap | `BlockAllocator` | `MCSlab` | `SlabProofs` |
| `Vmm` | page tables, boot mappings, user program, demand paging | `AddressSpace` | `MCVmm` | `VmmProofs` |
| `Vfs` | file system and archive mount | `FileStore` | `MCVfs` | `ShellProofs` |
| `Shell` (extends `Vfs`) | shell, keyboard and timer handlers over the file system | | `MCShell` | `ShellProofs` |
| `Boot` | `_start`, gates, interrupt controller, handlers, the allocation of the consoles | | `MCBoot` | `BootProofs` |
| `FbConsole` | back end of the console | `Screen` | `MCFbConsole` | `FbConsoleProofs` |
| `Terminal` | the parser and its commands over a screen | | `MCTerminal` | `TerminalProofs` |
| `Colours` | `sgr` and the colour setters | | `MCColours` | `TerminalProofs` |
| `Printf` | `printf.c` | | `MCPrintf` | `PrintfProofs` |

### Pmm

The state is the set of set bits, the bitmap's place, the geometry, and the bits
written behind its end.  Page size, bits per byte and bits per scanned chunk are
constants.  The actions follow boot: `PmmInit` (the highest usable address, the
first entry that fits the bitmap, all bits set), `PmmInitFreeRegions` (or
`SweepFaults` when no entry fits and the sweep writes through NULL),
`LockBitmap`, then `PmmAlloc` and `PmmAllocFails`.  The memory map is chosen from
a set; Limine's base revision keeps frame 0 out of the usable entries, which is
the assumption `MemMapAssumption` makes.  `FrameAllocator` says: there is a pool,
each allocation takes one frame out of it.

### Slab

Addresses are numbers, so that overlap can be stated.  A slab is the header of
its first page; the free list is threaded through the slots in the model's
memory exactly as in the code, and the partial and full lists by `next`.  `kmalloc` covers the bucket search, the refill from the frame
allocator (with the extra pages `init_new_slab` maps over the direct map), the
move to the full list; `kfree` the way back.  `kmallocOutOfMemory` is the frame
allocator's 0 being used as an address: the model stops there, while the code makes a
slab in frame 0 and goes on (`Vmm` follows that, as far as the tables are concerned).
What mapping the extra pages does to the direct map is `Vmm`'s as well.
`BlockAllocator` says: a block is new and apart from all others until it is
freed.

### Vmm

A tree of `Levels` tables with indexes `Idx`; a virtual page is its sequence of
indexes.  Frames hold tables whose memory was never cleared: until the memset of
`vmm_get_pte` they contain entries that look valid (`Junk`).  The tables the boot
loader leaves (`Booted`) are an input: a tree outside the memory the kernel may
use, whose leaves, the kernel and the direct map, may lead to any frame
(`DirectPages`).

The processor walks tables by their frames (`Reach`).  The kernel does not: it reads and
writes them at their addresses in the direct map (`Direct`), whose pages the same tables
map, so each step of `vmm_get_pte` first asks where such an address leads (`Via`,
`NextTable`), and faults if it leads nowhere.  `pmm_alloc` answers `Zero`, frame 0, when
the pool is empty, and the walk links it as a table and goes on, as mem.c:267-269 does;
so do `vmm_init`, `init_gdt` and the heap.  Only `page_fault_handler` refuses it.

The boot thread maps the framebuffer in the order of its frames, then the user's code and
stack; after that the user program touches pages (`UserTouches`), the processor either
lets it go on (`UserProceeds`) or faults (`UserFaults`), and `page_fault_handler` serves
the fault or halts.  At any moment the heap may take a frame (`HeapGrows`), and if the slab
is a large one each of its further pages is a call of `vmm_map` that replaces what the
direct map had there (`HeapExtends`, one turn of the loop of mem.c:335-338); until the loop
is through nothing else runs.

`astray` remembers the two events after which the kernel no longer knows what it writes:
frame 0 was used as a table or as memory, or a slab was mapped over the address of a table,
the bitmap or the archive.  The model goes on after them as the code does; the properties
say until when they hold, and `TablesFormATree` says what it takes: an empty pool, or a
memory map in which something of the kernel's lies right behind a region of free memory
(`RoomBehind`).  `AddressSpace` says: a step gives one page a translation, new or in the
place of an earlier one, and no other page notices, until the state is lost.
`TablesFormATree` is said of walks: two of them meet in a table only if they took
the same way to it, so no table has two places in the tree, and no walk meets a
frame that is free, in use for something else, or a device's.  Its last part is the
kernel's own view: every table, free frame and piece of kernel data is where the direct map
says, whatever was mapped over it.

### Vfs

`nodes` is the list at `root_fs`, newest first.  A name is a base with or without
`./`; `Matches` is the comparison of `vfs_open`.  The mount loop takes two steps
per header (`MountReads`, `MountLinks`), because the boot thread is interruptible
there; `vfs_touch` and `vfs_write` run in the keyboard handler.  With
`KeysDuringBoot = FALSE` the keyboard is idle until the mount is done.  A name of
100 characters has no end in the archive's field, so what is read back is that
name or, with bytes of the block's earlier owner behind it, another (`Garbled`).
`FileStore` says: creating a file gives one name, and possibly names alike, a new
content; writing replaces a content by one of the same length under every name
that leads to it; no name ever loses its file.

### Shell

Extends `Vfs`: the commands `touch`, `write` and `read` call its operators.  The
line editor keeps only the length of the line; what the line says is chosen when
Enter is pressed, a missing argument being any name at all (the code reads what
an earlier owner left in the block).  `size` is a pointer to an int nobody
writes before the first `size` command; it is 0 until then, because `kmalloc(10240)` is
served from the 16384 bucket, where the slot begins with the link to no other slot
(`Provided`).  `simple_atoi` wraps (`Wrapped`).
`ticks` and `target_ticks` are kept as their difference.  Commands that only print
are one action, `Prints`.  A NULL from `kmalloc` that is written through stops the
machine (`Faults`).

### FbConsole

The queue, the map from cells to items, the grid and the framebuffer are those of
`fb.c`, a glyph and its colours being one value.  Each call of the back end is an
action, `double_buffer_flush` included, in any order, the parser's own changes
(margins, scrolling off during a control sequence, cursor on and off) as well.
`Screen` is the same without queue, map and grid: cells change at once, and the
flush shows them.  The refinement mapping reads a cell from the queue when it is
queued and from the grid otherwise.

### Boot

`Order` lists the phases of `_start`; `pc` is the place in it.  A phase that works on
shared structures (`Uses`, the prints of `pmm_init`, `pmm_init_free_regions`, `vmm_init` and
`init_idt` included) takes two steps, `Begin` and the action that `Ends` it, with
interrupts in between once they are on; `busy` says what the boot thread is in the
midst of.  The controller has requests (`irr`), services (`isr`) and masks (`imr`); a
request through a vector without a gate faults, as does a `Spurious` one.  `pic_init`
forgets the requests latched before it.

`frames` stacks the interrupts and faults under way, each with its vector and its cause: a
device, the page the user program demands, or what the kernel did (`Fault`).  A device's is
entered by `Take`, the program's by `UserTouches`.  The kernel's own page faults are taken
wherever the access is: in the boot thread (`PhaseFaults`: a print while `ft_ctx` is NULL, a
bitmap that found no place, an address made of frame 0), in `timer_handler_c` and
`keyboard_handler_c` (the same, and the writes through NULL of `vfs.c:136-137` and
`kernel.c:155`) and in `page_fault_handler`, which prints too.  Each enters vector 14 on top
of what was running.  A handler's frame is `served` when its C function has come to its end,
and left by `EndOfInterrupt`; `page_fault_handler` comes to its end for a page the program
demanded only and otherwise stops the machine, or faults in its own print, and again, until
`MaxFrames` frames are stacked, where the code goes on until the stack is used up.  Before
`lidt` the vectors are the boot loader's, and a fault counts as the end.

The consoles are made of seven parts taken from flanterm's pool of 64 MiB in bytes; a
console that does not fit gives its parts back and leaves `ft_ctx` NULL.  What the
phases do to frames, tables, files and blocks is in the other modules.  `NoDisplay` also
stands for a boot loader of an unsupported base revision, which ends in `hcf` the same
way.

### Terminal

One action per byte, or per number, of what `flanterm_write` is given.  The parser's
flags are those of the context; a cell holds where its character came from, so that
properties can say which cells moved where.  A few things worth knowing when reading
it against the code:

* `scroll_enabled` is FALSE while a control sequence runs and set back in the same
  call, so it is a parameter of `raw_putchar` and not a variable.
* The count and the values of a finished sequence are never read again; the model
  resets them (`Forgotten`).
* `x = Cols` is the state after the last column, in which the next character wraps.
  Commands that erase by writing (`J`, `K`, `X`) then begin on the next line; the
  properties speak of a cursor `OnCell`.
* The counts of `P` and `X` are not bounded by the line; `@` with count 0 erases the rest
  of the line; `B` from the first row below the region moves up one; 0x9b swallows
  the byte after it, which opens the control sequence whatever it is; insert mode shifts the line
  also for bytes that have no glyph; ESC M and ESC E go to column 0; `dec_private` is
  the one flag that CAN leaves.
* `bisearch` is a recursive function of the bounds of the part of the table that is left.
  It relies on what the table in `flanterm.c` is: sorted intervals that do not meet
  (`TerminalAssumption`).

`Colours` is `sgr` and the setters of `fb.c` on a record of attributes.  Colours by number
(38, 48) ignore reverse video and are not remembered; an intensity code for a default
colour in reverse video sets the default of the other colour; ESC c keeps the two
drawn colours while it clears the attributes; ESC 8 before any ESC 7 restores zeros;
a number of 256 or more reads behind `col256`.  A sequence is a fold over its values
(`Taken`), whose state holds the group of a 38 or 48 that is not complete.

### Printf

A call is a format of complete directives, one `Convert` per directive, then `Terminate`.
Characters are numbers, digits their own value. `ntoa` makes the digits from the last one
on, and `ntoa_format` follows the conversion buffer step by step: digits, `Zeros`, `Hashed`
(the prefix), `SignOf`, each only as far as the buffer has room. The caller's limit counts
for a buffer only: `printf_` and `fctprintf` call `_vsnprintf` without one, which
`PrintfAssumption` says. A function does not receive a NUL inside a text (`out_fct`), though
the result counts it; the console is also sent the terminating one.

`CNumber` is the number as the C standard writes it, and `Differs` the list of directives
for which `printf.c` writes another: aligned to the left a precision adds no zeros, and a
zero with a precision has no digit at all; a negative precision argument counts as 0; `#`
loses digits of a number exactly as long as the width; a binary prefix takes one of two
places in zero padding; `#` with an octal precision adds a zero to those of the precision,
and none to the value 0 with precision 0, where C prints "0"; digits with their zeros,
prefix and sign end where the buffer of 32 characters does, and so does zero padding, so
that `%040d` of 5 is 32 characters long (`Filled`). That the list is complete is part of
what is proved. The
code for floating point is not compiled (`../GNUmakefile:61`).

## 3 Runs

| Run | Checks | Distinct states | Result |
|---|---|---|---|
| `pmm` | `TypeOK`, `HandsOutUsableFrames`, `EveryFrameAccounted`, `OverrunIsOneByte`, `ImplementsAllocator` | 59,015 | holds |
| `slab` | `TypeOK`, `HeapIsConsistent`, `BlockFitsItsPages`, `GrowsOnlyWhenFull`, `ImplementsBlockAllocator` | 102,219 | holds |
| `slab_page` | `BlockFitsItsPages` with requests that fill a page | | violated |
| `vmm` | `TablesFormATree`, `FaultsAreServed`, `ImplementsAddressSpace` | 17,281 | holds |
| `boot` | `SetUpBeforeUse`, `ConsolesApart`, `OneInTheKernel`, `InterruptsAreServed` | 22,338 | holds |
| `vfs` | `TypeOK`, `NothingIsLost`, `ImplementsFileStore` | 25,374 | holds |
| `vfs_race` | `NothingIsLost` with keys during boot | | violated |
| `shell` | `ShellTypeOK`, `LineHasItsBlock`, `HeapBalanced`, `PendingCountIsAhead`, `CountIsReported` | 121,442 | holds |
| `console` | `TypeOK`, `QueueIsExact`, `FbShowsGrid`, `CursorRowOnScreen`, `ImplementsScreen` | 301,624 | holds |
| `terminal` | `TypeOK`, `OneStateAtATime`, `CharacterTakesItsWidth`, `CommandsAreExact`, `MarginsHold` | 42,133 | holds |
| `colours` | `ColoursFollowAttributes`, `InkAndPaperAreApart` | 11,334 | holds |
| `printf` | `BufferHoldsTheText`, `NumbersAsInC`, `PaddedToWidth` | 109,842 | holds |

The longest, `console`, takes a little more than two minutes with two workers; the
others between a few seconds and a minute and a half.  To repeat one:

    tlc -workers 2 -config MCSlab.cfg MCSlab

What the passing runs show:

* **`pmm`** covers all small memory maps, so every order of usable and reserved
  entries around the bitmap, partial bytes and partial chunks occur.  It confirms
  that the order sweep, lock is right, and bounds the overrun that the
  truncating division of `mem.c:159` allows: one byte behind the bitmap, which the
  rounding of `lock_bitmap` reserves unless the bitmap fills its last page.
* **`slab`** explores every order of allocations and frees over buckets of three
  slots, one slot of a page, two pages, and the oddly placed 10240 bucket that
  `mem.c:111` puts behind the 16384 one and that no request can reach.
* **`vmm`** has five memory maps.  With `{}` every allocation answers frame 0 from the
  first on; the others leave three to thirteen frames, so that the pool runs dry in the
  middle of each kind of walk: for a boot mapping, for a demand page, for a slab's page.
  Three have a hole of frames that belong to nobody behind a region, where a slab that
  starts in the region's last frame really redirects pages of the direct map, and one
  table of the direct map is missing and allocated on the way; two have a frame of the
  kernel's and a table right behind a region, where a slab covers them.
  `FaultsAreServed` is the liveness property: no access faults for ever.
* **`boot`** lets the timer and the keyboard raise a request at any moment of `_start`,
  and a spurious interrupt come once they are on.  The order of the phases is right:
  whatever comes finds its gate and what its handler uses.  `OneInTheKernel` also
  says where handlers meet the boot thread in the middle of something: between `sti`
  and `cli` and nowhere else; and that of all the page faults the kernel may take, in the
  boot thread, in a handler or in the fault handler itself, none is answered, so nothing
  that was left half done is gone on with.  `InterruptsAreServed` holds for machines that
  do not stop.
* **`vfs`** and **`shell`** mount an archive and then allow every sequence of
  commands, on names that are new, duplicate, or differ by a `./`, and in `vfs`
  hidden and mangled ones.  `CountIsReported` is the shell's liveness property, for users who do not keep
  replacing their count: a second `count` silently takes the place of the first.
* **`console`** interleaves up to four calls with flushes after any of them.
* **`terminal`** begins on seven screens, sends one sequence with every set of up to two
  values, before or after one other item, and checks every command as a step: which
  cells it changes, which it moves and where, and where the cursor ends.  The commands
  are loops over `raw_putchar`, `scroll` and `move_character`, whose wrapping and
  scrolling are what could go wrong.
* **`colours`** gives `sgr` up to four sequences.  `ColoursFollowAttributes` exempts what
  the code does not do (listed under [Terminal](#terminal)), each by name.
* **`printf`** prints one number per call over all flags and boundary widths, precisions
  and values, widths beyond the conversion buffer included, and pairs of directives into
  every kind of output, with limits that cut the text at each place.

## 4 What the runs refute

Each of these runs ends in a counterexample that shows what the code does.

| Run | The code | What it contradicts |
|---|---|---|
| `slab_page` | A slab of one-page slots starts its slot behind the 48-byte header (`mem.c:346`), so the last bytes lie in the next frame | "1 Page" at `mem.c:108` |
| `vfs_race` | The mount loop reads and writes `root_fs` in two steps with interrupts on | "Created file %s", `kernel.c:167` |

Read in the code while modelling it.  The models do as the code does; no run is
spent on these:

* **Frames.**  The scan of `mem.c:205` stops at `total_pages / 64` chunks, so up to 63
  frames are never found, and "Out of memory!" (`mem.c:222`) does not mean that none is
  left.  `EveryFrameAccounted` speaks of the frames the scan reaches.
* **Frame 0.**  `pmm_alloc`'s 0 is frame 0 to everybody but `page_fault_handler`:
  `vmm_init` (`mem.c:292`) makes it the top table, `vmm_get_pte` (`mem.c:267-269`) clears it
  and links it as a table, once for every table that is missing, and `slab_alloc`
  (`mem.c:404-408`) makes slabs in it.  `Vmm` follows all of these.
* **Direct map.**  A slab of several pages takes the frames the scan finds, not those
  behind its first, and maps them where the direct map had the frames behind it
  (`mem.c:337`).  They are the same frames except at the end of a region of free memory;
  there the slab covers whatever lies behind the region, be it a table of the boot loader
  or the archive.
* **Races.**  `pmm_alloc` tests and sets a bit in two steps, `slab_alloc` reads and moves
  the head of the free list in two (`mem.c:412`), and both run with interrupts on
  between `sti` and `cli`.  `vfs_race` shows the same pattern for `root_fs`;
  `OneInTheKernel` says which phases are open to it.
* **Boot.**  Two consoles of 3840 x 2160 pixels do not fit flanterm's pool; the second
  `flanterm_fb_simple_init` (`main.c:131`) then returns NULL, and the next `printf` faults
  through `ft_ctx`; `page_fault_handler` prints as well, and faults again.  A key pressed before `pic_init` writes ICW1 is forgotten, its byte
  stays in the keyboard's buffer, and no further key raises an edge.
* **Interrupts.**  `init_idt` replaces the mask of `pic_init` (`idt.c:66`, 0xFC); `timer_init`
  is never called, so the tick rate is the firmware's while `kernel.c:206` assumes 1000
  Hz; `regs->int_no = 10` (`idt.c:88`) is an assignment; the gates without a handler are
  present with address 0 (`idt.c:49`).
* **Shell and files.**  A leading dot turns the skipping of `./` off whatever follows it
  (`vfs.c:105`), so a hidden file does not open under the name `vfs_ls` prints; a number
  that wraps to a negative int passes the test of `kernel.c:216`, against "Cannot set
  size beyond 10240 bytes" (`kernel.c:222`); `if (!cmd) return;` (`kernel.c:95`) can never
  return.
* **`printf`.**  `fctprintf` promises to return "The number of characters that are sent to
  the output function" (`printf.h:124`); `_out_fct` does not send a NUL that `%c` made
  (`printf.c:167`), which the result counts (`BufferHoldsTheText` states both).  `%#.0o` of
  0 prints nothing (`printf.c:290-295`), where C has "0".  Zero padding ends at 32
  characters (`printf.c:239-242`), whatever the width.
* **Terminal.**  `col256` is read at any index (`flanterm.c:371`); CAN leaves `dec_private`
  set, so that the next sequence is read as a private one.

## 5 Bounds

| Run | Bounds | Why they are enough |
|---|---|---|
| `pmm` | Frames below 11; pages of 2 bytes, bytes of 2 bits, chunks of 4 bits; every map of up to three sorted entries (three-entry maps with lengths 1, 3 and 4) | All remainders of frames by byte and chunk occur, with the bitmap in the first, middle or last entry, filling its entry or not, and of one or several pages |
| `slab`, `slab_page` | Pages of 8 bytes, headers of 2; buckets 2, 8, 16, 12; 6 frames, one not RAM; at most `MaxLive` = 4 blocks in use; requests 1, 2, 6, 10 | Slabs of three slots and of one, of one and two pages; two slabs of the first bucket and up to four of the second, so lists have a head, a middle and a tail; the heap runs dry |
| `vmm` | 3 levels of 4 entries, 30 frames; five memory maps that leave 0 to 13 of them; slabs of 1, 2 and 4 pages; 2 video, 2 user, 2 demand pages; a kernel gone astray is followed while the heap was given at most 3 frames (`MCBound`) | Walks that find all, some or none of their tables; demand pages that share tables with boot mappings and with each other; slabs inside a region, at its end before a hole, and at its end before a table |
| `boot` | `MaxTicks` = 2, `MaxKeys` = 2, `MaxFrames` = 3; four real displays and the real pool of 64 MiB, or no display at all | Both consoles fit, one fits, or none; a second tick or key arrives while the first waits, is served, or has been forgotten; a fault in a handler, and one in the fault handler on top of it |
| `vfs`, `vfs_race` | 3 headers (directory, file, hidden file or name of 100 characters), `MaxFiles` = 5, files of 2 bytes, texts of 1 and 3 | Two files may be created over the archive, with equal or different names; texts shorter and longer than the file |
| `shell` | `IntBound` = 8 (ints of four bits), `MaxCommandLen` = 3, `MaxFiles` = 3, `SizeLimit` = 3, `LargestBucket` = 5, numbers 0, 2, 5, 15, 19 | The line is empty, partial and full; numbers within the limit, beyond it, and wrapping to a negative and to a legal one; sizes never set, legal, and negative; files that can and cannot be read |
| `console` | 4 x 3 cells, glyphs blank and "a", two starting screens, `MaxCalls` = 4 | A line outside the region on either side of it; a glyph that equals and one that differs from what is there; write, move, scroll and a flush at each place between them |
| `terminal` | 4 x 3 cells; numbers modulo `Word` = 16 with values 0, 1, 2, 4, 15; `MaxValues` = 2; tabs of 2; code points of 4 bits; seven starting cursors and regions; `MaxItems` = 2 | The cursor in the corners, behind the last column, and inside and outside of regions of each kind; values absent, zero, small, beyond the screen and wrapping; one more value than fits; code points of every width |
| `colours` | 14 codes and 11 groups of colours by number, 7 lists of codes; `MaxCalls` = 4 | Every branch of `sgr`; set, reverse, save, change, restore |
| `printf` | `NtoaSize` = 8 characters; char, short, int and long of 3, 4, 5 and 6 bits; buffers of up to `BufferBytes` = 7 with limits of 0 to 4 and none | Values at 0, at the sign bit and at the top of each width; widths and precisions below, at and beyond both the digits and the conversion buffer, zero padding included; texts cut before, inside and behind a directive |

`MaxLive`, `MaxCalls`, `MaxFiles`, `MaxTicks`, `MaxKeys`, `MaxFrames`, `MaxItems` and
`MCBound` are bounds of the models, not of the code; all other constants stand for numbers of the code and say
which where they are declared.  `FbConsole` assumes `Cols >= Rows`, because
`raw_putchar` compares the cursor's row with the number of columns (`fb.c:805`); every
landscape mode with glyphs of 8 x 16 satisfies it.

`CHECK_DEADLOCK FALSE` is used for `pmm`, `slab`, `slab_page`, `vmm`, `shell` and `boot`: a
memory map without room for the bitmap, an exhausted heap, an unserved fault, a
command that writes through NULL or an interrupt through an empty gate stop
the machine; and for `colours` and `printf`, where nothing is left to do after the
last call.

## 6 Fairness

* **`Vmm!FairSpec`**: weak fairness of `UserProceeds`, `UserFaults`,
  `page_fault_handler` and `HeapExtends`.  The processor completes or faults an access it
  began, and a handler, the keyboard's with the loop of `init_new_slab` included, runs to
  its end, since no device interrupts it.  The user program itself
  need not touch anything, and the boot thread need not go on.
* **`Shell!ShellSpec`**: weak fairness of `timer_handler_c`.  `init_idt` enables IRQ 0
  (mask 0xFC, `idt.c:67`), the PIT runs by itself, and interrupts are on whenever no
  handler runs.  Nothing is assumed of the user.
* **`Boot!Spec`**: weak fairness of `BootThread`, `UserTouches`, `Processor` (a handler runs and
  returns, or stops the machine) and of each `Take(i)`.  A processor executes what it is given, and accepts
  a request that waits while interrupts are on.  Nothing is assumed of the timer,
  the keyboard or the spurious interrupt: they need never come.  `MaxTicks` also
  excludes a timer so fast that its requests never pause, under which IRQ 1, of
  lower priority, would not be served.

Every other specification is a safety specification.

## 7 Proofs

`tlapm` checks these for every value of the constants that satisfies the named
assumptions of the modules.

| Theorem | Module | Statement |
|---|---|---|
| `TypeCorrect` | `PmmProofs` | `Spec => []TypeOK` |
| `HandsOutOnlyUsable` | `PmmProofs` | `Spec => []HandsOutUsableFrames` |
| `FramesAreDistinct` | `PmmProofs` | `Spec => []NeverHandsOutTwice` |
| `NoFrameIsLost` | `PmmProofs` | `Spec => []EveryFrameAccounted` |
| `OverrunIsBounded` | `PmmProofs` | `Spec => []OverrunIsOneByte` |
| `Refinement` | `PmmProofs` | `Spec => ImplementsAllocator` |
| `VfsTypeCorrect` | `ShellProofs` | `KeysDuringBoot = FALSE => (Spec => []TypeOK)` |
| `FilesStay` | `ShellProofs` | `KeysDuringBoot = FALSE => (Spec => []NothingIsLost)` |
| `MapImplemented` | `ShellProofs` | `KeysDuringBoot = FALSE => (Spec => ImplementsFileStore)` |
| `HeapTypeCorrect` | `SlabProofs` | `RequestsFit => (Spec => []TypeOK)` |
| `HeapStaysConsistent` | `SlabProofs` | `RequestsFit => (Spec => []HeapIsConsistent)` |
| `BlocksStayInTheirSlab` | `SlabProofs` | `RequestsFit => (Spec => []BlockFitsItsPages)` |
| `BlocksAreOwn` | `SlabProofs` | `RequestsFit => (Spec => ImplementsBlockAllocator)` |
| `GrowthIsNeeded` | `SlabProofs` | `RequestsFit => (Spec => GrowsOnlyWhenFull)` |
| `ShellTypeCorrect` | `ShellProofs` | `KeysDuringBoot = FALSE => (ShellSpec => []ShellTypeOK)` |
| `LineFits` | `ShellProofs` | `KeysDuringBoot = FALSE => (ShellSpec => []LineHasItsBlock)` |
| `NoLeaks` | `ShellProofs` | `KeysDuringBoot = FALSE => (ShellSpec => []HeapBalanced)` |
| `CountsAreAhead` | `ShellProofs` | `KeysDuringBoot = FALSE => (ShellSpec => []PendingCountIsAhead)` |
| `VmmTypesCorrect` | `VmmProofs` | `Spec => []TypeOK` |
| `TreeStays` | `VmmProofs` | `Spec => []TablesFormATree` |
| `OnePageAtATime` | `VmmProofs` | `Spec => ImplementsAddressSpace` |
| `OneActivity` | `BootProofs` | `Spec => []OneInTheKernel` |
| `NothingIsUsedBefore` | `BootProofs` | `Spec => []SetUpBeforeUse` |
| `ConsolesLieApart` | `BootProofs` | `Spec => []ConsolesApart` |
| `TypeCorrect` | `TerminalProofs` | `Spec => []TypeOK` |
| `MarginsAreHeld` | `TerminalProofs` | `Spec => MarginsHold` |
| `CommandsChangeTheirCells` | `TerminalProofs` | `Spec => CommandsAreExact` |
| `WidthsAreTaken` | `TerminalProofs` | `Spec => CharacterTakesItsWidth` |
| `OneState` | `TerminalProofs` | `Spec => []OneStateAtATime` |
| `ValuesFit` | `TerminalProofs` | `Spec => [](Len(esc_values) <= MaxValues)` |
| `RegionIsOnScreen` | `TerminalProofs` | `Spec => []`(the scroll region has two rows or more and lies on the screen) |
| `WriteIsVisibleAtOnce` | `FbConsoleProofs` | `push_to_queue` keeps queue and map one to one, and changes the written cell only |
| `ConsoleTypesCorrect` | `FbConsoleProofs` | `Spec => []TypeOK` |
| `QueueStaysExact` | `FbConsoleProofs` | `Spec => []QueueIsExact` |
| `FramebufferFollows` | `FbConsoleProofs` | `Spec => []FbShowsGrid` |
| `RowStaysOnScreen` | `FbConsoleProofs` | `Spec => CursorRowOnScreen` |
| `QueueIsInvisible` | `FbConsoleProofs` | `Spec => ImplementsScreen` |
| `ColoursStayInStep` | `TerminalProofs` | `ColoursSpec => ColoursFollowAttributes` |
| `StrokesAndGroundStayApart` | `TerminalProofs` | `ColoursSpec => InkAndPaperAreApart` |
| `CodeKeepsColoursInStep` | `TerminalProofs` | a code of `sgr` keeps the drawn colours in step with the attributes, unless it is an intensity code in reverse video; code 0 brings them in step |
| `CodeKeepsTheOther` | `TerminalProofs` | a code for the strokes leaves the ground's colour, and the other way round |
| `TextIsCutToFit` | `PrintfProofs` | `Spec => []BufferHoldsTheText` |
| `NumbersAreC` | `PrintfProofs` | `Spec => NumbersAsInC` |
| `WidthsAreFilled` | `PrintfProofs` | `Spec => PaddedToWidth` |

**Pmm.**  The properties are not inductive.  `IInv` adds `GeometryInv` (what
`PmmInit` computed: the bitmap's place inside a usable entry, its size against the
number of frames, every usable frame below that number), `MarkedInv` (exactly which
bits are set: all before the sweep, those of unusable frames before the lock, then
also the bitmap's and those handed out), `HandedInv` (frames handed out were
available, and are distinct) and `StrayInv` (only the byte next to the bitmap was
written).  The arithmetic of the roundings is in lemmas of
their own.  `Refinement` maps the state after the lock to the abstract pool, and
everything before it to a pool that is not open yet; that no frame is handed out
twice (`FramesAreDistinct`) is what makes an allocation a step of the abstract pool.
Assumptions: `MemMapAssumption`, `SizeAssumption`.

**Vfs.**  All three theorems have the hypothesis `KeysDuringBoot = FALSE`; `vfs_race` shows
that `NothingIsLost` fails without it.  `VfsInv` adds `ReadIsCurrent` (what the mount
loop read is what `root_fs` still holds) and `MountedAreListed` to the properties.
`MapImplemented` rests on what the search of `vfs_open` finds: the first node of the list
whose name matches.  The least position among the matching ones exists by `LeastElement`,
which follows from the library's theorem that the naturals are well-founded.
Assumption: `VfsAssumption`.

**Slab.**  None of the properties is inductive alone.  `IInv` says of the whole heap:
`HeadersInv` (a header's counters lie within the slots of its bucket), `ListsInv` (the
slabs with and without room are each a chain from the list's head), `FreeInv` (the free
slots of a slab are a chain from its `free_list`, as many as total less used),
`LiveInv` (each block in use is a slot of a slab of the bucket for its size) and
`PagesInv` (the pages of slabs are disjoint, on frames of their own, and below every
frame still free, since `pmm_alloc` hands out the lowest).  A chain is a set of places
visited once each from a head to NULL.  Every list operation of `mem.c` pushes on a
chain, pops its head or unlinks a member (`PushChain`, `PopChain`, `UnlinkChain`), so the
counting is done once, and `WalkMeets` and `FreeWalkMeets` carry chains over to the walks the
properties are stated with.  `RequestsFit` is the hypothesis that a request served from a
slab of one slot leaves room for the header: the code does not test it, and `slab_page`
shows what happens otherwise.
Assumption: `SlabAssumption` (frames are numbered from 1, and two headers fit a page).

**Shell.**  `IInv` is `VfsInv` with the shell's four invariants: how many blocks are in
use depends on the nodes, on the pointers of the shell and on the mount loop's
place, so they are proved together.  The same hypothesis is needed.  `Balance` turns
the state into plain numbers once, and each command is then a line of arithmetic.
Assumptions: `VfsAssumption`, `ShellAssumption`.

**Vmm.**  `IInv` is `TypeInv`, `PhaseInv` (what each phase of boot has set up), `LostInv`
(how the kernel goes astray) and, until it does, `Sound`: `TreeInv` (the tables are a tree
that no free frame, frame in use or device frame is part of: `Good`), `LeafInv` (where pages
mapped since boot lead, and that two never lead to the same frame in use), `MappedInv` (what
the boot thread has mapped stays mapped), `DirectInv` (tables, free frames and the kernel's
data are where the direct map says) and `HeapInv` (where the heap's pages lie).

The walk of the processor and the loop of `vmm_get_pte` are recursive over
the levels; `IteratesExist` shows that such a recursion has a solution, so `Reach` is
known from one level to the next (`ReachSteps`) and `vmm_get_pte` is a run of `Further`
(`WalkRunExists`).  `Linked` is the core: what one new entry does to every walk.  An
entry that leads to a cleared table outside the tree changes walks only where they
ended before (`TableLinked`), a leaf changes the walks of one page (`LeafLinked`), and the
copied top table changes none (`CopyReaches`).  Each needs the tree: in a graph with
two ways to a table, an entry would change two pages.
The memset matters there too: with junk in the new table, a walk that had ended would
go on.

`DirectInv` is what makes the kernel's walk the processor's: `Via` of a table is the table
(`FurtherOK`, `WalkIsOK`).  It is also what `init_new_slab` could break, and why `HeapInv` is
needed.  Frames leave the pool from below, so when a slab maps its next page, the frame that
the direct map has there is either the very frame `pmm_alloc` returns, and nothing changes,
or no free memory; where there is room behind each region (`RoomBehind`) it is then nobody's
(`NothingBehind`), and the page may be redirected without the kernel noticing
(`ExtendKeeps`).  In a memory map without room the slab may fall on a table, which sets
`astray` (`ExtendLost`).  The heap's earlier pages lie below the new one, so they stay where
they were.
Assumptions: `VmmAssumption`, `LimineAssumption` about the boot loader's tables, and
`DirectAssumption` about the direct map they contain.

**Boot.** No property is inductive. Two speak of a handler that runs, and whether one can
run depends on the place in `_start`. `IInv` has four parts. `FramesInv`: frames are there
only while interrupts are off and behind `lidt`; interrupts are on from `sti` to `cli` and in
ring 3 only; the outermost frame may be a device's or the program's, all above it are page
faults of the kernel, which are never served; and nothing lies on top of a served frame.
`GatesInv`: behind `pic_init` the vectors are 32 and up, behind `init_idt` the gates are
set. `UpInv`: which structures exist behind each phase. `TypeInv`: the rest. `EntersKeeps`,
`FaultKeeps` and `ReturnsKeeps` are about the stack of frames alone, whatever is interrupted.
The proof splits the boot thread into phases that change none of the four and the six that
do (`pic_init`, `init_idt`, `sti`, `cli`, `iretq`, and the user program), and needs nothing of
the displays and the pool: there the consoles only decide whether a print faults.
`ConsolesLieApart` is about them. `ConsoleInv` adds which consoles there are at each place
and that the pool is filled exactly up to the end of the last (`ChainInv`), and that
`ft_ctx` is NULL, or a print has faulted (`Silent`), only where two consoles are larger than
the pool. The bytes taken only grow
from part to part (`TakenGrows`), so the last part decides whether all seven fit.
Assumption: `BootAssumption`.

**Terminal.** `TypeInv` has seven parts. `ParserInv` is `OneStateAtATime` with the values
inside their table; the actions fall into those that leave no sequence behind, those that go
on with one and those that begin one, with a lemma for each. `RegionInv` is the region's
bounds; only `SetMargins` and `EscapeResets` change it, and the corrections of `flanterm.c`
after reading the two values are just enough. `ScreenInv` and `SavedInv` keep the cursor and
the saved ones on the screen, `ModeInv`, `FlagInv` and `NumberInv` the rest.

What a command does to the screen is a fold of `raw_putchar` or `move_character` over a
range, and the screen between two steps is not one the command ever shows. For each kind of
fold a lemma says that its run exists (`BlanksRun`, `InsertsRun`, `DeletesRun`,
`ScrollsRun`, ...); the proof about the run then states what holds after *k* steps.
`Blanked` is that for a row of blanks: where the cursor is after *k* of them, also behind
the last column and on a last line that keeps it, and that the cells passed are blank and no
other changed (`OneBlank`, `BlanksCells`). `Shifted_From`, `Closed_Up` and `Room_From` are
it for the shifts of a line, with the cells already moved and those still to move; they hold
because each copy reads a cell no earlier copy wrote (`OneInserted`, `OneDeleted`).
`CommandsChangeTheirCells` puts the end of each run beside the cells the property names.
`MarginsAreHeld` needs none of the runs but those of the scrolls.

`WidthsAreTaken` is about the search: `StepFinds` says that one comparison leaves out no
interval that could hold the code point, because the table is sorted (`TableIsSorted`), and
`BisearchFinds` that the answer is yes exactly if an interval holds it. Assumption:
`TerminalAssumption`.

**FbConsole.**  All five properties of the run are proved.  `IInv` is `ModesInv` (cursor,
margins and attributes), `CellsInv` (queue and map belong together, `BufferOK`) and
`FbShowsGrid`.  `WriteIsVisibleAtOnce` is about one `push_to_queue` on any queue; what
a call does is a fold of it.  `FoldExists` shows that the recursion of `FoldLeft` has a
solution, and `UpTo` goes from each step of the fold to the next: both are inductions over
one set of numbers, which a least counterexample replaces.  `Copied` is the core: a copy
in which no cell is written before it is read moves every cell of the old picture.  The
scrolls are copies of that kind because they run in the right direction (`RegionUp`,
`RegionDown`).  `FlushShowsAll` does the same for the flush's fold over the queue.  `Keeps`
then says of each action that it preserves `IInv` and is a step of `Screen`.
That the queue fits its array follows from `BufferOK` by counting (`QueueFits`).
Assumption: `FbAssumption` (`Cols >= Rows` matters for `RowStaysOnScreen`, and for the row
that `raw_putchar` goes to).

**Colours.** A sequence is a fold over its values. `CodeKeepsColoursInStep` and
`CodeKeepsTheOther` are about one code on any attributes, with a lemma for each group of
codes; `CodesKeep` carries a set of attributes that every code of a sequence keeps along the
run, and the two action properties are its uses. `ColoursFollowAttributes` exempts an
intensity code when 7 occurs in the same sequence as well: `7;1` turns reverse video on and
then sets the wrong default, though reverse video was off when the sequence began.
Assumption: `ColoursAssumption`.

**Printf.** `CallInv` says of any moment of a call what each byte of memory holds and what
console and function have received, in terms of the text made so far; `BufferHoldsTheText`
says it only of the end, and is not inductive. `OutFctInParts` is what makes it hold step by
step: the function's share of two texts is that of the one and then of the other.
`NumbersAreC` compares two recursions, the digits from the last on and the numeral from the
first (`NtoaIsNumeral`: the one is the other read backwards, cut to the conversion buffer),
and then the parts around them. `PlainFormat` and `ZeroFormat` state `_ntoa_format`, without
and with zeros, as what is appended; `NotDiffers` draws from a directive outside the list
that nothing is cut and that the prefix has its places; `PreciseAsInC` and `FrontAsInC` put
zeros, prefix and sign beside those of the standard. The standard's prefix depends on the
first digit it would stand before (`FirstDigit`, `PrefixNeeded`): an octal one is due unless
the precision put a zero there. `FormatFills` is the width alone, up to the buffer where it
is filled with zeros, and holds of the directives on the list too. Assumption: `PrintfAssumption` (the moduli are
even, a limit is given for buffers only).

Only model-checked: `FaultsAreServed`, `CountIsReported` and `InterruptsAreServed`; liveness
under fairness is beyond the prover. Every invariant and every action property of a passing
run is a theorem, the refinements included.

The library's induction theorems take an operator as a parameter, which the installed
provers cannot instantiate. Where a recursion or a fold has to be followed, the proofs
reason from a least counterexample instead (`LeastElement`, and `UpTo` from it), written out
for one fact at a time.

## 8 What is not covered

* **Large pages and the TLB.**  The direct map is taken to be made of 4 KiB leaves, as the
  tables of `Vmm` are.  `vmm_get_pte` does not look at the page-size bit
  (`mem.c:262-274`): with larger leaves, `vmm_map` of a slab's extra pages (`mem.c:337`)
  would take a data page for a table.  Translations are those of the tables at once;
  `invlpg` and what the processor may have kept are left out.
* **Behind `astray`.**  The tables are followed after frame 0 was used or a slab fell on a
  table, but not what the user program and the heap then write into frames that serve two
  purposes; the properties end there.  The copy of the program to its frame is left out.
* **Half-done data.**  `Boot` says which handler may meet which structure half changed, and
  `Vfs` follows one such meeting.  `pmm_alloc`, `kmalloc`, the walk of `vmm_get_pte` and the calls
  of the console are single steps of their modules.
* **The whole console.**  `Terminal` works on a plain screen, which `FbConsole` implements;
  they are not composed, and neither are `Colours` and `Printf` with them.  `FbConsole`
  lets its calls come in any order, which includes those the parser makes.
* **Pixels.**  A glyph with its colours is one value; the font, the canvas and
  `plot_char` are left out.  So is `deinit`, which nothing calls.
* **`printf`**: floating point (not compiled), a format that ends inside a directive, calls
  that mix two texts on the console, and the wrappers of the output functions.
* **Descriptors.**  The bits of GDT entries, gates and the TSS, and the PIT's divisor
  (`timer_init` is never called).
* **String helpers** are used as what they compute; `simple_atoi` and the comparison of names are
  modelled where a property depends on them.
* **Boot loader, firmware, makefiles** are outside; what they hand over is an input.
* **What happens after a wild write.**  `Pmm`, `Slab` and `Shell` stop at a write through
  NULL or frame 0; `Boot` follows a page fault to the fault handler and to its end, or to
  `MaxFrames` faults on top of each other; `slab_page`'s counterexample ends where the write
  would begin.

## 9 Plan

What would come next, in this order:

1. `slab_alloc` split at `mem.c:412` and composed with the mount loop, as `root_fs` is in
   `Vfs`; the same for `vmm_get_pte` and for two threads in `printf`.
2. `Terminal` over `FbConsole` in place of its plain screen, with the parser's steps and
   flushes interleaved.
