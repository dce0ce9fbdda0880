# bruhOS in TLA+

bruhOS is a UEFI boot loader and a 64-bit kernel that, at this commit, brings up
one processor: memory management, interrupts, two timers and a text console.
This directory holds TLA+ models of the boot loader and of the parts of the kernel
that keep state and are hard to test, TLC configurations that check them on small
instances, and TLAPS proofs of the results that hold for every size.

Paths below are relative to `src/projects/kernel/` unless they start with
`bootloader/`.

## 1. Inventory

| Part | State | Operations | Talks to | What makes it correct |
|---|---|---|---|---|
| Spinlock, `include/std/lock.h` | one atomic flag | `lock`, `try_lock`, `unlock` | every CPU | at most one holder; the flag is up only while held; a free lock is taken by someone |
| Integer helpers, `source/std/math.c` | none | `roundN`, `round2`, `ppow2`, `log2ui` | allocators | agree with their mathematical meaning, 0 and overflow included |
| Buddy allocator, `source/mem/phys/buddy.c` | heap-ordered tree of node states, one doubly linked list per level threaded through the same memory, last pointer and size per level | initialise from free regions, `alloc_pages`, `free_pages`, `reserveBlock` (never called), queries | called by the page frame allocator | flags, links and counts agree; merging is complete; no false failure; a page has one owner |
| Low buddy allocator, `source/mem/phys/buddyLow.c` | the same for 4 MiB at address 0, its nodes not all cleared | as above | as above | as above, whatever the memory held |
| Page frame allocator, `source/mem/phys/pmm.c` | per zone a manager, `total`, `maxMemReq`, `isusing`; `free` and `reserved` overall | `pfa_init`, `pfa_alloc_pages`, `pfa_free` | buddy allocators; boot loader's memory map; paging, VAS, drivers | cached figures are true; accounts balance; zones are released; requests come back; every free page is given to its zone and nothing else is |
| Vectors and handler table, `source/interrupts/idt.c`, `htable.c` | 256 gates, 224 handlers | `request_vector_min`, `free_vector`, `set_handler` | router, timers | no handler is replaced; a free vector is found |
| IRQ router, `source/interrupts/router.c` | an entry per GSI, list of I/O APICs | `init_irqRouter`, `installISA`, `installIRQ` | I/O APIC registers, handler table | an interrupt runs its own driver's handler; entry and hardware agree |
| Dispatch, `source/interrupts/handlers.c` | none | `interrupt_handler`, `irq_handler`, `exception_handler` | handler table | exceptions stop or return as listed |
| HPET, `source/device/hpet.c` | counter, comparator, flag `polled` | `hcount*`, `hpet_timer_prep*`, `hpet_start`, `hpet_stop`, handler | router, interrupts, local timer | a wait ends, not early, and leaves nothing behind |
| Local APIC timer, `source/device/lapict.c` | LVT entry, initial and current count, `g_tick` | `init`, `set_state`, `prepare`, `start`, `lcount*`, handler | vectors, HPET (calibration) | a prepared and started timer ticks; a periodic one goes on |
| Paging, `source/mem/virt/paging.c`, `source/mem/map_ptr.c` | four-level page tables | `map_vtop`, `unmapVirtual`, the wrappers over ranges | page frame allocator | an address leads to the frame it was mapped to or to none; a call disturbs no other address; every table has one parent |
| AVL tree, `source/mem/virt/avl/avl_tree.c` | children, parent and balance factor of a node, in the caller's record | insert, remove, lookup, three walks | address space | balance factors are differences of heights after any chain of rotations; walks meet every item in order; lookups find what is there |
| Address space, `include/mem/virt/avl/avl_wrap.h`, `source/mem/virt/vas.c` | AVL tree of address ranges | two comparisons, lookup by address; `vas_alloc`, `vas_free` | AVL tree, node lists | ranges are disjoint; one comparison finds what the other has sorted |
| Node lists, `source/mem/virt/vas_node_alloc.c` | pages of tree nodes chained together, a chain of free nodes, counts | `create_node_list`, `alloc_node`, `free_node`, `destroy_node_list` | page frame allocator | counts and both chains agree; destroying a list gives back its pages and no others |
| Kernel entry, `source/entry/kernel.c`, `source/interrupts/init.c` | none | the order of the initialisers | all | interrupts are on only when their gates and handlers are there |
| ACPI tables, `source/acpi/init.c` | pointers to tables, CPU and I/O APIC lists | one pass at boot | router, timers | the controllers are set up from valid tables; the pass ends |
| Local and I/O APIC, PIC, `source/acpi/*.c` | device registers | initialise, IPIs | interrupts | nothing interrupts that has no handler |
| GDT and TSS, `source/interrupts/gdt.c` | constant tables | load | - | - |
| Console and graphics, `source/gpcs2/` | frame buffer, cursor, colours | write a character, a string, a substring, newline, clear | `printk` | glyphs are inside the window; colours are those of the call |
| Kernel library, `source/std/io.c`, `error.c` | one static conversion buffer, the alignment of formats | number formats, `printk`, `printkcol`, `puts`, `putln`, `system_status` | console; called by interrupt handlers too | what is shown is what the format string means; nothing stays in the buffer |
| SMP and scheduler, `source/smp/`, `source/scheduler/` | none | stubs | - | - |
| Boot loader, search, `bootloader/source/main.c`, `file.c` | open handles, buffers, the path of directories being read | over all volumes, recursively | firmware's file system | the kernel is found if there is one; directories are closed; the search ends |
| Boot loader, screen and processors, `bootloader/source/video.c`, `acpi.c` | the mode set, the number of processors | choose a mode, count | firmware | the mode wanted is set |
| Boot loader, kernel image, `bootloader/source/loadkernel.c`, `elfutil.c` | ELF tables, the block of pages, segments, the layout behind them | read, check, place | firmware | segments land where they belong and nothing lies over them |
| Boot loader, memory map and exit, `bootloader/source/exitloader.c`, `memorymap.c`, `exitbootservices.c` | the copy of the map, a stack of pages, page tables | take a page, map, leave the firmware, finish the map | kernel entry | the map handed over is the memory there is; the tables map all of it |
| Boot loader, text and errors, `bootloader/source/print.c`, `err.c`, ... | - | text output | firmware | - |

How the parts meet: the boot loader finds and places the kernel, builds the first page
tables and passes the memory map; the kernel runs its initialisers in one order; `pfa_init` cuts the
map into zones and gives each to a buddy allocator; everything else takes pages from
`pfa_alloc_pages`. ACPI's list of I/O APICs goes into the router; drivers
(HPET, local timer) take vectors and install handlers; the local timer is
calibrated by waiting on the HPET, whose wait ends by an interrupt.

What is hard here:

* *Interrupts* arrive between any two register writes: during an installation,
  a calibration, a wait. They are on from the middle of the initialisation, and handlers print
  through the buffer and the cursor that the interrupted `printk` is using.
* *The firmware* allocates on its own: a copy of its memory map is stale at any moment
  before boot services end.
* *Several CPUs* are what `isusing` and the spinlock are for, although only one
  runs at this commit.
* *Long histories*: splits and merges keep one fact in four places (flag, links,
  last pointer, count); accounts are moved by amounts computed apart.
* *Edges*: address 0 as a page and as "none", 0xFF as a vector and as "none",
  regions that end on a zone boundary, a loop that lengthens its own array.
* *Memory read before it is written*, in the low allocator and the node lists.
* *One step of several failing*: a mapping that runs out of pages half-way, a search that
  goes on after it has found its file, errors that are tested the wrong way round.
* *Waiting*: spins that only end if somebody else does something.

`PROJECT.json` lists these hazards one by one, at their lines, with the
properties aimed at them.

## 2. Modules

| Module | Models | State and actions |
|---|---|---|
| `LockSpec` | what a lock promises | set of holders; `Acquire`, `Release` |
| `Spinlock` | `lock.h` | `flag`, one program counter and one local per CPU; one action per atomic access |
| `KernelMath` | `math.c` | operators on words of `W` bits, no state |
| `KernelMathProofs` | - | lemmas about powers of two and the operators of `KernelMath`, for the proofs below that need them |
| `PageAllocSpec` | what a page allocator promises | sets of free and owned pages; take an aligned free block, give it back |
| `Buddy` | `buddy.c` | the allocator is a record `m` with `state`, `next`, `prev`, `free`, `size` as in C; the list functions are operators on the record; a call is one action per round of each of its loops, with the locals of the loop in `call` |
| `BuddyLow` | `buddyLow.c` | extends `Buddy`: what differs is which nodes are cleared |
| `BuddyProofs` | - | theorems about `Buddy` and `BuddyLow` |
| `Pmm` | `pfa_alloc_pages`, `pfa_free` | zone figures, the kinds of blocks held, `isusing`, accounts, a program counter per CPU; one action per access to shared memory |
| `PmmInit` | `pfa_init` | the map, the regions, what each allocator was given; one action per round of each loop and per loop that ends |
| `PmmProofs` | - | theorems about `Pmm` and `PmmInit` |
| `Interrupts` | `idt.c`, `htable.c`, `router.c`, `handlers.c`, part of `lapict.c` | handler table, router entries, redirection tables, LVT; one action per call up to the register writes, one per register write, one per arrival |
| `Timers` | `hpet.c`, `lapict.c` | both devices and the list of register accesses the running call has left; counters and handlers run between any two accesses |
| `DeviceProofs` | - | theorems about `Interrupts` and `Timers` |
| `AvlTree` | `avl_tree.c` | root, children, parents and balance factors of the nodes in a record `t`, as the code keeps them; each C function is an operator on it, each call one action |
| `VmRegion` | `avl_wrap.h` | extends `AvlTree` with the two comparisons of regions, the lookup and the casts between a record and its links; no state of its own |
| `NodeList` | `vas_node_alloc.c` | the header of the first page, the links of its pages and nodes, the pages left; one action per call, and one for the call that never comes back; a page's old contents are any link |
| `StructureProofs` | - | theorems about `Spinlock` and `NodeList` |
| `Paging` | `paging.c`, `map_ptr.c` | a record `m` with the tables and the frames left, and the loop of the call in progress; one action per call of a wrapper and per page of its loop; `Translate` is the processor's walk |
| `PagingProofs` | - | theorems about `Paging` |
| `FindKernel` | `main.c`, `file.c` of the boot loader | the stack of directories being read, open handles, buffers; one action per entry read |
| `Platform` | `video.c`, `acpi.c` of the boot loader | the screen and the number of processors; one action per stage |
| `LoadKernel` | `loadkernel.c`, `elfutil.c` | the firmware's memory, the block, the contents read, the layout; one action per stage and per segment |
| `ExitLoader` | `memorymap.c`, `exitloader.c`, `exitbootservices.c` | the copy of the memory map, page stack, tables; one action per stage and per descriptor mapped, and one for an allocation of the firmware's own |
| `KernelStart` | `kernel.c`, `interrupts/init.c`, `acpi/init.c`, `lapic.c` | the point of the order reached, interrupt flag, IDT, handler table, armed sources, the pass over the root table; one action per initialiser, per table and per interrupt |
| `Boot` | `efi_main`, then the kernel | the five modules above, one after the other; each EXTENDS the one before |
| `BootProofs` | - | theorems about `Boot` |
| `Format` | the number formats of `io.c` | operators that return the characters written, no state |
| `Console` | `printk` and its relatives, `gpcs2/blit.c`, `gpcs2/console/` | cursor, colours, the shared buffer, and for the main line and an interrupt handler each the place in its call; one action per glyph, per character of a conversion, per clearing and per assignment of shared state |
| `ConsoleProofs` | - | theorems about `Console` |
| `MC...` | - | instances for TLC |

In the pages its tree gives away, `Buddy` implements `PageAllocSpec`; the addresses it returns are others, because
`getAddress` reckons with the size of the next level. So `Pmm` assumes nothing of its managers: a
call gives NULL or an address, which may be in another zone or in none, and any figure, or it leaves the manager's arrays, after
which the model ends. `Init` of `Pmm` is the end of `pfa_init`; the regions that hands out are
what `Buddy` and `BuddyLow` start from. `Spinlock` implements `LockSpec`. `Interrupts` and
`Timers` share the local timer's LVT entry: the first models its vector, the second its mode and count.
`Boot` composes the loader's stages and the kernel's start over shared state: what one stage
finds is what the next works with, and an error or a null pointer in one ends them all. What most
initialisers do is in the modules of their components; `KernelStart` has their order and what
an interrupt between two of them meets. The map `ExitLoader` hands over is of the kind `PmmInit` starts from.

Operators whose name starts with `Slip` are plausible mistakes in the definition that
follows them; `PROJECT.json` pairs each with the property that notices it. Where a checked
property is a conjunction of named parts there is one for each part.

### Abstractions

* Addresses and sizes are page numbers. Alignment of a pointer inside a page
  matters only to the check in `pfa_free`, where it is a Boolean.
* The tree depth is 5 (16 in the kernel, 10 in the low allocator); nothing in
  the code depends on the depth but loop bounds.
* `log2ui` returns the bit length, one more than the logarithm (`source/std/math.c:49`), and `Buddy` is
  the allocator with it: a block of tree level l is on list l + 1, pages have no list, a request for the whole zone
  reads the list before the first. Where the code leaves its arrays, in these two cases and nowhere else before, the
  call is `Fault` and nothing is said of what follows.
* The time a caller asks for is the comparator value it comes to (`Quanta`).
* In the loader a page has four bytes and sizes are in bytes, so that rounding to pages and
  counting them can go wrong; a table of pages has five entries and in `Paging` two, with four levels
  in both. A file is its size, its headers and which of them are broken; the contents of memory are
  the offsets of the file's bytes.
* The characters of a format string are told apart as far as `printk` does; a glyph is drawn
  in one step and pixels are left out. Words have 8 bits.
* Comparisons of regions are on the numbers themselves; a region's page has four bytes.
* The start of the kernel follows the initialisers that can be interrupted or fail; what an
  interrupt meets is the IDT and the handler table as they are at that moment.
* Device registers, the I/O APIC and the counters are external: they are
  modelled by what the code relies on.

## 3. Runs

All runs use exhaustive search.

| Run | Instance | What it shows |
|---|---|---|
| `spinlock` | 3 CPUs | mutual exclusion (`MutualExclusion`), the invariant used in the proof, which has it that flag and holder agree (`IInv`), the abstract lock is implemented (`ImplementsLock`), a lock wanted is taken by someone (`SomeoneAcquires`) |
| `buddy` | 32 pages, four ways to start, three contents of the uncleared states; counts 0, 1, 2, 4, 8, 32, 33 | `TreeConsistent`: until the arrays are left, between any two rounds of a loop the four copies of the free lists agree, but for two counts that initialisation leaves one off, and merging is complete but for the two buddies merged next; `AllocComplete`: a request fails only if no aligned run of four times its size is free, or the zone is free as a whole; no two callers get one address (`CallersApart`); no declared page disappears (`NothingLost`); the abstract allocator is implemented in the tree's pages (`ImplementsPageAlloc`) |
| `pmm` | 1 CPU, two zones of 4 pages, low zone of 2, four ways to start, managers that answer anything | `PmmInv` (the invariant of the proof), `AccountsBalance`, `TotalsAddUp`: the zones' totals are the bytes counted, `QuietMeansUnlocked`, `FreeReturns` |
| `pmm_init` | 3 descriptors, zones of 8 pages, 2 low pages, four contents of `lowMemZones` | regions stay in their zones (`InsideOwnZone`); against the firmware's map no free page is lost but the managers' and none is invented but as many behind their region (`FreeMemoryKept`); the managers are not given out (`ManagersSafe`); for the low allocator all three if every counted low region was written; the loop that lengthens its array ends (`Terminates`) |
| `paging` | two entries a table, seven frames for tables, one range handed over by the loader, ranges of one and two pages, two sets of flags | `NeverAWrongFrame`, `TablesSound`, `MapDisturbsNoOther`, also when the frames run out half-way |
| `avl` | 13 regions, two of them equal | `TreeBalanced`: stored factors are the differences of heights; `TraversalsInOrder`: both sorted walks and the postorder one; `LookupsFind`: searches begun at the root, by region and by address |
| `node_list` | 3 pages of 2 nodes, two of them adjacent, any old links | `ChainsExact`: counts and chain of free nodes always, chain of pages until the clearing of a new page reaches a page of the list; `DestroyReturnsAll`, until then |
| `interrupts` | 2 levels of 3 vectors, 3 GSIs, 2 processors | `RoutesSound`: an unmasked input finds its own handler at every point, entries and hardware agree between installations; no handler is replaced (`NoHandlerReplaced`) |
| `timers` | counters of 4 values, comparators 1 and 3 | `WaitsSound`: a wait is not cut short and leaves nothing behind; `WaitReturns` |
| `boot` | 16 disks with 13 kernel images, two lists of modes, 0 and 2 processors, four memories, five root tables, a counter of 5 values, one allocation by the firmware, any flag and armed sources left by it | `SearchFinds`, if nothing is refused; `KernelLaidOut`: parts apart, segments in place, the block overrun by less than a page and the gaps; `MapHandedOver`: the firmware's last map, with one region split, room for it, and only the last descriptor unread; `AddressSpaceComplete`: every page is where its descriptor says, and the tables are where the map says; `StartInOrder`: the kernel's interrupts find its gates and table, the ways to lose one are those listed in section 5, and controllers come from valid tables; `ComesToAnEnd`, unless the root table has as many entries as the counter has values |
| `boot_map` | as `boot` | a violation: `KernelSeesAll` does not hold. `used_size` grows by a byte where the map grows by a descriptor ("we split an entry to 2", `bootloader/source/exitloader.c:343`), so the kernel does not see the last region |
| `library` | every 8-bit word; a window of 3 by 3 glyphs; a buffer of 14; alignments 0 to 7; two interrupts | `HelpersCorrect` (`math.c`), `NumbersFormatted`, `ShownAsWritten`: the glyphs drawn, in order and colour, not where they stand; `BufferInOrder` |

Why the bounds are enough: thirty-two pages give the four lists a block can be on, so that the least request is met by splits of a block three levels up, merges go back through them and lists have a middle; two zones and the low
one give every branch of the zone loop; regions of up to 17 pages over zones of 8 cross
none, one or two boundaries and end on one; two levels of three vectors can be exhausted one
before the other; a counter of four values wraps, reaches both comparators and runs out
between any two accesses. Twelve is the least number of nodes from which one removal makes two
rotations, and the thirteenth is equal to another. Three pages of nodes give a first, a middle and a last, and two that are adjacent in either order. Tables of two
entries make ranges that stay in a table, leave it and leave its directory; seven frames are
fewer than all of them need. The disks have the kernel in the root, below two directories, in several volumes and in none,
and each image is broken in one way; the memories have the biggest region free, in use by the firmware, just large
enough and exactly used up. A text of the `library` run fills more than a row and wraps from the last.
`W` is 8 bits where the code has 32 or 64: the smear of `round2`
and the wrap of a subtraction from 0 behave alike for every width that is a power of two.
A root table of five entries is too long for a counter of five values, as one of 256 is for eight bits.
Named bounds: `HeldBound` (kinds of blocks held), `Drift` (how far a zone's `total` may leave what the zone has: blocks come back into other zones, and
allocations from the low zone are not counted), `TickBound` (ticks are counted up to it), `HpetMax`, `LapicMax`,
`Events` (allocations the firmware makes on its own), `Interrupts`
(interrupts of one program of calls).

What the passing instances leave out is in section 5: `boot` reads no less than it asks for (`ReadsFail`), and has no
reserved region larger than all free ones; `paging` passes no PAT bit; `library` prints no null string; `pmm` refuses no pointer. In `pmm_init` the array of regions has the room it needs.

Deadlock is checked except where the system may stop: in `pmm` and `paging` a CPU spins for ever for want of
a page, in `node_list` likewise, and `buddy`, `pmm` and `node_list` end where the code leaves its arrays; `pfa_init` and the boot come to their end; the
programs of calls in `library` are over at some point.

### Fairness

* `Spinlock`: weak fairness of every step inside `lock`, `try_lock` and `unlock`; a CPU does not
  stop in the middle of a function. Calling is not fair, and no fairness between CPUs is
  assumed: one CPU may lose every exchange, so only "someone acquires" is claimed.
* `Pmm`: weak fairness of the steps inside a call.
* `PmmInit`: weak fairness of the only thread at boot.
* `Timers`: the processor runs, enabled counters count, a pending interrupt is taken. The
  kernel keeps interrupts on during waits, and the counters are free-running hardware.
* `Boot`: weak fairness of the whole: one processor runs the loader and the start of the kernel.
  The firmware's own allocations and the interrupts are finitely many.

## 4. Proofs

`StructureProofs`, of the spinlock, for any set of CPUs:

* `SpinlockInvariant`: `IInv` holds always. Mutual exclusion is not inductive by itself: it
  needs that the flag is up while someone holds (`FlagMeansHeld`), and, because `unlock` compares the flag with a
  value it read a step earlier, that this value is TRUE for a CPU that is about to
  release (`ReleaseExpectsTrue`).
* `SpinlockMutualExclusion`, `SpinlockFlag`: its consequences.
* `SpinlockRefinement`: `Spinlock` implements `LockSpec` under "holder = CPU that holds".

`StructureProofs`, of the node lists, for any number of nodes in a page, any pages, adjacent or not, and any old contents:

* `NodeListInvariant`: `NodeListInv` holds always. `ChainsExact` says which elements a walk meets, as the smallest set closed under the links; to keep that, a step needs more: no two elements lead to
  the same one, none leads back to the first, and one leads out (`IsChain`). Then the first element can be taken off (`ChainPop`), one put in front and a page appended behind the last, each a lemma about any links;
  the lists are never walked in the proof. Counting (`FreeList`) shows that the list is empty exactly when `usedNodes` reaches `totalNodes`. Of the pages only what leads to the last one is known: what stands behind it, and whether a walk
  ends, is not said, and after a clearing has reached a page of the list nothing is.
* `ChainsExactHolds` and, an action property, `DestroyReturnsAllHolds`: its consequences. That a list returns only its own pages fails (section 5).

`BuddyProofs`, for every depth of the tree from 2 up, every start of the zone, every free memory, any contents of the uncleared states and any
requests, with the linked `log2ui` and for both `Spec` (`buddy.c`) and `LowSpec` (`buddyLow.c`):

* `BuddyInvariant`: `BuddyInv` holds always. Its parts: the FREE blocks, the one `alloc_pages` is working on and those of the callers share no page (`TilesInv`); and, until the code leaves
  its arrays, the lists hold exactly the FREE blocks (`Lists`), each loop knows where it is (`CallInv`) and two buddies are FREE only when one was just pushed (`BuddiesInv`).
  `TreeConsistent` alone is not inductive: a step needs to know which block is in flight. Three more things had to be found. Merging would leave the arrays at the root; it never
  gets there, because a zone whose pages are all free began with the whole-zone block, on a list no request reaches (`RootInv`). List 1 hides the block it has, so what the search knows
  of the lists behind it leaves that one out (`Finds`). And a caller's address holds a negative index that has wrapped (`BlkOf`); `Wrapped` gives the way back to the node, so a free returns the block that was given.
* `TreeConsistentHolds`: its consequence. `AllocCompleteHolds`: the search has passed every list that would serve, and free blocks no two of which are buddies fill an aligned run only if one of them is at least as large (`Descent`).
* `ImplementsPageAllocHolds`: every round of a loop leaves the pages of the free blocks alone, hands one block out or takes one back (`Effect`), which are the steps of `PageAllocSpec`.
* `NothingLostHolds`, of `LowSpec`: every declared page stays free or owned, whatever the uncleared states read.
* The lemmas: a ring keeps its shape when an entry is put before its head (`RingInsert`) or taken out of its middle (`RingDelete`), which gives what `push_entry`, `remove_entry` and `pop_entry` do to all levels at once;
  two blocks of the tree are disjoint or nested (`Nested`), so a block may be replaced by its halves and two buddies by their parent among the tiles (`TilesSplit`, `TilesMerge`). Statements about every level or every
  depth are proved by a least counterexample (`Least`), for want of induction.

Nothing is assumed but `WAssumption`, `BuddyAssumption` and `LowAssumption` (types, the uncleared states included; the node numbers fit a word; a word has at most 64 bits) and `PowersAssumption`, the two equations that define 2^k, which the provers do not know.
`CallersApart` stays with TLC.

`PmmProofs`, of the allocator at run time, for any number and size of zones (up to the 2^16 pages of a real one), any page size,
any requests and whatever the managers answer:

* `PmmInUseHasUser`, `PmmQuietMeansUnlocked`, for any number of CPUs: a zone in use has a
  call in its protected part, hence with no call under way no zone is in use. This holds
  although two CPUs can be inside together (`OneUserPerZone` does not hold). The clear of one
  CPU never leaves another's zone marked without a user, which is one lemma per way a
  CPU moves: `UserStays`, `UserEnters`, `UserLeaves`. Pointers that `pfa_free` refuses are outside `Spec`.
* `PmmInvariant`, for one CPU: `PmmInv` holds always. `AccountsBalance` speaks of the
  time between calls; the invariant says what happens inside one: the copy of the
  accounts a call has loaded balances too (`Balanced`).
* `PmmAccountsBalance`: its consequence. `TotalsAddUp`, a sum over all zones, is model-checked.

One CPU is the kernel's configuration at this commit (`source/smp/smp.c` starts no other);
for two, `OneUserPerZone` fails and with it the rest. The assumptions are
`PmmAssumption` (there is a zone, sizes are positive, the low zone is no larger than a normal one)
and `CountsAssumption`; the proofs use the first.

`PmmProofs`, of the initialisation, for any memory map whose descriptors are in order, any zone size not below the 4 MiB of the low zone, any
sizes of the managers and any contents of the array `lowMemZones`, which the code does not clear:

* `PmmInitInvariant`: `PmmInitInv` holds after every round of every loop, and `Moved`: the map is the firmware's but for the descriptor that the managers have moved. `InsideOwnZone`, `FreeMemoryKept` and `ManagersSafe` speak of
  what is given out at the end, or of the regions once they are collected; the invariant says how far each loop has come.
  `Collected`: the regions cover the free descriptors before the loop's index, and no more. `CutSoFar`: no boundary crosses a region that has had its round,
  and none before `j` crosses the current one; a part cut off goes behind the index and gets a round of its own, and a cut leaves no
  boundary in the lower part that was not in the whole (`CutCrosses`). `MapSound`: the descriptors start in order even after the managers have moved one, which now
  may reach into the next; without it the loop over the low descriptors, which stops at the first high one, could miss some.
* `PagesInOwnZone`, `FreeMemoryIsKept`, `ManagersAreSafe`: its consequences. What they say is measured against the firmware's map: the descriptor is moved and keeps its length, so as many pages behind it as the managers
  take are given out too (`Overhang`). The entries of `lowMemZones` that were counted and not written are given out whatever they hold; this happens if the managers move a low region out of low memory (`LowWritten`). The array of regions has the room it needs
  in the model; `FreeZonesFit` (section 5) is about the room it has.

`DeviceProofs`, of the timers, for counters of any width and any comparator values in their range:

* `TimersInvariant`: `WaitsInv` holds between any two register accesses. That a wait is not cut short and leaves nothing behind
  follows only with the order of the accesses a call has left (`AccessOrder`: a wait comes right after the start of the counter) and with
  what counter, comparator and pending interrupt say about the counts that have passed (`CounterAgrees`).
* `WaitsAreSound`: its consequence.

`DeviceProofs`, of the interrupts, for any number of priority levels, vectors, inputs and I/O APICs:

* `RoutesInvariant`: `RoutesInv` holds always, between the two register writes of an installation too. Entries and hardware do not agree there; what
  is true is that the entry the installation is writing is the one its driver asked for and that no other input carries its vector (`InstallationInv`), that every
  entry names an input of one I/O APIC (`LeadsToItsInput`) and that unmasked inputs follow their entries (`InputsFollowEntries`).
* `RoutesAreSound`, and `HandlersStay`, an action property: a vector is chosen where the table is empty, and stays chosen until the handler is set.

The assumptions are `InterruptsAssumption` (the vectors fit the 224 of the table) and `FirmwareAssumption` (identities of I/O APICs differ, and
some I/O APIC has the inputs of the ISA interrupts and of their overrides; otherwise `init_irqRouter` leaves entries that lead nowhere).

`PagingProofs`, for any width of tables, any number of frames, any calls:

* `PagingInvariant`: `PagingInv` holds between any two pages of a call. That an address leads to the frame it was mapped to is not inductive: a table
  with two parents, or a walk that comes back to a table of a higher level, would let one mapping change another. The invariant
  therefore gives each table a level `d` such that an entry leads one level down and no two entries lead to one table (`Tree`). `unmapVirtual`
  follows addresses without looking whether the entries are present; that it stays in the tree needs that the upper
  two entries of a mapped page stay (`DirectoriesStay`), which is so because it clears none of them.
* `TablesAreSound`, `NoWrongFrame` and, an action property, `MappingDisturbsNoOther`: its consequences; the last also for a call that
  hangs half-way for want of a frame.

`PagingAssumption` has tables of at least two entries and the rule that no caller passes bit 7, which holds of every call in
the kernel and without which `NeverAWrongFrame` fails (section 5). Only pages that were mapped are unmapped.

`BootProofs`, for any disks, directories, kernel images, modes, numbers of processors, memories in order, page and table sizes, and any number of
allocations the firmware makes on its own:

* `LoaderInvariant`: `LoaderInv` holds at every step of the loader. `MapHandedOver` speaks of the jump alone; what leads to it is spread over the stages. `MemoryInv`: the firmware's
  map stays in order under every allocation (`TakeSound`), and has the kernel's block in it before it is copied. `CopyInv`: the copy is the firmware's map for as long as the key
  is current, so `exitBootServices`, which compares keys, decides; the descriptor added later fits
  because the map had at least two when the buffer was taken, the kernel's block and the free region the buffer comes from, grows by one at most and has room for twice
  as many (`MapCopied`). `StackInv`: the pages taken for tables and the pages left are the biggest region, and the last one is
  never taken, so neither half of the split is empty, however many tables the walks need (`MapTakes`). `SearchInv` is there for the kernel's handle: a
  file that was found is an image, and the search is within its directories at every level.
* `MapIsHandedOver`: its consequence, `used_size` included: it is the size of the descriptors before the split and one byte, and divided by the size of one gives their number less one.
* `FoundInvariant`, `KernelIsFound`: that the search finds the kernel says nothing while a directory is half read. `FoundInv` therefore describes the way down from
  the volume (`Way`): each activation is in the directory its caller's last entry names, no entry that one of them has passed leads to a kernel unless something has been found, and what has been found
  lies in this volume. Coming back from a directory is the step that needs it: a directory read to its end without a find holds no kernel, so the entry that
  led there has now been passed (`WayUp`). The handles of directories that are open are those of the activations. A refused volume ends what is known: the code goes on with a closed or null handle (section 5). `HoldsKernel` is a recursive function; `TreeAssumption` has it that directories are
  trees, for which the recursion is defined.
* `LayoutInvariant`, `KernelIsLaidOut`, on the hypothesis `ReadsFail = FALSE`, without which segments are lost (section 5): `LayoutInv` says, segment by segment, that the bytes of
  the segments so far are in place and that the last one loaded is the last one there is. A segment overwrites no earlier one because an ELF file lists them in ascending order (`SegmentPlaced`), and what the loader
  appends is behind the last, and so behind all. How far the block is overrun is a matter of counting: each byte below the end of the last segment is a byte of some segment or of a gap,
  so there are no more of them than were counted and the gaps, and the pages allocated lack less than one of the sum.
* `StartInvariant`, `StartIsInOrder`, whatever flag and sources the firmware leaves: `StartInv` holds at every step of the
  kernel's start. `ScanInv` says of the pass over the root table that the indices are those of the last tables of their kind so far (`IsLast`), if the loop's counter can count
  to the end, and otherwise that the counter stays below its limit, so that the pass is never left and nothing is set up from it. `GatesInv` has the order: the kernel turns interrupts
  on behind the gates and the table, masks behind that what the firmware left, and arms the timer when its handler is set. What an interrupt may meet before and between is part of `StartInOrder`, which names every case.

The assumptions are `DisksAssumption` and `TreeAssumption` (volumes hold directories of the set given, which are trees), `ImagesAssumption` (kernels are images, their loadable segments in ascending order as the ELF format has them, none with more bytes in the file than in memory), `MachinesAssumption` (the firmware's first map is in order),
`PlatformAssumption`, `LoadAssumption`, `ExitAssumption` and `StartAssumption` (types of the constants).

`ConsoleProofs`, for any window and glyph size, any programs of calls, and any handlers between any two steps of the main line:

* `ConsoleInvariant`: `ConsoleInv` holds always. `BufferInOrder` says that nothing of a number is left in the shared buffer when no line is showing one; while one is,
  a handler may convert a number of its own into the same bytes. `BufferInv` therefore says of each byte that is not clear that some line has still to clear it: `Owes` is what
  a line owes, a conversion covers the bytes it writes, one after another (`ConvertKeeps`), and a clearing that runs while the other line still shows its number leaves what is the other's
  beyond its own length (`CleanKeeps`). `PlacesInv`: `c`, `start` and `end` of `print_internal` count in different places of the loop, and agree but for the character a write has just ended
  at (`InStep`); without it neither the substring written nor the read behind a `%` stays in the format string. `ColoursInv` follows `printkcol` from the step
  that sets its two colours, one at a time, to those that put the saved ones back.
* `BufferStaysInOrder`, on the hypothesis that no null string is printed, which moves the cursor to 0xFFFF (section 5); and `ColoursStayAsAsked`, one half of
  `ShownAsWritten`.
* `WrittenInvariant` and its consequence `ShownStaysAsWritten`, on the same hypothesis: at the end of `print_internal` the text drawn is the one the format string means. The invariant `Written` has it at every step: what is
  drawn, what the write under way has still to draw (`Rest`) and the meaning of the format string behind it (`Further`) are together the meaning of the whole. A step then moves one character from the second part to
  the first, or one sign from the third to the second, for which `MeaningFrom` is shown to obey its own equation (`MeaningIs`, by a least counterexample over what is left of the string) and a text without `%` to mean itself (`MeaningRun`).
  That the number shown is the one converted is `NumberInv`; that the write of the buffer behind every `%s`, `%c` and lone `%` draws nothing is `EmptyInv`, to which a handler comes with the main line's number
  in the bytes it does not own. Both need that a handler has written nothing from the first character of the main line's conversion to the last of its showing, which is what `mangled` records.
* `HelpersAreCorrect`: `round2`, `ppow2` and `roundN` compute what `math.h` says for every word of every width up to 64 bits, which is what the run checks for 8. The argument is in `KernelMathProofs`:
  the six shifts of `round2`, in the order of the code (1, 4, 8, 2, 16, 32), set a bit exactly where a one lies 0 to 63 places to the left (`SmearSpreads`, one shift; `SmearFills`, all six), so a word is filled to the right of its highest one, is
  worth one less than a power of two (`ValueFilled`, by a least counterexample over the positions), and the increment gives that power or wraps to 0 (`Round2Is`). The shift by two after that by eight closes the gaps it was expected to
  close before: with the distances written out, the order makes no difference. For more than 64 bits the shifts would not reach.

The assumptions are `WAssumption` and `PowersAssumption`, `SizesAssumption` (a window is not empty and its sizes fit sixteen bits), `CharsAssumption` (types), `CallsAssumption` (a string ends at its first zero; interrupt handlers print with `printk` alone: `source/interrupts/handlers.c`) and
`BufferAssumption` (every number has no zero byte and fits the buffer with the alignments in use: `intToStrBuffer` has 140 bytes, the longest text, of `%b`, no more than 128 digits and its prefix; callers ask for alignments 0, 2, 3 and 6).

Only model-checked: liveness (`SomeoneAcquires`, `FreeReturns`, `WaitReturns`, `Terminates`, `ComesToAnEnd`); `AvlTree` and `VmRegion` (`TreeBalanced`, `TraversalsInOrder`, `LookupsFind`), whose rotations and
walks would need induction over the height of subtrees; `Format` (`NumbersFormatted`), which is recursive on
digits; and of `Boot` the contents of the page tables (`AddressSpaceComplete`): that the biggest region has room for all the
tables and that no two descriptors are mapped to one address are properties of the machines given, which the code does not check; of `Buddy`, `CallersApart`, about the addresses; of `Pmm`, `TotalsAddUp`.

## 5. Divergences between the code and what is expected of it

These were met while modelling: properties that a comment, a header or a caller takes for granted and
that the code does not have. Each is defined next to the properties that hold. `KernelSeesAll` is a run of its own (`boot_map`). To see the trace of another, take the configuration of the run, put
the property in the place of its own, and change the specification or the constants as the third column says.

| Run | Property | Change | Code | What happens, and what the repository says |
|---|---|---|---|---|
| `library` | `Log2Correct` |  | `source/std/math.c:49` | bit length, not "Integer log for a uint32_t-sized type" (`include/std/math.h:20`) |
| `library` | `LeastReadsBack` |  | `source/std/io.c:99` | the least value is still negative after negation and indexes before the digits; "d - int32_t" (`include/std/io.h:10`) |
| `library` | `PointersIgnoreAlignment` |  | `source/std/io.c:281` | `%p` with more digits than the alignment is padded to the full word; "formats that are bigger than padding_amount will ignore it" (`include/std/io.h:37`) |
| `library` | `MainAsWritten` |  | `source/std/io.c:426` | a handler that prints a number (`source/interrupts/handlers.c:36`, `:67`) while another is being converted or shown replaces it |
| `library` | `CursorInside` | `Height = 32`, `Programs <- OneChar` | `source/gpcs2/blit.c:92` | the write of one character never brings the cursor back to the top |
| `library` | `CursorInside` | `StringArgument <- NullString` | `source/gpcs2/blit.c:121` | a NULL string gives the cursor 0xFFFF |
| `library` | `GlyphsInside` | `Height = 40`, `Programs <- LongText` | `source/gpcs2/blit.c:151` | the last row of glyphs is drawn over the lower edge when their height does not divide the window's, as with 1080 lines |
| `library` | `CursorForward` | `Height = 160`, `Programs <- LongText` | `include/gpcs2/console/console_instance.h:17` | a handler's text is overdrawn: the cursor it left is replaced by the interrupted write's |
| `buddy` | `BlocksInZone` |  | `source/mem/phys/buddy.c:65` | `log2ui` gives the bit length: the index of the block is that of the next level, wraps below zero, and the address lies outside the zone; "start + index * blockSize" |
| `buddy` | `Accounting` |  | `source/mem/phys/buddy.c:85` | initialisation pushes the block of the whole zone on list 0 and counts it off list 1: `freeMemorySize` and `maxBlockReq`, which `pmm.c:442` caches, report memory that is not there |
| `buddy` | `Running` |  | `source/mem/phys/buddy.c:260` | a request for the whole zone reads the list before the first, and initialisation pushes a single page on a list behind the last (`buddy.c:240`) |
| `buddy` | `LowOnlyRegions` |  | `source/mem/phys/buddyLow.c:131` | page states are read uncleared; "the rest of the memory is marked as 'USED'" (`include/mem/phys/buddy_ext.h:25`) |
| `pmm` | `OneUserPerZone` | `CPUs = {c1, c2}`, both as model values | `source/mem/phys/pmm.c:491` | the result of the exchange is dropped; "thread A locks the allocator" (`pmm.c:485`) |
| `pmm` | `InUseMeansUser` | `SpecRefusing` | `source/mem/phys/pmm.c:576` | a refused free returns without clearing `isusing` |
| `pmm` | `AllocReturns` |  | `source/mem/phys/pmm.c:486` | the loop waits for a block no other CPU makes; "If the manager doesn't find an allocator, nullptr will be returned." (`include/mem/phys/pmm.h:123`) |
| `pmm_init` | `FreeZonesFit` |  | `source/mem/phys/pmm.c:398` | a region over three zones makes more pieces than the array has room for |
| `pmm_init` | `OnlyFreeGiven` |  | `source/mem/phys/pmm.c:304` | the region that holds the managers is moved and not shortened; "only some memory regions can actually be used" (`include/mem/phys/buddy_ext.h:23`) |
| `avl` | `RegionsDisjoint` | `Stride = 4`, `Size = 4` | `include/mem/virt/avl/avl_wrap.h:47` | an extent in pages is added to an address in bytes, and overlapping regions are not equal; "if the memory region isn't overlapping with any other regions." (`include/mem/virt/vas.h:26`) |
| `avl` | `WrapperFinds` |  | `include/mem/virt/avl/avl_wrap.h:55` | the root is stored as a pointer to links (line 59) and read as one to a record: the search begins 24 bytes behind the links, or at address 24 when there is no root |
| `node_list` | `DestroyReturnsOwn` |  | `source/mem/virt/vas_node_alloc.c:37`, `:76` | the link of the last page is never set, and what the page held before is followed; the clearing of a new page starts behind its header and has the length of a whole page, so the link of the page that follows is lost; "frees all the pages that were allocated in the vas_nodelist allocator" (`include/mem/virt/vas_node_alloc.h:55`) |
| `paging` | `UnmappedIsGone` |  | `source/mem/virt/paging.c:102` | the entry of a directory is cleared, at the page's own index; "unmaps a page in the PML4 Table, by setting it non-present." (`include/mem/virt/paging.h:35`) |
| `paging` | `NeverAWrongFrame` | a set with `"ps"` in `FlagSets`, allowed by `PagingAssumption` | `source/mem/virt/paging.c:72` | bit 7, PAT in a page's entry, is copied into the entries of directories, where it means a large page |
| `interrupts` | `MinLooksHigher` |  | `source/interrupts/idt.c:340` | the same level is searched again; "will look at lvl N+1, N+2, ..." (`include/interrupts/idt.h:131`) |
| `interrupts` | `FlagsReachHardware` |  | `source/interrupts/router.c:258` | polarity, trigger and mask are one bit off in the redirection entry |
| `interrupts` | `GoesToItsProcessor` |  | `source/interrupts/router.c:264` | the entry is unmasked before its destination is written |
| `interrupts` | `MappedMeansInput` | `Gsis = {0, 1, 2, 3, 4}`, `Madts <- TwoIoApics` | `source/interrupts/router.c:73` | the count of inputs is carried over to the next I/O APIC |
| `interrupts` | `VectorAboveExceptions` |  | `source/device/lapict.c:66` | 0xFF + 32 wraps to an exception vector |
| `interrupts` | `TrapGatesHang` | `SpecExceptions` | `source/interrupts/handlers.c:47` | the index, not the entry, of `trap_gates` is compared |
| `interrupts` | `FreedIsDisabled` | `SpecFree` | `source/interrupts/idt.c:361` | a freed vector is still raised and its NULL handler called; "the idt gate that will be cleared and disabled." (`include/interrupts/idt.h:140`) |
| `timers` | `SetStateDisables` |  | `source/device/lapict.c:88` | a value read before `stopTimer` is written after it |
| `timers` | `StartedTicks` |  | `source/device/lapict.c:158` | the countdown starts in `prepare` and may be over before `start` |
| `timers` | `PeriodicKeepsTicking` |  | `source/device/lapict.c:56` | the handler stops a periodic timer |
| `boot` | `MissingKernelStops` |  | `bootloader/source/main.c:134` | a condition is tested as if it were a firmware status; without a kernel the loader goes on to a null pointer |
| `boot` | `OneHandleLeft` |  | `bootloader/source/file.c:86` | the search goes on after it has found the file, and a second find leaves the first handle open |
| `boot` | `BuffersFreed` |  | `bootloader/source/file.c:80` | the entries "." and ".." are skipped without freeing what they were read into |
| `boot` | `ScreenAsWanted` |  | `bootloader/source/video.c:97` | the loop counts once more after the find, and the mode behind it is set; "if we found the video-mode, set to that" (`video.c:116`) |
| `boot` | `EverySegmentRead` |  | `bootloader/source/loadkernel.c:228` | a segment that cannot be read is not noticed |
| `boot` | `UninitialisedIsZero` |  | `bootloader/source/loadkernel.c:224` | `p_memsz` bytes are read from the file, those of uninitialised data too; the kernel clears its own (`include/entry/entry.h:19`) |
| `boot` | `BlockHoldsEvery` |  | `bootloader/source/loadkernel.c:189` | gaps between segments, which `kernel.ld` aligns, are not counted, and the page for the rest is added or not by the number of pages, not of bytes |
| `boot_map` | `KernelSeesAll` |  | `bootloader/source/exitloader.c:343` | the last descriptor is behind the length the kernel is told; "we split an entry to 2" |
| `boot` | `RipTablesNamed` |  | `bootloader/source/exitloader.c:193` | the address and the size handed over are not those of the tables that map `bl_rip` (`preboot/memconfig.h:46`, `:50`) |
| `boot` | `HandedMapExact` | `Machines <- ReservedFirst` | `bootloader/source/exitloader.c:284` | the search for the biggest usable region starts with the first one, usable or not |
| `boot` | `ScreenMapped` |  | `bootloader/source/exitloader.c:430` | the part of a page at the end of the frame buffer is not mapped |
| `boot` | `FirmwareUntouched` |  | `bootloader/source/exitloader.c:293` | boot-services memory serves as the page stack while boot services are in use |
| `boot` | `EveryInterruptHandled` |  | `source/acpi/lapic.c:48`, `:42`, `source/entry/kernel.c:42` | interrupts are on before the router masks the I/O APIC (`source/interrupts/router.c:26`, `:78`) and stay open from a PIC that the MADT does not tell of; the spurious vector 0xFF has no handler; interrupts left on by the firmware meet its own gates or a half-set table; "initialize the idt with proper interrupt handlers." (`source/interrupts/init.c:15`) |

Two more that a passing property has as its exception: a root table with as many entries as the counter of `source/acpi/init.c:36` has values is walked for ever (`ComesToAnEnd`); a volume that is refused is
not noticed, and a closed or null handle is searched (`bootloader/source/main.c:129`, stage `"wild"` of `FindKernel`). And one in `Init` of `Pmm`: the low zone's free pages are added to bytes (`source/mem/phys/pmm.c:450`), and what is allocated from
the low zone is never subtracted, so `free` is not "the amount of currently available memory (bytes)" (`include/mem/phys/pmm.h:165`).

Seen in reading and not modelled: `FOREBACK` (`include/std/io.h:31`) has the colours the other way round than the comment above it, and
nothing uses it; the checksum of the root descriptor (`bootloader/source/acpi.c:41`) is tested as a firmware status and never fails.

## 6. Not modelled

* `source/mem/virt/vas.c`: it frees the node it collided with and not its own (line 40) and clears a table through a pointer it has not set (line 14).
  Nothing calls it, and there is no state its build would be in from which to start. Its tree, the order of its regions, the casts of `avl_wrap.h` and its node lists are modelled.
* `reserveBlock` of `buddy.c`: nothing calls it. `isBuddyFull` is defined and has no property.
* A `Read` of a directory that fails in the boot loader (`bootloader/source/file.c:62`, `:69`), whose status is not looked at.
* `include/ds/finite_stack.h`, `linked_page_buffer.h`: macros nothing uses.
* SMP and scheduler: `smp.c` starts no processor, the older version is not compiled, and interprocessor interrupts
  are sent from there only. TSC-deadline mode of the local timer is an empty branch.
* GDT and TSS: constant tables loaded once. The IDT's gates are there or not.
* Pixels, the back buffer, fonts; debug dumps; `kpanic`, which prints and halts; string and bit helpers, used as what they compute.
* The products of times in `hpet.c:167`, in femtoseconds, fit 64 bits for waits of up to half an hour; a wait is here the number of counts it comes to.
* Text and error output of the boot loader. An error that ends the loader is the stage "halted" of the models.
* Vendored and generated code: gnu-efi under `src/dependencies`, `elf.h`, the fonts. It is most of the
  repository's lines; the project's own logic is about eight thousand.

## 7. Plan

The components listed as modelled or partly modelled in `PROJECT.json` are covered as section 6 and their notes say; what is checked of them is proved but for what section 4 lists.
What is left is the AVL tree: the balance factors after one rotation as lemmas about the nodes it touches, and from them `TreeBalanced` of the whole by a least counterexample over the nodes.
