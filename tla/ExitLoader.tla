----------------------------- MODULE ExitLoader -----------------------------
(***************************************************************************)
(* The way out of the firmware: initializeKernelMemoryMap of               *)
(* bootloader/source/memorymap.c, enablePagingJumpToEntry and its helpers  *)
(* of exitloader.c, and exitbootservices.c.  The page tables are taken,    *)
(* page after page, from the biggest region of the memory map, which is    *)
(* then split into the pages used and the rest.  Addresses are counted in  *)
(* pages.  While boot services last, the firmware may allocate memory at   *)
(* any moment, and the copy of the map is stale from then on.              *)
(***************************************************************************)
EXTENDS LoadKernel

CONSTANTS Width,        \* entries of a table, 512 in the code
          EntrySize,    \* the bytes of a memory descriptor
          ScreenPage,   \* FrameBufferBase
          Events        \* bound: the allocations the firmware makes on its own

ASSUME ExitAssumption == Width \in Nat \ {0, 1} /\ EntrySize \in Nat \ {0, 1} /\ Events \in Nat

VARIABLES map,          \* the copy of the memory map: entries, used_size, room for entries
          zone,         \* the index of the biggest region
          pt,           \* the page tables and the page stack they are taken from
          idx,          \* the descriptor being mapped
          page,         \* how many of its pages, or of the screen's, are mapped
          key,          \* memoryMapKey
          events,       \* how often the firmware's map has changed since
          hdr           \* what the kernel is told about the tables

exitVars == <<map, zone, pt, idx, page, key, events, hdr>>
bootVars == <<stage, findVars, platformVars, loadVars, exitVars>>

Space == Width * Width * Width * Width
Index(v, level) == (v \div Width^level) % Width
virtualoffset == Image.start - block.phys
AtOffset(p) == (p + virtualoffset) % Space

Runtime == {"runtime code", "runtime data"}
Usable == {"conventional", "boot code", "boot data"}

NoMap == [entries |-> <<>>, used |-> 0, room |-> 0]
Absent == -1
ZeroPage == [i \in 0 .. Width - 1 |-> Absent]
NoTables == [tab |-> [p \in 0 .. ScreenPage - 1 |-> ZeroPage], pml4 |-> 0, addr |-> 0, left |-> 0]
NoHeader == [pml4size |-> 0, ripbuf |-> 0, ripbufsize |-> 0]

ExitInit ==
    /\ map = NoMap /\ zone = 0 /\ pt = NoTables /\ idx = 1 /\ page = 0
    /\ key = 0 /\ events = 0 /\ hdr = NoHeader

Kept == UNCHANGED <<findVars, platformVars, block, content, seg, lastLoad, config>>

-----------------------------------------------------------------------------
(* The memory map.                                                         *)

\* Slip: no room for what is added later.
SlipRoomFor(n) == n

\* "Allocate Enough memory for the coming memory map + any entries we'd add later"
RoomFor(n) == 2 * n

\* AllocatePool adds a region of its own, which the second GetMemoryMap reports.
initializeKernelMemoryMap ==
    /\ stage = "map"
    /\ \E i \in Free(memory, 1) :
          /\ memory' = Take(memory, i, "memory map", 1)
          /\ IF Len(memory') > RoomFor(Len(memory))
             THEN stage' = "halted" /\ UNCHANGED <<map, key>>
             ELSE /\ stage' = "prepare"
                  /\ map' = [entries |-> [j \in 1 .. Len(memory') |->
                                            [type |-> memory'[j].type, phys |-> memory'[j].phys,
                                             virt |-> 0, pages |-> memory'[j].pages]],
                             used |-> Len(memory') * EntrySize, room |-> RoomFor(Len(memory))]
                  /\ key' = events
    /\ Kept /\ UNCHANGED <<zone, pt, idx, page, events, hdr>>

NoPool ==
    /\ stage = "map" /\ Free(memory, 1) = {}
    /\ stage' = "halted"
    /\ Kept /\ UNCHANGED <<memory, exitVars>>

dscs == map.used \div EntrySize

fixVirtualAddresses(entries) ==
    [i \in 1 .. Len(entries) |->
        [entries[i] EXCEPT !.virt = IF entries[i].type \in Runtime THEN entries[i].phys
                                    ELSE AtOffset(entries[i].phys)]]

\* The first of the biggest.  The first entry of all takes part whatever its type.
findBiggestUsableMemoryRegion(entries) ==
    LET candidates == {1} \cup {i \in 1 .. Len(entries) : entries[i].type \in Usable}
    IN  CHOOSE i \in candidates : \A j \in candidates \ {i} :
            \/ entries[j].pages < entries[i].pages
            \/ entries[j].pages = entries[i].pages /\ i < j

-----------------------------------------------------------------------------
(* The page tables.  x carries them, their page stack and the table that   *)
(* the walk has reached.  tab has a row of entries for every page.         *)

\* The last page of the stack is never given; null is page 0, and is not cleared.
allocatePageAndZero(x) ==
    IF x.left = 1 THEN [x EXCEPT !.table = 0]
    ELSE [tab |-> [x.tab EXCEPT ![x.addr] = ZeroPage], pml4 |-> x.pml4,
          addr |-> x.addr + 1, left |-> x.left - 1, table |-> x.addr]

Down(x, i) ==
    IF x.tab[x.table][i] # Absent THEN [x EXCEPT !.table = x.tab[x.table][i]]
    ELSE LET y == allocatePageAndZero(x)
         IN  [y EXCEPT !.tab[x.table][i] = y.table]

Walking(t) == [tab |-> t.tab, pml4 |-> t.pml4, addr |-> t.addr, left |-> t.left, table |-> t.pml4]
Walked(x) == [tab |-> x.tab, pml4 |-> x.pml4, addr |-> x.addr, left |-> x.left]

\* Slip: the level below the top is walked with the index of the one below it.
SlipmapPages(p, v) ==
    \E a \in {Down(Walking(pt), Index(v, 3))} :
    \E b \in {Down(a, Index(v, 1))} :
    \E c \in {Down(b, Index(v, 1))} :
        pt' = Walked([c EXCEPT !.tab[c.table][Index(v, 0)] = p])

\* a, b and c are the three rounds of the loop.
mapPages(p, v) ==
    \E a \in {Down(Walking(pt), Index(v, 3))} :
    \E b \in {Down(a, Index(v, 2))} :
    \E c \in {Down(b, Index(v, 1))} :
        pt' = Walked([c EXCEPT !.tab[c.table][Index(v, 0)] = p])

\* enablePagingJumpToEntry up to the allocation of the PML4.
PrepareTables ==
    /\ stage = "prepare"
    /\ LET fixed == fixVirtualAddresses(map.entries)
           z     == findBiggestUsableMemoryRegion(map.entries)
           x     == allocatePageAndZero(Walking([tab |-> pt.tab, pml4 |-> pt.pml4,
                                                 addr |-> fixed[z].phys, left |-> fixed[z].pages]))
       IN  /\ map' = [map EXCEPT !.entries = fixed]
           /\ zone' = z
           /\ pt' = Walked([x EXCEPT !.pml4 = x.table])
    /\ stage' = "mapping"
    /\ Kept /\ UNCHANGED <<memory, idx, page, key, events, hdr>>

\* The loops of mapMemoryMapToVirtualMemory, a page at a time.
MapNextPage ==
    /\ stage = "mapping" /\ idx <= dscs /\ page < map.entries[idx].pages
    /\ LET d == map.entries[idx]
       IN  mapPages(d.phys + page, (d.virt + page) % Space)
    /\ page' = page + 1
    /\ Kept /\ UNCHANGED <<stage, memory, map, zone, idx, key, events, hdr>>

MapNextDescriptor ==
    /\ stage = "mapping" /\ idx <= dscs /\ page = map.entries[idx].pages
    /\ idx' = idx + 1 /\ page' = 0
    /\ Kept /\ UNCHANGED <<stage, memory, map, zone, pt, key, events, hdr>>

\* The page of the instruction pointer, in the code of the bootloader.
rip == LET i == CHOOSE j \in 1 .. Len(map.entries) : map.entries[j].type = "loader code"
       IN  map.entries[i].phys

\* The header gets the stack behind the tables, and what is left less what was
\* left, in sixteen bits.
MapInstructionPage ==
    /\ stage = "mapping" /\ idx > dscs
    /\ mapPages(rip, rip)
    /\ hdr' = [hdr EXCEPT !.ripbuf = pt'.addr, !.ripbufsize = (pt'.left - pt.left) % 2^16]
    /\ stage' = "framebuffer"
    /\ Kept /\ UNCHANGED <<memory, map, zone, idx, page, key, events>>

\* A last page that the screen fills only in part is not mapped.
mapFramebufferToVirtualMemory ==
    /\ stage = "framebuffer"
    /\ IF page < screen.bytes \div PageBytes
       THEN /\ mapPages(ScreenPage + page, AtOffset(ScreenPage + page))
            /\ page' = page + 1
            /\ UNCHANGED stage
       ELSE stage' = "exit" /\ UNCHANGED <<pt, page>>
    /\ Kept /\ UNCHANGED <<memory, map, zone, idx, key, events, hdr>>

-----------------------------------------------------------------------------
(* Leaving boot services.                                                  *)

BootServices == stage \in {"prepare", "mapping", "framebuffer", "exit"}

\* The firmware allocates a page for itself.
FirmwareAllocates ==
    /\ BootServices /\ events < Events
    /\ \E i \in Free(memory, 1) : memory' = Take(memory, i, "boot data", 1)
    /\ events' = events + 1
    /\ Kept /\ UNCHANGED <<stage, map, zone, pt, idx, page, key, hdr>>

\* Slip: the firmware is left with any key.
SlipexitBootServices ==
    /\ stage = "exit"
    /\ stage' = "finalize"
    /\ Kept /\ UNCHANGED <<memory, exitVars>>

\* A stale key is refused and there is no second attempt.
exitBootServices ==
    /\ stage = "exit"
    /\ stage' = IF key = events THEN "finalize" ELSE "halted"
    /\ Kept /\ UNCHANGED <<memory, exitVars>>

\* Slip: what is left begins where the region began.
SlipSplit(d) ==
    <<[d EXCEPT !.type = "paging", !.pages = @ - pt.left],
      [d EXCEPT !.type = "conventional", !.pages = pt.left]>>

\* The two parts of the biggest region.
Split(d) ==
    LET used == d.pages - pt.left
    IN  <<[d EXCEPT !.type = "paging", !.pages = used],
          [type |-> "conventional", phys |-> d.phys + used, virt |-> AtOffset(d.phys + used),
           pages |-> pt.left]>>

\* used_size counts bytes and grows by one of them.
finalizeMemoryMap ==
    /\ stage = "finalize"
    /\ map' = [map EXCEPT !.entries = Spliced(@, zone, Split(@[zone])), !.used = @ + 1]
    /\ hdr' = [hdr EXCEPT !.pml4size = map'.entries[zone].pages]
    /\ stage' = "jumped"
    /\ Kept /\ UNCHANGED <<memory, zone, pt, idx, page, key, events>>

ExitNext ==
    \/ initializeKernelMemoryMap \/ NoPool \/ PrepareTables \/ MapNextPage \/ MapNextDescriptor
    \/ MapInstructionPage \/ mapFramebufferToVirtualMemory
    \/ FirmwareAllocates \/ exitBootServices \/ finalizeMemoryMap

-----------------------------------------------------------------------------
(* Properties.  The kernel has been jumped to.                             *)

Jumped == stage = "jumped"

\* The processor's walk over the tables handed over: the page reached, or -1.
Translate(v) ==
    FoldLeft(LAMBDA t, level : IF t = Absent THEN Absent ELSE pt.tab[t][Index(v, level)],
             pt.pml4, <<3, 2, 1, 0>>)

Below(tables) == {pt.tab[e[1]][e[2]] : e \in tables \X (0 .. Width - 1)} \ {Absent}
Tables == LET directories == Below({pt.pml4})
              lower       == Below(directories)
          IN  {pt.pml4} \cup directories \cup lower \cup Below(lower)

PagesOf(d) == d.phys .. d.phys + d.pages - 1
AllPages == UNION {PagesOf(memory[i]) : i \in 1 .. Len(memory)}
TypeAt(m, p) == m[CHOOSE i \in 1 .. Len(m) : p \in PagesOf(m[i])].type

\* Whatever region was taken and however many tables were needed, the descriptors
\* written, the last one included, describe every page of the firmware's final map once and no other page,
\* the pages of the tables and no others as such, and the rest of that region,
\* and nothing else that was not free, as free.
HandedMapExact ==
    Jumped =>
        /\ \A i, j \in 1 .. Len(map.entries) :
              i # j => PagesOf(map.entries[i]) \cap PagesOf(map.entries[j]) = {}
        /\ UNION {PagesOf(map.entries[i]) : i \in 1 .. Len(map.entries)} = AllPages
        /\ \A p \in AllPages :
              LET told == TypeAt(map.entries, p)
                  is   == TypeAt(memory, p)
              IN  /\ told = "paging" <=> p \in Tables
                  /\ told = "paging" => is \in Usable
                  /\ told \notin {"paging", is} =>
                        /\ told = "conventional" /\ is \in Usable
                        /\ p \in PagesOf(map.entries[zone + 1])
                        /\ is = TypeAt(memory, map.entries[zone].phys)

\* The descriptors, the one that is added included, fit into the buffer that was
\* allocated before their number was known.
FinalMapFits == Jumped => Len(map.entries) <= map.room

SameRegion(d, m) == d.type = m.type /\ d.phys = m.phys /\ d.pages = m.pages

\* The descriptors written are those the firmware leaves with, one by one and in the
\* order of addresses, but for the biggest region: it comes in two parts that meet at
\* the page the stack would have given next.
MapIsExact ==
    Jumped =>
        LET whole  == memory[zone]
            tables == map.entries[zone]
            rest   == map.entries[zone + 1]
        IN  /\ Len(map.entries) = Len(memory) + 1
            /\ \A i \in 1 .. zone - 1 : SameRegion(map.entries[i], memory[i])
            /\ \A i \in zone + 1 .. Len(memory) : SameRegion(map.entries[i + 1], memory[i])
            /\ tables.type = "paging" /\ tables.phys = whole.phys
            /\ tables.phys + tables.pages = pt.addr
            /\ rest.type = "conventional" /\ rest.phys = pt.addr
            /\ rest.phys + rest.pages = whole.phys + whole.pages
            /\ Ordered(map.entries)

\* The kernel divides used_size by the size of a descriptor (pmm.c), and used_size has
\* grown by a byte and not by a descriptor: what it reads are all descriptors but the
\* last one, the region with the highest addresses.
OnlyLastUnread == Jumped => dscs = Len(map.entries) - 1

\* Every descriptor that the kernel reads is true of the memory that the firmware
\* leaves, whatever it allocated while the tables were filled, and lies in the buffer
\* allocated for the map; the one that the kernel does not read is the last.
MapHandedOver == MapIsExact /\ FinalMapFits /\ OnlyLastUnread

\* With the tables switched, every page of the memory map is at the address its
\* descriptor says, the code that switches runs on, and the screen is there.
AddressesComplete ==
    Jumped =>
        /\ pt.pml4 # 0
        /\ \A i \in 1 .. Len(map.entries) :
              LET d == map.entries[i]
              IN  \A k \in 0 .. d.pages - 1 : Translate((d.virt + k) % Space) = d.phys + k
        /\ Translate(rip) = rip
        /\ \A k \in 0 .. (screen.bytes \div PageBytes) - 1 :
              Translate(AtOffset(ScreenPage + k)) = ScreenPage + k

\* The tables make the address space the kernel is told of, and lie, all of them and
\* nothing else, where the map says.
AddressSpaceComplete == HandedMapExact /\ AddressesComplete

\* "we split an entry to 2" (exitloader.c): the kernel, which divides used_size by
\* the size of a descriptor, finds all of them.
KernelSeesAll == Jumped => dscs = Len(map.entries)

\* The header names the tables of the identity-mapped page: "Buffer used for Page
\* Tables, mapping 'bl_rip'" and "Size of" it (preboot/memconfig.h).
RipTablesNamed ==
    Jumped => \A p \in hdr.ripbuf .. hdr.ripbuf + hdr.ripbufsize - 1 : p \in Tables

\* Every byte of the screen can be written.
ScreenMapped ==
    Jumped => \A b \in 0 .. screen.bytes - 1 :
        Translate(AtOffset(ScreenPage + (b \div PageBytes))) = ScreenPage + (b \div PageBytes)

\* No table is written over memory that the firmware is using.
FirmwareUntouched ==
    BootServices => \A p \in {q \in AllPages : pt.tab[q] # ZeroPage} :
        TypeAt(memory, p) \notin {"boot code", "boot data"}
=============================================================================
