------------------------------- MODULE PmmInit -------------------------------
(***************************************************************************)
(* pfa_init of source/mem/phys/pmm.c: how the memory map the boot loader   *)
(* passes is cut into the regions each allocator starts with.  Addresses   *)
(* and sizes are page numbers.  A step is one round of a loop; the loop    *)
(* over the regions lengthens the array it walks.  The figures computed at *)
(* the end of pfa_init are Init of Pmm.                                    *)
(***************************************************************************)
EXTENDS Integers, Sequences

CONSTANTS
    Maps,              \* memory maps: sequences of descriptors
    ManagedPages,      \* ALLOC_MANAGED_MEM
    LowEnd,            \* 0x400000
    PageSize,          \* PAGE_SIZE
    LowManagerSize,    \* sizeof(BuddyAllocatorLowMem)
    ZoneManagerSize,   \* sizeof(BuddyAllocator) + sizeof(managed_zone)
    Junk               \* the pages that entries never written may name

Descriptors == [mem : Nat, pages : Nat, free : BOOLEAN]
Regions == [mem : Nat, pages : Nat]

\* The descriptors of a map are in order and do not overlap, which the loop over
\* the low ones relies on.
InOrder(descs) ==
    \A k, l \in 1 .. Len(descs) : k < l => descs[k].mem + descs[k].pages <= descs[l].mem

ASSUME PmmInitAssumption ==
    /\ ManagedPages \in Nat \ {0} /\ LowEnd \in 0 .. ManagedPages
    /\ PageSize \in Nat \ {0} /\ LowManagerSize \in Nat /\ ZoneManagerSize \in Nat
    /\ Junk \subseteq SUBSET Nat
    /\ \A s \in Maps : s \in Seq(Descriptors) /\ InOrder(s)

VARIABLES
    firmware,          \* the map as it was passed
    map,               \* the map as pfa_init has changed it
    step,              \* the loop pfa_init is in
    i, j,              \* its counters
    MemoryMapPageCount,
    under4MiB,         \* free descriptors below LowEnd, counted before any change
    managedZones,      \* pageManager.zoneCount
    biggestFree,       \* the descriptor found for the managers, 0 for none
    managers,          \* the pages that hold the managers
    freeZones, lowZones,
    given,             \* given[n]: the pages allocator n starts with
    givenLow           \* the pages the low allocator starts with

figures == <<MemoryMapPageCount, under4MiB>>
placed  == <<firmware, map, managedZones, biggestFree, managers>>
handed  == <<given, givenLow>>
setupVars == <<placed, figures, step, i, j, freeZones, lowZones, handed>>

Run(r) == r.mem .. r.mem + r.pages - 1
Region(mem, pages) == [mem |-> mem, pages |-> pages]

\* The pages of a list of regions, and of those of its members with index in ks.
PagesAt(regions, ks) == UNION {Run(regions[k]) : k \in ks}
PagesIn(regions) == PagesAt(regions, 1 .. Len(regions))

\* Conventional, BootServicesCode and BootServicesData are free to use.
regionFree(d) == d.free
FreeIn(descs) == PagesAt(descs, {k \in 1 .. Len(descs) : regionFree(descs[k])})

\* The pages that the low manager, n zone managers and their table take.
ManagerPages(n) ==
    LET bytes == LowManagerSize + n * ZoneManagerSize
    IN  bytes \div PageSize + (IF bytes % PageSize = 0 THEN 0 ELSE 1)

-----------------------------------------------------------------------------
SetupInit ==
    /\ firmware \in Maps
    /\ map = firmware
    /\ step = "count" /\ i = 1 /\ j = 0
    /\ MemoryMapPageCount = 0 /\ under4MiB = 0 /\ managedZones = 0
    /\ biggestFree = 0 /\ managers = {}
    /\ freeZones = <<>> /\ lowZones = <<>>
    /\ given = <<>> /\ givenLow = {}

\* The loop at step s has a round left, or is over and goes on to the next.
Round(s, n) == step = s /\ i <= n /\ i' = i + 1 /\ UNCHANGED <<step, j>>
Over(s, n, next, first) == step = s /\ i > n /\ step' = next /\ i' = first /\ j' = 0

CountRegion ==
    /\ Round("count", Len(map))
    /\ MemoryMapPageCount' = MemoryMapPageCount + map[i].pages
    /\ under4MiB' = IF regionFree(map[i]) /\ map[i].mem < LowEnd THEN under4MiB + 1 ELSE under4MiB
    /\ UNCHANGED <<placed, freeZones, lowZones, handed>>

\* Whole zones in the number of pages the map lists.
CountAllocators ==
    /\ Over("count", Len(map), "place", 1)
    /\ managedZones' = MemoryMapPageCount \div ManagedPages
    /\ UNCHANGED <<firmware, map, biggestFree, managers, figures, freeZones, lowZones, handed>>

\* The last free descriptor larger than the managers is the one they go to.
FindRegion ==
    /\ Round("place", Len(map))
    /\ biggestFree' = IF regionFree(map[i]) /\ map[i].pages > ManagerPages(managedZones)
                      THEN i ELSE biggestFree
    /\ UNCHANGED <<firmware, map, managedZones, managers, figures, freeZones, lowZones, handed>>

NoRegion ==
    /\ step = "place" /\ i > Len(map) /\ biggestFree = 0
    /\ step' = "halted"
    /\ UNCHANGED <<placed, figures, i, j, freeZones, lowZones, handed>>

\* Slip: the descriptor keeps its address.
SlipPlaceManagers ==
    /\ biggestFree # 0
    /\ Over("place", Len(map), "high", 1)
    /\ managers' = Run(Region(map[biggestFree].mem, ManagerPages(managedZones)))
    /\ UNCHANGED <<firmware, map, managedZones, biggestFree, figures, freeZones, lowZones, handed>>

\* It gives up its first pages: its address moves, its size does not.
PlaceManagers ==
    /\ biggestFree # 0
    /\ Over("place", Len(map), "high", 1)
    /\ managers' = Run(Region(map[biggestFree].mem, ManagerPages(managedZones)))
    /\ map' = [map EXCEPT ![biggestFree].mem = @ + ManagerPages(managedZones)]
    /\ UNCHANGED <<firmware, managedZones, biggestFree, figures, freeZones, lowZones, handed>>

\* The free descriptors above LowEnd.
CollectHigh ==
    /\ Round("high", Len(map))
    /\ freeZones' = IF regionFree(map[i]) /\ map[i].mem >= LowEnd
                    THEN Append(freeZones, Region(map[i].mem, map[i].pages)) ELSE freeZones
    /\ UNCHANGED <<placed, figures, lowZones, handed>>

CollectHighDone ==
    /\ Over("high", Len(map), "low", 1)
    /\ UNCHANGED <<placed, figures, freeZones, lowZones, handed>>

\* The free descriptors below it, up to the first descriptor that is not below.
CollectLow ==
    /\ i \in 1 .. Len(map) /\ map[i].mem < LowEnd
    /\ Round("low", Len(map))
    /\ lowZones' = IF regionFree(map[i])
                   THEN Append(lowZones, Region(map[i].mem, map[i].pages)) ELSE lowZones
    /\ UNCHANGED <<placed, figures, freeZones, handed>>

CollectLowDone ==
    /\ step = "low" /\ (i \in 1 .. Len(map) => map[i].mem >= LowEnd)
    /\ step' = "splitLow" /\ i' = 1 /\ j' = 0
    /\ UNCHANGED <<placed, figures, freeZones, lowZones, handed>>

\* Slip: the remainder above LowEnd is forgotten.
SlipSplitLow ==
    LET r == lowZones[i]
    IN  /\ Round("splitLow", Len(lowZones))
        /\ lowZones' = IF r.mem + r.pages > LowEnd
                       THEN [lowZones EXCEPT ![i] = Region(r.mem, LowEnd - r.mem)] ELSE lowZones
        /\ UNCHANGED <<placed, figures, freeZones, handed>>

\* A low region that reaches over LowEnd is cut there.
SplitLow ==
    LET r == lowZones[i]
    IN  /\ Round("splitLow", Len(lowZones))
        /\ IF r.mem + r.pages > LowEnd
           THEN /\ freeZones' = Append(freeZones, Region(LowEnd, r.pages - (LowEnd - r.mem)))
                /\ lowZones' = [lowZones EXCEPT ![i] = Region(r.mem, LowEnd - r.mem)]
           ELSE UNCHANGED <<freeZones, lowZones>>
        /\ UNCHANGED <<placed, figures, handed>>

SplitLowDone ==
    /\ Over("splitLow", Len(lowZones), "split", 1)
    /\ UNCHANGED <<placed, figures, freeZones, lowZones, handed>>

\* Slip: the boundary above the last zone is left out.
SlipBoundaries == managedZones

\* memBoundaries[0] to memBoundaries[totalAllocators].
Boundaries == managedZones + 1
memBoundaries(n) == n * ManagedPages

Crosses(r, boundary) == r.mem < boundary /\ boundary < r.mem + r.pages

\* Slip: the part above the boundary keeps the size of the whole.
SlipCutAt(zones, k, boundary) ==
    LET r == zones[k]
    IN  Append([zones EXCEPT ![k] = Region(r.mem, boundary - r.mem)], Region(boundary, r.pages))

\* The part above the boundary is pushed and will get a round of its own.
CutAt(zones, k, boundary) ==
    LET r     == zones[k]
        below == boundary - r.mem
    IN  Append([zones EXCEPT ![k] = Region(r.mem, below)], Region(boundary, r.pages - below))

\* The inner loop: boundary j and region i.
Split ==
    /\ step = "split" /\ i <= Len(freeZones) /\ j < Boundaries
    /\ freeZones' = IF Crosses(freeZones[i], memBoundaries(j))
                    THEN CutAt(freeZones, i, memBoundaries(j)) ELSE freeZones
    /\ j' = j + 1
    /\ UNCHANGED <<placed, figures, step, i, lowZones, handed>>

\* Slip: a region is looked at again while a boundary lies in it, its start included.
SlipSplitNext ==
    /\ step = "split" /\ i <= Len(freeZones) /\ j = Boundaries
    /\ i' = IF \E n \in 0 .. managedZones : memBoundaries(n) \in Run(freeZones[i]) THEN i ELSE i + 1
    /\ j' = 0
    /\ UNCHANGED <<placed, figures, step, freeZones, lowZones, handed>>

SplitNext ==
    /\ step = "split" /\ i <= Len(freeZones) /\ j = Boundaries
    /\ i' = i + 1 /\ j' = 0
    /\ UNCHANGED <<placed, figures, step, freeZones, lowZones, handed>>

SplitDone ==
    /\ Over("split", Len(freeZones), "give", 0)
    /\ UNCHANGED <<placed, figures, freeZones, lowZones, handed>>

mapZoneToAllocator(r) == r.mem \div ManagedPages

\* Allocator i is initialised with the regions that map to it.
Give ==
    /\ step = "give" /\ i < managedZones
    /\ given' = Append(given, PagesAt(freeZones, {k \in 1 .. Len(freeZones) :
                                                     mapZoneToAllocator(freeZones[k]) = i}))
    /\ i' = i + 1
    /\ UNCHANGED <<placed, figures, step, j, freeZones, lowZones, givenLow>>

\* The low allocator is told there are under4MiB regions.  When fewer were
\* collected, the entries behind them were never written and name any pages, of the
\* low zone or not.
GiveLow ==
    /\ step = "give" /\ i = managedZones
    /\ \E junk \in IF Len(lowZones) = under4MiB THEN {{}} ELSE Junk :
          givenLow' = PagesIn(lowZones) \cup junk
    /\ step' = "done"
    /\ UNCHANGED <<placed, figures, i, j, freeZones, lowZones, given>>

SetupNext ==
    \/ CountRegion \/ CountAllocators \/ FindRegion \/ NoRegion \/ PlaceManagers
    \/ CollectHigh \/ CollectHighDone \/ CollectLow \/ CollectLowDone
    \/ SplitLow \/ SplitLowDone \/ Split \/ SplitNext \/ SplitDone \/ Give \/ GiveLow

SetupSpec == SetupInit /\ [][SetupNext]_setupVars

\* pfa_init runs alone at boot, and to its end.
SetupFairSpec == SetupSpec /\ WF_setupVars(SetupNext)

-----------------------------------------------------------------------------
(* Properties.                                                             *)

AllGiven == givenLow \cup UNION {given[n] : n \in 1 .. Len(given)}

\* As many low regions were collected as had been counted before the managers moved
\* one of them, perhaps out of low memory: all of lowMemZones has been written.
LowWritten == Len(lowZones) = under4MiB

\* A zone's manager gets no page of another zone: its free_memory_regions index
\* a table sized for the zone, and a region that reaches over the end would be
\* written behind it.  The low manager gets none either, if its array was written.
InsideOwnZone ==
    /\ \A n \in 1 .. Len(given) : given[n] \subseteq memBoundaries(n - 1) .. memBoundaries(n) - 1
    /\ LowWritten => givenLow \subseteq 0 .. LowEnd - 1

\* The regions always cover what the changed map lists as free.
CutsCover ==
    step \in {"splitLow", "split", "give", "done"} =>
        PagesIn(freeZones) \cup PagesIn(lowZones) = FreeIn(map)

\* The pages behind the region that holds the managers, as many as they take: the region
\* is moved by them and not shortened.
Overhang ==
    LET d == firmware[biggestFree]
    IN  IF biggestFree = 0 THEN {}
        ELSE Run(Region(d.mem + d.pages, ManagerPages(managedZones)))

\* From the firmware's map to the allocators no free page below the last boundary is lost
\* but those the managers take, and none is invented but the overhang of their region
\* (and what unwritten entries name), however many zone boundaries a region crosses.
FreeMemoryKept ==
    /\ step = "done" => \A p \in FreeIn(firmware) \ managers :
                            p < memBoundaries(managedZones) => p \in AllGiven
    /\ LowWritten => AllGiven \subseteq FreeIn(firmware) \cup Overhang

\* The managers are not in the memory they manage, as long as as many low regions
\* were found as had been counted before the managers moved one of them.
ManagersSafe == LowWritten => AllGiven \cap managers = {}

-----------------------------------------------------------------------------
(* The inductive invariant.                                                *)

Steps == {"count", "place", "high", "low", "splitLow", "split", "give", "done", "halted"}
Unplaced == {"count", "place", "halted"}

SetupTypeOK ==
    /\ firmware \in Seq(Descriptors) /\ map \in Seq(Descriptors)
    /\ step \in Steps /\ i \in Nat /\ j \in Nat /\ (i = 0 => step \in {"give", "done"})
    /\ MemoryMapPageCount \in Nat /\ under4MiB \in Nat /\ managedZones \in Nat
    /\ biggestFree \in 0 .. Len(map) /\ managers \subseteq Nat
    /\ freeZones \in Seq(Regions) /\ lowZones \in Seq(Regions)
    /\ given \in Seq(SUBSET Nat) /\ givenLow \subseteq Nat

\* Descriptors start in order even once the managers have moved one, which now
\* may reach into the next; what they moved over is free no more.
MapSound ==
    /\ \A k, l \in 1 .. Len(map) : k < l => map[k].mem <= map[l].mem
    /\ step \in Unplaced => InOrder(map) /\ managers = {}
    /\ biggestFree # 0 => step # "count"
    /\ step = "place" /\ biggestFree # 0 => map[biggestFree].pages > ManagerPages(managedZones)
    /\ managers \cap FreeIn(map) = {}

\* The free descriptors of map before the n-th, and those of them that start at
\* or above LowEnd.
FreeBefore(n) == {k \in 1 .. Len(map) : k < n /\ regionFree(map[k])}
HighBefore(n) == {k \in FreeBefore(n) : map[k].mem >= LowEnd}

\* What each collecting loop has found so far.
Collected ==
    /\ step \in Unplaced => freeZones = <<>>
    /\ step \in Unplaced \cup {"high"} => lowZones = <<>>
    /\ step = "high" => PagesIn(freeZones) = PagesAt(map, HighBefore(i))
    /\ step = "low" =>
         /\ PagesIn(freeZones) = PagesAt(map, HighBefore(Len(map) + 1))
         /\ PagesIn(lowZones) = PagesAt(map, FreeBefore(i))
         /\ \A k \in 1 .. Len(map) : k < i => map[k].mem < LowEnd
    /\ CutsCover

\* How far the cut at LowEnd and the cut at the boundaries have come.
CutSoFar ==
    /\ \A k \in 1 .. Len(lowZones) : lowZones[k].mem < LowEnd
    /\ \A k \in 1 .. Len(lowZones) :
         (step = "splitLow" /\ k < i) \/ step \in {"split", "give", "done"} =>
            lowZones[k].mem + lowZones[k].pages <= LowEnd
    /\ step = "split" => j <= Boundaries
    /\ \A k \in 1 .. Len(freeZones), n \in 0 .. managedZones :
         (step = "split" /\ (k < i \/ (k = i /\ n < j))) \/ step \in {"give", "done"} =>
            ~Crosses(freeZones[k], memBoundaries(n))

\* Every allocator initialised so far has the regions that map to it.
GivenSoFar ==
    /\ step = "give" => Len(given) = i /\ i <= managedZones
    /\ step \notin {"give", "done"} => Len(given) = 0
    /\ step = "done" => Len(given) = managedZones
    /\ \A n \in 1 .. Len(given) :
         given[n] = PagesAt(freeZones, {k \in 1 .. Len(freeZones) :
                                           mapZoneToAllocator(freeZones[k]) = n - 1})
    /\ step # "done" => givenLow = {}
    /\ step = "done" =>
         /\ PagesIn(lowZones) \subseteq givenLow
         /\ LowWritten => givenLow = PagesIn(lowZones)

PmmInitInv == SetupTypeOK /\ MapSound /\ Collected /\ CutSoFar /\ GivenSoFar

\* The map is the firmware's, but for the descriptor the managers have moved.
Moved ==
    IF step \in Unplaced THEN map = firmware
    ELSE /\ biggestFree \in 1 .. Len(firmware)
         /\ managers = Run(Region(firmware[biggestFree].mem, ManagerPages(managedZones)))
         /\ map = [firmware EXCEPT ![biggestFree].mem = @ + ManagerPages(managedZones)]

-----------------------------------------------------------------------------
\* pfa_init comes to an end although the cut lengthens the array it walks.
Terminates == <>(step \in {"done", "halted"})

\* buddy_ext.h:23 "only some memory regions can actually be used, and the rest
\* should be reserved": nothing is given out that the map does not list as free.
OnlyFreeGiven == AllGiven \subseteq FreeIn(firmware)

\* pmm.c:320 sizes freeZones for two zones per region, "some zones may need to
\* split in order to fit 256MiB Boundaries".
FreeZonesFit == Len(freeZones) <= 2 * Len(SelectSeq(firmware, regionFree))
=============================================================================
