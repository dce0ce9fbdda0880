------------------------------ MODULE BuddyLow ------------------------------
(***************************************************************************)
(* The allocator of the memory under 4 MiB, source/mem/phys/buddyLow.c: the*)
(* tree and the lists of buddy.c over a zone that starts at address 0,     *)
(* line for line the same but for the initialisation.  lowmem_buddy_init   *)
(* clears 2^Depth - 1 nodes of the 2^(Depth+1) - 1, so the state of a page *)
(* is whatever the memory held.  Where it held zeroes, this is buddy.c.    *)
(***************************************************************************)
EXTENDS Buddy

CONSTANT LeafJunk     \* what the uncleared states of the pages may read

ZonePages == 0 .. 2^Depth - 1

ASSUME LowAssumption == LeafJunk \subseteq [ZonePages -> States]

VARIABLE declared     \* the pages of free_memory_regions, for the properties

lowVars == <<m, live, call, declared>>

-----------------------------------------------------------------------------
(* The functions of buddyLow.c.                                            *)

\* What the nodes hold when the regions are about to be marked: the inner ones
\* are cleared, the pages keep their junk.
lowmem_buddy_init(junk) ==
    [buddy_alloc_init EXCEPT
        !.state = [e \in Cells |->
                      IF e \in Nodes /\ e >= LevelStart(Depth) THEN junk[e - LevelStart(Depth)]
                      ELSE @[e]]]

\* The pages that do not read USED after the first loop: those declared and the junk.
MarkedPages(b, pages) ==
    pages \cup {p \in ZonePages : b.state[LevelStart(Depth) + p] # USED}

\* The bottom-up pass tells USED from the rest: a page of the junk whose parent does not
\* become FREE keeps the state it had.
LowMarks(b, pages) ==
    [e \in Nodes |->
        LET mark == MarkRegions(MarkedPages(b, pages))[e]
        IN  IF mark # USED /\ e >= LevelStart(Depth) /\ e - LevelStart(Depth) \notin pages
            THEN b.state[e] ELSE mark]

lowmem_buddy_init_free_regions(pages, junk) ==
    LET b == pop_entry(lowmem_buddy_init(junk), 0).m
    IN  WithMarks(b, LowMarks(b, pages))

LowInit ==
    /\ declared \in FreeRegions
    /\ \E junk \in LeafJunk : m = lowmem_buddy_init_free_regions(declared, junk)
    /\ live = {}
    /\ call = Call("init", 0, 0, 0, 0)

\* The steps of a DMA_LOW request.
lowmem_alloc_pages == Alloc /\ UNCHANGED declared

\* Slip: the block goes back on its list and is not merged.
Sliplowmem_free_pages ==
    /\ \E blk \in live :
          /\ call.pc = "idle"
          /\ live' = live \ {blk}
          /\ m' = push_entry(m, blk.lvl, Offset(blk.ptr, blk.lvl))
    /\ UNCHANGED <<call, declared>>

\* The steps of the return of a block under 4 MiB.
lowmem_free_pages == Free /\ UNCHANGED declared

LowNext == (PushMarked /\ UNCHANGED declared) \/ lowmem_alloc_pages \/ lowmem_free_pages

LowSpec == LowInit /\ [][LowNext]_lowVars

-----------------------------------------------------------------------------
(* Properties.                                                             *)

Managed == Unowned \cup UNION {LivePages(blk) : blk \in live}

\* No page of a region given to buddy_alloc_init_free_regions or to
\* lowmem_buddy_init_free_regions disappears from the tree, whatever the memory held
\* before: it is free or it has an owner, after any sequence of splits and merges.
NothingLost == Running => declared \subseteq Managed

\* buddy_ext.h:25 "initializes a buddy allocator with 'free_memory_regions', and
\* the rest of the memory is marked as 'USED'".
LowOnlyRegions == Managed \subseteq declared
=============================================================================
