-------------------------------- MODULE Buddy --------------------------------
(***************************************************************************)
(* The buddy allocator of source/mem/phys/buddy.c: a binary tree of blocks *)
(* stored as a heap (linkedmap), threaded by one doubly linked free list   *)
(* per level.  The lists are kept as the code keeps them, by prev and next *)
(* offsets, a head per level that lies behind the tree in memory, and a    *)
(* pointer free[lvl] to the entry pushed last.                             *)
(*                                                                         *)
(* The allocator is a record m; the helpers are operators from the record  *)
(* to the record they leave behind.  A call of the interface is a sequence *)
(* of steps, one per round of its loops.                                   *)
(*                                                                         *)
(* The levels come from log2ui, which gives the bit length: one more than  *)
(* the level a block has in the tree.  So a block of tree level l is on    *)
(* list l + 1, the pages have no list, and an address is reckoned with the *)
(* size of the next level.                                                 *)
(***************************************************************************)
EXTENDS KernelMath, Integers

CONSTANTS
    Depth,           \* BUDDY_TREE_DEPTH; the leaves, at this level, are pages
    Start,           \* first page of the zone (mman->start in pages); 0 = NULL
    FreeRegions,     \* the sets of leaf pages the zone may start with as free
    Counts           \* page counts callers ask for

ASSUME BuddyAssumption ==
    /\ Depth \in Nat \ {0, 1} /\ Depth + 3 < W
    /\ Start \in Nat
    /\ Counts \subseteq Nat
    /\ FreeRegions \subseteq SUBSET (0 .. 2^Depth - 1)

VARIABLES m,         \* the BuddyAllocator
          live,      \* the blocks callers hold: [ptr, lvl]
          call       \* the call under way: its loop, and the locals of the loop

vars == <<m, live, call>>

\* want is the count asked for, rounded; node is the block, the offset or the index
\* that the loop of the call is at.
Call(pc, node, lvl, splits, want) ==
    [pc |-> pc, node |-> node, lvl |-> lvl, splits |-> splits, want |-> want]

Idle == Call("idle", 0, 0, 0, 0)

\* The code has left its arrays, or has given a caller what is no block: nothing is
\* known of what follows.
Fault == Call("fault", 0, 0, 0, 0)

-----------------------------------------------------------------------------
(* The shape of the tree.                                                  *)

USED == 0
FREE == 1
States == 0 .. 3                           \* the state of a node has two bits
NULLPTR == 0

TreeSize == 2^(Depth + 1) - 1
Nodes    == 0 .. TreeSize - 1
Levels   == 0 .. Depth
LevelStart(lvl) == 2^lvl - 1
ListHead(lvl) == TreeSize + lvl                \* MOFFSET(&levels.head[lvl])
BlockPages(lvl) == 2^(Depth - lvl)         \* BLOCK_SIZE(lvl), in pages

get_level(e) == log2ui(1 + e)

\* Slip: the level of the tree, and not the one the size of the block comes from.
Slipget_index(e, lvl) == (e + 1 - 2^(lvl - 1)) % 2^W

get_index(e, lvl) == (e + 1 - 2^lvl) % 2^W

\* Slip: the right neighbour at every level, never the left one.
Slipget_buddy(off) == IF off = 0 THEN 0 ELSE off + 1

get_buddy(off) == IF off = 0 THEN 0 ELSE off + 2 * (off % 2) - 1

\* start + index * blockSize: the index wraps, the sum does not.
getAddress(e) == LET lvl == get_level(e)
                 IN  Start + get_index(e, lvl) * BlockPages(lvl)

-----------------------------------------------------------------------------
(* The free lists.  Heads and nodes share prev and next, as they share the *)
(* offsets in memory.                                                      *)

\* Slip: the size of the level is left alone.
Slipremove_entry(b, e) ==
    [b EXCEPT !.state[e] = USED,
              !.next[b.prev[e]] = b.next[e],
              !.prev[b.next[e]] = b.prev[e]]

\* The level of a list head lies behind the sizes, in the padding of the structure.
remove_entry(b, e) ==
    [state |-> [b.state EXCEPT ![e] = USED],
     next  |-> [b.next EXCEPT ![b.prev[e]] = b.next[e]],
     prev  |-> [b.prev EXCEPT ![b.next[e]] = b.prev[e]],
     free  |-> b.free,
     size  |-> [l \in Levels |-> IF l = get_level(e) THEN (b.size[l] + 2^W - 1) % 2^W
                                ELSE b.size[l]]]

push_entry(b, lvl, e) ==
    LET last == b.free[lvl]
        next == [b.next EXCEPT ![e] = b.next[last], ![last] = e]
        prev == [b.prev EXCEPT ![e] = last]
    IN  [state |-> [b.state EXCEPT ![e] = FREE],
         next  |-> next,
         prev  |-> [prev EXCEPT ![next[e]] = e],
         free  |-> [b.free EXCEPT ![lvl] = e],
         size  |-> [b.size EXCEPT ![lvl] = (@ + 1) % 2^W]]

\* Slip: the pointer to the last entry is not moved back.
Slippop_entry(b, lvl) ==
    IF b.size[lvl] = 0 THEN [m |-> b, entry |-> ListHead(lvl)]
    ELSE [m |-> remove_entry(b, b.free[lvl]), entry |-> b.free[lvl]]

pop_entry(b, lvl) ==
    LET e == b.free[lvl]
        r == remove_entry(b, e)
    IN  IF b.size[lvl] = 0 THEN [m |-> b, entry |-> ListHead(lvl)]
        ELSE [m |-> [r EXCEPT !.free[lvl] = r.prev[e]], entry |-> e]

-----------------------------------------------------------------------------
(* Initialisation.                                                         *)

Heads == {ListHead(l) : l \in Levels}
Cells == Nodes \cup Heads

buddy_alloc_init ==
    LET links == [e \in Cells |-> IF e \in Heads THEN e ELSE 0]
    IN  push_entry([state |-> [e \in Cells |-> USED], next |-> links, prev |-> links,
                    free  |-> [l \in Levels |-> ListHead(l)],
                    size  |-> [l \in Levels |-> 0]],
                   0, 0)

\* The pages a block stands for, counted from the start of the zone.
PagesOf(e) ==
    LET lvl   == IntegerLog(e + 1)
        first == (e - LevelStart(lvl)) * BlockPages(lvl)
    IN  first .. first + BlockPages(lvl) - 1

\* The bottom-up pass: a block is FREE when all of it is, and its children are
\* then USED, so what stays FREE are the largest blocks inside the regions.
MarkRegions(pages) ==
    [e \in Nodes |->
        IF /\ PagesOf(e) \subseteq pages
           /\ e # 0 => ~(PagesOf((e - 1) \div 2) \subseteq pages)
        THEN FREE ELSE USED]

\* The states of the nodes are replaced by marks.
WithMarks(b, marks) ==
    [state |-> [e \in Cells |-> IF e \in Nodes THEN marks[e] ELSE b.state[e]],
     next |-> b.next, prev |-> b.prev, free |-> b.free, size |-> b.size]

\* buddy_alloc_init_free_regions: the whole-zone block goes and the regions are marked.
buddy_alloc_init_free_regions(pages) ==
    WithMarks(pop_entry(buddy_alloc_init, 0).m, MarkRegions(pages))

Init ==
    /\ \E pages \in FreeRegions : m = buddy_alloc_init_free_regions(pages)
    /\ live = {}
    /\ call = Call("init", 0, 0, 0, 0)

\* Its last loop: every block that is not USED is pushed, in the order of its offset, on
\* the list its logarithm names; a page has none.  An entry whose state is 2 or 3 would
\* make the loop skip places, but only a page can have one.
PushMarked ==
    LET e      == call.node
        marked == m.state[e] # USED
        lvl    == log2ui(e + 1)
    IN  /\ call.pc = "init" /\ e \in Nodes
        /\ m' = IF marked /\ lvl \in Levels THEN push_entry(m, lvl, e) ELSE m
        /\ call' = IF marked /\ lvl \notin Levels THEN Fault
                   ELSE IF e + 1 \in Nodes THEN Call("init", e + 1, 0, 0, 0) ELSE Idle
        /\ UNCHANGED live

-----------------------------------------------------------------------------
(* alloc_pages.                                                            *)

\* A request that no zone can meet is answered with NULL at once.
AllocRefused(count) ==
    /\ call.pc = "idle"
    /\ round2(count) > 2^Depth \/ round2(count) = 0
    /\ UNCHANGED vars

\* The request for the whole zone reads the list before the first.
alloc_pages(count) ==
    LET lvl == Depth - log2ui(round2(count))
    IN  /\ call.pc = "idle"
        /\ round2(count) <= 2^Depth /\ round2(count) # 0
        /\ call' = IF lvl \in Levels THEN Call("find", m.free[lvl], lvl, 0, round2(count))
                   ELSE Fault
        /\ UNCHANGED <<m, live>>

NoBlock == call.node = ListHead(call.lvl)

\* A round of the first loop: nothing on this level, the one above is popped, and the
\* block will have to be split once more.
FindBlock ==
    LET popped == pop_entry(m, call.lvl - 1)
    IN  /\ call.pc = "find" /\ call.lvl > 0 /\ NoBlock
        /\ m' = popped.m
        /\ call' = Call("find", popped.entry, call.lvl - 1, call.splits + 1, call.want)
        /\ UNCHANGED live

\* No level has a block: NULL.
AllocFails ==
    /\ call.pc = "find" /\ call.lvl = 0 /\ NoBlock
    /\ call' = Idle
    /\ UNCHANGED <<m, live>>

\* A round of the second loop: both halves are pushed and the left one is popped.
SplitBlock ==
    LET e     == call.node
        right == push_entry(m, call.lvl + 1, e * 2 + 2)
        both  == push_entry(right, call.lvl + 1, e * 2 + 1)
        left  == pop_entry(both, call.lvl + 1)
    IN  /\ call.pc = "split" \/ (call.pc = "find" /\ ~NoBlock)
        /\ call.splits > 0
        /\ m' = left.m
        /\ call' = Call("split", left.entry, call.lvl + 1, call.splits - 1, call.want)
        /\ UNCHANGED live

\* The caller gets the address of e and keeps the level that goes with its count, or
\* gets the address of a list head.
HandOut(e) ==
    /\ live' = IF e \in Nodes
               THEN live \cup {[ptr |-> getAddress(e), lvl |-> Depth - log2ui(call.want)]}
               ELSE live
    /\ call' = IF e \in Nodes THEN Idle ELSE Fault

\* The level asked for had a block, which is popped only now.
TakeBlock ==
    LET popped == pop_entry(m, call.lvl)
    IN  /\ call.pc = "find" /\ ~NoBlock /\ call.splits = 0
        /\ m' = popped.m
        /\ HandOut(popped.entry)

\* The block has been split down to the size asked for.
ReturnBlock ==
    /\ call.pc = "split" /\ call.splits = 0
    /\ HandOut(call.node)
    /\ UNCHANGED m

Alloc ==
    \/ \E count \in Counts : AllocRefused(count) \/ alloc_pages(count)
    \/ FindBlock \/ AllocFails \/ SplitBlock \/ TakeBlock \/ ReturnBlock

-----------------------------------------------------------------------------
(* free_pages.                                                             *)

\* offset, cut to 32 bits: the way back from an address to its node.
Offset(ptr, lvl) == (LevelStart(lvl) + (ptr - Start) \div BlockPages(lvl)) % 2^W

\* A caller returns a block it holds, with the level it asked for: a bad pointer or
\* level is refused, otherwise the block is pushed and merging begins.  The check that
\* ptr is page aligned holds of every page number.
free_pages(blk) ==
    /\ call.pc = "idle"
    /\ live' = live \ {blk}
    /\ IF blk.ptr = NULLPTR \/ blk.ptr < Start \/ blk.lvl > Depth
       THEN UNCHANGED <<m, call>>
       ELSE /\ m' = push_entry(m, blk.lvl, Offset(blk.ptr, blk.lvl))
            /\ call' = Call("merge", Offset(blk.ptr, blk.lvl), blk.lvl, 0, 0)

\* The buddy is FREE, and so is the block that has just been pushed.
Mergeable ==
    /\ call.lvl > 0
    /\ m.state[get_buddy(call.node)] # USED /\ m.state[call.node] # USED

\* Slip: one merge instead of as many as possible.
Sliptry_merge ==
    LET removed == remove_entry(m, get_buddy(call.node))
        popped  == pop_entry(removed, call.lvl).m
        parent  == (call.node - 1) \div 2
    IN  /\ call.pc = "merge" /\ Mergeable
        /\ m' = push_entry(popped, call.lvl - 1, parent)
        /\ call' = Idle
        /\ UNCHANGED live

\* A round of try_merge: the buddy is unlinked from wherever it is in its list, the
\* entry just pushed is popped, and the parent is pushed one level up.
try_merge ==
    LET removed == remove_entry(m, get_buddy(call.node))
        popped  == pop_entry(removed, call.lvl).m
        parent  == (call.node - 1) \div 2
    IN  /\ call.pc = "merge" /\ Mergeable
        /\ m' = push_entry(popped, call.lvl - 1, parent)
        /\ call' = Call("merge", parent, call.lvl - 1, 0, 0)
        /\ UNCHANGED live

MergeEnds ==
    /\ call.pc = "merge" /\ ~Mergeable
    /\ call' = Idle
    /\ UNCHANGED <<m, live>>

Free == (\E blk \in live : free_pages(blk)) \/ try_merge \/ MergeEnds

Next == PushMarked \/ Alloc \/ Free

Spec == Init /\ [][Next]_vars

-----------------------------------------------------------------------------
(* The figures the page frame allocator asks for.                          *)


maxBlockReq(b) ==
    LET some == {l \in Levels : b.size[l] # 0}
    IN  IF some = {} THEN 0 ELSE BlockPages(Min(some))

\* The free memory on the levels before l.
MemoryBefore(b) ==
    LET S[l \in 0 .. Depth + 1] ==
            IF l = 0 THEN 0 ELSE S[l - 1] + b.size[l - 1] * BlockPages(l - 1)
    IN  S

freeMemorySize(b) == MemoryBefore(b)[Depth + 1]

\* isBuddyFull: the loop stops before the level of the pages.
isBuddyFull(b) == \A l \in Levels \ {Depth} : b.size[l] = 0

-----------------------------------------------------------------------------
(* Properties.                                                             *)

Running == call.pc # "fault"

Blocks == {e \in Nodes : m.state[e] # USED}
FreePages == UNION {PagesOf(e) : e \in Blocks}

\* The FREE blocks of list l that have been pushed.
FreeNodes(l) ==
    {e \in Blocks : IntegerLog(e + 1) + 1 = l /\ (call.pc = "init" => e < call.node)}

\* Initialisation pushes the whole-zone block on list 0 and, popping it, counts it off
\* list 1: the two counts stay one too high and one too low.
Miscount(l) == CASE l = 0 -> 1 [] l = 1 -> 2^W - 1 [] OTHER -> 0

\* Every variable has its type.
TypeOK ==
    /\ m.state \in [Cells -> States]
    /\ m.next \in [Cells -> Cells] /\ m.prev \in [Cells -> Cells]
    /\ m.free \in [Levels -> Cells] /\ m.size \in [Levels -> Word]
    /\ live \subseteq [ptr : Nat, lvl : Levels]
    /\ call.node \in Cells /\ call.lvl \in Levels /\ call.splits \in 0 .. Depth - call.lvl

\* The state flags, the links, the pointer to the last entry and the count of a
\* list tell one story between any two rounds: prev undoes next, a walk from the head
\* meets exactly the FREE blocks of the list before it comes back, free[l] is its last
\* entry and size[l] its length, but for the miscount of the first two.  try_merge and
\* alloc_pages each read a different one of them.
FreeListsConsistent ==
    \A l \in Levels :
        LET ring == FreeNodes(l) \cup {ListHead(l)}
        IN  /\ \A e \in ring : /\ m.next[e] \in ring /\ m.prev[m.next[e]] = e
                               /\ m.prev[e] \in ring /\ m.next[m.prev[e]] = e
            /\ \A met \in SUBSET ring :
                  (ListHead(l) \in met /\ \A e \in met : m.next[e] \in met) => met = ring
            /\ m.free[l] = m.prev[ListHead(l)]
            /\ m.size[l] = (Cardinality(FreeNodes(l)) + Miscount(l)) % 2^W

\* free_pages merges as far as it can: two buddies are never both FREE, but for the
\* two that are to be merged next.
NoFreeBuddies ==
    \A e \in Nodes \ {0} :
        (m.state[e] # USED /\ m.state[get_buddy(e)] # USED) =>
            call.pc = "merge" /\ call.node \in {e, get_buddy(e)}

\* The tree after any history of alloc_pages and free_pages that has not left its arrays:
\* flags, lists and counts agree, and nothing is left unmerged.
TreeConsistent == Running => TypeOK /\ FreeListsConsistent /\ NoFreeBuddies

\* alloc_pages gives up only when no aligned run of four times that many pages is free,
\* which is what it looks for, or when the zone is free as a whole, which it never
\* splits: after any history of splits and merges there is no other false failure.
AllocComplete ==
    (call.pc = "find" /\ call.lvl = 0 /\ NoBlock) =>
        \/ FreePages = 0 .. 2^Depth - 1
        \/ \A first \in {f \in 0 .. 2^Depth - 1 : f % (4 * call.want) = 0} :
              ~(first .. first + 4 * call.want - 1 \subseteq FreePages)

\* The pages of the block that alloc_pages has popped and not yet handed out.
InFlight ==
    IF call.pc = "split" \/ (call.pc = "find" /\ call.splits > 0 /\ ~NoBlock)
    THEN PagesOf(call.node) ELSE {}

Unowned == FreePages \cup InFlight

\* The pages that the tree gives away with a block: not the ones at its address.
LivePages(blk) == PagesOf(Offset(blk.ptr, blk.lvl))

Abstract == INSTANCE PageAllocSpec WITH
                Pages  <- 0 .. 2^Depth - 1,
                Blocks <- {PagesOf(e) : e \in Nodes},
                free   <- Unowned,
                owned  <- {LivePages(blk) : blk \in live}

\* As far as the tree is concerned, the allocator keeps a page allocator's promise: the
\* pages that go with a block were free, belong to one caller, and come back when the
\* block is freed.
ImplementsPageAlloc == Abstract!Spec

\* The addresses a caller uses: as many pages as it asked for.
Memory(blk) == blk.ptr .. blk.ptr + BlockPages(blk.lvl + 1) - 1

\* Wherever the addresses lead, no two callers are given the same one.
CallersApart == \A a, b \in live : a # b => Memory(a) \cap Memory(b) = {}

\* buddy.h and buddy.c:65 "start + index * blockSize": a block is memory of the zone.
BlocksInZone == \A blk \in live : Memory(blk) \subseteq Start .. Start + 2^Depth - 1

\* The figures the page frame allocator caches after each call (pmm.c:442): the largest
\* block it may ask for, and the free memory.
Accounting ==
    call.pc = "idle" =>
        /\ freeMemorySize(m) = Cardinality(FreePages)
        /\ maxBlockReq(m) = Max({0} \cup {Cardinality(PagesOf(e)) : e \in Blocks})
============================================================================
