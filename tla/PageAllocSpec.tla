---------------------------- MODULE PageAllocSpec ----------------------------
(***************************************************************************)
(* What a page allocator promises its callers: a block it hands out is a   *)
(* naturally aligned run of a power of two of pages that nobody else owns, *)
(* and the pages come back only when their owner returns the block.        *)
(***************************************************************************)
EXTENDS Naturals

CONSTANTS Pages,        \* page numbers of the zone
          Blocks        \* the aligned power-of-two runs of pages

VARIABLES free,         \* the pages nobody owns
          owned         \* the blocks that have been handed out

Init == free \subseteq Pages /\ owned = {}

Take(b) ==
    /\ b \subseteq free
    /\ free' = free \ b
    /\ owned' = owned \cup {b}

Give(b) ==
    /\ b \in owned
    /\ free' = free \cup b
    /\ owned' = owned \ {b}

Next == \E b \in Blocks : Take(b) \/ Give(b)

Spec == Init /\ [][Next]_<<free, owned>>
=============================================================================
