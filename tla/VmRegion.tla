------------------------------ MODULE VmRegion ------------------------------
(***************************************************************************)
(* The regions of an address space as items of the AVL tree,               *)
(* include/mem/virt/avl/avl_wrap.h: two comparison callbacks, one that     *)
(* sorts regions for insertion and removal and one that finds the region   *)
(* that starts at an address; and the casts between an item and its links. *)
(***************************************************************************)
EXTENDS AvlTree

CONSTANTS Address,      \* Address[n], the first byte of the region n
          Extent,       \* Extent[n], its size, in pages as vm_region_t says
          PageBytes     \* the bytes of a page

ASSUME RegionAssumption ==
    /\ Address \in [Nodes -> Nat]
    /\ Extent \in [Nodes -> Nat \ {0}]
    /\ PageBytes \in Nat \ {0}

Flag(b) == IF b THEN 1 ELSE 0

\* Slip: a region that starts lower than the other is sorted to the right.
Slipavl_cmp_vm_address(addr, n) ==
    Flag(addr < Address[n]) - Flag(addr > Address[n])

avl_cmp_vm_address(addr, n) ==
    Flag(addr > Address[n]) - Flag(addr < Address[n])

\* The extent, a number of pages, is added to an address as it is.
avl_cmp_vm_sort_region(a, b) ==
    Flag(Address[b] + Extent[b] < Address[a]) - Flag(Address[a] + Extent[a] < Address[b])

\* What avl_tree_lookup finds with the second callback, from the root on.
LookupAddress(tr, addr) ==
    avl_tree_lookup(tr, [n \in Nodes |-> avl_cmp_vm_address(addr, n)])

\* An item is its record and, 24 bytes in, its links.  A pointer is an item, or NULL,
\* and the number of such parts it lies behind the start.
Pointer(item, part) == [item |-> item, part |-> part]

\* insert_node and remove_node cast the address of the root variable: what it holds is
\* a pointer to links.
root_node(tr) == Pointer(tr.root, IF tr.root = NULL THEN 0 ELSE 1)

\* &ptr->node, one part further, of whatever ptr is.
NodeOf(ptr) == Pointer(ptr.item, ptr.part + 1)

\* The search began at no links: what it read as such is unknown.
Astray == -1

\* lookup_by_address takes the links of what already is a pointer to links, or of NULL.
lookup_by_address(tr, addr) ==
    LET from == NodeOf(root_node(tr))
    IN  IF from = Pointer(tr.root, 1) /\ tr.root # NULL THEN LookupAddress(tr, addr)
        ELSE IF from = Pointer(NULL, 0) THEN NULL
        ELSE Astray

-----------------------------------------------------------------------------
(* Properties.                                                             *)

\* A tree sorted by one callback can be searched by the other: avl_tree_lookup, begun at
\* the root, finds the region that starts at the address exactly when there is one.
AddressFound ==
    \A n \in Nodes :
        LET f == LookupAddress(t, Address[n])
        IN  IF \E k \in members : Address[k] = Address[n]
            THEN f \in members /\ Address[f] = Address[n]
            ELSE f = NULL

\* avl_tree_lookup, by region and by address, finds what is there and nothing else.  This
\* is about the search; lookup_by_address begins it elsewhere (WrapperFinds).
LookupsFind == LookupFindsEqual /\ AddressFound

\* vas.h frees "a virtual memory region in the current tree" by "the virtual address of
\* the region": lookup_by_address finds it, or NULL if there is none.
WrapperFinds ==
    \A n \in Nodes :
        LET f == lookup_by_address(t, Address[n])
        IN  IF \E k \in members : Address[k] = Address[n]
            THEN f \in members /\ Address[f] = Address[n]
            ELSE f = NULL

\* vas_alloc accepts a region "if the memory region isn't overlapping with any
\* other regions" (vas.h): the bytes of two regions in the tree are apart.
RegionsDisjoint ==
    \A a, b \in members :
        a # b => \/ Address[a] + Extent[a] * PageBytes <= Address[b]
                 \/ Address[b] + Extent[b] * PageBytes <= Address[a]
=============================================================================
