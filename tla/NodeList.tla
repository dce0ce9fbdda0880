------------------------------ MODULE NodeList ------------------------------
(***************************************************************************)
(* The allocator of tree nodes, source/mem/virt/vas_node_alloc.c: pages    *)
(* from the page frame allocator, cut into nodes, chained by the nextPage  *)
(* field of their headers; the header of the first page also keeps the     *)
(* free list and the counts.  A new page is added as soon as the last node *)
(* is handed out.  Its own nextPage is never written: it keeps what the    *)
(* page held before, here any value, chosen when the list gets the page.   *)
(* Its clearing starts behind the header and has the size of a whole page, *)
(* so it ends in the header of the page that follows.                      *)
(***************************************************************************)
EXTENDS Integers, FiniteSets

CONSTANTS Pages,        \* the numbers of the pages pfa_alloc_page may return
          PerPage       \* the nodes of a page, 63 in the code

ASSUME NodeListAssumption ==
    /\ Pages \subseteq Nat \ {0} /\ IsFiniteSet(Pages)
    /\ PerPage \in Nat \ {0}

VARIABLES head,         \* the header of the first page
          link,         \* the nextPage field of each of its pages
          next,         \* the nextNode field of each of its nodes
          pool,         \* the pages the page frame allocator may hand out
          own,          \* the pages of the list
          out,          \* the nodes handed out and not given back
          wiped,        \* whether a clearing has reached a page of the list
          life          \* "none", "live", "hung", "fault" or "corrupt"

vars == <<head, link, next, pool, own, out, wiped, life>>

NULL == 0
Wild == -1              \* an address that is no page's: what a page's old contents may read as
Links == Pages \cup {NULL, Wild}

NullNode == <<0, 0>>
NodesOf(P) == P \X (1 .. PerPage)
Nodes == NodesOf(Pages)
NoHead == [page |-> NULL, first |-> NullNode, free |-> NullNode, lastPage |-> NULL,
           totalNodes |-> 0, usedNodes |-> 0, totalPages |-> 0]

\* The nodes of the page p, each linked to the one behind it.
Chained(nx, p) ==
    [n \in DOMAIN nx \cup NodesOf({p}) |->
        IF n[1] # p THEN nx[n] ELSE IF n[2] = PerPage THEN NullNode ELSE <<p, n[2] + 1>>]

\* The fields of no page and of no node.
NoLinks == [p \in {} |-> NULL]
NoNodes == [n \in {} |-> NullNode]

-----------------------------------------------------------------------------
Init ==
    /\ head = NoHead
    /\ link = NoLinks /\ next = NoNodes
    /\ pool = Pages /\ own = {}
    /\ out = {}
    /\ wiped = FALSE
    /\ life = "none"

create_node_list(p) ==
    /\ life = "none"
    /\ p \in pool /\ pool' = pool \ {p} /\ own' = own \cup {p}
    /\ head' = [head EXCEPT !.page = p, !.first = <<p, 1>>, !.free = <<p, 1>>,
                            !.totalNodes = PerPage, !.usedNodes = 0, !.totalPages = 1]
    /\ link' = [q \in {p} |-> NULL]
    /\ next' = Chained(next, p)
    /\ life' = "live"
    /\ wiped' = FALSE
    /\ UNCHANGED out

Popped == [head EXCEPT !.free = next[@], !.usedNodes = @ + 1]

\* A node is taken and there are more.
AllocFromPage ==
    /\ life = "live"
    /\ Popped.usedNodes < head.totalNodes
    /\ head' = Popped
    /\ out' = out \cup {head.free}
    /\ UNCHANGED <<link, next, pool, own, wiped, life>>

\* The last page of the list; lastPage is not set before there is a second.
ChainEnd == IF link[head.page] = NULL THEN head.page ELSE head.lastPage

\* Slip: the new page is linked behind the first one, whatever is there.
SlipLinkPage(p) == [link EXCEPT ![head.page] = p]

LinkPage(p) == [link EXCEPT ![ChainEnd] = p]

\* Slip: the last node of the new page is left out of the count.
SlipGrown(p) ==
    [Popped EXCEPT !.lastPage = p, !.free = <<p, 1>>, !.totalNodes = @ + PerPage - 1,
                   !.totalPages = @ + 1]

Grown(p) ==
    [Popped EXCEPT !.lastPage = p, !.free = <<p, 1>>, !.totalNodes = @ + PerPage,
                   !.totalPages = @ + 1]

\* The last node is taken and the page p is added, whose own link reads j.  The clearing
\* reaches the header of page p + 1: the link of a page of the list is lost, and a first
\* page loses lastPage, through which the next store goes.
AllocAndGrow(p, j) ==
    /\ life = "live"
    /\ Popped.usedNodes >= head.totalNodes
    /\ p \in pool /\ pool' = pool \ {p} /\ own' = own \cup {p}
    /\ out' = out \cup {head.free}
    /\ wiped' = (wiped \/ p + 1 \in own)
    /\ link' = [q \in own' |-> IF q = p THEN j ELSE IF q = p + 1 THEN NULL ELSE LinkPage(p)[q]]
    /\ IF head.page = p + 1
       THEN life' = "fault" /\ head' = [NoHead EXCEPT !.page = head.page] /\ UNCHANGED next
       ELSE life' = life /\ head' = Grown(p) /\ next' = Chained(next, p)

\* The last node is taken and pfa_alloc_page, with no page left, does not return.
AllocHangs ==
    /\ life = "live"
    /\ Popped.usedNodes >= head.totalNodes
    /\ pool = {}
    /\ head' = Popped
    /\ life' = "hung"
    /\ UNCHANGED <<link, next, pool, own, out, wiped>>

alloc_node == AllocFromPage \/ (\E p \in Pages, j \in Links : AllocAndGrow(p, j)) \/ AllocHangs

\* Slip: the node given back becomes the whole free list.
Slipfree_node(n) ==
    /\ life = "live" /\ n \in out
    /\ IF head.usedNodes = 0 THEN UNCHANGED <<head, next>>
       ELSE /\ next' = [next EXCEPT ![n] = NullNode]
            /\ head' = [head EXCEPT !.free = n, !.usedNodes = @ - 1]
    /\ out' = out \ {n}
    /\ UNCHANGED <<link, pool, own, wiped, life>>

free_node(n) ==
    /\ life = "live" /\ n \in out
    /\ IF head.usedNodes = 0 THEN UNCHANGED <<head, next>>
       ELSE /\ next' = [next EXCEPT ![n] = head.free]
            /\ head' = [head EXCEPT !.free = n, !.usedNodes = @ - 1]
    /\ out' = out \ {n}
    /\ UNCHANGED <<link, pool, own, wiped, life>>

\* What a walk meets from at on, following nx: the elements of every set that holds
\* at and that nx does not lead out of.
ClosedUnder(S, nx) == \A x \in S : nx[x] \in DOMAIN nx => nx[x] \in S
Met(at, nx) ==
    {x \in DOMAIN nx :
        /\ at \in DOMAIN nx
        /\ \A S \in SUBSET DOMAIN nx : (at \in S /\ ClosedUnder(S, nx)) => x \in S}

\* The pages of the list that are met from its page p on, each link read out of a page
\* that has just been given back.
PagesFrom(p) == Met(p, link)

\* The walk comes to an end without having left the list.
EndsInOwn == \E q \in PagesFrom(head.page) : link[q] = NULL

\* Slip: the page of the head is kept.
Slipdestroy_node_list ==
    /\ life = "live"
    /\ pool' = pool \cup PagesFrom(link[head.page])
    /\ head' = NoHead /\ own' = {} /\ out' = {}
    /\ life' = IF EndsInOwn THEN "none" ELSE "corrupt"
    /\ link' = NoLinks /\ next' = NoNodes /\ UNCHANGED wiped

\* The walk ends at a NULL link, which the last page has only if it held one before.
\* Otherwise it goes on: pages the list does not own, or pages it has given back, are
\* given back to the page frame allocator, or what is no page is.
destroy_node_list ==
    /\ life = "live"
    /\ pool' = pool \cup PagesFrom(head.page)
    /\ head' = NoHead /\ own' = {} /\ out' = {}
    /\ life' = IF EndsInOwn THEN "none" ELSE "corrupt"
    /\ link' = NoLinks /\ next' = NoNodes /\ UNCHANGED wiped

Next ==
    \/ \E p \in Pages : create_node_list(p)
    \/ alloc_node
    \/ \E n \in Nodes : free_node(n)
    \/ destroy_node_list

Spec == Init /\ [][Next]_vars

-----------------------------------------------------------------------------
(* Properties.                                                             *)

TypeOK ==
    /\ head.page \in Pages \cup {NULL} /\ head.lastPage \in Pages \cup {NULL}
    /\ head.free \in Nodes \cup {NullNode}
    /\ head.totalPages \in 0 .. Cardinality(Pages)
    /\ head.totalNodes = PerPage * head.totalPages
    /\ head.usedNodes \in 0 .. head.totalNodes
    /\ link \in [own -> Links]
    /\ life # "fault" => next \in [NodesOf(own) -> NodesOf(own) \cup {NullNode}]
    /\ pool \subseteq Pages /\ own \subseteq Pages /\ pool \cap own = {} /\ out \subseteq Nodes
    /\ wiped \in BOOLEAN
    /\ life \in {"none", "live", "hung", "fault", "corrupt"}

FreeChain == Met(head.free, next)

\* Across every page boundary the free list holds exactly the nodes of the list's
\* pages that are not handed out, each once, and the counts say so; it is never
\* empty between two calls, for alloc_node follows head->free without asking, and it
\* ends: an end among what a walk meets leaves no room for a loop.
FreeChainExact ==
    life = "live" =>
        /\ FreeChain = NodesOf(own) \ out
        /\ \E n \in FreeChain : next[n] = NullNode
        /\ Cardinality(FreeChain) = head.totalNodes - head.usedNodes
        /\ Cardinality(out) = head.usedNodes
        /\ Cardinality(own) = head.totalPages

\* Until the clearing of a new page reaches one that the list has, the chain of nextPage
\* links from the head meets every page of the list, whatever stands behind the last one.
PageChainComplete == (life = "live" /\ ~wiped) => own \subseteq PagesFrom(head.page)

\* After any history of alloc_node and free_node, over pages with any old contents and
\* next to one another or not, the head's counts and the chain of free nodes say what
\* the list has; the chain of pages has every page of it until a clearing cuts it.
ChainsExact == TypeOK /\ FreeChainExact /\ PageChainComplete

\* destroy_node_list gives back every page of a list that no clearing has cut, the head's
\* included, even where the walk then goes on beyond the last page.
DestroyReturnsAll ==
    [][(life = "live" /\ life' \in {"none", "corrupt"} /\ ~wiped) => own \subseteq pool']_vars

\* What vas_node_alloc.h says: destroy_node_list "frees all the pages that were allocated
\* in the vas_nodelist allocator, including the list_head": these, and no others.
DestroyReturnsOwn ==
    [][(life = "live" /\ life' \in {"none", "corrupt"})
            => life' = "none" /\ own \subseteq pool']_vars
=============================================================================
