-------------------------- MODULE StructureProofs ---------------------------
(***************************************************************************)
(* The proofs about the two structures other code shares: the spinlock,    *)
(* which many CPUs take at once, and the node lists of the allocators.     *)
(***************************************************************************)
EXTENDS Spinlock, NodeList, FiniteSetTheorems, WellFoundedInduction, TLAPS

-----------------------------------------------------------------------------
(***************************************************************************)
(* Safety of the spinlock for every set of CPUs.                           *)
(***************************************************************************)

\* The initial state satisfies the inductive invariant.
LEMMA InitIInv == SpinlockInit => IInv
  BY DEF SpinlockInit, IInv, SpinlockTypeOK, PCs, MutualExclusion, FlagMeansHeld, Holds,
         ReleaseExpectsTrue

\* Every atomic access of lock, try_lock and unlock preserves the inductive
\* invariant.
LEMMA StepIInv == IInv /\ [SpinlockNext]_SpinlockVars => IInv'
  <1> SUFFICES ASSUME IInv, [SpinlockNext]_SpinlockVars PROVE IInv'
    OBVIOUS
  <1> USE DEF IInv, SpinlockTypeOK, PCs, MutualExclusion, FlagMeansHeld, Holds,
              ReleaseExpectsTrue, Goto
  <1>1. ASSUME NEW c \in CPUs, EnterLock(c) PROVE IInv'
    BY <1>1 DEF EnterLock
  <1>2. ASSUME NEW c \in CPUs, LockExchange(c) PROVE IInv'
    <2>1. CASE flag
      BY <1>2, <2>1 DEF LockExchange
    <2>2. CASE ~flag
      BY <1>2, <2>2 DEF LockExchange
    <2> QED BY <2>1, <2>2
  <1>3. ASSUME NEW c \in CPUs, LockSpin(c) PROVE IInv'
    BY <1>3 DEF LockSpin
  <1>4. ASSUME NEW c \in CPUs, TryLoad(c) PROVE IInv'
    BY <1>4 DEF TryLoad
  <1>5. ASSUME NEW c \in CPUs, TryExchange(c) PROVE IInv'
    <2>1. CASE flag
      BY <1>5, <2>1 DEF TryExchange
    <2>2. CASE ~flag
      BY <1>5, <2>2 DEF TryExchange
    <2> QED BY <2>1, <2>2
  <1>6. ASSUME NEW c \in CPUs, UnlockLoad(c) PROVE IInv'
    BY <1>6 DEF UnlockLoad
  <1>7. ASSUME NEW c \in CPUs, UnlockCmpxchg(c) PROVE IInv'
    BY <1>7 DEF UnlockCmpxchg
  <1>8. CASE UNCHANGED SpinlockVars
    BY <1>8 DEF SpinlockVars
  <1> QED
    BY <1>1, <1>2, <1>3, <1>4, <1>5, <1>6, <1>7, <1>8 DEF SpinlockNext, Step

\* The inductive invariant holds in every reachable state of lock.h.
THEOREM SpinlockInvariant == SpinlockSpec => []IInv
  BY InitIInv, StepIInv, PTL DEF SpinlockSpec

\* lock.h: only one thread is inside, for any number of CPUs mixing lock,
\* try_lock and unlock.
THEOREM SpinlockMutualExclusion == SpinlockSpec => []MutualExclusion
  BY SpinlockInvariant, PTL DEF IInv

\* lock.h: the flag is set exactly while the lock is held.
THEOREM SpinlockFlag == SpinlockSpec => []FlagMeansHeld
  BY SpinlockInvariant, PTL DEF IInv

\* lock.h implements the abstract lock of LockSpec.
THEOREM SpinlockRefinement == SpinlockSpec => ImplementsLock
  <1> DEFINE H == {c \in CPUs : Holds(c)}
  <1>1. SpinlockInit => Abstract!Init
    BY DEF SpinlockInit, Abstract!Init, Holds
  <1>2. IInv /\ IInv' /\ [SpinlockNext]_SpinlockVars => [Abstract!Next]_H
    <2> SUFFICES ASSUME IInv, IInv', [SpinlockNext]_SpinlockVars
                 PROVE  Abstract!Next \/ H' = H
      OBVIOUS
    <2> USE DEF IInv, SpinlockTypeOK, PCs, MutualExclusion, FlagMeansHeld, Holds, Goto
    <2>1. ASSUME NEW c \in CPUs, EnterLock(c) PROVE H' = H
      BY <2>1 DEF EnterLock
    <2>2. ASSUME NEW c \in CPUs, LockExchange(c) \/ TryExchange(c)
          PROVE  Abstract!Acquire(c) \/ H' = H
      <3>1. CASE flag
        BY <2>2, <3>1 DEF LockExchange, TryExchange
      <3>2. CASE ~flag
        BY <2>2, <3>2 DEF LockExchange, TryExchange, Abstract!Acquire
      <3> QED BY <3>1, <3>2
    <2>3. ASSUME NEW c \in CPUs, LockSpin(c) \/ TryLoad(c) \/ UnlockLoad(c)
          PROVE  H' = H
      BY <2>3 DEF LockSpin, TryLoad, UnlockLoad
    <2>4. ASSUME NEW c \in CPUs, UnlockCmpxchg(c) PROVE Abstract!Release(c)
      BY <2>4 DEF UnlockCmpxchg, Abstract!Release
    <2>5. CASE UNCHANGED SpinlockVars
      BY <2>5 DEF SpinlockVars
    <2> QED
      BY <2>1, <2>2, <2>3, <2>4, <2>5 DEF SpinlockNext, Step, Abstract!Next
  <1> QED
    BY <1>1, <1>2, SpinlockInvariant, PTL
       DEF SpinlockSpec, ImplementsLock, Abstract!Spec

-----------------------------------------------------------------------------
(***************************************************************************)
(* For every number of nodes in a page, any pages and old contents: the    *)
(* chain of free nodes of a node list never loses an element, meets a      *)
(* foreign one or loops; its chain of pages has all of them until the      *)
(* clearing of a page cuts it, and destroying the list gives them back.    *)
(***************************************************************************)

-----------------------------------------------------------------------------
(* Chains.  A walk from at along nx meets the elements of F, each once,    *)
(* and ends.                                                               *)

IsChain(at, nx, F) ==
    /\ F \subseteq DOMAIN nx /\ at \in F
    /\ ClosedUnder(F, nx)
    /\ \A S \in SUBSET DOMAIN nx : (at \in S /\ ClosedUnder(S, nx)) => F \subseteq S
    /\ \A a, b \in F : nx[a] = nx[b] => a = b
    /\ \A a \in F : nx[a] # at
    /\ \E e \in F : nx[e] \notin DOMAIN nx

\* A walk along a chain meets what the chain holds.
LEMMA ChainMet ==
    ASSUME NEW at, NEW nx, NEW F, IsChain(at, nx, F)
    PROVE  Met(at, nx) = F
BY Zenon DEF IsChain, Met

\* Without its first element a chain of several is a chain.
LEMMA ChainPop ==
    ASSUME NEW at, NEW nx, NEW F, IsChain(at, nx, F), F # {at}
    PROVE  nx[at] \in F /\ nx[at] # at /\ IsChain(nx[at], nx, F \ {at})
<1> DEFINE D == DOMAIN nx
           G == F \ {at}
<1>1. nx[at] \in F
  <2>1. SUFFICES ASSUME nx[at] \notin F PROVE FALSE
    OBVIOUS
  <2>2. {at} \in SUBSET D /\ ClosedUnder({at}, nx)
    BY <2>1 DEF IsChain, ClosedUnder
  <2> QED
    BY <2>2 DEF IsChain
<1>2. nx[at] # at /\ nx[at] \in G /\ G \subseteq D
  BY <1>1 DEF IsChain
<1>3. ClosedUnder(G, nx)
  BY DEF IsChain, ClosedUnder
<1>4. ASSUME NEW S \in SUBSET D, nx[at] \in S, ClosedUnder(S, nx)
      PROVE  G \subseteq S
  <2>1. ClosedUnder(S \cup {at}, nx) /\ S \cup {at} \in SUBSET D
    BY <1>4 DEF IsChain, ClosedUnder
  <2> QED
    BY <2>1 DEF IsChain
<1>5. \A a, b \in G : nx[a] = nx[b] => a = b
  BY DEF IsChain
<1>6. \A a \in G : nx[a] # nx[at]
  BY DEF IsChain
<1>7. \E e \in G : nx[e] \notin D
  BY <1>1 DEF IsChain
<1> QED
  BY <1>1, <1>2, <1>3, <1>4, <1>5, <1>6, <1>7, Zenon DEF IsChain

\* An element put in front of a chain makes a chain.
LEMMA ChainPush ==
    ASSUME NEW at, NEW nx, NEW F, NEW n \in DOMAIN nx, IsChain(at, nx, F), n \notin F
    PROVE  IsChain(n, [nx EXCEPT ![n] = at], F \cup {n})
<1> DEFINE D == DOMAIN nx
           ny == [nx EXCEPT ![n] = at]
           G == F \cup {n}
<1>1. /\ DOMAIN ny = D /\ ny[n] = at /\ \A x \in D : x # n => ny[x] = nx[x]
      /\ at \in F /\ at \in D /\ F \subseteq D
  BY DEF IsChain
<1> HIDE DEF ny
<1>2. G \subseteq D /\ n \in G
  BY <1>1
<1>3. ClosedUnder(G, ny)
  BY <1>1 DEF IsChain, ClosedUnder
<1>4. ASSUME NEW S \in SUBSET D, n \in S, ClosedUnder(S, ny)
      PROVE  G \subseteq S
  <2>1. at \in S \cap F
    BY <1>1, <1>4 DEF ClosedUnder
  <2>2. ClosedUnder(S \cap F, nx)
    BY <1>1, <1>4 DEF IsChain, ClosedUnder
  <2>3. S \cap F \in SUBSET D
    BY <1>1
  <2>4. F \subseteq S \cap F
    BY <2>1, <2>2, <2>3, Zenon DEF IsChain
  <2> QED
    BY <1>4, <2>4
<1>5. \A a, b \in G : ny[a] = ny[b] => a = b
  BY <1>1 DEF IsChain
<1>6. \A a \in G : ny[a] # n
  BY <1>1 DEF IsChain, ClosedUnder
<1>7. \E e \in G : ny[e] \notin D
  BY <1>1 DEF IsChain
<1>8. IsChain(n, ny, G)
  BY <1>1, <1>2, <1>3, <1>4, <1>5, <1>6, <1>7, Zenon DEF IsChain
<1> QED
  BY <1>8 DEF ny

\* What holds of 1 and passes to the next number holds up to n.
LEMMA UpTo ==
    ASSUME NEW n \in Nat, NEW S, 1 \in S, \A i \in 1 .. n : (i < n /\ i \in S) => i + 1 \in S
    PROVE  \A i \in 1 .. n : i \in S
<1> DEFINE B == {i \in 1 .. n : i \notin S}
           R == OpToRel(<, Nat)
<1> SUFFICES ASSUME B # {} PROVE FALSE
  OBVIOUS
<1>1. B \in SUBSET Nat
  OBVIOUS
<1>2. PICK m \in B : \A y \in B : ~(<<y, m>> \in R)
  BY <1>1, NatLessThanWellFounded, WFMin, Zenon
<1>3. \A y \in B : ~(y < m)
  BY <1>1, <1>2, Zenon DEF OpToRel
<1>4. m \in 1 .. n /\ m # 1 /\ m \notin S
  BY <1>2
<1>5. m - 1 \in 1 .. n /\ m - 1 < n /\ m - 1 < m /\ (m - 1) + 1 = m
  BY <1>4
<1>6. m - 1 \in S
  BY <1>3, <1>5
<1> QED
  BY <1>4, <1>5, <1>6

PageNodes(p) == NodesOf({p})

\* The nodes of a fresh page, linked one to the next, are a chain from the first.
LEMMA ChainPage ==
    ASSUME NEW P \in SUBSET Pages, NEW p \in Pages,
           next \in [NodesOf(P) -> NodesOf(P) \cup {NullNode}]
    PROVE  /\ Chained(next, p) \in [NodesOf(P \cup {p}) -> NodesOf(P \cup {p}) \cup {NullNode}]
           /\ IsChain(<<p, 1>>, Chained(next, p), PageNodes(p))
           /\ IsFiniteSet(PageNodes(p)) /\ Cardinality(PageNodes(p)) = PerPage
<1> DEFINE nx == Chained(next, p)
           F == PageNodes(p)
           D == NodesOf(P \cup {p})
<1>1. /\ Pages \subseteq Nat \ {0} /\ PerPage \in Nat /\ PerPage > 0 /\ NullNode \notin Nodes
      /\ F \subseteq Nodes /\ F \subseteq D /\ D \subseteq Nodes /\ NullNode \notin D
  <2>1. Pages \subseteq Nat \ {0} /\ PerPage \in Nat /\ PerPage > 0
    BY NodeListAssumption
  <2>2. F \subseteq Nodes /\ F \subseteq D /\ D \subseteq Nodes
    BY DEF Nodes, NodesOf, PageNodes
  <2>3. NullNode \notin Nodes
    BY <2>1 DEF Nodes, NodesOf, NullNode
  <2> QED
    BY <2>1, <2>2, <2>3
<1>2. /\ DOMAIN nx = D
      /\ \A n \in D : nx[n] = IF n[1] # p THEN next[n]
                               ELSE IF n[2] = PerPage THEN NullNode ELSE <<p, n[2] + 1>>
  <2>1. DOMAIN next \cup NodesOf({p}) = D
    BY DEF NodesOf
  <2> QED
    BY <2>1, Zenon DEF Chained
<1>3. /\ \A i \in 1 .. PerPage : <<p, i>> \in F /\ <<p, i>> \in D
      /\ \A n \in F : \E i \in 1 .. PerPage : n = <<p, i>>
  BY DEF PageNodes, NodesOf
<1>4. /\ \A i \in 1 .. PerPage : i < PerPage => nx[<<p, i>>] = <<p, i + 1>>
      /\ nx[<<p, PerPage>>] = NullNode
  <2> HIDE DEF nx, D, F
  <2>1. PerPage \in 1 .. PerPage
    BY <1>1
  <2> QED
    BY <1>2, <1>3, <2>1
<1>5. nx \in [D -> D \cup {NullNode}]
  <2>1. ASSUME NEW n \in D PROVE nx[n] \in D \cup {NullNode}
    <3>1. CASE n[1] # p
      <4>1. n \in NodesOf(P) /\ NodesOf(P) \subseteq D
        BY <3>1 DEF NodesOf
      <4> QED
        BY <1>2, <3>1, <4>1
    <3>2. CASE n[1] = p
      <4>1. n[2] \in 1 .. PerPage
        BY DEF NodesOf
      <4>2. n[2] = PerPage \/ <<p, n[2] + 1>> \in D
        BY <1>1, <4>1 DEF NodesOf
      <4> HIDE DEF nx, D
      <4> QED
        BY <1>2, <3>2, <4>2
    <3> QED
      BY <3>1, <3>2
  <2> QED
    BY <1>2, <2>1 DEF Chained
<1> HIDE DEF nx, D
<1>6. F \subseteq DOMAIN nx /\ <<p, 1>> \in F
  BY <1>1, <1>2, <1>3
<1>7. \A i \in 1 .. PerPage : (i < PerPage /\ i + 1 \in 1 .. PerPage) \/ i = PerPage
  BY <1>1
<1>8. ClosedUnder(F, nx)
  <2>1. ASSUME NEW i \in 1 .. PerPage, nx[<<p, i>>] \in D PROVE nx[<<p, i>>] \in F
    BY <1>1, <1>3, <1>4, <1>7, <2>1
  <2> QED
    BY <1>2, <1>3, <2>1 DEF ClosedUnder
<1>9. ASSUME NEW S \in SUBSET D, <<p, 1>> \in S, ClosedUnder(S, nx)
      PROVE  F \subseteq S
  <2> DEFINE I == {i \in 1 .. PerPage : <<p, i>> \in S}
  <2>1. ASSUME NEW i \in 1 .. PerPage, i < PerPage, <<p, i>> \in S
        PROVE  <<p, i + 1>> \in S /\ i + 1 \in 1 .. PerPage
    <3>1. i + 1 \in 1 .. PerPage /\ nx[<<p, i>>] = <<p, i + 1>>
      BY <1>1, <1>4, <2>1
    <3> QED
      BY <1>2, <1>3, <1>9, <2>1, <3>1 DEF ClosedUnder
  <2>2. 1 \in I /\ \A i \in 1 .. PerPage : (i < PerPage /\ i \in I) => i + 1 \in I
    BY <1>1, <1>9, <2>1
  <2> HIDE DEF I
  <2>3. \A i \in 1 .. PerPage : i \in I
    BY <1>1, <2>2, UpTo
  <2> QED
    BY <1>3, <2>3 DEF I
<1>10. \A a, b \in F : nx[a] = nx[b] => a = b
  <2>1. ASSUME NEW i \in 1 .. PerPage, NEW j \in 1 .. PerPage, nx[<<p, i>>] = nx[<<p, j>>]
        PROVE  i = j
    <3>1. CASE i = PerPage \/ j = PerPage
      <4>1. \A k \in 1 .. PerPage : k < PerPage => nx[<<p, k>>] # NullNode
        BY <1>1, <1>3, <1>4, <1>7
      <4> QED
        BY <1>4, <1>7, <2>1, <3>1, <4>1
    <3>2. CASE i < PerPage /\ j < PerPage
      <4>1. <<p, i + 1>> = <<p, j + 1>>
        BY <1>4, <2>1, <3>2
      <4> QED
        BY <4>1
    <3> QED
      BY <1>7, <3>1, <3>2
  <2> QED
    BY <1>3, <2>1
<1>11. \A a \in F : nx[a] # <<p, 1>>
  <2>1. ASSUME NEW i \in 1 .. PerPage, nx[<<p, i>>] = <<p, 1>> PROVE FALSE
    <3>1. CASE i = PerPage
      BY <1>1, <1>3, <1>4, <2>1, <3>1
    <3>2. CASE i < PerPage
      <4>1. <<p, i + 1>> = <<p, 1>>
        BY <1>4, <2>1, <3>2
      <4> QED
        BY <4>1
    <3> QED
      BY <1>7, <3>1, <3>2
  <2> QED
    BY <1>3, <2>1
<1>12. \E e \in F : nx[e] \notin DOMAIN nx
  <2>1. PerPage \in 1 .. PerPage
    BY <1>1
  <2> QED
    BY <1>1, <1>2, <1>3, <1>4, <2>1
<1>13. IsChain(<<p, 1>>, nx, F)
  BY <1>2, <1>6, <1>8, <1>9, <1>10, <1>11, <1>12, Zenon DEF IsChain
<1>14. IsFiniteSet(F) /\ Cardinality(F) = PerPage
  <2>1. IsFiniteSet({p}) /\ Cardinality({p}) = 1
    BY FS_Singleton
  <2>2. IsFiniteSet(1 .. PerPage) /\ Cardinality(1 .. PerPage) = PerPage
    BY <1>1, FS_Interval
  <2> DEFINE X == {p} \X (1 .. PerPage)
  <2>3. IsFiniteSet(X) /\ Cardinality(X) = Cardinality({p}) * Cardinality(1 .. PerPage)
    BY <2>1, <2>2, FS_Product
  <2>4. F = X
    BY DEF PageNodes, NodesOf
  <2> HIDE DEF F, X
  <2>5. IsFiniteSet(F) /\ Cardinality(F) = 1 * PerPage
    BY <2>1, <2>2, <2>3, <2>4
  <2> QED
    BY <1>1, <2>5
<1> QED
  BY <1>5, <1>13, <1>14 DEF nx, D

-----------------------------------------------------------------------------
(* The invariant.                                                          *)

Heads == [page : Pages \cup {NULL}, first : Nodes \cup {NullNode}, free : Nodes \cup {NullNode},
          lastPage : Pages \cup {NULL}, totalNodes : Nat, usedNodes : Nat, totalPages : Nat]

FreeNodes == NodesOf(own) \ out

Shape ==
    /\ head \in Heads
    /\ head.totalNodes = PerPage * head.totalPages /\ head.usedNodes <= head.totalNodes
    /\ head.totalPages <= Cardinality(Pages)
    /\ link \in [own -> Links]
    /\ life # "fault" => next \in [NodesOf(own) -> NodesOf(own) \cup {NullNode}]
    /\ pool \subseteq Pages /\ own \subseteq Pages /\ pool \cap own = {} /\ out \subseteq Nodes
    /\ wiped \in BOOLEAN
    /\ life \in {"none", "live", "hung", "fault", "corrupt"}

\* The free list is a chain of what is not handed out, and the counts say how much.
FreeList ==
    /\ IsChain(head.free, next, FreeNodes)
    /\ IsFiniteSet(FreeNodes) /\ Cardinality(FreeNodes) = head.totalNodes - head.usedNodes
    /\ IsFiniteSet(out) /\ Cardinality(out) = head.usedNodes
    /\ \A n \in out : n[1] \in own

\* The links lead out of S from the page e at most.
ClosedBut(S, e) == \A x \in S : (x # e /\ link[x] \in own) => link[x] \in S

\* The next page will be linked behind a page of the list.  Until a clearing cuts it,
\* every other page of it leads to one of its own, and a walk from the head that stops
\* there has met them all.
PageList ==
    /\ Cardinality(own) = head.totalPages
    /\ head.page \in own /\ ChainEnd \in own
    /\ ~wiped =>
        /\ \A x \in own : x # ChainEnd => link[x] \in own
        /\ \A S \in SUBSET own : (head.page \in S /\ ClosedBut(S, ChainEnd)) => own \subseteq S

NodeListInv ==
    /\ Shape
    /\ life = "none" => own = {} /\ out = {}
    /\ life = "live" => FreeList /\ PageList

\* What the assumption says, apart.
LEMMA Constants ==
    /\ Pages \subseteq Nat \ {0} /\ IsFiniteSet(Pages) /\ Cardinality(Pages) \in Nat
    /\ PerPage \in Nat /\ PerPage > 0 /\ NULL \notin Pages /\ NullNode \notin Nodes
BY NodeListAssumption, FS_CardinalityType DEF NULL, NullNode, Nodes, NodesOf

\* Before any list there is nothing to go wrong.
LEMMA InitHolds == Init => NodeListInv
<1> SUFFICES ASSUME Init PROVE NodeListInv
  OBVIOUS
<1>1. NoHead \in Heads /\ NoHead.totalNodes = 0 /\ NoHead.usedNodes = 0 /\ NoHead.totalPages = 0
  BY DEF NoHead, Heads
<1>2. NoLinks \in [{} -> Links] /\ NoNodes \in [NodesOf({}) -> NodesOf({}) \cup {NullNode}]
  BY DEF NoLinks, NoNodes, NodesOf
<1>3. PerPage * 0 = 0 /\ 0 <= Cardinality(Pages)
  BY Constants
<1>4. Shape
  <2>1. /\ head \in Heads /\ head.totalNodes = PerPage * head.totalPages
        /\ head.usedNodes <= head.totalNodes /\ head.totalPages <= Cardinality(Pages)
    BY <1>1, <1>3 DEF Init
  <2>2. link \in [own -> Links] /\ next \in [NodesOf(own) -> NodesOf(own) \cup {NullNode}]
    BY <1>2 DEF Init
  <2> QED
    BY <2>1, <2>2 DEF Init, Shape
<1> QED
  BY <1>4 DEF Init, NodeListInv

\* The pages in use are finitely many.
LEMMA OwnFinite ==
    ASSUME Shape
    PROVE  IsFiniteSet(own) /\ Cardinality(own) <= Cardinality(Pages)
<1>1. own \in SUBSET Pages
  BY DEF Shape
<1> QED
  BY <1>1, Constants, FS_Subset

\* A list of one page: its nodes are free and it is its own end.
LEMMA CreateKeeps ==
    ASSUME NodeListInv, NEW p \in Pages, create_node_list(p)
    PROVE  NodeListInv'
<1>1. /\ life = "none" /\ p \in pool /\ pool' = pool \ {p} /\ own' = own \cup {p}
      /\ link' = [q \in {p} |-> NULL] /\ next' = Chained(next, p)
      /\ life' = "live" /\ out' = out /\ wiped' = FALSE
  BY DEF create_node_list
<1>2. own = {} /\ out = {} /\ Shape
  BY <1>1 DEF NodeListInv
<1>3. /\ head' \in Heads /\ head'.page = p /\ head'.free = <<p, 1>>
      /\ head'.totalNodes = PerPage /\ head'.usedNodes = 0 /\ head'.totalPages = 1
  <2> DEFINE Upd(r) == [r EXCEPT !.page = p, !.first = <<p, 1>>, !.free = <<p, 1>>,
                                 !.totalNodes = PerPage, !.usedNodes = 0, !.totalPages = 1]
  <2>1. <<p, 1>> \in Nodes
    BY Constants DEF Nodes, NodesOf
  <2>2. ASSUME NEW r \in Heads
        PROVE  /\ Upd(r) \in Heads /\ Upd(r).page = p /\ Upd(r).free = <<p, 1>>
               /\ Upd(r).totalNodes = PerPage /\ Upd(r).usedNodes = 0 /\ Upd(r).totalPages = 1
    BY <2>1, Constants DEF Heads
  <2>3. head' = Upd(head)
    BY DEF create_node_list
  <2>4. head \in Heads
    BY DEF NodeListInv, Shape
  <2> HIDE DEF Upd
  <2> QED
    BY <2>2, <2>3, <2>4
<1>4. /\ next' \in [NodesOf(own') -> NodesOf(own') \cup {NullNode}]
      /\ IsChain(<<p, 1>>, next', PageNodes(p))
      /\ IsFiniteSet(PageNodes(p)) /\ Cardinality(PageNodes(p)) = PerPage
  <2>1. own \in SUBSET Pages /\ next \in [NodesOf(own) -> NodesOf(own) \cup {NullNode}]
    BY <1>1, <1>2 DEF Shape
  <2> QED
    BY <1>1, <2>1, ChainPage
<1>5. own' = {p} /\ FreeNodes' = PageNodes(p)
  BY <1>1, <1>2 DEF FreeNodes, PageNodes
<1>6. link' \in [own' -> Links] /\ link'[p] = NULL
  BY <1>1, <1>5 DEF Links
<1>7. Cardinality({p}) = 1 /\ 1 <= Cardinality(Pages)
  <2>1. {p} \in SUBSET Pages
    OBVIOUS
  <2> QED
    BY <2>1, Constants, FS_Singleton, FS_Subset
<1>8. Shape'
  <2>1. PerPage \in Nat /\ PerPage * 1 = PerPage /\ 0 <= PerPage
    BY Constants
  <2>2. pool' \subseteq Pages /\ own' \subseteq Pages /\ pool' \cap own' = {} /\ out' \subseteq Nodes
    BY <1>1, <1>2, <1>5 DEF Shape
  <2> QED
    BY <1>1, <1>3, <1>4, <1>6, <1>7, <2>1, <2>2 DEF Shape
<1>9. FreeList'
  <2>1. Cardinality({}) = 0 /\ IsFiniteSet({})
    BY FS_EmptySet
  <2> QED
    BY <1>1, <1>2, <1>3, <1>4, <1>5, <2>1, Constants DEF FreeList
<1>10. PageList'
  <2>1. ChainEnd' = p
    BY <1>3, <1>6 DEF ChainEnd
  <2> QED
    BY <1>3, <1>5, <1>7, <2>1 DEF PageList
<1> QED
  BY <1>1, <1>8, <1>9, <1>10 DEF NodeListInv

\* The list is never empty between two calls: there is a node to hand out.
LEMMA LiveHead ==
    ASSUME NodeListInv, life = "live"
    PROVE  /\ Shape /\ FreeList /\ PageList
           /\ head.free \in FreeNodes /\ head.free \in Nodes /\ head.free[1] \in own
           /\ head.free \notin out /\ head.usedNodes + 1 <= head.totalNodes
           /\ head.page \in own /\ head.page \in Pages
           /\ head.totalNodes \in Nat /\ head.usedNodes \in Nat /\ head.totalPages \in Nat
           /\ head.usedNodes + 1 >= head.totalNodes => FreeNodes = {head.free}
<1>1. Shape /\ FreeList /\ PageList
  BY DEF NodeListInv
<1>2. head.free \in FreeNodes /\ head.page \in own
  BY <1>1, Zenon DEF FreeList, PageList, IsChain
<1>3. head.free \in Nodes /\ head.free[1] \in own /\ head.free \notin out /\ head.page \in Pages
  BY <1>1, <1>2 DEF FreeNodes, Shape, NodesOf, Nodes
<1>4. head.totalNodes \in Nat /\ head.usedNodes \in Nat /\ head.totalPages \in Nat
  BY <1>1 DEF Shape, Heads
<1>5. IsFiniteSet(FreeNodes) /\ Cardinality(FreeNodes) = head.totalNodes - head.usedNodes
  BY <1>1 DEF FreeList
<1>6. Cardinality(FreeNodes) # 0 /\ Cardinality(FreeNodes) \in Nat
  BY <1>2, <1>5, FS_EmptySet, FS_CardinalityType
<1>7. ASSUME head.usedNodes + 1 >= head.totalNodes PROVE FreeNodes = {head.free}
  <2>1. Cardinality(FreeNodes) = 1
    BY <1>4, <1>5, <1>6, <1>7
  <2>2. \E x : FreeNodes = {x}
    BY <1>5, <2>1, FS_Singleton
  <2> QED
    BY <1>2, <2>2
<1> QED
  BY <1>1, <1>2, <1>3, <1>4, <1>5, <1>6, <1>7

\* Taking the first free node.
LEMMA PoppedHead ==
    ASSUME NodeListInv, life = "live"
    PROVE  /\ Popped \in Heads /\ Popped.free = next[head.free]
           /\ Popped.usedNodes = head.usedNodes + 1 /\ Popped.page = head.page
           /\ Popped.lastPage = head.lastPage /\ Popped.totalNodes = head.totalNodes
           /\ Popped.totalPages = head.totalPages
<1> DEFINE Upd(r, f, u) == [r EXCEPT !.free = f, !.usedNodes = u]
<1>1. ASSUME NEW r \in Heads, NEW f \in Nodes \cup {NullNode}, NEW u \in Nat
      PROVE  /\ Upd(r, f, u) \in Heads /\ Upd(r, f, u).free = f
             /\ Upd(r, f, u).usedNodes = u /\ Upd(r, f, u).page = r.page
             /\ Upd(r, f, u).lastPage = r.lastPage /\ Upd(r, f, u).totalNodes = r.totalNodes
             /\ Upd(r, f, u).totalPages = r.totalPages
  BY DEF Heads
<1>2. head \in Heads /\ next[head.free] \in Nodes \cup {NullNode} /\ head.usedNodes + 1 \in Nat
  <2>1. head.free \in NodesOf(own)
    BY LiveHead DEF FreeNodes
  <2>2. next[head.free] \in NodesOf(own) \cup {NullNode} /\ own \subseteq Pages
    BY <2>1, LiveHead DEF Shape
  <2>3. NodesOf(own) \subseteq Nodes
    BY <2>2 DEF Nodes, NodesOf
  <2> QED
    BY <2>2, <2>3, LiveHead DEF Shape
<1>3. Popped = Upd(head, next[head.free], head.usedNodes + 1)
  BY <1>2 DEF Popped, Heads
<1> HIDE DEF Upd
<1> QED
  BY <1>1, <1>2, <1>3

\* One node less in the free list, one more handed out.
LEMMA PopKeeps ==
    ASSUME NodeListInv, AllocFromPage
    PROVE  NodeListInv'
<1> DEFINE f == head.free
<1>1. /\ life = "live" /\ Popped.usedNodes < head.totalNodes /\ head' = Popped
      /\ out' = out \cup {f} /\ link' = link /\ next' = next /\ pool' = pool /\ own' = own /\ wiped' = wiped
      /\ life' = life
  BY DEF AllocFromPage
<1>2. /\ head' \in Heads /\ head'.free = next[f] /\ head'.usedNodes = head.usedNodes + 1
      /\ head'.page = head.page /\ head'.lastPage = head.lastPage
      /\ head'.totalNodes = head.totalNodes /\ head'.totalPages = head.totalPages
  BY <1>1, PoppedHead
<1>3. /\ Shape /\ FreeList /\ PageList /\ f \in Nodes /\ f[1] \in own /\ f \notin out /\ f \in FreeNodes
      /\ head.totalNodes \in Nat /\ head.usedNodes \in Nat
      /\ head.usedNodes + 1 < head.totalNodes
  BY <1>1, <1>2, LiveHead
<1>4. Shape'
  BY <1>1, <1>2, <1>3 DEF Shape
<1>5. own' = own /\ FreeNodes' = FreeNodes \ {f}
  BY <1>1 DEF FreeNodes
<1>6. /\ IsFiniteSet(FreeNodes \ {f}) /\ Cardinality(FreeNodes \ {f}) = Cardinality(FreeNodes) - 1
      /\ IsFiniteSet(out \cup {f}) /\ Cardinality(out \cup {f}) = Cardinality(out) + 1
  BY <1>3, FS_RemoveElement, FS_AddElement DEF FreeList
<1>7. FreeNodes # {f}
  <2>1. Cardinality(FreeNodes) # 1
    BY <1>3 DEF FreeList
  <2> QED
    BY <2>1, FS_Singleton
<1>8. IsChain(next[f], next, FreeNodes \ {f})
  BY <1>3, <1>7, ChainPop DEF FreeList
<1>9. FreeList'
  BY <1>1, <1>2, <1>3, <1>5, <1>6, <1>8 DEF FreeList
<1>10. PageList'
  BY <1>1, <1>2, <1>3, <1>5 DEF PageList, ChainEnd, ClosedBut
<1> QED
  BY <1>1, <1>4, <1>9, <1>10, LiveHead DEF NodeListInv

\* The list as it is when the last node was taken and no page is left.
LEMMA HangKeeps ==
    ASSUME NodeListInv, AllocHangs
    PROVE  NodeListInv'
<1>1. /\ life = "live" /\ head' = Popped /\ out' = out /\ link' = link /\ next' = next
      /\ pool' = pool /\ own' = own /\ wiped' = wiped /\ life' = "hung"
  BY DEF AllocHangs
<1>2. /\ head' \in Heads /\ head'.usedNodes = head.usedNodes + 1
      /\ head'.totalNodes = head.totalNodes /\ head'.totalPages = head.totalPages
  BY <1>1, PoppedHead
<1>3. Shape /\ head.usedNodes + 1 <= head.totalNodes
  BY <1>1, LiveHead
<1>4. Shape'
  BY <1>1, <1>2, <1>3 DEF Shape
<1> QED
  BY <1>1, <1>3, <1>4 DEF NodeListInv

\* A node put back in front of the free list.
LEMMA PushKeeps ==
    ASSUME NodeListInv, NEW n \in Nodes, free_node(n)
    PROVE  NodeListInv'
<1> DEFINE f == head.free
<1>1. life = "live" /\ n \in out /\ out' = out \ {n} /\ link' = link /\ pool' = pool /\ own' = own /\ wiped' = wiped
      /\ life' = life
  BY DEF free_node
<1>2. /\ Shape /\ FreeList /\ PageList /\ f \in Nodes /\ f \in FreeNodes
      /\ head.totalNodes \in Nat /\ head.usedNodes \in Nat /\ head.usedNodes <= head.totalNodes
  BY <1>1, LiveHead
<1>3. head.usedNodes # 0
  BY <1>1, <1>2, FS_EmptySet DEF FreeList
<1>4. next' = [next EXCEPT ![n] = f] /\ head' = [head EXCEPT !.free = n, !.usedNodes = @ - 1]
  BY <1>3 DEF free_node
<1>5. /\ head' \in Heads /\ head'.free = n /\ head'.usedNodes = head.usedNodes - 1
      /\ head'.page = head.page /\ head'.lastPage = head.lastPage
      /\ head'.totalNodes = head.totalNodes /\ head'.totalPages = head.totalPages
  <2> DEFINE Upd(r, u) == [r EXCEPT !.free = n, !.usedNodes = u]
  <2>1. ASSUME NEW r \in Heads, NEW u \in Nat
        PROVE  /\ Upd(r, u) \in Heads /\ Upd(r, u).free = n /\ Upd(r, u).usedNodes = u
               /\ Upd(r, u).page = r.page /\ Upd(r, u).lastPage = r.lastPage
               /\ Upd(r, u).totalNodes = r.totalNodes /\ Upd(r, u).totalPages = r.totalPages
    BY DEF Heads
  <2>2. head \in Heads /\ head.usedNodes - 1 \in Nat
    BY <1>2, <1>3 DEF Shape
  <2>3. head' = Upd(head, head.usedNodes - 1)
    BY <1>4, <2>2 DEF Heads
  <2> HIDE DEF Upd
  <2> QED
    BY <2>1, <2>2, <2>3
<1>6. /\ next' \in [NodesOf(own) -> NodesOf(own) \cup {NullNode}] /\ DOMAIN next = NodesOf(own)
      /\ n \in DOMAIN next
  <2>1. n \in NodesOf(own)
    BY <1>1, <1>2 DEF FreeList, Shape, Nodes, NodesOf
  <2>2. f \in NodesOf(own)
    BY <1>2 DEF FreeNodes
  <2> QED
    BY <1>1, <1>2, <1>4, <2>1, <2>2 DEF Shape
<1>7. Shape'
  BY <1>1, <1>2, <1>5, <1>6 DEF Shape
<1>8. own' = own /\ FreeNodes' = FreeNodes \cup {n} /\ n \notin FreeNodes
  BY <1>1, <1>6 DEF FreeNodes
<1>9. /\ IsFiniteSet(FreeNodes \cup {n}) /\ Cardinality(FreeNodes \cup {n}) = Cardinality(FreeNodes) + 1
      /\ IsFiniteSet(out \ {n}) /\ Cardinality(out \ {n}) = Cardinality(out) - 1
  BY <1>1, <1>2, <1>8, FS_RemoveElement, FS_AddElement DEF FreeList
<1>10. IsChain(n, [next EXCEPT ![n] = f], FreeNodes \cup {n})
  BY <1>2, <1>6, <1>8, ChainPush DEF FreeList
<1>11. FreeList'
  BY <1>1, <1>2, <1>4, <1>5, <1>8, <1>9, <1>10 DEF FreeList
<1>12. PageList'
  BY <1>1, <1>2, <1>5, <1>8 DEF PageList, ChainEnd, ClosedBut
<1> QED
  BY <1>1, <1>2, <1>7, <1>11, <1>12 DEF NodeListInv

\* The clearing of the new page destroys the head: the list is gone.
LEMMA FaultKeeps ==
    ASSUME NodeListInv, NEW p \in Pages, NEW j \in Links, AllocAndGrow(p, j), head.page = p + 1
    PROVE  NodeListInv'
<1>1. /\ life = "live" /\ p \in pool /\ pool' = pool \ {p} /\ own' = own \cup {p}
      /\ out' = out \cup {head.free} /\ life' = "fault" /\ wiped' \in BOOLEAN
      /\ head' = [NoHead EXCEPT !.page = head.page]
      /\ link' = [q \in own' |-> IF q = p THEN j ELSE IF q = p + 1 THEN NULL
                                                     ELSE LinkPage(p)[q]]
  BY DEF AllocAndGrow
<1>2. Shape /\ PageList /\ head.free \in Nodes /\ head.page \in Pages /\ own \subseteq Pages
  BY <1>1, LiveHead DEF Shape
<1>3. /\ head' \in Heads /\ head'.totalNodes = 0 /\ head'.usedNodes = 0 /\ head'.totalPages = 0
  BY <1>1, <1>2 DEF NoHead, Heads
<1>4. link' \in [own' -> Links]
  <2>1. LinkPage(p) \in [own -> Links]
    BY <1>2 DEF LinkPage, Links, Shape
  <2> QED
    BY <1>1, <2>1 DEF Links
<1>5. Shape'
  BY <1>1, <1>2, <1>3, <1>4, Constants DEF Shape
<1> QED
  BY <1>1, <1>5 DEF NodeListInv

\* The last node is taken and the page p is linked behind the end.
LEMMA GrowKeeps ==
    ASSUME NodeListInv, NEW p \in Pages, NEW j \in Links, AllocAndGrow(p, j), head.page # p + 1
    PROVE  NodeListInv'
<1> DEFINE f == head.free
<1>1. /\ life = "live" /\ Popped.usedNodes >= head.totalNodes /\ p \in pool
      /\ pool' = pool \ {p} /\ own' = own \cup {p} /\ out' = out \cup {f}
      /\ wiped' = (wiped \/ p + 1 \in own)
      /\ link' = [q \in own' |-> IF q = p THEN j ELSE IF q = p + 1 THEN NULL
                                                     ELSE LinkPage(p)[q]]
  BY DEF AllocAndGrow
<1>2. /\ Shape /\ FreeList /\ PageList /\ f \in Nodes /\ f \in FreeNodes /\ f \notin out
      /\ f[1] \in own
      /\ head.totalNodes \in Nat /\ head.usedNodes \in Nat /\ head.totalPages \in Nat
      /\ head.usedNodes + 1 = head.totalNodes /\ FreeNodes = {f}
      /\ head.page \in own /\ head.page \in Pages
  BY <1>1, LiveHead, PoppedHead
<1>3. life' = life /\ head' = Grown(p) /\ next' = Chained(next, p)
  BY DEF AllocAndGrow
<1>4. /\ ChainEnd \in own /\ own \subseteq Pages /\ p \notin own
      /\ link \in [own -> Links] /\ link' \in [own' -> Links]
      /\ \A q \in own : (q # ChainEnd /\ q # p + 1) => link'[q] = link[q]
      /\ ChainEnd # p + 1 => link'[ChainEnd] = p
  <2>1. ChainEnd \in own /\ own \subseteq Pages /\ p \notin own /\ link \in [own -> Links]
    BY <1>1, <1>2 DEF PageList, Shape
  <2>2. /\ LinkPage(p) \in [own -> Links] /\ LinkPage(p)[ChainEnd] = p
        /\ \A q \in own : q # ChainEnd => LinkPage(p)[q] = link[q]
    BY <2>1 DEF LinkPage, Links
  <2> QED
    BY <1>1, <2>1, <2>2 DEF Links
<1>5. /\ head' \in Heads /\ head'.page = head.page /\ head'.lastPage = p /\ head'.free = <<p, 1>>
      /\ head'.totalNodes = head.totalNodes + PerPage /\ head'.usedNodes = head.usedNodes + 1
      /\ head'.totalPages = head.totalPages + 1
  <2> DEFINE Upd(r, t, u) == [r EXCEPT !.lastPage = p, !.free = <<p, 1>>, !.totalNodes = t,
                                       !.totalPages = u]
  <2>1. <<p, 1>> \in Nodes
    BY Constants DEF Nodes, NodesOf
  <2>2. ASSUME NEW r \in Heads, NEW t \in Nat, NEW u \in Nat
        PROVE  /\ Upd(r, t, u) \in Heads /\ Upd(r, t, u).page = r.page
               /\ Upd(r, t, u).lastPage = p /\ Upd(r, t, u).free = <<p, 1>>
               /\ Upd(r, t, u).totalNodes = t /\ Upd(r, t, u).usedNodes = r.usedNodes
               /\ Upd(r, t, u).totalPages = u
    BY <2>1 DEF Heads
  <2>3. /\ Popped \in Heads /\ Popped.totalNodes = head.totalNodes
        /\ Popped.totalPages = head.totalPages /\ Popped.page = head.page
        /\ Popped.usedNodes = head.usedNodes + 1
    BY <1>1, PoppedHead
  <2>4. head' = Upd(Popped, head.totalNodes + PerPage, head.totalPages + 1)
    BY <1>3, <2>3 DEF Grown, Heads
  <2>5. head.totalNodes + PerPage \in Nat /\ head.totalPages + 1 \in Nat
    BY <1>2, Constants
  <2> HIDE DEF Upd
  <2> QED
    BY <2>2, <2>3, <2>4, <2>5
<1>6. /\ next' \in [NodesOf(own') -> NodesOf(own') \cup {NullNode}]
      /\ IsChain(<<p, 1>>, next', PageNodes(p))
      /\ IsFiniteSet(PageNodes(p)) /\ Cardinality(PageNodes(p)) = PerPage
  <2>1. own \in SUBSET Pages /\ next \in [NodesOf(own) -> NodesOf(own) \cup {NullNode}]
    BY <1>1, <1>2 DEF Shape
  <2> QED
    BY <1>1, <1>3, <2>1, ChainPage
<1>7. /\ p \notin own /\ own' = own \cup {p} /\ FreeNodes' = PageNodes(p)
  <2>1. p \notin own /\ own' = own \cup {p}
    BY <1>1, <1>4
  <2>2. NodesOf(own') = NodesOf(own) \cup PageNodes(p)
    BY <2>1 DEF NodesOf, PageNodes
  <2>3. out \cup {f} = NodesOf(own)
    <3>1. \A n \in out : n \in NodesOf(own)
      BY <1>2 DEF FreeList, Shape, Nodes, NodesOf
    <3> QED
      BY <1>2, <3>1 DEF FreeNodes
  <2>4. \A n \in PageNodes(p) : n \notin NodesOf(own)
    BY <2>1 DEF NodesOf, PageNodes
  <2> QED
    BY <1>1, <2>1, <2>2, <2>3, <2>4 DEF FreeNodes
<1>8. /\ Cardinality(own \cup {p}) = head.totalPages + 1
      /\ Cardinality(own \cup {p}) <= Cardinality(Pages)
  <2>1. IsFiniteSet(own) /\ Cardinality(own) = head.totalPages /\ own \subseteq Pages
    BY <1>2, <1>4, OwnFinite DEF PageList
  <2>2. own \cup {p} \in SUBSET Pages
    BY <2>1
  <2> QED
    BY <1>7, <2>1, <2>2, Constants, FS_AddElement, FS_Subset
<1>9. IsFiniteSet(out \cup {f}) /\ Cardinality(out \cup {f}) = Cardinality(out) + 1
  BY <1>2, FS_AddElement DEF FreeList
<1>10. Shape'
  <2>1. head'.totalNodes = PerPage * head'.totalPages
    BY <1>2, <1>5, Constants DEF Shape
  <2>2. head'.usedNodes <= head'.totalNodes /\ head'.totalPages <= Cardinality(Pages)
    BY <1>2, <1>5, <1>8, Constants
  <2> QED
    BY <1>1, <1>2, <1>3, <1>4, <1>5, <1>6, <2>1, <2>2 DEF Shape
<1>11. FreeList'
  <2>1. Cardinality(PageNodes(p)) = head'.totalNodes - head'.usedNodes
    BY <1>2, <1>5, <1>6, Constants
  <2>2. \A n \in out' : n[1] \in own'
    BY <1>1, <1>2, <1>7 DEF FreeList
  <2>3. IsFiniteSet(out') /\ Cardinality(out') = head'.usedNodes
    BY <1>1, <1>2, <1>5, <1>9 DEF FreeList
  <2> QED
    BY <1>5, <1>6, <1>7, <2>1, <2>2, <2>3 DEF FreeList
<1>12. PageList'
  <2>1. link'[head.page] # NULL
    <3>1. CASE ChainEnd = head.page
      BY <1>2, <1>4, <3>1, Constants
    <3>2. CASE ChainEnd # head.page
      BY <1>2, <1>4, <3>2 DEF ChainEnd
    <3> QED
      BY <3>1, <3>2
  <2>2. ChainEnd' = p
    BY <1>5, <2>1 DEF ChainEnd
  <2>3. ASSUME ~wiped'
        PROVE  /\ \A x \in own' : x # ChainEnd' => link'[x] \in own'
               /\ \A S \in SUBSET own' :
                    (head'.page \in S /\ ClosedBut(S, ChainEnd)') => own' \subseteq S
    <3>1. ~wiped /\ p + 1 \notin own
      BY <1>1, <2>3
    <3>2. /\ link'[ChainEnd] = p
          /\ \A x \in own : x # ChainEnd => link'[x] = link[x] /\ link[x] \in own
      BY <1>2, <1>4, <3>1 DEF PageList
    <3>3. ASSUME NEW S \in SUBSET own', head.page \in S,
                 \A x \in S : (x # p /\ link'[x] \in own') => link'[x] \in S
          PROVE  own \cup {p} \subseteq S
      <4>1. ClosedBut(S \cap own, ChainEnd)
        BY <1>4, <1>7, <3>2, <3>3 DEF ClosedBut
      <4>2. S \cap own \in SUBSET own /\ head.page \in S \cap own
        BY <1>2, <3>3
      <4>3. own \subseteq S \cap own
        BY <1>2, <3>1, <4>1, <4>2 DEF PageList
      <4> QED
        BY <1>4, <1>7, <3>2, <3>3, <4>3
    <3> QED
      BY <1>4, <1>5, <1>7, <2>2, <3>2, <3>3 DEF ClosedBut
  <2> QED
    BY <1>2, <1>5, <1>7, <1>8, <2>2, <2>3 DEF PageList
<1> QED
  BY <1>1, <1>2, <1>3, <1>10, <1>11, <1>12 DEF NodeListInv

\* The walk meets every page of a list that no clearing has cut.
LEMMA WalkMeetsAll ==
    ASSUME NodeListInv, life = "live", ~wiped
    PROVE  own \subseteq PagesFrom(head.page)
<1>1. Shape /\ PageList /\ head.page \in own /\ DOMAIN link = own
  BY LiveHead DEF Shape
<1>2. ASSUME NEW S \in SUBSET own, head.page \in S, ClosedUnder(S, link)
      PROVE  own \subseteq S
  BY <1>1, <1>2 DEF PageList, ClosedBut, ClosedUnder
<1> QED
  BY <1>1, <1>2, Zenon DEF PagesFrom, Met

\* Whatever the walk gives back, there is no list any more.
LEMMA DestroyKeeps ==
    ASSUME NodeListInv, destroy_node_list
    PROVE  NodeListInv'
<1>1. /\ life = "live" /\ pool' = pool \cup PagesFrom(head.page) /\ head' = NoHead
      /\ own' = {} /\ out' = {} /\ life' \in {"none", "corrupt"}
      /\ link' = NoLinks /\ next' = NoNodes /\ wiped' = wiped
  BY DEF destroy_node_list
<1>2. Shape /\ DOMAIN link = own /\ own \subseteq Pages
  BY <1>1 DEF NodeListInv, Shape
<1>3. NoHead \in Heads /\ NoHead.totalNodes = 0 /\ NoHead.usedNodes = 0 /\ NoHead.totalPages = 0
  BY DEF NoHead, Heads
<1>4. pool' \subseteq Pages
  <2>1. PagesFrom(head.page) \subseteq Pages /\ pool \subseteq Pages
    BY <1>2, Zenon DEF PagesFrom, Met, Shape
  <2> QED
    BY <1>1, <2>1, Zenon
<1>5. PerPage * 0 = 0 /\ 0 <= Cardinality(Pages)
  BY Constants
<1>6. link' \in [own' -> Links] /\ next' \in [NodesOf(own') -> NodesOf(own') \cup {NullNode}]
  BY <1>1 DEF NoLinks, NoNodes, NodesOf
<1>7. Shape'
  <2> HIDE DEF NoHead
  <2> QED
    BY <1>1, <1>2, <1>3, <1>4, <1>5, <1>6 DEF Shape
<1> QED
  BY <1>1, <1>7 DEF NodeListInv

\* The invariant holds in every behaviour, list after list.
THEOREM NodeListInvariant == Spec => []NodeListInv
<1>1. ASSUME NodeListInv, [Next]_vars PROVE NodeListInv'
  <2>1. CASE UNCHANGED vars
    <3>1. /\ head' = head /\ link' = link /\ next' = next /\ pool' = pool /\ own' = own /\ wiped' = wiped
          /\ out' = out /\ life' = life
      BY <2>1 DEF vars
    <3> QED
      BY <1>1, <3>1 DEF NodeListInv, Shape, FreeList, PageList, FreeNodes, ChainEnd,
                        ClosedBut
  <2>2. CASE Next
    BY <1>1, <2>2, CreateKeeps, PopKeeps, FaultKeeps, GrowKeeps, HangKeeps, PushKeeps,
       DestroyKeeps
       DEF Next, alloc_node
  <2> QED
    BY <1>1, <2>1, <2>2
<1> QED
  BY InitHolds, <1>1, PTL DEF Spec

\* ChainsExact for any number of nodes in a page, any pages and any old contents: what
\* the header counts and what the free list holds agree after every history of
\* alloc_node and free_node, across every page boundary, and the chain of pages has
\* every page until a clearing cuts it.
THEOREM ChainsExactHolds == Spec => []ChainsExact
<1>1. ASSUME NodeListInv PROVE ChainsExact
  <2>1. Shape
    BY <1>1 DEF NodeListInv
  <2>2. TypeOK
    <3>1. head \in Heads
      BY <2>1 DEF Shape
    <3>2. /\ head.page \in Pages \cup {NULL} /\ head.lastPage \in Pages \cup {NULL}
          /\ head.free \in Nodes \cup {NullNode} /\ head.totalPages \in Nat
          /\ head.totalNodes \in Nat /\ head.usedNodes \in Nat
      BY <3>1 DEF Heads
    <3> QED
      BY <2>1, <3>2, Constants DEF TypeOK, Shape
  <2>3. ASSUME life = "live" PROVE FreeChain = FreeNodes
    BY <1>1, <2>3, LiveHead, ChainMet DEF FreeList, FreeChain
  <2>4. ASSUME life = "live" PROVE \E n \in FreeNodes : next[n] = NullNode
    <3>1. /\ \E e \in FreeNodes : next[e] \notin DOMAIN next
          /\ next \in [NodesOf(own) -> NodesOf(own) \cup {NullNode}] /\ FreeNodes \subseteq NodesOf(own)
      BY <1>1, <2>1, <2>4, LiveHead DEF FreeList, IsChain, Shape, FreeNodes
    <3>2. NullNode \notin NodesOf(own)
      BY <2>1, Constants DEF Shape, Nodes, NodesOf
    <3> QED
      BY <3>1, <3>2
  <2>5. FreeChainExact
    BY <1>1, <2>3, <2>4, LiveHead DEF FreeChainExact, FreeList, FreeNodes, PageList
  <2>6. PageChainComplete
    BY <1>1, WalkMeetsAll DEF PageChainComplete
  <2> QED
    BY <2>2, <2>5, <2>6 DEF ChainsExact
<1> QED
  BY NodeListInvariant, <1>1, PTL

\* DestroyReturnsAll: destroy_node_list, which reads each link out of a page it has just
\* given back, returns every page of a list no clearing has cut to the page frame allocator.
THEOREM DestroyReturnsAllHolds == Spec => DestroyReturnsAll
<1>1. ASSUME NodeListInv, Next, life = "live", life' \in {"none", "corrupt"}, ~wiped
      PROVE  own \subseteq pool'
  <2>1. destroy_node_list
    BY <1>1 DEF Next, alloc_node, create_node_list, AllocFromPage, AllocAndGrow, AllocHangs,
                free_node
  <2> QED
    BY <1>1, <2>1, WalkMeetsAll DEF destroy_node_list
<1>2. NodeListInv /\ [Next]_vars
      => [(life = "live" /\ life' \in {"none", "corrupt"} /\ ~wiped) => own \subseteq pool']_vars
  BY <1>1
<1> QED
  BY NodeListInvariant, <1>2, PTL DEF Spec, DestroyReturnsAll
=============================================================================
