----------------------------- MODULE PmmProofs -----------------------------
(***************************************************************************)
(* The page frame allocator, for every number and size of zones: what any  *)
(* number of CPUs keeps of its state, and what the one CPU that runs does; *)
(* and its initialisation, for every memory map in order: pfa_init cuts    *)
(* the free memory without losing a page, or inventing one but behind the  *)
(* region of the managers, gives each allocator pages of its own zone      *)
(* only, and keeps the managers out of the memory they manage.             *)
(***************************************************************************)
EXTENDS Pmm, PmmInit, FiniteSetTheorems, WellFoundedInduction, TLAPS

-----------------------------------------------------------------------------
(* The run-time interface.                                                 *)

\* The sizes are positive numbers.
LEMMA Sizes ==
  /\ ZonePages \in Nat /\ ZonePages >= 1
  /\ zoneCount \in Nat /\ zoneCount >= 1
  /\ PAGE_SIZE \in Nat /\ PAGE_SIZE \in Int /\ LowStart \in Nat
  BY PmmAssumption

\* What a manager reports as its largest block is a number.
LEMMA FiguresNat == \A f \in Figures : f \in Nat
  BY PmmAssumption

-----------------------------------------------------------------------------
(* Any number of CPUs: the types, and a zone in use has a user.            *)

\* Idle is a request, and zone 0 and the low zone are zones.
LEMMA IdleIsRequest == Idle \in Request /\ 0 \in Zones /\ Low \in Zones
  BY Sizes DEF Idle, Request, Zones, Normal, Low

\* The loop of pfa_alloc_pages goes from one normal zone to the next.
LEMMA NextZone ==
  ASSUME NEW z \in Zones, z # Low, z + 1 < zoneCount PROVE z + 1 \in Zones
  BY Sizes DEF Zones, Normal, Low

\* Products of numbers, kept apart because the provers do not multiply.
LEMMA Product == ASSUME NEW a \in Int, NEW b \in Int PROVE a * b \in Int
  OBVIOUS

\* The bytes the normal zones manage are a number.
LEMMA ManagedIsNumber == ZonePages * PAGE_SIZE * zoneCount \in Int
  BY Product, Sizes

\* pfa_init leaves typed figures: the sum over the zones is a number.
LEMMA InitTyping == Init => Typing /\ InUseMeansUser
  <1> SUFFICES ASSUME Init PROVE Typing /\ InUseMeansUser
    OBVIOUS
  <1>1. total \in [Zones -> Int] /\ maxMemReq \in [Zones -> Nat]
    <2>1. \A n \in Starts \cup {LowStart} : n \in Int
      BY PmmAssumption
    <2> QED BY <2>1, FiguresNat DEF Init
  <1>2. total[Low] \in Int
    BY <1>1 DEF Zones
  <1>3. Cardinality(FreeNormal) \in Nat
    <2>1. IsFiniteSet(Normal)
      <3>1. 0 \in Int /\ zoneCount - 1 \in Int
        BY Sizes
      <3> QED BY <3>1, FS_Interval, Zenon DEF Normal
    <2>2. IsFiniteSet(0 .. ZonePages - 1)
      <3>1. 0 \in Int /\ ZonePages - 1 \in Int
        BY Sizes
      <3> QED BY <3>1, FS_Interval, Zenon
    <2>3. IsFiniteSet(Normal \X (0 .. ZonePages - 1))
      BY <2>1, <2>2, FS_Product, Zenon
    <2>4. FreeNormal \in SUBSET (Normal \X (0 .. ZonePages - 1))
      BY DEF FreeNormal
    <2>5. IsFiniteSet(FreeNormal)
      BY <2>3, <2>4, FS_Subset, Zenon
    <2> QED BY <2>5, FS_CardinalityType
  <1>4. free \in Int /\ reserved \in Int
    <2>1. Cardinality(FreeNormal) * PAGE_SIZE \in Int
      BY <1>3, Product, Sizes
    <2>2. free = Cardinality(FreeNormal) * PAGE_SIZE + total[Low]
      BY DEF Init
    <2>3. free \in Int
      BY <1>2, <2>1, <2>2
    <2>4. reserved = ZonePages * PAGE_SIZE * zoneCount - free
      BY DEF Init
    <2> QED BY <2>3, <2>4, ManagedIsNumber
  <1>5. pc \in [CPUs -> Labels] /\ req \in [CPUs -> Request] /\ isusing \in [Zones -> BOOLEAN]
    BY IdleIsRequest DEF Init, Labels
  <1> QED BY <1>1, <1>4, <1>5 DEF Init, Typing, InUseMeansUser

-----------------------------------------------------------------------------
(* The types, action by action.                                            *)

\* A step of any CPU keeps the types.
LEMMA StepTyping == Typing /\ [Next]_vars => Typing'
  <1> SUFFICES ASSUME Typing, [Next]_vars PROVE Typing'
    OBVIOUS
  <1> USE DEF Typing, Goto, Local, Accounts
  <1>1. ASSUME NEW c \in CPUs, CallAlloc(c) PROVE Typing'
    <2>1. PICK n \in Counts, z \in {0, Low} :
             /\ round2(n) \in 1 .. ZonePages
             /\ req' = [req EXCEPT ![c] = [Idle EXCEPT !.zone = z, !.count = round2(n)]]
      BY <1>1 DEF CallAlloc
    <2>2. z \in Zones /\ round2(n) \in Nat
      BY <2>1, IdleIsRequest
    <2>3. [Idle EXCEPT !.zone = z, !.count = round2(n)] \in Request
      BY <2>2, IdleIsRequest DEF Request
    <2> QED BY <1>1, <2>1, <2>3 DEF CallAlloc, Labels
  <1>2. ASSUME NEW c \in CPUs, CallFree(c, TRUE) PROVE Typing'
    <2>1. PICK b \in held :
             /\ b.home # Beyond
             /\ req' = [req EXCEPT ![c] = [Idle EXCEPT !.zone = b.home, !.count = b.count,
                                                       !.got = b.count]]
             /\ held' = held \ {b}
      BY <1>2 DEF CallFree
    <2>2. b.home \in Zones /\ b.count \in Nat
      BY <2>1 DEF Block
    <2>3. [Idle EXCEPT !.zone = b.home, !.count = b.count, !.got = b.count] \in Request
      BY <2>2, IdleIsRequest DEF Request
    <2> QED BY <1>2, <2>1, <2>3 DEF CallFree, Labels
  <1>3. ASSUME NEW c \in CPUs, AllocWait(c) \/ FreeWait(c) \/ AllocLost(c) \/ FreeLost(c)
        PROVE  Typing'
    BY <1>3 DEF AllocWait, FreeWait, AllocLost, FreeLost, Labels
  <1>4. ASSUME NEW c \in CPUs, AllocTake(c) \/ FreeTake(c) PROVE Typing'
    BY <1>4 DEF AllocTake, FreeTake, Labels, Request
  <1>5. ASSUME NEW c \in CPUs, AllocWork(c) PROVE Typing'
    <2>0. req[c] \in Request /\ req[c].zone \in Zones /\ req[c].count \in Nat
      BY DEF Request
    <2>1. PICK n \in Nat : req' = [req EXCEPT ![c] = [req[c] EXCEPT !.got = n]]
      BY <1>5, <2>0 DEF AllocWork
    <2>2. [req[c] EXCEPT !.got = n] \in Request
      BY <2>0 DEF Request
    <2>3. held' \subseteq Block
      <3>1. HomesOf(req[c].zone) \subseteq Zones \cup {Beyond}
        BY <2>0, Sizes DEF HomesOf, Zones, Normal, Low, Beyond
      <3>2. CASE held' = held
        BY <3>2
      <3>3. CASE \E h \in HomesOf(req[c].zone) :
                    held' = held \cup {[home |-> h, count |-> req[c].count]}
        BY <2>0, <3>1, <3>3 DEF Block
      <3> QED BY <1>5, <3>2, <3>3 DEF AllocWork
    <2>4. maxMemReq' \in [Zones -> Nat]
      <3>1. PICK f \in Figures : maxMemReq' = IF req[c].zone = Low THEN maxMemReq
                                              ELSE [maxMemReq EXCEPT ![req[c].zone] = f]
        BY <1>5 DEF AllocWork
      <3>2. f \in Nat
        BY FiguresNat
      <3> QED BY <3>1, <3>2
    <2>5. /\ pc' \in [CPUs -> Labels]
          /\ UNCHANGED <<total, free, reserved, isusing>>
      BY <1>5 DEF AllocWork, Labels
    <2> QED BY <2>1, <2>2, <2>3, <2>4, <2>5
  <1>6. ASSUME NEW c \in CPUs, AllocLoad(c) \/ FreeLoad(c) PROVE Typing'
    <2>1. [req[c] EXCEPT !.free = free, !.reserved = reserved] \in Request
      BY DEF Request
    <2> QED BY <1>6, <2>1 DEF AllocLoad, FreeLoad, Labels
  <1>7. ASSUME NEW c \in CPUs, AllocStore(c) PROVE Typing'
    <2>1. PICK bytes \in Int : bytes = req[c].got * PAGE_SIZE
      <3>1. req[c].got \in Int
        BY DEF Request
      <3>2. req[c].got * PAGE_SIZE \in Int
        BY <3>1, Sizes, Product, Zenon
      <3> QED BY <3>2, Zenon
    <2>2. free' = req[c].free - bytes /\ reserved' = req[c].reserved + bytes
      BY <1>7, <2>1 DEF AllocStore
    <2>3. free' \in Int /\ reserved' \in Int
      BY <2>2 DEF Request
    <2>4. total' \in [Zones -> Int]
      BY <1>7 DEF AllocStore, Request
    <2> QED BY <1>7, <2>3, <2>4 DEF AllocStore, Labels
  <1>8. ASSUME NEW c \in CPUs, AllocClear(c) PROVE Typing'
    <2>1. PICK r \in Request : req' = [req EXCEPT ![c] = r]
      <3>1. CASE req' = [req EXCEPT ![c] = Idle]
        BY <3>1, IdleIsRequest
      <3>2. CASE req[c].zone # Low /\ req[c].zone + 1 < zoneCount
                 /\ req' = [req EXCEPT ![c] = [req[c] EXCEPT !.zone = req[c].zone + 1]]
        <4>1. req[c].zone \in Zones
          BY DEF Request
        <4>2. req[c].zone + 1 \in Zones
          BY <3>2, <4>1, NextZone, Zenon
        <4> QED BY <3>2, <4>2 DEF Request
      <3> QED BY <1>8, <3>1, <3>2 DEF AllocClear
    <2> QED BY <1>8, <2>1 DEF AllocClear, Labels, Request
  <1>9. ASSUME NEW c \in CPUs, FreeWork(c) PROVE Typing'
    <2>1. req[c].zone \in Zones /\ req[c].count \in Nat /\ \A f \in Figures : f \in Nat
      BY FiguresNat DEF Request
    <2> QED BY <1>9, <2>1 DEF FreeWork, Labels
  <1>10. ASSUME NEW c \in CPUs, FreeClear(c) PROVE Typing'
    BY <1>10 DEF FreeClear, Labels, Request
  <1>11. ASSUME NEW c \in CPUs, FreeStore(c) PROVE Typing'
    <2>1. PICK bytes \in Int : bytes = req[c].count * PAGE_SIZE
      <3>1. req[c].count \in Int
        BY DEF Request
      <3>2. req[c].count * PAGE_SIZE \in Int
        BY <3>1, Sizes, Product, Zenon
      <3> QED BY <3>2, Zenon
    <2>2. free' = req[c].free + bytes /\ reserved' = req[c].reserved - bytes
      BY <1>11, <2>1 DEF FreeStore
    <2>3. free' \in Int /\ reserved' \in Int
      BY <2>2 DEF Request
    <2> QED BY <1>11, <2>3, IdleIsRequest DEF FreeStore, Labels
  <1>12. CASE UNCHANGED vars
    BY <1>12 DEF vars
  <1> QED BY <1>1, <1>2, <1>3, <1>4, <1>5, <1>6, <1>7, <1>8, <1>9, <1>10, <1>11, <1>12
          DEF Next, Step, InCall

-----------------------------------------------------------------------------
(* A zone in use has a user, and is given back.                            *)

\* A step of any CPU that leaves isusing alone, and moves that CPU only in or
\* towards the protected part, leaves every zone in use with its user.
LEMMA UserStays ==
  ASSUME Typing, InUseMeansUser, Sane, NEW c \in CPUs, NEW r \in Request, NEW label \in Labels,
         isusing' = isusing, pc' = [pc EXCEPT ![c] = label], req' = [req EXCEPT ![c] = r],
         \A z \in Zones : Inside(c, z) => Inside(c, z)'
  PROVE  InUseMeansUser'
  <1> SUFFICES ASSUME NEW z \in Zones, isusing'[z] PROVE \E d \in CPUs : Inside(d, z)'
    BY DEF InUseMeansUser
  <1>1. PICK d \in CPUs : Inside(d, z)
    BY DEF InUseMeansUser
  <1>2. CASE d = c
    BY <1>1, <1>2
  <1>3. CASE d # c
    BY <1>1, <1>3 DEF Inside, Typing
  <1> QED BY <1>2, <1>3

\* The exchange makes the CPU the zone's user.
LEMMA UserEnters ==
  ASSUME Typing, InUseMeansUser, Sane, NEW c \in CPUs, NEW label \in {"alloc.work", "free.work"},
         pc[c] \in {"alloc.take", "free.take"}, req' = req,
         pc' = [pc EXCEPT ![c] = label],
         isusing' = [isusing EXCEPT ![req[c].zone] = TRUE]
  PROVE  InUseMeansUser'
  <1> SUFFICES ASSUME NEW z \in Zones, isusing'[z] PROVE \E d \in CPUs : Inside(d, z)'
    BY DEF InUseMeansUser
  <1>1. CASE z = req[c].zone
    BY <1>1 DEF Inside, Typing
  <1>2. CASE z # req[c].zone
    <2>1. PICK d \in CPUs : Inside(d, z)
      BY <1>2 DEF InUseMeansUser, Typing
    <2>2. d # c
      BY <1>2, <2>1 DEF Inside
    <2> QED BY <2>1, <2>2 DEF Inside, Typing
  <1> QED BY <1>1, <1>2

\* The clear leaves the zone to the others, and their zones to them.
LEMMA UserLeaves ==
  ASSUME Typing, InUseMeansUser, Sane, NEW c \in CPUs,
         NEW label \in Labels, NEW r \in Request, req' = [req EXCEPT ![c] = r],
         pc[c] \in {"alloc.clear", "free.clear"},
         pc' = [pc EXCEPT ![c] = label],
         isusing' = [isusing EXCEPT ![req[c].zone] = FALSE]
  PROVE  InUseMeansUser'
  <1> SUFFICES ASSUME NEW z \in Zones, isusing'[z] PROVE \E d \in CPUs : Inside(d, z)'
    BY DEF InUseMeansUser
  <1>1. z # req[c].zone /\ isusing[z]
    BY DEF Typing, Request
  <1>2. PICK d \in CPUs : Inside(d, z)
    BY <1>1 DEF InUseMeansUser
  <1>3. d # c
    BY <1>1, <1>2 DEF Inside
  <1> QED BY <1>2, <1>3 DEF Inside, Typing

\* A step of any CPU leaves every zone in use with a user.
LEMMA StepInUse == Typing /\ InUseMeansUser /\ [Next]_vars => InUseMeansUser'
  <1> SUFFICES ASSUME Typing, InUseMeansUser, [Next]_vars PROVE InUseMeansUser'
    OBVIOUS
  <1>0. Typing'
    BY StepTyping
  <1> SUFFICES ASSUME Sane PROVE InUseMeansUser'
    BY DEF Next, vars, Sane, InUseMeansUser, Inside
  <1>1. ASSUME NEW c \in CPUs, CallAlloc(c) \/ CallFree(c, TRUE) PROVE InUseMeansUser'
    <2>1. PICK label \in Labels, r \in Request : /\ pc' = [pc EXCEPT ![c] = label]
                                                /\ req' = [req EXCEPT ![c] = r]
      <3>1. PICK r : req' = [req EXCEPT ![c] = r]
        BY <1>1 DEF CallAlloc, CallFree, Local
      <3>2. r \in Request
        BY <1>0, <3>1 DEF Typing
      <3>3. PICK label \in Labels : pc' = [pc EXCEPT ![c] = label]
        BY <1>1 DEF CallAlloc, CallFree, Goto, Labels
      <3> QED BY <3>1, <3>2, <3>3
    <2>2. isusing' = isusing /\ pc[c] = "idle"
      BY <1>1 DEF CallAlloc, CallFree
    <2>3. \A z \in Zones : ~Inside(c, z)
      BY <2>2 DEF Inside
    <2> QED BY <2>1, <2>2, <2>3, UserStays
  <1>2. ASSUME NEW c \in CPUs,
               AllocWait(c) \/ FreeWait(c) \/ AllocWork(c)
               \/ (FreeWork(c) /\ pc'[c] # "lost")
               \/ AllocLoad(c) \/ FreeLoad(c) \/ AllocStore(c) \/ FreeStore(c)
        PROVE  InUseMeansUser'
    <2>1. PICK r : req' = [req EXCEPT ![c] = r]
      <3>1. CASE AllocWait(c) \/ FreeWait(c) \/ AllocStore(c) \/ FreeWork(c)
        <4>1. req' = [req EXCEPT ![c] = req[c]]
          BY <3>1 DEF AllocWait, FreeWait, AllocStore, FreeWork, Typing
        <4> QED BY <4>1
      <3>2. CASE AllocWork(c) \/ AllocLoad(c) \/ FreeLoad(c) \/ FreeStore(c)
        BY <3>2 DEF AllocWork, AllocLoad, FreeLoad, FreeStore, Local
      <3> QED BY <1>2, <3>1, <3>2
    <2>2. r \in Request
      BY <1>0, <2>1 DEF Typing
    <2>3. PICK label \in Labels : pc' = [pc EXCEPT ![c] = label]
      BY <1>2 DEF AllocWait, FreeWait, AllocWork, FreeWork, AllocLoad, FreeLoad, AllocStore,
                  FreeStore, Goto, Labels
    <2>4. isusing' = isusing
      BY <1>2 DEF AllocWait, FreeWait, AllocWork, FreeWork, AllocLoad, FreeLoad, AllocStore,
                  FreeStore
    <2>5. ASSUME NEW z \in Zones, Inside(c, z) PROVE Inside(c, z)'
      <3>1. CASE AllocWait(c) \/ FreeWait(c) \/ FreeLoad(c) \/ FreeStore(c)
        BY <2>5, <3>1 DEF AllocWait, FreeWait, FreeLoad, FreeStore, Inside
      <3>2. CASE AllocStore(c) \/ (FreeWork(c) /\ pc'[c] # "lost") \/ AllocLoad(c)
        <4>1. \/ req' = req
              \/ req' = [req EXCEPT ![c] = [req[c] EXCEPT !.free = free, !.reserved = reserved]]
          BY <3>2 DEF AllocStore, FreeWork, AllocLoad, Local
        <4>2. req'[c].zone = req[c].zone
          BY <4>1 DEF Typing, Request
        <4>3. \E to \in {"alloc.store", "alloc.clear", "free.clear"} : pc' = [pc EXCEPT ![c] = to]
          BY <3>2 DEF AllocStore, FreeWork, AllocLoad, Goto, Typing
        <4> QED BY <2>5, <4>2, <4>3 DEF Inside, Typing
      <3>3. CASE AllocWork(c)
        <4>1. PICK b : req' = [req EXCEPT ![c] = [req[c] EXCEPT !.got = b]]
          BY <3>3 DEF AllocWork, Local
        <4> QED BY <2>5, <3>3, <4>1 DEF AllocWork, Inside, Goto, Typing, Request
      <3> QED BY <1>2, <3>1, <3>2, <3>3
    <2> QED BY <2>1, <2>2, <2>3, <2>4, <2>5, UserStays
  <1>3. ASSUME NEW c \in CPUs, AllocTake(c) \/ FreeTake(c) PROVE InUseMeansUser'
    BY <1>3, UserEnters DEF AllocTake, FreeTake, Goto
  <1>4. ASSUME NEW c \in CPUs, AllocClear(c) \/ FreeClear(c) PROVE InUseMeansUser'
    <2>1. PICK r : req' = [req EXCEPT ![c] = r]
      <3>1. CASE FreeClear(c)
        <4>1. req' = [req EXCEPT ![c] = req[c]]
          BY <3>1 DEF FreeClear, Typing
        <4> QED BY <4>1
      <3>2. CASE AllocClear(c)
        BY <3>2 DEF AllocClear, Local
      <3> QED BY <1>4, <3>1, <3>2
    <2>2. r \in Request
      BY <1>0, <2>1 DEF Typing
    <2>3. pc[c] \in {"alloc.clear", "free.clear"}
          /\ isusing' = [isusing EXCEPT ![req[c].zone] = FALSE]
      BY <1>4 DEF AllocClear, FreeClear
    <2>4. PICK label \in Labels : pc' = [pc EXCEPT ![c] = label]
      BY <1>4 DEF AllocClear, FreeClear, Goto, Labels
    <2> QED BY <2>1, <2>2, <2>3, <2>4, UserLeaves
  <1>5. CASE UNCHANGED vars
    BY <1>5 DEF vars, InUseMeansUser, Inside, Sane
  <1>6. ASSUME NEW c \in CPUs, AllocLost(c) \/ FreeLost(c) \/ (FreeWork(c) /\ pc'[c] = "lost")
        PROVE  InUseMeansUser'
    BY <1>0, <1>6 DEF AllocLost, FreeLost, Goto, Typing, InUseMeansUser, Sane
  <1> QED BY <1>1, <1>2, <1>3, <1>4, <1>5, <1>6 DEF Next, Step, InCall

\* Whatever the CPUs do, a zone in use has a call that is using it.
THEOREM PmmInUseHasUser == Spec => [](Typing /\ InUseMeansUser)
  <1>1. Init => Typing /\ InUseMeansUser
    BY InitTyping
  <1>2. Typing /\ InUseMeansUser /\ [Next]_vars => Typing' /\ InUseMeansUser'
    BY StepTyping, StepInUse
  <1> QED BY <1>1, <1>2, PTL DEF Spec

\* pfa_alloc_pages and pfa_free give back every zone they took: when no call
\* is under way no zone is in use, for any number of CPUs, although isusing
\* does not keep two of them apart.
THEOREM PmmQuietMeansUnlocked == Spec => []QuietMeansUnlocked
  <1>1. Typing /\ InUseMeansUser => QuietMeansUnlocked
    BY DEF InUseMeansUser, Inside, Quiet, QuietMeansUnlocked, Sane
  <1> QED BY <1>1, PmmInUseHasUser, PTL
-----------------------------------------------------------------------------
(* One CPU: the accounts.                                                  *)

\* A step of the one CPU keeps free and reserved in balance.
LEMMA StepBalanced ==
  ASSUME NEW cpu, CPUs = {cpu}, Typing, Balanced, [Next]_vars PROVE Balanced'
  <1>0. PICK sum \in Int : sum = ZonePages * PAGE_SIZE * zoneCount
    BY ManagedIsNumber, Zenon
  <1>1. /\ free + reserved = sum
        /\ pc[cpu] \in {"alloc.store", "free.store"} => req[cpu].free + req[cpu].reserved = sum
    BY <1>0, Zenon DEF Balanced
  <1>2. SUFFICES /\ free' + reserved' = sum
                 /\ pc'[cpu] \in {"alloc.store", "free.store"}
                       => req'[cpu].free + req'[cpu].reserved = sum
    BY <1>0, Zenon DEF Balanced
  <1>3. CASE CallAlloc(cpu) \/ CallFree(cpu, TRUE) \/ AllocWait(cpu) \/ AllocTake(cpu)
             \/ AllocWork(cpu) \/ AllocClear(cpu) \/ FreeWait(cpu) \/ FreeTake(cpu)
             \/ FreeWork(cpu) \/ FreeClear(cpu) \/ AllocLost(cpu) \/ FreeLost(cpu)
    <2>1. free' = free /\ reserved' = reserved
      BY <1>3 DEF CallAlloc, CallFree, AllocWait, AllocTake, AllocWork, AllocClear, FreeWait,
                  FreeTake, FreeWork, FreeClear, AllocLost, FreeLost, Accounts
    <2>2. pc'[cpu] \notin {"alloc.store", "free.store"}
      BY <1>3 DEF CallAlloc, CallFree, AllocWait, AllocTake, AllocWork, AllocClear, FreeWait,
                  FreeTake, FreeWork, FreeClear, AllocLost, FreeLost, Goto, Typing
    <2> QED BY <1>1, <2>1, <2>2
  <1>4. CASE AllocLoad(cpu) \/ FreeLoad(cpu)
    <2>1. free' = free /\ reserved' = reserved
          /\ req'[cpu].free = free /\ req'[cpu].reserved = reserved
      BY <1>4 DEF AllocLoad, FreeLoad, Accounts, Local, Typing, Request
    <2> QED BY <1>1, <2>1
  <1>5. CASE AllocStore(cpu) \/ FreeStore(cpu)
    <2>1. PICK bytes \in Int : \/ free' = req[cpu].free - bytes /\ reserved' = req[cpu].reserved + bytes
                               \/ free' = req[cpu].free + bytes /\ reserved' = req[cpu].reserved - bytes
      <3>1. /\ PAGE_SIZE \in Int /\ req[cpu].got \in Int /\ req[cpu].count \in Int
        BY Sizes DEF Typing, Request
      <3>2. req[cpu].got * PAGE_SIZE \in Int /\ req[cpu].count * PAGE_SIZE \in Int
        BY <3>1, Product, Zenon
      <3>3. CASE AllocStore(cpu)
        BY <3>2, <3>3, Zenon DEF AllocStore
      <3>4. CASE FreeStore(cpu)
        BY <3>2, <3>4, Zenon DEF FreeStore
      <3> QED BY <1>5, <3>3, <3>4
    <2>2. pc[cpu] \in {"alloc.store", "free.store"} /\ pc'[cpu] \in {"alloc.clear", "idle"}
      BY <1>5 DEF AllocStore, FreeStore, Goto, Typing
    <2>3. req[cpu].free \in Int /\ req[cpu].reserved \in Int
      BY DEF Typing, Request
    <2> QED BY <1>1, <2>1, <2>2, <2>3
  <1>6. CASE UNCHANGED vars
    BY <1>1, <1>6 DEF vars
  <1> QED BY <1>3, <1>4, <1>5, <1>6 DEF Next, Step, InCall

-----------------------------------------------------------------------------
(* One CPU, as at this commit: the invariant, and the property it carries. *)

\* The two accounts start out in balance.
LEMMA InitBalanced == ASSUME NEW cpu, CPUs = {cpu}, Init PROVE Balanced
  <1>1. free \in Int /\ reserved \in Int
    BY InitTyping DEF Typing
  <1>2. reserved = ZonePages * PAGE_SIZE * zoneCount - free
    BY DEF Init
  <1>3. PICK sum \in Int : sum = ZonePages * PAGE_SIZE * zoneCount
    BY ManagedIsNumber, Zenon
  <1>4. free + reserved = sum
    BY <1>1, <1>2, <1>3
  <1>5. \A c \in CPUs : pc[c] = "idle"
    BY DEF Init
  <1> QED BY <1>3, <1>4, <1>5, Zenon DEF Balanced

\* On one CPU the types, the balance of the accounts and the use of the zones are kept
\* by every step, whatever the managers answer.
THEOREM PmmInvariant == ASSUME NEW cpu, CPUs = {cpu} PROVE Spec => []PmmInv
  <1>1. Init => PmmInv
    BY InitTyping, InitBalanced DEF PmmInv
  <1>2. PmmInv /\ [Next]_vars => PmmInv'
    BY StepTyping, StepInUse, StepBalanced DEF PmmInv
  <1> QED BY <1>1, <1>2, PTL DEF Spec

\* Between calls free and reserved add up to the managed memory.
THEOREM PmmAccountsBalance == ASSUME NEW cpu, CPUs = {cpu} PROVE Spec => []AccountsBalance
  <1>1. PmmInv => AccountsBalance
    BY Zenon DEF PmmInv, Balanced, AccountsBalance
  <1> QED BY <1>1, PmmInvariant, PTL

-----------------------------------------------------------------------------
(* Pages of regions.                                                       *)

\* The pages of a region are the numbers from its first page up to its end.
LEMMA InRun ==
    ASSUME NEW r, r.mem \in Nat, r.pages \in Nat, NEW p
    PROVE  p \in Run(r) <=> p \in Nat /\ r.mem <= p /\ p < r.mem + r.pages
BY DEF Run

\* A page belongs to a list of regions when one of them has it.
LEMMA InPagesAt ==
    ASSUME NEW s, NEW ks, NEW p
    PROVE  p \in PagesAt(s, ks) <=> \E k \in ks : p \in Run(s[k])
BY DEF PagesAt

\* One more index adds the pages of one more region.
LEMMA OneMore ==
    ASSUME NEW s, NEW ks, NEW k
    PROVE  PagesAt(s, ks \cup {k}) = PagesAt(s, ks) \cup Run(s[k])
BY InPagesAt

\* Collecting a region adds its pages.
LEMMA AppendPages ==
    ASSUME NEW s \in Seq(Regions), NEW r \in Regions
    PROVE  /\ Append(s, r) \in Seq(Regions)
           /\ Len(Append(s, r)) = Len(s) + 1
           /\ \A k \in 1 .. Len(s) : Append(s, r)[k] = s[k]
           /\ Append(s, r)[Len(s) + 1] = r
           /\ PagesIn(Append(s, r)) = PagesIn(s) \cup Run(r)
<1>1. /\ Append(s, r) \in Seq(Regions)
      /\ Len(Append(s, r)) = Len(s) + 1
      /\ \A k \in 1 .. Len(s) : Append(s, r)[k] = s[k]
      /\ Append(s, r)[Len(s) + 1] = r
  OBVIOUS
<1> DEFINE t == Append(s, r)
<1> HIDE DEF t
<1>2. Len(s) \in Nat /\ PagesAt(t, 1 .. Len(s)) = PagesIn(s)
  <2>1. Len(s) \in Nat /\ \A k \in 1 .. Len(s) : t[k] = s[k]
    BY <1>1 DEF t
  <2>2. ASSUME NEW p PROVE p \in PagesAt(t, 1 .. Len(s)) <=> p \in PagesAt(s, 1 .. Len(s))
    BY <2>1, InPagesAt
  <2> QED
    BY <2>1, <2>2 DEF PagesIn
<1>3. 1 .. Len(t) = (1 .. Len(s)) \cup {Len(s) + 1} /\ t[Len(s) + 1] = r
  BY <1>1, <1>2 DEF t
<1>4. PagesIn(t) = PagesIn(s) \cup Run(r)
  <2>1. PagesAt(t, (1 .. Len(s)) \cup {Len(s) + 1}) = PagesAt(t, 1 .. Len(s)) \cup Run(t[Len(s) + 1])
    BY OneMore
  <2>2. PagesIn(t) = PagesAt(t, (1 .. Len(s)) \cup {Len(s) + 1})
    BY <1>3, Zenon DEF PagesIn
  <2> QED
    BY <2>1, <2>2, <1>2, <1>3, Zenon
<1> QED
  BY <1>1, <1>4 DEF t

\* A region cut at a boundary leaves two that have its pages between them.
LEMMA CutRun ==
    ASSUME NEW r \in Regions, NEW b \in Nat, r.mem <= b, b <= r.mem + r.pages
    PROVE  /\ Region(r.mem, b - r.mem) \in Regions
           /\ Region(b, r.pages - (b - r.mem)) \in Regions
           /\ Run(r) = Run(Region(r.mem, b - r.mem)) \cup Run(Region(b, r.pages - (b - r.mem)))
<1>1. /\ Region(r.mem, b - r.mem) \in Regions
      /\ Region(b, r.pages - (b - r.mem)) \in Regions
  BY DEF Region, Regions
<1>2. ASSUME NEW p
      PROVE  p \in Run(r) <=> p \in Run(Region(r.mem, b - r.mem))
                              \/ p \in Run(Region(b, r.pages - (b - r.mem)))
  BY <1>1, InRun DEF Region, Regions
<1> QED
  BY <1>1, <1>2

\* The lists s and t differ in region k only, which has lost the pages q.
Shrunk(s, t, k, q) ==
    /\ s \in Seq(Regions) /\ t \in Seq(Regions) /\ Len(t) = Len(s)
    /\ k \in 1 .. Len(s) /\ Run(s[k]) = Run(t[k]) \cup q
    /\ \A l \in 1 .. Len(s) : l # k => t[l] = s[l]

\* A list of which one region shrinks loses what that region loses.
LEMMA ShrunkPages ==
    ASSUME NEW s, NEW t, NEW k, NEW q, Shrunk(s, t, k, q)
    PROVE  PagesIn(t) \cup q = PagesIn(s)
<1>1. ASSUME NEW p PROVE p \in PagesIn(t) \cup q <=> p \in PagesIn(s)
  BY InPagesAt DEF PagesIn, Shrunk
<1> QED
  BY <1>1

\* What a cut at a zone boundary leaves in the array.
LEMMA CutKeeps ==
    ASSUME NEW s \in Seq(Regions), NEW k \in 1 .. Len(s), NEW b \in Nat, Crosses(s[k], b)
    PROVE  LET t == CutAt(s, k, b)
           IN  /\ t \in Seq(Regions) /\ Len(t) = Len(s) + 1
               /\ t[k] = Region(s[k].mem, b - s[k].mem)
               /\ \A l \in 1 .. Len(s) : l # k => t[l] = s[l]
               /\ PagesIn(t) = PagesIn(s)
<1> DEFINE r == s[k]
           low == Region(r.mem, b - r.mem)
           high == Region(b, r.pages - (b - r.mem))
           u == [s EXCEPT ![k] = low]
<1>1. /\ r \in Regions /\ r.mem \in Nat /\ r.pages \in Nat /\ r.mem <= b /\ b <= r.mem + r.pages
  <2>1. r \in Regions
    OBVIOUS
  <2>2. r.mem \in Nat /\ r.pages \in Nat
    BY <2>1 DEF Regions
  <2> QED
    BY <2>1, <2>2 DEF Crosses
<1>2. low \in Regions /\ high \in Regions /\ Run(r) = Run(low) \cup Run(high)
  BY <1>1, CutRun
<1>3. CutAt(s, k, b) = Append(u, high)
  BY DEF CutAt
<1> HIDE DEF low, high
<1>4. /\ u \in Seq(Regions) /\ Len(u) = Len(s)
      /\ u[k] = low /\ \A l \in 1 .. Len(s) : l # k => u[l] = s[l]
  BY <1>2
<1> HIDE DEF u
<1>6. PagesIn(u) \cup Run(high) = PagesIn(s)
  <2>1. Shrunk(s, u, k, Run(high))
    BY <1>2, <1>4 DEF Shrunk
  <2> QED
    BY <2>1, ShrunkPages
<1>5. /\ Append(u, high) \in Seq(Regions)
      /\ Len(Append(u, high)) = Len(u) + 1
      /\ \A l \in 1 .. Len(u) : Append(u, high)[l] = u[l]
      /\ PagesIn(Append(u, high)) = PagesIn(u) \cup Run(high)
  BY <1>2, <1>4, AppendPages
<1> QED
  BY <1>3, <1>4, <1>5, <1>6 DEF low

-----------------------------------------------------------------------------
(* The steps.                                                              *)

\* The sizes.
LEMMA SetupSizes ==
    /\ ManagedPages \in Nat \ {0} /\ LowEnd \in Nat /\ LowEnd <= ManagedPages
    /\ PageSize \in Nat \ {0} /\ LowManagerSize \in Nat /\ ZoneManagerSize \in Nat
BY PmmInitAssumption

\* A page lies in a zone: quotient and rest.
LEMMA ZoneOf ==
    ASSUME NEW a \in Nat
    PROVE  /\ a \div ManagedPages \in Nat
           /\ memBoundaries(a \div ManagedPages) <= a
           /\ a < memBoundaries(a \div ManagedPages + 1)
BY SetupSizes DEF memBoundaries

\* What the types of the lists say of their members.
LEMMA Members ==
    ASSUME SetupTypeOK
    PROVE  /\ \A k \in 1 .. Len(map) :
                  map[k] \in Descriptors /\ map[k].mem \in Nat /\ map[k].pages \in Nat
           /\ \A k \in 1 .. Len(freeZones) :
                  freeZones[k] \in Regions /\ freeZones[k].mem \in Nat /\ freeZones[k].pages \in Nat
           /\ \A k \in 1 .. Len(lowZones) :
                  lowZones[k] \in Regions /\ lowZones[k].mem \in Nat /\ lowZones[k].pages \in Nat
           /\ Len(map) \in Nat /\ Len(freeZones) \in Nat /\ Len(lowZones) \in Nat
<1>1. /\ \A k \in 1 .. Len(map) : map[k] \in Descriptors
      /\ \A k \in 1 .. Len(freeZones) : freeZones[k] \in Regions
      /\ \A k \in 1 .. Len(lowZones) : lowZones[k] \in Regions
      /\ Len(map) \in Nat /\ Len(freeZones) \in Nat /\ Len(lowZones) \in Nat
  BY DEF SetupTypeOK
<1>2. /\ \A d \in Descriptors : d.mem \in Nat /\ d.pages \in Nat
      /\ \A r \in Regions : r.mem \in Nat /\ r.pages \in Nat
  BY DEF Descriptors, Regions
<1> QED
  BY <1>1, <1>2

\* The managers take a whole number of pages.
LEMMA ManagerPagesType ==
    ASSUME NEW n \in Nat PROVE ManagerPages(n) \in Nat
<1> DEFINE bytes == LowManagerSize + n * ZoneManagerSize
<1>1. bytes \in Nat
  BY SetupSizes
<1> HIDE DEF bytes
<1>2. bytes \div PageSize \in Nat
  BY <1>1, SetupSizes
<1> QED
  BY <1>2 DEF ManagerPages, bytes

\* Boundaries lie a zone apart.
LEMMA BoundaryType ==
    ASSUME NEW n \in Nat
    PROVE  memBoundaries(n) \in Nat /\ memBoundaries(n + 1) = memBoundaries(n) + ManagedPages
BY SetupSizes DEF memBoundaries

\* pfa_init starts with the map in order and nothing collected.
LEMMA InitInv == SetupInit => PmmInitInv
<1> SUFFICES ASSUME SetupInit PROVE PmmInitInv
  OBVIOUS
<1>1. firmware \in Seq(Descriptors) /\ InOrder(firmware)
  BY PmmInitAssumption DEF SetupInit
<1>2. SetupTypeOK
  BY <1>1 DEF SetupInit, SetupTypeOK, Steps
<1>3. MapSound
  <2>1. \A k \in 1 .. Len(map) : map[k].mem \in Nat /\ map[k].pages \in Nat
    BY <1>2, Members
  <2>2. \A k, l \in 1 .. Len(map) : k < l => map[k].mem <= map[l].mem
    BY <1>1, <2>1 DEF SetupInit, InOrder
  <2> QED
    BY <1>1, <2>2 DEF SetupInit, MapSound
<1>4. Collected
  BY DEF SetupInit, Collected, CutsCover, Unplaced
<1>5. CutSoFar
  BY DEF SetupInit, CutSoFar
<1>6. GivenSoFar
  BY DEF SetupInit, GivenSoFar
<1> QED
  BY <1>2, <1>3, <1>4, <1>5, <1>6 DEF PmmInitInv

\* The counting loop and the search change neither the map nor the regions.
LEMMA CountKeeps ==
    ASSUME PmmInitInv, CountRegion \/ CountAllocators \/ FindRegion \/ NoRegion
    PROVE  PmmInitInv'
<1> USE DEF PmmInitInv
<1>1. \A k \in 1 .. Len(map) : map[k].pages \in Nat
  BY Members
<1>2. SetupTypeOK'
  <2>1. CASE CountRegion
    BY <2>1, <1>1 DEF CountRegion, Round, SetupTypeOK, placed, handed
  <2>2. CASE CountAllocators
    <3>1. MemoryMapPageCount \div ManagedPages \in Nat
      BY ZoneOf DEF SetupTypeOK
    <3> QED
      BY <2>2, <3>1 DEF CountAllocators, Over, SetupTypeOK, figures, handed, Steps
  <2>3. CASE FindRegion
    BY <2>3 DEF FindRegion, Round, SetupTypeOK, figures, handed
  <2>4. CASE NoRegion
    BY <2>4 DEF NoRegion, SetupTypeOK, placed, figures, handed, Steps
  <2> QED
    BY <2>1, <2>2, <2>3, <2>4
<1>3. MapSound'
  <2>1. CASE CountRegion
    BY <2>1 DEF CountRegion, Round, MapSound, placed, handed
  <2>2. CASE CountAllocators
    BY <2>2 DEF CountAllocators, Over, MapSound, figures, handed, Unplaced
  <2>3. CASE FindRegion
    BY <2>3 DEF FindRegion, Round, MapSound, figures, handed, SetupTypeOK
  <2>4. CASE NoRegion
    BY <2>4 DEF NoRegion, MapSound, placed, figures, handed, Unplaced
  <2> QED
    BY <2>1, <2>2, <2>3, <2>4
<1>4. /\ step \in Unplaced /\ step' \in Unplaced
      /\ UNCHANGED <<map, freeZones, lowZones, given, givenLow>>
  BY DEF CountRegion, CountAllocators, FindRegion, NoRegion, Round, Over, Unplaced,
         placed, handed
<1>5. Collected'
  BY <1>4 DEF Collected, CutsCover, Unplaced
<1>6. CutSoFar'
  BY <1>4 DEF CutSoFar, Collected, Unplaced
<1>7. GivenSoFar'
  BY <1>4 DEF GivenSoFar, Unplaced
<1> QED
  BY <1>2, <1>3, <1>5, <1>6, <1>7

\* An empty list has no page.
LEMMA NoPages == PagesIn(<<>>) = {} /\ \A s : PagesAt(s, {}) = {}
<1>1. \A s : PagesAt(s, {}) = {}
  BY DEF PagesAt
<1>2. 1 .. Len(<<>>) = {}
  OBVIOUS
<1> QED
  BY <1>1, <1>2 DEF PagesIn

\* The descriptor the managers move gives up what they take, and starts no later
\* than the next.
LEMMA PlaceKeeps ==
    ASSUME PmmInitInv, PlaceManagers PROVE PmmInitInv'
<1> DEFINE b == biggestFree
           n == ManagerPages(managedZones)
           d == [map[b] EXCEPT !.mem = @ + n]
<1>0. SetupTypeOK /\ MapSound /\ Collected /\ CutSoFar /\ GivenSoFar
  BY DEF PmmInitInv
<1>1. /\ step = "place" /\ step' = "high" /\ i' = 1 /\ j' = 0
      /\ managers' = Run(Region(map[b].mem, n))
      /\ map' = [map EXCEPT ![b] = d]
      /\ UNCHANGED <<firmware, managedZones, biggestFree, MemoryMapPageCount, under4MiB, freeZones, lowZones, given, givenLow>>
  BY DEF PlaceManagers, Over, figures, handed
<1>2. b \in 1 .. Len(map) /\ n \in Nat /\ n < map[b].pages
  <2>1. b \in 0 .. Len(map) /\ b # 0 /\ Len(map) \in Nat
    BY <1>0, Members DEF SetupTypeOK, PlaceManagers
  <2>2. b \in 1 .. Len(map) /\ n \in Nat
    <3>1. managedZones \in Nat
      BY <1>0 DEF SetupTypeOK
    <3> QED
      BY <2>1, <3>1, ManagerPagesType
  <2>3. map[b].pages \in Nat
    BY <1>0, <2>2, Members
  <2> QED
    BY <1>0, <1>1, <2>1, <2>2, <2>3 DEF MapSound
<1>3. /\ d \in Descriptors /\ d.mem = map[b].mem + n /\ d.pages = map[b].pages
      /\ d.mem \in Nat /\ d.pages \in Nat
  <2>1. map[b] \in Descriptors
    BY <1>0, <1>2, Members
  <2> QED
    BY <1>2, <2>1 DEF Descriptors
<1> HIDE DEF d, n
<1>4. /\ map' \in Seq(Descriptors) /\ Len(map') = Len(map) /\ Len(map) \in Nat
      /\ map'[b] = d /\ \A k \in 1 .. Len(map) : k # b => map'[k] = map[k]
  BY <1>0, <1>1, <1>2, <1>3 DEF SetupTypeOK
<1>5. \A k \in 1 .. Len(map) : map[k].mem \in Nat /\ map[k].pages \in Nat
  BY <1>0, Members
<1>6. Region(map[b].mem, n).mem = map[b].mem /\ Region(map[b].mem, n).pages = n
  BY DEF Region
<1>7. \A p : p \in managers' <=> p \in Nat /\ map[b].mem <= p /\ p < map[b].mem + n
  BY <1>1, <1>2, <1>5, <1>6, InRun
<1>8. SetupTypeOK'
  BY <1>0, <1>1, <1>2, <1>4, <1>7 DEF SetupTypeOK, Steps
<1>9. InOrder(map)
  BY <1>0, <1>1 DEF MapSound, Unplaced
<1>10. MapSound'
  <2>1. \A k, l \in 1 .. Len(map) : k < l => map'[k].mem <= map'[l].mem
    <3> SUFFICES ASSUME NEW k \in 1 .. Len(map), NEW l \in 1 .. Len(map), k < l
                 PROVE  map'[k].mem <= map'[l].mem
      OBVIOUS
    <3>1. map[k].mem + map[k].pages <= map[l].mem
      BY <1>9 DEF InOrder
    <3>2. /\ map[k].mem \in Nat /\ map[k].pages \in Nat
          /\ map[l].mem \in Nat /\ map[l].pages \in Nat
      BY <1>5
    <3>3. CASE k = b
      <4>1. map'[k].mem = map[k].mem + n /\ map'[l].mem = map[l].mem /\ n < map[k].pages /\ n \in Nat
        <5>1. l # b /\ l \in 1 .. Len(map)
          BY <3>3, <1>2
        <5> QED
          BY <3>3, <5>1, <1>2, <1>3, <1>4, Zenon
      <4> QED
        BY <3>1, <3>2, <4>1
    <3>4. CASE l = b
      <4>1. map'[k].mem = map[k].mem /\ map'[l].mem = map[l].mem + n /\ n \in Nat
        <5>1. k # b /\ k \in 1 .. Len(map)
          BY <3>4, <1>2
        <5> QED
          BY <3>4, <5>1, <1>2, <1>3, <1>4, Zenon
      <4> QED
        BY <3>1, <3>2, <4>1
    <3>5. CASE k # b /\ l # b
      <4>1. map'[k].mem = map[k].mem /\ map'[l].mem = map[l].mem
        BY <3>5, <1>4
      <4> QED
        BY <3>1, <3>2, <4>1
    <3> QED
      BY <3>3, <3>4, <3>5
  <2>2. ASSUME NEW p \in managers', NEW k \in 1 .. Len(map) PROVE p \notin Run(map'[k])
    <3>1. CASE k = b
      BY <3>1, <1>3, <1>4, <1>7, <1>2, <1>5, InRun
    <3>2. CASE k < b
      <4>1. map[k].mem + map[k].pages <= map[b].mem
        BY <3>2, <1>2, <1>9 DEF InOrder
      <4>2. map'[k] = map[k] /\ map[k].mem \in Nat /\ map[k].pages \in Nat
        BY <3>2, <1>2, <1>4, <1>5
      <4>3. p \in Run(map[k]) <=> p \in Nat /\ map[k].mem <= p /\ p < map[k].mem + map[k].pages
        BY <4>2, InRun
      <4>4. p \in Nat /\ map[b].mem <= p /\ p < map[b].mem + n /\ map[b].mem \in Nat
        BY <1>2, <1>5, <1>7
      <4> QED
        BY <4>1, <4>2, <4>3, <4>4, <1>2, <1>5
    <3>3. CASE b < k
      <4>1. map[b].mem + map[b].pages <= map[k].mem
        BY <3>3, <1>2, <1>9 DEF InOrder
      <4>2. map'[k] = map[k] /\ map[k].mem \in Nat /\ map[k].pages \in Nat
        BY <3>3, <1>2, <1>4, <1>5
      <4>3. p \in Run(map[k]) <=> p \in Nat /\ map[k].mem <= p /\ p < map[k].mem + map[k].pages
        BY <4>2, InRun
      <4>4. p \in Nat /\ map[b].mem <= p /\ p < map[b].mem + n /\ map[b].mem \in Nat
        BY <1>2, <1>5, <1>7
      <4> QED
        BY <4>1, <4>2, <4>3, <4>4, <1>2, <1>5
    <3> QED
      BY <3>1, <3>2, <3>3, <1>2, <1>4
  <2>3. managers' \cap FreeIn(map') = {}
    BY <2>2, <1>4, InPagesAt DEF FreeIn
  <2> QED
    BY <2>1, <2>3, <1>1, <1>4 DEF MapSound, Unplaced
<1>11. Collected'
  <2>1. freeZones' = <<>> /\ lowZones' = <<>>
    BY <1>0, <1>1 DEF Collected, Unplaced
  <2>2. HighBefore(i)' = {}
    BY <1>1, <1>4 DEF HighBefore, FreeBefore
  <2> QED
    BY <2>1, <2>2, <1>1, NoPages DEF Collected, CutsCover, Unplaced
<1>12. CutSoFar'
  BY <1>0, <1>1 DEF CutSoFar, Collected, Unplaced
<1>13. GivenSoFar'
  BY <1>0, <1>1 DEF GivenSoFar
<1> QED
  BY <1>8, <1>10, <1>11, <1>12, <1>13 DEF PmmInitInv

\* Collecting the free descriptors above LowEnd.
LEMMA HighKeeps ==
    ASSUME PmmInitInv, CollectHigh \/ CollectHighDone PROVE PmmInitInv'
<1>0. SetupTypeOK /\ MapSound /\ Collected /\ CutSoFar /\ GivenSoFar
  BY DEF PmmInitInv
<1>1. /\ step = "high" /\ step' \in {"high", "low"}
      /\ UNCHANGED <<firmware, map, managedZones, biggestFree, managers, MemoryMapPageCount, under4MiB,
                     lowZones, given, givenLow, j>> \/ step' = "low"
      /\ UNCHANGED <<firmware, map, managedZones, biggestFree, managers, MemoryMapPageCount, under4MiB,
                     lowZones, given, givenLow>>
  BY DEF CollectHigh, CollectHighDone, Round, Over, placed, figures, handed
<1>2. ASSUME CollectHigh
      PROVE  i \in 1 .. Len(map) /\ i' = i + 1 /\ step' = "high" /\ j' = j
  BY <1>2, <1>0 DEF CollectHigh, Round, SetupTypeOK
<1>3. CASE CollectHigh /\ regionFree(map[i]) /\ map[i].mem >= LowEnd
  <2>1. freeZones' = Append(freeZones, Region(map[i].mem, map[i].pages))
    BY <1>3 DEF CollectHigh
  <2>2. /\ Region(map[i].mem, map[i].pages) \in Regions
        /\ Run(Region(map[i].mem, map[i].pages)) = Run(map[i])
    BY <1>2, <1>3, <1>0, Members DEF Region, Regions, Run
  <2>3. /\ freeZones' \in Seq(Regions)
        /\ PagesIn(freeZones') = PagesIn(freeZones) \cup Run(map[i])
    BY <2>1, <2>2, <1>0, AppendPages DEF SetupTypeOK
  <2>4. HighBefore(i + 1) = HighBefore(i) \cup {i}
    BY <1>2, <1>3, <1>0, Members DEF HighBefore, FreeBefore
  <2>5. PagesIn(freeZones') = PagesAt(map, HighBefore(i + 1))
    <3>1. PagesIn(freeZones) = PagesAt(map, HighBefore(i))
      BY <1>0, <1>1 DEF Collected
    <3>2. PagesAt(map, HighBefore(i) \cup {i}) = PagesAt(map, HighBefore(i)) \cup Run(map[i])
      BY OneMore
    <3> QED
      BY <2>3, <2>4, <3>1, <3>2, Zenon
  <2>6. Collected'
    BY <2>5, <1>0, <1>1, <1>2, <1>3 DEF Collected, CutsCover, HighBefore, FreeBefore, Unplaced
  <2> QED
    BY <2>3, <2>6, <1>0, <1>1, <1>2, <1>3
       DEF PmmInitInv, SetupTypeOK, MapSound, CutSoFar, GivenSoFar, Unplaced, Steps
<1>4. CASE CollectHigh /\ ~(regionFree(map[i]) /\ map[i].mem >= LowEnd)
  <2>1. freeZones' = freeZones
    BY <1>4 DEF CollectHigh
  <2>2. HighBefore(i + 1) = HighBefore(i)
    BY <1>2, <1>4, <1>0, Members DEF HighBefore, FreeBefore
  <2>3. Collected'
    BY <2>1, <2>2, <1>0, <1>1, <1>2, <1>4 DEF Collected, CutsCover, HighBefore, FreeBefore, Unplaced
  <2> QED
    BY <2>1, <2>3, <1>0, <1>1, <1>2, <1>4
       DEF PmmInitInv, SetupTypeOK, MapSound, CutSoFar, GivenSoFar, Unplaced, Steps
<1>5. CASE CollectHighDone
  <2>1. i > Len(map) /\ step' = "low" /\ i' = 1 /\ j' = 0 /\ freeZones' = freeZones
    BY <1>5 DEF CollectHighDone, Over
  <2>2. HighBefore(i) = HighBefore(Len(map) + 1)
    BY <2>1, <1>0, Members DEF HighBefore, FreeBefore, SetupTypeOK
  <2>3. FreeBefore(1) = {}
    BY <1>0, Members DEF FreeBefore
  <2>4. Collected'
    <3>1. HighBefore(Len(map) + 1)' = HighBefore(i) /\ FreeBefore(i)' = {}
      BY <2>1, <2>2, <2>3, <1>1 DEF HighBefore, FreeBefore
    <3>2. freeZones' = freeZones /\ lowZones' = <<>> /\ map' = map
      BY <2>1, <1>0, <1>1 DEF Collected, Unplaced
    <3>3. PagesIn(freeZones) = PagesAt(map, HighBefore(i))
      BY <1>0, <1>1 DEF Collected
    <3>4. \A k \in 1 .. Len(map) : ~(k < 1)
      BY <1>0, Members
    <3>5. /\ PagesIn(freeZones)' = PagesAt(map, HighBefore(Len(map) + 1))'
          /\ PagesIn(lowZones)' = PagesAt(map, FreeBefore(i))'
      BY <3>1, <3>2, <3>3, NoPages
    <3> QED
      BY <3>2, <3>4, <3>5, <2>1 DEF Collected, CutsCover, Unplaced
  <2> QED
    BY <2>1, <2>4, <1>0, <1>1
       DEF PmmInitInv, SetupTypeOK, MapSound, CutSoFar, GivenSoFar, Unplaced, Steps
<1> QED
  BY <1>3, <1>4, <1>5

\* Collecting the free descriptors below LowEnd.  When the loop ends, no descriptor
\* it did not reach is below, the descriptors being in order.
LEMMA LowKeeps ==
    ASSUME PmmInitInv, CollectLow \/ CollectLowDone PROVE PmmInitInv'
<1>0. SetupTypeOK /\ MapSound /\ Collected /\ CutSoFar /\ GivenSoFar
  BY DEF PmmInitInv
<1>1. /\ step = "low"
      /\ UNCHANGED <<firmware, map, managedZones, biggestFree, managers, MemoryMapPageCount, under4MiB,
                     freeZones, given, givenLow>>
  BY DEF CollectLow, CollectLowDone, Round, placed, figures, handed
<1>2. /\ PagesIn(freeZones) = PagesAt(map, HighBefore(Len(map) + 1))
      /\ PagesIn(lowZones) = PagesAt(map, FreeBefore(i))
      /\ \A k \in 1 .. Len(map) : k < i => map[k].mem < LowEnd
  BY <1>0, <1>1 DEF Collected
<1>3. \A n : HighBefore(n)' = HighBefore(n) /\ FreeBefore(n)' = FreeBefore(n)
  BY <1>1 DEF HighBefore, FreeBefore
<1>4. CASE CollectLow
  <2>1. i \in 1 .. Len(map) /\ map[i].mem < LowEnd /\ i' = i + 1 /\ step' = "low" /\ j' = j
    BY <1>4 DEF CollectLow, Round
  <2>2. \A k \in 1 .. Len(map) : k < i + 1 => map[k].mem < LowEnd
    BY <1>2, <2>1
  <2>3. /\ lowZones' \in Seq(Regions)
        /\ \A k \in 1 .. Len(lowZones') : lowZones'[k].mem < LowEnd
        /\ PagesIn(lowZones') = PagesAt(map, FreeBefore(i + 1))
    <3>1. CASE regionFree(map[i])
      <4> DEFINE r == Region(map[i].mem, map[i].pages)
      <4>1. r \in Regions /\ r.mem = map[i].mem /\ Run(r) = Run(map[i])
        BY <2>1, <1>0, Members DEF Region, Regions, Run
      <4>2. lowZones' = Append(lowZones, r)
        BY <1>4, <3>1 DEF CollectLow
      <4> HIDE DEF r
      <4>3. /\ lowZones' \in Seq(Regions) /\ Len(lowZones') = Len(lowZones) + 1
            /\ \A k \in 1 .. Len(lowZones) : lowZones'[k] = lowZones[k]
            /\ lowZones'[Len(lowZones) + 1] = r
            /\ PagesIn(lowZones') = PagesIn(lowZones) \cup Run(map[i])
        BY <4>1, <4>2, <1>0, AppendPages DEF SetupTypeOK
      <4>4. FreeBefore(i + 1) = FreeBefore(i) \cup {i}
        BY <2>1, <3>1, <1>0, Members DEF FreeBefore
      <4>5. PagesIn(lowZones') = PagesAt(map, FreeBefore(i + 1))
        <5>1. PagesAt(map, FreeBefore(i) \cup {i}) = PagesAt(map, FreeBefore(i)) \cup Run(map[i])
          BY OneMore
        <5> QED
          BY <5>1, <4>3, <4>4, <1>2, Zenon
      <4>6. \A k \in 1 .. Len(lowZones') : lowZones'[k].mem < LowEnd
        BY <4>1, <4>3, <2>1, <1>0, Members DEF CutSoFar
      <4> QED
        BY <4>3, <4>5, <4>6
    <3>2. CASE ~regionFree(map[i])
      <4>1. lowZones' = lowZones
        BY <1>4, <3>2 DEF CollectLow
      <4>2. FreeBefore(i + 1) = FreeBefore(i)
        BY <2>1, <3>2, <1>0, Members DEF FreeBefore
      <4> QED
        BY <4>1, <4>2, <1>0, <1>2 DEF CutSoFar, SetupTypeOK
    <3> QED
      BY <3>1, <3>2
  <2>4. SetupTypeOK'
    BY <2>1, <2>3, <1>0, <1>1 DEF SetupTypeOK
  <2>5. MapSound'
    BY <2>1, <1>0, <1>1 DEF MapSound, Unplaced
  <2>6. Collected'
    BY <2>1, <2>2, <2>3, <1>1, <1>2, <1>3 DEF Collected, CutsCover, Unplaced
  <2>7. CutSoFar'
    BY <2>1, <2>3 DEF CutSoFar
  <2>8. GivenSoFar'
    BY <2>1, <1>0, <1>1 DEF GivenSoFar
  <2> QED
    BY <2>4, <2>5, <2>6, <2>7, <2>8 DEF PmmInitInv
<1>5. CASE CollectLowDone
  <2>1. /\ i \in 1 .. Len(map) => map[i].mem >= LowEnd
        /\ i' = 1 /\ step' = "splitLow" /\ j' = 0 /\ lowZones' = lowZones
    BY <1>5 DEF CollectLowDone
  <2>2. i \in Nat /\ i # 0 /\ LowEnd \in Nat
    BY <1>0, <1>1, SetupSizes DEF SetupTypeOK
  <2>3. \A k \in 1 .. Len(map) : k >= i => map[k].mem >= LowEnd
    BY <2>1, <2>2, <1>0, Members DEF MapSound
  <2>4. ASSUME NEW k \in 1 .. Len(map), regionFree(map[k])
        PROVE  k \in HighBefore(Len(map) + 1) \/ k \in FreeBefore(i)
    BY <2>2, <2>3, <2>4, <1>0, Members DEF HighBefore, FreeBefore
  <2>5. ASSUME NEW k \in HighBefore(Len(map) + 1) \cup FreeBefore(i)
        PROVE  k \in 1 .. Len(map) /\ regionFree(map[k])
    BY DEF HighBefore, FreeBefore
  <2>6. ASSUME NEW p
        PROVE  p \in PagesIn(freeZones) \cup PagesIn(lowZones) <=> p \in FreeIn(map)
    BY <2>4, <2>5, <1>2, InPagesAt DEF FreeIn
  <2>7. Collected'
    BY <2>1, <2>6, <1>1 DEF Collected, CutsCover, Unplaced
  <2>8. CutSoFar'
    BY <2>1, <1>0, Members DEF CutSoFar
  <2> QED
    BY <2>1, <2>7, <2>8, <1>0, <1>1
       DEF PmmInitInv, SetupTypeOK, MapSound, GivenSoFar, Unplaced, Steps
<1> QED
  BY <1>4, <1>5

\* The cut at LowEnd.
LEMMA SplitLowKeeps ==
    ASSUME PmmInitInv, SplitLow \/ SplitLowDone PROVE PmmInitInv'
<1>0. SetupTypeOK /\ MapSound /\ Collected /\ CutSoFar /\ GivenSoFar
  BY DEF PmmInitInv
<1>1. /\ step = "splitLow"
      /\ UNCHANGED <<firmware, map, managedZones, biggestFree, managers, MemoryMapPageCount, under4MiB,
                     given, givenLow>>
  BY DEF SplitLow, SplitLowDone, Round, Over, placed, figures, handed
<1>2. PagesIn(freeZones) \cup PagesIn(lowZones) = FreeIn(map)
  BY <1>0, <1>1 DEF Collected, CutsCover
<1>3. CASE SplitLow
  <2> DEFINE r == lowZones[i]
  <2>1. i \in 1 .. Len(lowZones) /\ i' = i + 1 /\ step' = "splitLow" /\ j' = j
    BY <1>3, <1>0 DEF SplitLow, Round, SetupTypeOK
  <2>2. /\ r \in Regions /\ r.mem \in Nat /\ r.pages \in Nat /\ r.mem < LowEnd /\ LowEnd \in Nat
        /\ Len(lowZones) \in Nat
    BY <2>1, <1>0, Members, SetupSizes DEF CutSoFar
  <2>3. /\ freeZones' \in Seq(Regions) /\ lowZones' \in Seq(Regions)
        /\ Len(lowZones') = Len(lowZones)
        /\ \A k \in 1 .. Len(lowZones) : k # i => lowZones'[k] = lowZones[k]
        /\ lowZones'[i].mem < LowEnd /\ lowZones'[i].mem + lowZones'[i].pages <= LowEnd
        /\ PagesIn(freeZones') \cup PagesIn(lowZones') = PagesIn(freeZones) \cup PagesIn(lowZones)
    <3>1. CASE r.mem + r.pages > LowEnd
      <4> DEFINE low == Region(r.mem, LowEnd - r.mem)
                 high == Region(LowEnd, r.pages - (LowEnd - r.mem))
      <4>1. freeZones' = Append(freeZones, high) /\ lowZones' = [lowZones EXCEPT ![i] = low]
        BY <1>3, <3>1 DEF SplitLow
      <4>2. low.mem = r.mem /\ low.pages = LowEnd - r.mem
        BY DEF Region
      <4>3. low \in Regions /\ high \in Regions /\ Run(r) = Run(low) \cup Run(high)
        BY <2>2, <3>1, CutRun
      <4> HIDE DEF low, high, r
      <4>4. /\ freeZones' \in Seq(Regions)
            /\ PagesIn(freeZones') = PagesIn(freeZones) \cup Run(high)
        BY <4>1, <4>3, <1>0, AppendPages DEF SetupTypeOK
      <4>5. /\ lowZones' \in Seq(Regions) /\ Len(lowZones') = Len(lowZones)
            /\ lowZones'[i] = low
            /\ \A k \in 1 .. Len(lowZones) : k # i => lowZones'[k] = lowZones[k]
            /\ PagesIn(lowZones') \cup Run(high) = PagesIn(lowZones)
        <5>1. lowZones \in Seq(Regions) /\ Run(lowZones[i]) = Run(low) \cup Run(high)
          BY <4>3, <1>0 DEF SetupTypeOK, r
        <5>2. /\ lowZones' \in Seq(Regions) /\ Len(lowZones') = Len(lowZones)
              /\ lowZones'[i] = low
              /\ \A k \in 1 .. Len(lowZones) : k # i => lowZones'[k] = lowZones[k]
          BY <4>1, <4>3, <5>1, <2>1
        <5>3. Shrunk(lowZones, lowZones', i, Run(high))
          BY <5>1, <5>2, <2>1 DEF Shrunk
        <5>4. PagesIn(lowZones') \cup Run(high) = PagesIn(lowZones)
          BY <5>3, ShrunkPages
        <5> QED
          BY <5>2, <5>4
      <4> QED
        BY <4>2, <4>4, <4>5, <2>2
    <3>2. CASE ~(r.mem + r.pages > LowEnd)
      <4>1. freeZones' = freeZones /\ lowZones' = lowZones
        BY <1>3, <3>2 DEF SplitLow
      <4> QED
        BY <4>1, <3>2, <2>2, <1>0 DEF SetupTypeOK
    <3> QED
      BY <3>1, <3>2
  <2> HIDE DEF r
  <2>4. SetupTypeOK'
    BY <2>1, <2>3, <1>0, <1>1 DEF SetupTypeOK
  <2>5. MapSound'
    BY <2>1, <1>0, <1>1 DEF MapSound, Unplaced
  <2>6. Collected'
    BY <2>1, <2>3, <1>1, <1>2 DEF Collected, CutsCover, Unplaced
  <2>7. CutSoFar'
    <3>1. ASSUME NEW k \in 1 .. Len(lowZones) PROVE lowZones'[k].mem < LowEnd
      BY <2>3, <1>0 DEF CutSoFar
    <3>2. ASSUME NEW k \in 1 .. Len(lowZones), k < i + 1
          PROVE  lowZones'[k].mem + lowZones'[k].pages <= LowEnd
      <4>1. CASE k = i
        BY <4>1, <2>3
      <4>2. CASE k # i
        <5>1. k < i /\ lowZones'[k] = lowZones[k]
          BY <4>2, <3>2, <2>1, <2>3
        <5> QED
          BY <5>1, <1>0, <1>1 DEF CutSoFar
      <4> QED
        BY <4>1, <4>2
    <3> QED
      BY <3>1, <3>2, <2>1, <2>3 DEF CutSoFar
  <2>8. GivenSoFar'
    BY <2>1, <1>0, <1>1 DEF GivenSoFar
  <2> QED
    BY <2>4, <2>5, <2>6, <2>7, <2>8 DEF PmmInitInv
<1>4. CASE SplitLowDone
  <2>1. /\ i > Len(lowZones) /\ i' = 1 /\ step' = "split" /\ j' = 0
        /\ UNCHANGED <<freeZones, lowZones>>
    BY <1>4 DEF SplitLowDone, Over
  <2>2. Collected'
    BY <2>1, <1>1, <1>2 DEF Collected, CutsCover, Unplaced
  <2>3. CutSoFar'
    <3>1. \A k \in 1 .. Len(lowZones) : lowZones[k].mem + lowZones[k].pages <= LowEnd
      <4>1. \A k \in 1 .. Len(lowZones) : k < i
        BY <2>1, <1>0, Members DEF SetupTypeOK
      <4> QED
        BY <4>1, <1>0, <1>1 DEF CutSoFar
    <3>2. \A k \in 1 .. Len(freeZones), n \in 0 .. managedZones : ~(k < 1 \/ (k = 1 /\ n < 0))
      BY <1>0, Members DEF SetupTypeOK
    <3>3. 0 <= Boundaries'
      BY <1>0, <1>1 DEF SetupTypeOK, Boundaries
    <3> QED
      BY <3>1, <3>2, <3>3, <2>1, <1>0, <1>1 DEF CutSoFar
  <2> QED
    BY <2>1, <2>2, <2>3, <1>0, <1>1
       DEF PmmInitInv, SetupTypeOK, MapSound, GivenSoFar, Unplaced, Steps
<1> QED
  BY <1>3, <1>4

\* A boundary that does not cross a region does not cross what a cut leaves of it.
LEMMA CutCrosses ==
    ASSUME NEW r \in Regions, NEW b \in Nat, Crosses(r, b), NEW c \in Nat, ~Crosses(r, c)
    PROVE  /\ ~Crosses(Region(r.mem, b - r.mem), c)
           /\ ~Crosses(Region(r.mem, b - r.mem), b)
<1>1. r.mem \in Nat /\ r.pages \in Nat
  BY DEF Regions
<1> QED
  BY <1>1 DEF Crosses, Region

\* The cut at the zone boundaries: region i has been held against the boundaries
\* before j, and a part that is cut off waits for its own round.
LEMMA SplitKeeps ==
    ASSUME PmmInitInv, Split PROVE PmmInitInv'
<1>0. SetupTypeOK /\ MapSound /\ Collected /\ CutSoFar /\ GivenSoFar
  BY DEF PmmInitInv
<1> DEFINE b == memBoundaries(j)
<1>1. /\ step = "split" /\ step' = "split" /\ i' = i /\ j' = j + 1
      /\ i \in 1 .. Len(freeZones) /\ j \in 0 .. managedZones /\ managedZones \in Nat
      /\ UNCHANGED <<firmware, map, managedZones, biggestFree, managers, MemoryMapPageCount, under4MiB,
                     lowZones, given, givenLow>>
  BY <1>0 DEF Split, SetupTypeOK, placed, figures, handed, Boundaries
<1>10. b \in Nat
  <2>1. j \in Nat
    BY <1>0 DEF SetupTypeOK
  <2> QED
    BY <2>1, BoundaryType
<1>2. ASSUME NEW n \in 0 .. managedZones PROVE memBoundaries(n) \in Nat
  <2>1. n \in Nat
    BY <1>1
  <2> QED
    BY <2>1, BoundaryType
<1>3. \A k \in 1 .. Len(freeZones), n \in 0 .. managedZones :
         k < i \/ (k = i /\ n < j) => ~Crosses(freeZones[k], memBoundaries(n))
  BY <1>0, <1>1 DEF CutSoFar
<1>4. /\ freeZones' \in Seq(Regions) /\ PagesIn(freeZones') = PagesIn(freeZones)
      /\ Len(freeZones') >= Len(freeZones)
      /\ \A k \in 1 .. Len(freeZones) : k # i => freeZones'[k] = freeZones[k]
      /\ \A n \in 0 .. managedZones : n < j + 1 => ~Crosses(freeZones'[i], memBoundaries(n))
  <2>0. freeZones[i] \in Regions /\ freeZones \in Seq(Regions) /\ Len(freeZones) \in Nat
    BY <1>0, <1>1, Members DEF SetupTypeOK
  <2>1. CASE Crosses(freeZones[i], b)
    <3> DEFINE t == CutAt(freeZones, i, b)
    <3>1. freeZones' = t
      BY <2>1 DEF Split
    <3>2. /\ t \in Seq(Regions) /\ Len(t) = Len(freeZones) + 1
          /\ t[i] = Region(freeZones[i].mem, b - freeZones[i].mem)
          /\ \A l \in 1 .. Len(freeZones) : l # i => t[l] = freeZones[l]
          /\ PagesIn(t) = PagesIn(freeZones)
      BY <2>0, <2>1, <1>1, <1>10, CutKeeps
    <3> HIDE DEF t
    <3>3. ASSUME NEW n \in 0 .. managedZones, n < j + 1 PROVE ~Crosses(t[i], memBoundaries(n))
      <4>1. CASE n = j
        <5>1. freeZones[i].mem \in Nat /\ ~Crosses(freeZones[i], freeZones[i].mem)
          BY <2>0 DEF Regions, Crosses
        <5> QED
          BY <4>1, <5>1, <2>0, <2>1, <3>2, <1>1, <1>10, CutCrosses
      <4>2. CASE n < j
        <5>1. ~Crosses(freeZones[i], memBoundaries(n)) /\ memBoundaries(n) \in Nat
          BY <4>2, <1>1, <1>2, <1>3
        <5> QED
          BY <5>1, <2>0, <2>1, <3>2, <1>1, <1>10, CutCrosses
      <4> QED
        BY <3>3, <4>1, <4>2, <1>1
    <3> QED
      BY <3>1, <3>2, <3>3, <2>0
  <2>2. CASE ~Crosses(freeZones[i], b)
    <3>1. freeZones' = freeZones
      BY <2>2 DEF Split
    <3>2. ASSUME NEW n \in 0 .. managedZones, n < j + 1
          PROVE  ~Crosses(freeZones[i], memBoundaries(n))
      <4>1. CASE n = j
        BY <4>1, <2>2
      <4>2. CASE n < j
        BY <4>2, <1>1, <1>3
      <4> QED
        BY <3>2, <4>1, <4>2, <1>1
    <3> QED
      BY <3>1, <3>2, <2>0
  <2> QED
    BY <2>1, <2>2
<1> HIDE DEF b
<1>5. SetupTypeOK'
  BY <1>0, <1>1, <1>4 DEF SetupTypeOK
<1>6. MapSound'
  BY <1>0, <1>1 DEF MapSound, Unplaced
<1>7. Collected'
  <2>1. PagesIn(freeZones) \cup PagesIn(lowZones) = FreeIn(map)
    BY <1>0, <1>1 DEF Collected, CutsCover
  <2> QED
    BY <2>1, <1>1, <1>4 DEF Collected, CutsCover, Unplaced
<1>8. CutSoFar'
  <2>1. j' <= Boundaries'
    BY <1>1 DEF Boundaries
  <2>2. \A k \in 1 .. Len(freeZones'), n \in 0 .. managedZones :
           k < i \/ (k = i /\ n < j + 1) => ~Crosses(freeZones'[k], memBoundaries(n))
    <3> SUFFICES ASSUME NEW k \in 1 .. Len(freeZones'), NEW n \in 0 .. managedZones,
                        k < i \/ (k = i /\ n < j + 1)
                 PROVE  ~Crosses(freeZones'[k], memBoundaries(n))
      OBVIOUS
    <3>1. CASE k = i
      BY <3>1, <1>4, <1>1
    <3>2. CASE k < i
      <4>1. k \in 1 .. Len(freeZones) /\ freeZones'[k] = freeZones[k]
        BY <3>2, <1>1, <1>4
      <4> QED
        BY <3>2, <4>1, <1>3
    <3> QED
      BY <3>1, <3>2
  <2> QED
    BY <2>1, <2>2, <1>0, <1>1 DEF CutSoFar
<1>9. GivenSoFar'
  BY <1>0, <1>1 DEF GivenSoFar
<1> QED
  BY <1>5, <1>6, <1>7, <1>8, <1>9 DEF PmmInitInv

\* Past the last boundary the region is inside its zone, and past the last region
\* all of them are.
LEMMA SplitNextKeeps ==
    ASSUME PmmInitInv, SplitNext \/ SplitDone PROVE PmmInitInv'
<1>0. SetupTypeOK /\ MapSound /\ Collected /\ CutSoFar /\ GivenSoFar
  BY DEF PmmInitInv
<1>1. /\ step = "split" /\ step' \in {"split", "give"} /\ j' = 0
      /\ UNCHANGED <<firmware, map, managedZones, biggestFree, managers, MemoryMapPageCount, under4MiB,
                     freeZones, lowZones, given, givenLow>>
  BY DEF SplitNext, SplitDone, Over, placed, figures, handed
<1>2. \A k \in 1 .. Len(freeZones), n \in 0 .. managedZones :
         k < i \/ (k = i /\ n < j) => ~Crosses(freeZones[k], memBoundaries(n))
  BY <1>0, <1>1 DEF CutSoFar
<1>4. MapSound' /\ Collected'
  BY <1>0, <1>1 DEF MapSound, Collected, CutsCover, Unplaced
<1>5. \A k \in 1 .. Len(lowZones) :
         lowZones[k].mem < LowEnd /\ lowZones[k].mem + lowZones[k].pages <= LowEnd
  BY <1>0, <1>1 DEF CutSoFar
<1>6. 0 <= Boundaries' /\ managedZones \in Nat /\ i \in Nat /\ j \in Nat /\ Len(freeZones) \in Nat
  BY <1>0, <1>1, Members DEF SetupTypeOK, Boundaries
<1>7. CASE SplitNext
  <2>1. step' = "split" /\ i' = i + 1 /\ j = managedZones + 1
    BY <1>7 DEF SplitNext, Boundaries
  <2>2. \A k \in 1 .. Len(freeZones), n \in 0 .. managedZones :
           k < i + 1 \/ (k = i + 1 /\ n < 0) => k < i \/ (k = i /\ n < j)
    BY <2>1, <1>6
  <2>3. CutSoFar'
    BY <2>1, <2>2, <1>1, <1>2, <1>5, <1>6 DEF CutSoFar
  <2> QED
    BY <2>1, <2>3, <1>0, <1>1, <1>4 DEF PmmInitInv, SetupTypeOK, GivenSoFar, Steps
<1>8. CASE SplitDone
  <2>1. step' = "give" /\ i' = 0 /\ i > Len(freeZones)
    BY <1>8 DEF SplitDone, Over
  <2>2. \A k \in 1 .. Len(freeZones) : k < i
    BY <2>1, <1>6
  <2>3. CutSoFar'
    BY <2>1, <2>2, <1>1, <1>2, <1>5 DEF CutSoFar
  <2> QED
    BY <2>1, <2>3, <1>0, <1>1, <1>4, <1>6 DEF PmmInitInv, SetupTypeOK, GivenSoFar, Steps
<1> QED
  BY <1>7, <1>8

\* Giving an allocator the regions of its zone.
LEMMA GiveKeeps ==
    ASSUME PmmInitInv, Give PROVE PmmInitInv'
<1>0. SetupTypeOK /\ MapSound /\ Collected /\ CutSoFar /\ GivenSoFar
  BY DEF PmmInitInv
<1> DEFINE Mapped(n) == PagesAt(freeZones, {k \in 1 .. Len(freeZones) :
                                               mapZoneToAllocator(freeZones[k]) = n})
<1>1. /\ step = "give" /\ step' = "give" /\ i' = i + 1 /\ j' = j /\ i < managedZones
      /\ UNCHANGED <<firmware, map, managedZones, biggestFree, managers, MemoryMapPageCount, under4MiB,
                     freeZones, lowZones, givenLow>>
      /\ given' = Append(given, Mapped(i))
  BY DEF Give, placed, figures
<1>2. Mapped(i) \subseteq Nat
  <2> SUFFICES ASSUME NEW p \in Mapped(i) PROVE p \in Nat
    OBVIOUS
  <2>1. PICK k \in 1 .. Len(freeZones) : p \in Run(freeZones[k])
    BY InPagesAt
  <2> QED
    BY <2>1, <1>0, Members, InRun
<1>3. /\ Len(given) = i /\ i <= managedZones /\ i \in Nat /\ managedZones \in Nat
      /\ given \in Seq(SUBSET Nat)
      /\ \A n \in 1 .. Len(given) : given[n] = Mapped(n - 1)
  BY <1>0, <1>1 DEF SetupTypeOK, GivenSoFar
<1> HIDE DEF Mapped
<1>4. /\ given' \in Seq(SUBSET Nat) /\ Len(given') = i + 1
      /\ given'[i + 1] = Mapped(i) /\ \A n \in 1 .. i : given'[n] = given[n]
  BY <1>1, <1>2, <1>3
<1>5. \A n \in 1 .. Len(given') : given'[n] = Mapped(n - 1)
  <2> SUFFICES ASSUME NEW n \in 1 .. i + 1 PROVE given'[n] = Mapped(n - 1)
    BY <1>4
  <2>1. CASE n = i + 1
    BY <2>1, <1>3, <1>4
  <2>2. CASE n \in 1 .. i
    BY <2>2, <1>3, <1>4
  <2> QED
    BY <2>1, <2>2, <1>3
<1>6. GivenSoFar'
  BY <1>0, <1>1, <1>3, <1>4, <1>5 DEF GivenSoFar, Mapped
<1>7. SetupTypeOK'
  BY <1>0, <1>1, <1>4 DEF SetupTypeOK
<1>8. MapSound' /\ Collected'
  BY <1>0, <1>1 DEF MapSound, Collected, CutsCover, Unplaced
<1>9. CutSoFar'
  BY <1>0, <1>1 DEF CutSoFar
<1> QED
  BY <1>6, <1>7, <1>8, <1>9 DEF PmmInitInv

\* The low regions end at LowEnd.
LEMMA LowRunPages ==
    ASSUME SetupTypeOK, CutSoFar, step \in {"split", "give", "done"}
    PROVE  PagesIn(lowZones) \subseteq 0 .. LowEnd - 1
<1> SUFFICES ASSUME NEW p \in PagesIn(lowZones) PROVE p \in 0 .. LowEnd - 1
  OBVIOUS
<1>1. PICK k \in 1 .. Len(lowZones) : p \in Run(lowZones[k])
  BY InPagesAt DEF PagesIn
<1>2. /\ lowZones[k].mem \in Nat /\ lowZones[k].pages \in Nat
      /\ lowZones[k].mem + lowZones[k].pages <= LowEnd /\ LowEnd \in Nat
  BY Members, SetupSizes DEF CutSoFar
<1>3. p \in Nat /\ p < lowZones[k].mem + lowZones[k].pages
  BY <1>1, <1>2, InRun
<1> QED
  BY <1>2, <1>3

\* Giving the low allocator its regions, and whatever lies behind them when
\* there are fewer than it is told.
LEMMA GiveLowKeeps ==
    ASSUME PmmInitInv, GiveLow PROVE PmmInitInv'
<1>0. SetupTypeOK /\ MapSound /\ Collected /\ CutSoFar /\ GivenSoFar
  BY DEF PmmInitInv
<1>1. /\ step = "give" /\ step' = "done" /\ i = managedZones
      /\ UNCHANGED <<firmware, map, managedZones, biggestFree, managers, MemoryMapPageCount, under4MiB,
                     i, j, freeZones, lowZones, given>>
  BY DEF GiveLow, placed, figures
<1>2. PagesIn(lowZones) \subseteq 0 .. LowEnd - 1 /\ LowEnd \in Nat
  BY <1>0, <1>1, LowRunPages, SetupSizes
<1>3. /\ PagesIn(lowZones) \subseteq givenLow' /\ givenLow' \subseteq Nat
      /\ LowWritten => givenLow' = PagesIn(lowZones)
  <2>1. PICK junk \in SUBSET Nat : /\ givenLow' = PagesIn(lowZones) \cup junk
                                   /\ LowWritten => junk = {}
    BY PmmInitAssumption DEF GiveLow, LowWritten
  <2>2. PagesIn(lowZones) \subseteq Nat
    BY <1>2
  <2> QED
    BY <2>1, <2>2
<1>4. GivenSoFar'
  BY <1>0, <1>1, <1>3 DEF GivenSoFar, LowWritten
<1>5. SetupTypeOK'
  BY <1>0, <1>1, <1>2, <1>3 DEF SetupTypeOK, Steps
<1>6. MapSound' /\ Collected'
  BY <1>0, <1>1 DEF MapSound, Collected, CutsCover, Unplaced
<1>7. CutSoFar'
  BY <1>0, <1>1 DEF CutSoFar
<1> QED
  BY <1>4, <1>5, <1>6, <1>7 DEF PmmInitInv

\* Every step of pfa_init keeps the invariant.
LEMMA StepInv == PmmInitInv /\ [SetupNext]_setupVars => PmmInitInv'
<1> SUFFICES ASSUME PmmInitInv, [SetupNext]_setupVars PROVE PmmInitInv'
  OBVIOUS
<1>1. CASE CountRegion \/ CountAllocators \/ FindRegion \/ NoRegion
  BY <1>1, CountKeeps
<1>2. CASE PlaceManagers
  BY <1>2, PlaceKeeps
<1>3. CASE CollectHigh \/ CollectHighDone
  BY <1>3, HighKeeps
<1>4. CASE CollectLow \/ CollectLowDone
  BY <1>4, LowKeeps
<1>5. CASE SplitLow \/ SplitLowDone
  BY <1>5, SplitLowKeeps
<1>6. CASE Split
  BY <1>6, SplitKeeps
<1>7. CASE SplitNext \/ SplitDone
  BY <1>7, SplitNextKeeps
<1>8. CASE Give
  BY <1>8, GiveKeeps
<1>9. CASE GiveLow
  BY <1>9, GiveLowKeeps
<1>10. CASE UNCHANGED setupVars
  <2>1. UNCHANGED <<firmware, map, step, i, j, MemoryMapPageCount, under4MiB, managedZones, biggestFree,
                    managers, freeZones, lowZones, given, givenLow>>
    BY <1>10 DEF setupVars, placed, figures, handed
  <2>2. SetupTypeOK' /\ MapSound'
    BY <2>1 DEF PmmInitInv, SetupTypeOK, MapSound
  <2>3. Collected'
    BY <2>1 DEF PmmInitInv, Collected, CutsCover, HighBefore, FreeBefore
  <2>4. CutSoFar'
    BY <2>1 DEF PmmInitInv, CutSoFar, Boundaries
  <2>5. GivenSoFar'
    BY <2>1 DEF PmmInitInv, GivenSoFar, LowWritten
  <2> QED
    BY <2>2, <2>3, <2>4, <2>5 DEF PmmInitInv
<1> QED
  BY <1>1, <1>2, <1>3, <1>4, <1>5, <1>6, <1>7, <1>8, <1>9, <1>10 DEF SetupNext

-----------------------------------------------------------------------------
(* The theorems.                                                           *)

\* A region that maps to a zone and is crossed by no boundary lies in the zone.
LEMMA RegionInZone ==
    ASSUME NEW r, r.mem \in Nat, r.pages \in Nat, NEW p \in Run(r),
           NEW n \in Nat \ {0}, mapZoneToAllocator(r) = n - 1, ~Crosses(r, memBoundaries(n))
    PROVE  p \in memBoundaries(n - 1) .. memBoundaries(n) - 1
<1> DEFINE m == n - 1
<1>1. m \in Nat /\ n = m + 1 /\ r.mem \div ManagedPages = m
  BY DEF mapZoneToAllocator
<1> HIDE DEF m
<1>2. memBoundaries(m) <= r.mem /\ r.mem < memBoundaries(m + 1)
  BY <1>1, ZoneOf
<1>3. memBoundaries(m) \in Nat /\ memBoundaries(m + 1) \in Nat
  BY <1>1, BoundaryType
<1>4. p \in Nat /\ r.mem <= p /\ p < r.mem + r.pages
  BY InRun
<1>5. r.mem + r.pages <= memBoundaries(m + 1)
  BY <1>1, <1>2, <1>3 DEF Crosses
<1> QED
  BY <1>1, <1>2, <1>3, <1>4, <1>5

\* The map the loops work on lists what the firmware's does, without the managers and
\* with the overhang of their region.
LEMMA FreeMoves ==
    ASSUME SetupTypeOK, Moved, step \notin Unplaced
    PROVE  /\ FreeIn(firmware) \ managers \subseteq FreeIn(map)
           /\ FreeIn(map) \subseteq FreeIn(firmware) \cup Overhang
<1> DEFINE b == biggestFree
           n == ManagerPages(managedZones)
<1>1. /\ b \in 1 .. Len(firmware) /\ n \in Nat /\ Len(map) = Len(firmware)
      /\ managers = Run(Region(firmware[b].mem, n))
      /\ map = [firmware EXCEPT ![b].mem = @ + n]
  BY ManagerPagesType DEF Moved, SetupTypeOK
<1>2. \A k \in 1 .. Len(firmware) :
         /\ firmware[k].mem \in Nat /\ firmware[k].pages \in Nat /\ map[k].free = firmware[k].free
         /\ k # b => map[k] = firmware[k]
         /\ k = b => map[k].mem = firmware[k].mem + n /\ map[k].pages = firmware[k].pages
  <2>1. \A k \in 1 .. Len(firmware) : firmware[k] \in Descriptors
    BY DEF SetupTypeOK
  <2>2. \A k \in 1 .. Len(firmware) :
           map[k] = IF k = b THEN [firmware[b] EXCEPT !.mem = @ + n] ELSE firmware[k]
    BY <1>1 DEF SetupTypeOK
  <2> QED
    BY <2>1, <2>2 DEF Descriptors
<1> HIDE DEF b, n
<1>3. ASSUME NEW p \in FreeIn(firmware) \ managers PROVE p \in FreeIn(map)
  <2>1. PICK k \in 1 .. Len(firmware) : firmware[k].free /\ p \in Run(firmware[k])
    BY <1>3, InPagesAt DEF FreeIn, regionFree
  <2>2. p \in Run(map[k])
    <3>1. CASE k # b
      BY <3>1, <2>1, <1>2
    <3>2. CASE k = b
      <4>1. p \in Nat /\ firmware[b].mem <= p /\ p < firmware[b].mem + firmware[b].pages
        BY <2>1, <3>2, <1>2, InRun
      <4>2. ~(p < firmware[b].mem + n)
        BY <4>1, <1>1, <1>2 DEF Run, Region
      <4>3. /\ map[k].mem = firmware[b].mem + n /\ map[k].pages = firmware[b].pages
            /\ map[k].mem \in Nat /\ map[k].pages \in Nat
        BY <3>2, <1>1, <1>2
      <4>4. map[k].mem <= p /\ p < map[k].mem + map[k].pages
        BY <4>1, <4>2, <4>3, <1>1, <1>2
      <4> QED
        BY <4>1, <4>3, <4>4, InRun
    <3> QED
      BY <3>1, <3>2
  <2>3. PagesAt(map, {l \in 1 .. Len(map) : map[l].free}) = FreeIn(map)
    BY DEF FreeIn, regionFree
  <2>4. k \in {l \in 1 .. Len(map) : map[l].free}
    BY <2>1, <1>1, <1>2
  <2> QED
    BY <2>2, <2>3, <2>4, InPagesAt
<1>4. ASSUME NEW p \in FreeIn(map), p \notin Overhang PROVE p \in FreeIn(firmware)
  <2>1. PICK k \in 1 .. Len(map) : map[k].free /\ p \in Run(map[k])
    BY <1>4, InPagesAt DEF FreeIn, regionFree
  <2>2. p \in Run(firmware[k])
    <3>1. CASE k # b
      BY <3>1, <2>1, <1>1, <1>2
    <3>2. CASE k = b
      <4>1. p \in Nat /\ firmware[b].mem + n <= p /\ p < firmware[b].mem + n + firmware[b].pages
        <5>1. /\ map[k].mem = firmware[b].mem + n /\ map[k].pages = firmware[b].pages
              /\ map[k].mem \in Nat /\ map[k].pages \in Nat
          BY <3>2, <1>1, <1>2
        <5>2. p \in Nat /\ map[k].mem <= p /\ p < map[k].mem + map[k].pages
          BY <2>1, <5>1, InRun
        <5> QED
          BY <5>1, <5>2
      <4>2. Overhang = Run(Region(firmware[b].mem + firmware[b].pages, n))
        BY <1>1 DEF Overhang, b, n
      <4>3. p < firmware[b].mem + firmware[b].pages
        BY <4>1, <4>2, <1>1, <1>2, <1>4 DEF Run, Region
      <4> QED
        BY <3>2, <4>1, <4>3, <1>1, <1>2, InRun
    <3> QED
      BY <3>1, <3>2
  <2> QED
    BY <2>1, <2>2, <1>1, <1>2, InPagesAt DEF FreeIn, regionFree
<1> QED
  BY <1>3, <1>4

\* Only the placing of the managers changes the map.
LEMMA StepMoved == ASSUME PmmInitInv, Moved, [SetupNext]_setupVars PROVE Moved'
<1>1. CASE PlaceManagers
  <2>1. /\ step = "place" /\ step' = "high" /\ map = firmware
        /\ biggestFree \in 0 .. Len(map) /\ biggestFree # 0
    BY <1>1 DEF PlaceManagers, Over, Moved, Unplaced, PmmInitInv, SetupTypeOK
  <2> QED
    BY <1>1, <2>1 DEF PlaceManagers, Moved, Unplaced
<1>2. CASE CountRegion \/ CountAllocators \/ FindRegion \/ NoRegion
  <2>1. step \in Unplaced /\ step' \in Unplaced /\ UNCHANGED <<map, firmware>>
    BY <1>2 DEF CountRegion, CountAllocators, FindRegion, NoRegion, Round, Over, Unplaced, placed
  <2> QED
    BY <2>1 DEF Moved
<1>3. CASE CollectHigh \/ CollectHighDone \/ CollectLow \/ CollectLowDone \/ SplitLow
           \/ SplitLowDone \/ Split \/ SplitNext \/ SplitDone \/ Give \/ GiveLow
  <2>1. step \notin Unplaced /\ step' \notin Unplaced /\ UNCHANGED placed
    BY <1>3 DEF CollectHigh, CollectHighDone, CollectLow, CollectLowDone, SplitLow, SplitLowDone,
                Split, SplitNext, SplitDone, Give, GiveLow, Round, Over, Unplaced
  <2> QED
    BY <2>1 DEF Moved, placed
<1>4. CASE UNCHANGED setupVars
  BY <1>4 DEF setupVars, placed, Moved
<1> QED
  BY <1>1, <1>2, <1>3, <1>4 DEF SetupNext

\* The inductive invariant gives the properties of pfa_init.
LEMMA InvImplies == PmmInitInv /\ Moved => InsideOwnZone /\ FreeMemoryKept /\ ManagersSafe
<1> SUFFICES ASSUME PmmInitInv, Moved PROVE InsideOwnZone /\ FreeMemoryKept /\ ManagersSafe
  OBVIOUS
<1>0. SetupTypeOK /\ MapSound /\ Collected /\ CutSoFar /\ GivenSoFar
  BY DEF PmmInitInv
<1>1. /\ Len(given) \in Nat /\ managedZones \in Nat
      /\ Len(given) # 0 => step \in {"give", "done"}
      /\ Len(given) <= managedZones
      /\ step = "done" => Len(given) = managedZones
  BY <1>0 DEF SetupTypeOK, GivenSoFar
<1>2. ASSUME NEW n \in 1 .. Len(given), NEW p
      PROVE  p \in given[n] <=> \E k \in 1 .. Len(freeZones) :
                /\ mapZoneToAllocator(freeZones[k]) = n - 1
                /\ p \in Run(freeZones[k])
  <2>1. given[n] = PagesAt(freeZones, {k \in 1 .. Len(freeZones) :
                                          mapZoneToAllocator(freeZones[k]) = n - 1})
    BY <1>0 DEF GivenSoFar
  <2> QED
    BY <2>1, InPagesAt
<1>3. InsideOwnZone
  <2>1. ASSUME NEW n \in 1 .. Len(given), NEW p \in given[n]
        PROVE  p \in memBoundaries(n - 1) .. memBoundaries(n) - 1
    <3>1. PICK k \in 1 .. Len(freeZones) :
               mapZoneToAllocator(freeZones[k]) = n - 1 /\ p \in Run(freeZones[k])
      BY <1>2
    <3>2. n \in 0 .. managedZones /\ n \in Nat \ {0} /\ step \in {"give", "done"}
      BY <1>1
    <3>3. ~Crosses(freeZones[k], memBoundaries(n))
      BY <3>2, <1>0 DEF CutSoFar
    <3>4. freeZones[k].mem \in Nat /\ freeZones[k].pages \in Nat
      BY <1>0, Members
    <3> QED
      BY <3>1, <3>2, <3>3, <3>4, RegionInZone
  <2>2. LowWritten => givenLow \subseteq 0 .. LowEnd - 1
    BY <1>0, LowRunPages DEF GivenSoFar
  <2> QED
    BY <2>1, <2>2 DEF InsideOwnZone
<1>4. ASSUME step = "done", NEW p \in FreeIn(map), p < memBoundaries(managedZones)
      PROVE  p \in AllGiven
  <2> SUFFICES ASSUME p \notin givenLow PROVE p \in UNION {given[n] : n \in 1 .. Len(given)}
    BY DEF AllGiven
  <2>1. p \in PagesIn(freeZones)
    BY <1>0, <1>4 DEF Collected, CutsCover, GivenSoFar
  <2>2. PICK k \in 1 .. Len(freeZones) : p \in Run(freeZones[k])
    BY <2>1, InPagesAt DEF PagesIn
  <2>3. freeZones[k].mem \in Nat /\ freeZones[k].pages \in Nat
    BY <1>0, Members
  <2>4. p \in Nat /\ freeZones[k].mem <= p
    BY <2>2, <2>3, InRun
  <2> DEFINE q == freeZones[k].mem \div ManagedPages
  <2>5. q \in Nat /\ memBoundaries(q) <= freeZones[k].mem
    BY <2>3, ZoneOf
  <2>6. mapZoneToAllocator(freeZones[k]) = q
    BY DEF mapZoneToAllocator
  <2> HIDE DEF q
  <2>7. q < managedZones
    <3>1. q * ManagedPages < managedZones * ManagedPages
      BY <2>3, <2>4, <2>5, <1>1, <1>4, SetupSizes DEF memBoundaries
    <3> QED
      BY <3>1, <2>5, <1>1, SetupSizes
  <2>8. q + 1 \in 1 .. Len(given) /\ (q + 1) - 1 = q
    BY <2>5, <2>7, <1>1, <1>4
  <2>9. p \in given[q + 1]
    BY <2>2, <2>6, <2>8, <1>2
  <2> QED
    BY <2>8, <2>9
<1>5. ASSUME LowWritten, NEW p \in AllGiven PROVE step \notin Unplaced /\ p \in FreeIn(map)
  <2>1. step \in {"give", "done"} /\ p \in PagesIn(freeZones) \cup PagesIn(lowZones)
    <3>1. CASE p \in givenLow
      BY <3>1, <1>0, <1>5 DEF GivenSoFar
    <3>2. CASE p \notin givenLow
      <4>1. PICK n \in 1 .. Len(given) : p \in given[n]
        BY <3>2 DEF AllGiven
      <4>2. \E k \in 1 .. Len(freeZones) : p \in Run(freeZones[k])
        BY <4>1, <1>2
      <4> QED
        BY <4>1, <4>2, <1>1, InPagesAt DEF PagesIn
    <3> QED
      BY <3>1, <3>2
  <2> QED
    BY <2>1, <1>0 DEF Collected, CutsCover, Unplaced
<1>6. ManagersSafe
  BY <1>0, <1>5 DEF MapSound, ManagersSafe
<1>7. FreeMemoryKept
  <2>1. ASSUME step = "done", NEW p \in FreeIn(firmware) \ managers,
               p < memBoundaries(managedZones)
        PROVE  p \in AllGiven
    BY <1>0, <1>4, <2>1, FreeMoves DEF Unplaced
  <2>2. ASSUME LowWritten, NEW p \in AllGiven PROVE p \in FreeIn(firmware) \cup Overhang
    BY <1>0, <1>5, <2>2, FreeMoves
  <2> QED
    BY <2>1, <2>2 DEF FreeMemoryKept
<1> QED
  BY <1>3, <1>6, <1>7

\* pfa_init keeps its inductive invariant for every map in order and every size.
THEOREM PmmInitInvariant == SetupSpec => [](PmmInitInv /\ Moved)
<1>1. SetupInit => Moved
  BY DEF SetupInit, Moved, Unplaced
<1> QED
  BY <1>1, InitInv, StepInv, StepMoved, PTL DEF SetupSpec

\* No allocator is given a page of another zone, whatever the loader's map; the low one
\* is not if the array of its regions was written.
THEOREM PagesInOwnZone == SetupSpec => []InsideOwnZone
<1>1. PmmInitInv /\ Moved => InsideOwnZone
  BY InvImplies
<1> QED
  BY <1>1, PmmInitInvariant, PTL

\* Between the firmware's map and the allocators no free page is lost but the managers'
\* own, and none is invented but the overhang of their region.
THEOREM FreeMemoryIsKept == SetupSpec => []FreeMemoryKept
<1>1. PmmInitInv /\ Moved => FreeMemoryKept
  BY InvImplies
<1> QED
  BY <1>1, PmmInitInvariant, PTL

\* The managers do not lie in the memory that is given out.
THEOREM ManagersAreSafe == SetupSpec => []ManagersSafe
<1>1. PmmInitInv /\ Moved => ManagersSafe
  BY InvImplies
<1> QED
  BY <1>1, PmmInitInvariant, PTL
=============================================================================
