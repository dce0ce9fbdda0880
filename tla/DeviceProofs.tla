---------------------------- MODULE DeviceProofs ----------------------------
(***************************************************************************)
(* The proofs about interrupts and timers: an interrupt finds its own      *)
(* handler, and a wait on the HPET is sound.                               *)
(***************************************************************************)
EXTENDS Interrupts, Timers, WellFoundedInduction, TLAPS

-----------------------------------------------------------------------------
(***************************************************************************)
(* An interrupt finds its own handler, for every number of vectors, every  *)
(* set of GSIs, every I/O APIC layout the firmware may describe and any    *)
(* order of installations and arrivals.                                    *)
(*                                                                         *)
(* RoutesSound is about what is unmasked now.  It is kept because only the *)
(* router's entry of a GSI ever unmasks an input (InputsFollowEntries),    *)
(* the entry leads to the input of its own GSI (LeadsToItsInput), and its  *)
(* handler is in place before the input is opened (InstallationInv).       *)
(***************************************************************************)

\* A set of numbers has a smallest one: Min is a member.
LEMMA SmallestExists ==
    ASSUME NEW S \in SUBSET Nat, S # {}
    PROVE  Min(S) \in S
  <1> DEFINE R == OpToRel(<, Nat)
  <1>1. PICK m \in S : \A y \in S : ~(<<y, m>> \in R)
    BY NatLessThanWellFounded, WFMin
  <1>2. \A y \in S : ~(y < m)
    BY <1>1 DEF OpToRel
  <1>3. \A y \in S : m <= y
    BY <1>2
  <1> QED BY <1>3 DEF Min

\* A bounded set of numbers has a largest one: Max is a member.
LEMMA LargestExists ==
    ASSUME NEW S, NEW n \in Nat, S \subseteq 1 .. n, S # {}
    PROVE  Max(S) \in S
  <1> DEFINE R == OpToRel(<, Nat)
             T == {n - x : x \in S}
  <1>1. T \subseteq Nat /\ T # {}
    <2>1. \A x \in S : n - x \in Nat
      OBVIOUS
    <2> QED BY <2>1, Zenon
  <1>2. PICK m \in T : \A y \in T : ~(<<y, m>> \in R)
    BY <1>1, NatLessThanWellFounded, WFMin
  <1>3. \A y \in T : ~(y < m)
    BY <1>1, <1>2 DEF OpToRel
  <1>4. PICK x \in S : m = n - x
    BY <1>2
  <1>5. \A y \in S : x >= y
    BY <1>3, <1>4
  <1> QED BY <1>5 DEF Max

\* A vector that request_vector_min finds is an entry of the table, with no
\* handler yet, and never the value for none.
LEMMA VectorFound ==
    ASSUME TablesTyped, NEW pri \in 0 .. Levels - 1,
           request_vector_min(pri) # NoVector
    PROVE  /\ request_vector_min(pri) \in DOMAIN handleTable
           /\ request_vector_min(pri) \in 0 .. 223
           /\ isHandleFree(request_vector_min(pri))
  <1> DEFINE found == {vec \in PRI_LVL_START(pri) .. PRI_LVL_END(pri) - 1 : isHandleFree(vec)}
  <1>1. Levels \in Nat /\ Slots \in Nat \ {0} /\ Levels * Slots <= 224
    BY InterruptsAssumption
  <1>2. pri * Slots \in Nat /\ pri * Slots + Slots <= Levels * Slots
    <2>1. (Levels - 1 - pri) * Slots >= 0
      BY <1>1
    <2>2. Levels * Slots = (Levels - 1 - pri) * Slots + pri * Slots + Slots
      BY <1>1
    <2> QED BY <1>1, <2>1, <2>2
  <1>3. Levels * Slots \in Nat
    BY <1>1
  <1>4. found \subseteq Nat
    BY <1>1, <1>2 DEF PRI_LVL_START, PRI_LVL_END
  <1>5. found # {} /\ request_vector_min(pri) = Min(found)
    BY DEF request_vector_min
  <1>6. Min(found) \in found
    BY <1>4, <1>5, SmallestExists
  <1>7. Min(found) \in pri * Slots .. pri * Slots + Slots - 2
    BY <1>1, <1>2, <1>6 DEF PRI_LVL_START, PRI_LVL_END
  <1>8. Min(found) \in 0 .. Levels * Slots - 1
    BY <1>1, <1>2, <1>3, <1>7
  <1>9. Min(found) \in 0 .. 223 /\ isHandleFree(Min(found))
    BY <1>1, <1>3, <1>6, <1>8
  <1> QED BY <1>5, <1>8, <1>9 DEF TablesTyped

\* Handlers are told apart.
LEMMA HandlersDiffer == \A g : Driver(g) # NULL
  BY DEF Driver, NULL

\* The invariant is all RoutesSound needs.
LEMMA InvImpliesSound == RoutesInv => RoutesSound
  <1> SUFFICES ASSUME RoutesInv PROVE OwnHandler /\ RouterMirrorsHardware
    BY DEF RoutesInv, RoutesSound
  <1>1. ASSUME NEW u \in Unmasked
        PROVE  /\ u[1] \in DOMAIN redir /\ u[2] \in DOMAIN redir[u[1]]
               /\ redir[u[1]][u[2]].low.masked = 0
    BY DEF Unmasked
  <1>2. OwnHandler
    BY <1>1 DEF RoutesInv, InputsFollowEntries, InputFollowsEntry, OwnHandler
  <1>3. RouterMirrorsHardware
    BY <1>1 DEF RoutesInv, InputsFollowEntries, InputFollowsEntry, RouterMirrorsHardware
  <1> QED BY <1>2, <1>3

\* Arrivals, and what only concerns the local timer's register.
LEMMA TablesUntouched ==
    ASSUME RoutesInv, UNCHANGED <<handleTable, re, ioapics, redir, pc, gsi>>,
           lvt' \in [vec : 0 .. 255, masked : BOOLEAN]
    PROVE  RoutesInv'
  <1>1. TypeOK'
    BY DEF RoutesInv, TypeOK
  <1>2. TablesTyped'
    BY DEF RoutesInv, TablesTyped
  <1>3. LeadsToItsInput'
    BY DEF RoutesInv, LeadsToItsInput, Installable, isMapped, ioapic_addr
  <1>4. InputsFollowEntries'
    <2> SUFFICES ASSUME NEW k \in DOMAIN redir, NEW n \in DOMAIN redir[k]
                 PROVE  InputFollowsEntry(k, n)'
      BY DEF InputsFollowEntries
    <2>1. InputFollowsEntry(k, n)
      BY DEF RoutesInv, InputsFollowEntries
    <2> QED BY <2>1 DEF InputFollowsEntry, Installable, isMapped, ioapic_addr, GsiOf
  <1>5. InstallationInv'
    BY DEF RoutesInv, InstallationInv, Installable, isMapped
  <1> QED BY <1>1, <1>2, <1>3, <1>4, <1>5 DEF RoutesInv

\* A handler put into a free entry of the table, for the timer: nothing of what
\* the drivers have changes.
LEMMA TimerVectorKeeps ==
    ASSUME RoutesInv, NEW idx \in DOMAIN handleTable, isHandleFree(idx), pc = "idle",
           handleTable' = [handleTable EXCEPT ![idx] = Timer],
           UNCHANGED <<re, ioapics, redir, pc, gsi>>,
           lvt' \in [vec : 0 .. 255, masked : BOOLEAN]
    PROVE  RoutesInv'
  <1>1. TypeOK'
    BY DEF RoutesInv, TypeOK
  <1>2. TablesTyped'
    BY DEF RoutesInv, TablesTyped
  <1>3. LeadsToItsInput'
    BY DEF RoutesInv, LeadsToItsInput, Installable, isMapped, ioapic_addr
  <1>4. InputsFollowEntries'
    <2> SUFFICES ASSUME NEW k \in DOMAIN redir, NEW n \in DOMAIN redir[k]
                 PROVE  InputFollowsEntry(k, n)'
      BY DEF InputsFollowEntries
    <2>1. InputFollowsEntry(k, n)
      BY DEF RoutesInv, InputsFollowEntries
    <2>2. \A v \in DOMAIN handleTable : \A g : handleTable[v] = Driver(g) => handleTable'[v] = Driver(g)
      BY HandlersDiffer DEF isHandleFree
    <2>3. DOMAIN handleTable' = DOMAIN handleTable
      OBVIOUS
    <2> QED BY <2>1, <2>2, <2>3 DEF InputFollowsEntry, Installable, isMapped, ioapic_addr, GsiOf
  <1>5. InstallationInv'
    BY DEF RoutesInv, InstallationInv
  <1> QED BY <1>1, <1>2, <1>3, <1>4, <1>5 DEF RoutesInv

\* Vector, handler and router entry, filled in for GSI g while no installation is
\* under way: the common part of installISA and installIRQ.
LEMMA EntryFilledIn ==
    ASSUME RoutesInv, pc = "idle", NEW g \in Gsis, Installable(g),
           NEW idx \in DOMAIN handleTable, isHandleFree(idx),
           handleTable' = [handleTable EXCEPT ![idx] = Driver(g)],
           re' \in [Gsis -> RouterEntries], \A h \in Gsis \ {g} : re'[h] = re[h],
           re'[g].vec = idx + 32, re'[g].dest \in Lapics, re'[g].masked = 0,
           re'[g].apic = re[g].apic, re'[g].input = re[g].input,
           pc' = "low", gsi' = g, UNCHANGED <<ioapics, redir, lvt>>
    PROVE  RoutesInv'
  <1>0. /\ TypeOK /\ TablesTyped /\ LeadsToItsInput /\ InputsFollowEntries
        /\ idx \in Nat /\ Gsis \subseteq Nat /\ ISACount \in Nat
    BY InterruptsAssumption DEF RoutesInv, TablesTyped
  <1>1. TypeOK'
    <2>1. \A h \in Gsis : re'[h].vec \in 0 .. 255 /\ re'[h].masked \in {0, 1}
      BY DEF RouterEntries
    <2> QED BY <1>0, <2>1 DEF TypeOK
  <1>2. TablesTyped'
    BY <1>0 DEF TablesTyped
  <1>3. \A h \in Gsis : /\ Installable(h)' <=> Installable(h)
                       /\ ioapic_addr(re[h])' = ioapic_addr(re[h])
                       /\ re'[h].input = re[h].input
    <2>1. re'[g] # BlankEntry
      BY <1>0 DEF BlankEntry
    <2>2. Installable(g)'
      BY <2>1 DEF Installable, isMapped
    <2>3. \A h \in Gsis \ {g} : Installable(h)' <=> Installable(h)
      BY DEF Installable, isMapped
    <2>4. \A h \in Gsis : ioapic_addr(re[h])' = ioapic_addr(re[h]) /\ re'[h].input = re[h].input
      BY DEF ioapic_addr
    <2> QED BY <2>2, <2>3, <2>4
  <1>4. LeadsToItsInput'
    BY <1>0, <1>3 DEF LeadsToItsInput
  <1>5. \A n \in DOMAIN handleTable : \A h : handleTable[n] = Driver(h) => handleTable'[n] = Driver(h)
    BY HandlersDiffer DEF isHandleFree
  <1>6. InputsFollowEntries'
    <2> SUFFICES ASSUME NEW k \in DOMAIN redir, NEW n \in DOMAIN redir[k]
                 PROVE  InputFollowsEntry(k, n)'
      BY DEF InputsFollowEntries
    <2>1. InputFollowsEntry(k, n)
      BY <1>0 DEF InputsFollowEntries
    <2>2. GsiOf(k, n)' = GsiOf(k, n) /\ DOMAIN handleTable' = DOMAIN handleTable
      BY DEF GsiOf
    <2> DEFINE h == GsiOf(k, n)
    <2>3. CASE h = g
      BY <1>3, <1>5, <2>1, <2>2, <2>3 DEF InputFollowsEntry
    <2>4. CASE h # g
      <3>1. h \in Gsis => re'[h] = re[h]
        BY <2>4
      <3> QED BY <1>3, <1>5, <2>1, <2>2, <2>4, <3>1 DEF InputFollowsEntry
    <2> QED BY <2>3, <2>4
  <1>7. InstallationInv'
    BY <1>0, <1>3 DEF InstallationInv
  <1> QED BY <1>1, <1>2, <1>4, <1>6, <1>7 DEF RoutesInv

\* The half of a redirection entry that an installation writes: the input it
\* goes to is the one of its GSI, and no other input changes.
LEMMA WrittenInput ==
    ASSUME RoutesInv, pc # "idle", NEW k, k = ioapic_addr(re[gsi]),
           Writable(k, re[gsi].input)
    PROVE  /\ k \in DOMAIN redir /\ re[gsi].input \in DOMAIN redir[k]
           /\ GsiOf(k, re[gsi].input) = gsi
           /\ redir[k][re[gsi].input] \in RedirEntries
           /\ redir[k] \in [0 .. ioapics[k].inputs - 1 -> RedirEntries]
  <1>1. gsi \in Gsis /\ Installable(gsi)
    BY DEF RoutesInv, TypeOK, InstallationInv
  <1>2. k \in DOMAIN ioapics /\ ioapics[k].base + re[gsi].input = gsi
    BY <1>1 DEF RoutesInv, LeadsToItsInput, Writable
  <1> QED BY <1>2 DEF RoutesInv, TablesTyped, Writable, GsiOf

\* An unmasked input that stands for the GSI being installed is the one the
\* router's entry leads to, and can be written.
LEMMA UnmaskedIsWritten ==
    ASSUME RoutesInv, NEW k \in DOMAIN redir, NEW n \in DOMAIN redir[k],
           redir[k][n].low.masked = 0, GsiOf(k, n) = gsi
    PROVE  k = ioapic_addr(re[gsi]) /\ n = re[gsi].input /\ Writable(k, n)
  <1>1. InputFollowsEntry(k, n)
    BY DEF RoutesInv, InputsFollowEntries
  <1>2. k # 0
    BY DEF RoutesInv, TablesTyped
  <1> QED BY <1>1, <1>2 DEF InputFollowsEntry, Writable

\* Writing the low half opens the input with its handler in place.
LEMMA WriteLowKeeps == RoutesInv /\ WriteLow => RoutesInv'
  <1> SUFFICES ASSUME RoutesInv, WriteLow PROVE RoutesInv'
    OBVIOUS
  <1> DEFINE r == re[gsi]
             k == ioapic_addr(r)
             new == [low |-> LowWord(r), dest |-> redir[k][r.input].dest]
  <1>0. /\ TypeOK /\ TablesTyped /\ LeadsToItsInput /\ InputsFollowEntries /\ InstallationInv
        /\ pc = "low" /\ pc' = "high" /\ UNCHANGED <<handleTable, re, ioapics, lvt, gsi>>
        /\ redir' = IF ~Writable(k, r.input) THEN redir
                    ELSE [redir EXCEPT ![k][r.input] = new]
    BY DEF RoutesInv, WriteLow
  <1>1. /\ \A h \in Gsis : (Installable(h)' <=> Installable(h)) /\ ioapic_addr(re[h])' = ioapic_addr(re[h])
        /\ LeadsToItsInput' /\ InstallationInv'
    BY <1>0 DEF Installable, isMapped, ioapic_addr, LeadsToItsInput, InstallationInv
  <1>2. r \in RouterEntries /\ gsi \in Gsis
    BY <1>0 DEF TypeOK, TablesTyped
  <1>3. CASE ~Writable(k, r.input)
    <2>1. redir' = redir
      BY <1>0, <1>3
    <2>2. TypeOK' /\ TablesTyped'
      BY <1>0, <2>1 DEF TypeOK, TablesTyped
    <2>3. ASSUME NEW j \in DOMAIN redir, NEW n \in DOMAIN redir[j]
          PROVE  InputFollowsEntry(j, n)'
      <3>1. InputFollowsEntry(j, n)
        BY <1>0 DEF InputsFollowEntries
      <3>2. redir[j][n].low.masked = 0 => GsiOf(j, n) # gsi
        BY <1>3, UnmaskedIsWritten
      <3>3. GsiOf(j, n)' = GsiOf(j, n)
        BY <1>0 DEF GsiOf
      <3> QED BY <1>0, <1>1, <2>1, <3>1, <3>2, <3>3 DEF InputFollowsEntry
    <2>4. InputsFollowEntries'
      BY <2>1, <2>3 DEF InputsFollowEntries
    <2> QED BY <1>1, <2>2, <2>4 DEF RoutesInv
  <1>4. CASE Writable(k, r.input)
    <2>1. /\ k \in DOMAIN redir /\ r.input \in DOMAIN redir[k] /\ GsiOf(k, r.input) = gsi
          /\ redir[k][r.input] \in RedirEntries
          /\ redir[k] \in [0 .. ioapics[k].inputs - 1 -> RedirEntries]
      BY <1>0, <1>4, WrittenInput
    <2>2. new \in RedirEntries /\ new.low.masked = 0 /\ new.low.vec = r.vec
      BY <1>2, <2>1 DEF LowWord, RouterEntries, RedirEntries, LowWords
    <2> HIDE DEF new
    <2>3. /\ DOMAIN redir' = DOMAIN redir
          /\ redir'[k] = [redir[k] EXCEPT ![r.input] = new]
          /\ \A j \in DOMAIN redir : j # k => redir'[j] = redir[j]
      BY <1>0, <1>4, <2>1
    <2>4. /\ \A j \in DOMAIN redir : DOMAIN redir'[j] = DOMAIN redir[j]
          /\ redir'[k][r.input] = new
          /\ \A j \in DOMAIN redir : \A n \in DOMAIN redir[j] :
                j # k \/ n # r.input => redir'[j][n] = redir[j][n]
      BY <2>1, <2>3
    <2>5. TablesTyped'
      <3>1. redir'[k] \in [0 .. ioapics[k].inputs - 1 -> RedirEntries]
        BY <2>1, <2>2, <2>3
      <3>2. \A j \in DOMAIN redir : redir'[j] \in [0 .. ioapics[j].inputs - 1 -> RedirEntries]
        BY <1>0, <2>3, <3>1 DEF TablesTyped
      <3> QED BY <1>0, <2>3, <3>2 DEF TablesTyped
    <2>6. TypeOK'
      <3>1. \A j \in DOMAIN redir' : \A n \in DOMAIN redir'[j] :
                redir'[j][n].low.vec \in 0 .. 255 /\ redir'[j][n].dest \in Lapics
        BY <2>5 DEF TablesTyped, RedirEntries, LowWords
      <3> QED BY <1>0, <3>1 DEF TypeOK
    <2>7. ASSUME NEW j \in DOMAIN redir, NEW n \in DOMAIN redir[j]
          PROVE  InputFollowsEntry(j, n)'
      <3>1. GsiOf(j, n)' = GsiOf(j, n)
        BY <1>0 DEF GsiOf
      <3>2. CASE j = k /\ n = r.input
        BY <1>0, <1>1, <1>2, <2>1, <2>2, <2>4, <3>1, <3>2 DEF InputFollowsEntry, InstallationInv
      <3>3. CASE ~(j = k /\ n = r.input)
        <4>1. InputFollowsEntry(j, n)
          BY <1>0 DEF InputsFollowEntries
        <4>2. redir[j][n].low.masked = 0 => GsiOf(j, n) # gsi
          BY <3>3, UnmaskedIsWritten
        <4>3. redir'[j][n] = redir[j][n]
          BY <2>4, <3>3
        <4> QED BY <1>0, <1>1, <3>1, <4>1, <4>2, <4>3 DEF InputFollowsEntry
      <3> QED BY <3>2, <3>3
    <2>8. InputsFollowEntries'
      BY <2>3, <2>4, <2>7 DEF InputsFollowEntries
    <2> QED BY <1>1, <2>5, <2>6, <2>8 DEF RoutesInv
  <1> QED BY <1>3, <1>4

\* Writing the high half brings the processor, and the entry describes the input.
LEMMA WriteHighKeeps == RoutesInv /\ WriteHigh => RoutesInv'
  <1> SUFFICES ASSUME RoutesInv, WriteHigh PROVE RoutesInv'
    OBVIOUS
  <1> DEFINE r == re[gsi]
             k == ioapic_addr(r)
             new == [redir[k][r.input] EXCEPT !.dest = r.dest]
  <1>0. /\ TypeOK /\ TablesTyped /\ LeadsToItsInput /\ InputsFollowEntries /\ InstallationInv
        /\ pc = "high" /\ pc' = "idle" /\ UNCHANGED <<handleTable, re, ioapics, lvt, gsi>>
        /\ redir' = IF ~Writable(k, r.input) THEN redir
                    ELSE [redir EXCEPT ![k][r.input].dest = r.dest]
    BY DEF RoutesInv, WriteHigh
  <1>1. /\ \A h \in Gsis : (Installable(h)' <=> Installable(h)) /\ ioapic_addr(re[h])' = ioapic_addr(re[h])
        /\ LeadsToItsInput' /\ InstallationInv'
    BY <1>0 DEF Installable, isMapped, ioapic_addr, LeadsToItsInput, InstallationInv
  <1>2. r \in RouterEntries /\ gsi \in Gsis /\ r.dest \in Lapics
    BY <1>0 DEF TypeOK, TablesTyped, InstallationInv
  <1>3. CASE ~Writable(k, r.input)
    <2>1. redir' = redir
      BY <1>0, <1>3
    <2>2. TypeOK' /\ TablesTyped'
      BY <1>0, <2>1 DEF TypeOK, TablesTyped
    <2>3. ASSUME NEW j \in DOMAIN redir, NEW n \in DOMAIN redir[j]
          PROVE  InputFollowsEntry(j, n)'
      <3>1. InputFollowsEntry(j, n)
        BY <1>0 DEF InputsFollowEntries
      <3>2. redir[j][n].low.masked = 0 => GsiOf(j, n) # gsi
        BY <1>3, UnmaskedIsWritten
      <3>3. GsiOf(j, n)' = GsiOf(j, n)
        BY <1>0 DEF GsiOf
      <3> QED BY <1>0, <1>1, <2>1, <3>1, <3>2, <3>3 DEF InputFollowsEntry
    <2>4. InputsFollowEntries'
      BY <2>1, <2>3 DEF InputsFollowEntries
    <2> QED BY <1>1, <2>2, <2>4 DEF RoutesInv
  <1>4. CASE Writable(k, r.input)
    <2>1. /\ k \in DOMAIN redir /\ r.input \in DOMAIN redir[k] /\ GsiOf(k, r.input) = gsi
          /\ redir[k][r.input] \in RedirEntries
          /\ redir[k] \in [0 .. ioapics[k].inputs - 1 -> RedirEntries]
      BY <1>0, <1>4, WrittenInput
    <2>2. new \in RedirEntries /\ new.low = redir[k][r.input].low /\ new.dest = r.dest
      BY <1>2, <2>1 DEF RedirEntries
    <2>3. /\ DOMAIN redir' = DOMAIN redir
          /\ redir'[k] = [redir[k] EXCEPT ![r.input] = new]
          /\ \A j \in DOMAIN redir : j # k => redir'[j] = redir[j]
      BY <1>0, <1>4, <2>1
    <2> HIDE DEF new
    <2>4. /\ \A j \in DOMAIN redir : DOMAIN redir'[j] = DOMAIN redir[j]
          /\ redir'[k][r.input] = new
          /\ \A j \in DOMAIN redir : \A n \in DOMAIN redir[j] :
                j # k \/ n # r.input => redir'[j][n] = redir[j][n]
      BY <2>1, <2>3
    <2>5. TablesTyped'
      <3>1. redir'[k] \in [0 .. ioapics[k].inputs - 1 -> RedirEntries]
        BY <2>1, <2>2, <2>3
      <3>2. \A j \in DOMAIN redir : redir'[j] \in [0 .. ioapics[j].inputs - 1 -> RedirEntries]
        BY <1>0, <2>3, <3>1 DEF TablesTyped
      <3> QED BY <1>0, <2>3, <3>2 DEF TablesTyped
    <2>6. TypeOK'
      <3>1. \A j \in DOMAIN redir' : \A n \in DOMAIN redir'[j] :
                redir'[j][n].low.vec \in 0 .. 255 /\ redir'[j][n].dest \in Lapics
        BY <2>5 DEF TablesTyped, RedirEntries, LowWords
      <3> QED BY <1>0, <3>1 DEF TypeOK
    <2>7. ASSUME NEW j \in DOMAIN redir, NEW n \in DOMAIN redir[j]
          PROVE  InputFollowsEntry(j, n)'
      <3>1. GsiOf(j, n)' = GsiOf(j, n) /\ InputFollowsEntry(j, n)
        BY <1>0 DEF GsiOf, InputsFollowEntries
      <3>2. CASE j = k /\ n = r.input
        BY <1>0, <1>1, <2>1, <2>2, <2>4, <3>1, <3>2 DEF InputFollowsEntry
      <3>3. CASE ~(j = k /\ n = r.input)
        <4>1. redir[j][n].low.masked = 0 => GsiOf(j, n) # gsi
          BY <3>3, UnmaskedIsWritten
        <4>2. redir'[j][n] = redir[j][n]
          BY <2>4, <3>3
        <4> QED BY <1>0, <1>1, <3>1, <4>1, <4>2 DEF InputFollowsEntry
      <3> QED BY <3>2, <3>3
    <2>8. InputsFollowEntries'
      BY <2>3, <2>4, <2>7 DEF InputsFollowEntries
    <2> QED BY <1>1, <2>5, <2>6, <2>8 DEF RoutesInv
  <1> QED BY <1>3, <1>4

\* What is written into an entry of the router: by installISA, by installIRQ, from
\* an interrupt source override, and for the I/O APIC that claims the GSI.
Filled(r, v, d, m) == [r EXCEPT !.vec = v, !.dest = d, !.masked = m]
FilledWith(r, v, d, m, p, t, b) ==
    [r EXCEPT !.vec = v, !.dest = d, !.masked = m, !.polarity = p, !.trigger = t, !.destmode = b]
Overridden(r, q, p, t) == [r EXCEPT !.irq = q, !.polarity = p, !.trigger = t]
Claimed(r, a, n) == [r EXCEPT !.apic = a, !.input = n]

\* An entry installISA writes is an entry of the router.
LEMMA FilledEntry ==
    ASSUME NEW r \in RouterEntries, NEW v \in 0 .. 255, NEW d \in Nat, NEW m \in {0, 1}
    PROVE  Filled(r, v, d, m) \in RouterEntries
  BY DEF RouterEntries, Filled

\* An entry installIRQ writes is an entry of the router.
LEMMA FilledWithEntry ==
    ASSUME NEW r \in RouterEntries, NEW v \in 0 .. 255, NEW d \in Nat, NEW m \in {0, 1},
           NEW p \in {0, 1}, NEW t \in {0, 1}, NEW b \in {0, 1}
    PROVE  FilledWith(r, v, d, m, p, t, b) \in RouterEntries
  BY DEF RouterEntries, FilledWith

\* An entry an override has changed is an entry of the router.
LEMMA OverriddenEntry ==
    ASSUME NEW r \in RouterEntries, NEW q \in Nat, NEW p \in {0, 1}, NEW t \in {0, 1}
    PROVE  Overridden(r, q, p, t) \in RouterEntries
  BY DEF RouterEntries, Overridden

\* An entry an I/O APIC claims is an entry of the router.
LEMMA ClaimedEntry ==
    ASSUME NEW r \in RouterEntries, NEW a \in Nat, NEW n \in Int
    PROVE  Claimed(r, a, n) \in RouterEntries
  BY DEF RouterEntries, Claimed

\* installISA and installIRQ start an installation.
LEMMA InstallKeeps ==
    ASSUME RoutesInv, NEW g \in Gsis, NEW lapic \in Lapics, NEW pri \in Priorities,
           installISA(g, lapic, pri) \/ \E flags \in Flags : installIRQ(g, lapic, flags, pri)
    PROVE  /\ RoutesInv'
           /\ \A n \in DOMAIN handleTable : handleTable[n] # NULL => handleTable'[n] = handleTable[n]
  <1> DEFINE idx == request_vector_min(pri)
  <1>0. /\ TablesTyped /\ pri \in 0 .. Levels - 1 /\ lapic \in Nat
        /\ Flags \subseteq [destmode : {0, 1}, polarity : {0, 1}, trigger : {0, 1}]
    BY InterruptsAssumption, FirmwareAssumption DEF RoutesInv
  <1>1. /\ pc = "idle" /\ idx # NoVector /\ Installable(g)
        /\ handleTable' = [handleTable EXCEPT ![idx] = Driver(g)]
        /\ pc' = "low" /\ gsi' = g /\ UNCHANGED <<ioapics, redir, lvt>>
    BY DEF installISA, installIRQ, set_handler, Installable
  <1>2. idx \in DOMAIN handleTable /\ idx \in 0 .. 223 /\ isHandleFree(idx)
    BY <1>0, <1>1, VectorFound
  <1> HIDE DEF idx
  <1>3. re[g] \in RouterEntries /\ DOMAIN re = Gsis
    BY <1>0 DEF TablesTyped
  <1>4. /\ re' \in [Gsis -> RouterEntries] /\ \A h \in Gsis \ {g} : re'[h] = re[h]
        /\ re'[g].vec = idx + 32 /\ re'[g].dest \in Lapics /\ re'[g].masked = 0
        /\ re'[g].apic = re[g].apic /\ re'[g].input = re[g].input
    <2>1. idx + 32 \in 0 .. 255 /\ 0 \in {0, 1}
      BY <1>2
    <2>2. CASE installISA(g, lapic, pri)
      <3> DEFINE new == Filled(re[g], idx + 32, lapic, 0)
      <3>1. re' = [re EXCEPT ![g] = new]
        BY <1>3, <2>2 DEF installISA, idx, Filled
      <3>2. new \in RouterEntries
        BY <1>0, <1>3, <2>1, FilledEntry
      <3>3. new.vec = idx + 32 /\ new.dest = lapic /\ new.masked = 0
        BY <1>3 DEF Filled, RouterEntries
      <3>4. new.apic = re[g].apic /\ new.input = re[g].input
        BY <1>3 DEF Filled, RouterEntries
      <3> HIDE DEF new
      <3> QED BY <1>0, <1>3, <3>1, <3>2, <3>3, <3>4 DEF TablesTyped
    <2>3. ASSUME NEW flags \in Flags, installIRQ(g, lapic, flags, pri)
          PROVE  <1>4!1 /\ <1>4!2 /\ <1>4!3
      <3> DEFINE new == FilledWith(re[g], idx + 32, lapic, 0, flags.polarity, flags.trigger, flags.destmode)
      <3>1. re' = [re EXCEPT ![g] = new]
        BY <1>3, <2>3 DEF installIRQ, idx, FilledWith
      <3>2. flags.polarity \in {0, 1} /\ flags.trigger \in {0, 1} /\ flags.destmode \in {0, 1}
        BY <1>0
      <3>3. new \in RouterEntries
        BY <1>0, <1>3, <2>1, <3>2, FilledWithEntry
      <3>4. new.vec = idx + 32 /\ new.dest = lapic /\ new.masked = 0
        BY <1>3 DEF FilledWith, RouterEntries
      <3>5. new.apic = re[g].apic /\ new.input = re[g].input
        BY <1>3 DEF FilledWith, RouterEntries
      <3> HIDE DEF new
      <3> QED BY <1>0, <1>3, <3>1, <3>3, <3>4, <3>5 DEF TablesTyped
    <2> QED BY <2>2, <2>3
  <1>5. RoutesInv'
    BY <1>1, <1>2, <1>4, EntryFilledIn
  <1>6. \A n \in DOMAIN handleTable : handleTable[n] # NULL => handleTable'[n] = handleTable[n]
    BY <1>1, <1>2 DEF isHandleFree
  <1> QED BY <1>5, <1>6

\* init_lapic_timer uses the vector unchecked: with none free it writes outside
\* the table and not into it.
LEMMA TimerKeeps ==
    ASSUME RoutesInv, init_lapic_timer
    PROVE  /\ RoutesInv'
           /\ \A n \in DOMAIN handleTable : handleTable[n] # NULL => handleTable'[n] = handleTable[n]
  <1> DEFINE v == request_vector_min(0)
             irq == (v + 32) % 256
             idx == (irq + 256 - 32) % 256
  <1>0. /\ TablesTyped /\ 0 \in 0 .. Levels - 1 /\ Levels * Slots \in Nat /\ Levels * Slots <= 224
        /\ DOMAIN handleTable = 0 .. Levels * Slots - 1
    BY InterruptsAssumption DEF RoutesInv, TablesTyped
  <1>1. /\ pc = "idle" /\ lvt' = [vec |-> irq, masked |-> TRUE]
        /\ handleTable' = IF idx \in DOMAIN handleTable THEN [handleTable EXCEPT ![idx] = Timer]
                          ELSE handleTable
        /\ UNCHANGED <<re, ioapics, redir, pc, gsi>>
    BY DEF init_lapic_timer, set_handler
  <1>2. v = NoVector \/ (v \in 0 .. 223 /\ isHandleFree(v))
    BY <1>0, VectorFound
  <1> HIDE DEF v
  <1>3. v \in 0 .. 255 /\ irq \in 0 .. 255
    BY <1>2 DEF NoVector
  <1>4. lvt' \in [vec : 0 .. 255, masked : BOOLEAN]
    BY <1>1, <1>3
  <1>5. CASE v = NoVector
    <2>1. irq = 31 /\ idx = 255
      BY <1>5 DEF NoVector
    <2>2. UNCHANGED handleTable
      BY <1>0, <1>1, <2>1
    <2> QED BY <1>1, <1>4, <2>2, TablesUntouched
  <1>6. CASE v \in 0 .. 223 /\ isHandleFree(v)
    <2>1. irq = v + 32
      BY <1>6
    <2>2. idx = v
      BY <1>6, <2>1
    <2> HIDE DEF irq, idx
    <2>3. CASE idx \in DOMAIN handleTable
      <3>1. RoutesInv'
        BY <1>1, <1>4, <1>6, <2>2, <2>3, TimerVectorKeeps
      <3> QED BY <1>1, <1>6, <2>2, <2>3, <3>1 DEF isHandleFree
    <2>4. CASE idx \notin DOMAIN handleTable
      BY <1>1, <1>4, <2>4, TablesUntouched
    <2> QED BY <2>3, <2>4
  <1> QED BY <1>2, <1>5, <1>6

\* init_irqRouter leaves an entry for every GSI, and one that can be installed
\* names the I/O APIC whose GSIs it is among.
LEMMA RouterReady ==
    ASSUME NEW madt \in Madts, NEW g \in Gsis, re = init_irqRouter(madt), ioapics = madt.ioapics
    PROVE  /\ re[g] \in RouterEntries /\ re[g].vec = 0
           /\ Installable(g) => \E k \in DOMAIN ioapics :
                 ioapic_addr(re[g]) = k /\ ioapics[k].base + re[g].input = g
  <1> DEFINE apics == madt.ioapics
             C == Claims(apics, g)
             E == ISAEntries(madt.overrides)[g]
             k == Max(C)
  <1>0. /\ g \in Nat /\ ISACount \in Nat /\ apics \in Seq(IoApicEntries)
        /\ \A i, j \in DOMAIN apics : apics[i].id = apics[j].id => i = j
        /\ madt.overrides \subseteq [gsi : Nat, irq : Nat, polarity : {0, 1}, trigger : {0, 1}]
        /\ g < ISACount \/ (\E o \in madt.overrides : o.gsi = g) => C # {}
    BY InterruptsAssumption, FirmwareAssumption
  <1>1. re[g] = IF C = {} THEN E ELSE [E EXCEPT !.apic = apics[k].id, !.input = g - apics[k].base]
    BY DEF init_irqRouter
  <1>2. /\ E \in RouterEntries /\ E.vec = 0
        /\ ~(g < ISACount) /\ ~(\E o \in madt.overrides : o.gsi = g) => E = BlankEntry
    <2> DEFINE blank == IF g < ISACount THEN [BlankEntry EXCEPT !.irq = g, !.masked = 1] ELSE BlankEntry
               iso == {o \in madt.overrides : o.gsi = g}
    <2>1. E = IF iso = {} THEN blank
              ELSE LET o == CHOOSE o \in iso : TRUE
                   IN  [blank EXCEPT !.irq = o.irq, !.polarity = o.polarity, !.trigger = o.trigger]
      BY DEF ISAEntries
    <2>2. blank \in RouterEntries /\ blank.vec = 0
      <3>1. CASE g < ISACount
        <4>1. blank = [vec |-> 0, destmode |-> 0, polarity |-> 0, trigger |-> 0, masked |-> 1,
                       irq |-> g, apic |-> 0, input |-> 0, dest |-> 0]
          BY <3>1 DEF BlankEntry
        <4> HIDE DEF blank
        <4> QED BY <1>0, <4>1 DEF RouterEntries
      <3>2. CASE ~(g < ISACount)
        <4>1. blank = BlankEntry
          BY <3>2
        <4> HIDE DEF blank
        <4> QED BY <4>1 DEF BlankEntry, RouterEntries
      <3> QED BY <3>1, <3>2
    <2>3. CASE iso = {}
      BY <2>1, <2>2, <2>3
    <2>4. CASE iso # {}
      <3>1. PICK o : o = CHOOSE x \in iso : TRUE
        OBVIOUS
      <3>2. o \in iso
        BY <2>4, <3>1
      <3>3. o.irq \in Nat /\ o.polarity \in {0, 1} /\ o.trigger \in {0, 1}
        BY <1>0, <3>2
      <3>4. E = Overridden(blank, o.irq, o.polarity, o.trigger)
        BY <2>1, <2>4, <3>1 DEF Overridden
      <3> HIDE DEF blank
      <3>5. E \in RouterEntries
        BY <2>2, <3>3, <3>4, OverriddenEntry
      <3>6. E.vec = 0
        BY <2>2, <3>4 DEF Overridden, RouterEntries
      <3> QED BY <3>2, <3>5, <3>6
    <2> QED BY <2>3, <2>4
  <1> HIDE DEF E
  <1>3. CASE C = {}
    <2>1. re[g] = BlankEntry
      BY <1>0, <1>1, <1>2, <1>3
    <2>2. ~Installable(g)
      BY <1>0, <1>3, <2>1 DEF Installable, isMapped
    <2> QED BY <1>1, <1>2, <1>3, <2>2
  <1>4. CASE C # {}
    <2>1. k \in DOMAIN apics
      <3>1. C \subseteq 1 .. Len(apics) /\ Len(apics) \in Nat
        BY <1>0 DEF Claims
      <3>2. k \in C
        BY <1>4, <3>1, LargestExists
      <3> QED BY <3>2 DEF Claims
    <2>2. apics[k].id \in Nat /\ apics[k].base \in Nat
      <3>1. apics[k] \in IoApicEntries
        BY <1>0, <2>1
      <3> QED BY <3>1 DEF IoApicEntries
    <2>3. PICK n \in Int : n = g - apics[k].base
      BY <1>0, <2>2
    <2> HIDE DEF k
    <2>4. re[g] \in RouterEntries /\ re[g].vec = 0 /\ re[g].apic = apics[k].id /\ re[g].input = n
      <3>1. re[g] = Claimed(E, apics[k].id, n)
        BY <1>1, <1>4, <2>3 DEF Claimed, k
      <3>2. re[g] \in RouterEntries
        BY <1>2, <2>2, <3>1, ClaimedEntry
      <3>3. re[g].vec = 0 /\ re[g].apic = apics[k].id /\ re[g].input = n
        BY <1>2, <3>1 DEF Claimed, RouterEntries
      <3> QED BY <3>2, <3>3
    <2>5. {j \in DOMAIN ioapics : ioapics[j].id = re[g].apic} = {k}
      BY <1>0, <2>1, <2>4
    <2>6. ioapic_addr(re[g]) = k
      <3>1. {k} \in SUBSET Nat /\ {k} # {}
        BY <1>0, <2>1
      <3>2. Min({k}) = k
        BY <3>1, SmallestExists
      <3> QED BY <2>5, <3>2 DEF ioapic_addr
    <2>7. ioapics[k].base + re[g].input = g
      <3>1. apics[k].base + (g - apics[k].base) = g
        BY <1>0, <2>2
      <3> QED BY <2>3, <2>4, <3>1
    <2> QED BY <2>1, <2>4, <2>6, <2>7
  <1> QED BY <1>3, <1>4

\* After init_IRQHandleTable and init_irqRouter every input is masked and every
\* entry leads where it should.
LEMMA InitRoutesInv == Init => RoutesInv
  <1> SUFFICES ASSUME Init PROVE RoutesInv
    OBVIOUS
  <1>1. PICK madt \in Madts, dest \in Lapics :
            /\ handleTable = [n \in 0 .. Levels * Slots - 1 |-> NULL]
            /\ re = init_irqRouter(madt)
            /\ ioapics = madt.ioapics
            /\ redir = [k \in DOMAIN madt.ioapics |->
                           [n \in 0 .. madt.ioapics[k].inputs - 1 |->
                               [low |-> MaskedWord, dest |-> dest]]]
            /\ lvt = [vec |-> 0, masked |-> TRUE]
            /\ pc = "idle" /\ gsi = 0
    BY DEF Init
  <1>2. 0 \in Gsis /\ ioapics \in Seq(IoApicEntries)
    BY <1>1, FirmwareAssumption
  <1>3. re \in [Gsis -> RouterEntries]
    <2>1. \A g \in Gsis : re[g] \in RouterEntries
      BY <1>1, RouterReady
    <2>2. re = [g \in Gsis |-> re[g]]
      BY <1>1 DEF init_irqRouter
    <2> QED BY <2>1, <2>2
  <1>4. [low |-> MaskedWord, dest |-> dest] \in RedirEntries
    BY DEF MaskedWord, RedirEntries, LowWords
  <1>5. \A k \in DOMAIN redir : \A n \in DOMAIN redir[k] :
            redir[k][n] = [low |-> MaskedWord, dest |-> dest]
    BY <1>1
  <1>6. TablesTyped
    BY <1>1, <1>2, <1>3, <1>4 DEF TablesTyped
  <1>7. TypeOK
    <2>1. \A g \in Gsis : re[g].vec \in 0 .. 255 /\ re[g].masked \in {0, 1}
      BY <1>3 DEF RouterEntries
    <2>2. \A k \in DOMAIN redir : \A n \in DOMAIN redir[k] :
              redir[k][n].low.vec \in 0 .. 255 /\ redir[k][n].dest \in Lapics
      BY <1>4, <1>5 DEF RedirEntries, LowWords
    <2>3. lvt \in [vec : 0 .. 255, masked : BOOLEAN]
      BY <1>1
    <2> QED BY <1>1, <1>2, <2>1, <2>2, <2>3 DEF TypeOK
  <1>8. LeadsToItsInput
    BY <1>1, RouterReady DEF LeadsToItsInput
  <1>9. InputsFollowEntries
    BY <1>5 DEF InputsFollowEntries, InputFollowsEntry, MaskedWord
  <1>10. InstallationInv
    BY <1>1 DEF InstallationInv
  <1> QED BY <1>6, <1>7, <1>8, <1>9, <1>10 DEF RoutesInv

\* Every step of an installation, every arrival and the timer's set-up keep the
\* invariant and every handler in the table.
LEMMA StepRoutesInv ==
    ASSUME RoutesInv, [Next]_vars
    PROVE  /\ RoutesInv'
           /\ \A n \in DOMAIN handleTable : handleTable[n] # NULL => handleTable'[n] = handleTable[n]
  <1> DEFINE Kept == \A n \in DOMAIN handleTable : handleTable[n] # NULL => handleTable'[n] = handleTable[n]
  <1>1. ASSUME NEW g \in Gsis, NEW lapic \in Lapics, NEW pri \in Priorities,
               installISA(g, lapic, pri) \/ \E flags \in Flags : installIRQ(g, lapic, flags, pri)
        PROVE  RoutesInv' /\ Kept
    BY <1>1, InstallKeeps
  <1>2. CASE WriteLow
    BY <1>2, WriteLowKeeps DEF WriteLow
  <1>3. CASE WriteHigh
    BY <1>3, WriteHighKeeps DEF WriteHigh
  <1>4. CASE init_lapic_timer
    BY <1>4, TimerKeeps
  <1>5. CASE startTimer
    <2>1. lvt' \in [vec : 0 .. 255, masked : BOOLEAN]
      BY <1>5 DEF startTimer, RoutesInv, TypeOK
    <2> QED BY <1>5, <2>1, TablesUntouched DEF startTimer
  <1>6. ASSUME NEW k \in DOMAIN redir, NEW n \in DOMAIN redir[k], DeviceInterrupt(k, n)
        PROVE  RoutesInv' /\ Kept
    <2>1. lvt' \in [vec : 0 .. 255, masked : BOOLEAN]
      BY <1>6 DEF DeviceInterrupt, RoutesInv, TypeOK
    <2> QED BY <1>6, <2>1, TablesUntouched DEF DeviceInterrupt
  <1>7. CASE TimerInterrupt
    <2>1. lvt' \in [vec : 0 .. 255, masked : BOOLEAN]
      BY <1>7 DEF TimerInterrupt, RoutesInv, TypeOK
    <2> QED BY <1>7, <2>1, TablesUntouched DEF TimerInterrupt
  <1>8. CASE UNCHANGED vars
    <2>1. lvt' \in [vec : 0 .. 255, masked : BOOLEAN]
      BY <1>8 DEF vars, RoutesInv, TypeOK
    <2> QED BY <1>8, <2>1, TablesUntouched DEF vars
  <1> QED
    BY <1>1, <1>2, <1>3, <1>4, <1>5, <1>6, <1>7, <1>8 DEF Next

\* router.c, idt.c, lapict.c: the inductive invariant holds throughout.
THEOREM RoutesInvariant == Spec => []RoutesInv
  BY InitRoutesInv, StepRoutesInv, PTL DEF Spec

\* At every point of an installation an interrupt that can arrive finds the
\* handler of its own driver, and between installations the router's entries are
\* what the I/O APICs hold.
THEOREM RoutesAreSound == Spec => []RoutesSound
  BY RoutesInvariant, InvImpliesSound, PTL

\* No installation and no timer set-up replaces a handler that is in the table.
THEOREM HandlersStay == Spec => NoHandlerReplaced
  <1>1. RoutesInv /\ [Next]_vars =>
            [\A n \in DOMAIN handleTable : handleTable[n] # NULL => handleTable'[n] = handleTable[n]]_vars
    BY StepRoutesInv
  <1> QED BY <1>1, RoutesInvariant, PTL DEF Spec, NoHandlerReplaced

-----------------------------------------------------------------------------
(***************************************************************************)
(* Waits on the HPET are sound for every counter width, every comparator   *)
(* value a caller's time comes to, and whatever the local timer does       *)
(* meanwhile.                                                              *)
(*                                                                         *)
(* WaitsSound speaks of the state between calls and of the flag.  That it  *)
(* is kept depends on how the counter, the comparator and the pending      *)
(* interrupt stand to each other at every point of a call (CounterAgrees)  *)
(* and on the order in which the functions touch the registers             *)
(* (AccessOrder): with those two it is inductive.                          *)
(***************************************************************************)

\* What the code writes to the HPET keeps the registers' ranges.
LEMMA HpetWrites ==
    ASSUME NEW h \in HpetRegisters, NEW e \in BOOLEAN, NEW i \in BOOLEAN,
           NEW c \in 0 .. HpetMax, NEW p \in 1 .. HpetMax
    PROVE  /\ [enabled |-> e, count |-> c, comp |-> p, irq |-> i] \in HpetRegisters
           /\ [h EXCEPT !.enabled = e] \in HpetRegisters
           /\ [h EXCEPT !.count = c, !.irq = i] \in HpetRegisters
           /\ [h EXCEPT !.enabled = e, !.count = c, !.comp = p] \in HpetRegisters
           /\ [h EXCEPT !.irq = i, !.enabled = e, !.count = c] \in HpetRegisters
  BY DEF HpetRegisters

\* What the code writes to the local timer's register keeps its range.
LEMMA LvtWrites ==
    ASSUME NEW v \in LvtValues, NEW b \in BOOLEAN, NEW m \in {ONE_SHOT, PERIODIC}
    PROVE  [v EXCEPT !.masked = b] \in LvtValues /\ [v EXCEPT !.mode = m] \in LvtValues
  BY DEF LvtValues

\* HPET_init and init_lapic_timer leave both timers as the first call expects
\* them.
LEMMA InitWaitsInv == TimersInit => WaitsInv
  <1> SUFFICES ASSUME TimersInit PROVE WaitsInv
    OBVIOUS
  <1>1. PICK q \in Quanta : hpet = [enabled |-> FALSE, count |-> 0, comp |-> q, irq |-> FALSE]
    BY DEF TimersInit
  <1>2. q \in 1 .. HpetMax /\ HpetMax \in Nat /\ LapicMax \in Nat
    BY TimersAssumption
  <1>3. TimersTypeOK
    <2>1. hpet \in HpetRegisters
      BY <1>1, <1>2 DEF HpetRegisters
    <2>2. lvttimer \in LvtValues /\ reg \in LvtValues
      BY DEF TimersInit, LvtValues
    <2>3. initcnt \in 0 .. LapicMax /\ cur \in 0 .. LapicMax
      BY <1>2 DEF TimersInit
    <2>4. polled \in BOOLEAN /\ lirq \in BOOLEAN
      BY Zenon DEF TimersInit
    <2> QED BY <2>1, <2>2, <2>3, <2>4 DEF TimersTypeOK
  <1>4. CounterAgrees
    BY <1>1, <1>2 DEF TimersInit, CounterAgrees, AtWait
  <1>5. AccessOrder
    BY DEF TimersInit, AccessOrder
  <1>6. NothingLeftOver /\ WaitsLongEnough
    BY <1>1 DEF TimersInit, NothingLeftOver, WaitsLongEnough
  <1> QED BY <1>3, <1>4, <1>5, <1>6 DEF WaitsInv, WaitsSound

\* A register access leaves a list of accesses in order, and no wait comes
\* next unless the access was hpetEnable.
LEMMA AccessKeepsOrder ==
    ASSUME AccessOrder, NEW name, Access(name)
    PROVE  /\ AccessOrder'
           /\ name = "enable" => AtWait'
           /\ name # "enable" => ~AtWait'
  <1>1. /\ todo \in Seq(Accesses) /\ todo # <<>> /\ Head(todo) = name
        /\ todo' = Tail(todo) /\ arg' = arg
    BY DEF Access, AccessOrder
  <1>2. /\ Len(todo) \in Nat /\ Len(todo) > 0 /\ todo[1] = name
        /\ todo' \in Seq(Accesses) /\ Len(todo') = Len(todo) - 1
        /\ \A i \in 1 .. Len(todo') : todo'[i] = todo[i + 1]
    BY <1>1
  <1>3. AccessOrder'
    <2>1. ASSUME NEW i \in 1 .. Len(todo')
          PROVE  /\ todo'[i] = "enable" => i < Len(todo') /\ todo'[i + 1] = "wait"
                 /\ todo'[i] = "wait" => i = 1 \/ todo'[i - 1] = "enable"
                 /\ todo'[i] = "prep" => arg' \in Quanta
                 /\ todo'[i] = "mode" => arg' \in {ONE_SHOT, PERIODIC}
      <3>1. i + 1 \in 1 .. Len(todo) /\ todo'[i] = todo[i + 1]
        BY <1>2
      <3>2. i # 1 => i - 1 \in 1 .. Len(todo') /\ todo'[i - 1] = todo[i]
        BY <1>2
      <3>3. i < Len(todo') => todo'[i + 1] = todo[i + 2]
        BY <1>2
      <3> QED BY <1>1, <1>2, <3>1, <3>2, <3>3 DEF AccessOrder
    <2> QED BY <1>2, <2>1 DEF AccessOrder
  <1>4. ASSUME name = "enable" PROVE AtWait'
    <2>1. Len(todo) > 1 /\ todo[2] = "wait"
      BY <1>2, <1>4 DEF AccessOrder
    <2>2. todo' # <<>> /\ Head(todo') = "wait"
      BY <1>2, <2>1
    <2> QED BY <2>2 DEF AtWait
  <1>5. ASSUME name # "enable", AtWait' PROVE FALSE
    <2>1. todo' # <<>> /\ Head(todo') = "wait"
      BY <1>5 DEF AtWait
    <2>2. Len(todo) > 1 /\ todo[2] = "wait"
      BY <1>2, <2>1
    <2> QED BY <1>2, <1>5, <2>2 DEF AccessOrder
  <1> QED BY <1>3, <1>4, <1>5

\* Each function of hpet.h and lapict.h, called with its argument, starts with a
\* list of accesses in order and does not begin with the wait.
LEMMA CallKeepsOrder ==
    ASSUME CallHpet \/ CallLapic
    PROVE  AccessOrder' /\ ~AtWait'
  <1>1. ASSUME NEW q \in Quanta, todo' = Hcount, arg' = q
        PROVE  AccessOrder' /\ ~AtWait'
    <2>1. /\ todo' \in Seq(Accesses) /\ Len(todo') = 3
          /\ todo'[1] = "prep" /\ todo'[2] = "enable" /\ todo'[3] = "wait"
      BY <1>1 DEF Hcount, Accesses
    <2> QED BY <1>1, <2>1 DEF AccessOrder, AtWait
  <1>2. ASSUME NEW q \in Quanta, todo' = HpetPrep, arg' = q
        PROVE  AccessOrder' /\ ~AtWait'
    <2>1. /\ todo' \in Seq(Accesses) /\ Len(todo') = 1
          /\ todo'[1] = "prep"
      BY <1>2 DEF HpetPrep, Accesses
    <2> QED BY <1>2, <2>1 DEF AccessOrder, AtWait
  <1>3. ASSUME todo' = HpetStart
        PROVE  AccessOrder' /\ ~AtWait'
    <2>1. /\ todo' \in Seq(Accesses) /\ Len(todo') = 2
          /\ todo'[1] = "enable" /\ todo'[2] = "wait"
      BY <1>3 DEF HpetStart, Accesses
    <2> QED BY <1>3, <2>1 DEF AccessOrder, AtWait
  <1>4. ASSUME todo' = HpetStop
        PROVE  AccessOrder' /\ ~AtWait'
    <2>1. /\ todo' \in Seq(Accesses) /\ Len(todo') = 1
          /\ todo'[1] = "disable"
      BY <1>4 DEF HpetStop, Accesses
    <2> QED BY <1>4, <2>1 DEF AccessOrder, AtWait
  <1>5. ASSUME NEW mode \in {ONE_SHOT, PERIODIC}, todo' = SetState, arg' = mode
        PROVE  AccessOrder' /\ ~AtWait'
    <2>1. /\ todo' \in Seq(Accesses) /\ Len(todo') = 3
          /\ todo'[1] = "read" /\ todo'[2] = "stop" /\ todo'[3] = "mode"
      BY <1>5 DEF SetState, Accesses
    <2> QED BY <1>5, <2>1 DEF AccessOrder, AtWait
  <1>6. ASSUME NEW q \in Quanta, todo' = Prepare, arg' = q
        PROVE  AccessOrder' /\ ~AtWait'
    <2>1. /\ todo' \in Seq(Accesses) /\ Len(todo') = 8
          /\ todo'[1] = "read" /\ todo'[2] = "max" /\ todo'[3] = "prep" /\ todo'[4] = "unmask"
          /\ todo'[5] = "enable" /\ todo'[6] = "wait" /\ todo'[7] = "restore" /\ todo'[8] = "ticks"
      BY <1>6 DEF Prepare, Accesses
    <2> QED BY <1>6, <2>1 DEF AccessOrder, AtWait
  <1>7. ASSUME todo' = StartLapic
        PROVE  AccessOrder' /\ ~AtWait'
    <2>1. /\ todo' \in Seq(Accesses) /\ Len(todo') = 2
          /\ todo'[1] = "read" /\ todo'[2] = "unmask"
      BY <1>7 DEF StartLapic, Accesses
    <2> QED BY <1>7, <2>1 DEF AccessOrder, AtWait
  <1>8. ASSUME NEW q \in Quanta, todo' = Lcount, arg' = q
        PROVE  AccessOrder' /\ ~AtWait'
    <2>1. /\ todo' \in Seq(Accesses) /\ Len(todo') = 9
          /\ todo'[1] = "read" /\ todo'[2] = "max" /\ todo'[3] = "unmask" /\ todo'[4] = "prep"
          /\ todo'[5] = "enable" /\ todo'[6] = "wait" /\ todo'[7] = "restore" /\ todo'[8] = "ticks"
          /\ todo'[9] = "unmask"
      BY <1>8 DEF Lcount, Accesses
    <2> QED BY <1>8, <2>1 DEF AccessOrder, AtWait
  <1> QED
    BY <1>1, <1>2, <1>3, <1>4, <1>5, <1>6, <1>7, <1>8 DEF CallHpet, CallLapic, Call

\* Every register access, every count of the two counters and every handler keeps
\* the inductive invariant.
LEMMA StepWaitsInv == WaitsInv /\ [TimersNext]_TimersVars => WaitsInv'
  <1> SUFFICES ASSUME WaitsInv, [TimersNext]_TimersVars PROVE WaitsInv'
    OBVIOUS
  <1>0. /\ HpetMax \in Nat \ {0} /\ LapicMax \in Nat \ {0} /\ Quanta \subseteq 1 .. HpetMax
        /\ TimersTypeOK /\ AccessOrder /\ CounterAgrees /\ WaitsLongEnough /\ NothingLeftOver
    BY TimersAssumption DEF WaitsInv, WaitsSound
  <1>a. SUFFICES TimersTypeOK' /\ AccessOrder' /\ CounterAgrees' /\ WaitsLongEnough'
    <2>1. ASSUME CounterAgrees' PROVE NothingLeftOver'
      BY <2>1 DEF CounterAgrees, NothingLeftOver, AtWait
    <2> QED BY <2>1 DEF WaitsInv, WaitsSound
  <1>1. CASE CallHpet \/ CallLapic
    <2>1. AccessOrder' /\ ~AtWait'
      BY <1>1, CallKeepsOrder
    <2>2. UNCHANGED <<hpet, polled, elapsed, lvttimer, initcnt, cur, lirq, reg>> /\ todo = <<>>
      BY <1>1 DEF CallHpet, CallLapic, Call, HpetState
    <2>3. TimersTypeOK' /\ WaitsLongEnough'
      BY <1>0, <2>2 DEF TimersTypeOK, WaitsLongEnough
    <2>4. ~AtWait
      BY <2>2 DEF AtWait
    <2>5. CounterAgrees'
      BY <1>0, <2>1, <2>2, <2>4 DEF CounterAgrees
    <2> QED BY <2>1, <2>3, <2>5
  <1>2. CASE Prep
    <2>1. AccessOrder' /\ ~AtWait' /\ ~AtWait
      BY <1>0, <1>2, AccessKeepsOrder DEF Prep, Access, AtWait
    <2>2. arg \in Quanta
      <3>1. todo \in Seq(Accesses) /\ todo # <<>> /\ todo[1] = "prep"
        BY <1>0, <1>2 DEF Prep, Access, AccessOrder
      <3> QED BY <1>0, <3>1 DEF AccessOrder
    <2>3. /\ hpet' = [hpet EXCEPT !.enabled = FALSE, !.count = 0, !.comp = arg]
          /\ UNCHANGED <<polled, elapsed, lvttimer, initcnt, cur, lirq, reg>>
      BY <1>2 DEF Prep, LapicState
    <2>4. TimersTypeOK'
      <3>1. \A e \in BOOLEAN, c \in 0 .. HpetMax :
                [hpet EXCEPT !.enabled = e, !.count = c, !.comp = arg] \in HpetRegisters
        BY <1>0, <2>2, HpetWrites DEF TimersTypeOK
      <3>2. 0 \in 0 .. HpetMax
        BY <1>0
      <3>3. hpet' \in HpetRegisters
        BY <2>3, <3>1, <3>2, Zenon
      <3> QED BY <1>0, <2>3, <3>3 DEF TimersTypeOK
    <2>5. CounterAgrees' /\ WaitsLongEnough'
      BY <1>0, <2>1, <2>2, <2>3 DEF TimersTypeOK, HpetRegisters, CounterAgrees, WaitsLongEnough
    <2> QED BY <2>1, <2>4, <2>5
  <1>3. CASE hpetEnable
    <2>1. AccessOrder' /\ AtWait' /\ ~AtWait
      BY <1>0, <1>3, AccessKeepsOrder DEF hpetEnable, Access, AtWait
    <2>2. /\ hpet' = [hpet EXCEPT !.enabled = TRUE] /\ elapsed' = 0
          /\ UNCHANGED <<polled, lvttimer, initcnt, cur, lirq, reg>>
      BY <1>3 DEF hpetEnable, LapicState
    <2>3. TimersTypeOK'
      <3>1. \A e \in BOOLEAN : [hpet EXCEPT !.enabled = e] \in HpetRegisters
        BY <1>0, HpetWrites DEF TimersTypeOK, HpetRegisters
      <3>2. hpet' \in HpetRegisters
        BY <2>2, <3>1, Zenon
      <3> QED BY <1>0, <2>2, <3>2 DEF TimersTypeOK
    <2>4. CounterAgrees' /\ WaitsLongEnough'
      BY <1>0, <2>1, <2>2 DEF TimersTypeOK, HpetRegisters, CounterAgrees, WaitsLongEnough
    <2> QED BY <2>1, <2>3, <2>4
  <1>4. CASE hpetDisable
    <2>1. AccessOrder' /\ ~AtWait' /\ ~AtWait
      BY <1>0, <1>4, AccessKeepsOrder DEF hpetDisable, Access, AtWait
    <2>2. /\ hpet' = [hpet EXCEPT !.enabled = FALSE]
          /\ UNCHANGED <<polled, elapsed, lvttimer, initcnt, cur, lirq, reg>>
      BY <1>4 DEF hpetDisable, LapicState
    <2>3. TimersTypeOK'
      <3>1. \A e \in BOOLEAN : [hpet EXCEPT !.enabled = e] \in HpetRegisters
        BY <1>0, HpetWrites DEF TimersTypeOK, HpetRegisters
      <3>2. hpet' \in HpetRegisters
        BY <2>2, <3>1, Zenon
      <3> QED BY <1>0, <2>2, <3>2 DEF TimersTypeOK
    <2>4. CounterAgrees' /\ WaitsLongEnough'
      BY <1>0, <2>1, <2>2 DEF TimersTypeOK, HpetRegisters, CounterAgrees, WaitsLongEnough
    <2> QED BY <2>1, <2>3, <2>4
  <1>5. CASE Wait
    <2>1. AccessOrder' /\ ~AtWait' /\ AtWait
      BY <1>0, <1>5, AccessKeepsOrder DEF Wait, Access, AtWait
    <2>2. /\ polled /\ polled' = FALSE
          /\ UNCHANGED <<hpet, elapsed, lvttimer, initcnt, cur, lirq, reg>>
      BY <1>5 DEF Wait, LapicState
    <2>3. TimersTypeOK'
      BY <1>0, <2>2 DEF TimersTypeOK
    <2>4. CounterAgrees' /\ WaitsLongEnough'
      BY <1>0, <2>1, <2>2 DEF TimersTypeOK, HpetRegisters, CounterAgrees, WaitsLongEnough
    <2> QED BY <2>1, <2>3, <2>4
  <1>6. CASE ReadLvt \/ Unmask \/ Restore \/ SetMode \/ stopTimer \/ CountFromMax \/ CountTicks
    <2>1. AccessOrder' /\ ~AtWait' /\ ~AtWait
      <3>1. ASSUME NEW name \in {"read", "unmask", "restore", "mode", "stop", "max", "ticks"}, Access(name)
            PROVE  AccessOrder' /\ ~AtWait' /\ ~AtWait
        BY <1>0, <3>1, AccessKeepsOrder DEF Access, AtWait
      <3> QED
        BY <1>6, <3>1 DEF ReadLvt, Unmask, Restore, SetMode, stopTimer, WriteLvt, CountFromMax, CountTicks
    <2>2. UNCHANGED <<hpet, polled, elapsed, lirq>>
      BY <1>6 DEF ReadLvt, Unmask, Restore, SetMode, stopTimer, WriteLvt, CountFromMax, CountTicks,
                  HpetState, LapicState
    <2>3. CounterAgrees' /\ WaitsLongEnough'
      BY <1>0, <2>1, <2>2 DEF CounterAgrees, WaitsLongEnough
    <2>4. SetMode => arg \in {ONE_SHOT, PERIODIC}
      BY <1>0 DEF SetMode, WriteLvt, Access, AccessOrder
    <2>5. lvttimer' \in LvtValues /\ reg' \in LvtValues
      <3>1. /\ \A b \in BOOLEAN : [reg EXCEPT !.masked = b] \in LvtValues
            /\ \A b \in BOOLEAN : [lvttimer EXCEPT !.masked = b] \in LvtValues
            /\ \A m \in {ONE_SHOT, PERIODIC} : [reg EXCEPT !.mode = m] \in LvtValues
            /\ lvttimer \in LvtValues /\ reg \in LvtValues
        BY <1>0, LvtWrites DEF TimersTypeOK
      <3>2. CASE Unmask
        BY <3>1, <3>2, Zenon DEF Unmask, WriteLvt
      <3>3. CASE stopTimer
        BY <3>1, <3>3, Zenon DEF stopTimer, WriteLvt
      <3>4. CASE SetMode
        BY <2>4, <3>1, <3>4 DEF SetMode, WriteLvt
      <3>5. CASE Restore \/ ReadLvt \/ CountFromMax \/ CountTicks
        BY <3>1, <3>5 DEF Restore, WriteLvt, ReadLvt, CountFromMax, CountTicks, LapicState
      <3> QED BY <1>6, <3>2, <3>3, <3>4, <3>5
    <2>6. initcnt' \in 0 .. LapicMax /\ cur' \in 0 .. LapicMax
      BY <1>0, <1>6 DEF TimersTypeOK, ReadLvt, Unmask, Restore, SetMode, stopTimer, WriteLvt,
                    CountFromMax, CountTicks, StartCountdown, LapicState
    <2>7. TimersTypeOK'
      BY <1>0, <2>2, <2>5, <2>6 DEF TimersTypeOK
    <2> QED BY <2>1, <2>3, <2>7
  <1>7. CASE HpetCount
    <2> DEFINE next == (hpet.count + 1) % (HpetMax + 1)
    <2>1. /\ hpet.enabled /\ hpet' = [hpet EXCEPT !.count = next, !.irq = @ \/ next = hpet.comp]
          /\ elapsed' = IF elapsed < HpetMax THEN elapsed + 1 ELSE elapsed
          /\ UNCHANGED <<polled, lvttimer, initcnt, cur, lirq, reg, todo, arg>>
      BY <1>7 DEF HpetCount, LapicState
    <2>2. next \in 0 .. HpetMax /\ (hpet.count < HpetMax => next = hpet.count + 1)
      <3>1. hpet.count \in 0 .. HpetMax /\ HpetMax \in Nat
        BY <1>0 DEF TimersTypeOK, HpetRegisters
      <3>2. CASE hpet.count < HpetMax
        BY <3>1, <3>2
      <3>3. CASE hpet.count = HpetMax
        BY <3>1, <3>3
      <3> QED BY <3>1, <3>2, <3>3
    <2> HIDE DEF next
    <2>3. AccessOrder' /\ (AtWait' <=> AtWait)
      BY <1>0, <2>1 DEF AccessOrder, AtWait
    <2>4. /\ hpet'.enabled /\ hpet'.count = next /\ hpet'.comp = hpet.comp
          /\ hpet'.irq <=> (hpet.irq \/ next = hpet.comp)
      BY <1>0, <2>1 DEF TimersTypeOK, HpetRegisters
    <2>5. TimersTypeOK'
      <3>1. \A c \in 0 .. HpetMax, i \in BOOLEAN : [hpet EXCEPT !.count = c, !.irq = i] \in HpetRegisters
        BY <1>0, HpetWrites DEF TimersTypeOK, HpetRegisters
      <3>2. (hpet.irq \/ next = hpet.comp) \in BOOLEAN
        OBVIOUS
      <3>3. hpet' = [hpet EXCEPT !.count = next, !.irq = (hpet.irq \/ next = hpet.comp)]
        BY <2>1
      <3>4. hpet' \in HpetRegisters
        BY <2>2, <3>1, <3>2, <3>3, Zenon
      <3> QED BY <1>0, <2>1, <3>4 DEF TimersTypeOK
    <2>6. ~polled /\ AtWait
      BY <1>0, <2>1 DEF CounterAgrees
    <2>7. hpet.comp \in Quanta /\ hpet.comp \in 1 .. HpetMax /\ elapsed \in 0 .. HpetMax
      BY <1>0 DEF CounterAgrees
    <2>8. /\ elapsed' \in 0 .. HpetMax
          /\ hpet'.irq => elapsed' >= hpet.comp
          /\ ~hpet'.irq => next = elapsed' /\ elapsed' < hpet.comp
      <3>1. CASE hpet.irq
        <4>1. elapsed >= hpet.comp
          BY <1>0, <3>1 DEF CounterAgrees
        <4> QED BY <1>0, <2>1, <2>4, <2>7, <3>1, <4>1
      <3>2. CASE ~hpet.irq
        <4>1. hpet.count = elapsed /\ elapsed < hpet.comp
          BY <1>0, <2>1, <3>2 DEF CounterAgrees
        <4>2. next = elapsed + 1 /\ elapsed' = elapsed + 1
          BY <1>0, <2>1, <2>2, <2>7, <4>1
        <4>3. hpet'.irq <=> elapsed' = hpet.comp
          BY <2>4, <3>2, <4>2
        <4> QED BY <1>0, <2>7, <4>1, <4>2, <4>3
      <3> QED BY <3>1, <3>2
    <2>9. ~polled' /\ AtWait'
      BY <2>1, <2>3, <2>6
    <2>10. CounterAgrees' /\ WaitsLongEnough'
      BY <2>4, <2>7, <2>8, <2>9 DEF CounterAgrees, WaitsLongEnough
    <2> QED BY <2>3, <2>5, <2>10
  <1>8. CASE hpet_timer_handler
    <2>1. /\ hpet.irq /\ hpet' = [hpet EXCEPT !.irq = FALSE, !.enabled = FALSE, !.count = 0]
          /\ polled' = TRUE /\ UNCHANGED <<elapsed, lvttimer, initcnt, cur, lirq, reg, todo, arg>>
      BY <1>8 DEF hpet_timer_handler, LapicState
    <2>2. AccessOrder' /\ (AtWait' <=> AtWait)
      BY <1>0, <2>1 DEF AccessOrder, AtWait
    <2>3. TimersTypeOK'
      <3>1. \A i \in BOOLEAN, e \in BOOLEAN, c \in 0 .. HpetMax :
                [hpet EXCEPT !.irq = i, !.enabled = e, !.count = c] \in HpetRegisters
        BY <1>0, HpetWrites DEF TimersTypeOK, HpetRegisters
      <3>2. 0 \in 0 .. HpetMax
        BY <1>0
      <3>3. hpet' \in HpetRegisters
        BY <2>1, <3>1, <3>2, Zenon
      <3> QED BY <1>0, <2>1, <3>3 DEF TimersTypeOK
    <2>4. CounterAgrees' /\ WaitsLongEnough'
      BY <1>0, <2>1, <2>2 DEF TimersTypeOK, HpetRegisters, CounterAgrees, WaitsLongEnough
    <2> QED BY <2>2, <2>3, <2>4
  <1>9. CASE LapicCount \/ lapic_timer_handler
    <2>1. UNCHANGED <<hpet, polled, elapsed, reg, todo, arg>>
      BY <1>9 DEF LapicCount, lapic_timer_handler, HpetState
    <2>2. AccessOrder' /\ (AtWait' <=> AtWait)
      BY <1>0, <2>1 DEF AccessOrder, AtWait
    <2>3. CounterAgrees' /\ WaitsLongEnough'
      BY <1>0, <2>1, <2>2 DEF CounterAgrees, WaitsLongEnough
    <2>4. lvttimer' \in LvtValues /\ lirq' \in BOOLEAN
      <3>1. CASE LapicCount
        BY <1>0, <3>1 DEF TimersTypeOK, LapicCount
      <3>2. CASE lapic_timer_handler
        <4>1. \A b \in BOOLEAN : [lvttimer EXCEPT !.masked = b] \in LvtValues
          BY <1>0, LvtWrites DEF TimersTypeOK
        <4> QED BY <3>2, <4>1, Zenon DEF lapic_timer_handler
      <3> QED BY <1>9, <3>1, <3>2
    <2>6. initcnt' \in 0 .. LapicMax /\ cur' \in 0 .. LapicMax
      BY <1>0, <1>9 DEF TimersTypeOK, LapicCount, lapic_timer_handler
    <2>5. TimersTypeOK'
      BY <1>0, <2>1, <2>4, <2>6 DEF TimersTypeOK
    <2> QED BY <2>2, <2>3, <2>5
  <1>10. CASE UNCHANGED TimersVars
    BY <1>0, <1>10 DEF TimersVars, TimersTypeOK, AccessOrder, CounterAgrees, WaitsLongEnough, AtWait
  <1> QED
    BY <1>1, <1>2, <1>3, <1>4, <1>5, <1>6, <1>7, <1>8, <1>9, <1>10 DEF TimersNext, Kernel

\* hpet.c, lapict.c: the inductive invariant holds throughout.
THEOREM TimersInvariant == TimersSpec => []WaitsInv
  BY InitWaitsInv, StepWaitsInv, PTL DEF TimersSpec

\* hpet.c: whatever the counters' widths and the times asked for, hcount and
\* hpet_start never come back early, and leave no flag, no interrupt and no
\* running counter for the next wait.
THEOREM WaitsAreSound == TimersSpec => []WaitsSound
  BY TimersInvariant, PTL DEF WaitsInv
=============================================================================
