----------------------------- MODULE Interrupts -----------------------------
(***************************************************************************)
(* The interrupt side of the kernel: the handler table and its vectors     *)
(* (interrupts/idt.c, htable.c), the router that ties a global system      *)
(* interrupt to a vector through an I/O APIC (interrupts/router.c), the    *)
(* local APIC timer's vector (device/lapict.c) and the dispatch of what    *)
(* arrives (interrupts/handlers.c).                                        *)
(*                                                                         *)
(* Interrupts are on while drivers install their handlers, so an interrupt *)
(* may arrive between any two register writes of an installation.          *)
(***************************************************************************)
EXTENDS Integers, Sequences, FiniteSetsExt

CONSTANTS
    Levels,        \* PRI_LEVELS: 14
    Slots,         \* PRI_LVLN_COUNT: 16
    ISACount,      \* GSIs below this are ISA interrupts: 16
    Gsis,          \* the indices of router.re
    Madts,         \* what the MADT may list: [ioapics, overrides]
    Lapics,        \* ids of the local APICs an interrupt can be sent to
    Priorities,    \* the levels drivers ask for
    Flags          \* the IRQ_FLAGS they pass: destmode, polarity, trigger

ASSUME InterruptsAssumption ==
    /\ Levels \in Nat \ {0} /\ Slots \in Nat \ {0} /\ Levels * Slots <= 224
    /\ ISACount \in Nat /\ Gsis \subseteq Nat
    /\ Lapics \subseteq Nat /\ Priorities \subseteq 0 .. Levels - 1

VARIABLES
    handleTable,   \* handleTable[n]: a handler, or NULL
    re,            \* router.re
    ioapics,       \* router.ioapics
    redir,         \* redir[k][n]: entry n of the redirection table of I/O APIC k
    lvt,           \* the local APIC timer's entry: vector and mask
    pc, gsi,       \* where the installation under way stands, and its GSI
    ran            \* what the last interrupt ran: its source and the handler

vars == <<handleTable, re, ioapics, redir, lvt, pc, gsi, ran>>

\* Who is behind an interrupt, and the handler it brings along.
NULL == <<"null">>
Cpu == <<"cpu">>
Timer == <<"lapic timer">>
Driver(g) == <<"gsi", g>>

-----------------------------------------------------------------------------
(* The vectors.                                                            *)

PRI_LVL_START(lvl) == lvl * Slots
PRI_LVL_END(lvl) == lvl * Slots + Slots - 1
NoVector == 255

\* Slip: the entry behind the one asked for.
SlipisHandleFree(idx) == handleTable[(idx + 1) % (Levels * Slots)] = NULL

isHandleFree(idx) == handleTable[idx] = NULL

\* The first free entry of level pri, whose last entry the loop leaves out; the
\* outer loop, over the levels above, looks at level pri again.
request_vector_min(pri) ==
    LET found == {vec \in PRI_LVL_START(pri) .. PRI_LVL_END(pri) - 1 : isHandleFree(vec)}
    IN  IF found = {} THEN NoVector ELSE Min(found)

set_handler(idx, h) == handleTable' = [handleTable EXCEPT ![idx] = h]

\* free_vector: the handler goes; gate, router and I/O APIC stay as they are.
free_vector(n) ==
    /\ handleTable[n] # NULL
    /\ set_handler(n, NULL)
    /\ UNCHANGED <<re, ioapics, redir, lvt, pc, gsi, ran>>

-----------------------------------------------------------------------------
(* The router.                                                             *)

BlankEntry == [vec |-> 0, destmode |-> 0, polarity |-> 0, trigger |-> 0, masked |-> 0,
               irq |-> 0, apic |-> 0, input |-> 0, dest |-> 0]

\* The ISA entries, then the interrupt source overrides.
ISAEntries(overrides) ==
    [g \in Gsis |->
        LET blank == IF g < ISACount THEN [BlankEntry EXCEPT !.irq = g, !.masked = 1]
                     ELSE BlankEntry
            iso == {o \in overrides : o.gsi = g}
        IN  IF iso = {} THEN blank
            ELSE LET o == CHOOSE o \in iso : TRUE
                 IN  [blank EXCEPT !.irq = o.irq, !.polarity = o.polarity,
                                   !.trigger = o.trigger]]

\* The number of entries the loop over the I/O APICs takes the k-th to have:
\* irqs is not reset between two of them.
irqs(apics, k) == 1 + MapThenSumSet(LAMBDA j : apics[j].inputs - 1, 1 .. k)

\* The I/O APICs whose loop writes the entry of GSI g.
Claims(apics, g) ==
    {k \in DOMAIN apics : g \in apics[k].base .. apics[k].base + irqs(apics, k) - 1}

\* init_irqRouter: each I/O APIC claims its GSIs, the later ones over the earlier.
init_irqRouter(madt) ==
    LET apics == madt.ioapics
        entry(g) == ISAEntries(madt.overrides)[g]
    IN  [g \in Gsis |->
            IF Claims(apics, g) = {} THEN entry(g)
            ELSE LET k == Max(Claims(apics, g))
                 IN  [entry(g) EXCEPT !.apic = apics[k].id, !.input = g - apics[k].base]]

IoApicEntries == [id : Nat, base : Nat, inputs : Nat \ {0}]

\* What the firmware's table and the drivers hand in: I/O APICs with an id of
\* their own, an I/O APIC for every ISA interrupt and for every overridden one,
\* and bits for flags.
ASSUME FirmwareAssumption ==
    /\ 0 \in Gsis /\ Flags \subseteq [destmode : {0, 1}, polarity : {0, 1}, trigger : {0, 1}]
    /\ \A madt \in Madts :
        /\ madt.ioapics \in Seq(IoApicEntries)
        /\ \A j, k \in DOMAIN madt.ioapics : madt.ioapics[j].id = madt.ioapics[k].id => j = k
        /\ madt.overrides \subseteq [gsi : Nat, irq : Nat, polarity : {0, 1}, trigger : {0, 1}]
        /\ \A g \in Gsis : g < ISACount \/ (\E o \in madt.overrides : o.gsi = g)
                => Claims(madt.ioapics, g) # {}

\* isMapped: the 64 bits of the entry are not all zero.
isMapped(g) == re[g] # BlankEntry

\* The I/O APIC an entry names, by its id; 0 is the address 0.
ioapic_addr(r) ==
    LET same == {k \in DOMAIN ioapics : ioapics[k].id = r.apic}
    IN  IF same = {} THEN 0 ELSE Min(same)

\* The low word as the hardware reads it.  mapped_t has polarity, trigger and
\* masked in bits 12, 14 and 15; the redirection entry has them in 13, 15, 16.
\* Bits 12 and 14 are read-only there, and bit 16 is cut off by the mask.
LowWord(r) == [vec |-> r.vec, destmode |-> r.destmode, polarity |-> 0,
               trigger |-> r.masked, masked |-> 0]

\* Slip: the handler is left to the caller.
SlipinstallISA(g, lapic, pri) ==
    LET idx == request_vector_min(pri)
    IN  /\ pc = "idle" /\ g < ISACount /\ idx # NoVector
        /\ re' = [re EXCEPT ![g].vec = idx + 32, ![g].dest = lapic, ![g].masked = 0]
        /\ pc' = "low" /\ gsi' = g
        /\ UNCHANGED <<handleTable, ioapics, redir, lvt, ran>>

\* installISA up to the register writes: the vector, the handler, the router's
\* entry.  Without a free vector it returns and changes nothing.
installISA(g, lapic, pri) ==
    LET idx == request_vector_min(pri)
    IN  /\ pc = "idle" /\ g < ISACount /\ idx # NoVector
        /\ set_handler(idx, Driver(g))
        /\ re' = [re EXCEPT ![g].vec = idx + 32, ![g].dest = lapic, ![g].masked = 0]
        /\ pc' = "low" /\ gsi' = g
        /\ UNCHANGED <<ioapics, redir, lvt, ran>>

\* installIRQ: the same for the other GSIs, with the driver's flags.
installIRQ(g, lapic, flags, pri) ==
    LET idx == request_vector_min(pri)
    IN  /\ pc = "idle" /\ g >= ISACount /\ isMapped(g) /\ idx # NoVector
        /\ set_handler(idx, Driver(g))
        /\ re' = [re EXCEPT ![g].vec = idx + 32, ![g].dest = lapic, ![g].masked = 0,
                            ![g].polarity = flags.polarity, ![g].trigger = flags.trigger,
                            ![g].destmode = flags.destmode]
        /\ pc' = "low" /\ gsi' = g
        /\ UNCHANGED <<ioapics, redir, lvt, ran>>

\* What is written to an input the I/O APIC does not have goes nowhere.
Writable(k, input) == k # 0 /\ input \in DOMAIN redir[k]

\* The low half of the redirection entry, which unmasks it ...
WriteLow ==
    LET r == re[gsi]
        k == ioapic_addr(r)
        old == redir[k][r.input]
    IN  /\ pc = "low"
        /\ redir' = IF ~Writable(k, r.input) THEN redir
                    ELSE [redir EXCEPT ![k][r.input] = [low |-> LowWord(r), dest |-> old.dest]]
        /\ pc' = "high"
        /\ UNCHANGED <<handleTable, re, ioapics, lvt, gsi, ran>>

\* Slip: the high half is not written.
SlipWriteHigh ==
    /\ pc = "high"
    /\ pc' = "idle"
    /\ UNCHANGED <<handleTable, re, ioapics, redir, lvt, gsi, ran>>

\* ... and the high half, with the processor it goes to.
WriteHigh ==
    LET r == re[gsi]
        k == ioapic_addr(r)
    IN  /\ pc = "high"
        /\ redir' = IF ~Writable(k, r.input) THEN redir
                    ELSE [redir EXCEPT ![k][r.input].dest = r.dest]
        /\ pc' = "idle"
        /\ UNCHANGED <<handleTable, re, ioapics, lvt, gsi, ran>>

\* Slip: the register takes the sum as it is.
Slipinit_lapic_timer ==
    LET irq == request_vector_min(0) + 32
    IN  /\ pc = "idle" /\ lvt.vec = 0
        /\ IF irq - 32 \in DOMAIN handleTable THEN set_handler(irq - 32, Timer)
           ELSE UNCHANGED handleTable
        /\ lvt' = [vec |-> irq, masked |-> TRUE]
        /\ UNCHANGED <<re, ioapics, redir, pc, gsi, ran>>

\* init_lapic_timer: the vector is used unchecked, in eight bits.  An index
\* behind the table changes memory that is not the table's.
init_lapic_timer ==
    LET irq == (request_vector_min(0) + 32) % 256
        idx == (irq + 256 - 32) % 256
    IN  /\ pc = "idle" /\ lvt.vec = 0
        /\ IF idx \in DOMAIN handleTable THEN set_handler(idx, Timer) ELSE UNCHANGED handleTable
        /\ lvt' = [vec |-> irq, masked |-> TRUE]
        /\ UNCHANGED <<re, ioapics, redir, pc, gsi, ran>>

\* startTimer lifts the mask of the timer.
startTimer ==
    /\ pc = "idle" /\ lvt.vec # 0 /\ lvt.masked
    /\ lvt' = [lvt EXCEPT !.masked = FALSE]
    /\ UNCHANGED <<handleTable, re, ioapics, redir, pc, gsi, ran>>

-----------------------------------------------------------------------------
(* Arrivals.                                                               *)

Runs(source, vec, handler) ==
    ran' = [source |-> source, vec |-> vec, handler |-> handler]

\* irq_handler: the handler of the vector is called, whatever the table holds.
irq_handler(source, vec) == Runs(source, vec, handleTable[vec - 32])

\* exception_handler hangs on a match of the loop counter, for 0 .. 15.
need_hang(irqn) == irqn \in 0 .. 15
exception_handler(source, vec) ==
    Runs(source, vec, IF need_hang(vec) THEN <<"hang">> ELSE <<"return">>)

\* interrupt_handler: vectors below 32 are exceptions.
interrupt_handler(source, vec) ==
    IF vec < 32 THEN exception_handler(source, vec) ELSE irq_handler(source, vec)

\* The GSI an input of an I/O APIC stands for.
GsiOf(k, n) == ioapics[k].base + n

\* An unmasked input is raised.
DeviceInterrupt(k, n) ==
    /\ redir[k][n].low.masked = 0
    /\ interrupt_handler(Driver(GsiOf(k, n)), redir[k][n].low.vec)
    /\ UNCHANGED <<handleTable, re, ioapics, redir, lvt, pc, gsi>>

\* The timer runs out; lapic_timer_handler masks it again.
TimerInterrupt ==
    /\ lvt.vec # 0 /\ ~lvt.masked
    /\ interrupt_handler(Timer, lvt.vec)
    /\ lvt' = [lvt EXCEPT !.masked = TRUE]
    /\ UNCHANGED <<handleTable, re, ioapics, redir, pc, gsi>>

\* The processor raises an exception.
Exception(n) ==
    /\ interrupt_handler(Cpu, n)
    /\ UNCHANGED <<handleTable, re, ioapics, redir, lvt, pc, gsi>>

-----------------------------------------------------------------------------
MaskedWord == [vec |-> 0, destmode |-> 0, polarity |-> 0, trigger |-> 0, masked |-> 1]

\* init_IRQHandleTable, then init_irqRouter, which masks every input it knows
\* of and leaves the destination the firmware set.
Init ==
    \E madt \in Madts, dest \in Lapics :
        /\ handleTable = [n \in 0 .. Levels * Slots - 1 |-> NULL]
        /\ re = init_irqRouter(madt)
        /\ ioapics = madt.ioapics
        /\ redir = [k \in DOMAIN madt.ioapics |->
                       [n \in 0 .. madt.ioapics[k].inputs - 1 |->
                           [low |-> MaskedWord, dest |-> dest]]]
        /\ lvt = [vec |-> 0, masked |-> TRUE]
        /\ pc = "idle" /\ gsi = 0
        /\ ran = [source |-> Cpu, vec |-> 0, handler |-> <<"hang">>]

Next ==
    \/ \E g \in Gsis, lapic \in Lapics, pri \in Priorities : installISA(g, lapic, pri)
    \/ \E g \in Gsis, lapic \in Lapics, flags \in Flags, pri \in Priorities :
          installIRQ(g, lapic, flags, pri)
    \/ WriteLow
    \/ WriteHigh
    \/ init_lapic_timer
    \/ startTimer
    \/ \E k \in DOMAIN redir : \E n \in DOMAIN redir[k] : DeviceInterrupt(k, n)
    \/ TimerInterrupt

Spec == Init /\ [][Next]_vars

\* With drivers that give their vector back, and with exceptions.
SpecFree == Init /\ [][Next \/ \E n \in DOMAIN handleTable : free_vector(n)]_vars
SpecExceptions == Init /\ [][Next \/ \E n \in 0 .. 31 : Exception(n)]_vars

-----------------------------------------------------------------------------
(* Properties.                                                             *)

Unmasked == {u \in UNION {{<<k, n>> : n \in DOMAIN redir[k]} : k \in DOMAIN redir} :
                redir[u[1]][u[2]].low.masked = 0}

\* Every variable has its type; registers hold bytes and bits.
TypeOK ==
    /\ \A g \in Gsis : re[g].vec \in 0 .. 255 /\ re[g].masked \in {0, 1}
    /\ \A k \in DOMAIN redir : \A n \in DOMAIN redir[k] :
          redir[k][n].low.vec \in 0 .. 255 /\ redir[k][n].dest \in Lapics
    /\ lvt \in [vec : 0 .. 255, masked : BOOLEAN]
    /\ pc \in {"idle", "low", "high"} /\ gsi \in Gsis

\* An interrupt that can arrive finds its own driver's handler: no two drivers
\* share a vector, and the handler is there before the input is unmasked.
OwnHandler ==
    \A u \in Unmasked :
        LET vec == redir[u[1]][u[2]].low.vec
        IN  vec >= 32 /\ handleTable[vec - 32] = Driver(GsiOf(u[1], u[2]))

\* Between installations the router's entries describe the hardware.
RouterMirrorsHardware ==
    pc = "idle" =>
        \A u \in Unmasked :
            LET r == re[GsiOf(u[1], u[2])]
                e == redir[u[1]][u[2]]
            IN  e.low.vec = r.vec /\ e.dest = r.dest /\ r.masked = 0

\* At every point of an installation an interrupt finds its own handler, and between
\* installations the router's entries are what the I/O APICs hold.
RoutesSound == TypeOK /\ OwnHandler /\ RouterMirrorsHardware

\* A GSI a driver can install a handler for.
Installable(g) == g < ISACount \/ isMapped(g)

RouterEntries ==
    [vec : 0 .. 255, destmode : {0, 1}, polarity : {0, 1}, trigger : {0, 1}, masked : {0, 1},
     irq : Nat, apic : Nat, input : Int, dest : Nat]
LowWords == [vec : 0 .. 255, destmode : {0, 1}, polarity : {0, 1}, trigger : {0, 1}, masked : {0, 1}]
RedirEntries == [low : LowWords, dest : Lapics]

\* The tables have the sizes the hardware reports, and their entries the fields
\* of mapped_t and of a redirection entry.
TablesTyped ==
    /\ DOMAIN handleTable = 0 .. Levels * Slots - 1
    /\ re \in [Gsis -> RouterEntries]
    /\ ioapics \in Seq(IoApicEntries)
    /\ DOMAIN redir = DOMAIN ioapics
    /\ \A k \in DOMAIN redir : redir[k] \in [0 .. ioapics[k].inputs - 1 -> RedirEntries]

\* An entry that can be installed leads to the input that stands for its GSI, or
\* to none.
LeadsToItsInput ==
    \A g \in Gsis : Installable(g) =>
        LET k == ioapic_addr(re[g])
        IN  k # 0 => k \in DOMAIN ioapics /\ ioapics[k].base + re[g].input = g

\* Only the entry of its GSI unmasks an input, and it has been filled in by then:
\* from the handler on, but for the processor, which the high half brings.
InputFollowsEntry(k, n) ==
    LET g == GsiOf(k, n)
        e == redir[k][n]
    IN  e.low.masked = 0 =>
            /\ g \in Gsis /\ Installable(g) /\ ioapic_addr(re[g]) = k /\ re[g].input = n
            /\ re[g].masked = 0
            /\ (pc = "low" /\ gsi = g) \/ e.low.vec = re[g].vec
            /\ (pc # "idle" /\ gsi = g) \/ e.dest = re[g].dest
            /\ e.low.vec >= 32 /\ e.low.vec - 32 \in DOMAIN handleTable
            /\ handleTable[e.low.vec - 32] = Driver(g)
InputsFollowEntries == \A k \in DOMAIN redir : \A n \in DOMAIN redir[k] : InputFollowsEntry(k, n)

\* The installation under way has its handler in place.
InstallationInv ==
    pc # "idle" =>
        LET r == re[gsi]
        IN  /\ Installable(gsi) /\ r.masked = 0 /\ r.dest \in Lapics
            /\ r.vec >= 32 /\ r.vec - 32 \in DOMAIN handleTable
            /\ handleTable[r.vec - 32] = Driver(gsi)

\* What every step of an installation and every arrival keeps.
RoutesInv == TypeOK /\ TablesTyped /\ LeadsToItsInput /\ InputsFollowEntries /\ InstallationInv

\* A handler in the table is never replaced by an installation.
NoHandlerReplaced ==
    [][\A n \in DOMAIN handleTable : handleTable[n] # NULL => handleTable'[n] = handleTable[n]]_vars

\* idt.h:131 "if not found, will look at lvl N+1, N+2, ... , PRI_LEVEL_13 until
\* it finds a free entry".
MinLooksHigher ==
    \A pri \in Priorities :
        (\E vec \in PRI_LVL_START(pri) .. Levels * Slots - 1 : isHandleFree(vec))
            => request_vector_min(pri) # NoVector

\* idt.h:140 "the idt gate that will be cleared and disabled": a vector given
\* back is not run any more.
FreedIsDisabled == ran.handler # NULL

\* router.h:91 the flags a driver supplies "initialize the corresponding I/O
\* APIC Entry it wants".
FlagsReachHardware ==
    pc = "idle" =>
        \A u \in Unmasked :
            LET r == re[GsiOf(u[1], u[2])]
                e == redir[u[1]][u[2]]
            IN  e.low.polarity = r.polarity /\ e.low.trigger = r.trigger

\* router.h:80 "the Local APIC (Processor) That will be notified of the
\* interrupt".
GoesToItsProcessor ==
    \A u \in Unmasked : redir[u[1]][u[2]].dest = re[GsiOf(u[1], u[2])].dest

\* router.c:238 "Can't use GSI that doesn't have I/O APIC Mapping": a GSI that
\* installIRQ accepts is an input of an I/O APIC.
MappedMeansInput ==
    \A g \in Gsis : g >= ISACount /\ isMapped(g) =>
        \E k \in DOMAIN ioapics : g \in ioapics[k].base .. ioapics[k].base + ioapics[k].inputs - 1

\* idt.h:147 "0 ->31 - Intel-Reserved Exception interrupts": no device or timer
\* is given one of them.
VectorAboveExceptions == lvt.vec # 0 => lvt.vec >= 32

\* handlers.c:32 lists the exceptions that stop the kernel (trap_gates).
TrapGatesHang ==
    ran.source = Cpu =>
        (ran.handler = <<"hang">>
            <=> ran.vec \in {0, 5, 6, 7, 8, 9, 10, 11, 12, 13, 14, 16, 17, 18, 19, 20})
=============================================================================
