---------------------------- MODULE KernelStart -----------------------------
(***************************************************************************)
(* The kernel from its entry on: actual_start of kernel/source/entry/      *)
(* kernel.c, init_interrupts of interrupts/init.c, init_acpi of            *)
(* acpi/init.c and lapic_init of acpi/lapic.c.  Each step of the order is  *)
(* one action; what the steps set up is modelled in modules of its own     *)
(* (PmmInit, Paging, Interrupts, Timers) and is here only there or not.    *)
(* lapic_init turns interrupts on in the middle of the order, if the       *)
(* firmware has not left them on: whatever source is armed may interrupt   *)
(* between any two steps, and an interrupt without a handler is the end.   *)
(***************************************************************************)
EXTENDS ExitLoader

CONSTANTS
    Xsdts,          \* root tables: sequences of TableEntry
    CounterValues   \* values of init_acpi's 8-bit loop counter: 256

\* An entry of the root table: the signature of a table, whether its checksum is right,
\* and, of an MADT, bit 0 of its flags: there is a PIC as well.
TableEntry == [sig : {"APIC", "HPET", "FACP"}, good : BOOLEAN, pic : BOOLEAN]

ASSUME StartAssumption ==
    /\ CounterValues \in Nat \ {0}
    /\ Xsdts \subseteq Seq(TableEntry)

\* Sources that the firmware may leave armed.
LeftSources == {"pic", "ioapic"}

VARIABLES
    at,             \* step of the kernel's start
    xsdt,           \* the firmware's root table, once it is read
    scan,           \* init_acpi's i and the indices of the MADT and the HPET table
    flag,           \* the interrupt flag
    idt,            \* whose gates interrupts go through
    table,          \* the handler table: "junk", "clear", "hpet" with the timer's handler
    armed,          \* sources that can interrupt
    landed          \* the last interrupt: where it came from and where it went

kernelVars == <<at, xsdt, scan, flag, idt, table, armed, landed>>

NotFound == -1       \* UINT32_MAX
NoInterrupt == [from |-> "none", to |-> "none"]

KernelInit ==
    /\ at = "entry"
    /\ xsdt = <<>>
    /\ scan = [i |-> 0, madt |-> NotFound, hpet |-> NotFound]
    /\ flag = FALSE
    /\ idt = "firmware" /\ table = "junk" /\ landed = NoInterrupt
    /\ armed = {}

\* Slip: the handler table is cleared after the rest.
SlipOrder == << "entry", "basic", "graphics", "memory", "paging", "gdt", "idt", "xsdt", "acpi",
                "lapic", "table", "router", "hpet", "timer", "idle" >>

\* The order of actual_start, init_interrupts and init_acpi.
Order == << "entry", "basic", "graphics", "memory", "paging", "gdt", "idt", "table", "xsdt",
            "acpi", "lapic", "router", "hpet", "timer", "idle" >>

After(s) == Order[1 + CHOOSE k \in DOMAIN Order : Order[k] = s]

\* No interrupt has gone astray.
Alive == landed.to \in {"none", "handled"}

Takes(s) == stage = "jumped" /\ at = s /\ Alive
Goes(s) == at' = After(s)

\* _start: the flag and the sources are what the firmware left.
EnterKernel ==
    /\ Takes("entry") /\ Goes("entry")
    /\ flag' \in BOOLEAN
    /\ armed' \in SUBSET LeftSources
    /\ UNCHANGED <<xsdt, scan, idt, table, landed>>

\* Steps that set up what later steps use, and nothing an interrupt needs.
SetUp ==
    \E s \in {"basic", "graphics", "memory", "paging", "gdt"} :
        Takes(s) /\ Goes(s) /\ UNCHANGED <<xsdt, scan, flag, idt, table, armed, landed>>

\* initialize_idt, load_idt.
load_idt ==
    /\ Takes("idt") /\ Goes("idt")
    /\ idt' = "kernel"
    /\ UNCHANGED <<xsdt, scan, flag, table, armed, landed>>

init_IRQHandleTable ==
    /\ Takes("table") /\ Goes("table")
    /\ table' = "clear"
    /\ UNCHANGED <<xsdt, scan, flag, idt, armed, landed>>

\* The root table is the firmware's; nothing has looked at it before.
ReadXsdt ==
    /\ Takes("xsdt") /\ Goes("xsdt")
    /\ xsdt' \in Xsdts
    /\ UNCHANGED <<scan, flag, idt, table, armed, landed>>

\* Firmware with ACPI 1.0 has no such table: the kernel reports it and stops.
NoXsdt ==
    /\ Takes("xsdt")
    /\ at' = "halted" /\ flag' = FALSE
    /\ UNCHANGED <<xsdt, scan, idt, table, armed, landed>>

\* Slip: the first table with the signature is kept.
SlipRecord(old, sig, wanted) == IF sig = wanted /\ old = NotFound THEN scan.i ELSE old

\* "found * i + idxreg * !found": the last table with the signature.
Record(old, sig, wanted) == IF sig = wanted THEN scan.i ELSE old

\* One turn of the loop over the root table's entries.
ScanTable ==
    /\ Takes("acpi")
    /\ scan.i < Len(xsdt)
    /\ LET sig == xsdt[scan.i + 1].sig
       IN  scan' = [i |-> (scan.i + 1) % CounterValues,
                    madt |-> Record(scan.madt, sig, "APIC"),
                    hpet |-> Record(scan.hpet, sig, "HPET")]
    /\ UNCHANGED <<at, xsdt, flag, idt, table, armed, landed>>

Missing == NotFound \in {scan.madt, scan.hpet}
Invalid == ~Missing /\ \E k \in {scan.madt, scan.hpet} : ~xsdt[k + 1].good

\* KERNEL_ERROR_IF: both tables are there and their checksums are right, or the
\* kernel reports and stops, with interrupts off (abshalt).
TablesRefused ==
    /\ Takes("acpi")
    /\ scan.i >= Len(xsdt)
    /\ Missing \/ Invalid
    /\ at' = "halted" /\ flag' = FALSE
    /\ UNCHANGED <<xsdt, scan, idt, table, armed, landed>>

TablesFound ==
    /\ Takes("acpi") /\ Goes("acpi")
    /\ scan.i >= Len(xsdt)
    /\ ~Missing /\ ~Invalid
    /\ UNCHANGED <<xsdt, scan, flag, idt, table, armed, landed>>

\* lapic_init: cli, the four registers, sti - whatever the flag was.  The spurious
\* vector is enabled with the controller.
lapic_init ==
    /\ Takes("lapic") /\ Goes("lapic")
    /\ flag' = TRUE
    /\ armed' = armed \cup {"spurious"}
    /\ UNCHANGED <<xsdt, scan, idt, table, landed>>

Madt == xsdt[scan.madt + 1]

\* Slip: the inputs of the I/O APICs are left as they are.
Slipinit_irqRouter ==
    /\ Takes("router") /\ Goes("router")
    /\ armed' = armed \ (IF Madt.pic THEN {"pic"} ELSE {})
    /\ UNCHANGED <<xsdt, scan, flag, idt, table, landed>>

\* init_irqRouter masks the PIC, if the MADT tells of one, and every input of every
\* I/O APIC.
init_irqRouter ==
    /\ Takes("router") /\ Goes("router")
    /\ armed' = armed \ ({"ioapic"} \cup IF Madt.pic THEN {"pic"} ELSE {})
    /\ UNCHANGED <<xsdt, scan, flag, idt, table, landed>>

\* HPET_init: installISA sets the handler and opens the timer's input.
HPET_init ==
    /\ Takes("hpet") /\ Goes("hpet")
    /\ table' = "hpet"
    /\ armed' = armed \cup {"hpet"}
    /\ UNCHANGED <<xsdt, scan, flag, idt, landed>>

\* init_lapic_timer and set_lapic_timer_state; then hang().
init_lapic_timer ==
    /\ Takes("timer") /\ Goes("timer")
    /\ UNCHANGED <<xsdt, scan, flag, idt, table, armed, landed>>

\* Where an interrupt goes: the firmware's gates, or through the kernel's to the
\* entry of the handler table; what is not in it is null, and is called.
Reached(source) ==
    IF idt = "firmware" THEN "firmware"
    ELSE IF table = "junk" THEN "junk"
    ELSE IF source = table THEN "handled" ELSE "null"

\* An armed source interrupts.
Interrupt(source) ==
    /\ stage = "jumped" /\ flag /\ Alive
    /\ landed' = [from |-> source, to |-> Reached(source)]
    /\ landed' # landed
    /\ UNCHANGED <<at, xsdt, scan, flag, idt, table, armed>>

KernelNext ==
    \/ EnterKernel \/ SetUp \/ load_idt \/ init_IRQHandleTable \/ ReadXsdt \/ NoXsdt
    \/ ScanTable \/ TablesRefused \/ TablesFound
    \/ lapic_init \/ init_irqRouter \/ HPET_init \/ init_lapic_timer
    \/ \E source \in armed : Interrupt(source)

-----------------------------------------------------------------------------
(* Properties *)

\* lapic_init has enabled the controller and turned interrupts on.
TurnedOn == "spurious" \in armed

\* Interrupts that the kernel has turned on find its gates and a table of handlers that
\* has been cleared, and the timer's always finds its handler.  An interrupt is lost only
\* while the flag is still the firmware's; between the sti of lapic_init and the masking
\* of what the firmware left armed; if it comes from a PIC that the MADT does not tell
\* of; or if it is spurious, for which there is no handler.
InterruptsInOrder ==
    /\ TurnedOn => idt = "kernel" /\ table # "junk"
    /\ landed.from = "hpet" => landed.to = "handled"
    /\ ~Alive => \/ ~TurnedOn
                 \/ at = "router" /\ landed.from \in LeftSources
                 \/ landed.from = "pic" /\ ~Madt.pic
                 \/ landed.from = "spurious"

\* "initialize the idt with proper interrupt handlers" (interrupts/init.c): every
\* interrupt reaches a handler.
EveryInterruptHandled == Alive

\* The tables that the interrupt controllers and the timer are set up from are the
\* root table's last of their kind, and valid; without them nothing is set up.
TablesAreThere ==
    LET last(sig) == Max({k \in 0 .. Len(xsdt) - 1 : xsdt[k + 1].sig = sig} \cup {NotFound})
    IN  at \in {"lapic", "router", "hpet", "timer", "idle"} =>
            /\ scan.madt = last("APIC") /\ scan.madt # NotFound /\ xsdt[scan.madt + 1].good
            /\ scan.hpet = last("HPET") /\ scan.hpet # NotFound /\ xsdt[scan.hpet + 1].good
=============================================================================
