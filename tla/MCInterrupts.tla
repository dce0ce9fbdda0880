---------------------------- MODULE MCInterrupts ----------------------------
(***************************************************************************)
(* Two priority levels of three entries; one ISA interrupt and two others. *)
(***************************************************************************)
EXTENDS Interrupts

Override == [gsi |-> 0, irq |-> 1, polarity |-> 1, trigger |-> 1]

\* One I/O APIC with three inputs, without and with an override.
OneIoApic == {[ioapics |-> <<[id |-> 1, base |-> 0, inputs |-> 3]>>, overrides |-> o] :
                 o \in {{}, {Override}}}

\* Two I/O APICs of two inputs each.
TwoIoApics == {[ioapics |-> <<[id |-> 1, base |-> 0, inputs |-> 2],
                              [id |-> 2, base |-> 2, inputs |-> 2]>>, overrides |-> {}]}

LevelTriggered == {[destmode |-> 0, polarity |-> 1, trigger |-> 1]}
=============================================================================
