-------------------------------- MODULE Boot --------------------------------
(***************************************************************************)
(* efi_main of bootloader/source/main.c: the search for the kernel, the    *)
(* screen and the processors, the loading, and the way out, one after the  *)
(* other, each with what the ones before it have found, and then the start *)
(* of the kernel that has been jumped to.                                  *)
(***************************************************************************)
EXTENDS KernelStart

vars == <<bootVars, kernelVars>>

Init == FindInit /\ PlatformInit /\ LoadInit /\ ExitInit /\ KernelInit

Next ==
    \/ FindNext /\ UNCHANGED <<platformVars, loadVars, exitVars, kernelVars>>
    \/ PlatformNext /\ UNCHANGED <<loadVars, exitVars, kernelVars>>
    \/ LoadNext /\ UNCHANGED <<exitVars, kernelVars>>
    \/ ExitNext /\ UNCHANGED kernelVars
    \/ KernelNext /\ UNCHANGED bootVars

\* One processor runs the bootloader and the kernel's start, and nothing makes it
\* wait.  An interrupt that is handled does not count: the start goes on after it.
Spec == Init /\ [][Next]_vars /\ WF_vars(Next)

\* The stages: while the tables are filled, since the map was copied, since the
\* kernel's file was opened, before it is read.
Filling   == {"mapping", "framebuffer", "exit", "finalize"}
Copied    == Filling \cup {"prepare"}
Opened    == Copied \cup {"sections", "symbols", "allocate", "segments", "map", "jumped"}
Unread    == {"search", "screen", "acpi", "header", "sections", "symbols", "allocate"}
Stages    == Opened \cup {"search", "screen", "acpi", "header", "halted", "wild"}

TypeOK ==
    /\ stage \in Stages
    /\ vol \in 0 .. Len(disk) /\ infos \in Nat /\ cores \in Nat
    /\ at \in Range(Order) \cup {"halted"} /\ scan.i \in 0 .. Len(xsdt)
    /\ Jumped => pt.left \in Nat \ {0} /\ zone \in 1 .. Len(map.entries) - 1

\* From the jump to the idle loop, the kernel sets up its controllers and timers from
\* the tables that are there, and interrupts come to their handlers once the kernel has
\* turned them on and masked what the firmware left (InterruptsInOrder has the rest).
StartInOrder == TypeOK /\ InterruptsInOrder /\ TablesAreThere

-----------------------------------------------------------------------------
(* What keeps SearchFinds, KernelLaidOut, MapHandedOver and StartInOrder   *)
(* true.                                                                   *)

\* The activations of the search read directories within their entries, each but the
\* volume's with a buffer, and find files that are kernels.
IsKernel(file) == file = NoFile \/ file.image \in DOMAIN Images
Activation == [path : Seq(Nat), entries : Directories, pos : Nat]
SearchInv ==
    /\ disk \in Disks /\ vol \in 0 .. Len(disk)
    /\ frames \in Seq(Activation)
    /\ \A i \in 1 .. Len(frames) : frames[i].pos <= Len(frames[i].entries)
    /\ infos \in Nat /\ Len(frames) - 1 <= infos
    /\ IsKernel(out) /\ IsKernel(kernelhandle)
    /\ stage \in Opened => kernelhandle # NoFile

\* The activations are a way down from volume v.  Nothing has been found exactly as long
\* as no entry behind them leads to the kernel, but for the ones they have entered.
Way(acts, v, found) ==
    LET n == Len(acts)
        passed(i) == IF i = n THEN acts[i].pos ELSE acts[i].pos - 1
    IN  /\ v >= 1 /\ acts[1].entries = disk[v]
        /\ \A i \in 1 .. n :
              /\ acts[i].path # <<>> /\ acts[i].path[1] = v
              /\ HoldsKernel[acts[i].entries] => HoldsKernel[disk[v]]
              /\ found = NoFile => \A j \in 1 .. passed(i) : ~Leads(acts[i].entries[j])
        /\ \A i \in 1 .. n - 1 :
              LET e == acts[i].entries[acts[i].pos]
              IN  acts[i].pos >= 1 /\ e.kind # "file" /\ e.entries = acts[i + 1].entries
        /\ found # NoFile => found.path # <<>> /\ found.path[1] = v /\ HoldsKernel[disk[v]]

\* The volumes before the one being searched have given what they hold, and the only
\* directories open are those being read.
FoundInv ==
    /\ stage = "search" =>
          /\ frames = <<>> => FoundIn(1 .. vol)
          /\ frames # <<>> => Way(frames, vol, out) /\ FoundIn(1 .. vol - 1)
          /\ \A h \in handles : h.kind = "file" \/
                \E i \in 1 .. Len(frames) : h = DirHandle(frames[i].path)
    /\ SearchFinds

\* The firmware's memory stays in order, and has the kernel's block in it when
\* the map is copied.
MemoryInv ==
    /\ cores \in Nat /\ block.phys \in Nat
    /\ memory \in Seq(Descriptor) /\ Ordered(memory)
    /\ stage \in {"segments", "map"} => \E k \in 1 .. Len(memory) : memory[k].type = "kernel"

\* The bytes of the segments before the n-th program header are in place.
InPlace(n) ==
    \A i \in Loads(Image) : i < n =>
        LET s == Image.segments[i]
        IN  s.offset + s.memsz <= Image.bytes =>
                \A k \in 0 .. s.filesz - 1 :
                    s.paddr + k \in DOMAIN content /\ content[s.paddr + k] = s.offset + k

\* Nothing is laid out before the segments are loaded, one after the other, into the
\* block that was counted for them, and everything behind the last of them then.
LayoutInv ==
    /\ stage \in Unread => config = NoConfig /\ seg = 1 /\ lastLoad = 0
    /\ stage = "segments" => config = NoConfig
    /\ stage = "segments" \/ Loaded =>
          /\ kernelhandle.image \in DOMAIN Images /\ cores \in Nat
          /\ block.pages = PagesFor(TotalSize(Image))
          /\ seg \in Nat \ {0} /\ InPlace(seg)
          /\ \A i \in Loads(Image) : i < seg => i <= lastLoad
          /\ lastLoad # 0 => lastLoad \in Loads(Image) /\ lastLoad < seg
    /\ Loaded =>
          /\ lastLoad # 0 /\ seg > Len(Image.segments)
          /\ config = Layout(Image.segments[lastLoad].paddr + Image.segments[lastLoad].memsz)

\* The copy of the map is in order, has its length, has room for one more descriptor, and
\* is the firmware's map as long as its key is the firmware's.
KernelDescriptor == [type : Types \cup {"paging"}, phys : Nat, virt : Nat, pages : Nat]
CopyInv ==
    /\ key \in Nat /\ events \in Nat /\ key <= events
    /\ stage \in Copied =>
          /\ map \in [entries : Seq(KernelDescriptor), used : Nat, room : Nat]
          /\ Ordered(map.entries)
          /\ \A i \in 1 .. Len(map.entries) : map.entries[i].pages # 0
          /\ Len(map.entries) \in 1 .. map.room - 1
          /\ map.used = Len(map.entries) * EntrySize
          /\ key = events => /\ Len(map.entries) = Len(memory)
                             /\ \A i \in 1 .. Len(memory) : SameRegion(map.entries[i], memory[i])
    /\ stage = "finalize" => key = events

\* Every page of the biggest region is taken or left, and the last one is left.
StackInv ==
    stage \in Filling =>
        /\ zone \in 1 .. Len(map.entries)
        /\ pt.addr \in Nat /\ pt.left \in Nat \ {0}
        /\ map.entries[zone].phys <= pt.addr
        /\ pt.addr + pt.left = map.entries[zone].phys + map.entries[zone].pages

LoaderInv ==
    /\ stage \in Stages
    /\ SearchInv /\ MemoryInv /\ CopyInv /\ StackInv
    /\ MapHandedOver
    /\ Jumped => pt.left \in Nat \ {0} /\ zone \in 1 .. Len(map.entries) - 1

\* k is the index of the last of the first n entries with the signature, if any.
IsLast(k, n, wanted) ==
    /\ \/ k = NotFound
       \/ k \in 0 .. n - 1 /\ xsdt[k + 1].sig = wanted
    /\ \A j \in 0 .. n - 1 : j > k => xsdt[j + 1].sig # wanted

\* A root table that the loop's counter cannot count to the end of is never left.
ScanInv ==
    /\ xsdt \in Seq(TableEntry)
    /\ scan \in [i : Nat, madt : Int, hpet : Int]
    /\ scan.i <= Len(xsdt)
    /\ at \in {"entry", "basic", "graphics", "memory", "paging", "gdt", "idt", "table", "xsdt"} =>
          scan = [i |-> 0, madt |-> NotFound, hpet |-> NotFound]
    /\ IF Len(xsdt) < CounterValues
       THEN IsLast(scan.madt, scan.i, "APIC") /\ IsLast(scan.hpet, scan.i, "HPET")
       ELSE scan.i < CounterValues
    /\ at \in {"lapic", "router", "hpet", "timer", "idle"} =>
          Len(xsdt) = scan.i /\ Len(xsdt) < CounterValues /\ ~Missing /\ ~Invalid

\* Gates and handler table are in place before the kernel turns interrupts on, and the
\* timer's handler before the timer is armed.  The firmware's sources are armed until
\* they are masked.
Gated   == {"xsdt", "acpi", "lapic", "router", "hpet", "timer", "idle"}
GatesInv ==
    /\ at \in Range(Order) \cup {"halted"} /\ flag \in BOOLEAN
    /\ at \in Gated \cup {"table"} => idt = "kernel"
    /\ at \in Gated => table \in {"clear", "hpet"}
    /\ at = "halted" => ~flag
    /\ armed \subseteq LeftSources \cup {"spurious", "hpet"}
    /\ "hpet" \in armed => at \in {"timer", "idle"} /\ table = "hpet"
    /\ TurnedOn => at \in {"router", "hpet", "timer", "idle"}
    /\ at \in {"hpet", "timer", "idle"} =>
          "ioapic" \notin armed /\ ("pic" \in armed => ~Madt.pic)
    /\ InterruptsInOrder

StartInv == ScanInv /\ GatesInv

\* The way from the firmware comes to an end: in the kernel's idle loop, at an error
\* that is reported, at a null pointer or at an interrupt that is lost.  No directory
\* holds it up and no map; a list of tables does only if it has as many entries as the
\* counter of init_acpi has values.
ComesToAnEnd ==
    <>(\/ stage \in {"halted", "wild"} \/ at \in {"idle", "halted"} \/ ~Alive
       \/ Len(xsdt) >= CounterValues)
=============================================================================
