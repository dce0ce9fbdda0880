------------------------------- MODULE MCBoot -------------------------------
(***************************************************************************)
(* Instances of Boot: a page has four bytes, a table five entries.  The    *)
(* disks hold kernels at several depths, in several volumes and nowhere;   *)
(* the images are whole or broken in one way each.                         *)
(***************************************************************************)
EXTENDS Boot

\* Images.
Seg(load, offset, filesz, memsz, paddr) ==
    [load |-> load, offset |-> offset, filesz |-> filesz, memsz |-> memsz, paddr |-> paddr]
Whole == [bytes |-> 30, valid |-> TRUE, broken |-> {}, start |-> 300,
          sections |-> {".stack", ".symtab", ".strtab"},
          segments |-> <<Seg(TRUE, 4, 6, 6, 0), Seg(FALSE, 0, 2, 2, 1), Seg(TRUE, 12, 5, 5, 6)>>]
MCImages ==
    [whole     |-> Whole,
     three     |-> [Whole EXCEPT !.segments = <<Seg(TRUE, 2, 3, 3, 0), Seg(TRUE, 6, 6, 6, 3),
                                                Seg(TRUE, 14, 0, 4, 9)>>],
     cut       |-> [Whole EXCEPT !.bytes = 14],
     gapped    |-> [Whole EXCEPT !.segments = <<Seg(TRUE, 4, 5, 5, 0), Seg(TRUE, 12, 5, 5, 8),
                                                Seg(TRUE, 20, 5, 5, 16)>>],
     notElf    |-> [Whole EXCEPT !.valid = FALSE],
     noHeader  |-> [Whole EXCEPT !.broken = {"ehdr"}],
     noTable   |-> [Whole EXCEPT !.broken = {"shdr"}],
     noStack   |-> [Whole EXCEPT !.sections = @ \ {".stack"}],
     noNames   |-> [Whole EXCEPT !.broken = {"strtab"}],
     noStart   |-> [Whole EXCEPT !.start = 0],
     noProgram |-> [Whole EXCEPT !.broken = {"phdr"}],
     empty     |-> [Whole EXCEPT !.segments = <<Seg(FALSE, 0, 2, 2, 1)>>],
     huge      |-> [Whole EXCEPT !.segments = <<Seg(TRUE, 0, 200, 200, 0)>>]]

\* Disks.
File(name, image) == [kind |-> "file", name |-> name, image |-> image]
Dir(name, entries) == [kind |-> "dir", name |-> name, entries |-> entries]
DotEntries == <<Dir(".", <<>>), Dir("..", <<>>)>>
Boot1 == Dir("efi", DotEntries \o <<File("boot.efi", "none")>>)
Kernel(image) == File("kernel.elf", image)

AtRoot(image) == <<<<Boot1, Kernel(image)>>>>
Deep(image) == <<<<Dir("a", DotEntries \o <<Dir("b", <<Kernel(image), File("x", "none")>>),
                                           File("y", "none")>>), Boot1>>>>
SomeVolumes == <<<<Boot1>>, <<Dir("k", <<Kernel("whole")>>)>>, <<File("x", "none")>>>>
TwoKernels == <<<<Kernel("three")>>, <<Dir("k", <<Kernel("cut")>>), Kernel("whole")>>>>
NoKernel == <<<<Boot1>>, <<>>>>

MCDisks == {AtRoot(i) : i \in DOMAIN MCImages \ {"three", "gapped"}}
           \cup {Deep("three"), Deep("gapped"), SomeVolumes, TwoKernels, NoKernel}

\* Levels of directories below the volumes.
Depth == 4

MCDirectories ==
    LET below(dirs) == UNION {{d[i].entries : i \in {j \in 1 .. Len(d) : d[j].kind = "dir"}} : d \in dirs}
    IN  FoldLeft(LAMBDA seen, k : seen \cup below(seen), UNION {Range(d) : d \in MCDisks},
                 [k \in 1 .. Depth |-> k])

\* Screens: the mode to be found is the first, the last, or not there.
Mode(wanted, bytes) == [wanted |-> wanted, bytes |-> bytes]
MCModes == {<<Mode(FALSE, 8), Mode(TRUE, 12), Mode(FALSE, 10)>>, <<Mode(FALSE, 8), Mode(TRUE, 12)>>}

\* Machines.
Region(type, phys, pages) == [type |-> type, phys |-> phys, pages |-> pages]
Small == <<Region("boot data", 1, 3), Region("conventional", 4, 8), Region("loader code", 12, 2),
           Region("conventional", 14, 36), Region("runtime code", 50, 1), Region("runtime data", 51, 2)>>
BigFirmware == <<Region("loader code", 1, 2), Region("reserved", 3, 2), Region("conventional", 5, 9),
                 Region("runtime data", 14, 1), Region("boot code", 15, 27)>>
Tight == <<Region("loader code", 1, 1), Region("conventional", 2, 34)>>
\* What is free is what the kernel takes with two processors.
Exact == <<Region("loader code", 1, 1), Region("conventional", 2, 7), Region("boot code", 9, 20)>>
MCMachines == {Small, BigFirmware, Tight, Exact}
ReservedFirst == {<<Region("reserved", 1, 30)>> \o <<Region("loader code", 31, 1), Region("conventional", 32, 20)>>}

\* Root tables.
Table(sig) == [sig |-> sig, good |-> TRUE, pic |-> TRUE]
NoPic(sig) == [sig |-> sig, good |-> TRUE, pic |-> FALSE]
Bad(sig) == [sig |-> sig, good |-> FALSE, pic |-> TRUE]
\* The last has as many entries as the loop's counter has values.
MCXsdts == {<<Table("APIC"), Table("HPET"), NoPic("APIC")>>, <<Table("HPET"), Table("FACP")>>,
            <<Bad("HPET"), Table("APIC"), Table("HPET"), Table("APIC")>>,
            <<Table("APIC"), Bad("HPET")>>,
            <<Table("APIC"), Table("HPET"), Table("FACP"), Table("FACP"), Table("FACP")>>}
=============================================================================
