----------------------------- MODULE LoadKernel -----------------------------
(***************************************************************************)
(* loadKernel of bootloader/source/loadkernel.c with the ELF readers of    *)
(* elfutil.c and readFile of file.c.  The kernel goes into one block of    *)
(* pages: its loadable segments, then the stacks, the task state segments  *)
(* and the descriptor table of the processors, and the header that is      *)
(* handed over.  Sizes are in bytes, of which a page has few.              *)
(*                                                                         *)
(* memory is what the firmware keeps: descriptors [type, phys, pages], in  *)
(* the order of their addresses, counted in pages.                         *)
(***************************************************************************)
EXTENDS Platform

CONSTANTS Images,       \* a function from names to kernel files
          Machines,     \* the memories the firmware may start with
          PageBytes,    \* PAGE_SIZE
          StackBytes, TssBytes, GdtEntryBytes, HeaderBytes,
          ReadsFail     \* whether the disk may deliver less than was asked for

ASSUME LoadAssumption ==
    /\ PageBytes \in Nat \ {0}
    /\ {StackBytes, TssBytes, GdtEntryBytes, HeaderBytes} \subseteq Nat \ {0}
    /\ ReadsFail \in BOOLEAN

\* A memory descriptor of the firmware.
Types == {"conventional", "loader code", "boot code", "boot data", "runtime code",
          "runtime data", "reserved", "kernel", "memory map"}
Descriptor == [type : Types, phys : Nat, pages : Nat \ {0}]

\* One after the other, in the order of their addresses.
Ordered(m) == \A i, j \in 1 .. Len(m) : i < j => m[i].phys + m[i].pages <= m[j].phys

\* A program header, and the ones that are loaded.
Segment == [load : BOOLEAN, offset : Nat, filesz : Nat, memsz : Nat, paddr : Nat]
Loads(image) == {i \in 1 .. Len(image.segments) : image.segments[i].load}

\* The sum of their p_memsz, as the number of their bytes.
LoadedBytes(image) == UNION {{i} \X (1 .. image.segments[i].memsz) : i \in Loads(image)}
SegmentBytes(image) == Cardinality(LoadedBytes(image))

ASSUME MachinesAssumption == \A m \in Machines : m \in Seq(Descriptor) /\ Ordered(m)

\* Loadable segments are in the order of their addresses, which the ELF format demands.
InOrder(image) ==
    \A i, j \in Loads(image) :
        i < j => image.segments[i].paddr + image.segments[i].memsz <= image.segments[j].paddr

ASSUME ImagesAssumption ==
    /\ \A d \in Directories : \A i \in DOMAIN d :
          d[i].kind = "file" /\ d[i].name = Name => d[i].image \in DOMAIN Images
    /\ \A name \in DOMAIN Images :
          LET image == Images[name]
          IN  /\ image.start \in Nat /\ image.bytes \in Nat
              /\ image.segments \in Seq(Segment) /\ InOrder(image)
              /\ \A i \in Loads(image) : image.segments[i].filesz <= image.segments[i].memsz
              /\ IsFiniteSet(LoadedBytes(image))

VARIABLES memory,       \* the firmware's memory
          block,        \* the pages of the kernel
          content,      \* the bytes of the block that are not zero: their offsets in the file
          seg,          \* the next program header
          lastLoad,     \* the last one loaded, 0 before
          config        \* program_config: offsets of the parts behind the segments

loadVars == <<memory, block, content, seg, lastLoad, config>>

NoBlock == [phys |-> 0, pages |-> 0]
NoConfig == [endOffset |-> 0, stacks |-> 0, tss |-> 0, gdt |-> 0, header |-> 0, totalSize |-> 0]
Image == Images[kernelhandle.image]

-----------------------------------------------------------------------------
(* The firmware: an allocation takes the end of a region that is free.  It *)
(* has nothing to give to one of no pages.                                 *)

\* s with its i-th element replaced by the elements of mid.
Spliced(s, i, mid) == SubSeq(s, 1, i - 1) \o mid \o SubSeq(s, i + 1, Len(s))

Take(m, i, type, n) ==
    LET r    == m[i]
        rest == [r EXCEPT !.pages = @ - n]
        got  == [type |-> type, phys |-> r.phys + r.pages - n, pages |-> n]
    IN  Spliced(m, i, IF rest.pages = 0 THEN <<got>> ELSE <<rest, got>>)

Free(m, n) == {i \in 1 .. Len(m) : n > 0 /\ m[i].type = "conventional" /\ m[i].pages >= n}

-----------------------------------------------------------------------------
LoadInit ==
    /\ memory \in Machines
    /\ block = NoBlock /\ content = <<>>
    /\ seg = 1 /\ lastLoad = 0 /\ config = NoConfig

Goto(s) == stage' = s /\ UNCHANGED <<findVars, platformVars, loadVars>>

\* The magic, class, byte order, versions, type and machine are as they must be.
verifyElfHeader == Image.valid

\* The reads of the tables bring all of them.
elfSectionHeaderTable == "shdr" \notin Image.broken
elfSectionHeaderStringTable == "shstrtab" \notin Image.broken
elfProgramHeaderTable == "phdr" \notin Image.broken

\* The regions the pages may come from; with none of them 0 is returned.
allocatePages(n) == Free(memory, n)

\* Stage 1.  Without a kernel the first read calls through a null handle.
ReadHeader ==
    /\ stage = "header"
    /\ Goto(IF kernelhandle = NoFile THEN "wild"
            ELSE IF "ehdr" \in Image.broken \/ ~verifyElfHeader THEN "halted" ELSE "sections")

\* Stage 2.  A section table that cannot be read is a null pointer, read at once.
\* Names that cannot be read are whatever the buffer held.
FindSections ==
    /\ stage = "sections"
    /\ Goto(IF ~elfSectionHeaderTable \/ ~elfSectionHeaderStringTable THEN "wild"
            ELSE IF {".stack", ".symtab", ".strtab"} \subseteq Image.sections THEN "symbols"
            ELSE "halted")

\* Stage 3.  Image.start is the value of __kernel_start, 0 when there is none.
FindStart ==
    /\ stage = "symbols"
    /\ Goto(IF {"symtab", "strtab"} \cap Image.broken # {} \/ Image.start = 0
            THEN "halted" ELSE "allocate")

StacksSize == StackBytes * cores
TssSize == TssBytes * cores
GdtSize == GdtEntryBytes * (5 + cores)

\* Slip: only the last of the segments is counted.
SlipTotalSize(image) ==
    Cardinality({b \in LoadedBytes(image) : b[1] = Max(Loads(image))})
    + GdtSize + StacksSize + TssSize + HeaderBytes

TotalSize(image) ==
    SegmentBytes(image) + GdtSize + StacksSize + TssSize + HeaderBytes

\* The pages that were counted, and not the bytes, decide whether one is added.
PagesFor(bytes) ==
    LET t == bytes \div PageBytes
    IN  t + AsStatus(t % PageBytes # 0)

\* Stage 4.  The block is cleared.
AllocateKernel ==
    /\ stage = "allocate" /\ elfProgramHeaderTable
    /\ \E i \in allocatePages(PagesFor(TotalSize(Image))) :
          /\ memory' = Take(memory, i, "kernel", PagesFor(TotalSize(Image)))
          /\ block' = [phys |-> memory[i].phys + memory[i].pages - PagesFor(TotalSize(Image)),
                       pages |-> PagesFor(TotalSize(Image))]
    /\ content' = <<>>
    /\ stage' = "segments"
    /\ UNCHANGED <<findVars, platformVars, seg, lastLoad, config>>

\* A table of program headers that cannot be read is a null pointer, read at once.
AllocateFails ==
    /\ stage = "allocate"
    /\ ~elfProgramHeaderTable \/ allocatePages(PagesFor(TotalSize(Image))) = {}
    /\ Goto(IF elfProgramHeaderTable THEN "halted" ELSE "wild")

SkipSegment ==
    /\ stage = "segments" /\ seg <= Len(Image.segments) /\ ~Image.segments[seg].load
    /\ seg' = seg + 1
    /\ UNCHANGED <<stage, findVars, platformVars, memory, block, content, lastLoad, config>>

\* How many bytes readFile may deliver.  It refuses to read beyond the end of the
\* file; an error of the disk it only reports.
readFile(offset, count) ==
    IF offset + count > Image.bytes THEN {0}
    ELSE IF ReadsFail THEN 0 .. count ELSE {count}

\* Slip: a segment is put where it lies in the file.
SlipPlaced(s, n) ==
    [b \in DOMAIN content \cup {s.offset + k : k \in 0 .. n - 1} |->
        IF b \in s.offset .. s.offset + n - 1 THEN b ELSE content[b]]

\* The first n bytes of the segment are now in the block.
Placed(s, n) ==
    [b \in DOMAIN content \cup {s.paddr + k : k \in 0 .. n - 1} |->
        IF b \in s.paddr .. s.paddr + n - 1 THEN s.offset + (b - s.paddr) ELSE content[b]]

\* p_memsz bytes are read, also those that are not in the file.  What is checked
\* behind it, as a status, is 1 when too few were read.
LoadSegment ==
    /\ stage = "segments" /\ seg <= Len(Image.segments) /\ Image.segments[seg].load
    /\ LET s == Image.segments[seg]
       IN  \E n \in readFile(s.offset, s.memsz) :
              /\ content' = Placed(s, n)
              /\ stage' = IF EFI_ERROR(AsStatus(n # s.memsz)) THEN "halted" ELSE "segments"
    /\ seg' = seg + 1 /\ lastLoad' = seg
    /\ UNCHANGED <<findVars, platformVars, memory, block, config>>

\* Slip: the task state segments start where the stacks do.
SlipLayout(end) ==
    [endOffset |-> end, stacks |-> end, tss |-> end,
     gdt |-> end + TssSize, header |-> end + TssSize + GdtSize, totalSize |-> TotalSize(Image)]

Layout(end) ==
    [endOffset |-> end, stacks |-> end, tss |-> end + StacksSize,
     gdt |-> end + StacksSize + TssSize, header |-> end + StacksSize + TssSize + GdtSize,
     totalSize |-> TotalSize(Image)]

\* Stage 6.
LayOut ==
    /\ stage = "segments" /\ seg > Len(Image.segments) /\ lastLoad # 0
    /\ LET s == Image.segments[lastLoad]
       IN  config' = Layout(s.paddr + s.memsz)
    /\ stage' = "map"
    /\ UNCHANGED <<findVars, platformVars, memory, block, content, seg, lastLoad>>

NothingToLoad ==
    /\ stage = "segments" /\ seg > Len(Image.segments) /\ lastLoad = 0
    /\ Goto("wild")

LoadNext ==
    \/ ReadHeader \/ FindSections \/ FindStart \/ AllocateKernel \/ AllocateFails
    \/ SkipSegment \/ LoadSegment \/ LayOut \/ NothingToLoad

-----------------------------------------------------------------------------
(* Properties.                                                             *)

Loaded == config # NoConfig

\* The parts of the block, as [from, to).
Segments == {[from |-> Image.segments[i].paddr,
              to   |-> Image.segments[i].paddr + Image.segments[i].memsz] : i \in Loads(Image)}
Arrays == {[from |-> config.stacks, to |-> config.stacks + StacksSize],
           [from |-> config.tss, to |-> config.tss + TssSize],
           [from |-> config.gdt, to |-> config.gdt + GdtSize],
           [from |-> config.header, to |-> config.header + HeaderBytes]}

Apart(a, b) == a.to <= b.from \/ b.to <= a.from \/ a.from = a.to \/ b.from = b.to

\* No array for the processors and no header lies over a segment or over another
\* array, however many processors there are and wherever the last segment ends.
PartsDisjoint ==
    Loaded => /\ \A a \in Arrays, s \in Segments : Apart(a, s)
              /\ \A a, b \in Arrays : a # b => Apart(a, b)

\* The bytes between the segments.
Gaps == LET end == config.endOffset
        IN  Cardinality({b \in 0 .. end - 1 : \A s \in Segments : b \notin s.from .. s.to - 1})

\* The block was counted without the gaps that aligned segments leave (kernel.ld) and may
\* lack the page that was begun: what is laid out overruns it, but by less than a page
\* and the gaps, however many processors and segments there are.
OverrunBounded ==
    Loaded => config.header + HeaderBytes < (block.pages + 1) * PageBytes + Gaps

\* "all required memory is allocated in a single contiguous block" (main.c): the block
\* holds all of it.
BlockHoldsEvery == Loaded => config.header + HeaderBytes <= block.pages * PageBytes

\* The bytes of the file that belong to a segment are at its place, none of them
\* written over by another one, for every segment that could be read.
SegmentsInPlace ==
    Loaded => \A i \in Loads(Image) :
        LET s == Image.segments[i]
        IN  s.offset + s.memsz <= Image.bytes =>
                \A k \in 0 .. s.filesz - 1 :
                    s.paddr + k \in DOMAIN content /\ content[s.paddr + k] = s.offset + k

\* Segments, stacks, TSS, GDT and header do not lie over each other, every segment that
\* could be read is where its program header puts it, and what is laid out exceeds the
\* block by no more than the gaps and a page.
KernelLaidOut == PartsDisjoint /\ SegmentsInPlace /\ OverrunBounded

\* "Couldn't Read PT_LOAD segment" (loadkernel.c): a kernel with a segment that was
\* not read is not used.
EverySegmentRead ==
    Loaded => \A i \in Loads(Image) : \A k \in 0 .. Image.segments[i].filesz - 1 :
        Image.segments[i].paddr + k \in DOMAIN content

\* The bytes of a segment that the file does not hold are zero.
UninitialisedIsZero ==
    Loaded => \A i \in Loads(Image) :
        LET s == Image.segments[i]
        IN  \A k \in s.filesz .. s.memsz - 1 : s.paddr + k \notin DOMAIN content
=============================================================================
