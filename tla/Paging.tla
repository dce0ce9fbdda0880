------------------------------- MODULE Paging -------------------------------
(***************************************************************************)
(* The page tables of the kernel, source/mem/virt/paging.c, and the        *)
(* wrappers that map ranges, source/mem/map_ptr.c.  Four levels of tables  *)
(* are frames from the page frame allocator; an entry is an address and a  *)
(* set of bits.  Pages and frames are counted in pages.  Translate is the  *)
(* processor's walk, the only external part.                               *)
(***************************************************************************)
EXTENDS Integers, FiniteSets

CONSTANTS Width,        \* entries of a table, 512 in the code
          TableFrames,  \* the frames pfa_alloc_page may return, and the PML4
          PML4Table,    \* the frame of the top table, which the kernel is given
          Offset,       \* virtualOffset(), in pages
          Handed,       \* the <<page, frame>> pairs the bootloader has mapped
          FlagSets,     \* the flags callers pass, PRESENT always among them
          Extents,      \* the lengths of the ranges callers map
          VPages,       \* the virtual pages at which ranges start
          PFrames       \* the frames at which ranges lead

Bits == {"present", "rw", "user", "cachedis", "ps", "dirty", "nx"}

Indices == 0 .. Width - 1
Span(level) == CASE level = 0 -> 1
                 [] level = 1 -> Width
                 [] level = 2 -> Width * Width
                 [] OTHER     -> Width * Width * Width
Space == 0 .. Width * Span(3) - 1

\* Bit 7 of a leaf entry selects a memory type and makes the entry of an upper
\* table the end of the walk: no caller passes it.
ASSUME PagingAssumption ==
    /\ Width \in Nat \ {0, 1} /\ Offset \in Nat
    /\ TableFrames \subseteq Nat /\ PML4Table \in TableFrames
    /\ Handed \subseteq Space \X Nat
    /\ \A f \in FlagSets : f \subseteq Bits \ {"ps"} /\ "present" \in f
    /\ Extents \subseteq Nat /\ VPages \subseteq Nat /\ PFrames \subseteq Nat

VARIABLES m,            \* the tables, the free frames, and whether a call hangs
          handed,       \* what the bootloader has still to map
          loop,         \* the pages the call of map_ptr.c in progress has left
          asked         \* the mapping last made of every page, for the properties

vars == <<m, handed, loop, asked>>

\* The page number, shifted right once for every level below.
Shifted(v, level) == CASE level = 0 -> v
                       [] level = 1 -> v \div Width
                       [] level = 2 -> (v \div Width) \div Width
                       [] OTHER     -> ((v \div Width) \div Width) \div Width
Index(v, level) == Shifted(v, level) % Width

Absent == [address |-> 0, bits |-> {}]
EmptyTable == [i \in Indices |-> Absent]

\* What a frame nobody has cleared may hold: entries that look present.
JunkTable == [i \in Indices |-> [address |-> PML4Table, bits |-> {"present"}]]

-----------------------------------------------------------------------------
(* Mapping.  x carries the tables and the table the walk has reached.      *)

SetEntry(mm, t, i, address, bits) ==
    [mm EXCEPT !.tab[t][i] = [address |-> address, bits |-> bits]]

\* Slip: a new table is not cleared.
SlipNewTable(mm, f) == [mm EXCEPT !.pool = @ \ {f}]

\* pfa_alloc_page and the memset behind it.
NewTable(mm, f) == [mm EXCEPT !.pool = @ \ {f}, !.tab[f] = EmptyTable]

\* Slip: a table that is there is replaced.
SlipDown(x, i, bits, kept) ==
    LET f == CHOOSE g \in x.m.pool : TRUE
    IN  IF x.m.pool = {} THEN [m |-> [x.m EXCEPT !.hung = TRUE], table |-> x.table]
        ELSE [m |-> SetEntry(NewTable(x.m, f), x.table, i, f, bits), table |-> f]

\* One level down through entry i, making the table when it is not there; with no
\* frame left pfa_alloc_page does not return.  Which frame it is does not matter.
\* kept: the bits that stay as the entry had them.
Down(x, i, bits, kept) ==
    LET e == x.m.tab[x.table][i]
        f == CHOOSE g \in x.m.pool : TRUE
    IN  CASE x.m.hung -> x
          [] ~x.m.hung /\ "present" \in e.bits -> [m |-> x.m, table |-> e.address]
          [] ~x.m.hung /\ "present" \notin e.bits /\ x.m.pool = {} ->
                [m |-> [x.m EXCEPT !.hung = TRUE], table |-> x.table]
          [] OTHER ->
                [m |-> SetEntry(NewTable(x.m, f), x.table, i, f, bits \cup (e.bits \cap kept)),
                 table |-> f]

Walk(mm, v, bits, kept) ==
    LET x2 == Down([m |-> mm, table |-> PML4Table], Index(v, 3), bits, kept)
        x1 == Down(x2, Index(v, 2), bits, kept)
    IN  Down(x1, Index(v, 1), bits, kept)

\* Slip: the caller's bits go into the entries as they are.
Slipsanitize_flags(flags) == flags

\* The bits 5 and 6, which the processor sets, are not the caller's to give.
sanitize_flags(flags) == flags \ {"dirty"}

\* Slip: the page's index is taken for the table's.
Slipmap_vtop(mm, v, p, flags) ==
    LET x == Walk(mm, v, sanitize_flags(flags), {})
    IN  IF x.m.hung THEN x.m
        ELSE SetEntry(x.m, x.table, Index(v, 1), p, sanitize_flags(flags))

map_vtop(mm, v, p, flags) ==
    LET x == Walk(mm, v, sanitize_flags(flags), {})
    IN  IF x.m.hung THEN x.m
        ELSE SetEntry(x.m, x.table, Index(v, 0), p, sanitize_flags(flags))

\* The older form sets single bits and keeps the others, also in the entry of a
\* table that unmapVirtual has marked absent.
mapVirtualToPhysical(mm, v, p) ==
    LET x == Walk(mm, v, {"present", "rw"}, Bits)
        e == x.m.tab[x.table][Index(v, 0)]
    IN  IF x.m.hung THEN x.m
        ELSE SetEntry(x.m, x.table, Index(v, 0), p,
                      (e.bits \ {"user"}) \cup {"present", "rw"})

\* The walk goes two levels down, to the page directory, and clears there the
\* entry numbered like the page in its page table.
unmapVirtual(mm, v) ==
    LET pdpt == mm.tab[PML4Table][Index(v, 3)].address
        pd   == mm.tab[pdpt][Index(v, 2)].address
        e    == mm.tab[pd][Index(v, 0)]
    IN  SetEntry(mm, pd, Index(v, 0), e.address, e.bits \ {"present"})

-----------------------------------------------------------------------------
(* The processor's walk: the frame a page leads to and the rights there,   *)
(* or Nothing.  An entry with the page-size bit ends the walk early.       *)

Nothing == [frame |-> -1, rights |-> {}]

Rights(bits) == (bits \cap {"rw", "user"}) \cup IF "nx" \in bits THEN {} ELSE {"exec"}

Lead(e, level, v, rights) ==
    [frame |-> e.address - (e.address % Span(level)) + (v % Span(level)), rights |-> rights]

Translate(mm, v) ==
    LET e3 == mm.tab[PML4Table][Index(v, 3)]
        e2 == mm.tab[e3.address][Index(v, 2)]
        e1 == mm.tab[e2.address][Index(v, 1)]
        e0 == mm.tab[e1.address][Index(v, 0)]
        r2 == Rights(e3.bits) \cap Rights(e2.bits)
        r1 == r2 \cap Rights(e1.bits)
    IN  IF "present" \notin e3.bits \/ "ps" \in e3.bits \/ "present" \notin e2.bits THEN Nothing
        ELSE IF "ps" \in e2.bits THEN Lead(e2, 2, v, r2)
        ELSE IF "present" \notin e1.bits THEN Nothing
        ELSE IF "ps" \in e1.bits THEN Lead(e1, 1, v, r1)
        ELSE IF "present" \notin e0.bits THEN Nothing
        ELSE Lead(e0, 0, v, r1 \cap Rights(e0.bits))

-----------------------------------------------------------------------------
(* The specification.  Callers stay inside the address space and unmap     *)
(* only what they have mapped.                                             *)

Unasked == [frame |-> -1, flags |-> {}]
Idle == [op |-> "none", v |-> 0, p |-> 0, left |-> 0, flags |-> {}]

Init ==
    /\ m = [tab |-> [f \in TableFrames |-> IF f = PML4Table THEN EmptyTable ELSE JunkTable],
            pool |-> TableFrames \ {PML4Table}, hung |-> FALSE]
    /\ handed = Handed
    /\ loop = Idle
    /\ asked = [v \in Space |-> Unasked]

\* One page of a mapping: a call that does not return has made none.
Remember(v, p, flags) ==
    asked' = IF m'.hung THEN asked ELSE [asked EXCEPT ![v] = [frame |-> p, flags |-> flags]]

\* handover_paging: the kernel goes on with the tables of the bootloader, which
\* makes its entries present and writable.
handover_paging(pair) ==
    /\ ~m.hung /\ pair \in handed
    /\ handed' = handed \ {pair}
    /\ m' = mapVirtualToPhysical(m, pair[1], pair[2])
    /\ Remember(pair[1], pair[2], {"present", "rw"})
    /\ UNCHANGED loop

Pages(v, n) == v .. v + n - 1

Call(op, v, p, n, flags) ==
    /\ ~m.hung /\ handed = {} /\ loop.left = 0
    /\ Pages(v, n) \subseteq Space
    /\ loop' = [op |-> op, v |-> v, p |-> p, left |-> n, flags |-> flags]
    /\ UNCHANGED <<m, handed, asked>>

vtopFlag(v, p, n, flags) == Call("map", v, p, n, flags)
toVirtualFlag(p, n, flags) == vtopFlag(p + Offset, p, n, flags)
toVirtual(p, n) == Call("legacy", p + Offset, p, n, {"present", "rw"})
unVirtual(v, n) ==
    /\ \A u \in Pages(v, n) \cap Space : asked[u] # Unasked
    /\ Call("unmap", v, 0, n, {})

\* One turn of the loop of a call.
Turn(op) ==
    /\ ~m.hung /\ loop.left > 0 /\ loop.op = op
    /\ loop' = [loop EXCEPT !.v = @ + 1, !.p = @ + 1, !.left = @ - 1]
    /\ UNCHANGED handed

MapPage ==
    /\ Turn("map")
    /\ m' = map_vtop(m, loop.v, loop.p, loop.flags)
    /\ Remember(loop.v, loop.p, loop.flags)

MapLegacyPage ==
    /\ Turn("legacy")
    /\ m' = mapVirtualToPhysical(m, loop.v, loop.p)
    /\ Remember(loop.v, loop.p, loop.flags)

UnmapPage ==
    /\ Turn("unmap")
    /\ m' = unmapVirtual(m, loop.v)
    /\ asked' = [asked EXCEPT ![loop.v] = Unasked]

Next ==
    \/ \E pair \in Handed : handover_paging(pair)
    \/ \E n \in Extents :
          \/ \E v \in VPages, p \in PFrames, flags \in FlagSets : vtopFlag(v, p, n, flags)
          \/ \E p \in PFrames, flags \in FlagSets : toVirtualFlag(p, n, flags)
          \/ \E p \in PFrames : toVirtual(p, n)
          \/ \E v \in VPages : unVirtual(v, n)
    \/ MapPage
    \/ MapLegacyPage
    \/ UnmapPage

Spec == Init /\ [][Next]_vars

-----------------------------------------------------------------------------
(* Properties.                                                             *)

\* Entries hold what sanitize_flags lets through.
Entries == [address : Nat, bits : SUBSET (Bits \ {"ps", "dirty"})]
Memories == [tab : [TableFrames -> [Indices -> Entries]],
             pool : SUBSET (TableFrames \ {PML4Table}), hung : BOOLEAN]

TypeOK ==
    /\ m \in Memories
    /\ handed \subseteq Handed
    /\ loop \in [op : {"none", "map", "legacy", "unmap"}, v : Nat, p : Nat, left : Nat,
                 flags : SUBSET Bits]
    /\ asked \in [Space -> [frame : Nat, flags : SUBSET Bits] \cup {Unasked}]

Present(mm, f, i) == "present" \in mm.tab[f][i].bits

\* The tables of the upper three levels: the PML4 and what is reached from it.
Below(tables) == {m.tab[a[1]][a[2]].address :
                      a \in {b \in tables \X Indices : Present(m, b[1], b[2])}}
UpperTables ==
    LET pdpts == Below({PML4Table})
    IN  {PML4Table} \cup pdpts \cup Below(pdpts)

UpperEntries == {a \in UpperTables \X Indices : Present(m, a[1], a[2])}

\* A frame taken for a table is the table of one entry, is not the PML4 and is
\* not in the page frame allocator's hands any more.
TablesHaveOneParent ==
    /\ \A a, b \in UpperEntries : m.tab[a[1]][a[2]].address = m.tab[b[1]][b[2]].address => a = b
    /\ \A a \in UpperEntries :
          m.tab[a[1]][a[2]].address \in TableFrames \ (m.pool \cup {PML4Table})

\* The tables are a tree of frames of their own, with entries map_vtop can have made.
TablesSound == TypeOK /\ TablesHaveOneParent

\* Whatever was mapped and unmapped before, a page leads to the frame that was
\* last asked for it or to none, with no right that was not asked for: the tables
\* made on the way are entered at the right index and start out empty.
NeverAWrongFrame ==
    \A v \in Space :
        asked[v] # Unasked /\ Translate(m, v) # Nothing =>
            /\ Translate(m, v).frame = asked[v].frame
            /\ Translate(m, v).rights \subseteq Rights(asked[v].flags)

\* A mapping step changes what its own page leads to and nothing else, even when
\* it hangs half way for want of a frame.
MapDisturbsNoOther ==
    [][MapPage \/ MapLegacyPage =>
          \A u \in Space \ {loop.v} : Translate(m', u) = Translate(m, u)]_vars

\* unmapVirtual "unmaps a page in the PML4 Table, by setting it non-present"
\* (paging.h): the page leads nowhere afterwards.
UnmappedIsGone == [][UnmapPage => Translate(m', loop.v) = Nothing]_vars

-----------------------------------------------------------------------------
(* The inductive invariant.  d gives every table its level: the tables in  *)
(* use are a tree, which a walk descends one level an entry.  Tables that  *)
(* an unmapped entry has cut off stay in use.                              *)

Used(mm) == TableFrames \ mm.pool

LeadsDown(mm, d, f, i) ==
    Present(mm, f, i) /\ d[f] > 0 =>
        /\ mm.tab[f][i].address \in Used(mm) \ {PML4Table}
        /\ d[mm.tab[f][i].address] = d[f] - 1

OneParent(mm, d, f, i, g, j) ==
    /\ Present(mm, f, i) /\ d[f] > 0
    /\ Present(mm, g, j) /\ d[g] > 0
    /\ mm.tab[f][i].address = mm.tab[g][j].address
    => f = g /\ i = j

Tree(mm, d) ==
    /\ mm \in Memories
    /\ d \in [TableFrames -> 0 .. 3] /\ d[PML4Table] = 3
    /\ \A f \in Used(mm), i \in Indices : LeadsDown(mm, d, f, i)
    /\ \A f, g \in Used(mm), i, j \in Indices : OneParent(mm, d, f, i, g, j)

\* The entries a walk for page v meets at the levels 3 and 2.
Pdpt(mm, v) == mm.tab[PML4Table][Index(v, 3)].address
HasDirectory(mm, v) ==
    /\ Present(mm, PML4Table, Index(v, 3))
    /\ Present(mm, Pdpt(mm, v), Index(v, 2))

\* unmapVirtual follows addresses without looking whether entries are present: the
\* ones it follows are, for a page that was mapped, because it clears none of them.
DirectoriesStay ==
    ~m.hung => \A v \in Space : asked[v] # Unasked => HasDirectory(m, v)

LoopSound ==
    /\ Pages(loop.v, loop.left) \subseteq Space
    /\ loop.op = "map" => loop.flags \in FlagSets
    /\ loop.op = "legacy" => loop.flags = {"present", "rw"}
    /\ loop.op = "unmap" => \A u \in Pages(loop.v, loop.left) : asked[u] # Unasked

PagingInv ==
    /\ TypeOK
    /\ \E d \in [TableFrames -> 0 .. 3] : Tree(m, d)
    /\ DirectoriesStay
    /\ LoopSound
    /\ NeverAWrongFrame
=============================================================================
