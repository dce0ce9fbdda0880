---------------------------- MODULE PagingProofs ----------------------------
(***************************************************************************)
(* The proofs about Paging: for tables of any width, any frames and any    *)
(* ranges, the tables in use stay a tree, no page leads to a frame nobody  *)
(* asked for, and mapping a page changes no other.                         *)
(***************************************************************************)
EXTENDS Paging, TLAPS

-----------------------------------------------------------------------------
(* Indices.  The four indices of a page are below Width and name the page. *)

\* A number is its quotient by the width, shifted back, and the rest that is the
\* index of an entry.
LEMMA QuotientAndRest ==
    ASSUME NEW a \in Nat
    PROVE  /\ a \div Width \in Nat
           /\ a % Width \in Indices
           /\ a = Width * (a \div Width) + (a % Width)
  BY PagingAssumption DEF Indices

\* Shifting a number that is below a multiple of the width leaves it below the
\* factor.
LEMMA QuotientBelow ==
    ASSUME NEW a \in Nat, NEW b \in Nat, a < Width * b
    PROVE  a \div Width < b
<1> DEFINE q == a \div Width
<1>1. q \in Nat /\ a % Width \in Nat /\ a = Width * q + (a % Width)
  BY QuotientAndRest DEF Indices
<1>2. Width * q < Width * b
  <2>1. Width * q \in Nat /\ Width * b \in Nat
    BY <1>1, PagingAssumption
  <2> HIDE DEF q
  <2> QED
    BY <1>1, <2>1
<1> HIDE DEF q
<1>3. SUFFICES ASSUME q >= b PROVE FALSE
  BY <1>1 DEF q
<1>4. PICK c \in Nat : q = b + c
  <2>1. q - b \in Nat /\ q = b + (q - b)
    BY <1>1, <1>3
  <2> QED BY <2>1
<1>5. Width * (b + c) = Width * b + Width * c
  BY PagingAssumption
<1>6. Width * b \in Nat /\ Width * c \in Nat
  BY PagingAssumption
<1> QED
  BY <1>2, <1>4, <1>5, <1>6

\* Every index of a page is the number of an entry.
LEMMA IndexType ==
    ASSUME NEW v \in Nat, NEW level \in 0 .. 3
    PROVE  Index(v, level) \in Indices
<1>1. Shifted(v, level) \in Nat
  BY QuotientAndRest DEF Shifted
<1> QED
  BY <1>1, QuotientAndRest DEF Index

\* Two pages with the same four indices are the same page.
LEMMA IndicesNameThePage ==
    ASSUME NEW u \in Space, NEW v \in Space,
           \A level \in 0 .. 3 : Index(u, level) = Index(v, level)
    PROVE  u = v
<1> DEFINE S1(w) == w \div Width
           S2(w) == S1(w) \div Width
           S3(w) == S2(w) \div Width
           W2 == Width * Width
           W3 == Width * Width * Width
<1>0. /\ Width \in Nat /\ W2 \in Nat /\ W3 \in Nat
      /\ Width * W2 = W3 /\ Space = 0 .. Width * W3 - 1 /\ Width * W3 \in Nat
  BY PagingAssumption DEF Space, Span
<1>1. ASSUME NEW w \in Space
      PROVE  /\ w \in Nat /\ S1(w) \in Nat /\ S2(w) \in Nat /\ S3(w) \in Nat
             /\ S3(w) < Width
  <2>1. w \in Nat /\ w < Width * W3
    BY <1>0
  <2>2. S1(w) \in Nat /\ S2(w) \in Nat /\ S3(w) \in Nat
    BY <2>1, QuotientAndRest
  <2> HIDE DEF W3, W2
  <2>3. S1(w) < W3
    BY <2>1, <1>0, QuotientBelow
  <2>4. S2(w) < W2
    <3> HIDE DEF S1
    <3> QED BY <2>2, <2>3, <1>0, QuotientBelow
  <2>5. S3(w) < Width
    <3>1. W2 = Width * Width
      BY DEF W2
    <3> HIDE DEF S2
    <3> QED BY <2>2, <2>4, <3>1, <1>0, QuotientBelow
  <2> QED BY <2>1, <2>2, <2>5
<1>2. /\ u % Width = v % Width
      /\ S1(u) % Width = S1(v) % Width
      /\ S2(u) % Width = S2(v) % Width
      /\ S3(u) % Width = S3(v) % Width
  BY DEF Index, Shifted
<1>3. u \in Nat /\ S1(u) \in Nat /\ S2(u) \in Nat /\ S3(u) \in Nat /\ S3(u) < Width
  BY <1>1
<1>4. v \in Nat /\ S1(v) \in Nat /\ S2(v) \in Nat /\ S3(v) \in Nat /\ S3(v) < Width
  BY <1>1
<1>5. S3(u) = S3(v)
  <2>1. \A a \in Nat : a < Width => a % Width = a
    BY PagingAssumption
  <2> HIDE DEF S3
  <2> QED BY <2>1, <1>2, <1>3, <1>4
<1>6. S2(u) = S2(v)
  BY <1>2, <1>3, <1>4, <1>5, QuotientAndRest
<1>7. S1(u) = S1(v)
  BY <1>2, <1>3, <1>4, <1>6, QuotientAndRest
<1> QED
  BY <1>2, <1>3, <1>4, <1>7, QuotientAndRest

-----------------------------------------------------------------------------
(* The processor's walk over a tree.                                       *)

\* The tables a walk for page v meets, and whether it ends in a frame.
Pd(mm, v) == mm.tab[Pdpt(mm, v)][Index(v, 2)].address
Pt(mm, v) == mm.tab[Pd(mm, v)][Index(v, 1)].address
HasTable(mm, v) == HasDirectory(mm, v) /\ Present(mm, Pd(mm, v), Index(v, 1))
Maps(mm, v) == HasTable(mm, v) /\ Present(mm, Pt(mm, v), Index(v, 0))

RightsOn(mm, v) ==
    ((Rights(mm.tab[PML4Table][Index(v, 3)].bits)
        \cap Rights(mm.tab[Pdpt(mm, v)][Index(v, 2)].bits))
        \cap Rights(mm.tab[Pd(mm, v)][Index(v, 1)].bits))
        \cap Rights(mm.tab[Pt(mm, v)][Index(v, 0)].bits)

\* The tables a walk meets are in use, one level below the other.
LEMMA WalkDescends ==
    ASSUME NEW mm, NEW d, Tree(mm, d), NEW v \in Nat
    PROVE  /\ PML4Table \in Used(mm) /\ d[PML4Table] = 3
           /\ Present(mm, PML4Table, Index(v, 3)) =>
                 Pdpt(mm, v) \in Used(mm) \ {PML4Table} /\ d[Pdpt(mm, v)] = 2
           /\ HasDirectory(mm, v) =>
                 Pd(mm, v) \in Used(mm) \ {PML4Table} /\ d[Pd(mm, v)] = 1
           /\ HasTable(mm, v) =>
                 Pt(mm, v) \in Used(mm) \ {PML4Table} /\ d[Pt(mm, v)] = 0
<1>1. Index(v, 3) \in Indices /\ Index(v, 2) \in Indices /\ Index(v, 1) \in Indices
  BY IndexType
<1>2. PML4Table \in Used(mm) /\ d[PML4Table] = 3
  BY PagingAssumption DEF Tree, Used, Memories
<1>3. ASSUME NEW f \in Used(mm), NEW i \in Indices, Present(mm, f, i), d[f] \in 1 .. 3
      PROVE  /\ mm.tab[f][i].address \in Used(mm) \ {PML4Table}
             /\ d[mm.tab[f][i].address] = d[f] - 1
  BY <1>3 DEF Tree, LeadsDown
<1>4. ASSUME Present(mm, PML4Table, Index(v, 3))
      PROVE  Pdpt(mm, v) \in Used(mm) \ {PML4Table} /\ d[Pdpt(mm, v)] = 2
  BY <1>1, <1>2, <1>3, <1>4 DEF Pdpt
<1>5. ASSUME HasDirectory(mm, v)
      PROVE  Pd(mm, v) \in Used(mm) \ {PML4Table} /\ d[Pd(mm, v)] = 1
  BY <1>1, <1>3, <1>4, <1>5 DEF Pd, HasDirectory
<1>6. ASSUME HasTable(mm, v)
      PROVE  Pt(mm, v) \in Used(mm) \ {PML4Table} /\ d[Pt(mm, v)] = 0
  BY <1>1, <1>3, <1>5, <1>6 DEF Pt, HasTable
<1> QED
  BY <1>2, <1>4, <1>5, <1>6

\* An entry of a table is an address and bits without the page-size bit.
LEMMA EntryTyped ==
    ASSUME NEW mm, NEW d, Tree(mm, d), NEW f \in TableFrames, NEW i \in Indices
    PROVE  /\ mm.tab[f][i] \in Entries
           /\ mm.tab[f][i].address \in Nat
           /\ mm.tab[f][i].bits \subseteq Bits \ {"ps", "dirty"}
<1>1. mm.tab[f][i] \in Entries
  BY DEF Tree, Memories
<1> QED
  BY <1>1 DEF Entries

\* The page leads to the address of its last entry, with the rights of all four,
\* when all four are present, and nowhere otherwise.
LEMMA TranslateIs ==
    ASSUME NEW mm, NEW d, Tree(mm, d), NEW v \in Nat
    PROVE  /\ Maps(mm, v) => Translate(mm, v) =
                 [frame |-> mm.tab[Pt(mm, v)][Index(v, 0)].address, rights |-> RightsOn(mm, v)]
           /\ ~Maps(mm, v) => Translate(mm, v) = Nothing
<1> DEFINE e3 == mm.tab[PML4Table][Index(v, 3)]
           e2 == mm.tab[Pdpt(mm, v)][Index(v, 2)]
           e1 == mm.tab[Pd(mm, v)][Index(v, 1)]
           e0 == mm.tab[Pt(mm, v)][Index(v, 0)]
<1>1. /\ Index(v, 3) \in Indices /\ Index(v, 2) \in Indices
      /\ Index(v, 1) \in Indices /\ Index(v, 0) \in Indices
  BY IndexType
<1>2. Used(mm) \subseteq TableFrames
  BY DEF Used
<1>3. "ps" \notin e3.bits
  BY <1>1, EntryTyped, PagingAssumption
<1>4. "present" \in e3.bits => "ps" \notin e2.bits
  BY <1>1, <1>2, EntryTyped, WalkDescends DEF Present
<1>5. "present" \in e3.bits /\ "present" \in e2.bits => "ps" \notin e1.bits
  BY <1>1, <1>2, EntryTyped, WalkDescends DEF Present, HasDirectory
<1>6. "present" \in e3.bits /\ "present" \in e2.bits /\ "present" \in e1.bits =>
          e0.address \in Nat
  BY <1>1, <1>2, EntryTyped, WalkDescends DEF Present, HasDirectory, HasTable
<1>7. Maps(mm, v) <=> /\ "present" \in e3.bits /\ "present" \in e2.bits
                      /\ "present" \in e1.bits /\ "present" \in e0.bits
  BY DEF Maps, HasTable, HasDirectory, Present
<1>8. Translate(mm, v) =
        IF "present" \notin e3.bits \/ "ps" \in e3.bits \/ "present" \notin e2.bits THEN Nothing
        ELSE IF "ps" \in e2.bits
             THEN Lead(e2, 2, v, Rights(e3.bits) \cap Rights(e2.bits))
        ELSE IF "present" \notin e1.bits THEN Nothing
        ELSE IF "ps" \in e1.bits
             THEN Lead(e1, 1, v, (Rights(e3.bits) \cap Rights(e2.bits)) \cap Rights(e1.bits))
        ELSE IF "present" \notin e0.bits THEN Nothing
        ELSE Lead(e0, 0, v, RightsOn(mm, v))
  BY DEF Translate, RightsOn, Pdpt, Pd, Pt
<1> HIDE DEF e3, e2, e1, e0
<1>9. ASSUME "present" \in e3.bits, "present" \in e2.bits, "present" \in e1.bits
      PROVE  Lead(e0, 0, v, RightsOn(mm, v)) =
                 [frame |-> e0.address, rights |-> RightsOn(mm, v)]
  <2>1. e0.address \in Nat
    BY <1>6, <1>9
  <2>2. e0.address - (e0.address % Span(0)) + (v % Span(0)) = e0.address
    BY <2>1 DEF Span
  <2> QED BY <2>2, Zenon DEF Lead
<1>10. CASE Maps(mm, v)
  <2>1. Translate(mm, v) = Lead(e0, 0, v, RightsOn(mm, v))
    BY <1>3, <1>4, <1>5, <1>7, <1>8, <1>10
  <2>2. Translate(mm, v) = [frame |-> e0.address, rights |-> RightsOn(mm, v)]
    BY <2>1, <1>7, <1>9, <1>10
  <2> QED BY <2>2, <1>10 DEF e0
<1>11. CASE ~Maps(mm, v)
  BY <1>3, <1>4, <1>5, <1>7, <1>8, <1>11
<1> QED
  BY <1>10, <1>11

-----------------------------------------------------------------------------
(* Changes of the tables.                                                  *)

\* The bits an entry is made of, and a made entry.
MadeBits == Bits \ {"ps", "dirty"}
Entry(address, bits) == [address |-> address, bits |-> bits]

\* An entry made from an address and bits that are let through is well formed.
LEMMA EntryMade ==
    ASSUME NEW address \in Nat, NEW bits \in SUBSET MadeBits
    PROVE  /\ Entry(address, bits) \in Entries
           /\ Entry(address, bits).address = address
           /\ Entry(address, bits).bits = bits
  BY DEF Entry, Entries, MadeBits

\* Setting an entry changes that entry of that table and nothing else.
LEMMA SetEntrySets ==
    ASSUME NEW mm \in Memories, NEW t \in TableFrames, NEW i \in Indices,
           NEW address \in Nat, NEW bits \in SUBSET MadeBits
    PROVE  LET mn == SetEntry(mm, t, i, address, bits)
           IN  /\ mn \in Memories
               /\ mn.pool = mm.pool /\ mn.hung = mm.hung
               /\ mn.tab[t][i] = Entry(address, bits)
               /\ \A g \in TableFrames, j \in Indices :
                     g # t \/ j # i => mn.tab[g][j] = mm.tab[g][j]
<1> DEFINE e == Entry(address, bits)
           row == [mm.tab[t] EXCEPT ![i] = e]
           tab == [mm.tab EXCEPT ![t] = row]
           mn == SetEntry(mm, t, i, address, bits)
<1>1. mm.tab \in [TableFrames -> [Indices -> Entries]]
  BY DEF Memories
<1>2. mn = [mm EXCEPT !.tab = tab]
  BY DEF SetEntry, Entry
<1>3. e \in Entries
  BY EntryMade
<1> HIDE DEF e
<1>4. row \in [Indices -> Entries]
  BY <1>1, <1>3
<1>5. row[i] = e /\ \A j \in Indices : j # i => row[j] = mm.tab[t][j]
  BY <1>1
<1> HIDE DEF row
<1>6. tab \in [TableFrames -> [Indices -> Entries]]
  BY <1>1, <1>4
<1>7. tab[t] = row /\ \A g \in TableFrames : g # t => tab[g] = mm.tab[g]
  BY <1>1
<1> HIDE DEF tab
<1>8. mn \in Memories /\ mn.tab = tab /\ mn.pool = mm.pool /\ mn.hung = mm.hung
  BY <1>2, <1>6 DEF Memories
<1> HIDE DEF mn
<1>9. mn.tab[t][i] = Entry(address, bits)
  BY <1>5, <1>7, <1>8 DEF e
<1>10. ASSUME NEW g \in TableFrames, NEW j \in Indices, g # t \/ j # i
       PROVE  mn.tab[g][j] = mm.tab[g][j]
  BY <1>5, <1>7, <1>8, <1>10
<1> QED
  BY <1>8, <1>9, <1>10 DEF mn

\* A new table leaves the pool, has no entry present, and changes no other table.
LEMMA NewTableMakes ==
    ASSUME NEW mm \in Memories, NEW f \in mm.pool
    PROVE  LET mn == NewTable(mm, f)
           IN  /\ mn \in Memories
               /\ mn.pool = mm.pool \ {f} /\ mn.hung = mm.hung
               /\ \A j \in Indices : mn.tab[f][j].bits = {}
               /\ \A g \in TableFrames : g # f => mn.tab[g] = mm.tab[g]
<1> DEFINE tab == [mm.tab EXCEPT ![f] = EmptyTable]
           pool == mm.pool \ {f}
           mn == NewTable(mm, f)
<1>1. mm.tab \in [TableFrames -> [Indices -> Entries]] /\ f \in TableFrames
  BY DEF Memories
<1>2. mn = [mm EXCEPT !.pool = pool, !.tab = tab]
  BY DEF NewTable
<1>3. Absent \in Entries /\ Absent.bits = {}
  BY DEF Absent, Entries
<1>4. EmptyTable \in [Indices -> Entries] /\ \A j \in Indices : EmptyTable[j].bits = {}
  BY <1>3 DEF EmptyTable
<1>5. tab \in [TableFrames -> [Indices -> Entries]]
  BY <1>1, <1>4
<1>6. tab[f] = EmptyTable /\ \A g \in TableFrames : g # f => tab[g] = mm.tab[g]
  BY <1>1
<1>7. pool \in SUBSET (TableFrames \ {PML4Table})
  BY DEF Memories
<1> HIDE DEF tab, pool
<1>8. mn \in Memories /\ mn.tab = tab /\ mn.pool = pool /\ mn.hung = mm.hung
  BY <1>2, <1>5, <1>7 DEF Memories
<1> HIDE DEF mn
<1> QED
  BY <1>4, <1>6, <1>8 DEF mn, pool

\* A table made at an absent entry of an upper table extends the tree.
LEMMA Grows ==
    ASSUME NEW mm, NEW d, Tree(mm, d),
           NEW t \in Used(mm), NEW i \in Indices, d[t] \in 1 .. 3, ~Present(mm, t, i),
           NEW f \in mm.pool, NEW bits \in SUBSET MadeBits, "present" \in bits
    PROVE  LET mn == SetEntry(NewTable(mm, f), t, i, f, bits)
               dn == [d EXCEPT ![f] = d[t] - 1]
           IN  /\ Tree(mn, dn)
               /\ mn.pool = mm.pool \ {f} /\ mn.hung = mm.hung
               /\ mn.tab[t][i] = Entry(f, bits)
               /\ \A j \in Indices : ~Present(mn, f, j)
               /\ \A g \in TableFrames, j \in Indices :
                     g # f /\ (g # t \/ j # i) => mn.tab[g][j] = mm.tab[g][j]
<1> DEFINE mk == NewTable(mm, f)
           mn == SetEntry(mk, t, i, f, bits)
           dn == [d EXCEPT ![f] = d[t] - 1]
<1>1. /\ mm \in Memories /\ f \in TableFrames /\ f # PML4Table /\ f \in Nat
      /\ t \in TableFrames /\ f # t /\ mm.pool \subseteq TableFrames
  BY PagingAssumption DEF Tree, Memories, Used
<1>2. /\ mk \in Memories
      /\ mk.pool = mm.pool \ {f} /\ mk.hung = mm.hung
      /\ \A j \in Indices : mk.tab[f][j].bits = {}
      /\ \A g \in TableFrames : g # f => mk.tab[g] = mm.tab[g]
  BY <1>1, NewTableMakes
<1> HIDE DEF mk
<1>3. /\ mn \in Memories
      /\ mn.pool = mk.pool /\ mn.hung = mk.hung
      /\ mn.tab[t][i] = Entry(f, bits)
      /\ \A g \in TableFrames, j \in Indices :
            g # t \/ j # i => mn.tab[g][j] = mk.tab[g][j]
  BY <1>1, <1>2, SetEntrySets
<1> HIDE DEF mn
<1>4. \A g \in TableFrames, j \in Indices :
          g # f /\ (g # t \/ j # i) => mn.tab[g][j] = mm.tab[g][j]
  BY <1>2, <1>3
<1>5. \A j \in Indices : ~Present(mn, f, j)
  BY <1>1, <1>2, <1>3 DEF Present
<1>6. mn.tab[t][i].address = f /\ Present(mn, t, i)
  BY <1>1, <1>3, EntryMade DEF Present
<1>7. Used(mn) = Used(mm) \cup {f} /\ f \notin Used(mm) /\ Used(mm) \subseteq TableFrames
  BY <1>1, <1>2, <1>3 DEF Used
<1>8. /\ dn \in [TableFrames -> 0 .. 3] /\ dn[PML4Table] = 3
      /\ dn[f] = d[t] - 1 /\ \A g \in Used(mm) : dn[g] = d[g]
  BY <1>1, <1>7 DEF Tree
<1>9. d \in [TableFrames -> 0 .. 3]
  BY DEF Tree
<1> HIDE DEF dn
<1>10. ASSUME NEW g \in Used(mn), NEW j \in Indices
       PROVE  LeadsDown(mn, dn, g, j)
  <2>1. CASE g = f
    BY <2>1, <1>5 DEF LeadsDown
  <2>2. CASE g = t /\ j = i
    BY <2>2, <1>1, <1>6, <1>7, <1>8 DEF LeadsDown
  <2>3. CASE g # f /\ (g # t \/ j # i)
    <3>1. g \in Used(mm) /\ mn.tab[g][j] = mm.tab[g][j] /\ dn[g] = d[g]
      BY <2>3, <1>4, <1>7, <1>8
    <3>2. LeadsDown(mm, d, g, j)
      BY <3>1 DEF Tree
    <3> QED BY <3>1, <3>2, <1>7, <1>8 DEF LeadsDown, Present
  <2> QED BY <2>1, <2>2, <2>3
<1>11. ASSUME NEW g \in Used(mm), NEW j \in Indices, Present(mm, g, j), d[g] > 0
       PROVE  mm.tab[g][j].address # f
  <2>1. LeadsDown(mm, d, g, j)
    BY DEF Tree
  <2> QED BY <2>1, <1>7, <1>11 DEF LeadsDown
<1>12. ASSUME NEW g \in Used(mn), NEW h \in Used(mn), NEW j \in Indices, NEW k \in Indices
       PROVE  OneParent(mn, dn, g, j, h, k)
  <2>1. CASE g = f \/ h = f
    BY <2>1, <1>5 DEF OneParent
  <2> SUFFICES ASSUME g # f, h # f
               PROVE  OneParent(mn, dn, g, j, h, k)
    BY <2>1
  <2>2. g \in Used(mm) /\ h \in Used(mm) /\ dn[g] = d[g] /\ dn[h] = d[h]
    BY <1>7, <1>8
  <2>3. CASE g = t /\ j = i /\ h = t /\ k = i
    BY <2>3 DEF OneParent
  <2>4. CASE g = t /\ j = i /\ (h # t \/ k # i)
    <3>1. mn.tab[h][k] = mm.tab[h][k]
      BY <2>2, <2>4, <1>4, <1>7
    <3> QED BY <3>1, <2>2, <2>4, <1>6, <1>11 DEF OneParent, Present
  <2>5. CASE (g # t \/ j # i) /\ h = t /\ k = i
    <3>1. mn.tab[g][j] = mm.tab[g][j]
      BY <2>2, <2>5, <1>4, <1>7
    <3> QED BY <3>1, <2>2, <2>5, <1>6, <1>11 DEF OneParent, Present
  <2>6. CASE (g # t \/ j # i) /\ (h # t \/ k # i)
    <3>1. mn.tab[g][j] = mm.tab[g][j] /\ mn.tab[h][k] = mm.tab[h][k]
      BY <2>2, <2>6, <1>4, <1>7
    <3>2. OneParent(mm, d, g, j, h, k)
      BY <2>2 DEF Tree
    <3> QED BY <3>1, <3>2, <2>2 DEF OneParent, Present
  <2> QED BY <2>3, <2>4, <2>5, <2>6
<1>13. Tree(mn, dn)
  BY <1>3, <1>8, <1>10, <1>12 DEF Tree
<1> QED
  BY <1>2, <1>3, <1>4, <1>5, <1>13 DEF mn, dn, mk

\* A walk that meets the same four entries leads to the same frame.
LEMMA SameWalk ==
    ASSUME NEW mm, NEW d, Tree(mm, d), NEW mn, NEW dn, Tree(mn, dn), NEW v \in Nat,
           Maps(mm, v),
           mn.tab[PML4Table][Index(v, 3)] = mm.tab[PML4Table][Index(v, 3)],
           mn.tab[Pdpt(mm, v)][Index(v, 2)] = mm.tab[Pdpt(mm, v)][Index(v, 2)],
           mn.tab[Pd(mm, v)][Index(v, 1)] = mm.tab[Pd(mm, v)][Index(v, 1)],
           mn.tab[Pt(mm, v)][Index(v, 0)] = mm.tab[Pt(mm, v)][Index(v, 0)]
    PROVE  Maps(mn, v) /\ Translate(mn, v) = Translate(mm, v)
<1>1. Pdpt(mn, v) = Pdpt(mm, v)
  BY DEF Pdpt
<1>2. Pd(mn, v) = Pd(mm, v)
  BY <1>1 DEF Pd
<1>3. Pt(mn, v) = Pt(mm, v)
  BY <1>2 DEF Pt
<1>4. Maps(mn, v)
  BY <1>1, <1>2, <1>3 DEF Maps, HasTable, HasDirectory, Present
<1>5. RightsOn(mn, v) = RightsOn(mm, v)
  BY <1>1, <1>2, <1>3 DEF RightsOn
<1>6. Translate(mm, v) =
          [frame |-> mm.tab[Pt(mm, v)][Index(v, 0)].address, rights |-> RightsOn(mm, v)]
  BY TranslateIs
<1>7. Translate(mn, v) =
          [frame |-> mn.tab[Pt(mn, v)][Index(v, 0)].address, rights |-> RightsOn(mn, v)]
  BY <1>4, TranslateIs
<1> QED
  BY <1>3, <1>4, <1>5, <1>6, <1>7, Zenon

\* The entries that were present in tables in use stay as they are, the tables stay
\* in use, and every page leads where it led.
Extends(mm, mn) ==
    /\ mn.pool \subseteq mm.pool
    /\ \A g \in Used(mm), j \in Indices :
          Present(mm, g, j) => mn.tab[g][j] = mm.tab[g][j]
    /\ \A u \in Space : Translate(mn, u) = Translate(mm, u)

\* Two extensions of the tables in a row are one.
LEMMA ExtendsTransitive ==
    ASSUME NEW m1, NEW m2, NEW m3, Extends(m1, m2), Extends(m2, m3)
    PROVE  Extends(m1, m3)
<1>1. Used(m1) \subseteq Used(m2)
  BY DEF Extends, Used
<1> QED
  BY <1>1 DEF Extends, Present

\* Making a table extends the tables: the new table is empty, so the pages below it
\* lead nowhere, as they did before.
LEMMA GrowsExtends ==
    ASSUME NEW mm, NEW d, Tree(mm, d), NEW mn, NEW dn, Tree(mn, dn),
           NEW t \in Used(mm), NEW i \in Indices, d[t] \in 1 .. 3, ~Present(mm, t, i),
           NEW f \in mm.pool, mn.pool = mm.pool \ {f}, dn[t] = d[t],
           mn.tab[t][i].address = f,
           \A j \in Indices : ~Present(mn, f, j),
           \A g \in TableFrames, j \in Indices :
               g # f /\ (g # t \/ j # i) => mn.tab[g][j] = mm.tab[g][j]
    PROVE  Extends(mm, mn)
<1>1. Used(mm) \subseteq TableFrames /\ Used(mn) \subseteq TableFrames /\ f \notin Used(mm)
  BY DEF Used
<1>2. \A g \in Used(mm), j \in Indices :
          Present(mm, g, j) => mn.tab[g][j] = mm.tab[g][j]
  BY <1>1
<1>3. ASSUME NEW u \in Space
      PROVE  Translate(mn, u) = Translate(mm, u)
  <2>0. u \in Nat
    BY PagingAssumption DEF Space, Span
  <2>1. /\ Index(u, 3) \in Indices /\ Index(u, 2) \in Indices
        /\ Index(u, 1) \in Indices /\ Index(u, 0) \in Indices
    BY <2>0, IndexType
  <2>2. CASE Maps(mm, u)
    <3>1. /\ PML4Table \in Used(mm) /\ Pdpt(mm, u) \in Used(mm)
          /\ Pd(mm, u) \in Used(mm) /\ Pt(mm, u) \in Used(mm)
      BY <2>0, <2>2, WalkDescends DEF Maps, HasTable, HasDirectory
    <3>2. /\ Present(mm, PML4Table, Index(u, 3)) /\ Present(mm, Pdpt(mm, u), Index(u, 2))
          /\ Present(mm, Pd(mm, u), Index(u, 1)) /\ Present(mm, Pt(mm, u), Index(u, 0))
      BY <2>2 DEF Maps, HasTable, HasDirectory
    <3> QED BY <1>2, <2>0, <2>1, <2>2, <3>1, <3>2, SameWalk
  <2>3. CASE Maps(mn, u)
    <3>1. /\ PML4Table \in Used(mn) /\ Pdpt(mn, u) \in Used(mn)
          /\ Pd(mn, u) \in Used(mn) /\ Pt(mn, u) \in Used(mn) /\ dn[Pt(mn, u)] = 0
      BY <2>0, <2>3, WalkDescends DEF Maps, HasTable, HasDirectory
    <3>2. /\ Present(mn, PML4Table, Index(u, 3)) /\ Present(mn, Pdpt(mn, u), Index(u, 2))
          /\ Present(mn, Pd(mn, u), Index(u, 1)) /\ Present(mn, Pt(mn, u), Index(u, 0))
      BY <2>3 DEF Maps, HasTable, HasDirectory
    <3>3. PML4Table # f /\ Pdpt(mn, u) # f /\ Pd(mn, u) # f /\ Pt(mn, u) # f
      BY <2>1, <3>2
    <3>4. mn.tab[PML4Table][Index(u, 3)] = mm.tab[PML4Table][Index(u, 3)]
      BY <1>1, <2>1, <3>1, <3>3 DEF Pdpt
    <3>5. mn.tab[Pdpt(mn, u)][Index(u, 2)] = mm.tab[Pdpt(mn, u)][Index(u, 2)]
      BY <1>1, <2>1, <3>1, <3>3 DEF Pd
    <3>6. mn.tab[Pd(mn, u)][Index(u, 1)] = mm.tab[Pd(mn, u)][Index(u, 1)]
      BY <1>1, <2>1, <3>1, <3>3 DEF Pt
    <3>7. mn.tab[Pt(mn, u)][Index(u, 0)] = mm.tab[Pt(mn, u)][Index(u, 0)]
      <4>1. Pt(mn, u) # t
        BY <3>1
      <4> QED BY <4>1, <1>1, <2>1, <3>1, <3>3
    <3> QED BY <2>0, <2>3, <3>4, <3>5, <3>6, <3>7, SameWalk
  <2>4. CASE ~Maps(mm, u) /\ ~Maps(mn, u)
    BY <2>0, <2>4, TranslateIs
  <2> QED BY <2>2, <2>3, <2>4
<1> QED
  BY <1>2, <1>3 DEF Extends

\* A call that hangs leaves the tables as they are.
LEMMA HangingExtends ==
    ASSUME NEW mm, NEW d, Tree(mm, d)
    PROVE  LET mn == [mm EXCEPT !.hung = TRUE]
           IN  Tree(mn, d) /\ Extends(mm, mn) /\ mn.hung
<1> DEFINE mn == [mm EXCEPT !.hung = TRUE]
<1>1. mn \in Memories /\ mn.tab = mm.tab /\ mn.pool = mm.pool /\ mn.hung
  BY DEF Tree, Memories
<1> HIDE DEF mn
<1>2. Used(mn) = Used(mm)
  BY <1>1 DEF Used
<1>3. Tree(mn, d)
  BY <1>1, <1>2 DEF Tree, LeadsDown, OneParent, Present
<1>4. \A u \in Space : Translate(mn, u) = Translate(mm, u)
  BY <1>1 DEF Translate
<1>5. Extends(mm, mn)
  BY <1>1, <1>4 DEF Extends
<1> QED
  BY <1>1, <1>3, <1>5 DEF mn

\* y is where one level down through entry i of t leads: the tree stays a tree and
\* every page leads where it led; unless the call hangs, the entry is present and
\* leads to the table reached.
Descends(mm, d, t, i, y, mn, tn, dn) ==
    /\ y = [m |-> mn, table |-> tn]
    /\ Tree(mn, dn) /\ Extends(mm, mn)
    /\ \A g \in Used(mm) : dn[g] = d[g]
    /\ ~mn.hung => /\ ~mm.hung
                   /\ Present(mn, t, i) /\ mn.tab[t][i].address = tn

\* Going down one level adds at most one empty table and changes no translation.
LEMMA DownExtends ==
    ASSUME NEW mm, NEW d, Tree(mm, d), NEW t, NEW i \in Indices,
           NEW bits \in SUBSET MadeBits, "present" \in bits, NEW kept,
           ~mm.hung => t \in Used(mm) /\ d[t] \in 1 .. 3
    PROVE  \E mn, tn, dn :
             Descends(mm, d, t, i, Down([m |-> mm, table |-> t], i, bits, kept), mn, tn, dn)
<1> DEFINE x == [m |-> mm, table |-> t]
           e == mm.tab[t][i]
           f == CHOOSE g \in mm.pool : TRUE
           y == Down(x, i, bits, kept)
<1>0. mm \in Memories /\ mm.hung \in BOOLEAN
  BY DEF Tree, Memories
<1>1. Extends(mm, mm)
  BY DEF Extends
<1>2. x.m = mm /\ x.table = t
  OBVIOUS
<1>3. CASE mm.hung
  <2>1. y = x
    BY <1>2, <1>3, Zenon DEF Down
  <2> QED BY <2>1, <1>1, <1>3 DEF Descends
<1>4. CASE ~mm.hung /\ Present(mm, t, i)
  <2>1. y = [m |-> mm, table |-> e.address]
    BY <1>2, <1>4, Zenon DEF Down, Present
  <2> QED BY <2>1, <1>1, <1>4 DEF Descends
<1>5. CASE ~mm.hung /\ ~Present(mm, t, i) /\ mm.pool = {}
  <2> DEFINE mn == [mm EXCEPT !.hung = TRUE]
  <2>1. y = [m |-> mn, table |-> t]
    BY <1>2, <1>5, Zenon DEF Down, Present
  <2>2. Tree(mn, d) /\ Extends(mm, mn) /\ mn.hung
    BY HangingExtends
  <2> HIDE DEF mn
  <2> QED BY <2>1, <2>2 DEF Descends
<1>6. CASE ~mm.hung /\ ~Present(mm, t, i) /\ mm.pool # {}
  <2> DEFINE made == bits \cup (e.bits \cap kept)
             mn == SetEntry(NewTable(mm, f), t, i, f, made)
             dn == [d EXCEPT ![f] = d[t] - 1]
  <2>1. y = [m |-> mn, table |-> f]
    BY <1>2, <1>6, Zenon DEF Down, Present
  <2>2. f \in mm.pool
    BY <1>6
  <2>3. t \in Used(mm) /\ d[t] \in 1 .. 3 /\ t \in TableFrames /\ t # f /\ f \in Nat
    BY <1>0, <1>6, <2>2, PagingAssumption DEF Used, Memories
  <2>4. made \in SUBSET MadeBits /\ "present" \in made
    BY <2>3, EntryTyped DEF MadeBits
  <2> HIDE DEF f, made, e
  <2>5. /\ Tree(mn, dn)
        /\ mn.pool = mm.pool \ {f} /\ mn.hung = mm.hung
        /\ mn.tab[t][i] = Entry(f, made)
        /\ \A j \in Indices : ~Present(mn, f, j)
        /\ \A g \in TableFrames, j \in Indices :
              g # f /\ (g # t \/ j # i) => mn.tab[g][j] = mm.tab[g][j]
    BY <1>6, <2>2, <2>3, <2>4, Grows
  <2>6. \A g \in Used(mm) : dn[g] = d[g]
    BY <2>2 DEF Tree, Used
  <2> HIDE DEF mn, dn
  <2>7. mn.tab[t][i].address = f /\ Present(mn, t, i)
    BY <2>3, <2>4, <2>5, EntryMade DEF Present
  <2>8. Extends(mm, mn)
    BY <1>6, <2>2, <2>3, <2>5, <2>6, <2>7, GrowsExtends
  <2> QED BY <2>1, <2>5, <2>6, <2>7, <2>8, <1>6 DEF Descends
<1> QED
  BY <1>0, <1>3, <1>4, <1>5, <1>6

\* The walk of a mapping call: unless it hangs, it reaches the page table of the
\* page, and all entries on the way are present.
LEMMA WalkReaches ==
    ASSUME NEW mm, NEW d, Tree(mm, d), ~mm.hung, NEW v \in Nat,
           NEW bits \in SUBSET MadeBits, "present" \in bits, NEW kept
    PROVE  \E mn, tn, dn :
             /\ Walk(mm, v, bits, kept) = [m |-> mn, table |-> tn]
             /\ Tree(mn, dn) /\ Extends(mm, mn)
             /\ \A g \in Used(mm) : dn[g] = d[g]
             /\ ~mn.hung => HasTable(mn, v) /\ tn = Pt(mn, v)
<1>1. Index(v, 3) \in Indices /\ Index(v, 2) \in Indices /\ Index(v, 1) \in Indices
  BY IndexType
<1>2. PML4Table \in Used(mm) /\ d[PML4Table] = 3
  BY WalkDescends
<1> DEFINE x2 == Down([m |-> mm, table |-> PML4Table], Index(v, 3), bits, kept)
           x1 == Down(x2, Index(v, 2), bits, kept)
           x0 == Down(x1, Index(v, 1), bits, kept)
<1>3. PICK m2, t2, d2 : Descends(mm, d, PML4Table, Index(v, 3), x2, m2, t2, d2)
  <2>1. d[PML4Table] \in 1 .. 3
    BY <1>2
  <2> QED BY <1>1, <1>2, <2>1, DownExtends
<1> HIDE DEF x2
<1>4. /\ x2 = [m |-> m2, table |-> t2]
      /\ Tree(m2, d2) /\ Extends(mm, m2)
      /\ \A g \in Used(mm) : d2[g] = d[g]
      /\ ~m2.hung => /\ Present(m2, PML4Table, Index(v, 3))
                     /\ m2.tab[PML4Table][Index(v, 3)].address = t2
  BY <1>3 DEF Descends
<1>5. ~m2.hung => t2 \in Used(m2) /\ d2[t2] = 2 /\ t2 = Pdpt(m2, v)
  BY <1>4, WalkDescends DEF Pdpt
<1>6. PICK m1, t1, d1 : Descends(m2, d2, t2, Index(v, 2), x1, m1, t1, d1)
  <2>1. ~m2.hung => t2 \in Used(m2) /\ d2[t2] \in 1 .. 3
    BY <1>5
  <2> QED BY <1>1, <1>4, <2>1, DownExtends
<1> HIDE DEF x1
<1>7. /\ x1 = [m |-> m1, table |-> t1]
      /\ Tree(m1, d1) /\ Extends(m2, m1)
      /\ \A g \in Used(m2) : d1[g] = d2[g]
      /\ ~m1.hung => /\ ~m2.hung
                     /\ Present(m1, t2, Index(v, 2))
                     /\ m1.tab[t2][Index(v, 2)].address = t1
  BY <1>6 DEF Descends
<1>8. PML4Table \in Used(m2) /\ PML4Table \in Used(m1)
  BY <1>4, <1>7, WalkDescends
<1>9. ASSUME ~m1.hung
      PROVE  HasDirectory(m1, v) /\ t1 = Pd(m1, v) /\ t1 \in Used(m1) /\ d1[t1] = 1
  <2>1. m1.tab[PML4Table][Index(v, 3)] = m2.tab[PML4Table][Index(v, 3)]
    BY <1>1, <1>4, <1>7, <1>8, <1>9 DEF Extends
  <2>2. Present(m1, PML4Table, Index(v, 3)) /\ Pdpt(m1, v) = t2
    BY <2>1, <1>4, <1>5, <1>7, <1>9 DEF Pdpt, Present
  <2>3. HasDirectory(m1, v) /\ t1 = Pd(m1, v)
    BY <2>2, <1>7, <1>9 DEF HasDirectory, Pd
  <2> QED BY <2>3, <1>7, WalkDescends
<1>10. PICK m0, t0, d0 : Descends(m1, d1, t1, Index(v, 1), x0, m0, t0, d0)
  <2>1. ~m1.hung => t1 \in Used(m1) /\ d1[t1] \in 1 .. 3
    BY <1>9
  <2> QED BY <1>1, <1>7, <2>1, DownExtends
<1> HIDE DEF x0
<1>11. /\ x0 = [m |-> m0, table |-> t0]
       /\ Tree(m0, d0) /\ Extends(m1, m0)
       /\ \A g \in Used(m1) : d0[g] = d1[g]
       /\ ~m0.hung => /\ ~m1.hung
                      /\ Present(m0, t1, Index(v, 1))
                      /\ m0.tab[t1][Index(v, 1)].address = t0
  BY <1>10 DEF Descends
<1>12. ASSUME ~m0.hung
       PROVE  HasTable(m0, v) /\ t0 = Pt(m0, v)
  <2>1. ~m1.hung /\ HasDirectory(m1, v) /\ t1 = Pd(m1, v) /\ Pdpt(m1, v) \in Used(m1)
    BY <1>7, <1>9, <1>11, <1>12, WalkDescends DEF HasDirectory
  <2>2. m0.tab[PML4Table][Index(v, 3)] = m1.tab[PML4Table][Index(v, 3)]
    BY <1>1, <1>8, <1>11, <2>1 DEF Extends, HasDirectory
  <2>3. m0.tab[Pdpt(m1, v)][Index(v, 2)] = m1.tab[Pdpt(m1, v)][Index(v, 2)]
    BY <1>1, <1>11, <2>1 DEF Extends, HasDirectory
  <2>4. Pdpt(m0, v) = Pdpt(m1, v) /\ Pd(m0, v) = Pd(m1, v)
    BY <2>2, <2>3 DEF Pdpt, Pd
  <2>5. HasDirectory(m0, v)
    BY <2>1, <2>2, <2>3, <2>4 DEF HasDirectory, Present
  <2> QED BY <1>11, <1>12, <2>1, <2>4, <2>5 DEF HasTable, Pt
<1>13. Walk(mm, v, bits, kept) = [m |-> m0, table |-> t0]
  BY <1>11, Zenon DEF Walk, x2, x1, x0
<1>14. Extends(mm, m0)
  BY <1>4, <1>7, <1>11, ExtendsTransitive
<1>15. \A g \in Used(mm) : d0[g] = d[g]
  <2>1. Used(mm) \subseteq Used(m2) /\ Used(m2) \subseteq Used(m1)
    BY <1>4, <1>7 DEF Extends, Used
  <2> QED BY <2>1, <1>4, <1>7, <1>11
<1> QED
  BY <1>11, <1>12, <1>13, <1>14, <1>15

\* Setting an entry of a page table, or taking the present bit of an entry, keeps
\* the tree.
LEMMA SetKeepsTree ==
    ASSUME NEW mm, NEW d, Tree(mm, d), NEW t \in Used(mm), NEW i \in Indices,
           NEW address \in Nat, NEW bits \in SUBSET MadeBits,
           d[t] = 0 \/ "present" \notin bits
    PROVE  Tree(SetEntry(mm, t, i, address, bits), d)
<1> DEFINE mn == SetEntry(mm, t, i, address, bits)
<1>1. mm \in Memories /\ t \in TableFrames
  BY DEF Tree, Used
<1>2. /\ mn \in Memories /\ mn.pool = mm.pool
      /\ mn.tab[t][i] = Entry(address, bits)
      /\ \A g \in TableFrames, j \in Indices :
            g # t \/ j # i => mn.tab[g][j] = mm.tab[g][j]
  BY <1>1, SetEntrySets
<1> HIDE DEF mn
<1>3. mn.tab[t][i].bits = bits
  BY <1>2, EntryMade
<1>4. Used(mn) = Used(mm) /\ Used(mm) \subseteq TableFrames
  BY <1>2 DEF Used
<1>5. ASSUME NEW g \in Used(mn), NEW j \in Indices, Present(mn, g, j), d[g] > 0
      PROVE  mn.tab[g][j] = mm.tab[g][j] /\ Present(mm, g, j)
  <2>1. g # t \/ j # i
    BY <1>3, <1>5 DEF Present
  <2> QED BY <2>1, <1>2, <1>4, <1>5 DEF Present
<1>6. ASSUME NEW g \in Used(mn), NEW j \in Indices
      PROVE  LeadsDown(mn, d, g, j)
  <2>1. LeadsDown(mm, d, g, j)
    BY <1>4 DEF Tree
  <2> QED BY <2>1, <1>4, <1>5 DEF LeadsDown
<1>7. ASSUME NEW g \in Used(mn), NEW h \in Used(mn), NEW j \in Indices, NEW k \in Indices
      PROVE  OneParent(mn, d, g, j, h, k)
  <2>1. OneParent(mm, d, g, j, h, k)
    BY <1>4 DEF Tree
  <2> QED BY <2>1, <1>5 DEF OneParent
<1>8. d \in [TableFrames -> 0 .. 3] /\ d[PML4Table] = 3
  BY DEF Tree
<1>9. Tree(mn, d)
  BY <1>2, <1>6, <1>7, <1>8 DEF Tree
<1> QED
  BY <1>9 DEF mn

\* Two pages whose walks reach the same entry of the same page table are the same:
\* a table has one parent.
LEMMA WalksMeetOnce ==
    ASSUME NEW mm, NEW d, Tree(mm, d), NEW u \in Space, NEW v \in Space,
           HasTable(mm, u), HasTable(mm, v), Pt(mm, u) = Pt(mm, v),
           Index(u, 0) = Index(v, 0)
    PROVE  u = v
<1>1. u \in Nat /\ v \in Nat
  BY PagingAssumption DEF Space, Span
<1>2. \A w \in {u, v} : /\ Index(w, 3) \in Indices /\ Index(w, 2) \in Indices
                        /\ Index(w, 1) \in Indices
  BY <1>1, IndexType
<1>3. \A w \in {u, v} :
         /\ PML4Table \in Used(mm) /\ d[PML4Table] = 3
         /\ Pdpt(mm, w) \in Used(mm) /\ d[Pdpt(mm, w)] = 2
         /\ Pd(mm, w) \in Used(mm) /\ d[Pd(mm, w)] = 1
         /\ Present(mm, PML4Table, Index(w, 3))
         /\ Present(mm, Pdpt(mm, w), Index(w, 2))
         /\ Present(mm, Pd(mm, w), Index(w, 1))
  BY <1>1, WalkDescends DEF HasTable, HasDirectory
<1>4. \A f, g \in Used(mm), i, j \in Indices : OneParent(mm, d, f, i, g, j)
  BY DEF Tree
<1>5. Pd(mm, u) = Pd(mm, v) /\ Index(u, 1) = Index(v, 1)
  <2>1. OneParent(mm, d, Pd(mm, u), Index(u, 1), Pd(mm, v), Index(v, 1))
    BY <1>2, <1>3, <1>4
  <2> QED BY <2>1, <1>3 DEF OneParent, Pt
<1>6. Pdpt(mm, u) = Pdpt(mm, v) /\ Index(u, 2) = Index(v, 2)
  <2>1. OneParent(mm, d, Pdpt(mm, u), Index(u, 2), Pdpt(mm, v), Index(v, 2))
    BY <1>2, <1>3, <1>4
  <2> QED BY <2>1, <1>3, <1>5 DEF OneParent, Pd
<1>7. Index(u, 3) = Index(v, 3)
  <2>1. OneParent(mm, d, PML4Table, Index(u, 3), PML4Table, Index(v, 3))
    BY <1>2, <1>3, <1>4
  <2> QED BY <2>1, <1>3, <1>6 DEF OneParent, Pdpt
<1>8. \A level \in 0 .. 3 : Index(u, level) = Index(v, level)
  <2>1. \A level \in 0 .. 3 : level = 0 \/ level = 1 \/ level = 2 \/ level = 3
    OBVIOUS
  <2> QED BY <2>1, <1>5, <1>6, <1>7
<1> QED
  BY <1>8, IndicesNameThePage

\* Setting the last entry of a page changes what this page leads to and no other.
LEMMA LeafSets ==
    ASSUME NEW mm, NEW d, Tree(mm, d), NEW v \in Space, HasTable(mm, v),
           NEW p \in Nat, NEW bits \in SUBSET MadeBits, "present" \in bits
    PROVE  LET mn == SetEntry(mm, Pt(mm, v), Index(v, 0), p, bits)
           IN  /\ Tree(mn, d) /\ mn.pool = mm.pool /\ mn.hung = mm.hung
               /\ \A g \in Used(mm), j \in Indices :
                     d[g] > 0 => mn.tab[g][j] = mm.tab[g][j]
               /\ \A u \in Space \ {v} : Translate(mn, u) = Translate(mm, u)
               /\ Translate(mn, v) # Nothing
               /\ Translate(mn, v).frame = p
               /\ Translate(mn, v).rights \subseteq Rights(bits)
<1> DEFINE t == Pt(mm, v)
           i == Index(v, 0)
           mn == SetEntry(mm, t, i, p, bits)
<1>1. Space \subseteq Nat
  BY PagingAssumption DEF Space, Span
<1>2. i \in Indices /\ t \in Used(mm) /\ d[t] = 0 /\ t \in TableFrames /\ mm \in Memories
  BY <1>1, IndexType, WalkDescends DEF Used, Tree
<1>3. Used(mm) \subseteq TableFrames
  BY DEF Used
<1>4. Tree(mn, d)
  BY <1>2, SetKeepsTree
<1>5. /\ mn.pool = mm.pool /\ mn.hung = mm.hung
      /\ mn.tab[t][i] = Entry(p, bits)
      /\ \A g \in TableFrames, j \in Indices :
            g # t \/ j # i => mn.tab[g][j] = mm.tab[g][j]
  BY <1>2, SetEntrySets
<1> HIDE DEF mn, i
<1>6. \A g \in Used(mm), j \in Indices : d[g] > 0 => mn.tab[g][j] = mm.tab[g][j]
  BY <1>2, <1>3, <1>5
<1>7. ASSUME NEW u \in Space
      PROVE  /\ HasTable(mm, u) <=> HasTable(mn, u)
             /\ HasTable(mm, u) =>
                   /\ Pdpt(mn, u) = Pdpt(mm, u) /\ Pd(mn, u) = Pd(mm, u) /\ Pt(mn, u) = Pt(mm, u)
                   /\ mn.tab[PML4Table][Index(u, 3)] = mm.tab[PML4Table][Index(u, 3)]
                   /\ mn.tab[Pdpt(mm, u)][Index(u, 2)] = mm.tab[Pdpt(mm, u)][Index(u, 2)]
                   /\ mn.tab[Pd(mm, u)][Index(u, 1)] = mm.tab[Pd(mm, u)][Index(u, 1)]
  <2>1. Index(u, 3) \in Indices /\ Index(u, 2) \in Indices /\ Index(u, 1) \in Indices
    BY <1>1, IndexType
  <2>2. mn.tab[PML4Table][Index(u, 3)] = mm.tab[PML4Table][Index(u, 3)]
    BY <1>1, <1>6, <2>1, WalkDescends
  <2>3. Pdpt(mn, u) = Pdpt(mm, u)
    BY <2>2 DEF Pdpt
  <2>4. ASSUME Present(mm, PML4Table, Index(u, 3))
        PROVE  mn.tab[Pdpt(mm, u)][Index(u, 2)] = mm.tab[Pdpt(mm, u)][Index(u, 2)]
    <3>1. Pdpt(mm, u) \in Used(mm) /\ d[Pdpt(mm, u)] = 2
      BY <1>1, <2>4, WalkDescends
    <3> QED BY <3>1, <1>6, <2>1
  <2>5. HasDirectory(mm, u) <=> HasDirectory(mn, u)
    BY <2>2, <2>3, <2>4 DEF HasDirectory, Present
  <2>6. ASSUME HasDirectory(mm, u)
        PROVE  /\ Pd(mn, u) = Pd(mm, u)
               /\ mn.tab[Pd(mm, u)][Index(u, 1)] = mm.tab[Pd(mm, u)][Index(u, 1)]
    <3>1. Pd(mm, u) \in Used(mm) /\ d[Pd(mm, u)] = 1
      BY <1>1, <2>6, WalkDescends
    <3>2. Pd(mn, u) = Pd(mm, u)
      BY <2>3, <2>4, <2>6 DEF Pd, HasDirectory
    <3> QED BY <3>1, <3>2, <1>6, <2>1
  <2>7. HasTable(mm, u) <=> HasTable(mn, u)
    BY <2>5, <2>6 DEF HasTable, Present
  <2>8. HasTable(mm, u) => Pt(mn, u) = Pt(mm, u)
    BY <2>6 DEF Pt, HasTable
  <2> QED BY <2>2, <2>3, <2>4, <2>6, <2>7, <2>8 DEF HasTable, HasDirectory
<1>8. ASSUME NEW u \in Space \ {v}
      PROVE  Translate(mn, u) = Translate(mm, u)
  <2>1. u \in Nat /\ Index(u, 0) \in Indices
    BY <1>1, IndexType
  <2>2. CASE HasTable(mm, u)
    <3>1. Pt(mm, u) \in Used(mm)
      BY <2>1, <2>2, WalkDescends
    <3>2. Pt(mm, u) # t \/ Index(u, 0) # i
      BY <2>2, WalksMeetOnce DEF i
    <3>3. mn.tab[Pt(mm, u)][Index(u, 0)] = mm.tab[Pt(mm, u)][Index(u, 0)]
      BY <1>3, <1>5, <2>1, <3>1, <3>2
    <3>4. CASE Maps(mm, u)
      BY <1>4, <1>7, <2>1, <2>2, <3>3, <3>4, SameWalk
    <3>5. CASE ~Maps(mm, u)
      <4>1. ~Maps(mn, u)
        BY <1>7, <2>2, <3>3, <3>5 DEF Maps, Present
      <4> QED BY <4>1, <3>5, <2>1, <1>4, TranslateIs
    <3> QED BY <3>4, <3>5
  <2>3. CASE ~HasTable(mm, u)
    <3>1. ~Maps(mm, u) /\ ~Maps(mn, u)
      BY <2>3, <1>7 DEF Maps
    <3> QED BY <3>1, <2>1, <1>4, TranslateIs
  <2> QED BY <2>2, <2>3
<1>9. Maps(mn, v) /\ mn.tab[Pt(mn, v)][Index(v, 0)].address = p
      /\ mn.tab[Pt(mn, v)][Index(v, 0)].bits = bits
  <2>1. HasTable(mn, v) /\ Pt(mn, v) = t
    BY <1>7
  <2>2. mn.tab[Pt(mn, v)][Index(v, 0)] = Entry(p, bits)
    BY <2>1, <1>5 DEF i
  <2> QED BY <2>1, <2>2, EntryMade DEF Maps, Present
<1>10. Translate(mn, v) = [frame |-> p, rights |-> RightsOn(mn, v)]
  BY <1>1, <1>4, <1>9, TranslateIs
<1>11. RightsOn(mn, v) \subseteq Rights(bits)
  BY <1>9 DEF RightsOn
<1>12. /\ Translate(mn, v).frame = p
       /\ Translate(mn, v).rights \subseteq Rights(bits)
  BY <1>10, <1>11
<1>13. Translate(mn, v) # Nothing
  BY <1>12 DEF Nothing
<1> QED
  BY <1>4, <1>5, <1>6, <1>8, <1>12, <1>13 DEF mn, i

-----------------------------------------------------------------------------
(* One page mapped or unmapped.                                            *)

\* What mapping page v to frame p with the rights of flags makes of mm.
Mapped(mm, mn, v, p, flags) ==
    /\ \E dn : Tree(mn, dn)
    /\ \A u \in Space \ {v} : Translate(mn, u) = Translate(mm, u)
    /\ mn.hung => Translate(mn, v) = Translate(mm, v)
    /\ ~mn.hung => /\ Translate(mn, v).frame = p
                   /\ Translate(mn, v).rights \subseteq Rights(flags)
                   /\ HasDirectory(mn, v)
    /\ \A u \in Space : HasDirectory(mm, u) => HasDirectory(mn, u)

\* Present entries that stay keep the directories of all pages.
LEMMA DirectoryStays ==
    ASSUME NEW mm, NEW d, Tree(mm, d), NEW mn, NEW u \in Space, HasDirectory(mm, u),
           \A g \in Used(mm), j \in Indices :
               Present(mm, g, j) /\ d[g] > 1 => mn.tab[g][j] = mm.tab[g][j]
    PROVE  HasDirectory(mn, u)
<1>1. u \in Nat
  BY PagingAssumption DEF Space, Span
<1>2. Index(u, 3) \in Indices /\ Index(u, 2) \in Indices
  BY <1>1, IndexType
<1>3. /\ PML4Table \in Used(mm) /\ d[PML4Table] = 3
      /\ Pdpt(mm, u) \in Used(mm) /\ d[Pdpt(mm, u)] = 2
  BY <1>1, WalkDescends DEF HasDirectory
<1>4. mn.tab[PML4Table][Index(u, 3)] = mm.tab[PML4Table][Index(u, 3)]
  BY <1>2, <1>3 DEF HasDirectory
<1>5. mn.tab[Pdpt(mm, u)][Index(u, 2)] = mm.tab[Pdpt(mm, u)][Index(u, 2)]
  BY <1>2, <1>3 DEF HasDirectory
<1> QED
  BY <1>4, <1>5 DEF HasDirectory, Pdpt, Present

\* The walk and the setting of the last entry together.
LEMMA WalkAndSet ==
    ASSUME NEW mm, NEW d, Tree(mm, d), NEW v \in Space, NEW mn, NEW dn, Tree(mn, dn),
           Extends(mm, mn), \A g \in Used(mm) : dn[g] = d[g], ~mn.hung, HasTable(mn, v),
           NEW p \in Nat, NEW bits \in SUBSET MadeBits, "present" \in bits, NEW flags,
           Rights(bits) \subseteq Rights(flags)
    PROVE  Mapped(mm, SetEntry(mn, Pt(mn, v), Index(v, 0), p, bits), v, p, flags)
<1> DEFINE mo == SetEntry(mn, Pt(mn, v), Index(v, 0), p, bits)
<1>1. /\ Tree(mo, dn) /\ mo.hung = mn.hung
      /\ \A g \in Used(mn), j \in Indices : dn[g] > 0 => mo.tab[g][j] = mn.tab[g][j]
      /\ \A u \in Space \ {v} : Translate(mo, u) = Translate(mn, u)
      /\ Translate(mo, v).frame = p
      /\ Translate(mo, v).rights \subseteq Rights(bits)
  BY LeafSets
<1> HIDE DEF mo
<1>2. \A u \in Space : Translate(mn, u) = Translate(mm, u)
  BY DEF Extends
<1>3. Used(mm) \subseteq Used(mn)
  BY DEF Extends, Used
<1>4. dn \in [TableFrames -> 0 .. 3] /\ Used(mn) \subseteq TableFrames
  BY DEF Tree, Used
<1>5. ASSUME NEW u \in Space, HasDirectory(mn, u) PROVE HasDirectory(mo, u)
  <2>1. \A g \in Used(mn), j \in Indices :
            Present(mn, g, j) /\ dn[g] > 1 => mo.tab[g][j] = mn.tab[g][j]
    BY <1>1, <1>4
  <2> QED BY <2>1, <1>5, DirectoryStays
<1>6. ASSUME NEW u \in Space, HasDirectory(mm, u) PROVE HasDirectory(mn, u)
  <2>1. \A g \in Used(mm), j \in Indices :
            Present(mm, g, j) /\ d[g] > 1 => mn.tab[g][j] = mm.tab[g][j]
    BY DEF Extends
  <2> QED BY <2>1, <1>6, DirectoryStays
<1>7. HasDirectory(mo, v)
  BY <1>5 DEF HasTable
<1> QED
  BY <1>1, <1>2, <1>5, <1>6, <1>7 DEF Mapped, mo

\* A walk that hangs has mapped nothing and disturbed nothing.
LEMMA WalkHangs ==
    ASSUME NEW mm, NEW d, Tree(mm, d), NEW v \in Space, NEW mn, NEW dn, Tree(mn, dn),
           Extends(mm, mn), mn.hung, NEW p, NEW flags
    PROVE  Mapped(mm, mn, v, p, flags)
<1>1. \A u \in Space : Translate(mn, u) = Translate(mm, u)
  BY DEF Extends
<1>2. ASSUME NEW u \in Space, HasDirectory(mm, u) PROVE HasDirectory(mn, u)
  <2>1. \A g \in Used(mm), j \in Indices :
            Present(mm, g, j) /\ d[g] > 1 => mn.tab[g][j] = mm.tab[g][j]
    BY DEF Extends
  <2> QED BY <2>1, <1>2, DirectoryStays
<1> QED
  BY <1>1, <1>2 DEF Mapped

\* map_vtop maps its page.
LEMMA MapVtopMaps ==
    ASSUME NEW mm, NEW d, Tree(mm, d), ~mm.hung, NEW v \in Space, NEW p \in Nat,
           NEW flags \in FlagSets
    PROVE  Mapped(mm, map_vtop(mm, v, p, flags), v, p, flags)
<1> DEFINE bits == sanitize_flags(flags)
<1>1. bits \in SUBSET MadeBits /\ "present" \in bits /\ Rights(bits) \subseteq Rights(flags)
  BY PagingAssumption DEF sanitize_flags, MadeBits, Rights
<1>2. v \in Nat
  BY PagingAssumption DEF Space, Span
<1> HIDE DEF bits
<1>3. PICK mn, tn, dn :
        /\ Walk(mm, v, bits, {}) = [m |-> mn, table |-> tn]
        /\ Tree(mn, dn) /\ Extends(mm, mn)
        /\ \A g \in Used(mm) : dn[g] = d[g]
        /\ ~mn.hung => HasTable(mn, v) /\ tn = Pt(mn, v)
  BY <1>1, <1>2, WalkReaches
<1> DEFINE x == Walk(mm, v, bits, {})
<1>4. x.m = mn /\ x.table = tn
  BY <1>3
<1>5. map_vtop(mm, v, p, flags) =
        IF x.m.hung THEN x.m ELSE SetEntry(x.m, x.table, Index(v, 0), p, bits)
  BY DEF map_vtop, bits
<1> HIDE DEF x
<1>6. CASE mn.hung
  BY <1>3, <1>4, <1>5, <1>6, WalkHangs
<1>7. CASE ~mn.hung
  <2>1. map_vtop(mm, v, p, flags) = SetEntry(mn, Pt(mn, v), Index(v, 0), p, bits)
    BY <1>3, <1>4, <1>5, <1>7
  <2> QED BY <2>1, <1>1, <1>3, <1>7, WalkAndSet
<1> QED
  BY <1>6, <1>7

\* mapVirtualToPhysical maps its page, writable and for the kernel only.
LEMMA LegacyMaps ==
    ASSUME NEW mm, NEW d, Tree(mm, d), ~mm.hung, NEW v \in Space, NEW p \in Nat
    PROVE  Mapped(mm, mapVirtualToPhysical(mm, v, p), v, p, {"present", "rw"})
<1> DEFINE given == {"present", "rw"}
<1>1. given \in SUBSET MadeBits /\ "present" \in given
  BY DEF MadeBits, Bits
<1>2. v \in Nat
  BY PagingAssumption DEF Space, Span
<1> HIDE DEF given
<1>3. PICK mn, tn, dn :
        /\ Walk(mm, v, given, Bits) = [m |-> mn, table |-> tn]
        /\ Tree(mn, dn) /\ Extends(mm, mn)
        /\ \A g \in Used(mm) : dn[g] = d[g]
        /\ ~mn.hung => HasTable(mn, v) /\ tn = Pt(mn, v)
  BY <1>1, <1>2, WalkReaches
<1> DEFINE x == Walk(mm, v, given, Bits)
           kept == mn.tab[tn][Index(v, 0)].bits
           bits == (kept \ {"user"}) \cup {"present", "rw"}
<1>4. x.m = mn /\ x.table = tn
  BY <1>3
<1>5. mapVirtualToPhysical(mm, v, p) =
        IF x.m.hung THEN x.m
        ELSE SetEntry(x.m, x.table, Index(v, 0), p,
                      (x.m.tab[x.table][Index(v, 0)].bits \ {"user"}) \cup {"present", "rw"})
  BY DEF mapVirtualToPhysical, given
<1> HIDE DEF x
<1>6. CASE mn.hung
  BY <1>3, <1>4, <1>5, <1>6, WalkHangs
<1>7. CASE ~mn.hung
  <2>1. mapVirtualToPhysical(mm, v, p) = SetEntry(mn, Pt(mn, v), Index(v, 0), p, bits)
    BY <1>3, <1>4, <1>5, <1>7
  <2>2. kept \subseteq MadeBits
    <3>1. tn \in TableFrames /\ Index(v, 0) \in Indices
      BY <1>2, <1>3, <1>7, WalkDescends, IndexType DEF Used
    <3> QED BY <3>1, <1>3, EntryTyped DEF MadeBits
  <2> HIDE DEF kept
  <2>3. bits \in SUBSET MadeBits /\ "present" \in bits
    BY <2>2 DEF MadeBits, Bits
  <2>4. Rights(bits) \subseteq Rights({"present", "rw"})
    BY DEF Rights
  <2> HIDE DEF bits
  <2> QED BY <2>1, <2>3, <2>4, <1>3, <1>7, WalkAndSet
<1> QED
  BY <1>6, <1>7

\* unmapVirtual of a page whose directory is there leaves a tree in which every page
\* leads where it led or nowhere, and keeps all directories.
LEMMA UnmapCuts ==
    ASSUME NEW mm, NEW d, Tree(mm, d), NEW v \in Space, HasDirectory(mm, v)
    PROVE  LET mn == unmapVirtual(mm, v)
           IN  /\ Tree(mn, d) /\ mn.hung = mm.hung
               /\ \A u \in Space :
                     Translate(mn, u) \in {Translate(mm, u), Nothing}
               /\ \A u \in Space : HasDirectory(mm, u) => HasDirectory(mn, u)
<1> DEFINE t == Pd(mm, v)
           i == Index(v, 0)
           e == mm.tab[t][i]
           bits == e.bits \ {"present"}
           mn == unmapVirtual(mm, v)
<1>1. v \in Nat /\ Space \subseteq Nat
  BY PagingAssumption DEF Space, Span
<1>2. /\ i \in Indices /\ t \in Used(mm) /\ d[t] = 1 /\ t \in TableFrames
      /\ mm \in Memories /\ Used(mm) \subseteq TableFrames
  BY <1>1, IndexType, WalkDescends DEF Used, Tree
<1>3. e.address \in Nat /\ bits \in SUBSET MadeBits /\ "present" \notin bits
  BY <1>2, EntryTyped DEF MadeBits
<1>4. mn = SetEntry(mm, t, i, e.address, bits)
  BY DEF unmapVirtual, Pd, Pdpt
<1> HIDE DEF mn, bits, i, t, e
<1>5. Tree(mn, d)
  BY <1>2, <1>3, <1>4, SetKeepsTree
<1>6. /\ mn.pool = mm.pool /\ mn.hung = mm.hung
      /\ mn.tab[t][i] = Entry(e.address, bits)
      /\ \A g \in TableFrames, j \in Indices :
            g # t \/ j # i => mn.tab[g][j] = mm.tab[g][j]
  BY <1>2, <1>3, <1>4, SetEntrySets
<1>7. ~Present(mn, t, i)
  BY <1>3, <1>6, EntryMade DEF Present
<1>8. Used(mn) = Used(mm)
  BY <1>6 DEF Used
<1>9. ASSUME NEW u \in Space
      PROVE  Translate(mn, u) \in {Translate(mm, u), Nothing}
  <2>1. u \in Nat
    BY <1>1
  <2>2. /\ Index(u, 3) \in Indices /\ Index(u, 2) \in Indices
        /\ Index(u, 1) \in Indices /\ Index(u, 0) \in Indices
    BY <2>1, IndexType
  <2>3. CASE Maps(mn, u)
    <3>1. /\ PML4Table \in Used(mm) /\ Pdpt(mn, u) \in Used(mm)
          /\ Pd(mn, u) \in Used(mm) /\ Pt(mn, u) \in Used(mm)
      BY <1>5, <1>8, <2>1, <2>3, WalkDescends DEF Maps, HasTable, HasDirectory
    <3>2. /\ Present(mn, PML4Table, Index(u, 3)) /\ Present(mn, Pdpt(mn, u), Index(u, 2))
          /\ Present(mn, Pd(mn, u), Index(u, 1)) /\ Present(mn, Pt(mn, u), Index(u, 0))
      BY <2>3 DEF Maps, HasTable, HasDirectory
    <3>3. \A g \in Used(mm), j \in Indices :
              Present(mn, g, j) => mn.tab[g][j] = mm.tab[g][j]
      BY <1>2, <1>6, <1>7
    <3> QED BY <1>5, <2>1, <2>2, <2>3, <3>1, <3>2, <3>3, SameWalk
  <2>4. CASE ~Maps(mn, u)
    BY <1>5, <2>1, <2>4, TranslateIs
  <2> QED BY <2>3, <2>4
<1>10. ASSUME NEW u \in Space, HasDirectory(mm, u) PROVE HasDirectory(mn, u)
  <2>1. \A g \in Used(mm), j \in Indices :
            Present(mm, g, j) /\ d[g] > 1 => mn.tab[g][j] = mm.tab[g][j]
    BY <1>2, <1>6
  <2> QED BY <2>1, <1>10, DirectoryStays
<1> QED
  BY <1>5, <1>6, <1>9, <1>10 DEF mn

-----------------------------------------------------------------------------
(* The invariant.                                                          *)

\* An empty PML4 is a tree of one table.
LEMMA InitPagingInv == Init => PagingInv
<1> SUFFICES ASSUME Init PROVE PagingInv
  OBVIOUS
<1> DEFINE d == [f \in TableFrames |-> IF f = PML4Table THEN 3 ELSE 0]
           tab == [f \in TableFrames |-> IF f = PML4Table THEN EmptyTable ELSE JunkTable]
           pool == TableFrames \ {PML4Table}
<1>1. m = [tab |-> tab, pool |-> pool, hung |-> FALSE]
  BY DEF Init
<1>2. Absent \in Entries /\ Absent.bits = {}
  BY DEF Absent, Entries
<1>3. EmptyTable \in [Indices -> Entries] /\ \A j \in Indices : EmptyTable[j].bits = {}
  BY <1>2 DEF EmptyTable
<1>4. JunkTable \in [Indices -> Entries]
  <2>1. [address |-> PML4Table, bits |-> {"present"}] \in Entries
    BY PagingAssumption DEF Entries, Bits
  <2> QED BY <2>1 DEF JunkTable
<1>5. tab \in [TableFrames -> [Indices -> Entries]]
  BY <1>3, <1>4
<1>6. tab[PML4Table] = EmptyTable
  BY PagingAssumption
<1> HIDE DEF tab
<1>7. m \in Memories /\ m.tab = tab /\ m.pool = pool /\ ~m.hung
  BY <1>1, <1>5 DEF Memories
<1>8. Used(m) = {PML4Table}
  BY <1>7, PagingAssumption DEF Used
<1>9. \A j \in Indices : ~Present(m, PML4Table, j)
  BY <1>3, <1>6, <1>7 DEF Present
<1>10. d \in [TableFrames -> 0 .. 3] /\ d[PML4Table] = 3
  BY PagingAssumption
<1> HIDE DEF d
<1>11. Tree(m, d)
  BY <1>7, <1>8, <1>9, <1>10 DEF Tree, LeadsDown, OneParent
<1>12. asked = [v \in Space |-> Unasked] /\ handed = Handed /\ loop = Idle
  BY DEF Init
<1>13. loop \in [op : {"none", "map", "legacy", "unmap"}, v : Nat, p : Nat, left : Nat,
                 flags : SUBSET Bits]
  BY <1>12 DEF Idle
<1>14. TypeOK
  <2>1. asked \in [Space -> [frame : Nat, flags : SUBSET Bits] \cup {Unasked}]
    BY <1>12
  <2> QED BY <2>1, <1>7, <1>12, <1>13 DEF TypeOK
<1>15. LoopSound
  <2>1. /\ loop.op = "none" /\ loop.v = 0 /\ loop.left = 0
    BY <1>12 DEF Idle
  <2>2. Pages(loop.v, loop.left) = {}
    BY <2>1 DEF Pages
  <2> QED BY <2>1, <2>2 DEF LoopSound
<1>16. DirectoriesStay /\ NeverAWrongFrame
  BY <1>12 DEF DirectoriesStay, NeverAWrongFrame
<1> QED
  BY <1>10, <1>11, <1>14, <1>15, <1>16 DEF PagingInv

\* The mapping of a page, remembered, keeps the parts of the invariant about pages.
LEMMA MappedKeeps ==
    ASSUME PagingInv, ~m.hung, NEW v \in Space, NEW p \in Nat, NEW flags \in SUBSET Bits,
           Mapped(m, m', v, p, flags), Remember(v, p, flags)
    PROVE  /\ m' \in Memories
           /\ asked' \in [Space -> [frame : Nat, flags : SUBSET Bits] \cup {Unasked}]
           /\ (\E d \in [TableFrames -> 0 .. 3] : Tree(m, d))'
           /\ DirectoriesStay' /\ NeverAWrongFrame'
           /\ \A u \in Space : asked[u] # Unasked => asked'[u] # Unasked
<1> DEFINE made == [frame |-> p, flags |-> flags]
<1>1. PICK d : Tree(m', d)
  BY DEF Mapped
<1>2. m' \in Memories /\ d \in [TableFrames -> 0 .. 3]
  BY <1>1 DEF Tree
<1>3. asked \in [Space -> [frame : Nat, flags : SUBSET Bits] \cup {Unasked}]
  BY DEF PagingInv, TypeOK
<1>4. made \in [frame : Nat, flags : SUBSET Bits] /\ made.frame = p /\ made.flags = flags
  OBVIOUS
<1>5. made # Unasked
  BY <1>4 DEF Unasked
<1>6. asked' = IF m'.hung THEN asked ELSE [asked EXCEPT ![v] = made]
  BY DEF Remember
<1> HIDE DEF made
<1>7. asked' \in [Space -> [frame : Nat, flags : SUBSET Bits] \cup {Unasked}]
  BY <1>3, <1>4, <1>6
<1>8. \A u \in Space \ {v} : asked'[u] = asked[u]
  BY <1>3, <1>6
<1>9. IF m'.hung THEN asked'[v] = asked[v] ELSE asked'[v] = made
  BY <1>3, <1>6
<1>10. \A u \in Space : asked[u] # Unasked => asked'[u] # Unasked
  BY <1>5, <1>8, <1>9
<1>11. DirectoriesStay'
  <2> SUFFICES ASSUME ~m'.hung, NEW u \in Space, asked'[u] # Unasked
               PROVE  HasDirectory(m', u)
    BY DEF DirectoriesStay
  <2>1. CASE u = v
    BY <2>1 DEF Mapped
  <2>2. CASE u # v
    <3>1. HasDirectory(m, u)
      BY <2>2, <1>8 DEF PagingInv, DirectoriesStay
    <3> QED BY <3>1 DEF Mapped
  <2> QED BY <2>1, <2>2
<1>12. NeverAWrongFrame'
  <2> SUFFICES ASSUME NEW u \in Space, asked'[u] # Unasked, Translate(m', u) # Nothing
               PROVE  /\ Translate(m', u).frame = asked'[u].frame
                      /\ Translate(m', u).rights \subseteq Rights(asked'[u].flags)
    BY DEF NeverAWrongFrame
  <2>1. CASE u = v /\ ~m'.hung
    BY <2>1, <1>4, <1>9 DEF Mapped
  <2>2. CASE u # v \/ m'.hung
    <3>1. asked'[u] = asked[u] /\ Translate(m', u) = Translate(m, u)
      BY <2>2, <1>8, <1>9 DEF Mapped
    <3> QED BY <3>1 DEF PagingInv, NeverAWrongFrame
  <2> QED BY <2>1, <2>2
<1>13. (\E d_1 \in [TableFrames -> 0 .. 3] : Tree(m, d_1))'
  BY <1>1, <1>2
<1> QED
  BY <1>2, <1>7, <1>10, <1>11, <1>12, <1>13

\* A turn of a loop takes the next page and leaves the others to come.
LEMMA TurnTakes ==
    ASSUME PagingInv, NEW op, Turn(op)
    PROVE  /\ loop.v \in Space /\ loop.p \in Nat /\ loop.flags \in SUBSET Bits
           /\ loop.v \in Pages(loop.v, loop.left)
           /\ loop' \in [op : {"none", "map", "legacy", "unmap"}, v : Nat, p : Nat,
                         left : Nat, flags : SUBSET Bits]
           /\ loop'.op = loop.op /\ loop'.flags = loop.flags
           /\ Pages(loop'.v, loop'.left) \subseteq Pages(loop.v, loop.left) \ {loop.v}
           /\ Pages(loop.v, loop.left) \subseteq Space
<1>1. loop \in [op : {"none", "map", "legacy", "unmap"}, v : Nat, p : Nat, left : Nat,
                flags : SUBSET Bits]
  BY DEF PagingInv, TypeOK
<1>2. /\ loop.v \in Nat /\ loop.p \in Nat /\ loop.left \in Nat /\ loop.flags \in SUBSET Bits
      /\ loop.left > 0 /\ loop.left - 1 \in Nat
  BY <1>1 DEF Turn
<1>3. loop' = [loop EXCEPT !.v = loop.v + 1, !.p = loop.p + 1, !.left = loop.left - 1]
  BY DEF Turn
<1>4. /\ loop' \in [op : {"none", "map", "legacy", "unmap"}, v : Nat, p : Nat, left : Nat,
                    flags : SUBSET Bits]
      /\ loop'.op = loop.op /\ loop'.flags = loop.flags
      /\ loop'.v = loop.v + 1 /\ loop'.left = loop.left - 1
  <2> DEFINE vn == loop.v + 1
             pn == loop.p + 1
             ln == loop.left - 1
  <2>1. vn \in Nat /\ pn \in Nat /\ ln \in Nat
    BY <1>2
  <2>2. loop' = [loop EXCEPT !.v = vn, !.p = pn, !.left = ln]
    BY <1>3
  <2> HIDE DEF vn, pn, ln
  <2>3. /\ loop' \in [op : {"none", "map", "legacy", "unmap"}, v : Nat, p : Nat, left : Nat,
                      flags : SUBSET Bits]
        /\ loop'.op = loop.op /\ loop'.flags = loop.flags
        /\ loop'.v = vn /\ loop'.left = ln
    BY <1>1, <2>1, <2>2
  <2> QED BY <2>3 DEF vn, ln
<1>5. Pages(loop.v, loop.left) \subseteq Space
  BY DEF PagingInv, LoopSound
<1>6. loop.v \in Pages(loop.v, loop.left)
  BY <1>2 DEF Pages
<1>7. Pages(loop'.v, loop'.left) \subseteq Pages(loop.v, loop.left) \ {loop.v}
  BY <1>2, <1>4 DEF Pages
<1> QED
  BY <1>2, <1>4, <1>5, <1>6, <1>7

\* The two turns that map a page do what Mapped says.
LEMMA TurnsMap ==
    ASSUME PagingInv, MapPage \/ MapLegacyPage
    PROVE  /\ ~m.hung /\ loop.v \in Space /\ loop.p \in Nat /\ loop.flags \in SUBSET Bits
           /\ Mapped(m, m', loop.v, loop.p, loop.flags)
           /\ Remember(loop.v, loop.p, loop.flags)
<1>1. PICK d \in [TableFrames -> 0 .. 3] : Tree(m, d)
  BY DEF PagingInv
<1>2. CASE MapPage
  <2>1. /\ Turn("map") /\ ~m.hung /\ m' = map_vtop(m, loop.v, loop.p, loop.flags)
        /\ Remember(loop.v, loop.p, loop.flags) /\ loop.flags \in FlagSets
    BY <1>2 DEF MapPage, Turn, PagingInv, LoopSound
  <2>2. loop.v \in Space /\ loop.p \in Nat /\ loop.flags \in SUBSET Bits
    BY <2>1, TurnTakes
  <2> QED BY <1>1, <2>1, <2>2, MapVtopMaps
<1>3. CASE MapLegacyPage
  <2>1. /\ Turn("legacy") /\ ~m.hung /\ m' = mapVirtualToPhysical(m, loop.v, loop.p)
        /\ Remember(loop.v, loop.p, loop.flags) /\ loop.flags = {"present", "rw"}
    BY <1>3 DEF MapLegacyPage, Turn, PagingInv, LoopSound
  <2>2. loop.v \in Space /\ loop.p \in Nat /\ loop.flags \in SUBSET Bits
    BY <2>1, TurnTakes
  <2> QED BY <1>1, <2>1, <2>2, LegacyMaps
<1> QED
  BY <1>2, <1>3

\* A call that begins keeps the invariant.
LEMMA CallKeeps ==
    ASSUME PagingInv, NEW op \in {"map", "legacy", "unmap"}, NEW v \in Nat, NEW p \in Nat,
           NEW n \in Nat, NEW flags \in SUBSET Bits, Call(op, v, p, n, flags),
           op = "map" => flags \in FlagSets,
           op = "legacy" => flags = {"present", "rw"},
           op = "unmap" => \A u \in Pages(v, n) \cap Space : asked[u] # Unasked
    PROVE  PagingInv'
<1>1. /\ Pages(v, n) \subseteq Space /\ UNCHANGED <<m, handed, asked>>
      /\ loop' = [op |-> op, v |-> v, p |-> p, left |-> n, flags |-> flags]
  BY DEF Call
<1>2. /\ loop' \in [op : {"none", "map", "legacy", "unmap"}, v : Nat, p : Nat, left : Nat,
                    flags : SUBSET Bits]
      /\ loop'.op = op /\ loop'.v = v /\ loop'.left = n /\ loop'.flags = flags
  BY <1>1
<1>3. LoopSound'
  BY <1>1, <1>2 DEF LoopSound
<1>4. TypeOK'
  BY <1>1, <1>2 DEF PagingInv, TypeOK
<1>5. DirectoriesStay' /\ NeverAWrongFrame' /\ (\E d \in [TableFrames -> 0 .. 3] : Tree(m, d))'
  BY <1>1 DEF PagingInv, DirectoriesStay, NeverAWrongFrame
<1> QED
  BY <1>3, <1>4, <1>5 DEF PagingInv

\* Every call and every page of a call keeps the invariant.
LEMMA StepPagingInv == PagingInv /\ [Next]_vars => PagingInv'
<1> SUFFICES ASSUME PagingInv, [Next]_vars PROVE PagingInv'
  OBVIOUS
<1>0. \A f \in FlagSets : f \in SUBSET Bits
  BY PagingAssumption
<1>1. ASSUME NEW pair \in Handed, handover_paging(pair) PROVE PagingInv'
  <2>1. PICK d \in [TableFrames -> 0 .. 3] : Tree(m, d)
    BY DEF PagingInv
  <2>2. /\ ~m.hung /\ handed' = handed \ {pair} /\ UNCHANGED loop
        /\ m' = mapVirtualToPhysical(m, pair[1], pair[2])
        /\ Remember(pair[1], pair[2], {"present", "rw"})
    BY <1>1 DEF handover_paging
  <2>3. pair[1] \in Space /\ pair[2] \in Nat /\ {"present", "rw"} \in SUBSET Bits
    BY PagingAssumption DEF Bits
  <2>4. Mapped(m, m', pair[1], pair[2], {"present", "rw"})
    BY <2>1, <2>2, <2>3, LegacyMaps
  <2>5. /\ m' \in Memories
        /\ asked' \in [Space -> [frame : Nat, flags : SUBSET Bits] \cup {Unasked}]
        /\ (\E dn \in [TableFrames -> 0 .. 3] : Tree(m, dn))'
        /\ DirectoriesStay' /\ NeverAWrongFrame'
        /\ \A u \in Space : asked[u] # Unasked => asked'[u] # Unasked
    BY <2>2, <2>3, <2>4, MappedKeeps
  <2>6. TypeOK'
    BY <2>2, <2>5 DEF PagingInv, TypeOK
  <2>7. LoopSound'
    BY <2>2, <2>5 DEF PagingInv, LoopSound
  <2> QED BY <2>5, <2>6, <2>7 DEF PagingInv
<1>2. ASSUME NEW v \in VPages, NEW p \in PFrames, NEW n \in Extents, NEW flags \in FlagSets,
             vtopFlag(v, p, n, flags)
      PROVE  PagingInv'
  BY <1>0, <1>2, CallKeeps, PagingAssumption DEF vtopFlag
<1>3. ASSUME NEW p \in PFrames, NEW n \in Extents, NEW flags \in FlagSets,
             toVirtualFlag(p, n, flags)
      PROVE  PagingInv'
  <2>1. p + Offset \in Nat /\ p \in Nat /\ n \in Nat
    BY PagingAssumption
  <2> QED BY <1>0, <1>3, <2>1, CallKeeps DEF toVirtualFlag, vtopFlag
<1>4. ASSUME NEW p \in PFrames, NEW n \in Extents, toVirtual(p, n)
      PROVE  PagingInv'
  <2>1. p + Offset \in Nat /\ p \in Nat /\ n \in Nat
    BY PagingAssumption
  <2>2. {"present", "rw"} \in SUBSET Bits
    BY DEF Bits
  <2> QED BY <1>4, <2>1, <2>2, CallKeeps DEF toVirtual
<1>5. ASSUME NEW v \in VPages, NEW n \in Extents, unVirtual(v, n)
      PROVE  PagingInv'
  <2>1. v \in Nat /\ n \in Nat /\ {} \in SUBSET Bits
    BY PagingAssumption
  <2> QED BY <1>5, <2>1, CallKeeps DEF unVirtual
<1>6. ASSUME MapPage \/ MapLegacyPage PROVE PagingInv'
  <2>1. /\ ~m.hung /\ loop.v \in Space /\ loop.p \in Nat /\ loop.flags \in SUBSET Bits
        /\ Mapped(m, m', loop.v, loop.p, loop.flags)
        /\ Remember(loop.v, loop.p, loop.flags)
    BY <1>6, TurnsMap
  <2>2. /\ m' \in Memories
        /\ asked' \in [Space -> [frame : Nat, flags : SUBSET Bits] \cup {Unasked}]
        /\ (\E dn \in [TableFrames -> 0 .. 3] : Tree(m, dn))'
        /\ DirectoriesStay' /\ NeverAWrongFrame'
    BY <2>1, MappedKeeps
  <2>3. PICK op \in {"map", "legacy"} : Turn(op)
    BY <1>6 DEF MapPage, MapLegacyPage
  <2>4. handed' = handed /\ loop.op = op
    BY <2>3 DEF Turn
  <2>5. /\ loop' \in [op : {"none", "map", "legacy", "unmap"}, v : Nat, p : Nat,
                      left : Nat, flags : SUBSET Bits]
        /\ loop'.op = loop.op /\ loop'.flags = loop.flags
        /\ Pages(loop'.v, loop'.left) \subseteq Space
    BY <2>3, TurnTakes
  <2>6. TypeOK'
    BY <2>2, <2>4, <2>5 DEF PagingInv, TypeOK
  <2>7. LoopSound'
    BY <2>4, <2>5 DEF PagingInv, LoopSound
  <2> QED BY <2>2, <2>6, <2>7 DEF PagingInv
<1>7. ASSUME UnmapPage PROVE PagingInv'
  <2>1. PICK d \in [TableFrames -> 0 .. 3] : Tree(m, d)
    BY DEF PagingInv
  <2>2. /\ Turn("unmap") /\ ~m.hung /\ m' = unmapVirtual(m, loop.v)
        /\ asked' = [asked EXCEPT ![loop.v] = Unasked] /\ handed' = handed
        /\ loop.op = "unmap"
    BY <1>7 DEF UnmapPage, Turn
  <2>3. /\ loop.v \in Space /\ loop.v \in Pages(loop.v, loop.left)
        /\ loop' \in [op : {"none", "map", "legacy", "unmap"}, v : Nat, p : Nat,
                      left : Nat, flags : SUBSET Bits]
        /\ loop'.op = loop.op
        /\ Pages(loop'.v, loop'.left) \subseteq Pages(loop.v, loop.left) \ {loop.v}
        /\ Pages(loop.v, loop.left) \subseteq Space
    BY <2>2, TurnTakes
  <2>4. HasDirectory(m, loop.v)
    BY <2>2, <2>3 DEF PagingInv, LoopSound, DirectoriesStay
  <2>5. /\ Tree(m', d) /\ m'.hung = m.hung
        /\ \A u \in Space : Translate(m', u) \in {Translate(m, u), Nothing}
        /\ \A u \in Space : HasDirectory(m, u) => HasDirectory(m', u)
    BY <2>1, <2>2, <2>3, <2>4, UnmapCuts
  <2>6. asked \in [Space -> [frame : Nat, flags : SUBSET Bits] \cup {Unasked}]
    BY DEF PagingInv, TypeOK
  <2>7. /\ asked' \in [Space -> [frame : Nat, flags : SUBSET Bits] \cup {Unasked}]
        /\ asked'[loop.v] = Unasked
        /\ \A u \in Space \ {loop.v} : asked'[u] = asked[u]
    BY <2>2, <2>3, <2>6
  <2>8. TypeOK'
    BY <2>2, <2>3, <2>5, <2>7 DEF PagingInv, TypeOK, Tree
  <2>9. DirectoriesStay'
    BY <2>2, <2>5, <2>7 DEF PagingInv, DirectoriesStay
  <2>10. NeverAWrongFrame'
    <3> SUFFICES ASSUME NEW u \in Space, asked'[u] # Unasked, Translate(m', u) # Nothing
                 PROVE  /\ Translate(m', u).frame = asked'[u].frame
                        /\ Translate(m', u).rights \subseteq Rights(asked'[u].flags)
      BY DEF NeverAWrongFrame
    <3>1. Translate(m', u) = Translate(m, u) /\ asked'[u] = asked[u]
      BY <2>5, <2>7
    <3> QED BY <3>1 DEF PagingInv, NeverAWrongFrame
  <2>11. LoopSound'
    BY <2>2, <2>3, <2>7 DEF PagingInv, LoopSound
  <2>12. (\E dn \in [TableFrames -> 0 .. 3] : Tree(m, dn))'
    BY <2>1, <2>5
  <2> QED BY <2>8, <2>9, <2>10, <2>11, <2>12 DEF PagingInv
<1>8. ASSUME UNCHANGED vars PROVE PagingInv'
  BY <1>8 DEF vars, PagingInv, TypeOK, DirectoriesStay, LoopSound, NeverAWrongFrame
<1> QED
  BY <1>1, <1>2, <1>3, <1>4, <1>5, <1>6, <1>7, <1>8 DEF Next

\* In every state the tables in use are a tree, the directories of mapped pages are
\* there, and no page leads to a wrong frame.
THEOREM PagingInvariant == Spec => []PagingInv
  BY InitPagingInv, StepPagingInv, PTL DEF Spec

\* Every table frame has one parent entry and belongs to no one else, whatever was
\* mapped and unmapped and in whichever order.
THEOREM TablesAreSound == Spec => []TablesSound
<1>1. PagingInv => TablesSound
  <2> SUFFICES ASSUME PagingInv PROVE TablesSound
    OBVIOUS
  <2>1. PICK d \in [TableFrames -> 0 .. 3] : Tree(m, d)
    BY DEF PagingInv
  <2>2. PML4Table \in Used(m) /\ d[PML4Table] = 3 /\ Used(m) \subseteq TableFrames
    BY <2>1, PagingAssumption DEF Tree, Used, Memories
  <2>3. ASSUME NEW f \in Used(m), d[f] > 0, NEW i \in Indices, Present(m, f, i)
        PROVE  /\ m.tab[f][i].address \in Used(m) \ {PML4Table}
               /\ d[m.tab[f][i].address] = d[f] - 1
    BY <2>1, <2>3 DEF Tree, LeadsDown
  <2>4. \A f \in Below({PML4Table}) : f \in Used(m) /\ d[f] = 2
    BY <2>2, <2>3 DEF Below
  <2>5. \A f \in Below(Below({PML4Table})) : f \in Used(m) /\ d[f] = 1
    <3> SUFFICES ASSUME NEW f \in Below(Below({PML4Table})) PROVE f \in Used(m) /\ d[f] = 1
      OBVIOUS
    <3> DEFINE upper == Below({PML4Table})
    <3> HIDE DEF upper
    <3>1. PICK b \in upper \X Indices : Present(m, b[1], b[2]) /\ f = m.tab[b[1]][b[2]].address
      BY DEF Below, upper
    <3>2. b[1] \in Used(m) /\ d[b[1]] = 2 /\ b[2] \in Indices
      BY <3>1, <2>4 DEF upper
    <3> QED BY <3>1, <3>2, <2>3
  <2>6. \A f \in UpperTables : f \in Used(m) /\ d[f] > 0
    BY <2>2, <2>4, <2>5 DEF UpperTables
  <2>7. \A a \in UpperEntries : /\ a \in Used(m) \X Indices /\ d[a[1]] > 0
                                /\ Present(m, a[1], a[2])
    BY <2>6 DEF UpperEntries
  <2>8. ASSUME NEW a \in UpperEntries, NEW b \in UpperEntries,
               m.tab[a[1]][a[2]].address = m.tab[b[1]][b[2]].address
        PROVE  a = b
    <3>1. OneParent(m, d, a[1], a[2], b[1], b[2])
      BY <2>1, <2>7 DEF Tree
    <3> QED BY <3>1, <2>7, <2>8 DEF OneParent
  <2>9. \A a \in UpperEntries :
            m.tab[a[1]][a[2]].address \in TableFrames \ (m.pool \cup {PML4Table})
    BY <2>3, <2>7 DEF Used
  <2> QED BY <2>8, <2>9 DEF TablesSound, TablesHaveOneParent, PagingInv
<1> QED
  BY <1>1, PagingInvariant, PTL

\* A page never leads to a frame nobody asked for it, nor with rights nobody asked
\* for, for page tables of every width.
THEOREM NoWrongFrame == Spec => []NeverAWrongFrame
<1>1. PagingInv => NeverAWrongFrame
  BY DEF PagingInv
<1> QED
  BY <1>1, PagingInvariant, PTL

\* A step of vtopFlag, toVirtualFlag or toVirtual changes the translation of its own
\* page only, also when it hangs for want of a frame.
THEOREM MappingDisturbsNoOther == Spec => MapDisturbsNoOther
<1>1. PagingInv /\ [Next]_vars =>
        [MapPage \/ MapLegacyPage =>
            \A u \in Space \ {loop.v} : Translate(m', u) = Translate(m, u)]_vars
  <2> SUFFICES ASSUME PagingInv, MapPage \/ MapLegacyPage
               PROVE  \A u \in Space \ {loop.v} : Translate(m', u) = Translate(m, u)
    OBVIOUS
  <2> QED BY TurnsMap DEF Mapped
<1> QED
  BY <1>1, PagingInvariant, PTL DEF Spec, MapDisturbsNoOther

=============================================================================
