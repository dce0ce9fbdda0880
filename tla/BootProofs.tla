----------------------------- MODULE BootProofs -----------------------------
(***************************************************************************)
(* From the firmware to the kernel's idle loop, for every disk, image,     *)
(* memory and root table, every number of tables and of allocations the    *)
(* firmware makes meanwhile: the kernel is found if there is one and laid  *)
(* out as its headers say, the map handed over is the firmware's last, and *)
(* the kernel's start finds what each of its steps needs.                  *)
(***************************************************************************)
EXTENDS Boot, WellFoundedInduction, FiniteSetTheorems, SequenceTheorems, TLAPS

-----------------------------------------------------------------------------
(* Memory maps.                                                            *)

\* Sequences of descriptors, of the firmware or of the kernel.
HasRuns(S) == \A d \in S : d.phys \in Nat /\ d.pages \in Nat

IsSplice(r, s, i, mid) ==
    /\ Len(r) = Len(s) + Len(mid) - 1
    /\ \A k \in 1 .. i - 1 : r[k] = s[k]
    /\ \A k \in 1 .. Len(mid) : r[i - 1 + k] = mid[k]
    /\ \A k \in i + 1 .. Len(s) : r[k + Len(mid) - 1] = s[k]

\* What is before and behind the element stays, in its order.
LEMMA SpliceSound ==
    ASSUME NEW S, NEW s \in Seq(S), NEW mid \in Seq(S), NEW i \in 1 .. Len(s)
    PROVE  Spliced(s, i, mid) \in Seq(S) /\ IsSplice(Spliced(s, i, mid), s, i, mid)
<1> DEFINE a == SubSeq(s, 1, i - 1)
           c == SubSeq(s, i + 1, Len(s))
           ab == a \o mid
<1>1. /\ Len(s) \in Nat /\ Len(mid) \in Nat
      /\ a \in Seq(S) /\ Len(a) = i - 1 /\ \A k \in 1 .. i - 1 : a[k] = s[k]
  OBVIOUS
<1>2. /\ c \in Seq(S) /\ Len(c) = Len(s) - i
      /\ \A k \in 1 .. Len(s) - i : c[k] = s[i + k]
  BY <1>1
<1> HIDE DEF a, c
<1>3. /\ ab \in Seq(S) /\ Len(ab) = i - 1 + Len(mid)
      /\ \A k \in 1 .. i - 1 : ab[k] = a[k]
      /\ \A k \in 1 .. Len(mid) : ab[i - 1 + k] = mid[k]
  <2>1. /\ ab \in Seq(S) /\ Len(ab) = Len(a) + Len(mid)
        /\ \A k \in 1 .. Len(a) + Len(mid) :
              ab[k] = IF k <= Len(a) THEN a[k] ELSE mid[k - Len(a)]
    <3>1. a \in Seq(S)
      BY <1>1
    <3> QED
      BY <3>1, ConcatProperties, Zenon
  <2> HIDE DEF ab
  <2>2. ASSUME NEW k \in 1 .. i - 1 PROVE ab[k] = a[k]
    BY <2>1, <1>1
  <2>3. ASSUME NEW k \in 1 .. Len(mid) PROVE ab[i - 1 + k] = mid[k]
    <3>1. i - 1 + k \in 1 .. Len(a) + Len(mid) /\ ~(i - 1 + k <= Len(a)) /\ (i - 1 + k) - Len(a) = k
      BY <1>1
    <3> QED
      BY <3>1, <2>1
  <2> QED
    BY <2>1, <2>2, <2>3, <1>1
<1> HIDE DEF ab
<1> DEFINE r == ab \o c
<1>4. /\ r \in Seq(S) /\ Len(r) = Len(ab) + Len(c)
      /\ \A k \in 1 .. Len(ab) : r[k] = ab[k]
      /\ \A k \in 1 .. Len(c) : r[Len(ab) + k] = c[k]
  <2>1. /\ r \in Seq(S) /\ Len(r) = Len(ab) + Len(c)
        /\ \A k \in 1 .. Len(ab) + Len(c) :
              r[k] = IF k <= Len(ab) THEN ab[k] ELSE c[k - Len(ab)]
    <3>1. ab \in Seq(S) /\ c \in Seq(S)
      BY <1>2, <1>3
    <3> QED
      BY <3>1, ConcatProperties, Zenon
  <2> HIDE DEF r
  <2>2. ASSUME NEW k \in 1 .. Len(ab) PROVE r[k] = ab[k]
    <3>1. k \in 1 .. Len(ab) + Len(c) /\ k <= Len(ab)
      BY <1>1, <1>2, <1>3
    <3> QED
      BY <3>1, <2>1
  <2>3. ASSUME NEW k \in 1 .. Len(c) PROVE r[Len(ab) + k] = c[k]
    <3>1. /\ Len(ab) + k \in 1 .. Len(ab) + Len(c)
          /\ ~(Len(ab) + k <= Len(ab)) /\ (Len(ab) + k) - Len(ab) = k
      BY <1>1, <1>2, <1>3
    <3> QED
      BY <3>1, <2>1
  <2> QED
    BY <2>1, <2>2, <2>3
<1>5. Spliced(s, i, mid) = r
  BY DEF Spliced, a, ab, c
<1> HIDE DEF r
<1>6. \A k \in 1 .. i - 1 : r[k] = s[k]
  BY <1>1, <1>3, <1>4
<1>7. \A k \in 1 .. Len(mid) : r[i - 1 + k] = mid[k]
  BY <1>1, <1>3, <1>4
<1>8. ASSUME NEW k \in i + 1 .. Len(s) PROVE r[k + Len(mid) - 1] = s[k]
  <2>1. k - i \in 1 .. Len(c) /\ Len(ab) + (k - i) = k + Len(mid) - 1 /\ i + (k - i) = k
    BY <1>1, <1>2, <1>3
  <2>2. r[Len(ab) + (k - i)] = c[k - i] /\ c[k - i] = s[i + (k - i)]
    BY <2>1, <1>2, <1>4
  <2> QED
    BY <2>1, <2>2
<1>9. Len(r) = Len(s) + Len(mid) - 1
  BY <1>1, <1>2, <1>3, <1>4
<1> QED
  BY <1>4, <1>5, <1>6, <1>7, <1>8, <1>9, Zenon DEF IsSplice

\* The parts lie within the element they replace.
Inside(mid, d) ==
    \A k \in 1 .. Len(mid) : d.phys <= mid[k].phys /\ mid[k].phys + mid[k].pages <= d.phys + d.pages

\* A map in order stays so when a descriptor is replaced by parts of it in order.
LEMMA SpliceOrdered ==
    ASSUME NEW S, HasRuns(S), NEW s \in Seq(S), NEW mid \in Seq(S), NEW i \in 1 .. Len(s),
           Ordered(s), Ordered(mid), Inside(mid, s[i])
    PROVE  Ordered(Spliced(s, i, mid))
<1> DEFINE r == Spliced(s, i, mid)
           n == Len(mid)
<1>0. Len(s) \in Nat /\ n \in Nat /\ i \in Nat
  OBVIOUS
<1>1. /\ Len(r) = Len(s) + n - 1
      /\ \A k \in 1 .. i - 1 : r[k] = s[k]
      /\ \A k \in 1 .. n : r[i - 1 + k] = mid[k]
      /\ \A k \in i + 1 .. Len(s) : r[k + n - 1] = s[k]
  <2>1. IsSplice(r, s, i, mid)
    BY SpliceSound
  <2> QED
    BY <2>1 DEF IsSplice
<1> HIDE DEF r
<1>4. Len(r) = Len(s) + n - 1
  BY <1>1
<1>13. ASSUME NEW x \in Nat, NEW y \in Nat, NEW z \in Nat, NEW w \in Nat, x + y <= z, z <= w
       PROVE  x + y <= w
  BY <1>13
<1>2. /\ \A k \in 1 .. Len(s) : s[k].phys \in Nat /\ s[k].pages \in Nat
      /\ \A k \in 1 .. n : mid[k].phys \in Nat /\ mid[k].pages \in Nat
  BY DEF HasRuns
\* Where the k-th element of r comes from.
<1>3. ASSUME NEW k \in 1 .. Len(r)
      PROVE  \/ k < i /\ k \in 1 .. Len(s) /\ r[k] = s[k]
             \/ i <= k /\ k < i + n /\ k - i + 1 \in 1 .. n /\ r[k] = mid[k - i + 1]
             \/ i + n <= k /\ k - n + 1 \in i + 1 .. Len(s) /\ r[k] = s[k - n + 1]
  <2>0. k \in Int /\ 1 <= k /\ k <= Len(s) + n - 1
    BY <1>0, <1>4
  <2> HIDE DEF n
  <2>1. CASE k < i
    <3>1. k \in 1 .. i - 1 /\ k \in 1 .. Len(s)
      BY <2>0, <2>1, <1>0
    <3> QED
      BY <3>1, <2>1, <1>1
  <2>2. CASE i <= k /\ k < i + n
    <3>1. k - i + 1 \in 1 .. n /\ i - 1 + (k - i + 1) = k
      BY <2>0, <2>2, <1>0
    <3> QED
      BY <3>1, <2>2, <1>1
  <2>3. CASE i + n <= k
    <3>1. k - n + 1 \in i + 1 .. Len(s) /\ (k - n + 1) + n - 1 = k
      BY <2>0, <2>3, <1>0
    <3> QED
      BY <3>1, <2>3, <1>1
  <2> QED
    BY <2>0, <2>1, <2>2, <2>3, <1>0
<1> SUFFICES ASSUME NEW a \in 1 .. Len(r), NEW b \in 1 .. Len(r), a < b
             PROVE  r[a].phys + r[a].pages <= r[b].phys
  BY <1>0, <1>1 DEF Ordered, r
<1>5. /\ \A k, l \in 1 .. Len(s) : k < l => s[k].phys + s[k].pages <= s[l].phys
      /\ \A k, l \in 1 .. n : k < l => mid[k].phys + mid[k].pages <= mid[l].phys
      /\ \A k \in 1 .. n : s[i].phys <= mid[k].phys
                           /\ mid[k].phys + mid[k].pages <= s[i].phys + s[i].pages
  BY DEF Ordered, Inside
<1>6. CASE a < i
  <2>1. a \in 1 .. Len(s) /\ r[a] = s[a]
    BY <1>3, <1>6, <1>0, <1>1
  <2>2. CASE b < i
    <3>1. b \in 1 .. Len(s) /\ r[b] = s[b]
      BY <2>2, <1>3, <1>0, <1>1
    <3> QED
      BY <3>1, <2>1, <1>5
  <2>3. CASE i <= b /\ b < i + n
    <3>1. b - i + 1 \in 1 .. n /\ r[b] = mid[b - i + 1]
      BY <2>3, <1>3, <1>0, <1>1
    <3>2. s[a].phys + s[a].pages <= s[i].phys /\ s[i].phys <= mid[b - i + 1].phys
      BY <3>1, <2>1, <1>5, <1>6
    <3>3. s[a].phys \in Nat /\ s[a].pages \in Nat /\ s[i].phys \in Nat /\ mid[b - i + 1].phys \in Nat
      BY <3>1, <2>1, <1>2
    <3>4. s[a].phys + s[a].pages <= mid[b - i + 1].phys
      BY <3>2, <3>3, <1>13, Zenon
    <3> QED
      BY <3>1, <3>4, <2>1
  <2>4. CASE i + n <= b
    <3>1. b - n + 1 \in i + 1 .. Len(s) /\ r[b] = s[b - n + 1]
      BY <2>4, <1>3, <1>0, <1>1
    <3>2. s[a].phys + s[a].pages <= s[b - n + 1].phys
      BY <3>1, <2>1, <1>5, <1>6, <1>0
    <3> QED
      BY <3>1, <3>2, <2>1
  <2> QED
    BY <2>2, <2>3, <2>4, <1>0, <1>1
<1>7. CASE i <= a /\ a < i + n
  <2>1. a - i + 1 \in 1 .. n /\ r[a] = mid[a - i + 1]
    BY <1>3, <1>7, <1>0, <1>1
  <2>2. CASE b < i + n
    <3>1. b - i + 1 \in 1 .. n /\ r[b] = mid[b - i + 1] /\ a - i + 1 < b - i + 1
      BY <2>2, <1>3, <1>7, <1>0, <1>1
    <3> QED
      BY <3>1, <2>1, <1>5
  <2>3. CASE i + n <= b
    <3>1. b - n + 1 \in i + 1 .. Len(s) /\ r[b] = s[b - n + 1]
      BY <2>3, <1>3, <1>0, <1>1
    <3>2. s[i].phys + s[i].pages <= s[b - n + 1].phys
      BY <3>1, <1>5, <1>0
    <3>3. mid[a - i + 1].phys + mid[a - i + 1].pages <= s[i].phys + s[i].pages
      BY <2>1, <1>5
    <3>4. b - n + 1 \in 1 .. Len(s)
      BY <3>1, <1>0
    <3>5. /\ s[i].phys \in Nat /\ s[i].pages \in Nat /\ s[b - n + 1].phys \in Nat
          /\ mid[a - i + 1].phys \in Nat /\ mid[a - i + 1].pages \in Nat
      BY <3>4, <2>1, <1>2
    <3>6. mid[a - i + 1].phys + mid[a - i + 1].pages <= s[b - n + 1].phys
      <4> DEFINE x == mid[a - i + 1]
                 y == s[i]
                 z == s[b - n + 1]
      <4>1. {x.phys, x.pages, y.phys, y.pages, z.phys} \subseteq Nat
        BY <3>5, Zenon
      <4>2. x.phys + x.pages <= y.phys + y.pages /\ y.phys + y.pages <= z.phys
        BY <3>2, <3>3, Zenon
      <4> HIDE DEF x, y, z
      <4>3. x.phys + x.pages <= z.phys
        BY <4>1, <4>2
      <4> QED
        BY <4>3 DEF x, z
    <3> QED
      BY <3>1, <3>6, <2>1
  <2> QED
    BY <2>2, <2>3, <1>0, <1>1
<1>8. CASE i + n <= a
  <2>1. a - n + 1 \in i + 1 .. Len(s) /\ r[a] = s[a - n + 1]
    BY <1>3, <1>8, <1>0, <1>1
  <2>2. b - n + 1 \in i + 1 .. Len(s) /\ r[b] = s[b - n + 1] /\ a - n + 1 < b - n + 1
    BY <1>3, <1>8, <1>0, <1>1
  <2> QED
    BY <2>1, <2>2, <1>5, <1>0
<1> QED
  BY <1>6, <1>7, <1>8, <1>0, <1>1

\* An allocation leaves the firmware's map in order, with at most one descriptor more
\* and one of the type that was asked for.
LEMMA TakeSound ==
    ASSUME NEW m \in Seq(Descriptor), Ordered(m), NEW n \in Nat, NEW i \in Free(m, n),
           NEW type \in Types
    PROVE  /\ Take(m, i, type, n) \in Seq(Descriptor) /\ Ordered(Take(m, i, type, n))
           /\ Len(Take(m, i, type, n)) \in {Len(m), Len(m) + 1}
           /\ \E k \in 1 .. Len(Take(m, i, type, n)) : Take(m, i, type, n)[k].type = type
           /\ m[i].phys + m[i].pages - n \in Nat
<1> DEFINE rest == [m[i] EXCEPT !.pages = @ - n]
           got == [type |-> type, phys |-> m[i].phys + m[i].pages - n, pages |-> n]
           mid == IF rest.pages = 0 THEN <<got>> ELSE <<rest, got>>
<1>1. /\ Len(m) \in Nat /\ i \in 1 .. Len(m) /\ n > 0 /\ m[i] \in Descriptor
      /\ m[i].pages >= n
  BY DEF Free
<1>2. /\ m[i].phys \in Nat /\ m[i].pages \in Nat /\ m[i].type \in Types
      /\ m[i].phys + m[i].pages - n \in Nat /\ m[i].phys <= m[i].phys + m[i].pages - n
  BY <1>1 DEF Descriptor
<1>3. got \in Descriptor /\ got.phys + got.pages = m[i].phys + m[i].pages /\ m[i].phys <= got.phys
  BY <1>1, <1>2 DEF Descriptor
<1>4. /\ rest.phys = m[i].phys /\ rest.pages = m[i].pages - n
      /\ rest.phys + rest.pages = got.phys
      /\ rest.pages # 0 => rest \in Descriptor
  BY <1>1, <1>2 DEF Descriptor
<1>5. /\ mid \in Seq(Descriptor) /\ Len(mid) \in {1, 2} /\ mid[Len(mid)] = got
      /\ \A k \in 1 .. Len(mid) : mid[k] = got \/ mid[k] = rest
      /\ Len(mid) = 2 => mid[1] = rest /\ mid[2] = got /\ rest \in Descriptor
  <2>1. CASE rest.pages = 0
    BY <2>1, <1>3
  <2>2. CASE rest.pages # 0
    BY <2>2, <1>3, <1>4
  <2> QED
    BY <2>1, <2>2
<1>6. Take(m, i, type, n) = Spliced(m, i, mid)
  BY DEF Take
<1> HIDE DEF rest, got, mid
<1>7. HasRuns(Descriptor)
  BY DEF HasRuns, Descriptor
<1>8. Inside(mid, m[i])
  <2>1. got.phys \in Nat /\ got.pages \in Nat
    BY <1>3 DEF Descriptor
  <2> QED
    BY <2>1, <1>1, <1>2, <1>3, <1>4, <1>5 DEF Inside
<1>9. Ordered(mid)
  <2>1. CASE Len(mid) = 1
    BY <2>1 DEF Ordered
  <2>2. CASE Len(mid) = 2
    <3>1. mid[1].phys + mid[1].pages <= mid[2].phys
      BY <2>2, <1>3, <1>4, <1>5 DEF Descriptor
    <3> QED
      BY <2>2, <3>1 DEF Ordered
  <2> QED
    BY <2>1, <2>2, <1>5
<1> DEFINE r == Spliced(m, i, mid)
<1>10. r \in Seq(Descriptor) /\ IsSplice(r, m, i, mid)
  BY <1>1, <1>5, SpliceSound
<1>11. Ordered(r)
  BY <1>1, <1>5, <1>7, <1>8, <1>9, SpliceOrdered
<1> HIDE DEF r
<1>12. /\ Len(r) = Len(m) + Len(mid) - 1
       /\ r[i - 1 + Len(mid)] = got
  <2>1. Len(mid) \in {1, 2} /\ mid[Len(mid)] = got
    BY <1>5, Zenon
  <2>2. \A k \in {1, 2} : k \in 1 .. k
    OBVIOUS
  <2> QED
    BY <2>1, <2>2, <1>10, Zenon DEF IsSplice
<1>13. i - 1 + Len(mid) \in 1 .. Len(r) /\ Len(r) \in {Len(m), Len(m) + 1}
  <2>1. CASE Len(mid) = 1
    BY <2>1, <1>1, <1>12
  <2>2. CASE Len(mid) = 2
    BY <2>2, <1>1, <1>12
  <2> QED
    BY <2>1, <2>2, <1>5, Zenon
<1>14. r[i - 1 + Len(mid)].type = type
  BY <1>12 DEF got
<1>15. Take(m, i, type, n) = r
  BY <1>6 DEF r
<1> QED
  BY <1>2, <1>10, <1>11, <1>13, <1>14, <1>15, Zenon

\* A set of numbers has a smallest one.
LEMMA Smallest ==
    ASSUME NEW S \in SUBSET Nat, S # {}
    PROVE  \E m \in S : \A y \in S : m <= y
<1> DEFINE R == OpToRel(<, Nat)
<1>1. PICK m \in S : \A y \in S : ~(<<y, m>> \in R)
  BY NatLessThanWellFounded, WFMin
<1>2. \A y \in S : ~(y < m)
  BY <1>1 DEF OpToRel
<1> QED
  BY <1>2

\* The biggest region is one of the map's.
LEMMA BiggestExists ==
    ASSUME NEW entries \in Seq(KernelDescriptor), Ordered(entries), Len(entries) > 0
    PROVE  findBiggestUsableMemoryRegion(entries) \in 1 .. Len(entries)
<1> DEFINE n == Len(entries)
           candidates == {1} \cup {i \in 1 .. n : entries[i].type \in Usable}
           end == entries[n].phys + entries[n].pages
           Smaller == {end - entries[i].pages : i \in candidates}
<1>1. n \in Nat /\ n > 0 /\ candidates \subseteq 1 .. n /\ 1 \in candidates
  OBVIOUS
<1>2. \A i \in 1 .. n : entries[i].phys \in Nat /\ entries[i].pages \in Nat
  <2>1. \A i \in 1 .. n : entries[i] \in KernelDescriptor
    OBVIOUS
  <2> QED
    BY <2>1 DEF KernelDescriptor
<1>3. end \in Nat
  BY <1>1, <1>2
<1>4. ASSUME NEW i \in 1 .. n PROVE end - entries[i].pages \in Nat
  <2>1. CASE i = n
    BY <2>1, <1>1, <1>2, <1>3
  <2>2. CASE i # n
    <3>1. entries[i].phys + entries[i].pages <= entries[n].phys
      BY <2>2, <1>1 DEF Ordered
    <3>2. /\ entries[i].phys \in Nat /\ entries[i].pages \in Nat
          /\ entries[n].phys \in Nat /\ entries[n].pages \in Nat
      BY <1>1, <1>2
    <3> QED
      BY <3>1, <3>2
  <2> QED
    BY <2>1, <2>2
<1> HIDE DEF candidates, end, n
<1>5. Smaller \in SUBSET Nat /\ Smaller # {}
  <2>1. \A i \in candidates : end - entries[i].pages \in Nat
    BY <1>1, <1>4
  <2> QED
    BY <1>1, <2>1, Zenon
<1>6. PICK s \in Smaller : \A y \in Smaller : s <= y
  BY <1>5, Smallest
<1>7. PICK b \in candidates : s = end - entries[b].pages
  BY <1>6
<1>8. ASSUME NEW j \in candidates PROVE entries[j].pages <= entries[b].pages
  <2>1. end - entries[b].pages <= end - entries[j].pages
    BY <1>6, <1>7
  <2> QED
    BY <2>1, <1>1, <1>2, <1>3
<1> HIDE DEF Smaller
<1> DEFINE First == {i \in candidates : entries[i].pages = entries[b].pages}
<1>9. First \in SUBSET Nat /\ First # {}
  <2>1. candidates \in SUBSET Nat
    BY <1>1
  <2> QED
    BY <2>1, <1>7, Zenon
<1>10. PICK z \in First : \A y \in First : z <= y
  BY <1>9, Smallest
<1>11. \A j \in candidates \ {z} :
           \/ entries[j].pages < entries[z].pages
           \/ entries[j].pages = entries[z].pages /\ z < j
  BY <1>1, <1>2, <1>8, <1>10
<1>12. z \in candidates
  BY <1>10
<1> QED
  BY <1>1, <1>11, <1>12 DEF findBiggestUsableMemoryRegion, candidates, n

-----------------------------------------------------------------------------
(* The page stack.                                                         *)

IsWalk(x) == x = [tab |-> x.tab, pml4 |-> x.pml4, addr |-> x.addr, left |-> x.left,
                  table |-> x.table]
HasPages(x) == x.addr \in Nat /\ x.left \in Nat \ {0}

\* From x to y pages were taken from the start of what was left, never the last.
Took(x, y) == HasPages(y) /\ x.addr <= y.addr /\ y.addr + y.left = x.addr + x.left

\* allocatePageAndZero takes one page or none.
LEMMA AllocateTakes ==
    ASSUME NEW x, IsWalk(x), HasPages(x)
    PROVE  LET y == allocatePageAndZero(x) IN IsWalk(y) /\ Took(x, y)
<1>1. CASE x.left = 1
  BY <1>1 DEF allocatePageAndZero, IsWalk, HasPages, Took
<1>2. CASE x.left # 1
  <2> DEFINE t == [x.tab EXCEPT ![x.addr] = ZeroPage]
             y == [tab |-> t, pml4 |-> x.pml4, addr |-> x.addr + 1, left |-> x.left - 1,
                   table |-> x.addr]
  <2>2. allocatePageAndZero(x) = y
    BY <1>2 DEF allocatePageAndZero
  <2>3. IsWalk(y)
    BY DEF IsWalk
  <2>4. y.addr = x.addr + 1 /\ y.left = x.left - 1
    OBVIOUS
  <2> HIDE DEF y
  <2>5. Took(x, y)
    BY <2>4, <1>2 DEF Took, HasPages
  <2> QED
    BY <2>2, <2>3, <2>5
<1> QED
  BY <1>1, <1>2

\* So does one level of the walk.
LEMMA DownTakes ==
    ASSUME NEW x, IsWalk(x), HasPages(x), NEW i
    PROVE  IsWalk(Down(x, i)) /\ Took(x, Down(x, i))
<1>1. CASE x.tab[x.table][i] # Absent
  <2> DEFINE d == [x EXCEPT !.table = x.tab[x.table][i]]
             e == x.tab[x.table][i]
  <2>1. Down(x, i) = d
    BY <1>1 DEF Down
  <2>2. d = [tab |-> x.tab, pml4 |-> x.pml4, addr |-> x.addr, left |-> x.left, table |-> e]
    BY DEF IsWalk
  <2> HIDE DEF d, e
  <2>3. IsWalk(d) /\ d.addr = x.addr /\ d.left = x.left
    BY <2>2 DEF IsWalk
  <2> QED
    BY <2>1, <2>3 DEF Took, HasPages
<1>2. CASE ~(x.tab[x.table][i] # Absent)
  <2> DEFINE y == allocatePageAndZero(x)
             d == [y EXCEPT !.tab[x.table][i] = y.table]
             t == [y.tab EXCEPT ![x.table][i] = y.table]
  <2>1. Down(x, i) = d
    BY <1>2 DEF Down
  <2>2. IsWalk(y) /\ Took(x, y)
    BY AllocateTakes
  <2> HIDE DEF y
  <2>3. d = [tab |-> t, pml4 |-> y.pml4, addr |-> y.addr, left |-> y.left, table |-> y.table]
    BY <2>2 DEF IsWalk
  <2> HIDE DEF d, t
  <2>4. IsWalk(d) /\ d.addr = y.addr /\ d.left = y.left
    BY <2>3 DEF IsWalk
  <2> QED
    BY <2>1, <2>2, <2>4 DEF Took, HasPages
<1> QED
  BY <1>1, <1>2

\* Pages taken one after the other.
LEMMA TookTwice ==
    ASSUME NEW x, NEW y, NEW z, HasPages(x), Took(x, y), Took(y, z)
    PROVE  Took(x, z)
BY DEF Took, HasPages

\* Mapping a page takes the pages of up to three tables.
LEMMA MapTakes ==
    ASSUME HasPages(pt), NEW p, NEW v, mapPages(p, v)
    PROVE  Took(pt, pt')
<1> DEFINE w == Walking(pt)
           a == Down(w, Index(v, 3))
           b == Down(a, Index(v, 2))
           c == Down(b, Index(v, 1))
           e == [c EXCEPT !.tab[c.table][Index(v, 0)] = p]
<1>1. pt' = Walked(e)
  BY DEF mapPages
<1>2. IsWalk(w) /\ w.addr = pt.addr /\ w.left = pt.left
  BY DEF Walking, IsWalk
<1>3. HasPages(w)
  BY <1>2 DEF HasPages
<1> HIDE DEF w
<1>4. IsWalk(a) /\ Took(w, a)
  BY <1>2, <1>3, DownTakes
<1> HIDE DEF a
<1>5. IsWalk(b) /\ Took(a, b)
  BY <1>4, DownTakes DEF Took
<1> HIDE DEF b
<1>6. IsWalk(c) /\ Took(b, c)
  BY <1>5, DownTakes DEF Took
<1> HIDE DEF c
<1>7. Took(w, c)
  BY <1>3, <1>4, <1>5, <1>6, TookTwice
<1>8. e.addr = c.addr /\ e.left = c.left
  BY <1>6 DEF IsWalk
<1> HIDE DEF e
<1>9. pt'.addr = c.addr /\ pt'.left = c.left
  BY <1>1, <1>8 DEF Walked
<1> QED
  BY <1>2, <1>7, <1>9 DEF Took, HasPages

-----------------------------------------------------------------------------
(* The search.                                                             *)

\* The activation that reads, and where it stands.
LEMMA ReadingOne ==
    ASSUME SearchInv, frames # <<>>
    PROVE  /\ Len(frames) \in Nat /\ Len(frames) >= 1
           /\ Current \in Activation /\ Current = frames[Len(frames)]
           /\ Current.entries \in Directories /\ Current.pos \in Nat
           /\ Current.path \in Seq(Nat)
           /\ Len(Current.entries) \in Nat
           /\ Current.pos <= Len(Current.entries)
           /\ ~AtEnd => Current.pos + 1 \in DOMAIN Current.entries
<1>1. frames \in Seq(Activation) /\ Len(frames) \in Nat /\ Len(frames) >= 1
  BY DEF SearchInv
<1>2. Current = frames[Len(frames)] /\ frames[Len(frames)] \in Activation
  BY <1>1 DEF Current, Last
<1>3. frames[Len(frames)].pos <= Len(frames[Len(frames)].entries)
  BY <1>1 DEF SearchInv
<1>4. Current.entries \in Directories /\ Current.pos \in Nat /\ Current.path \in Seq(Nat)
  BY <1>2 DEF Activation
<1>5. Len(Current.entries) \in Nat /\ DOMAIN Current.entries = 1 .. Len(Current.entries)
  BY <1>4, DisksAssumption
<1>6. ~AtEnd => Current.pos + 1 \in DOMAIN Current.entries
  BY <1>2, <1>3, <1>4, <1>5 DEF AtEnd
<1> QED
  BY <1>1, <1>2, <1>3, <1>4, <1>5, <1>6

\* The frames of a search are in order.
FramesOK(s) ==
    /\ s \in Seq(Activation)
    /\ \A i \in 1 .. Len(s) : s[i].pos <= Len(s[i].entries)

\* The last activation has moved on by one entry.
Moved(new, old) ==
    \A i \in 1 .. Len(old) :
        /\ new[i].path = old[i].path /\ new[i].entries = old[i].entries
        /\ new[i].pos = IF i = Len(old) THEN old[i].pos + 1 ELSE old[i].pos

\* Moving on to the next entry.
LEMMA AdvancedOK ==
    ASSUME SearchInv, frames # <<>>, ~AtEnd
    PROVE  FramesOK(Advanced) /\ Len(Advanced) = Len(frames) /\ Moved(Advanced, frames)
<1> DEFINE n == Len(frames)
           moved == [frames[n] EXCEPT !.pos = @ + 1]
<1>1. /\ frames \in Seq(Activation) /\ n \in Nat /\ n >= 1
      /\ \A i \in 1 .. n : frames[i].pos <= Len(frames[i].entries)
      /\ frames[n] \in Activation /\ frames[n].pos \in Nat
      /\ frames[n].pos + 1 \in DOMAIN frames[n].entries
      /\ frames[n].entries \in Directories
  BY ReadingOne DEF SearchInv
<1>2. /\ moved \in Activation /\ moved.pos = frames[n].pos + 1
      /\ moved.entries = frames[n].entries /\ moved.path = frames[n].path
  <2>1. ASSUME NEW f \in Activation
        PROVE  LET g == [f EXCEPT !.pos = @ + 1]
               IN  g \in Activation /\ g.pos = f.pos + 1 /\ g.entries = f.entries /\ g.path = f.path
    BY DEF Activation
  <2> QED
    BY <2>1, <1>1
<1>3. moved.pos <= Len(moved.entries)
  <2>1. DOMAIN frames[n].entries = 1 .. Len(frames[n].entries) /\ Len(frames[n].entries) \in Nat
    BY <1>1, DisksAssumption
  <2> QED
    BY <2>1, <1>1, <1>2
<1>4. Advanced = [frames EXCEPT ![n] = moved]
  BY DEF Advanced
<1> HIDE DEF moved
<1>5. /\ Advanced \in Seq(Activation) /\ Len(Advanced) = n
      /\ \A i \in 1 .. n : Advanced[i] = IF i = n THEN moved ELSE frames[i]
  BY <1>1, <1>2, <1>4
<1>6. Moved(Advanced, frames)
  BY <1>2, <1>5 DEF Moved
<1> QED
  BY <1>1, <1>3, <1>5, <1>6 DEF FramesOK

\* Going down into a directory.
LEMMA PushOK ==
    ASSUME NEW s, FramesOK(s), NEW path \in Seq(Nat), NEW d \in Directories
    PROVE  LET r == Append(s, Frame(path, d))
           IN  /\ FramesOK(r) /\ Len(r) = Len(s) + 1
               /\ \A i \in 1 .. Len(s) : r[i] = s[i]
               /\ r[Len(s) + 1] = Frame(path, d)
<1> DEFINE f == Frame(path, d)
           r == Append(s, f)
<1>1. f \in Activation /\ f.pos = 0 /\ f.entries = d
  BY DEF Frame, Activation
<1>2. f.pos <= Len(f.entries)
  BY <1>1, DisksAssumption
<1> HIDE DEF f
<1>3. s \in Seq(Activation) /\ Len(s) \in Nat
  BY DEF FramesOK
<1>4. /\ r \in Seq(Activation) /\ Len(r) = Len(s) + 1
      /\ \A i \in 1 .. Len(s) : r[i] = s[i]
      /\ r[Len(s) + 1] = f
  BY <1>1, <1>3
<1> HIDE DEF r
<1>5. ASSUME NEW i \in 1 .. Len(r) PROVE r[i].pos <= Len(r[i].entries)
  <2>1. CASE i = Len(s) + 1
    BY <2>1, <1>2, <1>4
  <2>2. CASE i \in 1 .. Len(s)
    BY <2>2, <1>4 DEF FramesOK
  <2> QED
    BY <2>1, <2>2, <1>3, <1>4
<1>6. FramesOK(r)
  BY <1>4, <1>5 DEF FramesOK
<1> QED
  BY <1>4, <1>6 DEF r, f

\* Coming back from one.
LEMMA PopOK ==
    ASSUME SearchInv, frames # <<>>
    PROVE  /\ FramesOK(Front(frames)) /\ Len(Front(frames)) = Len(frames) - 1
           /\ \A i \in 1 .. Len(frames) - 1 : Front(frames)[i] = frames[i]
<1>1. frames \in Seq(Activation) /\ Len(frames) \in Nat /\ Len(frames) >= 1
  BY DEF SearchInv
<1>2. /\ Front(frames) \in Seq(Activation) /\ Len(Front(frames)) = Len(frames) - 1
      /\ \A i \in 1 .. Len(frames) - 1 : Front(frames)[i] = frames[i]
  <2>1. ASSUME NEW S, NEW s \in Seq(S), NEW n \in Nat, n + 1 = Len(s)
        PROVE  /\ SubSeq(s, 1, n) \in Seq(S) /\ Len(SubSeq(s, 1, n)) = n
               /\ \A i \in 1 .. n : SubSeq(s, 1, n)[i] = s[i]
    <3>1. \A i \in 1 .. n : s[i] \in S
      BY <2>1
    <3>2. /\ SubSeq(s, 1, n) \in Seq(S)
          /\ Len(SubSeq(s, 1, n)) = IF 1 <= n THEN n - 1 + 1 ELSE 0
          /\ \A i \in 1 .. n - 1 + 1 : SubSeq(s, 1, n)[i] = s[1 + i - 1]
      BY <3>1, SubSeqProperties
    <3> DEFINE q == SubSeq(s, 1, n)
    <3> HIDE DEF q
    <3>3. Len(q) = n /\ \A i \in 1 .. n : q[i] = s[i]
      BY <3>2 DEF q
    <3> QED
      BY <3>2, <3>3 DEF q
  <2>2. Len(frames) - 1 \in Nat /\ (Len(frames) - 1) + 1 = Len(frames)
    BY <1>1
  <2> QED
    BY <2>1, <2>2, <1>1 DEF Front
<1> QED
  BY <1>1, <1>2 DEF FramesOK, SearchInv

\* A return keeps the invariant when what it found is a kernel.
LEMMA ReturnOK ==
    ASSUME SearchInv, stage = "search", frames # <<>>, NEW found, IsKernel(found), NEW opened,
           Return(found, opened), UNCHANGED <<stage, disk, vol>>
    PROVE  SearchInv'
<1>1. FramesOK(frames') /\ Len(frames') = Len(frames) - 1
  BY PopOK DEF Return
<1>2. Len(frames) \in Nat /\ Len(frames) >= 1
  BY ReadingOne
<1>3. infos' \in Nat /\ Len(frames') - 1 <= infos'
  <2>1. infos' = IF Len(frames) = 1 THEN infos ELSE infos - 1
    BY DEF Return, Freed
  <2> QED
    BY <2>1, <1>1, <1>2 DEF SearchInv
<1>4. IsKernel(out') /\ IsKernel(kernelhandle')
  BY DEF Return, AfterVolume, SearchInv
<1>5. stage' \notin Opened
  BY DEF Opened, Copied, Filling
<1> QED
  BY <1>1, <1>3, <1>4, <1>5 DEF SearchInv, FramesOK, IsKernel

\* Every step of the search keeps SearchInv, and leads to the screen at most.
LEMMA FindSteps ==
    ASSUME SearchInv, FindNext
    PROVE  SearchInv' /\ stage' \in {"search", "halted", "wild", "screen"}
<1>0. /\ stage = "search" /\ {"search", "halted", "wild", "screen"} \cap Opened = {}
  BY DEF FindNext, OpenVolume, SkipDots, SkipFile, EnterDirectory, FoundFile, EndOfDirectory, OpenRefused,
         ProtocolRefused, VolumeRefused, BetweenVolumes, SearchOver, Searching, Opened, Copied, Filling
<1>1. CASE OpenVolume
  <2>1. /\ vol' = vol + 1 /\ vol < Len(disk) /\ frames = <<>>
        /\ frames' = <<Frame(<<vol'>>, disk[vol'])>>
        /\ out' = NoFile /\ UNCHANGED <<stage, disk, kernelhandle, infos>>
    BY <1>1 DEF OpenVolume, BetweenVolumes
  <2>2. disk \in Seq(Directories) /\ Len(disk) \in Nat /\ vol \in 0 .. Len(disk)
    BY DisksAssumption DEF SearchInv
  <2>3. vol' \in 1 .. Len(disk) /\ disk[vol'] \in Directories /\ <<vol'>> \in Seq(Nat)
    BY <2>1, <2>2
  <2>4. FramesOK(<<>>)
    BY DEF FramesOK
  <2>5. Append(<<>>, Frame(<<vol'>>, disk[vol'])) = frames'
    BY <2>1
  <2>6. FramesOK(frames') /\ Len(frames') = 1
    <3>1. ASSUME NEW path \in Seq(Nat), NEW d \in Directories
          PROVE  /\ FramesOK(Append(<<>>, Frame(path, d)))
                 /\ Len(Append(<<>>, Frame(path, d))) = Len(<<>>) + 1
      BY <2>4, PushOK
    <3>2. FramesOK(frames') /\ Len(frames') = Len(<<>>) + 1
      BY <3>1, <2>3, <2>5
    <3> QED
      BY <3>2
  <2>7. IsKernel(out') /\ Len(frames') - 1 <= infos'
    BY <2>1, <2>6 DEF IsKernel, SearchInv
  <2>8. vol' \in 0 .. Len(disk)
    BY <2>2, <2>3
  <2> QED
    BY <1>0, <2>1, <2>6, <2>7, <2>8 DEF SearchInv, FramesOK, IsKernel
<1>2. CASE SkipDots
  <2>1. /\ frames # <<>> /\ ~AtEnd /\ frames' = Advanced /\ infos' = infos + 1
        /\ UNCHANGED <<stage, disk, vol, out, kernelhandle>>
    BY <1>2 DEF SkipDots, Searching
  <2>2. FramesOK(frames') /\ Len(frames') = Len(frames) /\ Len(frames) \in Nat
    BY <2>1, AdvancedOK, ReadingOne
  <2>3. infos' \in Nat /\ Len(frames') - 1 <= infos'
    BY <2>1, <2>2 DEF SearchInv
  <2> QED
    BY <1>0, <2>1, <2>2, <2>3 DEF SearchInv, FramesOK, IsKernel
<1>3. CASE SkipFile
  <2>1. /\ frames # <<>> /\ ~AtEnd /\ frames' = Advanced
        /\ UNCHANGED <<stage, disk, vol, out, kernelhandle, infos>>
    BY <1>3 DEF SkipFile, Searching
  <2>2. FramesOK(frames') /\ Len(frames') = Len(frames)
    BY <2>1, AdvancedOK
  <2> QED
    BY <1>0, <2>1, <2>2 DEF SearchInv, FramesOK, IsKernel
<1>4. CASE EnterDirectory
  <2>1. /\ frames # <<>> /\ ~AtEnd /\ ~IsFile
        /\ frames' = Append(Advanced, Frame(EntryPath, Entry.entries))
        /\ infos' = infos + 1
        /\ UNCHANGED <<stage, disk, vol, out, kernelhandle>>
    BY <1>4 DEF EnterDirectory, Searching
  <2>2. FramesOK(Advanced) /\ Len(Advanced) = Len(frames) /\ Len(frames) \in Nat
    BY <2>1, AdvancedOK, ReadingOne
  <2>3. EntryPath \in Seq(Nat)
    BY <2>1, ReadingOne DEF EntryPath
  <2>4. Entry.entries \in Directories
    BY <2>1, ReadingOne, DisksAssumption DEF Entry, IsFile
  <2>5. FramesOK(frames') /\ Len(frames') = Len(frames) + 1
    BY <2>1, <2>2, <2>3, <2>4, PushOK
  <2>6. infos' \in Nat /\ Len(frames') - 1 <= infos'
    BY <2>1, <2>2, <2>5 DEF SearchInv
  <2> QED
    BY <1>0, <2>1, <2>5, <2>6 DEF SearchInv, FramesOK, IsKernel
<1>5. CASE FoundFile
  <2> DEFINE found == [path |-> EntryPath, image |-> Entry.image]
  <2>1. /\ frames # <<>> /\ ~AtEnd /\ IsFile /\ Entry.name = Name
        /\ Return(found, handles \cup {FileHandle(EntryPath)}) /\ UNCHANGED <<stage, disk, vol>>
    BY <1>5 DEF FoundFile, Searching
  <2>2. IsKernel(found)
    <3>1. Entry.image \in DOMAIN Images
      BY <2>1, ReadingOne, ImagesAssumption DEF Entry, IsFile
    <3> QED
      BY <3>1 DEF IsKernel
  <2> HIDE DEF found
  <2>3. SearchInv'
    BY <1>0, <2>1, <2>2, ReturnOK
  <2> QED
    BY <1>0, <2>1, <2>3
<1>6. CASE EndOfDirectory
  <2>1. frames # <<>> /\ Return(out, handles) /\ UNCHANGED <<stage, disk, vol>> /\ IsKernel(out)
    BY <1>6 DEF EndOfDirectory, Searching, SearchInv
  <2>2. SearchInv'
    BY <1>0, <2>1, ReturnOK
  <2> QED
    BY <1>0, <2>1, <2>2
<1>7. CASE OpenRefused \/ ProtocolRefused \/ VolumeRefused
  BY <1>0, <1>7 DEF OpenRefused, ProtocolRefused, VolumeRefused, findVars, SearchInv, IsKernel
<1>8. CASE SearchOver
  BY <1>0, <1>8 DEF SearchOver, findVars, SearchInv, IsKernel
<1> QED
  BY <1>1, <1>2, <1>3, <1>4, <1>5, <1>6, <1>7, <1>8 DEF FindNext

\* Later steps leave the search alone.
LEMMA SearchKept ==
    ASSUME SearchInv, UNCHANGED findVars,
           stage' \in Opened => stage \in Opened \/ kernelhandle # NoFile
    PROVE  SearchInv'
BY DEF SearchInv, findVars, IsKernel

-----------------------------------------------------------------------------
(* The screen, the processors and the loading.                             *)

Early == {"search", "screen", "acpi", "header", "sections", "symbols", "allocate", "segments",
          "map", "halted", "wild"}

\* Before the map is copied, and after a stop, there is nothing to say of the copy.
LEMMA EarlyInv ==
    ASSUME LoaderInv, stage' \in Early, SearchInv', MemoryInv', UNCHANGED <<key, events>>
    PROVE  LoaderInv'
<1>1. /\ stage' \notin Copied /\ stage' \notin Filling /\ stage' \in Stages
      /\ stage' # "finalize" /\ stage' # "jumped"
  BY DEF Early, Copied, Filling, Stages, Opened
<1>2. CopyInv' /\ StackInv'
  BY <1>1 DEF CopyInv, StackInv, LoaderInv
<1>3. MapHandedOver' /\ ~Jumped'
  BY <1>1 DEF MapHandedOver, MapIsExact, FinalMapFits, OnlyLastUnread, Jumped
<1> QED
  BY <1>1, <1>2, <1>3 DEF LoaderInv

\* The screen and the processors: nothing of the memory or the map is touched.
LEMMA PlatformSteps ==
    ASSUME LoaderInv, PlatformNext, UNCHANGED <<loadVars, exitVars>>
    PROVE  LoaderInv'
<1>1. /\ stage \in {"screen", "acpi"} /\ stage' \in {"halted", "acpi", "header", "wild"}
      /\ UNCHANGED findVars /\ (cores' = cores \/ cores' \in CoreCounts)
  BY DEF PlatformNext, initialize_screenbuffer, NoGraphics, get_core_count,
         NoMultiprocessorServices, platformVars
<1>2. stage' \in Early /\ stage' \notin Opened /\ stage' \notin {"segments", "map"}
  BY <1>1 DEF Early, Opened, Copied, Filling
<1>3. SearchInv'
  BY <1>1, <1>2, SearchKept DEF LoaderInv
<1>4. MemoryInv'
  BY <1>1, <1>2, PlatformAssumption DEF MemoryInv, LoaderInv, loadVars, Ordered
<1> QED
  BY <1>2, <1>3, <1>4, EarlyInv DEF exitVars

\* The pages of the kernel's block are a number.
LEMMA PagesCounted ==
    ASSUME SearchInv, MemoryInv, kernelhandle # NoFile
    PROVE  PagesFor(TotalSize(Image)) \in Nat /\ Image.start \in Nat
<1>1. kernelhandle.image \in DOMAIN Images
  BY DEF SearchInv, IsKernel
<1>2. SegmentBytes(Image) \in Nat /\ Image.start \in Nat
  BY <1>1, ImagesAssumption, FS_CardinalityType DEF Image, SegmentBytes
<1>3. cores \in Nat /\ {StackBytes, TssBytes, GdtEntryBytes, HeaderBytes} \subseteq Nat
  BY LoadAssumption DEF MemoryInv
<1>4. StacksSize \in Nat /\ TssSize \in Nat /\ GdtSize \in Nat
  BY <1>3 DEF StacksSize, TssSize, GdtSize
<1>5. TotalSize(Image) \in Nat
  BY <1>2, <1>3, <1>4 DEF TotalSize
<1>6. ASSUME NEW b \in Nat PROVE PagesFor(b) \in Nat
  <2>1. PageBytes \in Nat /\ PageBytes > 0
    BY LoadAssumption
  <2>2. b \div PageBytes \in Nat
    BY <2>1
  <2> QED
    BY <2>2 DEF PagesFor, AsStatus
<1> QED
  BY <1>2, <1>5, <1>6

\* A step that only moves on.
LEMMA GotoInv ==
    ASSUME LoaderInv, NEW s \in Early \ {"segments", "map"}, Goto(s), UNCHANGED <<key, events>>,
           s \in Opened => stage \in Opened \/ kernelhandle # NoFile
    PROVE  LoaderInv'
<1>1. stage' = s /\ UNCHANGED <<findVars, platformVars, loadVars>>
  BY DEF Goto
<1>2. SearchInv'
  BY <1>1, SearchKept DEF LoaderInv
<1>3. MemoryInv'
  BY <1>1 DEF MemoryInv, LoaderInv, loadVars, platformVars, Ordered
<1> QED
  BY <1>1, <1>2, <1>3, EarlyInv

\* The loading of the kernel: the block it takes leaves the firmware's memory in order
\* and in it, and nothing is copied yet.
LEMMA LoadSteps ==
    ASSUME LoaderInv, LoadNext, UNCHANGED exitVars
    PROVE  LoaderInv'
<1>0. /\ UNCHANGED <<key, events>> /\ SearchInv /\ MemoryInv
      /\ {"sections", "symbols", "allocate", "segments", "map"} \subseteq Opened
      /\ {"header", "halted", "wild"} \cap Opened = {}
      /\ {"halted", "wild", "header", "sections", "symbols", "allocate"} \subseteq Early \ {"segments", "map"}
      /\ {"segments", "map"} \subseteq Early
  BY DEF exitVars, LoaderInv, Opened, Copied, Filling, Early
<1>1. CASE ReadHeader
  <2>1. \E s \in {"wild", "halted", "sections"} : Goto(s) /\ (s = "sections" => kernelhandle # NoFile)
    BY <1>1 DEF ReadHeader
  <2> QED
    BY <2>1, <1>0, GotoInv
<1>2. CASE FindSections
  <2>1. stage = "sections" /\ \E s \in {"wild", "halted", "symbols"} : Goto(s)
    BY <1>2 DEF FindSections
  <2> QED
    BY <2>1, <1>0, GotoInv
<1>3. CASE FindStart
  <2>1. stage = "symbols" /\ \E s \in {"halted", "allocate"} : Goto(s)
    BY <1>3 DEF FindStart
  <2> QED
    BY <2>1, <1>0, GotoInv
<1>4. CASE AllocateFails
  <2>1. stage = "allocate" /\ \E s \in {"halted", "wild"} : Goto(s)
    BY <1>4 DEF AllocateFails
  <2> QED
    BY <2>1, <1>0, GotoInv
<1>5. CASE NothingToLoad
  <2>1. Goto("wild")
    BY <1>5 DEF NothingToLoad
  <2> QED
    BY <2>1, <1>0, GotoInv
<1>6. CASE AllocateKernel
  <2> DEFINE n == PagesFor(TotalSize(Image))
  <2>1. PICK i \in Free(memory, n) :
            /\ memory' = Take(memory, i, "kernel", n)
            /\ block' = [phys |-> memory[i].phys + memory[i].pages - n, pages |-> n]
    BY <1>6 DEF AllocateKernel, allocatePages
  <2>2. stage = "allocate" /\ stage' = "segments" /\ UNCHANGED <<findVars, platformVars>>
    BY <1>6 DEF AllocateKernel
  <2>3. n \in Nat
    BY <2>2, <1>0, PagesCounted DEF SearchInv
  <2> HIDE DEF n
  <2>4. /\ memory' \in Seq(Descriptor) /\ Ordered(memory')
        /\ \E k \in 1 .. Len(memory') : memory'[k].type = "kernel"
        /\ memory[i].phys + memory[i].pages - n \in Nat
    <3>1. memory \in Seq(Descriptor) /\ Ordered(memory) /\ "kernel" \in Types
      BY <1>0 DEF MemoryInv, Types
    <3> QED
      BY <3>1, <2>1, <2>3, TakeSound
  <2>5. block'.phys \in Nat /\ cores' \in Nat
    BY <2>1, <2>2, <2>4, <1>0 DEF MemoryInv, platformVars
  <2>6. MemoryInv'
    BY <2>4, <2>5 DEF MemoryInv, Ordered
  <2>7. SearchInv'
    BY <2>2, <1>0, SearchKept
  <2> QED
    BY <2>2, <2>6, <2>7, <1>0, EarlyInv
<1>7. CASE SkipSegment \/ LoadSegment \/ LayOut
  <2>1. /\ stage = "segments" /\ stage' \in {"segments", "halted", "map"}
        /\ UNCHANGED <<findVars, platformVars, memory, block>>
    BY <1>7 DEF SkipSegment, LoadSegment, LayOut
  <2>2. MemoryInv'
    BY <2>1, <1>0 DEF MemoryInv, platformVars, Ordered
  <2>3. SearchInv'
    BY <2>1, <1>0, SearchKept
  <2> QED
    BY <2>1, <2>2, <2>3, <1>0, EarlyInv
<1> QED
  BY <1>1, <1>2, <1>3, <1>4, <1>5, <1>6, <1>7 DEF LoadNext

-----------------------------------------------------------------------------
(* The way out.                                                            *)

\* Addresses of the kernel's space are numbers.
LEMMA OffsetNat ==
    ASSUME SearchInv, MemoryInv, kernelhandle # NoFile, NEW p \in Nat
    PROVE  AtOffset(p) \in Nat
<1>1. Space \in Nat /\ Space > 0
  <2>1. Width \in Nat /\ Width > 0
    BY ExitAssumption
  <2>2. ASSUME NEW a \in Nat, NEW b \in Nat, a > 0, b > 0 PROVE a * b \in Nat /\ a * b > 0
    BY <2>2
  <2>3. Width * Width \in Nat /\ Width * Width > 0
    BY <2>1, <2>2
  <2>4. Width * Width * Width \in Nat /\ Width * Width * Width > 0
    BY <2>1, <2>2, <2>3
  <2> QED
    BY <2>1, <2>2, <2>4 DEF Space
<1>2. p + virtualoffset \in Int
  BY PagesCounted DEF virtualoffset, MemoryInv
<1>3. ASSUME NEW a \in Int, NEW b \in Nat, b > 0 PROVE a % b \in Nat
  BY <1>3
<1> QED
  BY <1>1, <1>2, <1>3 DEF AtOffset

\* Two maps that agree descriptor by descriptor are in order together.
LEMMA SameOrder ==
    ASSUME NEW e, NEW m, Ordered(m), Len(e) = Len(m),
           \A i \in 1 .. Len(m) : SameRegion(e[i], m[i])
    PROVE  Ordered(e)
BY DEF Ordered, SameRegion

\* fixVirtualAddresses changes nothing but the virtual addresses.
LEMMA FixedSame ==
    ASSUME SearchInv, MemoryInv, kernelhandle # NoFile, NEW e \in Seq(KernelDescriptor)
    PROVE  /\ fixVirtualAddresses(e) \in Seq(KernelDescriptor)
           /\ Len(fixVirtualAddresses(e)) = Len(e)
           /\ \A i \in 1 .. Len(e) : SameRegion(fixVirtualAddresses(e)[i], e[i])
<1> DEFINE V(d) == IF d.type \in Runtime THEN d.phys ELSE AtOffset(d.phys)
           f == [i \in 1 .. Len(e) |-> [e[i] EXCEPT !.virt = V(e[i])]]
<1>1. fixVirtualAddresses(e) = f
  BY DEF fixVirtualAddresses
<1>2. ASSUME NEW d \in KernelDescriptor PROVE V(d) \in Nat
  <2>1. d.phys \in Nat
    BY DEF KernelDescriptor
  <2> QED
    BY <2>1, OffsetNat
<1>3. ASSUME NEW d \in KernelDescriptor, NEW v \in Nat
      PROVE  [d EXCEPT !.virt = v] \in KernelDescriptor /\ SameRegion([d EXCEPT !.virt = v], d)
  BY DEF KernelDescriptor, SameRegion
<1> HIDE DEF V
<1>4. Len(e) \in Nat /\ \A i \in 1 .. Len(e) : e[i] \in KernelDescriptor
  OBVIOUS
<1>5. \A i \in 1 .. Len(e) : f[i] \in KernelDescriptor /\ SameRegion(f[i], e[i])
  BY <1>2, <1>3, <1>4
<1>6. f \in Seq(KernelDescriptor) /\ Len(f) = Len(e)
  BY <1>4, <1>5
<1> QED
  BY <1>1, <1>5, <1>6

\* Before the jump there is no map handed over.
LEMMA NotJumped ==
    ASSUME stage' # "jumped"
    PROVE  MapHandedOver' /\ ~Jumped'
BY DEF MapHandedOver, MapIsExact, FinalMapFits, OnlyLastUnread, Jumped

\* The first copy of the map.
LEMMA MapCopied ==
    ASSUME LoaderInv, initializeKernelMemoryMap
    PROVE  LoaderInv'
<1>1. PICK i \in Free(memory, 1) :
          /\ memory' = Take(memory, i, "memory map", 1)
          /\ IF Len(memory') > RoomFor(Len(memory))
             THEN stage' = "halted" /\ UNCHANGED <<map, key>>
             ELSE /\ stage' = "prepare"
                  /\ map' = [entries |-> [j \in 1 .. Len(memory') |->
                                            [type |-> memory'[j].type, phys |-> memory'[j].phys,
                                             virt |-> 0, pages |-> memory'[j].pages]],
                             used |-> Len(memory') * EntrySize, room |-> RoomFor(Len(memory))]
                  /\ key' = events
  BY DEF initializeKernelMemoryMap
<1>2. stage = "map" /\ UNCHANGED <<findVars, platformVars, block, events>>
  BY DEF initializeKernelMemoryMap, Kept
<1>3. /\ SearchInv /\ MemoryInv /\ CopyInv /\ memory \in Seq(Descriptor) /\ Ordered(memory)
      /\ Len(memory) \in Nat /\ 1 \in Nat /\ "memory map" \in Types
      /\ stage \in Opened
  BY <1>2 DEF LoaderInv, MemoryInv, Types, Opened
<1>4. /\ memory' \in Seq(Descriptor) /\ Ordered(memory')
      /\ Len(memory') \in {Len(memory), Len(memory) + 1}
  BY <1>1, <1>3, TakeSound
\* The region that was free is not the kernel's.
<1>5. Len(memory) >= 2
  <2>1. PICK k \in 1 .. Len(memory) : memory[k].type = "kernel"
    BY <1>2, <1>3 DEF MemoryInv
  <2>2. i \in 1 .. Len(memory) /\ memory[i].type = "conventional"
    BY DEF Free
  <2>3. k # i
    BY <2>1, <2>2
  <2>4. ASSUME NEW n \in Nat, NEW x \in 1 .. n, NEW y \in 1 .. n, x # y PROVE n >= 2
    BY <2>4
  <2> QED
    BY <2>1, <2>2, <2>3, <2>4, <1>3, Zenon
<1>6. SearchInv'
  BY <1>2, <1>3, SearchKept
<1>7. MemoryInv'
  <2>1. stage' \notin {"segments", "map"}
    BY <1>1
  <2> QED
    BY <2>1, <1>2, <1>3, <1>4 DEF MemoryInv, platformVars, Ordered
<1>8. CASE stage' = "halted"
  <2>1. UNCHANGED <<key, events>> /\ stage' \in Early
    BY <1>1, <1>2, <1>8 DEF Early
  <2> QED
    BY <2>1, <1>6, <1>7, EarlyInv
<1>9. CASE stage' = "prepare"
  <2> DEFINE m == memory'
             e == [j \in 1 .. Len(m) |-> [type |-> m[j].type, phys |-> m[j].phys, virt |-> 0,
                                          pages |-> m[j].pages]]
  <2>1. /\ map' = [entries |-> e, used |-> Len(m) * EntrySize, room |-> RoomFor(Len(memory))]
        /\ map'.entries = e /\ map'.room = 2 * Len(memory) /\ key' = events
        /\ map'.used = Len(m) * EntrySize
    <3>1. /\ map' = [entries |-> e, used |-> Len(m) * EntrySize, room |-> RoomFor(Len(memory))]
          /\ key' = events
      <4>1. ~(Len(m) > RoomFor(Len(memory)))
        BY <1>1, <1>9
      <4> QED
        BY <4>1, <1>1, Zenon
    <3> HIDE DEF e
    <3> QED
      BY <3>1 DEF RoomFor
  <2>2. Len(m) \in Nat /\ \A j \in 1 .. Len(m) : m[j] \in Descriptor
    BY <1>4
  <2> HIDE DEF m
  <2>3. \A j \in 1 .. Len(m) : /\ e[j] \in KernelDescriptor /\ SameRegion(e[j], m[j])
                               /\ e[j].pages # 0
    BY <2>2 DEF Descriptor, KernelDescriptor, SameRegion
  <2>4. e \in Seq(KernelDescriptor) /\ Len(e) = Len(m)
    BY <2>2, <2>3
  <2> HIDE DEF e
  <2>5. Ordered(e)
    BY <1>4, <2>3, <2>4, SameOrder DEF m
  <2>6. Len(e) \in 1 .. map'.room - 1 /\ map'.room \in Nat
    <3>1. map'.room = 2 * Len(memory) /\ Len(e) = Len(memory')
      BY <2>1, <2>4 DEF m
    <3>2. CASE Len(memory') = Len(memory)
      <4>1. ASSUME NEW n \in Nat, n >= 2 PROVE n \in 1 .. 2 * n - 1 /\ 2 * n \in Nat
        BY <4>1
      <4> QED
        BY <4>1, <3>1, <3>2, <1>3, <1>5, Zenon
    <3>3. CASE Len(memory') = Len(memory) + 1
      <4>1. ASSUME NEW n \in Nat, n >= 2 PROVE n + 1 \in 1 .. 2 * n - 1 /\ 2 * n \in Nat
        BY <4>1
      <4> QED
        BY <4>1, <3>1, <3>3, <1>3, <1>5, Zenon
    <3> QED
      BY <3>2, <3>3, <1>4, Zenon
  <2>7. CopyInv'
    <3>1. key' \in Nat /\ events' \in Nat /\ key' <= events' /\ stage' # "finalize"
      <4>1. key \in Nat /\ events \in Nat
        BY <1>3 DEF CopyInv
      <4>2. key' = events /\ events' = events
        BY <1>2, <2>1, Zenon
      <4> QED
        BY <4>1, <4>2, <1>9
    <3>2. /\ map'.entries \in Seq(KernelDescriptor) /\ Ordered(map'.entries)
          /\ \A j \in 1 .. Len(map'.entries) : map'.entries[j].pages # 0
          /\ Len(map'.entries) \in 1 .. map'.room - 1
          /\ map'.used = Len(map'.entries) * EntrySize
      BY <2>1, <2>3, <2>4, <2>5, <2>6
    <3>4. map' \in [entries : Seq(KernelDescriptor), used : Nat, room : Nat]
      <4>1. RoomFor(Len(memory)) \in Nat
        BY <2>1, <2>6
      <4>2. ASSUME NEW a \in Nat, NEW b \in Nat PROVE a * b \in Nat
        OBVIOUS
      <4>3. Len(m) * EntrySize \in Nat
        BY <4>2, <2>2, ExitAssumption
      <4> QED
        BY <4>1, <4>3, <2>1, <2>4
    <3>3. /\ Len(map'.entries) = Len(memory')
          /\ \A j \in 1 .. Len(memory') : SameRegion(map'.entries[j], memory'[j])
      BY <2>1, <2>3, <2>4 DEF m
    <3> QED
      BY <3>1, <3>2, <3>3, <3>4 DEF CopyInv, SameRegion, Ordered
  <2>8. StackInv' /\ stage' \in Stages
    BY <1>9 DEF StackInv, Filling, Stages, Opened, Copied
  <2> QED
    BY <2>7, <2>8, <1>6, <1>7, <1>9, NotJumped DEF LoaderInv
<1> QED
  BY <1>1, <1>8, <1>9

\* The tables are begun in the biggest region.
LEMMA TablesPrepared ==
    ASSUME LoaderInv, PrepareTables
    PROVE  LoaderInv'
<1> DEFINE e == map.entries
           fixed == fixVirtualAddresses(e)
           z == findBiggestUsableMemoryRegion(e)
           start == [tab |-> pt.tab, pml4 |-> pt.pml4, addr |-> fixed[z].phys, left |-> fixed[z].pages]
           w == Walking(start)
           x == allocatePageAndZero(w)
<1>1. /\ stage = "prepare" /\ stage' = "mapping"
      /\ map' = [map EXCEPT !.entries = fixed] /\ zone' = z
      /\ pt' = Walked([x EXCEPT !.pml4 = x.table])
      /\ UNCHANGED <<findVars, platformVars, block, memory, key, events>>
  BY DEF PrepareTables, Kept
<1>2. /\ stage \in Copied /\ stage \in Opened /\ stage' \in Stages /\ stage' \in Copied
      /\ stage' \notin {"segments", "map"}
  BY <1>1 DEF Copied, Opened, Filling, Stages
<1>3. /\ SearchInv /\ MemoryInv /\ kernelhandle # NoFile
      /\ key \in Nat /\ events \in Nat /\ key <= events
      /\ e \in Seq(KernelDescriptor) /\ Ordered(e)
      /\ \A i \in 1 .. Len(e) : e[i].pages # 0
      /\ map \in [entries : Seq(KernelDescriptor), used : Nat, room : Nat]
      /\ Len(e) \in 1 .. map.room - 1 /\ map.used = Len(e) * EntrySize
      /\ key = events => /\ Len(e) = Len(memory)
                         /\ \A i \in 1 .. Len(memory) : SameRegion(e[i], memory[i])
  BY <1>2 DEF LoaderInv, CopyInv, SearchInv
<1>4. /\ fixed \in Seq(KernelDescriptor) /\ Len(fixed) = Len(e)
      /\ \A i \in 1 .. Len(e) : SameRegion(fixed[i], e[i])
  BY <1>3, FixedSame
<1>5. z \in 1 .. Len(e)
  BY <1>3, BiggestExists
<1> HIDE DEF fixed, z
<1>6. /\ map' \in [entries : Seq(KernelDescriptor), used : Nat, room : Nat]
      /\ map'.entries = fixed /\ map'.room = map.room /\ map'.used = map.used
  BY <1>1, <1>3, <1>4
<1>7. Ordered(fixed)
  BY <1>3, <1>4, SameOrder
<1>8. start.addr \in Nat /\ start.left \in Nat \ {0}
  <2>1. fixed[z] \in KernelDescriptor /\ SameRegion(fixed[z], e[z]) /\ e[z].pages # 0
    BY <1>3, <1>4, <1>5
  <2> QED
    BY <2>1 DEF KernelDescriptor, SameRegion
<1>9. IsWalk(w) /\ HasPages(w) /\ w.addr = fixed[z].phys /\ w.left = fixed[z].pages
  BY <1>8 DEF Walking, IsWalk, HasPages
<1> HIDE DEF w
<1>10. IsWalk(x) /\ Took(w, x)
  BY <1>9, AllocateTakes
<1> HIDE DEF x
<1>11. pt'.addr = x.addr /\ pt'.left = x.left
  BY <1>1, <1>10 DEF Walked, IsWalk
<1>12. StackInv'
  <2>1. zone' \in 1 .. Len(map'.entries) /\ map'.entries[zone'] = fixed[z]
    BY <1>1, <1>4, <1>5, <1>6
  <2>2. /\ pt'.addr \in Nat /\ pt'.left \in Nat \ {0}
        /\ fixed[z].phys <= pt'.addr /\ pt'.addr + pt'.left = fixed[z].phys + fixed[z].pages
    BY <1>9, <1>10, <1>11 DEF Took, HasPages
  <2> QED
    BY <2>1, <2>2 DEF StackInv
<1>13. CopyInv'
  <2>1. \A i \in 1 .. Len(fixed) : fixed[i].pages # 0
    BY <1>3, <1>4 DEF SameRegion
  <2>2. key = events => /\ Len(fixed) = Len(memory)
                        /\ \A i \in 1 .. Len(memory) : SameRegion(fixed[i], memory[i])
    BY <1>3, <1>4 DEF SameRegion
  <2>3. key' = key /\ events' = events /\ memory' = memory /\ stage' # "finalize"
    BY <1>1
  <2> QED
    BY <1>3, <1>4, <1>6, <1>7, <2>1, <2>2, <2>3 DEF CopyInv, SameRegion, Ordered
<1>14. MemoryInv'
  BY <1>1, <1>2, <1>3 DEF MemoryInv, platformVars, Ordered
<1>15. SearchInv'
  BY <1>1, <1>2, <1>3, SearchKept
<1> QED
  BY <1>1, <1>2, <1>12, <1>13, <1>14, <1>15, NotJumped DEF LoaderInv

\* While the tables are filled, pages are taken from the stack and nothing else changes.
LEMMA FillInv ==
    ASSUME LoaderInv, stage \in Filling, stage' \in Filling,
           UNCHANGED <<findVars, platformVars, block, memory, map, zone, key, events>>,
           pt' = pt \/ Took(pt, pt'),
           stage' = "finalize" => key = events
    PROVE  LoaderInv'
<1>1. /\ stage \in Copied /\ stage' \in Copied /\ stage \in Opened
      /\ stage' \in Stages /\ stage' # "jumped" /\ stage' \notin {"segments", "map"}
  BY DEF Filling, Copied, Opened, Stages
<1>2. SearchInv' /\ MemoryInv'
  BY <1>1, SearchKept DEF LoaderInv, MemoryInv, platformVars, Ordered
<1>3. CopyInv'
  BY <1>1 DEF LoaderInv, CopyInv, SameRegion, Ordered
<1>4. StackInv'
  <2>1. /\ zone \in 1 .. Len(map.entries)
        /\ pt.addr \in Nat /\ pt.left \in Nat \ {0}
        /\ map.entries[zone].phys <= pt.addr
        /\ pt.addr + pt.left = map.entries[zone].phys + map.entries[zone].pages
    BY DEF LoaderInv, StackInv
  <2>2. map.entries[zone].phys \in Nat /\ map.entries[zone].pages \in Nat
    <3>1. map.entries[zone] \in KernelDescriptor
      BY <1>1, <2>1 DEF LoaderInv, CopyInv
    <3> QED
      BY <3>1 DEF KernelDescriptor
  <2>3. /\ pt'.addr \in Nat /\ pt'.left \in Nat \ {0}
        /\ map.entries[zone].phys <= pt'.addr
        /\ pt'.addr + pt'.left = map.entries[zone].phys + map.entries[zone].pages
    BY <2>1, <2>2 DEF Took, HasPages
  <2> QED
    BY <2>1, <2>3 DEF StackInv
<1> QED
  BY <1>1, <1>2, <1>3, <1>4, NotJumped DEF LoaderInv

\* The firmware allocates while the copy is in use: the copy's key is stale from then on.
LEMMA FirmwareInv ==
    ASSUME LoaderInv, FirmwareAllocates
    PROVE  LoaderInv'
<1>1. PICK i \in Free(memory, 1) : memory' = Take(memory, i, "boot data", 1)
  BY DEF FirmwareAllocates
<1>2. /\ stage' = stage /\ stage \in {"prepare", "mapping", "framebuffer", "exit"}
      /\ events' = events + 1
      /\ UNCHANGED <<findVars, platformVars, block, map, zone, pt, key>>
  BY DEF FirmwareAllocates, Kept, BootServices
<1>3. /\ SearchInv /\ MemoryInv /\ memory \in Seq(Descriptor) /\ Ordered(memory)
      /\ 1 \in Nat /\ "boot data" \in Types /\ key \in Nat /\ events \in Nat /\ key <= events
  BY DEF LoaderInv, MemoryInv, CopyInv, Types
<1>4. memory' \in Seq(Descriptor) /\ Ordered(memory')
  BY <1>1, <1>3, TakeSound
<1>5. MemoryInv'
  BY <1>2, <1>3, <1>4 DEF MemoryInv, platformVars, Ordered
<1>6. SearchInv'
  BY <1>2, <1>3, SearchKept
<1>7. key' # events' /\ key' \in Nat /\ events' \in Nat /\ key' <= events'
  <2>1. events' = events + 1 /\ key' = key
    BY <1>2, Zenon
  <2>2. ASSUME NEW a \in Nat, NEW b \in Nat, a <= b
        PROVE  a # b + 1 /\ a \in Nat /\ b + 1 \in Nat /\ a <= b + 1
    BY <2>2
  <2> QED
    BY <2>1, <2>2, <1>3, Zenon
<1>8. CopyInv'
  BY <1>2, <1>7 DEF LoaderInv, CopyInv, Ordered
<1>9. StackInv'
  BY <1>2 DEF LoaderInv, StackInv
<1> QED
  BY <1>2, <1>5, <1>6, <1>8, <1>9, NotJumped DEF LoaderInv

\* A byte more is not a descriptor more.
LEMMA OneByteMore ==
    ASSUME NEW n \in Nat, NEW size \in Nat, size > 1
    PROVE  (n * size + 1) \div size = n
<1> DEFINE a == n * size + 1
           q == a \div size
<1>1. a \in Nat /\ n * size \in Nat
  OBVIOUS
<1>2. q \in Nat /\ q * size <= a /\ a < q * size + size
  <2>1. ASSUME NEW x \in Nat, NEW y \in Nat, y > 0
        PROVE  x \div y \in Nat /\ (x \div y) * y <= x /\ x < (x \div y) * y + y
    BY <2>1
  <2> HIDE DEF a
  <2> QED
    BY <1>1, <2>1
<1> HIDE DEF q
<1>3. ASSUME NEW x \in Nat, NEW y \in Nat, x < y PROVE x * size + size <= y * size
  <2>1. PICK k \in Nat : y = x + 1 + k
    <3>1. y - x - 1 \in Nat /\ y = x + 1 + (y - x - 1)
      BY <1>3
    <3> QED
      BY <3>1
  <2>2. (x + 1 + k) * size = x * size + size + k * size /\ k * size \in Nat /\ x * size \in Nat
    OBVIOUS
  <2> QED
    BY <2>1, <2>2
<1>4. q * size \in Nat
  BY <1>2
<1>5. ~(q < n)
  <2>1. SUFFICES ASSUME q < n PROVE FALSE
    OBVIOUS
  <2>2. q * size + size <= n * size
    BY <2>1, <1>2, <1>3
  <2> QED
    BY <2>2, <1>1, <1>2, <1>4
<1>6. ~(n < q)
  <2>1. SUFFICES ASSUME n < q PROVE FALSE
    OBVIOUS
  <2>2. n * size + size <= q * size
    BY <2>1, <1>2, <1>3
  <2> QED
    BY <2>2, <1>1, <1>2, <1>4
<1> QED
  BY <1>2, <1>5, <1>6 DEF q

\* The copy with its biggest region in two is what the kernel gets.
LEMMA MapFinalized ==
    ASSUME LoaderInv, finalizeMemoryMap
    PROVE  LoaderInv'
<1> DEFINE e == map.entries
           d == e[zone]
           u == d.pages - pt.left
           mid == Split(d)
           r == Spliced(e, zone, mid)
<1>1. /\ stage = "finalize" /\ stage' = "jumped"
      /\ map'.entries = r /\ map'.room = map.room /\ map'.used = map.used + 1
      /\ UNCHANGED <<findVars, platformVars, block, memory, zone, pt, key, events>>
  <2>1. map' = [map EXCEPT !.entries = r, !.used = @ + 1]
    BY DEF finalizeMemoryMap
  <2>0. map \in [entries : Seq(KernelDescriptor), used : Nat, room : Nat]
    BY DEF LoaderInv, CopyInv, finalizeMemoryMap, Copied, Filling
  <2> HIDE DEF r
  <2>2. map'.entries = r /\ map'.room = map.room /\ map'.used = map.used + 1
    BY <2>0, <2>1
  <2> QED
    BY <2>2 DEF finalizeMemoryMap, Kept
<1>2. /\ stage \in Copied /\ stage \in Filling /\ stage \in Opened /\ stage' \in Stages
      /\ stage' \notin Copied /\ stage' \notin Filling /\ stage' \notin {"segments", "map", "finalize"}
  BY <1>1 DEF Copied, Filling, Opened, Stages
<1>3. /\ SearchInv /\ MemoryInv /\ kernelhandle # NoFile
      /\ e \in Seq(KernelDescriptor) /\ Ordered(e)
      /\ Len(e) \in Nat /\ map.room \in Nat /\ Len(e) <= map.room - 1
      /\ map.used = Len(e) * EntrySize
      /\ Len(e) = Len(memory)
      /\ \A i \in 1 .. Len(memory) : SameRegion(e[i], memory[i])
      /\ key \in Nat /\ events \in Nat /\ key <= events
  BY <1>1, <1>2 DEF LoaderInv, CopyInv, SearchInv
<1>4. /\ zone \in 1 .. Len(e) /\ pt.addr \in Nat /\ pt.left \in Nat \ {0}
      /\ d.phys <= pt.addr /\ pt.addr + pt.left = d.phys + d.pages
  BY <1>2 DEF LoaderInv, StackInv
<1>5. d \in KernelDescriptor
  BY <1>3, <1>4
<1>6. d.phys \in Nat /\ d.pages \in Nat /\ d.virt \in Nat
  BY <1>5 DEF KernelDescriptor
<1>7. u \in Nat /\ d.phys + u = pt.addr /\ u + pt.left = d.pages
  <2> HIDE DEF d, e
  <2> QED
    BY <1>4, <1>6
<1>8. AtOffset(d.phys + u) \in Nat
  BY <1>3, <1>4, <1>7, OffsetNat
<1> DEFINE t == [d EXCEPT !.type = "paging", !.pages = @ - pt.left]
           f == [type |-> "conventional", phys |-> d.phys + u, virt |-> AtOffset(d.phys + u),
                 pages |-> pt.left]
<1>9. mid = <<t, f>>
  BY DEF Split
<1> HIDE DEF d, e, u
<1>10. /\ t \in KernelDescriptor /\ t.type = "paging" /\ t.phys = d.phys /\ t.pages = u
  BY <1>5, <1>7 DEF KernelDescriptor, Types, u
<1>11. /\ f \in KernelDescriptor /\ f.type = "conventional" /\ f.phys = pt.addr /\ f.pages = pt.left
  BY <1>4, <1>7, <1>8 DEF KernelDescriptor, Types
<1> HIDE DEF t, f, mid
<1>12. mid \in Seq(KernelDescriptor) /\ Len(mid) = 2 /\ mid[1] = t /\ mid[2] = f
  BY <1>9, <1>10, <1>11
<1>13. Inside(mid, d) /\ Ordered(mid)
  <2>1. \A k \in 1 .. Len(mid) : k = 1 \/ k = 2
    BY <1>12
  <2>2. /\ d.phys <= t.phys /\ t.phys + t.pages <= d.phys + d.pages
        /\ d.phys <= f.phys /\ f.phys + f.pages <= d.phys + d.pages
        /\ t.phys + t.pages <= f.phys
    BY <1>4, <1>6, <1>7, <1>10, <1>11
  <2> QED
    BY <2>1, <2>2, <1>12 DEF Inside, Ordered
<1>14. HasRuns(KernelDescriptor)
  BY DEF HasRuns, KernelDescriptor
<1>15. r \in Seq(KernelDescriptor) /\ IsSplice(r, e, zone, mid)
  BY <1>3, <1>4, <1>12, SpliceSound
<1>16. Ordered(r)
  BY <1>3, <1>4, <1>12, <1>13, <1>14, SpliceOrdered DEF d
<1> HIDE DEF r
<1>17. /\ Len(r) = Len(e) + 2 - 1
       /\ \A k \in 1 .. zone - 1 : r[k] = e[k]
       /\ \A k \in 1 .. 2 : r[zone - 1 + k] = mid[k]
       /\ \A k \in zone + 1 .. Len(e) : r[k + 2 - 1] = e[k]
  BY <1>12, <1>15 DEF IsSplice
<1>18. /\ Len(r) = Len(memory) + 1 /\ r[zone] = t /\ r[zone + 1] = f
       /\ \A k \in 1 .. zone - 1 : SameRegion(r[k], memory[k])
       /\ \A k \in zone + 1 .. Len(memory) : SameRegion(r[k + 1], memory[k])
  <2>1. Len(e) \in Nat /\ zone \in Nat /\ Len(r) = Len(e) + 1
    BY <1>3, <1>4, <1>17
  <2>2. r[zone - 1 + 1] = t /\ r[zone - 1 + 2] = f /\ zone - 1 + 1 = zone /\ zone - 1 + 2 = zone + 1
    BY <1>12, <1>17, <2>1
  <2>3. ASSUME NEW k \in 1 .. zone - 1 PROVE SameRegion(r[k], memory[k])
    <3>1. k \in 1 .. Len(memory) /\ r[k] = e[k]
      BY <1>3, <1>4, <1>17
    <3> QED
      BY <3>1, <1>3
  <2>4. ASSUME NEW k \in zone + 1 .. Len(memory) PROVE SameRegion(r[k + 1], memory[k])
    <3>1. k \in 1 .. Len(memory) /\ k \in zone + 1 .. Len(e) /\ k + 2 - 1 = k + 1
      BY <1>3, <1>4
    <3>2. r[k + 1] = e[k]
      BY <3>1, <1>17
    <3> QED
      BY <3>1, <3>2, <1>3
  <2> QED
    BY <2>1, <2>2, <2>3, <2>4, <1>3
<1>19. /\ t.phys = memory[zone].phys /\ d.pages = memory[zone].pages
       /\ f.phys + f.pages = memory[zone].phys + memory[zone].pages
       /\ t.phys + t.pages = pt.addr
  <2>1. SameRegion(d, memory[zone])
    BY <1>3, <1>4 DEF d
  <2>2. d.phys = memory[zone].phys /\ d.pages = memory[zone].pages
    BY <2>1 DEF SameRegion
  <2> QED
    BY <2>2, <1>4, <1>6, <1>7, <1>10, <1>11
<1>20. MapIsExact'
  <2>1. /\ map'.entries = r /\ memory' = memory /\ zone' = zone /\ pt' = pt
    BY <1>1
  <2> QED
    BY <2>1, <1>10, <1>11, <1>16, <1>18, <1>19 DEF MapIsExact, SameRegion, Ordered
<1>21. FinalMapFits'
  BY <1>1, <1>3, <1>18 DEF FinalMapFits
<1>25. OnlyLastUnread'
  <2>1. EntrySize \in Nat /\ EntrySize > 1 /\ Len(e) \in Nat
    BY <1>3, ExitAssumption
  <2>2. (Len(e) * EntrySize + 1) \div EntrySize = Len(e)
    BY <2>1, OneByteMore
  <2>3. map'.used = Len(e) * EntrySize + 1 /\ Len(map'.entries) = Len(e) + 1
    BY <1>1, <1>3, <1>18
  <2>4. dscs' = Len(e)
    BY <2>2, <2>3 DEF dscs
  <2> QED
    BY <2>1, <2>3, <2>4 DEF OnlyLastUnread
<1>22. pt'.left \in Nat \ {0} /\ zone' \in 1 .. Len(map'.entries) - 1
  BY <1>1, <1>3, <1>4, <1>18
<1>23. CopyInv' /\ StackInv'
  BY <1>1, <1>2, <1>3 DEF CopyInv, StackInv
<1>24. MemoryInv' /\ SearchInv'
  BY <1>1, <1>2, <1>3, SearchKept DEF MemoryInv, platformVars, Ordered
<1> QED
  BY <1>2, <1>20, <1>21, <1>22, <1>23, <1>24, <1>25 DEF LoaderInv, MapHandedOver

\* The way out: every stage from the copy of the map to the jump.
LEMMA ExitSteps ==
    ASSUME LoaderInv, ExitNext
    PROVE  LoaderInv'
<1>0. /\ SearchInv /\ MemoryInv
      /\ {"mapping", "framebuffer", "exit"} \subseteq Filling /\ "finalize" \in Filling
      /\ "halted" \in Early /\ "halted" \notin Opened /\ "halted" \notin {"segments", "map"}
  BY DEF LoaderInv, Filling, Early, Opened, Copied
<1>1. ASSUME stage' = "halted", UNCHANGED <<findVars, platformVars, block, memory, key, events>>
      PROVE  LoaderInv'
  <2>1. SearchInv' /\ MemoryInv'
    BY <1>0, <1>1, SearchKept DEF MemoryInv, platformVars, Ordered
  <2> QED
    BY <2>1, <1>0, <1>1, EarlyInv
<1>2. ASSUME stage \in Filling PROVE HasPages(pt)
  BY <1>2 DEF LoaderInv, StackInv, HasPages
<1>3. CASE initializeKernelMemoryMap
  BY <1>3, MapCopied
<1>4. CASE NoPool
  BY <1>1, <1>4 DEF NoPool, Kept, exitVars
<1>5. CASE PrepareTables
  BY <1>5, TablesPrepared
<1>6. CASE MapNextPage
  <2>1. /\ stage = "mapping" /\ stage' = stage
        /\ UNCHANGED <<findVars, platformVars, block, memory, map, zone, key, events>>
        /\ \E p, v : mapPages(p, v)
    BY <1>6 DEF MapNextPage, Kept
  <2>2. Took(pt, pt')
    BY <2>1, <1>0, <1>2, MapTakes
  <2> QED
    BY <2>1, <2>2, <1>0, FillInv
<1>7. CASE MapNextDescriptor
  <2>1. /\ stage = "mapping" /\ stage' = stage
        /\ UNCHANGED <<findVars, platformVars, block, memory, map, zone, key, events, pt>>
    BY <1>7 DEF MapNextDescriptor, Kept
  <2> QED
    BY <2>1, <1>0, FillInv
<1>8. CASE MapInstructionPage
  <2>1. /\ stage = "mapping" /\ stage' = "framebuffer"
        /\ UNCHANGED <<findVars, platformVars, block, memory, map, zone, key, events>>
        /\ mapPages(rip, rip)
    BY <1>8 DEF MapInstructionPage, Kept
  <2>2. Took(pt, pt')
    BY <2>1, <1>0, <1>2, MapTakes
  <2> QED
    BY <2>1, <2>2, <1>0, FillInv
<1>9. CASE mapFramebufferToVirtualMemory
  <2>1. /\ stage = "framebuffer" /\ stage' \in {"framebuffer", "exit"}
        /\ UNCHANGED <<findVars, platformVars, block, memory, map, zone, key, events>>
        /\ pt' = pt \/ \E p, v : mapPages(p, v)
    BY <1>9 DEF mapFramebufferToVirtualMemory, Kept
  <2>2. pt' = pt \/ Took(pt, pt')
    BY <2>1, <1>0, <1>2, MapTakes
  <2> QED
    BY <2>1, <2>2, <1>0, FillInv
<1>10. CASE FirmwareAllocates
  BY <1>10, FirmwareInv
<1>11. CASE exitBootServices
  <2>1. /\ stage = "exit" /\ stage' = IF key = events THEN "finalize" ELSE "halted"
        /\ UNCHANGED <<findVars, platformVars, block, memory, map, zone, key, events, pt>>
    BY <1>11 DEF exitBootServices, Kept, exitVars
  <2>2. CASE key = events
    BY <2>1, <2>2, <1>0, FillInv
  <2>3. CASE key # events
    BY <2>1, <2>3, <1>1
  <2> QED
    BY <2>2, <2>3
<1>12. CASE finalizeMemoryMap
  BY <1>12, MapFinalized
<1> QED
  BY <1>3, <1>4, <1>5, <1>6, <1>7, <1>8, <1>9, <1>10, <1>11, <1>12 DEF ExitNext

-----------------------------------------------------------------------------
(* The loader as a whole.                                                  *)

\* The loader starts with nothing found, nothing copied and the firmware's memory in order.
LEMMA InitLoaderInv == Init => LoaderInv
<1> SUFFICES ASSUME Init PROVE LoaderInv
  OBVIOUS
<1>1. /\ stage = "search" /\ stage \notin Opened /\ stage \notin Copied /\ stage \notin Filling
      /\ stage \in Stages
  BY DEF Init, FindInit, Opened, Copied, Filling, Stages
<1>2. SearchInv
  <2>1. /\ disk \in Disks /\ vol = 0 /\ frames = <<>> /\ infos = 0
        /\ out = NoFile /\ kernelhandle = NoFile
    BY DEF Init, FindInit
  <2>2. Len(disk) \in Nat
    BY <2>1, DisksAssumption
  <2> QED
    BY <1>1, <2>1, <2>2 DEF SearchInv, IsKernel
<1>3. MemoryInv
  <2>1. memory \in Machines /\ block = NoBlock /\ cores = 0
    BY DEF Init, LoadInit, PlatformInit
  <2> QED
    BY <1>1, <2>1, MachinesAssumption DEF MemoryInv, NoBlock
<1>4. CopyInv /\ StackInv
  BY <1>1 DEF Init, ExitInit, CopyInv, StackInv
<1> QED
  BY <1>1, <1>2, <1>3, <1>4 DEF LoaderInv, MapHandedOver, MapIsExact, FinalMapFits, OnlyLastUnread, Jumped

\* Nothing of the loader changes any more once it has jumped.
LEMMA LoaderKept == LoaderInv /\ UNCHANGED bootVars => LoaderInv'
<1> SUFFICES ASSUME LoaderInv, UNCHANGED bootVars PROVE LoaderInv'
  OBVIOUS
<1>1. UNCHANGED <<stage, findVars, platformVars, loadVars, exitVars>>
  BY DEF bootVars
<1>2. SearchInv' /\ MemoryInv' /\ CopyInv' /\ StackInv'
  BY <1>1 DEF LoaderInv, SearchInv, MemoryInv, CopyInv, StackInv, IsKernel, Ordered, SameRegion,
              findVars, platformVars, loadVars, exitVars
<1>3. MapHandedOver'
  BY <1>1 DEF LoaderInv, MapHandedOver, MapIsExact, FinalMapFits, OnlyLastUnread, dscs, Jumped, SameRegion, Ordered,
              loadVars, exitVars
<1> QED
  BY <1>1, <1>2, <1>3 DEF LoaderInv, Jumped, exitVars

\* Every step of the loader keeps the invariant, and the kernel leaves its state alone.
LEMMA StepLoaderInv == LoaderInv /\ [Next]_vars => LoaderInv'
<1> SUFFICES ASSUME LoaderInv, [Next]_vars PROVE LoaderInv'
  OBVIOUS
<1>1. CASE FindNext /\ UNCHANGED <<platformVars, loadVars, exitVars, kernelVars>>
  <2>1. SearchInv' /\ stage' \in {"search", "halted", "wild", "screen"}
    BY <1>1, FindSteps DEF LoaderInv
  <2>2. stage' \in Early /\ stage' \notin {"segments", "map"}
    BY <2>1 DEF Early
  <2>3. MemoryInv'
    BY <1>1, <2>2 DEF LoaderInv, MemoryInv, platformVars, loadVars, Ordered
  <2> QED
    BY <1>1, <2>1, <2>2, <2>3, EarlyInv DEF exitVars
<1>2. CASE PlatformNext /\ UNCHANGED <<loadVars, exitVars, kernelVars>>
  BY <1>2, PlatformSteps
<1>3. CASE LoadNext /\ UNCHANGED <<exitVars, kernelVars>>
  BY <1>3, LoadSteps
<1>4. CASE ExitNext /\ UNCHANGED kernelVars
  BY <1>4, ExitSteps
<1>5. CASE KernelNext /\ UNCHANGED bootVars
  BY <1>5, LoaderKept
<1>6. CASE UNCHANGED vars
  BY <1>6, LoaderKept DEF vars
<1> QED
  BY <1>1, <1>2, <1>3, <1>4, <1>5, <1>6 DEF Next

\* The bootloader keeps its inductive invariant: the search reads within directories, the
\* firmware's map stays in order, the copy is current while its key is, and the pages of
\* the tables and those left are the biggest region.
THEOREM LoaderInvariant == Spec => []LoaderInv
<1> QED
  BY InitLoaderInv, StepLoaderInv, PTL DEF Spec

\* The map the kernel is given is the one the firmware left with, with the biggest region
\* in two, and fits its buffer: for every memory, every number of tables and whatever the
\* firmware allocated between the copy and ExitBootServices.
THEOREM MapIsHandedOver == Spec => []MapHandedOver
<1>1. LoaderInv => MapHandedOver
  BY DEF LoaderInv
<1> QED
  BY <1>1, LoaderInvariant, PTL

-----------------------------------------------------------------------------
(* What the search finds.                                                  *)

\* The activations of a search in order.
LEMMA FramesTyped ==
    ASSUME NEW s, FramesOK(s)
    PROVE  /\ Len(s) \in Nat
           /\ \A i \in 1 .. Len(s) : /\ s[i].path \in Seq(Nat) /\ s[i].entries \in Directories
                                    /\ s[i].pos \in Nat
<1>1. s \in Seq(Activation)
  BY DEF FramesOK
<1>2. Len(s) \in Nat /\ \A i \in 1 .. Len(s) : s[i] \in Activation
  BY <1>1
<1>3. \A f \in Activation : f.path \in Seq(Nat) /\ f.entries \in Directories /\ f.pos \in Nat
  BY DEF Activation
<1> QED
  BY <1>2, <1>3

\* The activation that reads moves past an entry that does not lead to the kernel.
LEMMA WayOn ==
    ASSUME NEW s, NEW r, FramesOK(s), Len(s) >= 1, Len(r) = Len(s), Moved(r, s),
           NEW v, NEW found, Way(s, v, found),
           found = NoFile => ~Leads(s[Len(s)].entries[s[Len(s)].pos + 1])
    PROVE  Way(r, v, found)
<1> DEFINE n == Len(s)
<1>1. /\ n \in Nat /\ n >= 1 /\ Len(r) = n /\ \A i \in 1 .. n : s[i].pos \in Nat
      /\ \A i \in 1 .. n : r[i].path = s[i].path /\ r[i].entries = s[i].entries
      /\ \A i \in 1 .. n - 1 : r[i].pos = s[i].pos
      /\ r[n].pos = s[n].pos + 1
  <2>1. n \in 1 .. n /\ \A i \in 1 .. n - 1 : i \in 1 .. n /\ i # n
    BY FramesTyped
  <2> QED
    BY <2>1, FramesTyped DEF Moved
<1>2. ASSUME NEW i \in 1 .. n, found = NoFile,
             NEW j \in 1 .. (IF i = n THEN r[i].pos ELSE r[i].pos - 1)
      PROVE  ~Leads(r[i].entries[j])
  <2>1. CASE i = n /\ j = s[n].pos + 1
    BY <1>1, <1>2, <2>1
  <2>2. CASE i # n \/ j # s[n].pos + 1
    <3>1. CASE i = n
      <4>1. r[i].pos = s[i].pos + 1 /\ s[i].pos \in Nat /\ j \in 1 .. r[i].pos /\ j # s[i].pos + 1
        BY <1>1, <2>2, <3>1
      <4>2. j \in 1 .. s[i].pos
        BY <4>1
      <4> QED
        BY <1>1, <1>2, <3>1, <4>2 DEF Way
    <3>2. CASE i # n
      <4>1. i \in 1 .. n - 1
        BY <1>1, <3>2
      <4>2. r[i].pos = s[i].pos /\ j \in 1 .. s[i].pos - 1
        BY <1>1, <3>2, <4>1
      <4> QED
        BY <1>1, <1>2, <3>2, <4>2 DEF Way
    <3> QED
      BY <3>1, <3>2
  <2> QED
    BY <2>1, <2>2
<1>3. ASSUME NEW i \in 1 .. n - 1
      PROVE  /\ r[i].pos >= 1 /\ r[i].entries[r[i].pos].kind # "file"
             /\ r[i].entries[r[i].pos].entries = r[i + 1].entries
  <2>1. i \in 1 .. n /\ i + 1 \in 1 .. n
    BY <1>1
  <2> QED
    BY <1>1, <2>1 DEF Way
<1>4. /\ v >= 1 /\ s[1].entries = disk[v]
      /\ \A i \in 1 .. n : /\ s[i].path # <<>> /\ s[i].path[1] = v
                           /\ HoldsKernel[s[i].entries] => HoldsKernel[disk[v]]
      /\ found # NoFile => found.path # <<>> /\ found.path[1] = v /\ HoldsKernel[disk[v]]
  BY DEF Way
<1>5. 1 \in 1 .. n
  BY <1>1
<1> QED
  BY <1>1, <1>2, <1>3, <1>4, <1>5 DEF Way

\* It goes into a directory, which it has not passed before it comes back.
LEMMA WayDown ==
    ASSUME NEW s, NEW r, FramesOK(s), Len(s) >= 1, Len(r) = Len(s) + 1, Moved(r, s),
           s[Len(s)].pos + 1 \in 1 .. Len(s[Len(s)].entries),
           NEW e, e = s[Len(s)].entries[s[Len(s)].pos + 1], e.kind # "file", e.name \notin Dots,
           NEW v, NEW found, Way(s, v, found),
           NEW path, path # <<>>, path[1] = v, r[Len(s) + 1] = Frame(path, e.entries)
    PROVE  Way(r, v, found)
<1> DEFINE n == Len(s)
<1>1. /\ n \in Nat /\ n >= 1 /\ Len(r) = n + 1 /\ \A i \in 1 .. n : s[i].pos \in Nat
      /\ \A i \in 1 .. n : r[i].path = s[i].path /\ r[i].entries = s[i].entries
      /\ \A i \in 1 .. n - 1 : r[i].pos = s[i].pos
      /\ r[n].pos = s[n].pos + 1
      /\ s[n].entries \in Directories
  <2>1. n \in 1 .. n /\ \A i \in 1 .. n - 1 : i \in 1 .. n /\ i # n
    BY FramesTyped
  <2> QED
    BY <2>1, FramesTyped DEF Moved
<1>2. r[n + 1].path = path /\ r[n + 1].entries = e.entries /\ r[n + 1].pos = 0
  BY DEF Frame
<1>3. /\ v >= 1 /\ s[1].entries = disk[v]
      /\ \A i \in 1 .. n : /\ s[i].path # <<>> /\ s[i].path[1] = v
                           /\ HoldsKernel[s[i].entries] => HoldsKernel[disk[v]]
      /\ found # NoFile => found.path # <<>> /\ found.path[1] = v /\ HoldsKernel[disk[v]]
  BY DEF Way
<1>4. HoldsKernel[e.entries] => HoldsKernel[disk[v]]
  <2>1. HoldsKernel[e.entries] => Leads(e)
    BY DEF Leads
  <2>2. Leads(e) => HoldsKernel[s[n].entries]
    BY <1>1, TreeAssumption
  <2> QED
    BY <1>1, <1>3, <2>1, <2>2
<1>5. ASSUME NEW i \in 1 .. n + 1, found = NoFile,
             NEW j \in 1 .. (IF i = n + 1 THEN r[i].pos ELSE r[i].pos - 1)
      PROVE  ~Leads(r[i].entries[j])
  <2>1. i # n + 1
    BY <1>1, <1>2
  <2>2. i \in 1 .. n /\ j \in 1 .. (IF i = n THEN s[i].pos ELSE s[i].pos - 1)
    BY <1>1, <2>1
  <2> QED
    BY <1>1, <1>5, <2>2 DEF Way
<1>6. ASSUME NEW i \in 1 .. n
      PROVE  /\ r[i].pos >= 1 /\ r[i].entries[r[i].pos].kind # "file"
             /\ r[i].entries[r[i].pos].entries = r[i + 1].entries
  <2>1. CASE i = n
    BY <1>1, <1>2, <2>1
  <2>2. CASE i # n
    <3>1. i \in 1 .. n - 1 /\ i + 1 \in 1 .. n
      BY <1>1, <2>2
    <3> QED
      BY <1>1, <3>1 DEF Way
  <2> QED
    BY <2>1, <2>2
<1>7. \A i \in 1 .. n + 1 : /\ r[i].path # <<>> /\ r[i].path[1] = v
                            /\ HoldsKernel[r[i].entries] => HoldsKernel[disk[v]]
  BY <1>1, <1>2, <1>3, <1>4
<1>8. 1 \in 1 .. n /\ (n + 1) - 1 = n
  BY <1>1
<1> QED
  BY <1>1, <1>3, <1>5, <1>6, <1>7, <1>8 DEF Way

\* It comes back, with a kernel or from a directory that it has passed to the end.
LEMMA WayUp ==
    ASSUME NEW s, NEW r, FramesOK(s), Len(s) >= 2, Len(r) = Len(s) - 1,
           \A i \in 1 .. Len(s) - 1 : r[i] = s[i],
           NEW v, NEW old, NEW found, Way(s, v, old),
           \/ found = old /\ s[Len(s)].pos = Len(s[Len(s)].entries)
           \/ found # NoFile /\ found.path # <<>> /\ found.path[1] = v /\ HoldsKernel[disk[v]]
    PROVE  Way(r, v, found)
<1> DEFINE n == Len(s)
<1>1. /\ n \in Nat /\ n >= 2 /\ Len(r) = n - 1 /\ \A i \in 1 .. n : s[i].pos \in Nat
      /\ \A i \in 1 .. n - 1 : r[i] = s[i] /\ i \in 1 .. n /\ i # n
      /\ s[n].entries \in Directories
  <2>1. n \in 1 .. n /\ \A i \in 1 .. n - 1 : i \in 1 .. n /\ i # n
    BY FramesTyped
  <2> QED
    BY <2>1, FramesTyped
<1>2. /\ v >= 1 /\ s[1].entries = disk[v]
      /\ \A i \in 1 .. n : /\ s[i].path # <<>> /\ s[i].path[1] = v
                           /\ HoldsKernel[s[i].entries] => HoldsKernel[disk[v]]
      /\ old # NoFile => old.path # <<>> /\ old.path[1] = v /\ HoldsKernel[disk[v]]
  BY DEF Way
<1>3. \A i \in 1 .. n - 1 : /\ s[i].pos >= 1 /\ s[i].entries[s[i].pos].kind # "file"
                            /\ s[i].entries[s[i].pos].entries = s[i + 1].entries
  BY DEF Way
<1>4. ASSUME NEW i \in 1 .. n - 1, found = NoFile,
             NEW j \in 1 .. (IF i = n - 1 THEN r[i].pos ELSE r[i].pos - 1)
      PROVE  ~Leads(r[i].entries[j])
  <2>1. found = old /\ s[n].pos = Len(s[n].entries)
    BY <1>4
  <2>2. CASE i = n - 1 /\ j = s[i].pos
    <3>1. \A k \in 1 .. Len(s[n].entries) : ~Leads(s[n].entries[k])
      <4>1. n \in 1 .. n
        BY <1>1
      <4> QED
        BY <1>4, <2>1, <4>1 DEF Way
    <3>2. ~HoldsKernel[s[n].entries]
      BY <1>1, <3>1, TreeAssumption
    <3>3. s[i].entries[j].kind # "file" /\ s[i].entries[j].entries = s[n].entries
      BY <1>1, <1>3, <2>2
    <3> QED
      BY <1>1, <3>2, <3>3 DEF Leads
  <2>3. CASE ~(i = n - 1 /\ j = s[i].pos)
    <3>1. j \in 1 .. (IF i = n THEN s[i].pos ELSE s[i].pos - 1)
      BY <1>1, <2>3
    <3> QED
      BY <1>1, <1>4, <2>1, <3>1 DEF Way
  <2> QED
    BY <2>2, <2>3
<1>5. \A i \in 1 .. (n - 1) - 1 : /\ r[i].pos >= 1 /\ r[i].entries[r[i].pos].kind # "file"
                                  /\ r[i].entries[r[i].pos].entries = r[i + 1].entries
  <2>1. \A i \in 1 .. (n - 1) - 1 : i \in 1 .. n - 1 /\ i + 1 \in 1 .. n - 1
    BY <1>1
  <2> QED
    BY <1>1, <1>3, <2>1
<1>6. found # NoFile => found.path # <<>> /\ found.path[1] = v /\ HoldsKernel[disk[v]]
  BY <1>2
<1>7. 1 \in 1 .. n - 1
  BY <1>1
<1> QED
  BY <1>1, <1>2, <1>4, <1>5, <1>6, <1>7 DEF Way

\* While volumes are searched, nothing is said of the end of the search.
OpenDirs(open, acts) ==
    \A h \in open : h.kind = "file" \/ \E i \in 1 .. Len(acts) : h = DirHandle(acts[i].path)

LEMMA StillSearching ==
    ASSUME stage' = "search", disk' = disk,
           frames' = <<>> => FoundIn(1 .. vol)',
           frames' # <<>> => Way(frames', vol', out') /\ FoundIn(1 .. vol - 1)',
           OpenDirs(handles', frames')
    PROVE  FoundInv'
<1>1. Way(frames', vol', out') <=> Way(frames, vol, out)'
  BY DEF Way
<1>2. SearchFinds'
  BY DEF SearchFinds, FindsTheKernel, DirectoriesClosed, Searched
<1> QED
  BY <1>1, <1>2 DEF FoundInv, OpenDirs

\* What a volume gives, when its search is over: the kernel it holds, or nothing new.
LEMMA VolumeDone ==
    ASSUME NEW v \in Nat, NEW found, FoundIn(1 .. v - 1), disk' = disk, v >= 1,
           kernelhandle' = AfterVolume(found),
           found = NoFile => ~HoldsKernel[disk[v]],
           found # NoFile => found.path # <<>> /\ found.path[1] = v /\ HoldsKernel[disk[v]]
    PROVE  FoundIn(1 .. v)'
<1> DEFINE before == {u \in 1 .. v - 1 : HoldsKernel[disk[u]]}
           now == {u \in 1 .. v : HoldsKernel[disk[u]]}
<1>1. CASE found = NoFile
  <2>1. kernelhandle' = kernelhandle
    BY <1>1 DEF AfterVolume
  <2>2. now = before
    <3>1. \A u : u \in 1 .. v <=> u \in 1 .. v - 1 \/ u = v
      OBVIOUS
    <3> QED
      BY <1>1, <3>1
  <2>3. FoundIn(1 .. v)
    BY <2>2, Zenon DEF FoundIn
  <2> QED
    BY <2>1, <2>3 DEF FoundIn
<1>2. CASE found # NoFile
  <2>1. kernelhandle' = found
    BY <1>2 DEF AfterVolume
  <2>2. v \in now /\ \A u \in now : u <= v
    BY <1>2
  <2>3. now = {u \in 1 .. v : HoldsKernel[disk'[u]]}
    OBVIOUS
  <2> HIDE DEF now
  <2> QED
    BY <1>2, <2>1, <2>2, <2>3 DEF FoundIn
<1> QED
  BY <1>1, <1>2

\* The end of the search of a directory, with a kernel or with all of it passed.
LEMMA Returned ==
    ASSUME SearchInv, FoundInv, stage = "search", frames # <<>>, UNCHANGED <<stage, disk, vol>>,
           NEW found, NEW opened, Return(found, opened),
           \/ found = out /\ AtEnd
           \/ /\ found # NoFile /\ found.path # <<>> /\ found.path[1] = vol
              /\ HoldsKernel[disk[vol]],
           \A h \in opened : h \in handles \/ h.kind = "file"
    PROVE  FoundInv'
<1> DEFINE n == Len(frames)
<1>1. /\ FramesOK(frames) /\ n \in Nat /\ n >= 1 /\ Current = frames[n]
      /\ Len(Current.entries) \in Nat /\ Current.entries \in Directories
  BY ReadingOne DEF SearchInv, FramesOK
<1>2. /\ Len(frames') = n - 1 /\ \A i \in 1 .. n - 1 : frames'[i] = frames[i]
      /\ frames' \in Seq(Activation)
  BY PopOK DEF Return, FramesOK
<1>3. Way(frames, vol, out) /\ FoundIn(1 .. vol - 1) /\ OpenDirs(handles, frames)
  BY DEF FoundInv, OpenDirs
<1>4. OpenDirs(handles', frames')
  <2>1. ASSUME NEW h \in handles', h.kind # "file"
        PROVE  \E i \in 1 .. n - 1 : h = DirHandle(frames'[i].path)
    <3>1. h \in opened /\ h # DirHandle(frames[n].path)
      BY <2>1, <1>1 DEF Return, Closed
    <3>2. PICK i \in 1 .. n : h = DirHandle(frames[i].path)
      BY <2>1, <3>1, <1>3 DEF OpenDirs
    <3>3. i \in 1 .. n - 1
      BY <3>1, <3>2, <1>1
    <3> QED
      BY <3>2, <3>3, <1>2
  <2> QED
    BY <2>1, <1>2 DEF OpenDirs
<1>5. CASE n >= 2
  <2>1. frames' # <<>>
    BY <1>2, <1>5
  <2>2. Way(frames', vol, found)
    <3>1. \/ found = out /\ frames[n].pos = Len(frames[n].entries)
          \/ /\ found # NoFile /\ found.path # <<>> /\ found.path[1] = vol
             /\ HoldsKernel[disk[vol]]
      BY <1>1 DEF AtEnd
    <3> QED
      BY <1>1, <1>2, <1>3, <1>5, <3>1, WayUp
  <2>3. out' = found /\ kernelhandle' = kernelhandle
    BY <1>5, <1>1 DEF Return
  <2>4. FoundIn(1 .. vol - 1)'
    BY <1>3, <2>3 DEF FoundIn
  <2>5. Way(frames', vol', out')
    BY <2>2, <2>3
  <2> QED
    BY <1>4, <2>1, <2>4, <2>5, StillSearching
<1>6. CASE n = 1
  <2>1. frames' = <<>>
    BY <1>2, <1>6
  <2>2. kernelhandle' = AfterVolume(found)
    BY <1>6 DEF Return
  <2>3. /\ vol \in Nat /\ vol >= 1 /\ frames[1].entries = disk[vol]
        /\ out # NoFile => out.path # <<>> /\ out.path[1] = vol /\ HoldsKernel[disk[vol]]
        /\ out = NoFile => \A j \in 1 .. frames[1].pos : ~Leads(frames[1].entries[j])
    <3>1. vol \in Nat
      BY DisksAssumption DEF SearchInv
    <3> QED
      BY <1>3, <1>6, <3>1 DEF Way
  <2>4. found = NoFile => ~HoldsKernel[disk[vol]]
    <3>1. SUFFICES ASSUME found = NoFile PROVE ~HoldsKernel[disk[vol]]
      OBVIOUS
    <3>2. out = NoFile /\ frames[1].pos = Len(frames[1].entries) /\ disk[vol] \in Directories
      BY <3>1, <1>1, <1>6, <2>3 DEF AtEnd
    <3>3. \A j \in 1 .. Len(disk[vol]) : ~Leads(disk[vol][j])
      BY <2>3, <3>2
    <3> QED
      BY <3>2, <3>3, TreeAssumption
  <2>5. found # NoFile => found.path # <<>> /\ found.path[1] = vol /\ HoldsKernel[disk[vol]]
    BY <2>3
  <2>6. FoundIn(1 .. vol)'
    <3>1. ASSUME NEW v \in Nat, v = vol PROVE FoundIn(1 .. v)'
      BY <3>1, <1>3, <2>2, <2>3, <2>4, <2>5, VolumeDone
    <3> QED
      BY <2>3, <3>1 DEF FoundIn
  <2> QED
    BY <1>4, <2>1, <2>6, StillSearching
<1>7. n >= 2 \/ n = 1
  <2>1. \A m \in Nat : m >= 1 => m >= 2 \/ m = 1
    OBVIOUS
  <2> HIDE DEF n
  <2> QED
    BY <1>1, <2>1, Zenon
<1> QED
  BY <1>5, <1>6, <1>7

\* Every step of the search keeps FoundInv.
LEMMA FoundSteps ==
    ASSUME SearchInv, FoundInv, FindNext
    PROVE  FoundInv'
<1> DEFINE n == Len(frames)
<1>0. stage = "search" /\ OpenDirs(handles, frames)
  <2>1. stage = "search"
    BY DEF FindNext, OpenVolume, SkipDots, SkipFile, EnterDirectory, FoundFile, EndOfDirectory,
           OpenRefused, ProtocolRefused, VolumeRefused, BetweenVolumes, SearchOver, Searching
  <2> QED
    BY <2>1 DEF FoundInv, OpenDirs
<1>1. CASE OpenVolume
  <2>1. /\ stage' = stage /\ disk' = disk /\ frames = <<>> /\ vol' = vol + 1 /\ out' = NoFile
        /\ frames' = <<Frame(<<vol + 1>>, disk[vol + 1])>>
        /\ handles' = handles \cup {DirHandle(<<vol + 1>>)} /\ kernelhandle' = kernelhandle
    BY <1>1 DEF OpenVolume, BetweenVolumes
  <2>2. vol \in Nat /\ FoundIn(1 .. vol)
    BY <1>0, <2>1, DisksAssumption DEF FoundInv, SearchInv
  <2>3. /\ Len(frames') = 1 /\ frames' # <<>> /\ frames'[1].path = <<vol + 1>>
        /\ frames'[1].entries = disk[vol + 1] /\ frames'[1].pos = 0
    BY <2>1 DEF Frame
  <2>4. FoundIn(1 .. vol - 1)'
    <3>1. vol' - 1 = vol
      BY <2>1, <2>2
    <3> QED
      BY <2>1, <2>2, <3>1 DEF FoundIn
  <2>5. Way(frames', vol', out')
    <3>1. vol + 1 >= 1 /\ <<vol + 1>> # <<>> /\ <<vol + 1>>[1] = vol + 1
      BY <2>2
    <3> QED
      BY <2>1, <2>3, <3>1 DEF Way
  <2>6. OpenDirs(handles', frames')
    <3>1. \A h \in handles : h.kind = "file"
      BY <1>0, <2>1 DEF OpenDirs
    <3> QED
      BY <2>1, <2>3, <3>1 DEF OpenDirs
  <2> QED
    BY <1>0, <2>1, <2>3, <2>4, <2>5, <2>6, StillSearching
<1>2. ASSUME frames # <<>>
      PROVE  /\ FramesOK(frames) /\ n \in Nat /\ n >= 1 /\ vol \in Nat
             /\ Current = frames[n] /\ Current.path \in Seq(Nat) /\ Current.path # <<>>
             /\ Current.path[1] = vol
             /\ Current.entries \in Directories
             /\ HoldsKernel[Current.entries] => HoldsKernel[disk[vol]]
             /\ ~AtEnd => Current.pos + 1 \in 1 .. Len(Current.entries)
             /\ Way(frames, vol, out) /\ FoundIn(1 .. vol - 1)
  <2>1. /\ FramesOK(frames) /\ n \in Nat /\ n >= 1 /\ Current = frames[n] /\ vol \in Nat
        /\ Current.path \in Seq(Nat) /\ Current.entries \in Directories
        /\ ~AtEnd => Current.pos + 1 \in DOMAIN Current.entries
    BY <1>2, ReadingOne, DisksAssumption DEF SearchInv, FramesOK
  <2>2. Way(frames, vol, out) /\ FoundIn(1 .. vol - 1)
    BY <1>0, <1>2 DEF FoundInv
  <2>3. DOMAIN Current.entries = 1 .. Len(Current.entries)
    BY <2>1, DisksAssumption
  <2>4. /\ frames[n].path # <<>> /\ frames[n].path[1] = vol
        /\ HoldsKernel[frames[n].entries] => HoldsKernel[disk[vol]]
    <3>1. n \in 1 .. n
      BY <2>1
    <3> QED
      BY <2>2, <3>1 DEF Way
  <2> QED
    BY <2>1, <2>2, <2>3, <2>4
<1>3. CASE SkipDots \/ SkipFile
  <2>1. /\ frames # <<>> /\ ~AtEnd /\ frames' = Advanced /\ ~Leads(Entry)
        /\ UNCHANGED <<stage, disk, vol, out, kernelhandle, handles>>
    BY <1>3 DEF SkipDots, SkipFile, Searching, Leads, IsFile, Dots, Name
  <2>2. Len(frames') = n /\ Moved(frames', frames)
    BY <2>1, AdvancedOK
  <2>3. ~Leads(frames[n].entries[frames[n].pos + 1])
    BY <1>2, <2>1 DEF Entry
  <2>4. Way(frames', vol, out)
    BY <1>2, <2>1, <2>2, <2>3, WayOn
  <2>5. frames' # <<>>
    BY <1>2, <2>1, <2>2
  <2>6. FoundIn(1 .. vol - 1)'
    BY <1>2, <2>1 DEF FoundIn
  <2>7. OpenDirs(handles', frames')
    BY <1>0, <2>1, <2>2 DEF OpenDirs, Moved
  <2> QED
    BY <1>0, <2>1, <2>4, <2>5, <2>6, <2>7, StillSearching
<1>4. CASE EnterDirectory
  <2>1. /\ frames # <<>> /\ ~AtEnd /\ Entry.kind # "file" /\ Entry.name \notin Dots
        /\ frames' = Append(Advanced, Frame(EntryPath, Entry.entries))
        /\ handles' = handles \cup {DirHandle(EntryPath)}
        /\ UNCHANGED <<stage, disk, vol, out, kernelhandle>>
    BY <1>4 DEF EnterDirectory, Searching, IsFile
  <2>2. FramesOK(Advanced) /\ Len(Advanced) = n /\ Moved(Advanced, frames)
    BY <2>1, AdvancedOK
  <2>3. /\ EntryPath \in Seq(Nat) /\ EntryPath # <<>> /\ EntryPath[1] = vol
        /\ Entry = frames[n].entries[frames[n].pos + 1]
    <3>1. ASSUME NEW p \in Seq(Nat), p # <<>>, NEW k \in Nat
          PROVE  Append(p, k) \in Seq(Nat) /\ Append(p, k) # <<>> /\ Append(p, k)[1] = p[1]
      BY <3>1
    <3>2. Current.pos + 1 \in Nat
      BY <1>2, <2>1, ReadingOne
    <3> QED
      BY <1>2, <2>1, <3>1, <3>2 DEF EntryPath, Entry
  <2>4. Entry.entries \in Directories
    BY <2>1, ReadingOne, DisksAssumption DEF Entry
  <2>5. /\ Len(frames') = n + 1 /\ \A i \in 1 .. n : frames'[i] = Advanced[i]
        /\ frames'[n + 1] = Frame(EntryPath, Entry.entries)
    BY <2>1, <2>2, <2>3, <2>4, PushOK
  <2>6. Moved(frames', frames)
    BY <2>2, <2>5 DEF Moved
  <2>7. Way(frames', vol, out)
    <3>1. frames[n].pos + 1 \in 1 .. Len(frames[n].entries)
      BY <1>2, <2>1
    <3>2. /\ FramesOK(frames) /\ Len(frames) >= 1 /\ Way(frames, vol, out)
      BY <1>2, <2>1
    <3>3. ASSUME NEW e, e = Entry PROVE Way(frames', vol, out)
      <4>1. /\ e = frames[Len(frames)].entries[frames[Len(frames)].pos + 1]
            /\ e.kind # "file" /\ e.name \notin Dots
            /\ frames'[Len(frames) + 1] = Frame(EntryPath, e.entries)
        BY <2>1, <2>3, <2>5, <3>3
      <4> QED
        BY <2>3, <2>5, <2>6, <3>1, <3>2, <4>1, WayDown
    <3> QED
      BY <3>3
  <2>8. frames' # <<>>
    BY <1>2, <2>1, <2>5
  <2>9. FoundIn(1 .. vol - 1)'
    BY <1>2, <2>1 DEF FoundIn
  <2>10. OpenDirs(handles', frames')
    <3>1. n + 1 \in 1 .. n + 1 /\ \A i \in 1 .. n : i \in 1 .. n + 1
      BY <1>2, <2>1
    <3>2. frames'[n + 1].path = EntryPath
      BY <2>5 DEF Frame
    <3>3. \A i \in 1 .. n : frames'[i].path = frames[i].path
      BY <2>6 DEF Moved
    <3> QED
      BY <1>0, <2>1, <2>5, <3>1, <3>2, <3>3 DEF OpenDirs
  <2> QED
    BY <1>0, <2>1, <2>7, <2>8, <2>9, <2>10, StillSearching
<1>5. CASE FoundFile
  <2> DEFINE found == [path |-> EntryPath, image |-> Entry.image]
             opened == handles \cup {FileHandle(EntryPath)}
  <2>1. /\ frames # <<>> /\ ~AtEnd /\ Entry.kind = "file" /\ Entry.name = Name
        /\ Return(found, opened) /\ UNCHANGED <<stage, disk, vol>>
    BY <1>5 DEF FoundFile, Searching, IsFile
  <2>2. EntryPath # <<>> /\ EntryPath[1] = vol
    <3>1. ASSUME NEW p \in Seq(Nat), p # <<>>, NEW k \in Nat
          PROVE  Append(p, k) # <<>> /\ Append(p, k)[1] = p[1]
      BY <3>1
    <3>2. Current.pos + 1 \in Nat
      BY <1>2, <2>1, ReadingOne
    <3> QED
      BY <1>2, <2>1, <3>1, <3>2 DEF EntryPath
  <2>3. found # NoFile /\ found.path # <<>> /\ found.path[1] = vol
    BY <2>2 DEF NoFile
  <2>4. HoldsKernel[disk[vol]]
    <3>1. Leads(Entry)
      BY <2>1 DEF Leads
    <3>2. HoldsKernel[Current.entries]
      BY <1>2, <2>1, <3>1, TreeAssumption DEF Entry
    <3> QED
      BY <1>2, <2>1, <3>2
  <2>5. \A h \in opened : h \in handles \/ h.kind = "file"
    BY DEF FileHandle
  <2> HIDE DEF found, opened
  <2> QED
    BY <1>0, <2>1, <2>3, <2>4, <2>5, Returned
<1>6. CASE EndOfDirectory
  <2>1. /\ frames # <<>> /\ AtEnd /\ Return(out, handles) /\ UNCHANGED <<stage, disk, vol>>
    BY <1>6 DEF EndOfDirectory, Searching
  <2> QED
    BY <1>0, <2>1, Returned
<1>7. CASE OpenRefused \/ ProtocolRefused \/ VolumeRefused
  <2>1. stage' \in {"halted", "wild"}
    BY <1>7 DEF OpenRefused, ProtocolRefused, VolumeRefused
  <2> QED
    BY <2>1 DEF FoundInv, SearchFinds, FindsTheKernel, DirectoriesClosed, Searched
<1>8. CASE SearchOver
  <2>1. /\ stage' # "search" /\ frames = <<>> /\ vol = Len(disk)
        /\ UNCHANGED <<disk, kernelhandle, handles>>
    BY <1>8 DEF SearchOver, findVars
  <2>2. FoundIn(1 .. Len(disk)) /\ \A h \in handles : h.kind = "file"
    BY <1>0, <2>1 DEF FoundInv, OpenDirs
  <2>3. FoundIn(1 .. Len(disk))'
    BY <2>1, <2>2 DEF FoundIn
  <2> QED
    BY <2>1, <2>2, <2>3 DEF FoundInv, SearchFinds, FindsTheKernel, DirectoriesClosed
<1> QED
  BY <1>1, <1>3, <1>4, <1>5, <1>6, <1>7, <1>8 DEF FindNext

\* Nothing touches what was found once the search is over.
LEMMA FoundKept ==
    ASSUME FoundInv, UNCHANGED findVars,
           stage' = stage \/ (stage \notin {"search", "halted", "wild"} /\ stage' # "search")
    PROVE  FoundInv'
<1>1. UNCHANGED <<disk, vol, frames, out, kernelhandle, handles>>
  BY DEF findVars
<1>2. /\ \A s : FoundIn(s)' <=> FoundIn(s)
      /\ Way(frames, vol, out)' <=> Way(frames, vol, out)
  BY <1>1 DEF FoundIn, Way
<1>3. SearchFinds'
  BY <1>1, <1>2 DEF FoundInv, SearchFinds, FindsTheKernel, DirectoriesClosed, Searched
<1> QED
  BY <1>1, <1>2, <1>3 DEF FoundInv

\* Every step keeps it.
LEMMA StepFound ==
    ASSUME LoaderInv, FoundInv, [Next]_vars
    PROVE  FoundInv'
<1>1. CASE FindNext
  BY <1>1, FoundSteps DEF LoaderInv
<1>2. CASE PlatformNext
  <2>1. /\ UNCHANGED findVars /\ stage \notin {"search", "halted", "wild"} /\ stage' # "search"
    BY <1>2 DEF PlatformNext, initialize_screenbuffer, NoGraphics, get_core_count,
                NoMultiprocessorServices
  <2> QED
    BY <2>1, FoundKept
<1>3. CASE LoadNext
  <2>1. /\ UNCHANGED findVars /\ stage \notin {"search", "halted", "wild"} /\ stage' # "search"
    BY <1>3 DEF LoadNext, ReadHeader, FindSections, FindStart, AllocateFails, NothingToLoad,
                AllocateKernel, SkipSegment, LoadSegment, LayOut, Goto
  <2> QED
    BY <2>1, FoundKept
<1>4. CASE ExitNext
  <2>1. /\ UNCHANGED findVars /\ stage \notin {"search", "halted", "wild"} /\ stage' # "search"
    BY <1>4 DEF ExitNext, initializeKernelMemoryMap, NoPool, PrepareTables, MapNextPage,
                MapNextDescriptor, MapInstructionPage, mapFramebufferToVirtualMemory,
                FirmwareAllocates, exitBootServices, finalizeMemoryMap, Kept, BootServices
  <2> QED
    BY <2>1, FoundKept
<1>5. CASE UNCHANGED bootVars
  <2>1. UNCHANGED findVars /\ stage' = stage
    BY <1>5 DEF bootVars
  <2> QED
    BY <2>1, FoundKept
<1> QED
  BY <1>1, <1>2, <1>3, <1>4, <1>5 DEF Next, vars

\* No volume has been searched at the start.
LEMMA InitFound == Init => FoundInv
<1> SUFFICES ASSUME Init PROVE FoundInv
  OBVIOUS
<1>1. stage = "search" /\ vol = 0 /\ frames = <<>> /\ kernelhandle = NoFile /\ handles = {}
  BY DEF Init, FindInit
<1>2. FoundIn(1 .. vol)
  <2>1. 1 .. 0 = {}
    OBVIOUS
  <2> QED
    BY <1>1, <2>1 DEF FoundIn
<1> QED
  BY <1>1, <1>2 DEF FoundInv, SearchFinds, FindsTheKernel, DirectoriesClosed, Searched

\* The search over any number of volumes and directories of any depth keeps its inductive
\* invariant: searchDirectoryRecursive has found the kernel exactly when it has passed one.
THEOREM FoundInvariant == Spec => []FoundInv
<1>1. LoaderInv /\ FoundInv /\ [Next]_vars => FoundInv'
  BY StepFound
<1> QED
  BY <1>1, InitFound, LoaderInvariant, PTL DEF Spec

\* The boot loader goes on with the kernel of the last volume that holds one, at whatever
\* depth, or with none if none does, and has closed every directory it opened.
THEOREM KernelIsFound == Spec => []SearchFinds
<1>1. FoundInv => SearchFinds
  BY DEF FoundInv
<1> QED
  BY <1>1, FoundInvariant, PTL

-----------------------------------------------------------------------------
(* The layout of the kernel.                                               *)

\* What is known of an image.
LEMMA ImageSound ==
    ASSUME kernelhandle.image \in DOMAIN Images
    PROVE  /\ Image.bytes \in Nat /\ Len(Image.segments) \in Nat
           /\ \A i \in Loads(Image) :
                 /\ i \in Nat /\ i > 0 /\ i <= Len(Image.segments)
                 /\ Image.segments[i].paddr \in Nat /\ Image.segments[i].offset \in Nat
                 /\ Image.segments[i].memsz \in Nat /\ Image.segments[i].filesz \in Nat
                 /\ Image.segments[i].filesz <= Image.segments[i].memsz
           /\ \A i, j \in Loads(Image) : i < j =>
                 Image.segments[i].paddr + Image.segments[i].memsz <= Image.segments[j].paddr
<1>1. /\ Image.bytes \in Nat /\ Image.segments \in Seq(Segment) /\ InOrder(Image)
      /\ \A i \in Loads(Image) : Image.segments[i].filesz <= Image.segments[i].memsz
  BY ImagesAssumption DEF Image
<1>2. ASSUME NEW i \in Loads(Image)
      PROVE  /\ i \in Nat /\ i > 0 /\ i <= Len(Image.segments)
             /\ Image.segments[i].paddr \in Nat /\ Image.segments[i].offset \in Nat
             /\ Image.segments[i].memsz \in Nat /\ Image.segments[i].filesz \in Nat
  <2>1. i \in 1 .. Len(Image.segments) /\ Len(Image.segments) \in Nat
    BY <1>1 DEF Loads
  <2>2. Image.segments[i] \in Segment
    BY <1>1, <2>1
  <2> QED
    BY <2>1, <2>2 DEF Segment
<1> QED
  BY <1>1, <1>2 DEF InOrder

\* What is laid out stays so while nothing of it is touched.
LEMMA LayoutKept ==
    ASSUME LayoutInv, UNCHANGED <<kernelhandle, cores, block, content, seg, lastLoad, config>>,
           stage' \in Unread => stage \in Unread, stage' = "segments" => stage = "segments"
    PROVE  LayoutInv'
BY DEF LayoutInv, InPlace, Loaded, Image, Layout, TotalSize, SegmentBytes, StacksSize, TssSize, GdtSize

\* Before the block is taken nothing is laid out.
LEMMA NotLaidOut ==
    ASSUME LayoutInv, stage \in Unread, stage' # "segments",
           UNCHANGED <<seg, lastLoad, config>>
    PROVE  LayoutInv'
BY DEF LayoutInv, Loaded, Unread

\* A segment lies behind the ones before it, and is placed over none of them.
LEMMA SegmentPlaced ==
    ASSUME LayoutInv, ReadsFail = FALSE, LoadSegment
    PROVE  InPlace(seg)'
<1> DEFINE s == Image.segments[seg]
<1>1. PICK n \in readFile(s.offset, s.memsz) : content' = Placed(s, n)
  BY DEF LoadSegment
<1>2. /\ stage = "segments" /\ seg' = seg + 1 /\ kernelhandle' = kernelhandle
      /\ seg <= Len(Image.segments) /\ s.load
  BY DEF LoadSegment, findVars
<1>3. kernelhandle.image \in DOMAIN Images /\ seg \in Nat \ {0} /\ InPlace(seg)
  BY <1>2 DEF LayoutInv
<1>4. Image' = Image
  BY <1>2 DEF Image
<1>5. seg \in Loads(Image)
  BY <1>2, <1>3, ImageSound DEF Loads
<1>6. /\ s.paddr \in Nat /\ s.offset \in Nat /\ s.memsz \in Nat /\ s.filesz \in Nat
      /\ s.filesz <= s.memsz
  BY <1>3, <1>5, ImageSound
<1>7. n \in Nat /\ (s.offset + s.memsz <= Image.bytes => n = s.memsz)
  <2>1. Image.bytes \in Nat
    BY <1>3, ImageSound
  <2> QED
    BY <1>1, <1>6, <2>1 DEF readFile
<1>8. /\ DOMAIN content' = DOMAIN content \cup {s.paddr + k : k \in 0 .. n - 1}
      /\ \A b \in DOMAIN content' :
            content'[b] = IF b \in s.paddr .. s.paddr + n - 1 THEN s.offset + (b - s.paddr) ELSE content[b]
  BY <1>1, Zenon DEF Placed
<1> SUFFICES ASSUME NEW i \in Loads(Image), i < seg + 1,
                    Image.segments[i].offset + Image.segments[i].memsz <= Image.bytes,
                    NEW k \in 0 .. Image.segments[i].filesz - 1
             PROVE  LET b == Image.segments[i].paddr + k
                    IN  b \in DOMAIN content' /\ content'[b] = Image.segments[i].offset + k
  <2>1. \A i \in Loads(Image) : i < seg + 1 =>
           (Image.segments[i].offset + Image.segments[i].memsz <= Image.bytes =>
              \A k \in 0 .. Image.segments[i].filesz - 1 :
                 /\ Image.segments[i].paddr + k \in DOMAIN content'
                 /\ content'[Image.segments[i].paddr + k] = Image.segments[i].offset + k)
    OBVIOUS
  <2> QED
    BY <2>1, <1>2, <1>4 DEF InPlace
<1> DEFINE d == Image.segments[i]
           b == d.paddr + k
<1>9. /\ d.paddr \in Nat /\ d.offset \in Nat /\ d.memsz \in Nat /\ d.filesz \in Nat
      /\ d.filesz <= d.memsz /\ i \in Nat
  BY <1>3, ImageSound
<1>10. CASE i < seg
  <2>1. b \in DOMAIN content /\ content[b] = d.offset + k
    BY <1>3, <1>10 DEF InPlace
  <2>2. d.paddr + d.memsz <= s.paddr
    BY <1>3, <1>5, <1>10, ImageSound
  <2> HIDE DEF d, s
  <2>3. b \notin s.paddr .. s.paddr + n - 1
    BY <1>6, <1>7, <1>9, <2>2 DEF d
  <2> HIDE DEF b
  <2>4. b \in DOMAIN content' /\ content'[b] = d.offset + k
    BY <1>8, <2>1, <2>3, Zenon
  <2> QED
    BY <2>4, Zenon DEF b, d
<1>11. CASE i = seg
  <2>1. n = s.memsz /\ d = s
    BY <1>7, <1>11
  <2>2. k \in 0 .. s.filesz - 1
    BY <1>11
  <2> HIDE DEF s, d
  <2>3. k \in 0 .. n - 1 /\ b \in s.paddr .. s.paddr + n - 1 /\ b = s.paddr + k /\ b - s.paddr = k
    BY <2>1, <2>2, <1>6
  <2> HIDE DEF b
  <2>4. b \in DOMAIN content'
    BY <2>3, <1>8, Zenon
  <2>5. content'[b] = s.offset + k
    BY <2>3, <2>4, <1>8, Zenon
  <2>6. b \in DOMAIN content' /\ content'[b] = d.offset + k
    BY <2>1, <2>4, <2>5
  <2> QED
    BY <2>6, Zenon DEF b, d
<1> QED
  BY <1>3, <1>9, <1>10, <1>11

\* The loading: the block is counted, the segments are placed in it, and the rest goes
\* behind the last of them.
LEMMA LoadLays ==
    ASSUME LoaderInv, LayoutInv, ReadsFail = FALSE, LoadNext
    PROVE  LayoutInv'
<1>1. CASE ReadHeader \/ FindSections \/ FindStart \/ AllocateFails
  <2>1. stage \in Unread /\ stage' # "segments" /\ UNCHANGED <<seg, lastLoad, config>>
    BY <1>1 DEF ReadHeader, FindSections, FindStart, AllocateFails, Goto, loadVars, Unread
  <2> QED
    BY <2>1, NotLaidOut
<1>2. CASE NothingToLoad
  <2>1. /\ stage' \notin Unread /\ stage' # "segments"
        /\ UNCHANGED <<kernelhandle, cores, block, content, seg, lastLoad, config>>
    BY <1>2 DEF NothingToLoad, Goto, loadVars, findVars, platformVars, Unread
  <2> QED
    BY <2>1, LayoutKept
<1>3. CASE AllocateKernel
  <2>1. /\ stage = "allocate" /\ stage' = "segments" /\ content' = <<>>
        /\ block'.pages = PagesFor(TotalSize(Image))
        /\ UNCHANGED <<kernelhandle, cores, seg, lastLoad, config>>
    BY <1>3 DEF AllocateKernel, findVars, platformVars
  <2>2. seg = 1 /\ lastLoad = 0 /\ config = NoConfig
    BY <2>1 DEF LayoutInv, Unread
  <2>3. kernelhandle.image \in DOMAIN Images /\ cores \in Nat
    BY <2>1 DEF LoaderInv, SearchInv, MemoryInv, IsKernel, Opened
  <2>4. /\ Image' = Image /\ kernelhandle'.image \in DOMAIN Images /\ cores' \in Nat
        /\ block'.pages = PagesFor(TotalSize(Image))'
    BY <2>1, <2>3 DEF Image, TotalSize, SegmentBytes, StacksSize, TssSize, GdtSize
  <2>5. \A i \in Loads(Image) : ~(i < 1)
    BY <2>3, ImageSound
  <2>6. InPlace(seg)' /\ \A i \in Loads(Image') : i < seg' => i <= lastLoad'
    BY <2>1, <2>2, <2>4, <2>5 DEF InPlace
  <2>7. stage' \notin Unread /\ ~Loaded'
    BY <2>1, <2>2 DEF Loaded, Unread
  <2> QED
    BY <2>1, <2>2, <2>4, <2>6, <2>7 DEF LayoutInv
<1>4. CASE SkipSegment \/ LoadSegment
  <2>1. /\ stage = "segments" /\ seg' = seg + 1 /\ stage' \in {"segments", "halted"}
        /\ UNCHANGED <<kernelhandle, cores, block, config>> /\ seg <= Len(Image.segments)
        /\ Image.segments[seg].load => lastLoad' = seg
        /\ ~Image.segments[seg].load => lastLoad' = lastLoad
    BY <1>4 DEF SkipSegment, LoadSegment, findVars, platformVars
  <2>2. /\ kernelhandle.image \in DOMAIN Images /\ cores \in Nat /\ config = NoConfig
        /\ block.pages = PagesFor(TotalSize(Image))
        /\ seg \in Nat \ {0} /\ InPlace(seg)
        /\ \A i \in Loads(Image) : i < seg => i <= lastLoad
        /\ lastLoad # 0 => lastLoad \in Loads(Image) /\ lastLoad < seg
    BY <2>1 DEF LayoutInv
  <2>3. /\ Image' = Image /\ kernelhandle'.image \in DOMAIN Images /\ cores' \in Nat
        /\ block'.pages = PagesFor(TotalSize(Image))'
    BY <2>1, <2>2 DEF Image, TotalSize, SegmentBytes, StacksSize, TssSize, GdtSize
  <2>4. /\ Len(Image.segments) \in Nat /\ \A i \in Loads(Image) : i \in Nat
        /\ seg \in Loads(Image) <=> Image.segments[seg].load
    BY <2>1, <2>2, ImageSound DEF Loads
  <2>5. \A i \in Loads(Image) : i < seg + 1 <=> i < seg \/ i = seg
    BY <2>2, <2>4
  <2>6. InPlace(seg)'
    <3>1. CASE LoadSegment
      BY <3>1, SegmentPlaced
    <3>2. CASE SkipSegment
      <4>1. content' = content /\ seg \notin Loads(Image)
        BY <3>2, <2>4 DEF SkipSegment
      <4> QED
        BY <4>1, <2>1, <2>2, <2>3, <2>5 DEF InPlace
    <3> QED
      BY <1>4, <3>1, <3>2
  <2>7. /\ \A i \in Loads(Image') : i < seg' => i <= lastLoad'
        /\ lastLoad' # 0 => lastLoad' \in Loads(Image') /\ lastLoad' < seg'
    <3>1. CASE Image.segments[seg].load
      BY <3>1, <2>1, <2>2, <2>3, <2>4, <2>5
    <3>2. CASE ~Image.segments[seg].load
      BY <3>2, <2>1, <2>2, <2>3, <2>4, <2>5
    <3> QED
      BY <3>1, <3>2
  <2>8. stage' \notin Unread /\ ~Loaded' /\ seg' \in Nat \ {0} /\ config' = NoConfig
    BY <2>1, <2>2 DEF Loaded, Unread
  <2> QED
    BY <2>3, <2>6, <2>7, <2>8 DEF LayoutInv
<1>5. CASE LayOut
  <2>1. /\ stage = "segments" /\ stage' = "map" /\ lastLoad # 0 /\ seg > Len(Image.segments)
        /\ config' = Layout(Image.segments[lastLoad].paddr + Image.segments[lastLoad].memsz)
        /\ UNCHANGED <<kernelhandle, cores, block, content, seg, lastLoad>>
    BY <1>5 DEF LayOut, findVars, platformVars
  <2>2. /\ Image' = Image /\ StacksSize' = StacksSize /\ TssSize' = TssSize /\ GdtSize' = GdtSize
        /\ TotalSize(Image)' = TotalSize(Image) /\ PagesFor(TotalSize(Image))' = PagesFor(TotalSize(Image))
    BY <2>1 DEF Image, StacksSize, TssSize, GdtSize, TotalSize, SegmentBytes
  <2>3. /\ config' = Layout(Image.segments[lastLoad].paddr + Image.segments[lastLoad].memsz)'
        /\ InPlace(seg)' <=> InPlace(seg)
    BY <2>1, <2>2 DEF Layout, InPlace
  <2>4. stage' \notin Unread /\ stage' # "segments"
    BY <2>1 DEF Unread
  <2> QED
    BY <2>1, <2>2, <2>3, <2>4 DEF LayoutInv
<1> QED
  BY <1>1, <1>2, <1>3, <1>4, <1>5 DEF LoadNext

\* Nothing is laid out at the start, and what is stays so in every other stage.
LEMMA StepLayout ==
    ASSUME LoaderInv, LayoutInv, ReadsFail = FALSE, [Next]_vars
    PROVE  LayoutInv'
<1>1. CASE FindNext /\ UNCHANGED <<platformVars, loadVars, exitVars, kernelVars>>
  <2>1. stage = "search" /\ stage' # "segments" /\ UNCHANGED <<seg, lastLoad, config>>
    BY <1>1 DEF FindNext, OpenVolume, SkipDots, SkipFile, EnterDirectory, FoundFile, EndOfDirectory,
                OpenRefused, ProtocolRefused, VolumeRefused, BetweenVolumes, SearchOver, Searching,
                Return, loadVars
  <2> QED
    BY <2>1, NotLaidOut DEF Unread
<1>2. CASE PlatformNext /\ UNCHANGED <<loadVars, exitVars, kernelVars>>
  <2>1. /\ stage \in {"screen", "acpi"} /\ stage' \in {"halted", "acpi", "header", "wild"}
        /\ UNCHANGED <<seg, lastLoad, config>>
    BY <1>2 DEF PlatformNext, initialize_screenbuffer, NoGraphics, get_core_count,
                NoMultiprocessorServices, loadVars
  <2> QED
    BY <2>1, NotLaidOut DEF Unread
<1>3. CASE LoadNext /\ UNCHANGED <<exitVars, kernelVars>>
  BY <1>3, LoadLays
<1>4. CASE ExitNext /\ UNCHANGED kernelVars
  <2>1. /\ stage' \notin Unread /\ stage' # "segments"
        /\ UNCHANGED <<kernelhandle, cores, block, content, seg, lastLoad, config>>
    BY <1>4 DEF ExitNext, initializeKernelMemoryMap, NoPool, PrepareTables, MapNextPage,
                MapNextDescriptor, MapInstructionPage, mapFramebufferToVirtualMemory,
                FirmwareAllocates, exitBootServices, finalizeMemoryMap, Kept, findVars,
                platformVars, Unread, BootServices
  <2> QED
    BY <2>1, LayoutKept
<1>5. CASE UNCHANGED bootVars
  BY <1>5, LayoutKept DEF bootVars, findVars, platformVars, loadVars
<1> QED
  BY <1>1, <1>2, <1>3, <1>4, <1>5 DEF Next, vars

\* The layout is laid out at no time but in its stage.
LEMMA InitLayout == Init => LayoutInv
BY DEF Init, FindInit, LoadInit, LayoutInv, Loaded, Unread

\* The kernel's parts are placed as its program headers say and nothing is placed twice:
\* the loading keeps its inductive invariant, for every image whose segments are in order
\* and every number of processors, if the disk delivers what it is asked for.
THEOREM LayoutInvariant ==
    ASSUME ReadsFail = FALSE
    PROVE  Spec => []LayoutInv
<1>1. LoaderInv /\ LayoutInv /\ [Next]_vars => LayoutInv'
  BY StepLayout
<1> QED
  BY <1>1, InitLayout, LoaderInvariant, PTL DEF Spec

\* The bytes up to the end of the last segment are no more than those of the segments and
\* of the gaps together: each of the former belongs to one of the latter.
LEMMA SegmentsAndGaps ==
    ASSUME kernelhandle.image \in DOMAIN Images, NEW end \in Nat,
           NEW G, G = {b \in 0 .. end - 1 : \A s \in Segments : b \notin s.from .. s.to - 1}
    PROVE  /\ end <= SegmentBytes(Image) + Cardinality(G)
           /\ SegmentBytes(Image) \in Nat /\ Cardinality(G) \in Nat
<1> DEFINE L == LoadedBytes(Image)
           f == [x \in L |-> Image.segments[x[1]].paddr + x[2] - 1]
           T == {f[x] : x \in L}
<1>1. IsFiniteSet(L) /\ Cardinality(L) \in Nat /\ SegmentBytes(Image) = Cardinality(L)
  BY ImagesAssumption, FS_CardinalityType DEF Image, SegmentBytes
<1>2. f \in Surjection(L, T)
  BY DEF Surjection
<1>3. IsFiniteSet(T) /\ Cardinality(T) <= Cardinality(L) /\ Cardinality(T) \in Nat
  <2> HIDE DEF L, f, T
  <2> QED
    BY <1>1, <1>2, FS_Surjection, FS_CardinalityType
<1>4. ASSUME NEW b \in 0 .. end - 1, b \notin G PROVE b \in T
  <2>1. PICK i \in Loads(Image) :
            b \in Image.segments[i].paddr .. (Image.segments[i].paddr + Image.segments[i].memsz) - 1
    <3>1. PICK s \in Segments : b \in s.from .. s.to - 1
      BY <1>4
    <3>2. PICK i \in Loads(Image) :
              s = [from |-> Image.segments[i].paddr,
                   to   |-> Image.segments[i].paddr + Image.segments[i].memsz]
      BY DEF Segments
    <3>3. /\ s.from = Image.segments[i].paddr
          /\ s.to = Image.segments[i].paddr + Image.segments[i].memsz
      BY <3>2
    <3>4. b \in Image.segments[i].paddr .. (Image.segments[i].paddr + Image.segments[i].memsz) - 1
      BY <3>1, <3>3, Zenon
    <3> QED
      BY <3>4, Zenon
  <2> DEFINE k == b - Image.segments[i].paddr + 1
  <2>2. /\ Image.segments[i].paddr \in Nat /\ Image.segments[i].memsz \in Nat
    BY ImageSound
  <2>3. k \in 1 .. Image.segments[i].memsz /\ Image.segments[i].paddr + k - 1 = b
    BY <2>1, <2>2
  <2> HIDE DEF k
  <2>4. <<i, k>> \in L
    <3>1. <<i, k>> \in {i} \X (1 .. Image.segments[i].memsz)
      BY <2>3
    <3> QED
      BY <3>1, Zenon DEF LoadedBytes
  <2>5. f[<<i, k>>] = b
    BY <2>3, <2>4
  <2> QED
    BY <2>4, <2>5
<1>5. IsFiniteSet(0 .. end - 1) /\ Cardinality(0 .. end - 1) = end
  <2>1. CASE end = 0
    <3>1. 0 .. end - 1 = {}
      BY <2>1
    <3> QED
      BY <2>1, <3>1, FS_EmptySet
  <2>2. CASE end # 0
    <3>1. 0 \in Int /\ end - 1 \in Int /\ ~(0 > end - 1) /\ end - 1 - 0 + 1 = end
      BY <2>2
    <3> QED
      BY <3>1, FS_Interval
  <2> QED
    BY <2>1, <2>2
<1>6. IsFiniteSet(G) /\ Cardinality(G) \in Nat
  BY <1>5, FS_Subset, FS_CardinalityType
<1> HIDE DEF L, T
<1>7. 0 .. end - 1 \in SUBSET (T \cup G)
  BY <1>4
<1>8. /\ IsFiniteSet(T \cup G) /\ IsFiniteSet(T \cap G)
      /\ Cardinality(T \cup G) = Cardinality(T) + Cardinality(G) - Cardinality(T \cap G)
  BY <1>3, <1>6, FS_Union, FS_Intersection
<1>9. Cardinality(0 .. end - 1) <= Cardinality(T \cup G) /\ Cardinality(T \cap G) \in Nat
  BY <1>7, <1>8, FS_Subset, FS_CardinalityType
<1> QED
  BY <1>1, <1>3, <1>5, <1>6, <1>8, <1>9

\* The pages that are counted lack less than one of the bytes.
LEMMA PagesHold ==
    ASSUME NEW n \in Nat
    PROVE  n < (PagesFor(n) + 1) * PageBytes /\ PagesFor(n) \in Nat
<1>1. PageBytes \in Nat /\ PageBytes > 0
  BY LoadAssumption
<1> DEFINE t == n \div PageBytes
<1>2. t \in Nat /\ n < t * PageBytes + PageBytes
  <2>1. ASSUME NEW a \in Nat, NEW b \in Nat, b > 0
        PROVE  a \div b \in Nat /\ a < (a \div b) * b + b
    BY <2>1
  <2> QED
    BY <1>1, <2>1
<1>3. PagesFor(n) = t \/ PagesFor(n) = t + 1
  <2>1. PagesFor(n) = t + AsStatus(t % PageBytes # 0)
    BY DEF PagesFor
  <2> HIDE DEF t
  <2> QED
    BY <2>1, <1>2 DEF AsStatus
<1> HIDE DEF t
<1>4. /\ (t + 1) * PageBytes = t * PageBytes + PageBytes
      /\ (t + 1 + 1) * PageBytes = t * PageBytes + PageBytes + PageBytes
      /\ t * PageBytes \in Nat
  BY <1>1, <1>2
<1>5. CASE PagesFor(n) = t
  BY <1>1, <1>2, <1>4, <1>5
<1>6. CASE PagesFor(n) = t + 1
  BY <1>1, <1>2, <1>4, <1>6
<1> QED
  BY <1>3, <1>5, <1>6

\* What the layout gives to segments, stacks, TSS, GDT and header: KernelLaidOut follows.
LEMMA InvLaidOut == LayoutInv => KernelLaidOut
<1> SUFFICES ASSUME LayoutInv, Loaded PROVE KernelLaidOut
  BY DEF KernelLaidOut, PartsDisjoint, OverrunBounded, SegmentsInPlace
<1> DEFINE last == Image.segments[lastLoad]
           end == last.paddr + last.memsz
<1>1. /\ kernelhandle.image \in DOMAIN Images /\ cores \in Nat
      /\ block.pages = PagesFor(TotalSize(Image))
      /\ seg \in Nat \ {0} /\ InPlace(seg)
      /\ \A i \in Loads(Image) : i < seg => i <= lastLoad
      /\ lastLoad \in Loads(Image) /\ seg > Len(Image.segments)
      /\ config = Layout(end)
  BY DEF LayoutInv
<1>2. /\ Len(Image.segments) \in Nat /\ last.paddr \in Nat /\ last.memsz \in Nat /\ end \in Nat
      /\ \A i \in Loads(Image) : i \in Nat /\ i < seg /\ i <= lastLoad
  BY <1>1, ImageSound
<1>3. StacksSize \in Nat /\ TssSize \in Nat /\ GdtSize \in Nat /\ HeaderBytes \in Nat
  BY <1>1, LoadAssumption DEF StacksSize, TssSize, GdtSize
<1>4. /\ config.endOffset = end /\ config.stacks = end /\ config.tss = end + StacksSize
      /\ config.gdt = end + StacksSize + TssSize
      /\ config.header = end + StacksSize + TssSize + GdtSize
      /\ config.totalSize = TotalSize(Image)
  BY <1>1 DEF Layout
<1>5. SegmentsInPlace
  BY <1>1, <1>2 DEF SegmentsInPlace, InPlace
\* No segment reaches beyond the last one.
<1>6. ASSUME NEW s \in Segments PROVE s.to <= end /\ s.to \in Nat /\ s.from \in Nat
  <2>1. PICK i \in Loads(Image) :
            s = [from |-> Image.segments[i].paddr,
                 to   |-> Image.segments[i].paddr + Image.segments[i].memsz]
    BY DEF Segments
  <2>2. /\ s.from = Image.segments[i].paddr /\ s.to = s.from + Image.segments[i].memsz
        /\ Image.segments[i].paddr \in Nat /\ Image.segments[i].memsz \in Nat
    BY <2>1, <1>1, ImageSound
  <2>3. CASE i = lastLoad
    BY <2>2, <2>3, <1>2
  <2>4. CASE i < lastLoad
    <3>1. Image.segments[i].paddr + Image.segments[i].memsz <= last.paddr
      BY <2>4, <1>1, ImageSound
    <3>2. ASSUME NEW x \in Nat, NEW y \in Nat, NEW z \in Nat, x <= y PROVE x <= y + z
      BY <3>2
    <3>3. Image.segments[i].paddr + Image.segments[i].memsz \in Nat
      BY <2>2
    <3>4. Image.segments[i].paddr + Image.segments[i].memsz <= last.paddr + last.memsz
      BY <3>1, <3>2, <3>3, <1>2, Zenon
    <3>5. s.to = Image.segments[i].paddr + Image.segments[i].memsz /\ s.from \in Nat
      BY <2>1, <2>2
    <3> QED
      BY <3>3, <3>4, <3>5
  <2> QED
    BY <2>3, <2>4, <1>1, <1>2
<1> HIDE DEF end
<1>7. ASSUME NEW a \in Arrays PROVE a.from \in Nat /\ end <= a.from
  BY <1>2, <1>3, <1>4 DEF Arrays
<1>8. PartsDisjoint
  <2>1. ASSUME NEW a \in Arrays, NEW s \in Segments PROVE Apart(a, s)
    BY <1>2, <1>6, <1>7 DEF Apart
  <2>2. ASSUME NEW a \in Arrays, NEW b \in Arrays, a # b PROVE Apart(a, b)
    BY <2>2, <1>2, <1>3, <1>4 DEF Arrays, Apart
  <2> QED
    BY <2>1, <2>2 DEF PartsDisjoint
<1>9. OverrunBounded
  <2> DEFINE G == {b \in 0 .. end - 1 : \A s \in Segments : b \notin s.from .. s.to - 1}
  <2>1. /\ end <= SegmentBytes(Image) + Cardinality(G)
        /\ SegmentBytes(Image) \in Nat /\ Cardinality(G) \in Nat
    BY <1>1, <1>2, SegmentsAndGaps
  <2>2. Gaps = Cardinality(G)
    BY <1>4 DEF Gaps
  <2> HIDE DEF G
  <2>3. /\ TotalSize(Image) \in Nat /\ config.header + HeaderBytes \in Nat
        /\ config.header + HeaderBytes <= TotalSize(Image) + Gaps
    <3>1. TotalSize(Image) = SegmentBytes(Image) + GdtSize + StacksSize + TssSize + HeaderBytes
      BY DEF TotalSize
    <3>2. config.header = end + StacksSize + TssSize + GdtSize
      BY <1>4
    <3> HIDE DEF last
    <3> QED
      BY <1>2, <1>3, <2>1, <2>2, <3>1, <3>2
  <2>4. TotalSize(Image) < (block.pages + 1) * PageBytes /\ block.pages \in Nat
    BY <1>1, <2>3, PagesHold
  <2>5. (block.pages + 1) * PageBytes \in Nat
    BY <2>4, LoadAssumption
  <2> QED
    BY <2>1, <2>2, <2>3, <2>4, <2>5 DEF OverrunBounded
<1> QED
  BY <1>5, <1>8, <1>9 DEF KernelLaidOut

\* Every segment that can be read is in place and not overwritten, the stacks, task state
\* segments, descriptors and header lie apart and behind the last segment, and they exceed
\* the block by no more than the gaps between the segments and a page, if the disk delivers
\* what it is asked for.
THEOREM KernelIsLaidOut ==
    ASSUME ReadsFail = FALSE
    PROVE  Spec => []KernelLaidOut
<1> QED
  BY LayoutInvariant, InvLaidOut, PTL

-----------------------------------------------------------------------------
(* The start of the kernel.                                                *)

Waiting == {"entry", "basic", "graphics", "memory", "paging", "gdt", "idt", "table", "xsdt"}
TablesUsed == {"lapic", "router", "hpet", "timer", "idle"}

\* The steps that follow each other in actual_start and what it calls.
LEMMA AfterSteps ==
    /\ After("entry") = "basic" /\ After("basic") = "graphics"
    /\ After("graphics") = "memory" /\ After("memory") = "paging"
    /\ After("paging") = "gdt" /\ After("gdt") = "idt" /\ After("idt") = "table"
    /\ After("table") = "xsdt" /\ After("xsdt") = "acpi" /\ After("acpi") = "lapic"
    /\ After("lapic") = "router" /\ After("router") = "hpet" /\ After("hpet") = "timer"
    /\ After("timer") = "idle"
<1>1. DOMAIN Order = 1 .. 15
  BY DEF Order
<1>2. /\ Order[1] = "entry" /\ Order[2] = "basic" /\ Order[3] = "graphics"
      /\ Order[4] = "memory" /\ Order[5] = "paging" /\ Order[6] = "gdt" /\ Order[7] = "idt"
      /\ Order[8] = "table" /\ Order[9] = "xsdt" /\ Order[10] = "acpi"
      /\ Order[11] = "lapic" /\ Order[12] = "router" /\ Order[13] = "hpet"
      /\ Order[14] = "timer" /\ Order[15] = "idle"
  BY DEF Order
<1>3. \A k \in 1 .. 15 : k \in {1, 2, 3, 4, 5, 6, 7, 8, 9, 10, 11, 12, 13, 14, 15}
  OBVIOUS
<1>4. ASSUME NEW n \in 1 .. 14 PROVE After(Order[n]) = Order[n + 1]
  <2>1. \A k \in 1 .. 15 : Order[k] = Order[n] => k = n
    BY <1>2, <1>3
  <2>2. n \in 1 .. 15
    OBVIOUS
  <2>3. (CHOOSE k \in DOMAIN Order : Order[k] = Order[n]) = n
    BY <1>1, <2>1, <2>2
  <2>4. 1 + n = n + 1
    OBVIOUS
  <2> QED
    BY <2>3, <2>4 DEF After
<1>5. /\ After(Order[1]) = Order[2] /\ After(Order[2]) = Order[3]
      /\ After(Order[3]) = Order[4] /\ After(Order[4]) = Order[5]
      /\ After(Order[5]) = Order[6] /\ After(Order[6]) = Order[7]
      /\ After(Order[7]) = Order[8] /\ After(Order[8]) = Order[9]
      /\ After(Order[9]) = Order[10] /\ After(Order[10]) = Order[11]
      /\ After(Order[11]) = Order[12] /\ After(Order[12]) = Order[13]
      /\ After(Order[13]) = Order[14] /\ After(Order[14]) = Order[15]
  BY <1>4
<1> QED
  BY <1>2, <1>5

\* What the order consists of.
LEMMA OrderSteps ==
    Range(Order) = {"entry", "basic", "graphics", "memory", "paging", "gdt", "idt", "table", "xsdt",
                    "acpi", "lapic", "router", "hpet", "timer", "idle"}
BY DEF Range, Order

\* The scan stays as it is while it is not under way.
LEMMA ScanKept ==
    ASSUME ScanInv, UNCHANGED <<xsdt, scan>>,
           at' \in Waiting => at \in Waiting, at' \in TablesUsed => at \in TablesUsed
    PROVE  ScanInv'
<1>1. /\ at' \in Waiting => scan' = [i |-> 0, madt |-> NotFound, hpet |-> NotFound]
      /\ at' \in TablesUsed => Len(xsdt') = scan'.i /\ Len(xsdt') < CounterValues /\ ~Missing' /\ ~Invalid'
  BY DEF ScanInv, Waiting, TablesUsed, Missing, Invalid
<1>2. /\ xsdt' \in Seq(TableEntry) /\ scan' \in [i : Nat, madt : Int, hpet : Int]
      /\ scan'.i <= Len(xsdt')
      /\ IF Len(xsdt') < CounterValues
         THEN IsLast(scan.madt, scan.i, "APIC")' /\ IsLast(scan.hpet, scan.i, "HPET")'
         ELSE scan'.i < CounterValues
  BY DEF ScanInv, IsLast
<1> QED
  BY <1>1, <1>2 DEF ScanInv, Waiting, TablesUsed

\* One entry more: the last of its kind is that entry, or the one so far.
LEMMA RecordLast ==
    ASSUME ScanInv, scan.i < Len(xsdt), NEW old \in Int, NEW wanted, IsLast(old, scan.i, wanted)
    PROVE  LET new == Record(old, xsdt[scan.i + 1].sig, wanted)
           IN  new \in Int /\ IsLast(new, scan.i + 1, wanted)
<1>1. scan.i \in Nat
  BY DEF ScanInv
<1>2. CASE xsdt[scan.i + 1].sig = wanted
  <2>1. IsLast(scan.i, scan.i + 1, wanted)
    BY <1>1, <1>2 DEF IsLast
  <2> QED
    BY <1>1, <1>2, <2>1 DEF Record
<1>3. CASE xsdt[scan.i + 1].sig # wanted
  <2>1. IsLast(old, scan.i + 1, wanted)
    BY <1>1, <1>3 DEF IsLast, NotFound
  <2> QED
    BY <1>3, <2>1 DEF Record
<1> QED
  BY <1>2, <1>3

\* One turn of the loop, also where the counter wraps.
LEMMA ScanTurn ==
    ASSUME ScanInv, ScanTable
    PROVE  ScanInv'
<1> DEFINE sig == xsdt[scan.i + 1].sig
           m == Record(scan.madt, sig, "APIC")
           h == Record(scan.hpet, sig, "HPET")
           n == (scan.i + 1) % CounterValues
<1>1. /\ at = "acpi" /\ at' = at /\ xsdt' = xsdt /\ scan.i < Len(xsdt)
      /\ scan' = [i |-> n, madt |-> m, hpet |-> h]
  BY DEF ScanTable, Takes
<1>2. /\ xsdt \in Seq(TableEntry) /\ Len(xsdt) \in Nat /\ CounterValues \in Nat /\ CounterValues > 0
      /\ scan.i \in Nat /\ scan.madt \in Int /\ scan.hpet \in Int
      /\ Len(xsdt) < CounterValues => /\ IsLast(scan.madt, scan.i, "APIC")
                                      /\ IsLast(scan.hpet, scan.i, "HPET")
      /\ ~(Len(xsdt) < CounterValues) => scan.i < CounterValues
  BY StartAssumption DEF ScanInv
<1>3. m \in Int /\ h \in Int
  BY <1>2 DEF Record
<1>4. ASSUME NEW a \in Nat, NEW b \in Nat, b > 0
      PROVE  a % b \in Nat /\ a % b < b /\ (a < b => a % b = a)
  BY <1>4
<1>5. n \in Nat /\ n < CounterValues /\ (scan.i + 1 < CounterValues => n = scan.i + 1)
  BY <1>2, <1>4
<1> HIDE DEF n, m, h
<1>6. scan'.i = n /\ scan'.madt = m /\ scan'.hpet = h
  BY <1>1
<1>7. scan' \in [i : Nat, madt : Int, hpet : Int] /\ n <= Len(xsdt)
  BY <1>1, <1>2, <1>3, <1>5
<1>8. CASE Len(xsdt) < CounterValues
  <2>1. n = scan.i + 1
    BY <1>1, <1>2, <1>5, <1>8
  <2>2. IsLast(m, n, "APIC") /\ IsLast(h, n, "HPET")
    BY <1>1, <1>2, <1>8, <2>1, RecordLast DEF m, h
  <2>3. IsLast(scan.madt, scan.i, "APIC")' /\ IsLast(scan.hpet, scan.i, "HPET")'
    BY <2>2, <1>1, <1>6 DEF IsLast
  <2> QED
    BY <2>3, <1>1, <1>2, <1>6, <1>7, <1>8 DEF ScanInv
<1>9. CASE ~(Len(xsdt) < CounterValues)
  BY <1>1, <1>2, <1>5, <1>6, <1>7, <1>9 DEF ScanInv
<1> QED
  BY <1>8, <1>9

\* The kernel starts with nothing set up and no table looked at.
LEMMA InitStartInv == Init => StartInv
<1> SUFFICES ASSUME Init PROVE StartInv
  OBVIOUS
<1>1. /\ at = "entry" /\ xsdt = <<>> /\ scan = [i |-> 0, madt |-> NotFound, hpet |-> NotFound]
      /\ flag = FALSE /\ landed = NoInterrupt /\ armed = {}
  BY DEF Init, KernelInit
<1>2. IsLast(NotFound, 0, "APIC") /\ IsLast(NotFound, 0, "HPET")
  BY DEF IsLast, NotFound
<1>3. ScanInv
  <2>1. xsdt \in Seq(TableEntry) /\ Len(xsdt) = 0 /\ 0 < CounterValues
    BY <1>1, StartAssumption
  <2>2. scan \in [i : Nat, madt : Int, hpet : Int]
    BY <1>1 DEF NotFound
  <2> QED
    BY <1>1, <1>2, <2>1, <2>2 DEF ScanInv
<1>4. GatesInv
  <2>1. landed.from = "none" /\ landed.to = "none"
    BY <1>1 DEF NoInterrupt
  <2> QED
    BY <1>1, <2>1, OrderSteps DEF GatesInv, Gated, InterruptsInOrder, TurnedOn, Alive
<1> QED
  BY <1>3, <1>4 DEF StartInv

\* A step that leaves the scan alone and goes on keeps what is known of it.
LEMMA GoesOn ==
    ASSUME ScanInv, UNCHANGED <<xsdt, scan>>,
           NEW s \in {"entry", "basic", "graphics", "memory", "paging", "gdt", "idt", "table",
                      "lapic", "router", "hpet", "timer"},
           at = s, Goes(s)
    PROVE  ScanInv'
<1>1. at' \in Waiting => at \in Waiting
  BY AfterSteps DEF Goes, Waiting
<1>2. at' \in TablesUsed => at \in TablesUsed
  BY AfterSteps DEF Goes, TablesUsed
<1> QED
  BY <1>1, <1>2, ScanKept

\* What a step that is not an interrupt must say of the gates to keep them in order.
LEMMA GatesKept ==
    ASSUME GatesInv, Alive, landed' = landed,
           at' \in Range(Order) \cup {"halted"}, flag' \in BOOLEAN,
           at' \in Gated \cup {"table"} => idt' = "kernel",
           at' \in Gated => table' \in {"clear", "hpet"},
           at' = "halted" => ~flag',
           armed' \subseteq LeftSources \cup {"spurious", "hpet"},
           "hpet" \in armed' => at' \in {"timer", "idle"} /\ table' = "hpet",
           "spurious" \in armed' => at' \in {"router", "hpet", "timer", "idle"},
           at' \in {"hpet", "timer", "idle"} =>
              "ioapic" \notin armed' /\ ("pic" \in armed' => ~Madt.pic'),
           "spurious" \in armed' => idt' = "kernel" /\ table' # "junk"
    PROVE  GatesInv'
<1>1. Alive' /\ (landed'.from = "hpet" => landed'.to = "handled")
  BY DEF Alive, GatesInv, InterruptsInOrder
<1>2. InterruptsInOrder'
  BY <1>1 DEF InterruptsInOrder, TurnedOn
<1> QED
  BY <1>2 DEF GatesInv, TurnedOn

\* Every step of the start keeps the gates in order.
LEMMA StepGates ==
    ASSUME GatesInv, KernelNext
    PROVE  GatesInv'
<1> USE OrderSteps, AfterSteps
<1>0. /\ at \in Range(Order) \cup {"halted"} /\ flag \in BOOLEAN
      /\ at \in Gated \cup {"table"} => idt = "kernel"
      /\ at \in Gated => table \in {"clear", "hpet"}
      /\ armed \subseteq LeftSources \cup {"spurious", "hpet"}
      /\ "hpet" \in armed => at \in {"timer", "idle"} /\ table = "hpet"
      /\ "spurious" \in armed => at \in {"router", "hpet", "timer", "idle"}
      /\ at \in {"hpet", "timer", "idle"} =>
            "ioapic" \notin armed /\ ("pic" \in armed => ~Madt.pic)
      /\ landed.from = "hpet" => landed.to = "handled"
  BY DEF GatesInv, InterruptsInOrder, TurnedOn
<1>1. CASE EnterKernel
  <2>1. /\ at = "entry" /\ at' = "basic" /\ Alive /\ flag' \in BOOLEAN
        /\ armed' \subseteq LeftSources /\ UNCHANGED <<idt, table, landed>>
    BY <1>1 DEF EnterKernel, Takes, Goes
  <2>2. "hpet" \notin armed' /\ "spurious" \notin armed'
    BY <2>1 DEF LeftSources
  <2> QED
    BY <2>1, <2>2, GatesKept DEF Gated
<1>2. CASE SetUp
  <2>1. /\ at' \in {"graphics", "memory", "paging", "gdt", "idt"} /\ Alive
        /\ at \in {"basic", "graphics", "memory", "paging", "gdt"}
        /\ UNCHANGED <<flag, idt, table, armed, landed>>
    BY <1>2 DEF SetUp, Takes, Goes
  <2> QED
    BY <1>0, <2>1, GatesKept DEF Gated
<1>3. CASE load_idt
  <2>1. /\ at = "idt" /\ at' = "table" /\ idt' = "kernel" /\ Alive
        /\ UNCHANGED <<flag, table, armed, landed>>
    BY <1>3 DEF load_idt, Takes, Goes
  <2> QED
    BY <1>0, <2>1, GatesKept DEF Gated
<1>4. CASE init_IRQHandleTable
  <2>1. /\ at = "table" /\ at' = "xsdt" /\ table' = "clear" /\ Alive
        /\ UNCHANGED <<flag, idt, armed, landed>>
    BY <1>4 DEF init_IRQHandleTable, Takes, Goes
  <2> QED
    BY <1>0, <2>1, GatesKept DEF Gated
<1>5. CASE ReadXsdt \/ TablesFound \/ ScanTable
  <2>1. /\ at \in {"xsdt", "acpi"} /\ at' \in {"acpi", "lapic"} /\ Alive
        /\ UNCHANGED <<flag, idt, table, armed, landed>>
    BY <1>5 DEF ReadXsdt, TablesFound, ScanTable, Takes, Goes
  <2> QED
    BY <1>0, <2>1, GatesKept DEF Gated
<1>6. CASE NoXsdt \/ TablesRefused
  <2>1. /\ at \in {"xsdt", "acpi"} /\ at' = "halted" /\ flag' = FALSE /\ Alive
        /\ UNCHANGED <<idt, table, armed, landed>>
    BY <1>6 DEF NoXsdt, TablesRefused, Takes
  <2> QED
    BY <1>0, <2>1, GatesKept DEF Gated
<1>7. CASE lapic_init
  <2>1. /\ at = "lapic" /\ at' = "router" /\ flag' = TRUE /\ armed' = armed \cup {"spurious"}
        /\ Alive /\ UNCHANGED <<idt, table, landed>>
    BY <1>7 DEF lapic_init, Takes, Goes
  <2> QED
    BY <1>0, <2>1, GatesKept DEF Gated
<1>8. CASE init_irqRouter
  <2>1. /\ at = "router" /\ at' = "hpet" /\ Alive
        /\ armed' = armed \ ({"ioapic"} \cup IF Madt.pic THEN {"pic"} ELSE {})
        /\ UNCHANGED <<xsdt, scan, flag, idt, table, landed>>
    BY <1>8 DEF init_irqRouter, Takes, Goes
  <2>2. /\ armed' \subseteq armed /\ "ioapic" \notin armed' /\ ("pic" \in armed' => ~Madt.pic)
        /\ Madt.pic' = Madt.pic
    BY <2>1 DEF Madt
  <2> QED
    BY <1>0, <2>1, <2>2, GatesKept DEF Gated
<1>9. CASE HPET_init
  <2>1. /\ at = "hpet" /\ at' = "timer" /\ table' = "hpet" /\ armed' = armed \cup {"hpet"}
        /\ Alive /\ UNCHANGED <<xsdt, scan, flag, idt, landed>>
    BY <1>9 DEF HPET_init, Takes, Goes
  <2>2. Madt.pic' = Madt.pic
    BY <2>1 DEF Madt
  <2> QED
    BY <1>0, <2>1, <2>2, GatesKept DEF Gated
<1>10. CASE init_lapic_timer
  <2>1. /\ at = "timer" /\ at' = "idle" /\ Alive
        /\ UNCHANGED <<xsdt, scan, flag, idt, table, armed, landed>>
    BY <1>10 DEF init_lapic_timer, Takes, Goes
  <2>2. Madt.pic' = Madt.pic
    BY <2>1 DEF Madt
  <2> QED
    BY <1>0, <2>1, <2>2, GatesKept DEF Gated
<1>11. CASE \E source \in armed : Interrupt(source)
  <2>1. PICK source \in armed : Interrupt(source)
    BY <1>11
  <2>2. /\ landed' = [from |-> source, to |-> Reached(source)]
        /\ UNCHANGED <<at, xsdt, scan, flag, idt, table, armed>>
    BY <2>1 DEF Interrupt
  <2>3. landed'.from = source /\ landed'.to = Reached(source)
    BY <2>2
  <2>4. source = "hpet" => landed'.to = "handled"
    BY <1>0, <2>3 DEF Reached, Gated
  <2>5. Madt.pic' = Madt.pic
    BY <2>2 DEF Madt
  <2>6. \/ "spurious" \notin armed
        \/ at = "router" /\ source \in LeftSources
        \/ source = "pic" /\ ~Madt.pic
        \/ source \in {"spurious", "hpet"}
    BY <1>0 DEF LeftSources
  <2>7. InterruptsInOrder'
    <3>1. TurnedOn' => idt' = "kernel" /\ table' # "junk"
      BY <2>2 DEF GatesInv, InterruptsInOrder, TurnedOn
    <3> QED
      BY <2>2, <2>3, <2>4, <2>5, <2>6, <3>1 DEF InterruptsInOrder, TurnedOn, Alive
  <2> QED
    BY <2>2, <2>5, <2>7 DEF GatesInv, TurnedOn
<1> QED
  BY <1>1, <1>2, <1>3, <1>4, <1>5, <1>6, <1>7, <1>8, <1>9, <1>10, <1>11 DEF KernelNext

\* Every step of the start keeps what is known of the root table and its scan.
LEMMA StepScan ==
    ASSUME ScanInv, KernelNext
    PROVE  ScanInv'
<1>1. CASE EnterKernel \/ SetUp
  <2>1. PICK s \in {"entry", "basic", "graphics", "memory", "paging", "gdt"} :
            at = s /\ Goes(s) /\ UNCHANGED <<xsdt, scan>>
    BY <1>1 DEF EnterKernel, SetUp, Takes
  <2> QED
    BY <2>1, GoesOn
<1>2. CASE load_idt \/ init_IRQHandleTable \/ lapic_init \/ init_irqRouter \/ HPET_init \/ init_lapic_timer
  <2>1. PICK s \in {"idt", "table", "lapic", "router", "hpet", "timer"} :
            at = s /\ Goes(s) /\ UNCHANGED <<xsdt, scan>>
    BY <1>2 DEF load_idt, init_IRQHandleTable, lapic_init, init_irqRouter, HPET_init,
                init_lapic_timer, Takes
  <2> QED
    BY <2>1, GoesOn
<1>3. CASE ReadXsdt
  <2>1. /\ at = "xsdt" /\ at' = "acpi" /\ xsdt' \in Seq(TableEntry) /\ Len(xsdt') \in Nat
        /\ scan' = scan /\ scan = [i |-> 0, madt |-> NotFound, hpet |-> NotFound]
    BY <1>3, AfterSteps, StartAssumption DEF ReadXsdt, Takes, Goes, ScanInv
  <2>2. scan' \in [i : Nat, madt : Int, hpet : Int]
    BY <2>1 DEF NotFound
  <2>3. scan'.i = 0 /\ scan'.madt = NotFound /\ scan'.hpet = NotFound
    BY <2>1
  <2>4. IsLast(scan.madt, scan.i, "APIC")' /\ IsLast(scan.hpet, scan.i, "HPET")'
    BY <2>3 DEF IsLast, NotFound
  <2>5. 0 < CounterValues /\ CounterValues \in Nat
    BY StartAssumption
  <2> QED
    BY <2>1, <2>2, <2>3, <2>4, <2>5 DEF ScanInv
<1>4. CASE NoXsdt \/ TablesRefused
  <2>1. at' = "halted" /\ UNCHANGED <<xsdt, scan>>
    BY <1>4 DEF NoXsdt, TablesRefused
  <2> QED
    BY <2>1, ScanKept DEF Waiting, TablesUsed
<1>5. CASE ScanTable
  BY <1>5, ScanTurn
<1>6. CASE TablesFound
  <2>1. /\ at = "acpi" /\ at' = "lapic" /\ scan.i >= Len(xsdt) /\ ~Missing /\ ~Invalid
        /\ xsdt' = xsdt /\ scan' = scan
    BY <1>6, AfterSteps DEF TablesFound, Takes, Goes
  <2>2. /\ xsdt \in Seq(TableEntry) /\ Len(xsdt) \in Nat /\ scan.i \in Nat /\ scan.i <= Len(xsdt)
        /\ CounterValues \in Nat /\ (~(Len(xsdt) < CounterValues) => scan.i < CounterValues)
    BY StartAssumption DEF ScanInv
  <2>3. Len(xsdt) = scan.i /\ Len(xsdt) < CounterValues
    BY <2>1, <2>2
  <2>4. ~Missing' /\ ~Invalid'
    BY <2>1 DEF Missing, Invalid
  <2>5. /\ scan' \in [i : Nat, madt : Int, hpet : Int]
        /\ IsLast(scan.madt, scan.i, "APIC")' /\ IsLast(scan.hpet, scan.i, "HPET")'
    BY <2>1, <2>3 DEF ScanInv, IsLast
  <2> QED
    BY <2>1, <2>2, <2>3, <2>4, <2>5 DEF ScanInv
<1>7. CASE \E source \in armed : Interrupt(source)
  <2>1. UNCHANGED <<at, xsdt, scan>>
    BY <1>7 DEF Interrupt
  <2> QED
    BY <2>1, ScanKept
<1> QED
  BY <1>1, <1>2, <1>3, <1>4, <1>5, <1>6, <1>7 DEF KernelNext

\* The bootloader has no part in the kernel's state; the kernel's steps keep both parts.
LEMMA StepStartInv == StartInv /\ [Next]_vars => StartInv'
<1> SUFFICES ASSUME StartInv, [Next]_vars PROVE StartInv'
  OBVIOUS
<1>0. ScanInv /\ GatesInv
  BY DEF StartInv
<1>1. CASE UNCHANGED kernelVars
  <2>1. ScanInv'
    BY <1>0, <1>1, ScanKept DEF kernelVars
  <2>2. GatesInv'
    BY <1>0, <1>1 DEF GatesInv, kernelVars, InterruptsInOrder, TurnedOn, Alive, Madt
  <2> QED
    BY <2>1, <2>2 DEF StartInv
<1>2. CASE KernelNext
  BY <1>0, <1>2, StepGates, StepScan DEF StartInv
<1> QED
  BY <1>1, <1>2 DEF Next, vars

\* The start of the kernel keeps its inductive invariant, for every root table, every
\* width of the loop's counter, whatever the firmware has left armed and whether or not
\* it has left interrupts on.
THEOREM StartInvariant == Spec => []StartInv
<1> QED
  BY InitStartInv, StepStartInv, PTL DEF Spec

\* The last entry with a signature is the largest index of one.
LEMMA LastIsMax ==
    ASSUME xsdt \in Seq(TableEntry), NEW k \in Int, NEW sig, IsLast(k, Len(xsdt), sig)
    PROVE  k = Max({j \in 0 .. Len(xsdt) - 1 : xsdt[j + 1].sig = sig} \cup {NotFound})
<1> DEFINE S == {j \in 0 .. Len(xsdt) - 1 : xsdt[j + 1].sig = sig} \cup {NotFound}
<1>1. Len(xsdt) \in Nat
  OBVIOUS
<1>2. S \subseteq Int /\ k \in S
  BY <1>1 DEF IsLast, NotFound
<1>3. \A y \in S : k >= y
  BY <1>1 DEF IsLast, NotFound
<1>4. \A x \in S : (\A y \in S : x >= y) => x = k
  <2> HIDE DEF S
  <2> QED
    BY <1>2, <1>3
<1>5. Max(S) = k
  <2> HIDE DEF S
  <2> QED
    BY <1>2, <1>3, <1>4 DEF Max
<1> QED
  BY <1>5

\* StartInOrder follows from the invariants of the loader and of the start.
LEMMA InvStartInOrder == LoaderInv /\ StartInv => StartInOrder
<1> SUFFICES ASSUME LoaderInv, StartInv PROVE StartInOrder
  OBVIOUS
<1>0. ScanInv /\ GatesInv
  BY DEF StartInv
<1>1. scan.i \in Nat /\ Len(xsdt) \in Nat /\ scan.i <= Len(xsdt)
  BY <1>0 DEF ScanInv
<1>2. TypeOK
  <2>1. scan.i \in 0 .. Len(xsdt)
    BY <1>1
  <2>2. at \in Range(Order) \cup {"halted"}
    BY <1>0 DEF GatesInv
  <2>3. stage \in Stages /\ vol \in 0 .. Len(disk) /\ infos \in Nat /\ cores \in Nat
    BY DEF LoaderInv, SearchInv, MemoryInv
  <2>4. Jumped => pt.left \in Nat \ {0} /\ zone \in 1 .. Len(map.entries) - 1
    BY DEF LoaderInv
  <2> QED
    BY <2>1, <2>2, <2>3, <2>4 DEF TypeOK
<1>3. InterruptsInOrder
  BY <1>0 DEF GatesInv
<1>4. TablesAreThere
  <2> SUFFICES ASSUME at \in TablesUsed PROVE TablesAreThere
    BY DEF TablesAreThere, TablesUsed
  <2>1. /\ xsdt \in Seq(TableEntry) /\ scan.madt \in Int /\ scan.hpet \in Int
        /\ IsLast(scan.madt, Len(xsdt), "APIC") /\ IsLast(scan.hpet, Len(xsdt), "HPET")
        /\ ~Missing /\ ~Invalid
    BY <1>0 DEF ScanInv, TablesUsed
  <2>2. /\ scan.madt # NotFound /\ scan.hpet # NotFound
        /\ xsdt[scan.madt + 1].good /\ xsdt[scan.hpet + 1].good
    <3>1. scan.madt # NotFound /\ scan.hpet # NotFound
      BY <2>1 DEF Missing
    <3>2. \A k \in {scan.madt, scan.hpet} : xsdt[k + 1].good
      BY <2>1, Zenon DEF Invalid
    <3> QED
      BY <3>1, <3>2, Zenon
  <2>3. /\ scan.madt = Max({k \in 0 .. Len(xsdt) - 1 : xsdt[k + 1].sig = "APIC"} \cup {NotFound})
        /\ scan.hpet = Max({k \in 0 .. Len(xsdt) - 1 : xsdt[k + 1].sig = "HPET"} \cup {NotFound})
    BY <2>1, LastIsMax
  <2> QED
    BY <2>2, <2>3, Zenon DEF TablesAreThere
<1> QED
  BY <1>2, <1>3, <1>4 DEF StartInOrder

\* From the jump to the idle loop the kernel's start is in order: interrupts that it has
\* turned on find its gates and table, the timer's its handler, and one is lost only in the
\* ways that InterruptsInOrder names; the tables used are the root table's last valid ones,
\* also where the root table has more entries than the loop's counter has values.
THEOREM StartIsInOrder == Spec => []StartInOrder
<1> QED
  BY LoaderInvariant, StartInvariant, InvStartInOrder, PTL
=============================================================================
