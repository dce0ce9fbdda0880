---------------------------- MODULE BuddyProofs ----------------------------
(***************************************************************************)
(* For every depth of the tree, every start of the zone, every free memory *)
(* and any sequence of requests, with the log2ui the kernel is linked      *)
(* with: as long as the code stays inside its arrays the buddy allocators  *)
(* keep lists, flags and counts together and merge what there is to merge; *)
(* a request fails only for want of four times its size; and in the pages  *)
(* of the tree they implement a page allocator.                            *)
(***************************************************************************)
EXTENDS BuddyLow, KernelMathProofs, FiniteSetTheorems

-----------------------------------------------------------------------------
(* Powers of two.                                                          *)

\* The assumption on powers, apart, for the powers that occur.
LEMMA Powers ==
    /\ W \in Nat /\ Depth \in Nat /\ Depth + 3 < W /\ \A k : k = 0 => 2^k = 1
    /\ \A k \in 0 .. W : 2^k \in Nat /\ 2^(k + 1) = 2 * 2^k /\ 2^(k + 1) \in Nat
<1>1. W \in Nat /\ Depth \in Nat /\ Depth + 3 < W
  BY WAssumption, BuddyAssumption
<1>2. \A k : k = 0 => 2^k = 1
  BY PowersAssumption, Zenon
<1>3. ASSUME NEW k \in 0 .. W PROVE 2^k \in Nat /\ 2^(k + 1) = 2 * 2^k
  BY PowersAssumption
<1>4. ASSUME NEW x, NEW y \in Nat, x = 2 * y PROVE x \in Nat
  BY <1>4
<1> QED
  BY <1>1, <1>2, <1>3, <1>4

-----------------------------------------------------------------------------
(* Levels.                                                                 *)

Lvl(e) == IntegerLog(e + 1)

\* What the tree's sizes come to.
LEMMA Sizes ==
    /\ Depth \in Nat /\ W \in Nat /\ Depth + 3 < W /\ TreeSize \in Nat /\ TreeSize >= 1
    /\ 2^Depth \in Nat /\ 2^Depth >= 1 /\ TreeSize = 2 * 2^Depth - 1 /\ TreeSize + 1 <= 2^W
    /\ 2^W \in Nat /\ \A l \in Levels : l \in 0 .. W /\ 2^l \in Nat /\ 2^l >= 1 /\ 2^l <= 2^Depth
<1>1. Depth \in 0 .. W /\ Depth + 1 \in 0 .. W /\ W \in 0 .. W /\ Depth + 1 < W
  BY Powers
<1>2. 2^(Depth + 1) = 2 * 2^Depth /\ 2^Depth \in Nat /\ 2^Depth >= 1 /\ 2^W \in Nat
  BY <1>1, Powers, PowerPositive
<1>3. 2 * 2^(Depth + 1) <= 2^W /\ 2^(Depth + 1) \in Nat
  BY <1>1, PowerGrows, PowerPositive
<1>4. TreeSize = 2 * 2^Depth - 1
  BY <1>2 DEF TreeSize
<1>5. ASSUME NEW l \in Levels PROVE l \in 0 .. W /\ 2^l \in Nat /\ 2^l >= 1 /\ 2^l <= 2^Depth
  <2>1. l \in 0 .. W
    BY Powers DEF Levels
  <2>2. 2^l \in Nat /\ 2^l >= 1
    BY <2>1, PowerPositive
  <2>3. CASE l = Depth
    BY <2>1, <2>2, <2>3
  <2>4. CASE l < Depth
    <3>1. 2 * 2^l <= 2^Depth
      BY <1>1, <2>1, <2>4, PowerGrows
    <3> QED
      BY <1>2, <2>1, <2>2, <3>1
  <2> QED
    BY <2>3, <2>4, Powers DEF Levels
<1> QED
  BY <1>2, <1>3, <1>4, <1>5, Powers

\* A node belongs to the level whose powers it lies between.
LEMMA LevelIs ==
    ASSUME NEW k \in Levels, NEW e \in Nat, 2^k <= e + 1, e + 1 < 2 * 2^k
    PROVE  Lvl(e) = k
<1>1. k \in 0 .. W - 1 /\ e + 1 \in Nat
  BY Powers DEF Levels
<1> QED
  BY <1>1, LogIs DEF Lvl

\* Every node has a level, and lies between its powers.
LEMMA LevelOf ==
    ASSUME NEW e \in Nodes
    PROVE  /\ e \in Nat /\ Lvl(e) \in Levels
           /\ 2^Lvl(e) <= e + 1 /\ e + 1 < 2 * 2^Lvl(e) /\ 2^Lvl(e) \in Nat /\ 2^Lvl(e) >= 1
<1> DEFINE S == {k \in Levels : e + 1 < 2 * 2^k}
<1>1. e \in Nat /\ e + 1 < 2 * 2^Depth /\ Depth \in Levels
  BY Sizes DEF Nodes, Levels
<1>2. S \in SUBSET Nat /\ S # {}
  BY <1>1 DEF Levels
<1>3. PICK k \in S : \A i \in S : k <= i
  BY <1>2, Least
<1>4. k \in Levels /\ k \in Nat /\ e + 1 < 2 * 2^k /\ 2^k \in Nat /\ 2^k >= 1
  BY <1>3, Sizes DEF Levels
<1>5. 2^k <= e + 1
  <2>1. CASE k = 0
    BY <1>1, <2>1, Powers
  <2>2. CASE k # 0
    <3>1. k - 1 \in Levels /\ k - 1 \in 0 .. W /\ (k - 1) + 1 = k /\ ~(k <= k - 1)
      BY <1>4, <2>2, Powers DEF Levels
    <3>2. ~(e + 1 < 2 * 2^(k - 1))
      BY <1>3, <3>1
    <3>3. 2^((k - 1) + 1) = 2 * 2^(k - 1) /\ 2^(k - 1) \in Nat
      BY <3>1, Powers
    <3>4. 2^k = 2 * 2^(k - 1)
      BY <3>1, <3>3
    <3> QED
      BY <1>1, <3>2, <3>3, <3>4
  <2> QED
    BY <2>1, <2>2
<1>6. Lvl(e) = k
  BY <1>1, <1>4, <1>5, LevelIs
<1> QED
  BY <1>1, <1>4, <1>5, <1>6

\* The root alone is at level 0.
LEMMA RootLevel ==
    0 \in Nodes /\ Lvl(0) = 0 /\ \A e \in Nodes : Lvl(e) = 0 => e = 0
<1>1. 0 \in Nodes /\ 0 \in Levels
  BY Sizes DEF Nodes, Levels
<1>2. ASSUME NEW e \in Nodes, Lvl(e) = 0 PROVE e = 0
  <2>1. e \in Nat /\ e + 1 < 2 * 2^Lvl(e)
    BY LevelOf
  <2>2. 2^Lvl(e) = 1
    BY <1>2, Powers
  <2> QED
    BY <2>1, <2>2
<1>3. Lvl(0) = 0
  <2>1. ASSUME NEW k, k = 0 PROVE Lvl(0) = k
    <3>1. 2^k = 1 /\ k \in Levels
      BY <1>1, <2>1, Powers
    <3>2. 2^k <= 0 + 1 /\ 0 + 1 < 2 * 2^k
      BY <3>1
    <3> QED
      BY <3>1, <3>2, LevelIs
  <2> QED
    BY <2>1
<1> QED
  BY <1>1, <1>2, <1>3

\* One level down a block has two children.
LEMMA Children ==
    ASSUME NEW e \in Nodes, Lvl(e) < Depth
    PROVE  /\ e * 2 + 1 \in Nodes /\ e * 2 + 2 \in Nodes
           /\ Lvl(e * 2 + 1) = Lvl(e) + 1 /\ Lvl(e * 2 + 2) = Lvl(e) + 1 /\ Lvl(e) + 1 \in Levels
<1> DEFINE l == Lvl(e)
<1>1. /\ e \in Nat /\ l \in Levels /\ 2^l \in Nat /\ 2^l >= 1 /\ 2^l <= e + 1 /\ e + 1 < 2 * 2^l
  BY LevelOf
<1> HIDE DEF l
<1>2. l + 1 \in Levels /\ l \in 0 .. W /\ l \in Nat
  BY <1>1, Powers DEF Levels, l
<1>3. 2^(l + 1) = 2 * 2^l
  BY <1>2, Powers
<1>4. 2^(l + 1) \in Nat /\ 2^(l + 1) <= 2^Depth /\ 2^Depth \in Nat
  BY <1>2, Sizes
<1>5. ASSUME NEW c \in {e * 2 + 1, e * 2 + 2} PROVE c \in Nodes /\ Lvl(c) = l + 1
  <2>1. c \in Nat /\ 2^(l + 1) <= c + 1 /\ c + 1 < 2 * 2^(l + 1)
    BY <1>1, <1>3
  <2>2. c \in Nodes
    BY <1>4, <2>1, Sizes DEF Nodes
  <2> QED
    BY <1>2, <2>1, <2>2, LevelIs
<1> QED
  BY <1>2, <1>5 DEF l

\* One level up it has a parent, whose children are it and its buddy.
LEMMA Parents ==
    ASSUME NEW e \in Nodes, Lvl(e) > 0
    PROVE  LET p == (e - 1) \div 2
               b == get_buddy(e)
           IN  /\ p \in Nodes /\ Lvl(p) = Lvl(e) - 1 /\ Lvl(e) - 1 \in Levels /\ Lvl(p) < Depth
               /\ b \in Nodes /\ Lvl(b) = Lvl(e) /\ b # e /\ get_buddy(b) = e /\ e # 0 /\ b # 0
               /\ \/ e = p * 2 + 1 /\ b = p * 2 + 2
                  \/ e = p * 2 + 2 /\ b = p * 2 + 1
<1> DEFINE l == Lvl(e)
           p == (e - 1) \div 2
           b == get_buddy(e)
<1>1. /\ e \in Nat /\ l \in Levels /\ 2^l \in Nat /\ 2^l >= 1 /\ 2^l <= e + 1 /\ e + 1 < 2 * 2^l
  BY LevelOf
<1>2. e # 0
  BY RootLevel
<1>3. /\ p \in Nat /\ b \in Nat /\ b # 0 /\ b # e /\ get_buddy(b) = e
      /\ (e = p * 2 + 1 /\ b = p * 2 + 2) \/ (e = p * 2 + 2 /\ b = p * 2 + 1)
  BY <1>1, <1>2 DEF get_buddy
<1> HIDE DEF p, b
<1>4. l - 1 \in Levels /\ l - 1 \in 0 .. W /\ (l - 1) + 1 = l /\ l - 1 < Depth /\ l \in Nat
  BY <1>1, Powers DEF Levels
<1>5. 2^((l - 1) + 1) = 2 * 2^(l - 1) /\ 2^(l - 1) \in Nat
  BY <1>4, Powers
<1>6. 2^l = 2 * 2^(l - 1)
  BY <1>4, <1>5
<1>7. p \in Nodes
  <2>1. e <= TreeSize - 1 /\ TreeSize \in Nat /\ p <= e
    BY <1>1, <1>3, Sizes DEF Nodes
  <2> QED
    BY <1>1, <1>3, <2>1 DEF Nodes
<1>8. Lvl(p) = l - 1
  <2>1. 2^(l - 1) <= p + 1 /\ p + 1 < 2 * 2^(l - 1)
    BY <1>1, <1>3, <1>5, <1>6
  <2> QED
    BY <1>3, <1>4, <2>1, LevelIs
<1>9. b \in Nodes /\ Lvl(b) = l
  <2>1. p * 2 + 1 \in Nodes /\ p * 2 + 2 \in Nodes /\ Lvl(p * 2 + 1) = l /\ Lvl(p * 2 + 2) = l
    BY <1>4, <1>7, <1>8, Children
  <2> QED
    BY <1>3, <2>1
<1> QED
  BY <1>2, <1>3, <1>4, <1>7, <1>8, <1>9 DEF p, b

-----------------------------------------------------------------------------
(* The pages of blocks.                                                    *)

\* A block is twice as large as one of the next level.
LEMMA BlockSizes ==
    ASSUME NEW l \in Levels
    PROVE  /\ l \in Nat /\ BlockPages(l) \in Nat /\ BlockPages(l) >= 1
           /\ l < Depth => l + 1 \in Levels /\ BlockPages(l) = 2 * BlockPages(l + 1)
<1>1. Depth - l \in 0 .. W /\ l \in Nat
  BY Powers DEF Levels
<1>2. BlockPages(l) \in Nat /\ BlockPages(l) >= 1
  BY <1>1, PowerPositive DEF BlockPages
<1>3. ASSUME l < Depth PROVE l + 1 \in Levels /\ BlockPages(l) = 2 * BlockPages(l + 1)
  <2>1. Depth - (l + 1) \in 0 .. W /\ (Depth - (l + 1)) + 1 = Depth - l /\ l + 1 \in Levels
    BY <1>1, <1>3, Powers DEF Levels
  <2>2. 2^((Depth - (l + 1)) + 1) = 2 * 2^(Depth - (l + 1))
    BY <2>1, Powers
  <2> QED
    BY <2>1, <2>2 DEF BlockPages
<1> QED
  BY <1>1, <1>2, <1>3

\* The blocks of a level are as many as fill the zone.
LEMMA LevelFills ==
    ASSUME NEW l \in Levels
    PROVE  2^l * BlockPages(l) = 2^Depth
<1> DEFINE B == {k \in Levels : 2^k * BlockPages(k) # 2^Depth}
<1>1. B \in SUBSET Nat
  BY DEF Levels
<1>2. CASE B # {}
  <2>1. PICK n \in B : \A k \in B : n <= k
    BY <1>1, <1>2, Least
  <2>2. n \in Levels /\ n \in Nat /\ 2^n * BlockPages(n) # 2^Depth
    BY <1>1, <2>1
  <2>3. n # 0
    <3>1. ASSUME n = 0 PROVE FALSE
      <4>1. 2^n = 1 /\ Depth - n = Depth /\ 2^Depth \in Nat
        BY <3>1, Powers, Sizes
      <4>2. BlockPages(n) = 2^Depth
        BY <4>1 DEF BlockPages
      <4> QED
        BY <2>2, <4>1, <4>2
    <3> QED
      BY <3>1
  <2>4. n - 1 \in Levels /\ n - 1 < Depth /\ (n - 1) + 1 = n /\ ~(n <= n - 1) /\ n - 1 \in 0 .. W
    BY <2>2, <2>3, Powers DEF Levels
  <2>5. 2^(n - 1) * BlockPages(n - 1) = 2^Depth
    BY <2>1, <2>4
  <2>6. BlockPages(n - 1) = 2 * BlockPages(n) /\ BlockPages(n) \in Nat
    BY <2>2, <2>4, BlockSizes
  <2>7. 2^n = 2 * 2^(n - 1) /\ 2^(n - 1) \in Nat
    <3>1. 2^((n - 1) + 1) = 2 * 2^(n - 1) /\ 2^(n - 1) \in Nat
      BY <2>4, Powers
    <3> QED
      BY <2>4, <3>1
  <2>8. ASSUME NEW x \in Nat, NEW y \in Nat PROVE (2 * x) * y = x * (2 * y)
    OBVIOUS
  <2>9. (2 * 2^(n - 1)) * BlockPages(n) = 2^(n - 1) * (2 * BlockPages(n))
    BY <2>6, <2>7, <2>8
  <2> QED
    BY <2>2, <2>5, <2>6, <2>7, <2>9
<1> QED
  BY <1>2

\* The place of a node in its level.
Idx(e) == e + 1 - 2^Lvl(e)

\* The pages of a block are an interval of its size, at its place.
LEMMA PagesAre ==
    ASSUME NEW e \in Nodes
    PROVE  LET s == BlockPages(Lvl(e))
           IN  /\ Idx(e) \in Nat /\ Idx(e) < 2^Lvl(e) /\ s \in Nat /\ s >= 1
               /\ Idx(e) * s \in Nat
               /\ PagesOf(e) = Idx(e) * s .. Idx(e) * s + s - 1
<1> DEFINE s == BlockPages(Lvl(e))
<1>1. /\ e \in Nat /\ Lvl(e) \in Levels /\ 2^Lvl(e) <= e + 1 /\ e + 1 < 2 * 2^Lvl(e) /\ 2^Lvl(e) \in Nat
  BY LevelOf
<1>2. Idx(e) \in Nat /\ Idx(e) < 2^Lvl(e) /\ e - LevelStart(Lvl(e)) = Idx(e)
  BY <1>1 DEF Idx, LevelStart
<1>3. s \in Nat /\ s >= 1
  BY <1>1, BlockSizes
<1>4. PagesOf(e) = (e - LevelStart(Lvl(e))) * s .. (e - LevelStart(Lvl(e))) * s + s - 1
  BY Zenon DEF PagesOf, Lvl
<1>5. ASSUME NEW x \in Nat, NEW y \in Nat PROVE x * y \in Nat
  OBVIOUS
<1> QED
  BY <1>2, <1>3, <1>4, <1>5

\* Some arithmetic on intervals: of two places of a level the greater begins behind the
\* other's end.
LEMMA Places ==
    ASSUME NEW i \in Nat, NEW j \in Nat, NEW s \in Nat, i < j
    PROVE  i * s + s <= j * s
OBVIOUS

\* A block has a page, and lies in the zone.
LEMMA PagesInZone ==
    ASSUME NEW e \in Nodes
    PROVE  PagesOf(e) \subseteq 0 .. 2^Depth - 1 /\ PagesOf(e) # {}
<1> DEFINE s == BlockPages(Lvl(e))
           i == Idx(e)
           n == 2^Lvl(e)
<1>1. i \in Nat /\ i < n /\ s \in Nat /\ s >= 1 /\ i * s \in Nat /\ PagesOf(e) = i * s .. i * s + s - 1
  BY PagesAre
<1>2. n \in Nat /\ n * s = 2^Depth /\ 2^Depth \in Nat
  BY LevelOf, LevelFills, Sizes
<1> HIDE DEF s, i, n
<1>3. i * s + s <= n * s
  BY <1>1, <1>2, Places
<1>4. ASSUME NEW x \in Nat, NEW y \in Nat, NEW z \in Nat, y >= 1, x + y <= z
      PROVE  (x .. x + y - 1) \subseteq 0 .. z - 1 /\ x .. x + y - 1 # {}
  <2>1. x \in x .. x + y - 1
    BY <1>4
  <2>2. ASSUME NEW k \in x .. x + y - 1 PROVE k \in 0 .. z - 1
    BY <1>4
  <2> HIDE <1>4
  <2> QED
    BY <2>1, <2>2
<1> QED
  BY <1>1, <1>2, <1>3, <1>4

\* Two blocks of a level share no page.
LEMMA LevelDisjoint ==
    ASSUME NEW e \in Nodes, NEW f \in Nodes, Lvl(e) = Lvl(f), e # f
    PROVE  PagesOf(e) \cap PagesOf(f) = {}
<1> DEFINE s == BlockPages(Lvl(e))
           i == Idx(e)
           j == Idx(f)
<1>1. i \in Nat /\ s \in Nat /\ i * s \in Nat /\ PagesOf(e) = i * s .. i * s + s - 1
  BY PagesAre
<1>2. j \in Nat /\ j * s \in Nat /\ PagesOf(f) = j * s .. j * s + s - 1
  BY PagesAre
<1>3. i # j
  <2>1. e \in Nat /\ f \in Nat /\ 2^Lvl(e) \in Nat
    BY LevelOf
  <2> QED
    BY <2>1 DEF Idx
<1> HIDE DEF s, i, j
<1>4. i * s + s <= j * s \/ j * s + s <= i * s
  <2>1. i < j \/ j < i
    BY <1>1, <1>2, <1>3
  <2> QED
    BY <1>1, <1>2, <2>1, Places
<1> QED
  BY <1>1, <1>2, <1>4

\* A block is its two halves.
LEMMA Halves ==
    ASSUME NEW e \in Nodes, Lvl(e) < Depth
    PROVE  /\ PagesOf(e) = PagesOf(e * 2 + 1) \cup PagesOf(e * 2 + 2)
           /\ PagesOf(e * 2 + 1) \cap PagesOf(e * 2 + 2) = {}
<1> DEFINE l == Lvl(e)
           s == BlockPages(l)
           h == BlockPages(l + 1)
           i == Idx(e)
           a == e * 2 + 1
           b == e * 2 + 2
<1>1. /\ e \in Nat /\ l \in Levels /\ a \in Nodes /\ b \in Nodes /\ Lvl(a) = l + 1 /\ Lvl(b) = l + 1
      /\ 2^l \in Nat
  BY LevelOf, Children
<1>2. s = 2 * h /\ h \in Nat
  BY <1>1, BlockSizes
<1>3. i \in Nat /\ PagesOf(e) = i * s .. i * s + s - 1
  BY PagesAre
<1>4. PagesOf(a) = Idx(a) * h .. Idx(a) * h + h - 1 /\ PagesOf(b) = Idx(b) * h .. Idx(b) * h + h - 1
  BY <1>1, PagesAre
<1>5. Idx(a) = 2 * i /\ Idx(b) = 2 * i + 1
  <2>1. 2^(l + 1) = 2 * 2^l
    BY <1>1, Sizes, Powers
  <2> HIDE DEF l
  <2> QED
    BY <1>1, <2>1 DEF Idx, l
<1> HIDE DEF l, s, h, i, a, b
<1>6. (2 * i) * h = i * s /\ (2 * i + 1) * h = i * s + h /\ i * s \in Nat
  BY <1>2, <1>3
<1>7. PagesOf(a) = i * s .. i * s + h - 1 /\ PagesOf(b) = i * s + h .. i * s + h + h - 1
  BY <1>4, <1>5, <1>6
<1>8. i * s + s - 1 = i * s + h + h - 1
  BY <1>2, <1>6
<1>9. ASSUME NEW x \in Nat
      PROVE  /\ x .. x + h + h - 1 = (x .. x + h - 1) \cup (x + h .. x + h + h - 1)
             /\ (x .. x + h - 1) \cap (x + h .. x + h + h - 1) = {}
  BY <1>2
<1>10. PagesOf(e) = PagesOf(a) \cup PagesOf(b) /\ PagesOf(a) \cap PagesOf(b) = {}
  BY <1>3, <1>6, <1>7, <1>8, <1>9
<1> QED
  BY <1>10 DEF a, b

-----------------------------------------------------------------------------
(* Rings.  The cells C are linked in a circle that a walk from h, along    *)
(* nx, goes all the way round, and pv undoes nx.                           *)

IsRing(h, C, nx, pv) ==
    /\ h \in C
    /\ \A x \in C : nx[x] \in C /\ pv[nx[x]] = x /\ pv[x] \in C /\ nx[pv[x]] = x
    /\ \A T \in SUBSET C : (h \in T /\ \A x \in T : nx[x] \in T) => T = C

\* The links after e has been inserted behind f.
Inserted(nx, f, e) == [nx EXCEPT ![e] = nx[f], ![f] = e]
InsertedBack(pv, f, e, ny) == [[pv EXCEPT ![e] = f] EXCEPT ![ny[e]] = e]

\* What a ring has become when e was inserted before h.
RingWith(D, C, h, nx, pv, e) ==
    LET ny == Inserted(nx, pv[h], e)
        pw == InsertedBack(pv, pv[h], e, ny)
    IN  /\ IsRing(h, C \cup {e}, ny, pw) /\ pw[h] = e
        /\ ny \in [D -> D] /\ pw \in [D -> D]
        /\ \A x \in D : x \notin C \cup {e} => ny[x] = nx[x] /\ pw[x] = pv[x]

\* A cell inserted before h.
LEMMA RingInsert ==
    ASSUME NEW D, NEW C, C \subseteq D, NEW h, h \in C, NEW nx, nx \in [D -> D], NEW pv, pv \in [D -> D],
           IsRing(h, C, nx, pv), NEW e, e \in D, e \notin C
    PROVE  RingWith(D, C, h, nx, pv, e)
<1> DEFINE f == pv[h]
           ny == Inserted(nx, f, e)
           pw == InsertedBack(pv, f, e, ny)
<1>1. f \in C /\ nx[f] = h /\ f # e /\ h # e /\ f \in D /\ h \in D
  BY DEF IsRing
<1>2. /\ ny \in [D -> D] /\ ny[e] = h /\ ny[f] = e
      /\ \A x \in D : (x # e /\ x # f) => ny[x] = nx[x]
  BY <1>1 DEF Inserted
<1> HIDE DEF ny
<1>3. /\ pw \in [D -> D] /\ pw[e] = f /\ pw[h] = e
      /\ \A x \in D : (x # e /\ x # h) => pw[x] = pv[x]
  BY <1>1, <1>2 DEF InsertedBack
<1> HIDE DEF pw
<1>4. ASSUME NEW x \in C \cup {e}
      PROVE  ny[x] \in C \cup {e} /\ pw[ny[x]] = x /\ pw[x] \in C \cup {e} /\ ny[pw[x]] = x
  <2>1. CASE x = e
    BY <1>1, <1>2, <1>3, <2>1
  <2>2. CASE x \in C /\ x # e
    <3>1. x \in D /\ nx[x] \in C /\ nx[x] \in D /\ pv[nx[x]] = x /\ pv[x] \in C /\ pv[x] \in D /\ nx[pv[x]] = x
      BY <2>2 DEF IsRing
    <3>2. ny[x] \in C \cup {e} /\ pw[ny[x]] = x
      <4>1. CASE x = f
        BY <1>1, <1>2, <1>3, <4>1
      <4>2. CASE x # f
        <5>1. nx[x] # h
          BY <1>1, <3>1, <4>2
        <5> QED
          BY <1>2, <1>3, <2>2, <3>1, <4>2, <5>1
      <4> QED
        BY <4>1, <4>2
    <3>3. pw[x] \in C \cup {e} /\ ny[pw[x]] = x
      <4>1. CASE x = h
        BY <1>1, <1>2, <1>3, <4>1
      <4>2. CASE x # h
        <5>1. pv[x] # f
          BY <1>1, <3>1, <4>2
        <5> QED
          BY <1>2, <1>3, <2>2, <3>1, <4>2, <5>1
      <4> QED
        BY <4>1, <4>2
    <3> QED
      BY <3>2, <3>3
  <2> QED
    BY <1>4, <2>1, <2>2
<1>5. ASSUME NEW T \in SUBSET (C \cup {e}), h \in T, \A x \in T : ny[x] \in T
      PROVE  T = C \cup {e}
  <2> DEFINE U == T \cap C
  <2>1. U \in SUBSET C /\ h \in U
    BY <1>5
  <2>2. ASSUME NEW x \in U PROVE nx[x] \in U
    <3>1. x \in C /\ x \in D /\ nx[x] \in C /\ ny[x] \in T /\ x # e
      BY <1>5 DEF IsRing
    <3>2. CASE x = f
      BY <1>1, <2>1, <3>2
    <3>3. CASE x # f
      BY <1>2, <3>1, <3>3
    <3> QED
      BY <3>2, <3>3
  <2>3. U = C
    BY <2>1, <2>2, Zenon DEF IsRing
  <2>4. e \in T
    BY <1>1, <1>2, <1>5, <2>3
  <2> QED
    BY <2>3, <2>4
<1>6. IsRing(h, C \cup {e}, ny, pw)
  BY <1>4, <1>5, Zenon DEF IsRing
<1>7. \A x \in D : x \notin C \cup {e} => ny[x] = nx[x] /\ pw[x] = pv[x]
  BY <1>1, <1>2, <1>3
<1> QED
  BY <1>2, <1>3, <1>6, <1>7 DEF f, ny, pw, RingWith

\* The links after e has been taken out.
Removed(nx, pv, e) == [nx EXCEPT ![pv[e]] = nx[e]]

\* What a ring has become when e was taken out.
RingWithout(D, C, h, nx, pv, e) ==
    LET ny == Removed(nx, pv, e)
        pw == Removed(pv, nx, e)
    IN  /\ IsRing(h, C \ {e}, ny, pw)
        /\ pw[h] = IF pv[h] = e THEN pv[e] ELSE pv[h]
        /\ pw[e] = pv[e] /\ pv[e] \in C \ {e}
        /\ ny \in [D -> D] /\ pw \in [D -> D]
        /\ \A x \in D : x \notin C => ny[x] = nx[x] /\ pw[x] = pv[x]

\* A cell other than h leaves the ring.
LEMMA RingDelete ==
    ASSUME NEW D, NEW C, C \subseteq D, NEW h, h \in C, NEW nx, nx \in [D -> D], NEW pv, pv \in [D -> D],
           IsRing(h, C, nx, pv), NEW e, e \in C, e # h
    PROVE  RingWithout(D, C, h, nx, pv, e)
<1> DEFINE ny == Removed(nx, pv, e)
           pw == Removed(pv, nx, e)
           a == nx[e]
           b == pv[e]
<1>1. a \in C /\ b \in C /\ pv[a] = e /\ nx[b] = e /\ a \in D /\ b \in D /\ e \in D /\ C \subseteq D
  BY DEF IsRing
<1>2. a # e /\ b # e
  <2>1. SUFFICES ASSUME a = e \/ b = e PROVE FALSE
    OBVIOUS
  <2>2. a = e
    BY <1>1, <2>1 DEF IsRing
  <2>3. ASSUME NEW x \in C \ {e} PROVE nx[x] \in C \ {e}
    BY <1>1, <2>2 DEF IsRing
  <2>4. C \ {e} \in SUBSET C /\ h \in C \ {e}
    OBVIOUS
  <2>5. C \ {e} = C
    BY <2>3, <2>4, Zenon DEF IsRing
  <2> QED
    BY <2>5
<1>3. /\ ny \in [D -> D] /\ ny[b] = a /\ \A x \in D : x # b => ny[x] = nx[x]
      /\ pw \in [D -> D] /\ pw[a] = b /\ \A x \in D : x # a => pw[x] = pv[x]
  BY <1>1 DEF Removed
<1> HIDE DEF a, b, ny, pw
<1>4. ASSUME NEW x \in C \ {e}
      PROVE  ny[x] \in C \ {e} /\ pw[ny[x]] = x /\ pw[x] \in C \ {e} /\ ny[pw[x]] = x
  <2>1. /\ x \in D /\ nx[x] \in C /\ nx[x] \in D /\ pv[nx[x]] = x /\ pv[x] \in C /\ pv[x] \in D
        /\ nx[pv[x]] = x /\ x # e
    BY <1>1 DEF IsRing
  <2>2. ny[x] \in C \ {e} /\ pw[ny[x]] = x
    <3>1. CASE x = b
      BY <1>1, <1>2, <1>3, <3>1
    <3>2. CASE x # b
      <4>1. nx[x] # e /\ nx[x] # a
        BY <2>1, <1>1, <3>2 DEF b
      <4> QED
        BY <1>3, <2>1, <3>2, <4>1
    <3> QED
      BY <3>1, <3>2
  <2>3. pw[x] \in C \ {e} /\ ny[pw[x]] = x
    <3>1. CASE x = a
      BY <1>1, <1>2, <1>3, <3>1
    <3>2. CASE x # a
      <4>1. pv[x] # e /\ pv[x] # b
        BY <2>1, <1>1, <3>2 DEF a
      <4> QED
        BY <1>3, <2>1, <3>2, <4>1
    <3> QED
      BY <3>1, <3>2
  <2> QED
    BY <2>2, <2>3
<1>5. ASSUME NEW T \in SUBSET (C \ {e}), h \in T, \A x \in T : ny[x] \in T
      PROVE  T = C \ {e}
  <2>1. CASE b \in T
    <3> DEFINE U == T \cup {e}
    <3>1. U \in SUBSET C /\ h \in U
      BY <1>5
    <3>2. ASSUME NEW x \in U PROVE nx[x] \in U
      <4>1. CASE x = e
        BY <1>3, <1>5, <2>1, <4>1 DEF a
      <4>2. CASE x = b
        BY <1>1, <4>2
      <4>3. CASE x \in T /\ x # b
        <5>1. x \in D
          BY <1>1, <1>5
        <5> QED
          BY <1>3, <1>5, <4>3, <5>1
      <4> QED
        BY <4>1, <4>2, <4>3
    <3>3. U = C
      BY <3>1, <3>2, Zenon DEF IsRing
    <3> QED
      BY <1>5, <3>3
  <2>2. CASE b \notin T
    <3>1. T \in SUBSET C /\ \A x \in T : nx[x] \in T
      BY <1>1, <1>3, <1>5, <2>2
    <3>2. T = C
      BY <1>5, <3>1, Zenon DEF IsRing
    <3> QED
      BY <1>5, <3>2
  <2> QED
    BY <2>1, <2>2
<1>6. IsRing(h, C \ {e}, ny, pw)
  BY <1>4, <1>5, Zenon DEF IsRing
<1>7. pw[h] = IF pv[h] = e THEN pv[e] ELSE pv[h]
  <2>1. h \in D /\ nx[pv[h]] = h
    BY <1>1 DEF IsRing
  <2>2. CASE h = a
    BY <1>1, <1>3, <2>2 DEF b
  <2>3. CASE h # a
    <3>1. pv[h] # e
      BY <2>1, <2>3 DEF a
    <3> QED
      BY <1>3, <2>1, <2>3, <3>1
  <2> QED
    BY <2>2, <2>3
<1>8. pw[e] = pv[e]
  BY <1>1, <1>2, <1>3
<1>9. ASSUME NEW x \in D, x \notin C PROVE ny[x] = nx[x] /\ pw[x] = pv[x]
  BY <1>1, <1>3, <1>9
<1> QED
  BY <1>1, <1>2, <1>3, <1>6, <1>7, <1>8, <1>9 DEF b, ny, pw, RingWithout

\* A ring is the same when its links are.
LEMMA RingSame ==
    ASSUME NEW h, NEW C, NEW nx, NEW pv, NEW ny, NEW pw, IsRing(h, C, nx, pv),
           \A x \in C : ny[x] = nx[x] /\ pw[x] = pv[x]
    PROVE  IsRing(h, C, ny, pw)
<1>1. \A x \in C : ny[x] \in C /\ pw[ny[x]] = x /\ pw[x] \in C /\ ny[pw[x]] = x
  BY DEF IsRing
<1>2. ASSUME NEW T \in SUBSET C, h \in T, \A x \in T : ny[x] \in T PROVE T = C
  <2>1. \A x \in T : nx[x] \in T
    BY <1>2
  <2> QED
    BY <1>2, <2>1, Zenon DEF IsRing
<1> QED
  BY <1>1, <1>2, Zenon DEF IsRing

-----------------------------------------------------------------------------
(* The free lists.                                                         *)

\* The bit length of a number between two powers is one more than its logarithm.
LEMMA BitLength ==
    ASSUME NEW k \in 0 .. W - 1, NEW n \in Nat, 2^k <= n, n < 2 * 2^k
    PROVE  log2ui(n) = k + 1
<1> DEFINE S == Bits(n)
<1>1. k \in S /\ S \subseteq 0 .. k /\ k \in Nat /\ W \in Nat
  BY HighestBit, Powers
<1> HIDE DEF S
<1>2. \A x \in S : (\A y \in S : x >= y) => x = k
  BY <1>1
<1>3. k \in S /\ \A y \in S : k >= y
  BY <1>1
<1>4. Max(S) = CHOOSE x \in S : \A y \in S : x >= y
  BY DEF Max
<1>5. Max(S) = k
  BY <1>2, <1>3, <1>4, Zenon
<1>6. log2ui(n) = W - (W - 1 - k)
  BY <1>5 DEF log2ui, clz, S
<1> QED
  BY <1>1, <1>6

\* So the list of a node is the one behind its level in the tree.
LEMMA GetLevel ==
    ASSUME NEW e \in Nodes
    PROVE  get_level(e) = Lvl(e) + 1 /\ log2ui(e + 1) = Lvl(e) + 1
<1>1. e \in Nat /\ Lvl(e) \in Levels /\ 2^Lvl(e) <= e + 1 /\ e + 1 < 2 * 2^Lvl(e) /\ 1 + e = e + 1
  BY LevelOf
<1>2. Lvl(e) \in 0 .. W - 1
  BY <1>1, Powers DEF Levels
<1>3. log2ui(e + 1) = Lvl(e) + 1
  BY <1>1, <1>2, BitLength
<1> QED
  BY <1>1, <1>3 DEF get_level

\* Heads lie behind the nodes, each at its own place.
LEMMA HeadPlaces ==
    /\ Nodes \subseteq Cells /\ \A l \in Levels : ListHead(l) \in Cells /\ ListHead(l) \notin Nodes
    /\ \A k, l \in Levels : ListHead(k) = ListHead(l) => k = l
BY Sizes DEF Cells, Heads, ListHead, Nodes, Levels

\* There are two lists that count wrong, and at least one more.
LEMMA FirstLists ==
    Depth >= 2 /\ 0 \in Levels /\ 1 \in Levels /\ 2 \in Levels
BY BuddyAssumption DEF Levels

\* The heads of those two have no level of their own.
LEMMA HeadLevel ==
    ASSUME NEW l \in {0, 1}
    PROVE  get_level(ListHead(l)) \notin Levels
<1>1. Depth + 1 \in 0 .. W - 1 /\ Depth + 1 \in 0 .. W /\ Depth \in 0 .. W /\ Depth \in Nat
  BY Powers
<1>2. 2^(Depth + 1) = 2 * 2^Depth /\ 2^Depth \in Nat /\ 2^Depth >= 1 /\ TreeSize = 2 * 2^Depth - 1
  BY <1>1, Powers, Sizes
<1> DEFINE n == 1 + ListHead(l)
<1>3. n \in Nat /\ 2^(Depth + 1) <= n /\ n < 2 * 2^(Depth + 1)
  BY <1>2 DEF ListHead
<1> HIDE DEF n
<1>4. log2ui(n) = (Depth + 1) + 1
  BY <1>1, <1>3, BitLength
<1>5. (Depth + 1) + 1 \notin Levels
  BY <1>1 DEF Levels
<1> QED
  BY <1>4, <1>5 DEF get_level, n

\* The nodes of S on list l.
At(S, l) == {e \in S : Lvl(e) + 1 = l}

Ring(l, R) == R \cup {ListHead(l)}

Shape(b) ==
    /\ b.state \in [Cells -> States] /\ \A l \in Levels : b.state[ListHead(l)] = USED
    /\ b.next \in [Cells -> Cells] /\ b.prev \in [Cells -> Cells]
    /\ b.free \in [Levels -> Cells] /\ b.size \in [Levels -> Word]

\* What the code counts on list l when it holds the nodes of R.
Counted(l, R) ==
    CASE l = 0 -> 1
      [] l = 1 -> IF R = {} THEN 2^W - 1 ELSE 0
      [] OTHER -> Cardinality(R)

\* List l holds the nodes of R.
ListHolds(b, l, R) ==
    /\ IsRing(ListHead(l), Ring(l, R), b.next, b.prev)
    /\ b.free[l] = b.prev[ListHead(l)]
    /\ b.size[l] = Counted(l, R)

\* The nodes that have a list: all but the pages.
Listed == {e \in Nodes : Lvl(e) < Depth}

\* The lists hold the nodes of S.
Lists(b, S) == Shape(b) /\ S \subseteq Listed /\ \A l \in Levels : ListHolds(b, l, At(S, l))

\* The list of a node that has one.
LEMMA ListOf ==
    ASSUME NEW e \in Listed
    PROVE  /\ e \in Nodes /\ Lvl(e) \in Levels /\ Lvl(e) \in Nat /\ Lvl(e) + 1 \in Levels /\ Lvl(e) + 1 >= 1
           /\ Lvl(e) + 1 = 1 => e = 0
<1>1. e \in Nodes /\ Lvl(e) \in Levels /\ Lvl(e) < Depth
  BY LevelOf DEF Listed
<1>2. Lvl(e) \in Nat /\ Lvl(e) + 1 \in Levels /\ Lvl(e) + 1 >= 1 /\ (Lvl(e) + 1 = 1 => Lvl(e) = 0)
  BY <1>1, Sizes DEF Levels
<1> QED
  BY <1>1, <1>2, RootLevel

\* A list has fewer nodes than a word can count.
LEMMA AtCount ==
    ASSUME NEW S \in SUBSET Listed, NEW l \in Levels
    PROVE  /\ IsFiniteSet(At(S, l)) /\ Cardinality(At(S, l)) \in Nat /\ Cardinality(At(S, l)) < 2^W
           /\ At(S, 0) = {} /\ At(S, 1) \subseteq {0}
<1>1. Nodes = 0 .. TreeSize - 1 /\ TreeSize \in Nat /\ TreeSize >= 1 /\ TreeSize + 1 <= 2^W /\ 2^W \in Nat
  BY Sizes DEF Nodes
<1>2. IsFiniteSet(Nodes) /\ Cardinality(Nodes) = TreeSize
  <2>1. 0 \in Int /\ TreeSize - 1 \in Int /\ ~(0 > TreeSize - 1) /\ TreeSize - 1 - 0 + 1 = TreeSize
    BY <1>1
  <2> QED
    BY <1>1, <2>1, FS_Interval
<1>3. At(S, l) \subseteq Nodes
  BY DEF At, Listed
<1>4. IsFiniteSet(At(S, l)) /\ Cardinality(At(S, l)) <= TreeSize
  BY <1>2, <1>3, FS_Subset
<1>5. Cardinality(At(S, l)) \in Nat
  BY <1>4, FS_CardinalityType
<1>6. At(S, 0) = {} /\ At(S, 1) \subseteq {0}
  BY ListOf DEF At
<1> QED
  BY <1>1, <1>4, <1>5, <1>6

\* A list is the same when its cells, its last entry and its count are.
LEMMA ListSame ==
    ASSUME NEW b, NEW c, NEW l \in Levels, NEW R, ListHolds(b, l, R),
           \A x \in Ring(l, R) : c.next[x] = b.next[x] /\ c.prev[x] = b.prev[x],
           c.free[l] = b.free[l], c.size[l] = b.size[l]
    PROVE  ListHolds(c, l, R)
<1>1. IsRing(ListHead(l), Ring(l, R), c.next, c.prev)
  BY RingSame DEF ListHolds
<1>2. ListHead(l) \in Ring(l, R)
  BY DEF Ring
<1> QED
  BY <1>1, <1>2 DEF ListHolds

\* The cells of two lists are apart.
LEMMA ListsApart ==
    ASSUME NEW S \in SUBSET Listed, NEW k \in Levels, NEW l \in Levels, k # l,
           NEW x \in Ring(k, At(S, k))
    PROVE  x \in Cells /\ x \notin Ring(l, At(S, l)) /\ \A e \in Nodes : Lvl(e) + 1 = l => x # e
BY HeadPlaces DEF Ring, At, Listed

\* push_entry adds its node to its list.
LEMMA PushHolds ==
    ASSUME NEW b, NEW S, Lists(b, S), NEW e \in Listed, e \notin S, NEW l, Lvl(e) + 1 = l
    PROVE  /\ Lists(push_entry(b, l, e), S \cup {e})
           /\ push_entry(b, l, e).free[l] = e
           /\ push_entry(b, l, e).state = [b.state EXCEPT ![e] = FREE]
<1> DEFINE c == push_entry(b, l, e)
           h == ListHead(l)
           R == At(S, l)
           C == Ring(l, R)
           f == b.free[l]
           ny == Inserted(b.next, f, e)
<1>0. l \in Levels /\ e \in Nodes /\ l >= 1 /\ (l = 1 => e = 0) /\ l \in Nat
  BY ListOf DEF Levels
<1>1. /\ c.state = [b.state EXCEPT ![e] = FREE] /\ c.next = ny
      /\ c.prev = InsertedBack(b.prev, f, e, ny)
      /\ c.free = [b.free EXCEPT ![l] = e]
      /\ c.size = [b.size EXCEPT ![l] = (b.size[l] + 1) % 2^W]
  BY DEF push_entry, Inserted, InsertedBack
<1>2. Shape(b) /\ S \in SUBSET Listed /\ ListHolds(b, l, R) /\ \A k \in Levels : ListHolds(b, k, At(S, k))
  BY <1>0 DEF Lists
<1>3. e \in Cells /\ h \in Cells /\ C \in SUBSET Cells /\ h \in C /\ e \notin C /\ e # h
  BY <1>0, <1>2, HeadPlaces DEF Ring, At, Listed
<1>4. /\ b.next \in [Cells -> Cells] /\ b.prev \in [Cells -> Cells] /\ f = b.prev[h]
      /\ IsRing(h, C, b.next, b.prev)
  BY <1>2 DEF Shape, ListHolds
<1> HIDE DEF c, f, ny, C, R, h
<1>5. /\ IsRing(h, C \cup {e}, c.next, c.prev) /\ c.prev[h] = e
      /\ c.next \in [Cells -> Cells] /\ c.prev \in [Cells -> Cells]
      /\ \A x \in Cells : x \notin C \cup {e} => c.next[x] = b.next[x] /\ c.prev[x] = b.prev[x]
  <2>1. /\ IsRing(h, C \cup {e}, ny, InsertedBack(b.prev, f, e, ny)) /\ InsertedBack(b.prev, f, e, ny)[h] = e
        /\ ny \in [Cells -> Cells] /\ InsertedBack(b.prev, f, e, ny) \in [Cells -> Cells]
        /\ \A x \in Cells : x \notin C \cup {e} =>
              ny[x] = b.next[x] /\ InsertedBack(b.prev, f, e, ny)[x] = b.prev[x]
    <3>1. RingWith(Cells, C, h, b.next, b.prev, e)
      BY <1>3, <1>4, RingInsert
    <3> QED
      BY <1>4, <3>1, Zenon DEF RingWith, ny
  <2> QED
    BY <1>1, <2>1
<1>6. At(S \cup {e}, l) = R \cup {e} /\ Ring(l, R \cup {e}) = C \cup {e}
  BY DEF At, R, Ring, C, h
<1>7. ASSUME NEW k \in Levels, k # l PROVE At(S \cup {e}, k) = At(S, k)
  BY <1>7 DEF At
<1>8. /\ c.free \in [Levels -> Cells] /\ c.free[l] = e
      /\ \A k \in Levels : k # l => c.free[k] = b.free[k] /\ c.size[k] = b.size[k]
  BY <1>0, <1>1, <1>2, <1>3 DEF Shape
<1>9. /\ IsFiniteSet(R) /\ b.size[l] = Counted(l, R) /\ Cardinality(R) \in Nat /\ (l = 1 => R = {})
      /\ Cardinality(R \cup {e}) = Cardinality(R) + 1 /\ Cardinality(R) + 1 < 2^W /\ 2^W \in Nat /\ 2^W >= 1
  <2>1. /\ IsFiniteSet(R) /\ Cardinality(R) \in Nat /\ b.size[l] = Counted(l, R) /\ e \notin R
        /\ l = 1 => R = {}
    BY <1>0, <1>2, AtCount DEF R, ListHolds, At
  <2>2. Cardinality(R \cup {e}) = Cardinality(R) + 1
    BY <2>1, FS_AddElement
  <2>3. S \cup {e} \in SUBSET Listed
    BY <1>2
  <2>4. Cardinality(At(S \cup {e}, l)) < 2^W /\ 2^W \in Nat
    BY <1>0, <2>3, AtCount, Sizes
  <2> QED
    BY <1>6, <2>1, <2>2, <2>4
<1>10. c.size \in [Levels -> Word] /\ c.size[l] = Counted(l, R \cup {e})
  <2>1. ASSUME NEW x \in Nat, NEW y \in Nat, x < y PROVE x % y = x
    BY <2>1
  <2>2. ASSUME NEW y \in Nat, y >= 1 PROVE (y - 1 + 1) % y = 0
    BY <2>2
  <2>3. (b.size[l] + 1) % 2^W = Counted(l, R \cup {e}) /\ Counted(l, R \cup {e}) \in Word
    <3>1. CASE l = 1
      <4>1. b.size[l] = 2^W - 1 /\ Counted(l, R \cup {e}) = 0
        BY <1>9, <3>1 DEF Counted
      <4> QED
        BY <1>9, <2>2, <4>1 DEF Word
    <3>2. CASE l # 1
      <4>1. b.size[l] = Cardinality(R) /\ Counted(l, R \cup {e}) = Cardinality(R) + 1
        BY <1>0, <1>9, <3>2 DEF Counted
      <4>2. (Cardinality(R) + 1) % 2^W = Cardinality(R) + 1
        BY <1>9, <2>1
      <4> QED
        BY <1>9, <4>1, <4>2 DEF Word
    <3> QED
      BY <3>1, <3>2
  <2> QED
    BY <1>0, <1>1, <1>2, <2>3 DEF Shape
<1>11. Shape(c)
  <2>1. c.state \in [Cells -> States] /\ \A k \in Levels : c.state[ListHead(k)] = USED
    <3>1. \A k \in Levels : ListHead(k) \in Cells /\ ListHead(k) # e
      BY <1>0, HeadPlaces
    <3>2. FREE \in States
      BY DEF FREE, States
    <3> QED
      BY <1>1, <1>2, <1>3, <3>1, <3>2 DEF Shape
  <2> QED
    BY <1>5, <1>8, <1>10, <2>1 DEF Shape
<1>12. ListHolds(c, l, At(S \cup {e}, l))
  BY <1>5, <1>6, <1>8, <1>10 DEF ListHolds, h
<1>13. ASSUME NEW k \in Levels, k # l PROVE ListHolds(c, k, At(S \cup {e}, k))
  <2>1. \A x \in Ring(k, At(S, k)) : x \in Cells /\ x \notin C /\ x # e
    BY <1>0, <1>2, <1>13, ListsApart DEF C, R
  <2>2. \A x \in Ring(k, At(S, k)) : c.next[x] = b.next[x] /\ c.prev[x] = b.prev[x]
    BY <1>5, <2>1
  <2>3. ListHolds(c, k, At(S, k))
    BY <1>2, <1>8, <1>13, <2>2, ListSame
  <2> QED
    BY <1>7, <1>13, <2>3
<1>14. Lists(c, S \cup {e})
  BY <1>2, <1>11, <1>12, <1>13 DEF Lists
<1> QED
  BY <1>1, <1>8, <1>14 DEF c

\* The allocator c is b without e on list l.
Unlinked(b, c, S, e, l) ==
    /\ e \in Nodes /\ l \in Levels /\ Shape(c) /\ c.free = b.free /\ c.state = [b.state EXCEPT ![e] = USED]
    /\ IsRing(ListHead(l), Ring(l, At(S \ {e}, l)), c.next, c.prev)
    /\ c.prev[ListHead(l)] = IF b.free[l] = e THEN c.prev[e] ELSE b.free[l]
    /\ c.size[l] = Counted(l, At(S \ {e}, l))
    /\ \A k \in Levels : k # l => ListHolds(c, k, At(S \ {e}, k))

\* What remove_entry does to the list of its node, and to no other.
LEMMA RemoveShape ==
    ASSUME NEW b, NEW S, Lists(b, S), NEW e, e \in S, NEW l, l = Lvl(e) + 1, l >= 2
    PROVE  Unlinked(b, remove_entry(b, e), S, e, l)
<1> DEFINE c == remove_entry(b, e)
           h == ListHead(l)
           R == At(S, l)
           C == Ring(l, R)
<1>1. Shape(b) /\ S \in SUBSET Listed /\ e \in Nodes /\ l \in Levels /\ l # 0 /\ l # 1
  BY ListOf DEF Lists, Levels
<1>2. get_level(e) = l
  BY <1>1, GetLevel
<1>3. /\ c.state = [b.state EXCEPT ![e] = USED] /\ c.free = b.free
      /\ c.next = Removed(b.next, b.prev, e) /\ c.prev = Removed(b.prev, b.next, e)
      /\ c.size = [k \in Levels |-> IF k = l THEN (b.size[k] + 2^W - 1) % 2^W ELSE b.size[k]]
  BY <1>2 DEF remove_entry, Removed
<1>4. ListHolds(b, l, R) /\ \A k \in Levels : ListHolds(b, k, At(S, k))
  BY <1>1 DEF Lists
<1>5. e \in Cells /\ h \in Cells /\ C \subseteq Cells /\ h \in C /\ e \in C /\ e # h /\ e \in R
  BY <1>1, HeadPlaces DEF Ring, At, Listed
<1>6. /\ b.next \in [Cells -> Cells] /\ b.prev \in [Cells -> Cells] /\ b.free[l] = b.prev[h]
      /\ IsRing(h, C, b.next, b.prev)
  BY <1>1, <1>4 DEF Shape, ListHolds
<1> HIDE DEF c, C, R, h
<1>7. RingWithout(Cells, C, h, b.next, b.prev, e)
  BY <1>5, <1>6, RingDelete
<1>8. /\ IsRing(h, C \ {e}, c.next, c.prev)
      /\ c.prev[h] = IF b.free[l] = e THEN c.prev[e] ELSE b.free[l]
      /\ c.next \in [Cells -> Cells] /\ c.prev \in [Cells -> Cells]
      /\ \A x \in Cells : x \notin C => c.next[x] = b.next[x] /\ c.prev[x] = b.prev[x]
  BY <1>3, <1>6, <1>7 DEF RingWithout
<1>9. At(S \ {e}, l) = R \ {e} /\ Ring(l, R \ {e}) = C \ {e}
  BY <1>5 DEF At, R, Ring, C, h
<1>10. ASSUME NEW k \in Levels, k # l PROVE At(S \ {e}, k) = At(S, k)
  BY <1>10 DEF At
<1>11. /\ c.size \in [Levels -> Word] /\ c.size[l] = Counted(l, R \ {e})
       /\ \A k \in Levels : k # l => c.size[k] = b.size[k]
  <2>1. /\ IsFiniteSet(R) /\ Cardinality(R) \in Nat /\ b.size[l] = Cardinality(R) /\ e \in R
        /\ Cardinality(R) < 2^W /\ 2^W \in Nat
    BY <1>1, <1>4, <1>5, AtCount, Sizes DEF R, ListHolds, Counted
  <2>2. IsFiniteSet(R \ {e}) /\ Cardinality(R \ {e}) = Cardinality(R) - 1
    BY <2>1, FS_RemoveElement
  <2>3. Cardinality(R \ {e}) \in Nat /\ Counted(l, R \ {e}) = Cardinality(R \ {e})
    BY <1>1, <2>2, FS_CardinalityType DEF Counted
  <2>4. ASSUME NEW x \in Nat, NEW y \in Nat, x >= 1, x < y PROVE (x + y - 1) % y = x - 1
    BY <2>4
  <2>5. (b.size[l] + 2^W - 1) % 2^W = Cardinality(R \ {e}) /\ Cardinality(R \ {e}) \in Word
    <3>1. Cardinality(R) >= 1 /\ Cardinality(R) < 2^W
      BY <2>1, <2>2, <2>3
    <3> QED
      BY <2>1, <2>2, <2>3, <2>4, <3>1 DEF Word
  <2> QED
    BY <1>1, <1>3, <2>3, <2>5 DEF Shape
<1>12. Shape(c)
  <2>1. c.state \in [Cells -> States] /\ \A k \in Levels : c.state[ListHead(k)] = USED
    <3>1. \A k \in Levels : ListHead(k) \in Cells /\ ListHead(k) # e
      BY <1>1, HeadPlaces
    <3>2. USED \in States
      BY DEF USED, States
    <3> QED
      BY <1>1, <1>3, <1>5, <3>1, <3>2 DEF Shape
  <2> QED
    BY <1>1, <1>3, <1>8, <1>11, <2>1 DEF Shape
<1>13. ASSUME NEW k \in Levels, k # l PROVE ListHolds(c, k, At(S \ {e}, k))
  <2>1. \A x \in Ring(k, At(S, k)) : x \in Cells /\ x \notin C
    BY <1>1, <1>13, ListsApart DEF C, R
  <2>2. \A x \in Ring(k, At(S, k)) : c.next[x] = b.next[x] /\ c.prev[x] = b.prev[x]
    BY <1>8, <2>1
  <2>3. ListHolds(c, k, At(S, k))
    BY <1>3, <1>4, <1>11, <1>13, <2>2, ListSame
  <2> QED
    BY <1>10, <1>13, <2>3
<1> QED
  BY <1>1, <1>3, <1>8, <1>9, <1>11, <1>12, <1>13 DEF c, h, Unlinked

\* remove_entry takes a node that is not the last one out of its list.
LEMMA RemoveHolds ==
    ASSUME NEW b, NEW S, Lists(b, S), NEW e \in S, NEW l, l = Lvl(e) + 1, l >= 2, b.free[l] # e
    PROVE  LET c == remove_entry(b, e)
           IN  /\ Lists(c, S \ {e}) /\ c.free = b.free /\ c.state = [b.state EXCEPT ![e] = USED]
<1> DEFINE c == remove_entry(b, e)
<1>1. /\ e \in Nodes /\ l \in Levels /\ Shape(c) /\ c.free = b.free /\ c.state = [b.state EXCEPT ![e] = USED]
      /\ IsRing(ListHead(l), Ring(l, At(S \ {e}, l)), c.next, c.prev)
      /\ c.prev[ListHead(l)] = b.free[l]
      /\ c.size[l] = Counted(l, At(S \ {e}, l))
      /\ \A k \in Levels : k # l => ListHolds(c, k, At(S \ {e}, k))
  <2>1. Unlinked(b, c, S, e, l)
    BY RemoveShape
  <2> HIDE DEF c
  <2> QED
    BY <2>1 DEF Unlinked
<1> HIDE DEF c
<1>2. ListHolds(c, l, At(S \ {e}, l))
  BY <1>1 DEF ListHolds
<1>3. S \ {e} \subseteq Listed
  BY DEF Lists
<1> QED
  BY <1>1, <1>2, <1>3 DEF Lists, c

\* An empty list, and its count if the code counts it right.
LEMMA ListEmpty ==
    ASSUME NEW b, NEW S, Lists(b, S), NEW l \in Levels
    PROVE  /\ l >= 2 => ((b.size[l] = 0) <=> (At(S, l) = {}))
           /\ (b.free[l] = ListHead(l)) <=> (At(S, l) = {})
           /\ b.free[l] # ListHead(l) => b.free[l] \in At(S, l)
<1>1. S \in SUBSET Listed /\ ListHolds(b, l, At(S, l)) /\ Shape(b)
  BY DEF Lists
<1>2. IsFiniteSet(At(S, l)) /\ b.size[l] = Counted(l, At(S, l))
  BY <1>1, AtCount DEF ListHolds
<1>3. l >= 2 => ((b.size[l] = 0) <=> (At(S, l) = {}))
  <2>1. ASSUME l >= 2 PROVE l # 0 /\ l # 1
    BY <2>1
  <2>2. (Cardinality(At(S, l)) = 0) <=> (At(S, l) = {})
    BY <1>2, FS_EmptySet
  <2> QED
    BY <1>2, <2>1, <2>2 DEF Counted
<1>4. b.free[l] = b.prev[ListHead(l)] /\ IsRing(ListHead(l), Ring(l, At(S, l)), b.next, b.prev)
  BY <1>1 DEF ListHolds
<1>5. b.free[l] \in Ring(l, At(S, l)) /\ b.next[b.free[l]] = ListHead(l)
  BY <1>4 DEF IsRing
<1>6. b.free[l] # ListHead(l) => b.free[l] \in At(S, l)
  BY <1>5 DEF Ring
<1>7. At(S, l) = {} => b.free[l] = ListHead(l)
  BY <1>5 DEF Ring
<1>8. ASSUME b.free[l] = ListHead(l) PROVE At(S, l) = {}
  <2>1. {ListHead(l)} \in SUBSET Ring(l, At(S, l)) /\ \A x \in {ListHead(l)} : b.next[x] \in {ListHead(l)}
    BY <1>5, <1>8 DEF Ring
  <2>2. {ListHead(l)} = Ring(l, At(S, l))
    BY <1>4, <2>1, Zenon DEF IsRing
  <2>3. ListHead(l) \notin At(S, l)
    BY <1>1, HeadPlaces DEF At, Listed
  <2> QED
    BY <2>2, <2>3 DEF Ring
<1> QED
  BY <1>3, <1>6, <1>7, <1>8

\* The same allocator, field by field.
Same(b, c) ==
    c.state = b.state /\ c.next = b.next /\ c.prev = b.prev /\ c.free = b.free /\ c.size = b.size

\* What popping list l has given.
Popped(b, S, l, c, e) ==
    /\ (l < 2 \/ At(S, l) = {}) => Same(b, c) /\ e = ListHead(l)
    /\ (l >= 2 /\ At(S, l) # {}) =>
           /\ e = b.free[l] /\ e \in S /\ Lvl(e) + 1 = l /\ Lists(c, S \ {e})
           /\ c.state = [b.state EXCEPT ![e] = USED]
           /\ \A k \in Levels : k # l => c.free[k] = b.free[k]

\* The two lists that count wrong never give a block: the first is empty and looks as if
\* it were not, the second looks empty when the whole-zone block is on it.
LEMMA PopNothing ==
    ASSUME NEW b, NEW S, Lists(b, S), NEW l \in {0, 1}
    PROVE  Same(b, pop_entry(b, l).m) /\ pop_entry(b, l).entry = ListHead(l)
<1> DEFINE h == ListHead(l)
           R == At(S, l)
           r == remove_entry(b, h)
           q == [r EXCEPT !.free[l] = r.prev[h]]
<1>1. l \in Levels /\ S \in SUBSET Listed /\ Shape(b) /\ ListHolds(b, l, R)
  BY FirstLists DEF Lists
<1>2. l = 0 => R = {}
  BY <1>1, AtCount
<1>3. CASE R # {}
  <2>1. b.size[l] = 0
    BY <1>1, <1>2, <1>3 DEF ListHolds, Counted
  <2> QED
    BY <2>1 DEF pop_entry, Same
<1>4. CASE R = {}
  <2>1. b.size[l] # 0
    <3>1. 2^W \in Nat /\ 2^W >= 2
      BY Sizes
    <3>2. Counted(l, R) # 0
      BY <1>4, <3>1 DEF Counted
    <3> QED
      BY <1>1, <3>2 DEF ListHolds
  <2>2. b.free[l] = h /\ b.prev[h] = h
    BY <1>1, <1>4, ListEmpty DEF ListHolds
  <2>3. h \in Cells /\ b.next[h] = h
    <3>1. IsRing(h, Ring(l, R), b.next, b.prev) /\ Ring(l, R) = {h}
      BY <1>1, <1>4 DEF ListHolds, Ring
    <3> QED
      BY <1>1, <3>1, HeadPlaces DEF IsRing
  <2>4. pop_entry(b, l) = [m |-> q, entry |-> h]
    BY <2>1, <2>2 DEF pop_entry
  <2>5. /\ r.state = [b.state EXCEPT ![h] = USED] /\ r.next = [b.next EXCEPT ![h] = h]
        /\ r.prev = [b.prev EXCEPT ![h] = h] /\ r.free = b.free
        /\ r.size = [k \in Levels |-> IF k = get_level(h) THEN (b.size[k] + 2^W - 1) % 2^W ELSE b.size[k]]
    BY <2>2, <2>3 DEF remove_entry
  <2>6. q.state = r.state /\ q.next = r.next /\ q.prev = r.prev /\ q.size = r.size
        /\ q.free = [r.free EXCEPT ![l] = r.prev[h]]
    BY DEF remove_entry
  <2>7. get_level(h) \notin Levels
    BY HeadLevel
  <2> HIDE DEF q, r, h
  <2>8. /\ b.state \in [Cells -> States] /\ b.state[h] = USED /\ b.next \in [Cells -> Cells]
        /\ b.prev \in [Cells -> Cells] /\ b.free \in [Levels -> Cells] /\ b.size \in [Levels -> Word]
    BY <1>1 DEF Shape, h
  <2>9. q.state = b.state /\ q.next = b.next /\ q.prev = b.prev
    BY <2>2, <2>3, <2>5, <2>6, <2>8
  <2>10. q.size = b.size
    BY <2>5, <2>6, <2>7, <2>8
  <2>11. q.free = b.free
    <3>1. r.prev[h] = h
      BY <2>2, <2>6, <2>9
    <3> QED
      BY <1>1, <2>2, <2>5, <2>6, <2>8, <3>1
  <2>12. pop_entry(b, l).m = q /\ pop_entry(b, l).entry = h
    BY <2>4
  <2> QED
    BY <2>9, <2>10, <2>11, <2>12 DEF Same, h
<1> QED
  BY <1>3, <1>4

\* pop_entry takes the last node of a list, or says that there is none.
LEMMA PopHolds ==
    ASSUME NEW b, NEW S, Lists(b, S), NEW l \in Levels
    PROVE  Popped(b, S, l, pop_entry(b, l).m, pop_entry(b, l).entry)
<1> DEFINE e == b.free[l]
           r == remove_entry(b, e)
           q == [r EXCEPT !.free[l] = r.prev[e]]
<1>1. /\ l >= 2 => ((b.size[l] = 0) <=> (At(S, l) = {}))
      /\ e = ListHead(l) <=> At(S, l) = {}
      /\ e # ListHead(l) => e \in At(S, l)
  BY ListEmpty
<1>2. CASE l < 2
  <2>1. l \in {0, 1} /\ ~(l >= 2)
    BY <1>2 DEF Levels
  <2> QED
    BY <2>1, PopNothing DEF Popped
<1>3. CASE l >= 2 /\ At(S, l) = {}
  <2>1. pop_entry(b, l) = [m |-> b, entry |-> ListHead(l)]
    BY <1>1, <1>3 DEF pop_entry
  <2>2. pop_entry(b, l).m = b /\ pop_entry(b, l).entry = ListHead(l) /\ Same(b, b)
    BY <2>1 DEF Same
  <2> QED
    BY <1>3, <2>2 DEF Popped
<1>4. CASE l >= 2 /\ At(S, l) # {}
  <2>1. pop_entry(b, l) = [m |-> q, entry |-> e]
    BY <1>1, <1>4 DEF pop_entry
  <2>2. e \in S /\ Lvl(e) + 1 = l
    BY <1>1, <1>4 DEF At
  <2>3. /\ Shape(r) /\ r.free = b.free /\ r.state = [b.state EXCEPT ![e] = USED]
        /\ IsRing(ListHead(l), Ring(l, At(S \ {e}, l)), r.next, r.prev)
        /\ r.prev[ListHead(l)] = r.prev[e] /\ e \in Nodes
        /\ r.size[l] = Counted(l, At(S \ {e}, l))
        /\ \A k \in Levels : k # l => ListHolds(r, k, At(S \ {e}, k))
    <3>1. Unlinked(b, r, S, e, l)
      BY <1>4, <2>2, RemoveShape
    <3> HIDE DEF r
    <3> QED
      BY <3>1 DEF Unlinked
  <2>4. /\ q.state = r.state /\ q.next = r.next /\ q.prev = r.prev /\ q.size = r.size
        /\ q.free = [r.free EXCEPT ![l] = r.prev[e]]
    BY DEF remove_entry
  <2> HIDE DEF q, r, e
  <2>5. Shape(q) /\ q.free[l] = r.prev[e] /\ \A k \in Levels : k # l => q.free[k] = b.free[k]
    <3>1. r.prev \in [Cells -> Cells] /\ r.free \in [Levels -> Cells] /\ e \in Cells
      BY <2>3, HeadPlaces DEF Shape
    <3>2. r.prev[e] \in Cells
      BY <3>1
    <3>3. /\ q.free \in [Levels -> Cells] /\ q.free[l] = r.prev[e]
          /\ \A k \in Levels : k # l => q.free[k] = r.free[k]
      BY <2>4, <3>1, <3>2
    <3> QED
      BY <2>3, <2>4, <3>3 DEF Shape
  <2>6. ListHolds(q, l, At(S \ {e}, l))
    BY <2>3, <2>4, <2>5 DEF ListHolds
  <2>7. ASSUME NEW k \in Levels, k # l PROVE ListHolds(q, k, At(S \ {e}, k))
    <3>1. q.free[k] = r.free[k] /\ ListHolds(r, k, At(S \ {e}, k))
      BY <2>3, <2>5, <2>7
    <3> QED
      BY <2>4, <3>1 DEF ListHolds
  <2>8. S \ {e} \subseteq Listed
    BY DEF Lists
  <2>9. Lists(q, S \ {e})
    BY <2>5, <2>6, <2>7, <2>8 DEF Lists
  <2> QED
    <3>1. pop_entry(b, l).m = q /\ pop_entry(b, l).entry = e /\ ~(l < 2)
      BY <1>4, <2>1 DEF Levels
    <3> QED
      BY <1>4, <2>2, <2>3, <2>4, <2>5, <2>9, <3>1 DEF e, Popped
<1> QED
  BY <1>2, <1>3, <1>4 DEF Levels

-----------------------------------------------------------------------------
(* Tiles: blocks that share no page.                                       *)

Tiles(T) == T \subseteq Nodes /\ \A e, f \in T : e # f => PagesOf(e) \cap PagesOf(f) = {}

Cover(T) == UNION {PagesOf(e) : e \in T}

\* The block p and its two halves.
Family(p, a, b) ==
    /\ p \in Nodes /\ a \in Nodes /\ b \in Nodes /\ a # b /\ p # a /\ p # b
    /\ PagesOf(p) = PagesOf(a) \cup PagesOf(b) /\ PagesOf(a) \cap PagesOf(b) = {}
    /\ PagesOf(p) # {} /\ PagesOf(a) # {} /\ PagesOf(b) # {}

\* A block above the pages and its children.
LEMMA ChildFamily ==
    ASSUME NEW e \in Nodes, Lvl(e) < Depth
    PROVE  Family(e, e * 2 + 1, e * 2 + 2)
<1>1. e * 2 + 1 \in Nodes /\ e * 2 + 2 \in Nodes /\ e \in Nat
  BY Children, LevelOf
<1>2. e * 2 + 1 # e * 2 + 2 /\ e # e * 2 + 1 /\ e # e * 2 + 2
  BY <1>1
<1>3. PagesOf(e) # {} /\ PagesOf(e * 2 + 1) # {} /\ PagesOf(e * 2 + 2) # {}
  BY <1>1, PagesInZone
<1>4. /\ PagesOf(e) = PagesOf(e * 2 + 1) \cup PagesOf(e * 2 + 2)
      /\ PagesOf(e * 2 + 1) \cap PagesOf(e * 2 + 2) = {}
  BY Halves
<1> QED
  BY <1>1, <1>2, <1>3, <1>4, Zenon DEF Family

\* A block under the root, its buddy and their parent.
LEMMA ParentFamily ==
    ASSUME NEW e \in Nodes, Lvl(e) > 0
    PROVE  Family((e - 1) \div 2, e, get_buddy(e))
<1> DEFINE p == (e - 1) \div 2
           b == get_buddy(e)
<1>1. /\ p \in Nodes /\ Lvl(p) < Depth
      /\ (e = p * 2 + 1 /\ b = p * 2 + 2) \/ (e = p * 2 + 2 /\ b = p * 2 + 1)
  BY Parents
<1> HIDE DEF p, b
<1>2. Family(p, p * 2 + 1, p * 2 + 2)
  BY <1>1, ChildFamily
<1>3. \A x, y : Family(p, x, y) => Family(p, y, x)
  BY Zenon DEF Family
<1>4. Family(p, e, b)
  BY <1>1, <1>2, <1>3
<1> QED
  BY <1>4 DEF p, b

\* A tile may be replaced by its halves.
LEMMA TilesSplit ==
    ASSUME NEW T, Tiles(T), NEW p, NEW a, NEW b, Family(p, a, b), p \in T
    PROVE  LET U == (T \ {p}) \cup {a, b}
           IN  Tiles(U) /\ Cover(U) = Cover(T) /\ a \notin T /\ b \notin T
<1> DEFINE U == (T \ {p}) \cup {a, b}
<1>1. /\ U \subseteq Nodes /\ PagesOf(p) = PagesOf(a) \cup PagesOf(b) /\ PagesOf(a) \cap PagesOf(b) = {}
      /\ PagesOf(a) # {} /\ PagesOf(b) # {} /\ a # p /\ b # p /\ a # b
  BY DEF Family, Tiles
<1>2. \A e \in T : e # p => PagesOf(e) \cap PagesOf(p) = {}
  BY DEF Tiles
<1>3. a \notin T /\ b \notin T
  BY <1>1, <1>2
<1>4. ASSUME NEW e \in U, NEW f \in U, e # f PROVE PagesOf(e) \cap PagesOf(f) = {}
  <2>1. CASE e \in T /\ f \in T
    BY <1>4, <2>1 DEF Tiles
  <2>2. CASE e \notin T /\ f \notin T
    BY <1>1, <1>4, <2>2
  <2>3. CASE e \in T /\ f \notin T
    BY <1>1, <1>2, <1>3, <2>3
  <2>4. CASE e \notin T /\ f \in T
    BY <1>1, <1>2, <1>3, <2>4
  <2> QED
    BY <2>1, <2>2, <2>3, <2>4
<1>5. Cover(U) = Cover(T)
  <2>1. ASSUME NEW x \in Cover(U) PROVE x \in Cover(T)
    BY <1>1 DEF Cover
  <2>2. ASSUME NEW x \in Cover(T) PROVE x \in Cover(U)
    <3>1. PICK e \in T : x \in PagesOf(e)
      BY DEF Cover
    <3>2. CASE e = p
      BY <1>1, <3>1, <3>2 DEF Cover
    <3>3. CASE e # p
      BY <3>1, <3>3 DEF Cover
    <3> QED
      BY <3>2, <3>3
  <2> QED
    BY <2>1, <2>2
<1>6. Tiles(U)
  BY <1>1, <1>4 DEF Tiles
<1> QED
  BY <1>3, <1>5, <1>6

\* Two halves may be replaced by the block they make.
LEMMA TilesMerge ==
    ASSUME NEW T, Tiles(T), NEW p, NEW a, NEW b, Family(p, a, b), a \in T, b \in T
    PROVE  LET U == (T \ {a, b}) \cup {p}
           IN  Tiles(U) /\ Cover(U) = Cover(T) /\ p \notin T
<1> DEFINE U == (T \ {a, b}) \cup {p}
<1>1. /\ U \subseteq Nodes /\ PagesOf(p) = PagesOf(a) \cup PagesOf(b) /\ PagesOf(a) \cap PagesOf(b) = {}
      /\ PagesOf(a) # {} /\ a # p /\ b # p
  BY DEF Family, Tiles
<1>2. \A e \in T : (e # a => PagesOf(e) \cap PagesOf(a) = {}) /\ (e # b => PagesOf(e) \cap PagesOf(b) = {})
  BY DEF Tiles
<1>3. p \notin T
  BY <1>1, <1>2
<1>4. ASSUME NEW e \in U, NEW f \in U, e # f PROVE PagesOf(e) \cap PagesOf(f) = {}
  <2>1. CASE e \in T /\ f \in T
    BY <1>4, <2>1 DEF Tiles
  <2>2. CASE e = p \/ f = p
    <3>1. ASSUME NEW g \in U, g # p PROVE PagesOf(g) \cap PagesOf(p) = {}
      BY <1>1, <1>2, <3>1
    <3> QED
      BY <1>4, <2>2, <3>1
  <2> QED
    BY <2>1, <2>2
<1>5. Cover(U) = Cover(T)
  <2>1. ASSUME NEW x \in Cover(U) PROVE x \in Cover(T)
    <3>1. PICK e \in U : x \in PagesOf(e)
      BY DEF Cover
    <3> QED
      BY <1>1, <3>1 DEF Cover
  <2>2. ASSUME NEW x \in Cover(T) PROVE x \in Cover(U)
    <3>1. PICK e \in T : x \in PagesOf(e)
      BY DEF Cover
    <3>2. CASE e \in {a, b}
      <4>1. x \in PagesOf(p)
        BY <1>1, <3>1, <3>2
      <4> QED
        BY <4>1 DEF Cover
    <3>3. CASE e \notin {a, b}
      BY <3>1, <3>3 DEF Cover
    <3> QED
      BY <3>2, <3>3
  <2> QED
    BY <2>1, <2>2
<1>6. Tiles(U)
  BY <1>1, <1>4 DEF Tiles
<1> QED
  BY <1>3, <1>5, <1>6

\* Without a tile, its pages are gone and no other.
LEMMA TilesMinus ==
    ASSUME NEW T, Tiles(T), NEW e, e \in T
    PROVE  Tiles(T \ {e}) /\ Cover(T \ {e}) = Cover(T) \ PagesOf(e) /\ PagesOf(e) \subseteq Cover(T)
BY DEF Tiles, Cover

\* Of two blocks that share a page, the one on the deeper level lies in the other.
LEMMA Nested ==
    ASSUME NEW e \in Nodes, NEW f \in Nodes, Lvl(e) <= Lvl(f), PagesOf(e) \cap PagesOf(f) # {}
    PROVE  PagesOf(f) \subseteq PagesOf(e)
<1> DEFINE Bad(k) == \E g \in Nodes : /\ Lvl(g) = k /\ Lvl(e) <= k /\ PagesOf(e) \cap PagesOf(g) # {}
                                      /\ ~(PagesOf(g) \subseteq PagesOf(e))
           B == {k \in Nat : Bad(k)}
<1>1. SUFFICES ASSUME B # {} PROVE FALSE
  <2>1. Lvl(f) \in Nat
    BY LevelOf DEF Levels
  <2> QED
    BY <2>1
<1>2. PICK n \in B : \A k \in B : n <= k
  BY <1>1, Least
<1>3. PICK g \in Nodes : /\ Lvl(g) = n /\ Lvl(e) <= n /\ PagesOf(e) \cap PagesOf(g) # {}
                         /\ ~(PagesOf(g) \subseteq PagesOf(e))
  BY <1>2
<1>4. Lvl(e) # n
  BY <1>3, LevelDisjoint
<1>5. Lvl(e) \in Nat /\ n \in Nat
  BY <1>2, LevelOf DEF Levels
<1>6. Lvl(g) > 0 /\ Lvl(e) <= n - 1 /\ n - 1 \in Nat /\ ~(n <= n - 1)
  BY <1>3, <1>4, <1>5
<1> DEFINE p == (g - 1) \div 2
<1>7. p \in Nodes /\ Lvl(p) = n - 1
  BY <1>3, <1>6, Parents
<1>8. Family(p, g, get_buddy(g))
  BY <1>6, ParentFamily
<1> HIDE DEF p
<1>9. PagesOf(g) \subseteq PagesOf(p)
  BY <1>8 DEF Family
<1>10. n - 1 \in B
  BY <1>3, <1>6, <1>7, <1>9
<1> QED
  BY <1>2, <1>6, <1>10

\* The block at place i of a level.
LEMMA BlockAt ==
    ASSUME NEW l \in Levels, NEW i \in Nat, i < 2^l
    PROVE  LET e == LevelStart(l) + i
           IN  e \in Nodes /\ Lvl(e) = l /\ Idx(e) = i
<1> DEFINE e == LevelStart(l) + i
<1>1. 2^l \in Nat /\ 2^l >= 1 /\ 2^l <= 2^Depth /\ 2^Depth \in Nat /\ TreeSize = 2 * 2^Depth - 1
  BY Sizes
<1>2. e \in Nat /\ e + 1 = 2^l + i
  BY <1>1 DEF LevelStart
<1> HIDE DEF e
<1>3. e \in Nodes
  BY <1>1, <1>2 DEF Nodes
<1>4. Lvl(e) = l
  BY <1>1, <1>2, LevelIs
<1>5. Idx(e) = i
  BY <1>1, <1>2, <1>4 DEF Idx
<1> QED
  BY <1>3, <1>4, <1>5 DEF e

\* A page is a block of its own at the last level.
LEMMA Leaf ==
    ASSUME NEW p \in 0 .. 2^Depth - 1
    PROVE  LevelStart(Depth) + p \in Nodes /\ PagesOf(LevelStart(Depth) + p) = {p}
<1> DEFINE e == LevelStart(Depth) + p
<1>1. Depth \in Levels /\ p \in Nat /\ p < 2^Depth
  BY Sizes DEF Levels
<1>2. e \in Nodes /\ Lvl(e) = Depth /\ Idx(e) = p
  BY <1>1, BlockAt
<1>3. BlockPages(Depth) = 1
  <2>1. Depth - Depth = 0
    BY Sizes
  <2> QED
    BY <2>1, Powers DEF BlockPages
<1> HIDE DEF e
<1>4. PagesOf(e) = p * 1 .. p * 1 + 1 - 1
  BY <1>2, <1>3, PagesAre
<1>5. p * 1 .. p * 1 + 1 - 1 = {p}
  BY <1>1
<1> QED
  BY <1>2, <1>4, <1>5 DEF e

\* The blocks that the regions are made of.
Marked(pages) == {e \in Nodes : MarkRegions(pages)[e] = FREE}

\* They share no page, no two of them are buddies, and they hold the regions.
LEMMA MarkTiles ==
    ASSUME NEW pages
    PROVE  /\ Tiles(Marked(pages)) /\ Cover(Marked(pages)) \subseteq pages
           /\ \A p \in pages : p \in 0 .. 2^Depth - 1 => p \in Cover(Marked(pages))
           /\ \A e \in Marked(pages) : Lvl(e) > 0 => get_buddy(e) \notin Marked(pages)
<1> DEFINE T == Marked(pages)
<1>1. ASSUME NEW e \in Nodes
      PROVE  (e \in T) <=> /\ PagesOf(e) \subseteq pages
                           /\ e # 0 => ~(PagesOf((e - 1) \div 2) \subseteq pages)
  BY DEF Marked, MarkRegions, FREE, USED
<1>2. T \subseteq Nodes
  BY DEF Marked
<1> HIDE DEF T
<1>3. ASSUME NEW e \in T, Lvl(e) > 0
      PROVE  /\ Family((e - 1) \div 2, e, get_buddy(e)) /\ e \in Nodes
             /\ ~(PagesOf((e - 1) \div 2) \subseteq pages)
  <2>1. e \in Nodes /\ e # 0
    BY <1>2, <1>3, Parents
  <2> QED
    BY <1>1, <1>3, <2>1, ParentFamily
<1>4. ASSUME NEW e \in T, NEW f \in T, Lvl(e) < Lvl(f) PROVE PagesOf(e) \cap PagesOf(f) = {}
  <2>1. Lvl(e) \in Nat /\ Lvl(f) \in Nat /\ Lvl(f) > 0 /\ e \in Nodes /\ f \in Nodes
    BY <1>2, <1>4, LevelOf DEF Levels
  <2> DEFINE p == (f - 1) \div 2
  <2>2. Family(p, f, get_buddy(f)) /\ ~(PagesOf(p) \subseteq pages)
    BY <1>3, <2>1
  <2>3. p \in Nodes /\ Lvl(p) = Lvl(f) - 1
    BY <2>1, Parents
  <2> HIDE DEF p
  <2>4. Lvl(e) <= Lvl(p) /\ PagesOf(f) \subseteq PagesOf(p) /\ PagesOf(e) \subseteq pages
    BY <1>1, <1>4, <2>1, <2>2, <2>3 DEF Family
  <2>5. ASSUME PagesOf(e) \cap PagesOf(f) # {} PROVE FALSE
    <3>1. PagesOf(e) \cap PagesOf(p) # {}
      BY <2>4, <2>5
    <3>2. PagesOf(p) \subseteq PagesOf(e)
      BY <2>1, <2>3, <2>4, <3>1, Nested
    <3> QED
      BY <2>2, <2>4, <3>2
  <2> QED
    BY <2>5
<1>5. Tiles(T)
  <2>1. ASSUME NEW e \in T, NEW f \in T, e # f PROVE PagesOf(e) \cap PagesOf(f) = {}
    <3>1. Lvl(e) \in Nat /\ Lvl(f) \in Nat /\ e \in Nodes /\ f \in Nodes
      BY <1>2, LevelOf DEF Levels
    <3>2. Lvl(e) < Lvl(f) \/ Lvl(f) < Lvl(e) \/ Lvl(e) = Lvl(f)
      BY <3>1
    <3> QED
      BY <1>4, <2>1, <3>1, <3>2, LevelDisjoint
  <2> QED
    BY <1>2, <2>1 DEF Tiles
<1>6. Cover(T) \subseteq pages
  BY <1>1, <1>2 DEF Cover
<1>7. ASSUME NEW p \in pages, p \in 0 .. 2^Depth - 1 PROVE p \in Cover(T)
  <2> DEFINE K == {k \in Nat : \E e \in Nodes : Lvl(e) = k /\ p \in PagesOf(e) /\ PagesOf(e) \subseteq pages}
  <2>1. K # {} /\ K \in SUBSET Nat
    <3>1. LevelStart(Depth) + p \in Nodes /\ PagesOf(LevelStart(Depth) + p) = {p}
      BY <1>7, Leaf
    <3>2. Lvl(LevelStart(Depth) + p) \in Nat
      BY <3>1, LevelOf DEF Levels
    <3>3. p \in PagesOf(LevelStart(Depth) + p) /\ PagesOf(LevelStart(Depth) + p) \subseteq pages
      BY <3>1
    <3> QED
      BY <3>1, <3>2, <3>3
  <2>2. PICK n \in K : \A k \in K : n <= k
    BY <2>1, Least
  <2>3. PICK e \in Nodes : Lvl(e) = n /\ p \in PagesOf(e) /\ PagesOf(e) \subseteq pages
    BY <2>2
  <2>4. ASSUME e # 0, PagesOf((e - 1) \div 2) \subseteq pages PROVE FALSE
    <3>1. Lvl(e) \in Nat /\ n \in Nat /\ Lvl(e) # 0
      BY <2>2, <2>4, LevelOf, RootLevel DEF Levels
    <3>2. Lvl(e) > 0 /\ n - 1 \in Nat /\ ~(n <= n - 1)
      BY <2>3, <3>1
    <3> DEFINE q == (e - 1) \div 2
    <3>3. q \in Nodes /\ Lvl(q) = n - 1 /\ Family(q, e, get_buddy(e)) /\ PagesOf(q) \subseteq pages
      BY <2>3, <2>4, <3>2, Parents, ParentFamily
    <3> HIDE DEF q
    <3>4. p \in PagesOf(q)
      BY <2>3, <3>3 DEF Family
    <3>5. n - 1 \in K
      BY <3>2, <3>3, <3>4
    <3> QED
      BY <2>2, <3>2, <3>5
  <2>5. e \in T
    BY <1>1, <2>3, <2>4
  <2> QED
    BY <2>3, <2>5 DEF Cover
<1>8. ASSUME NEW e \in T, Lvl(e) > 0 PROVE get_buddy(e) \notin T
  <2>1. SUFFICES ASSUME get_buddy(e) \in T PROVE FALSE
    OBVIOUS
  <2>2. get_buddy(e) \in Nodes /\ PagesOf(get_buddy(e)) \subseteq pages /\ PagesOf(e) \subseteq pages
    BY <1>1, <1>2, <2>1
  <2> QED
    BY <1>3, <1>8, <2>2 DEF Family
<1> QED
  BY <1>5, <1>6, <1>7, <1>8 DEF T

\* Blocks no two of which are buddies hold all pages of a block only if one of them is at
\* least as large.
LEMMA Descent ==
    ASSUME NEW B, B \subseteq Nodes, \A e \in B : Lvl(e) > 0 => get_buddy(e) \notin B,
           NEW g \in Nodes, PagesOf(g) \subseteq Cover(B)
    PROVE  \E e \in B : Lvl(e) <= Lvl(g)
<1> DEFINE Bad(f) == /\ PagesOf(f) \subseteq Cover(B)
                     /\ \A e \in B : Lvl(e) <= Lvl(f) => PagesOf(e) \cap PagesOf(f) = {}
           K == {k \in Nat : \E f \in Nodes : Lvl(f) = Depth - k /\ Bad(f)}
<1>1. SUFFICES ASSUME \A e \in B : ~(Lvl(e) <= Lvl(g)) PROVE FALSE
  OBVIOUS
<1>2. ASSUME NEW f \in Nodes PROVE Lvl(f) \in Nat /\ Lvl(f) <= Depth /\ Depth \in Nat
  BY LevelOf, Sizes DEF Levels
<1>3. Bad(g)
  BY <1>1
<1>4. K # {} /\ K \in SUBSET Nat
  <2>1. Depth - Lvl(g) \in Nat /\ Lvl(g) = Depth - (Depth - Lvl(g))
    BY <1>2
  <2> QED
    BY <1>3, <2>1
<1>5. PICK n \in K : \A k \in K : n <= k
  BY <1>4, Least
<1>6. PICK f \in Nodes : Lvl(f) = Depth - n /\ Bad(f)
  BY <1>5
<1>7. n \in Nat /\ Depth \in Nat
  BY <1>5, <1>2
<1>8. CASE n = 0
  <2>1. PagesOf(f) # {}
    BY PagesInZone
  <2>2. PICK p : p \in PagesOf(f)
    BY <2>1
  <2>3. PICK e \in B : p \in PagesOf(e)
    BY <1>6, <2>2 DEF Cover
  <2>4. Lvl(e) <= Lvl(f)
    BY <1>2, <1>6, <1>8
  <2> QED
    BY <1>6, <2>2, <2>3, <2>4
<1>9. CASE n # 0
  <2> DEFINE a == f * 2 + 1
             b == f * 2 + 2
  <2>1. Lvl(f) < Depth /\ Lvl(f) + 1 = Depth - (n - 1) /\ n - 1 \in Nat /\ ~(n <= n - 1) /\ Lvl(f) \in Nat
    BY <1>2, <1>6, <1>7, <1>9
  <2>2. Family(f, a, b)
    BY <2>1, ChildFamily
  <2>3. a \in Nodes /\ b \in Nodes /\ Lvl(a) = Lvl(f) + 1 /\ Lvl(b) = Lvl(f) + 1
    BY <2>1, Children
  <2>4. a \notin B \/ b \notin B
    <3>1. f \in Nat
      BY LevelOf
    <3>2. get_buddy(a) = b
      BY <3>1 DEF get_buddy
    <3>3. Lvl(a) > 0
      BY <2>1, <2>3
    <3> QED
      BY <3>2, <3>3
  <2> HIDE DEF a, b
  <2>5. ASSUME NEW c \in {a, b}, c \notin B PROVE Bad(c)
    <3>1. c \in Nodes /\ Lvl(c) = Lvl(f) + 1 /\ PagesOf(c) \subseteq PagesOf(f)
      BY <2>2, <2>3 DEF Family
    <3>2. ASSUME NEW e \in B, Lvl(e) <= Lvl(c) PROVE PagesOf(e) \cap PagesOf(c) = {}
      <4>1. e \in Nodes /\ Lvl(e) \in Nat /\ e # c
        BY <1>2, <2>5
      <4>2. CASE Lvl(e) <= Lvl(f)
        BY <1>6, <3>1, <4>2
      <4>3. CASE Lvl(e) = Lvl(c)
        BY <3>1, <4>1, <4>3, LevelDisjoint
      <4> QED
        BY <2>1, <3>1, <3>2, <4>1, <4>2, <4>3
    <3> QED
      BY <1>6, <3>1, <3>2
  <2>6. n - 1 \in K
    BY <2>1, <2>3, <2>4, <2>5
  <2> QED
    BY <1>5, <2>1, <2>6
<1> QED
  BY <1>8, <1>9

-----------------------------------------------------------------------------
(* What callers hold.                                                      *)

\* The block a caller gets for a node: the index of the node at the next level, which
\* is negative and wraps, with the block size of that level.
BlkOf(e) ==
    [ptr |-> Start + get_index(e, Lvl(e) + 1) * BlockPages(Lvl(e) + 1), lvl |-> Lvl(e) + 1]

\* The nodes that have both a list and a buddy.
Inner == {e \in Listed : Lvl(e) >= 1}

\* The negative index, and the way back from it.
LEMMA Wrapped ==
    ASSUME NEW e \in Nat, NEW p \in Nat, NEW w \in Nat, p >= 1, p <= e + 1, e + 1 < 2 * p, 2 * p <= w,
           NEW i, i = (e + 1 - 2 * p) % w
    PROVE  i \in Nat /\ i >= 1 /\ ((2 * p - 1) + i) % w = e
<1> DEFINE x == e + 1
<1>1. x - 2 * p \in Int /\ -w <= x - 2 * p /\ x - 2 * p < 0 /\ w \in Nat /\ w >= 2
  OBVIOUS
<1>2. ASSUME NEW j \in Int, -w <= j, j < 0 PROVE j % w = w + j
  <2>1. w + j \in 0 .. w - 1 /\ j = w * (-1) + (w + j)
    BY <1>1, <1>2
  <2>2. ASSUME NEW r \in 0 .. w - 1, j = w * (-1) + r PROVE j % w = r
    BY <1>1, <1>2, <2>2
  <2> QED
    BY <2>1, <2>2
<1>3. i = w + (x - 2 * p)
  BY <1>1, <1>2
<1>4. i \in Nat /\ i >= 1 /\ (2 * p - 1) + i = w + e /\ e < w
  BY <1>3
<1>5. ASSUME NEW r \in Nat, r < w PROVE (w + r) % w = r
  <2>1. w + r \in Nat /\ w + r = w * 1 + r
    BY <1>1, <1>5
  <2> QED
    BY <1>1, <1>5, <2>1
<1> QED
  BY <1>4, <1>5

\* Its address and level, and the way back from the address to the node.
LEMMA BlkIs ==
    ASSUME NEW e \in Listed
    PROVE  /\ BlkOf(e).lvl = Lvl(e) + 1 /\ BlkOf(e).lvl \in Levels /\ BlkOf(e).ptr \in Nat
           /\ Start <= BlkOf(e).ptr /\ BlkOf(e).ptr # 0 /\ BlkOf(e) \in [ptr : Nat, lvl : Levels]
           /\ getAddress(e) = BlkOf(e).ptr /\ Offset(BlkOf(e).ptr, BlkOf(e).lvl) = e
           /\ LivePages(BlkOf(e)) = PagesOf(e)
<1> DEFINE l == Lvl(e) + 1
           s == BlockPages(l)
           i == get_index(e, l)
           p == 2^Lvl(e)
<1>1. e \in Nodes /\ e \in Nat /\ l \in Levels /\ Lvl(e) \in 0 .. W
  BY ListOf, LevelOf, Sizes
<1>2. p \in Nat /\ p >= 1 /\ p <= e + 1 /\ e + 1 < 2 * p /\ 2^l = 2 * p
  BY <1>1, LevelOf, Powers
<1>3. 2^W \in Nat /\ 2 * p <= 2^W /\ Start \in Nat /\ s \in Nat /\ s >= 1
  <2>1. 2^l <= 2^Depth /\ 2^Depth \in Nat /\ 2^l \in Nat /\ 2^Depth <= 2^W /\ 2^W \in Nat
    BY <1>1, Sizes
  <2> QED
    BY <1>1, <1>2, <2>1, BlockSizes, BuddyAssumption
<1>4. BlkOf(e).lvl = l /\ BlkOf(e).ptr = Start + i * s
  BY DEF BlkOf
<1>5. i = (e + 1 - 2 * p) % 2^W
  BY <1>2 DEF get_index
<1>6. get_level(e) = l
  BY <1>1, GetLevel
<1>7. LevelStart(l) = 2 * p - 1
  BY <1>2 DEF LevelStart
<1>8. getAddress(e) = Start + i * s
  BY <1>6 DEF getAddress
<1> HIDE DEF i, p, s, l
<1>9. i \in Nat /\ i >= 1 /\ ((2 * p - 1) + i) % 2^W = e
  BY <1>1, <1>2, <1>3, <1>5, Wrapped
<1>10. i * s \in Nat /\ i * s >= 1 /\ (i * s) \div s = i
  <2>1. ASSUME NEW x \in Nat, NEW y \in Nat, x >= 1, y >= 1 PROVE x * y \in Nat /\ x * y >= 1 /\ (x * y) \div y = x
    <3>1. (x * y) \div y = x
      BY <2>1
    <3>2. x * y \in Nat /\ 1 * y <= x * y
      BY <2>1
    <3> QED
      BY <2>1, <3>1, <3>2
  <2> QED
    BY <1>3, <1>9, <2>1
<1>11. BlkOf(e).ptr \in Nat /\ Start <= BlkOf(e).ptr /\ BlkOf(e).ptr - Start = i * s /\ BlkOf(e).ptr # 0
  BY <1>3, <1>4, <1>10
<1>12. Offset(BlkOf(e).ptr, BlkOf(e).lvl) = e
  <2>1. Offset(BlkOf(e).ptr, BlkOf(e).lvl) = (LevelStart(l) + (BlkOf(e).ptr - Start) \div s) % 2^W
    BY <1>4 DEF Offset, s
  <2> QED
    BY <1>7, <1>9, <1>10, <1>11, <2>1
<1>13. BlkOf(e) \in [ptr : Nat, lvl : Levels]
  <2>1. BlkOf(e) = [ptr |-> Start + i * s, lvl |-> l]
    BY DEF BlkOf, i, s, l
  <2> QED
    BY <1>1, <1>3, <1>10, <2>1
<1> QED
  BY <1>1, <1>4, <1>8, <1>11, <1>12, <1>13 DEF LivePages, l

\* No two nodes are the same block.
LEMMA BlkOnce ==
    ASSUME NEW e \in Listed, NEW f \in Listed, BlkOf(e) = BlkOf(f)
    PROVE  e = f
BY BlkIs

-----------------------------------------------------------------------------
(* The invariant.                                                          *)

\* The FREE blocks that are on a list, the blocks that callers hold, the block that
\* alloc_pages is working on, and the blocks that no caller has.
Pushed == {e \in Blocks : call.pc = "init" => e < call.node}
Owned == {e \in Inner : BlkOf(e) \in live}
Carries == call.pc = "split" \/ (call.pc = "find" /\ call.splits > 0 /\ ~NoBlock)
Flight == IF Carries THEN {call.node} ELSE {}
Loose == Blocks \cup Flight
Mine == Loose \cup Owned

\* The blocks share no page, and each has one state.
TilesInv ==
    /\ Tiles(Mine) /\ Loose \cap Owned = {} /\ Flight \cap Blocks = {}
    /\ \A blk \in live : \E e \in Inner : blk = BlkOf(e)

\* A zone whose pages are all free began with the whole-zone block, which is never taken:
\* merging never gets there.
RootInv == PagesOf(0) \subseteq Cover(Mine) => 0 \in Blocks

\* The call wants blocks of list lvl + splits.
Wants ==
    /\ call.lvl \in Levels /\ call.splits \in Nat /\ call.lvl + call.splits + 1 \in Levels
    /\ call.want = BlockPages(call.lvl + call.splits + 1)

\* The loop that looks for a block has seen that the lists behind it are empty, but for
\* the second, which hides what it has.
Finds ==
    /\ Wants /\ call.node \in Cells
    /\ \A l \in Levels : (2 <= l /\ call.lvl < l /\ l <= call.lvl + call.splits) => At(Blocks, l) = {}
    /\ (NoBlock /\ 2 <= call.lvl) => At(Blocks, call.lvl) = {}
    /\ (~NoBlock /\ call.splits = 0) => At(Blocks, call.lvl) # {}
    /\ (~NoBlock /\ call.splits > 0) => call.node \in Inner /\ Lvl(call.node) + 1 = call.lvl

\* The block that has just been pushed is the last of its list.
Merges ==
    /\ call.node \in Blocks /\ call.node \in Inner /\ call.lvl = Lvl(call.node) + 1 /\ call.splits = 0
    /\ m.free[call.lvl] = call.node

\* What each loop knows at the head of a round.
CallInv ==
    /\ call.pc = "init" => call.node \in Nodes /\ live = {} /\ call.lvl = 0 /\ call.splits = 0
    /\ call.pc = "idle" => call = Idle
    /\ call.pc = "find" => Finds
    /\ call.pc = "split" => Wants /\ call.node \in Inner /\ Lvl(call.node) + 1 = call.lvl
    /\ call.pc = "merge" => Merges

\* Two buddies are FREE only when one of them has just been pushed.
BuddiesInv ==
    \A e \in Blocks : (Lvl(e) > 0 /\ get_buddy(e) \in Blocks) =>
                          call.pc = "merge" /\ call.node \in {e, get_buddy(e)}

\* The lists and the call, while the code is inside its arrays.
RunInv == Lists(m, Pushed) /\ CallInv /\ BuddiesInv

BuddyInv ==
    /\ call.pc \in {"init", "idle", "find", "split", "merge", "fault"}
    /\ TilesInv /\ RootInv /\ (Running => RunInv)

\* What a step does to the blocks: nothing to the pages they hold, or one of them goes to
\* a caller, or one comes back.
Stays == live' = live /\ Cover(Loose') = Cover(Loose)
Hands == \E e \in Loose \cap Inner : Loose' = Loose \ {e} /\ live' = live \cup {BlkOf(e)}
Returns == \E e \in Owned : Loose' = Loose \cup {e} /\ live' = live \ {BlkOf(e)}
Effect == Stays \/ Hands \/ Returns

-----------------------------------------------------------------------------
(* Facts that several steps use.                                           *)

FreeIn(st) == {e \in Nodes : st[e] # USED}

\* The FREE blocks after one of them was pushed or taken.
LEMMA FreeChange ==
    ASSUME NEW st \in [Cells -> States], NEW e \in Nodes
    PROVE  /\ FreeIn([st EXCEPT ![e] = FREE]) = FreeIn(st) \cup {e}
           /\ FreeIn([st EXCEPT ![e] = USED]) = FreeIn(st) \ {e}
BY HeadPlaces DEF FreeIn, USED, FREE

\* The blocks are those the states say are FREE, and once initialised all are on lists.
LEMMA Settled ==
    ASSUME BuddyInv, Running
    PROVE  /\ Lists(m, Pushed) /\ CallInv /\ BuddiesInv /\ TilesInv /\ RootInv
           /\ Shape(m) /\ Blocks = FreeIn(m.state) /\ Blocks \subseteq Nodes /\ Mine \subseteq Nodes
           /\ call.pc # "init" => Pushed = Blocks /\ Lists(m, Blocks) /\ Blocks \subseteq Listed
<1>1. Lists(m, Pushed) /\ CallInv /\ BuddiesInv /\ TilesInv /\ RootInv /\ Mine \subseteq Nodes
  BY DEF BuddyInv, RunInv, TilesInv, Tiles
<1>2. Shape(m) /\ Blocks = FreeIn(m.state) /\ Blocks \subseteq Nodes
  BY <1>1 DEF Lists, Blocks, FreeIn
<1>3. call.pc # "init" => Pushed = Blocks
  BY DEF Pushed
<1> QED
  BY <1>1, <1>2, <1>3 DEF Lists

\* What an inner node is.
LEMMA InnerIs ==
    ASSUME NEW e \in Inner
    PROVE  /\ e \in Listed /\ e \in Nodes /\ e # 0 /\ Lvl(e) \in Nat /\ Lvl(e) >= 1 /\ Lvl(e) < Depth
           /\ Lvl(e) + 1 \in Levels /\ Lvl(e) + 1 >= 2
<1>1. e \in Listed /\ e \in Nodes /\ Lvl(e) >= 1 /\ Lvl(e) < Depth
  BY DEF Inner, Listed
<1>2. Lvl(e) \in Nat /\ Lvl(e) + 1 \in Levels
  BY <1>1, ListOf
<1>3. e # 0
  BY <1>1, RootLevel
<1> QED
  BY <1>1, <1>2, <1>3

\* A caller gets or returns a block.
LEMMA OwnedChange ==
    ASSUME NEW e \in Inner
    PROVE  /\ live' = live => Owned' = Owned
           /\ live' = live \cup {BlkOf(e)} => Owned' = Owned \cup {e}
           /\ live' = live \ {BlkOf(e)} => Owned' = Owned \ {e}
<1>1. \A f \in Inner : BlkOf(f) = BlkOf(e) => f = e
  BY BlkOnce, InnerIs
<1> QED
  BY <1>1, Zenon DEF Owned

\* The pages of two sets of blocks.
LEMMA CoverUnion ==
    ASSUME NEW S, NEW T
    PROVE  Cover(S \cup T) = Cover(S) \cup Cover(T)
BY DEF Cover

\* The whole-zone block stays while the blocks keep their pages.
LEMMA RootStays ==
    ASSUME RootInv, Cover(Mine') = Cover(Mine), 0 \in Blocks => 0 \in Blocks'
    PROVE  RootInv'
BY DEF RootInv

\* The blocks callers hold stay what they are while none is taken or returned.
LEMMA LiveSame ==
    ASSUME TilesInv, live' = live
    PROVE  Owned' = Owned /\ \A blk \in live' : \E x \in Inner : blk = BlkOf(x)
BY DEF TilesInv, Owned

\* A part of the tiles is tiles.
LEMMA TilesPart ==
    ASSUME NEW T, Tiles(T), NEW U, U \subseteq T
    PROVE  Tiles(U) /\ Cover(U) \subseteq Cover(T)
BY DEF Tiles, Cover

\* A step that moves no block.
LEMMA NothingMoves ==
    ASSUME BuddyInv, Blocks' = Blocks, live' = live, Flight' = Flight
    PROVE  TilesInv' /\ RootInv' /\ Effect
<1>1. TilesInv /\ RootInv
  BY DEF BuddyInv
<1>2. Owned' = Owned /\ \A blk \in live' : \E x \in Inner : blk = BlkOf(x)
  BY <1>1, LiveSame
<1>3. Loose' = Loose
  BY DEF Loose
<1>4. Mine' = Mine
  BY <1>2, <1>3 DEF Mine
<1>5. TilesInv'
  BY <1>1, <1>2, <1>3, <1>4 DEF TilesInv
<1>6. RootInv'
  BY <1>1, <1>4 DEF RootInv
<1> QED
  BY <1>3, <1>5, <1>6 DEF Effect, Stays

\* A step that changes nothing.
LEMMA StutterStep ==
    ASSUME BuddyInv, UNCHANGED vars
    PROVE  BuddyInv' /\ Effect
<1>1. m' = m /\ live' = live /\ call' = call
  BY DEF vars
<1>2. Blocks' = Blocks
  BY <1>1 DEF Blocks
<1>3. NoBlock' = NoBlock
  BY <1>1 DEF NoBlock
<1>4. Flight' = Flight
  BY <1>1, <1>3 DEF Flight, Carries
<1>5. TilesInv' /\ RootInv' /\ Effect
  BY <1>1, <1>2, <1>4, NothingMoves
<1>6. Pushed' = Pushed
  BY <1>1, <1>2 DEF Pushed
<1>7. Wants' = Wants
  BY <1>1 DEF Wants
<1>8. CallInv' = CallInv
  <2>1. Finds' = Finds /\ Merges' = Merges
    BY <1>1, <1>2, <1>3, <1>7 DEF Finds, Merges
  <2> QED
    BY <1>1, <1>7, <2>1 DEF CallInv
<1>9. BuddiesInv' = BuddiesInv
  BY <1>1, <1>2 DEF BuddiesInv
<1>10. RunInv' = RunInv
  BY <1>1, <1>6, <1>8, <1>9 DEF RunInv
<1>11. Running' = Running
  BY <1>1 DEF Running
<1> QED
  BY <1>1, <1>5, <1>10, <1>11 DEF BuddyInv

\* A step that leaves the arrays moves no block.
LEMMA FaultStep ==
    ASSUME BuddyInv, call' = Fault, live' = live, Blocks' = Blocks, Flight = {}
    PROVE  BuddyInv' /\ Effect
<1>1. call'.pc = "fault"
  BY DEF Fault, Call
<1>2. Flight' = {}
  BY <1>1 DEF Flight, Carries
<1>3. TilesInv' /\ RootInv' /\ Effect
  BY <1>2, NothingMoves
<1>4. ~Running'
  BY <1>1 DEF Running
<1> QED
  BY <1>1, <1>3, <1>4 DEF BuddyInv

\* What is to be shown of a step that stays inside the arrays.
LEMMA RunStep ==
    ASSUME TilesInv', RootInv', Lists(m', Pushed'), CallInv', BuddiesInv',
           call'.pc \in {"init", "idle", "find", "split", "merge"}
    PROVE  BuddyInv'
BY DEF BuddyInv, RunInv

-----------------------------------------------------------------------------
(* The steps.                                                              *)

\* Fields of a call.
LEMMA CallFields ==
    ASSUME NEW pc, NEW node, NEW lvl, NEW splits, NEW want
    PROVE  /\ Call(pc, node, lvl, splits, want).pc = pc /\ Call(pc, node, lvl, splits, want).node = node
           /\ Call(pc, node, lvl, splits, want).lvl = lvl /\ Call(pc, node, lvl, splits, want).splits = splits
           /\ Call(pc, node, lvl, splits, want).want = want
BY DEF Call

\* A round of the loop that pushes what was marked.
LEMMA PushMarkedStep ==
    ASSUME BuddyInv, PushMarked
    PROVE  BuddyInv' /\ Effect
<1> DEFINE e == call.node
           l == Lvl(e) + 1
<1>1. /\ call.pc = "init" /\ e \in Nodes /\ live' = live
      /\ m' = IF m.state[e] # USED /\ l \in Levels THEN push_entry(m, l, e) ELSE m
      /\ call' = IF m.state[e] # USED /\ l \notin Levels THEN Fault
                 ELSE IF e + 1 \in Nodes THEN Call("init", e + 1, 0, 0, 0) ELSE Idle
  BY GetLevel DEF PushMarked
<1>2. /\ Shape(m) /\ Blocks = FreeIn(m.state) /\ Blocks \subseteq Nodes /\ Lists(m, Pushed) /\ CallInv /\ BuddiesInv
      /\ live = {} /\ Pushed = {x \in Blocks : x < e} /\ Blocks' = FreeIn(m'.state)
  BY <1>1, Settled DEF CallInv, Pushed, Blocks, FreeIn, Running
<1>3. (e \in Blocks) <=> (m.state[e] # USED)
  BY <1>1 DEF Blocks
<1>4. e \in Nat /\ \A x \in Blocks : x \in Nat
  BY <1>1, <1>2 DEF Nodes
<1>5. Flight = {}
  BY <1>1 DEF Flight, Carries
<1>6. (l \in Levels) <=> (e \in Listed)
  BY <1>1, LevelOf, Sizes DEF Levels, Listed
<1> HIDE DEF e, l
<1>7. CASE m.state[e] # USED /\ l \notin Levels
  <2>1. m' = m /\ call' = Fault
    BY <1>1, <1>7
  <2>2. Blocks' = Blocks
    BY <2>1 DEF Blocks
  <2> QED
    BY <1>1, <1>5, <2>1, <2>2, FaultStep
<1>8. CASE m.state[e] = USED \/ l \in Levels
  <2>1. Blocks' = Blocks /\ Lists(m', Pushed \cup ({e} \cap Blocks))
    <3>1. CASE m.state[e] # USED
      <4>1. e \in Listed /\ e \notin Pushed /\ l \in Levels
        BY <1>2, <1>4, <1>6, <1>8, <3>1
      <4>2. /\ Lists(push_entry(m, l, e), Pushed \cup {e})
            /\ push_entry(m, l, e).state = [m.state EXCEPT ![e] = FREE]
        BY <1>2, <4>1, PushHolds DEF l
      <4>3. {e} \cap Blocks = {e} /\ m' = push_entry(m, l, e)
        BY <1>1, <1>3, <3>1, <4>1
      <4>4. m.state \in [Cells -> States] /\ m'.state = [m.state EXCEPT ![e] = FREE]
        BY <1>2, <4>2, <4>3 DEF Shape
      <4>5. Blocks' = Blocks \cup {e}
        BY <1>1, <1>2, <4>4, FreeChange
      <4> QED
        BY <1>3, <3>1, <4>2, <4>3, <4>5
    <3>2. CASE m.state[e] = USED
      <4>1. m' = m /\ {e} \cap Blocks = {} /\ Pushed \cup {} = Pushed
        BY <1>1, <1>3, <3>2
      <4> QED
        BY <1>2, <4>1
    <3> QED
      BY <3>1, <3>2
  <2>2. /\ call'.pc = "init" => call'.node = e + 1 /\ e + 1 \in Nodes /\ call'.lvl = 0 /\ call'.splits = 0
        /\ call'.pc \in {"init", "idle"}
        /\ call'.pc = "idle" => call' = Idle /\ e + 1 \notin Nodes
    BY <1>1, <1>8, CallFields DEF Idle
  <2>3. Pushed' = Pushed \cup ({e} \cap Blocks)
    <3>1. Pushed' = {x \in Blocks : call'.pc = "init" => x < call'.node}
      BY <2>1 DEF Pushed
    <3>2. CASE call'.pc = "init"
      BY <1>2, <1>4, <2>2, <3>1, <3>2
    <3>3. CASE call'.pc = "idle"
      <4>1. e + 1 > TreeSize - 1 /\ TreeSize \in Nat
        BY <1>4, <2>2, <3>3, Sizes DEF Nodes
      <4>2. \A x \in Blocks : x < e + 1
        BY <1>2, <1>4, <4>1 DEF Nodes
      <4>3. \A x \in Blocks : x < e \/ x = e
        BY <1>4, <4>2
      <4> QED
        BY <1>2, <3>1, <3>3, <4>3
    <3> QED
      BY <2>2, <3>2, <3>3
  <2>4. Flight' = {}
    BY <2>2 DEF Flight, Carries
  <2>5. TilesInv' /\ RootInv' /\ Effect
    BY <1>1, <1>5, <2>1, <2>4, NothingMoves
  <2>6. CallInv'
    BY <1>1, <1>2, <2>2 DEF CallInv
  <2>7. BuddiesInv'
    BY <1>1, <1>2, <2>1 DEF BuddiesInv
  <2> QED
    BY <2>1, <2>2, <2>3, <2>5, <2>6, <2>7, RunStep
<1> QED
  BY <1>7, <1>8

\* The list a request for 2^k pages is looked for on.
LEMMA WantedList ==
    ASSUME NEW k \in 0 .. W - 1
    PROVE  /\ log2ui(2^k) = k + 1
           /\ k < Depth => Depth - (k + 1) \in Levels /\ Depth - (k + 1) + 1 \in Levels
                           /\ 2^k = BlockPages(Depth - (k + 1) + 1)
<1>1. k \in 0 .. W /\ k \in Nat /\ W \in Nat /\ Depth \in Nat
  BY Sizes
<1>2. 2^k \in Nat /\ 2^k >= 1
  BY <1>1, PowerPositive
<1>3. log2ui(2^k) = k + 1
  BY <1>2, BitLength
<1>4. ASSUME k < Depth
      PROVE  /\ Depth - (k + 1) \in Levels /\ Depth - (k + 1) + 1 \in Levels /\ Depth - (Depth - (k + 1) + 1) = k
  BY <1>1, <1>4 DEF Levels
<1> QED
  BY <1>3, <1>4 DEF BlockPages

\* alloc_pages begins.
LEMMA AllocStep ==
    ASSUME BuddyInv, NEW count \in Counts, alloc_pages(count)
    PROVE  BuddyInv' /\ Effect
<1> DEFINE n == round2(count)
           l == Depth - log2ui(n)
<1>1. /\ call.pc = "idle" /\ n <= 2^Depth /\ n # 0
      /\ call' = IF l \in Levels THEN Call("find", m.free[l], l, 0, n) ELSE Fault
      /\ m' = m /\ live' = live
  BY DEF alloc_pages
<1>2. PICK k \in 0 .. W - 1 : n = 2^k
  <2>1. count \in Nat
    BY BuddyAssumption
  <2> QED
    BY <1>1, <2>1, Round2Powers
<1>3. k \in 0 .. W /\ W \in Nat /\ Depth \in 0 .. W /\ k \in Nat
  BY Sizes
<1>4. l = Depth - (k + 1)
  BY <1>2, WantedList
<1>5. Blocks' = Blocks /\ Flight = {}
  BY <1>1 DEF Blocks, Flight, Carries
<1> HIDE DEF n, l
<1>6. CASE l \notin Levels
  BY <1>1, <1>5, <1>6, FaultStep
<1>7. CASE l \in Levels
  <2>1. k < Depth
    BY <1>3, <1>4, <1>7 DEF Levels
  <2>2. l + 1 \in Levels /\ l + 0 + 1 = l + 1 /\ n = BlockPages(l + 1) /\ l + 0 = l
    BY <1>2, <1>4, <1>7, <2>1, WantedList DEF Levels
  <2>3. call'.pc = "find" /\ call'.node = m.free[l] /\ call'.lvl = l /\ call'.splits = 0 /\ call'.want = n
    BY <1>1, <1>7, CallFields
  <2>4. Lists(m, Blocks) /\ m.free[l] \in Cells /\ BuddiesInv
    BY <1>1, <1>7, Settled DEF Shape, Running
  <2>5. (m.free[l] = ListHead(l)) <=> (At(Blocks, l) = {})
    BY <1>7, <2>4, ListEmpty
  <2>6. Flight' = {}
    BY <2>3 DEF Flight, Carries
  <2>7. TilesInv' /\ RootInv' /\ Effect
    BY <1>1, <1>5, <2>6, NothingMoves
  <2>8. Pushed' = Blocks /\ Lists(m', Pushed')
    BY <1>1, <1>5, <2>3, <2>4 DEF Pushed
  <2>9. BuddiesInv'
    BY <1>1, <1>5, <2>4 DEF BuddiesInv
  <2>10. Finds'
    <3>1. Wants'
      BY <1>7, <2>2, <2>3 DEF Wants
    <3>2. NoBlock' <=> (At(Blocks, l) = {})
      BY <2>3, <2>5 DEF NoBlock
    <3>3. ASSUME NEW j \in Levels PROVE ~(call'.lvl < j /\ j <= call'.lvl + call'.splits)
      BY <1>7, <2>3 DEF Levels
    <3> QED
      BY <1>5, <2>3, <2>4, <3>1, <3>2, <3>3 DEF Finds
  <2>11. CallInv'
    BY <2>3, <2>10 DEF CallInv
  <2> QED
    BY <2>3, <2>7, <2>8, <2>9, <2>11, RunStep
<1> QED
  BY <1>6, <1>7

\* A call ends without a block having moved.
LEMMA EndStep ==
    ASSUME BuddyInv, AllocFails \/ MergeEnds
    PROVE  BuddyInv' /\ Effect
<1>1. /\ m' = m /\ live' = live /\ call' = Idle /\ call.pc \in {"find", "merge"}
      /\ call.pc = "find" => NoBlock
      /\ call.pc = "merge" => ~Mergeable
  BY DEF AllocFails, MergeEnds
<1>2. call'.pc = "idle"
  BY <1>1, CallFields DEF Idle
<1>3. Blocks' = Blocks /\ Flight = {} /\ Flight' = {}
  BY <1>1, <1>2 DEF Blocks, Flight, Carries
<1>4. TilesInv' /\ RootInv' /\ Effect
  BY <1>1, <1>3, NothingMoves
<1>5. Lists(m, Blocks) /\ BuddiesInv /\ CallInv /\ Blocks \subseteq Nodes
  BY <1>1, Settled DEF Running
<1>6. Pushed' = Blocks /\ Lists(m', Pushed')
  BY <1>1, <1>2, <1>3, <1>5 DEF Pushed
<1>7. CallInv'
  BY <1>1, <1>2 DEF CallInv
<1>8. BuddiesInv'
  <2> SUFFICES ASSUME NEW e \in Blocks, Lvl(e) > 0, get_buddy(e) \in Blocks PROVE FALSE
    BY <1>3 DEF BuddiesInv
  <2>1. call.pc = "merge" /\ call.node \in {e, get_buddy(e)}
    BY <1>5 DEF BuddiesInv
  <2>2. e \in Nodes /\ get_buddy(get_buddy(e)) = e
    BY <1>5, Parents
  <2>3. get_buddy(call.node) \in Blocks /\ call.node \in Blocks
    BY <2>1, <2>2
  <2>4. call.lvl = Lvl(call.node) + 1 /\ call.node \in Inner
    BY <1>5, <2>1 DEF CallInv, Merges
  <2>5. call.lvl > 0
    BY <2>4, InnerIs
  <2> QED
    BY <1>1, <2>1, <2>3, <2>5 DEF Mergeable, Blocks
<1> QED
  BY <1>2, <1>4, <1>6, <1>7, <1>8, RunStep

\* A round of the loop that looks for a block.
LEMMA FindStep ==
    ASSUME BuddyInv, FindBlock
    PROVE  BuddyInv' /\ Effect
<1> DEFINE l == call.lvl - 1
           p == pop_entry(m, l)
           e == p.entry
<1>1. /\ call.pc = "find" /\ call.lvl > 0 /\ NoBlock /\ m' = p.m /\ live' = live
      /\ call' = Call("find", e, l, call.splits + 1, call.want)
  BY DEF FindBlock
<1>2. /\ Lists(m, Blocks) /\ Shape(m) /\ Blocks = FreeIn(m.state) /\ Blocks \subseteq Listed /\ Mine \subseteq Nodes
      /\ BuddiesInv /\ TilesInv /\ RootInv /\ Finds /\ Wants
  BY <1>1, Settled DEF Running, CallInv, Finds
<1>3. /\ l \in Levels /\ l + (call.splits + 1) + 1 = call.lvl + call.splits + 1 /\ call.splits + 1 \in Nat
      /\ call.splits + 1 > 0 /\ call.splits + 1 # 0 /\ call.lvl \in Nat /\ call.lvl = l + 1 /\ l \in Nat
      /\ l + (call.splits + 1) = call.lvl + call.splits
  BY <1>1, <1>2, Sizes DEF Wants, Levels
<1>4. Popped(m, Blocks, l, m', e)
  BY <1>1, <1>2, <1>3, PopHolds
<1>5. /\ call'.pc = "find" /\ call'.node = e /\ call'.lvl = l /\ call'.splits = call.splits + 1
      /\ call'.want = call.want
  BY <1>1, CallFields
<1> HIDE DEF l, p, e
<1>6. Wants'
  BY <1>2, <1>3, <1>5 DEF Wants
<1>7. ASSUME NEW j \in Levels, 2 <= j, call'.lvl < j, j <= call'.lvl + call'.splits PROVE At(Blocks, j) = {}
  <2>1. j = call.lvl \/ (call.lvl < j /\ j <= call.lvl + call.splits)
    BY <1>3, <1>5, <1>7 DEF Levels
  <2> QED
    BY <1>1, <1>2, <1>7, <2>1 DEF Finds
<1>8. Flight = {}
  BY <1>1 DEF Flight, Carries
<1>9. CASE l < 2 \/ At(Blocks, l) = {}
  <2>1. Same(m, m') /\ e = ListHead(l)
    BY <1>4, <1>9 DEF Popped
  <2>2. Blocks' = Blocks /\ Lists(m', Blocks)
    <3>1. Lists(m', Blocks)
      BY <1>2, <2>1 DEF Same, Lists, Shape, ListHolds
    <3> QED
      BY <2>1, <3>1 DEF Same, Blocks
  <2>3. NoBlock' /\ Flight' = {}
    BY <1>5, <2>1 DEF NoBlock, Flight, Carries
  <2>4. TilesInv' /\ RootInv' /\ Effect
    BY <1>1, <1>8, <2>2, <2>3, NothingMoves
  <2>5. Pushed' = Blocks
    BY <1>5, <2>2 DEF Pushed
  <2>6. BuddiesInv'
    BY <1>1, <1>2, <2>2 DEF BuddiesInv
  <2>7. 2 <= l => At(Blocks, l) = {}
    BY <1>3, <1>9
  <2>8. Finds'
    BY <1>3, <1>5, <1>6, <1>7, <2>1, <2>2, <2>3, <2>7, HeadPlaces DEF Finds
  <2>9. CallInv'
    BY <1>5, <2>8 DEF CallInv
  <2> QED
    BY <1>5, <2>2, <2>4, <2>5, <2>6, <2>9, RunStep
<1>10. CASE l >= 2 /\ At(Blocks, l) # {}
  <2>1. e \in Blocks /\ Lvl(e) + 1 = l /\ Lists(m', Blocks \ {e}) /\ m'.state = [m.state EXCEPT ![e] = USED]
    BY <1>4, <1>10 DEF Popped
  <2>2. e \in Listed /\ e \in Nodes /\ e \in Inner /\ e # 0
    <3>1. e \in Listed /\ Lvl(e) \in Nat /\ e \in Nodes
      BY <1>2, <2>1, ListOf
    <3>2. e \in Inner
      BY <1>10, <2>1, <3>1 DEF Inner
    <3> QED
      BY <3>1, <3>2, InnerIs
  <2>3. Blocks' = Blocks \ {e}
    <3>1. Blocks' = FreeIn(m'.state) /\ m.state \in [Cells -> States]
      BY <1>2 DEF Blocks, FreeIn, Shape
    <3> QED
      BY <1>2, <2>1, <2>2, <3>1, FreeChange
  <2>4. ~NoBlock' /\ Flight' = {e}
    <3>1. e # ListHead(l)
      BY <1>3, <2>2, HeadPlaces
    <3> QED
      BY <1>3, <1>5, <3>1 DEF NoBlock, Flight, Carries
  <2>5. Owned' = Owned /\ \A blk \in live' : \E x \in Inner : blk = BlkOf(x)
    BY <1>1, <1>2, LiveSame
  <2>6. Loose' = Loose /\ Mine' = Mine
    BY <1>8, <2>1, <2>3, <2>4, <2>5 DEF Loose, Mine
  <2>7. TilesInv'
    BY <1>2, <2>3, <2>4, <2>5, <2>6 DEF TilesInv
  <2>8. RootInv' /\ Effect
    BY <1>1, <1>2, <2>2, <2>3, <2>6, RootStays DEF Effect, Stays
  <2>9. Pushed' = Blocks'
    BY <1>5 DEF Pushed
  <2>10. BuddiesInv'
    BY <1>1, <1>2, <2>3 DEF BuddiesInv
  <2>11. Finds'
    <3>1. \A j \in Levels : At(Blocks, j) = {} => At(Blocks', j) = {}
      BY <2>3 DEF At
    <3> QED
      BY <1>3, <1>5, <1>6, <1>7, <2>1, <2>2, <2>4, <3>1, HeadPlaces DEF Finds
  <2>12. CallInv'
    BY <1>5, <2>11 DEF CallInv
  <2> QED
    BY <1>5, <2>1, <2>3, <2>7, <2>8, <2>9, <2>10, <2>12, RunStep
<1> QED
  BY <1>3, <1>9, <1>10

\* A round of the loop that splits.
LEMMA SplitStep ==
    ASSUME BuddyInv, SplitBlock
    PROVE  BuddyInv' /\ Effect
<1> DEFINE e == call.node
           l == call.lvl + 1
           a == e * 2 + 1
           b == e * 2 + 2
           right == push_entry(m, l, b)
           both == push_entry(right, l, a)
           left == pop_entry(both, l)
<1>1. /\ call.pc \in {"find", "split"} /\ call.splits > 0 /\ Carries /\ m' = left.m /\ live' = live
      /\ call' = Call("split", left.entry, l, call.splits - 1, call.want)
  BY DEF SplitBlock, Carries
<1>2. /\ Lists(m, Blocks) /\ Shape(m) /\ Blocks = FreeIn(m.state) /\ Blocks \subseteq Nodes /\ Mine \subseteq Nodes
      /\ TilesInv /\ RootInv /\ BuddiesInv /\ CallInv
  BY <1>1, Settled DEF Running
<1>3. Wants /\ e \in Inner /\ Lvl(e) + 1 = call.lvl
  BY <1>1, <1>2 DEF CallInv, Finds, Carries
<1>4. e \in Nodes /\ Lvl(e) \in Nat /\ Lvl(e) >= 1 /\ Lvl(e) < Depth /\ e # 0
  BY <1>3, InnerIs
<1>5. /\ l \in Levels /\ call.splits - 1 \in Nat /\ l + (call.splits - 1) + 1 = call.lvl + call.splits + 1
      /\ l = Lvl(e) + 1 + 1 /\ Lvl(e) + 1 < Depth /\ l >= 2
  BY <1>1, <1>3, <1>4, Sizes DEF Wants, Levels
<1>6. /\ a \in Nodes /\ b \in Nodes /\ Lvl(a) = Lvl(e) + 1 /\ Lvl(b) = Lvl(e) + 1 /\ Family(e, a, b)
  BY <1>4, Children, ChildFamily
<1>7. /\ a \in Inner /\ a \in Listed /\ b \in Listed /\ Lvl(a) + 1 = l /\ Lvl(b) + 1 = l
  <2>1. Lvl(a) < Depth /\ Lvl(b) < Depth /\ Lvl(a) >= 1
    BY <1>4, <1>5, <1>6
  <2> QED
    BY <1>5, <1>6, <2>1 DEF Inner, Listed
<1>8. get_buddy(a) = b /\ get_buddy(b) = a
  <2>1. e \in Nat
    BY <1>4, LevelOf
  <2> QED
    BY <2>1 DEF get_buddy
<1>9. /\ call'.pc = "split" /\ call'.node = left.entry /\ call'.lvl = l /\ call'.splits = call.splits - 1
      /\ call'.want = call.want
  BY <1>1, CallFields
<1>10. /\ Flight = {e} /\ e \notin Blocks /\ e \notin Owned /\ Tiles(Mine) /\ Tiles(Loose)
       /\ e \in Loose /\ e \in Mine
  <2>1. Flight = {e}
    BY <1>1 DEF Flight
  <2>2. e \notin Blocks /\ e \notin Owned /\ Tiles(Mine) /\ e \in Loose /\ e \in Mine /\ Loose \subseteq Mine
    BY <1>2, <2>1 DEF TilesInv, Loose, Mine
  <2> QED
    BY <2>1, <2>2, TilesPart
<1> HIDE DEF e, l, a, b
<1>11. /\ Tiles((Mine \ {e}) \cup {a, b}) /\ Cover((Mine \ {e}) \cup {a, b}) = Cover(Mine)
       /\ a \notin Mine /\ b \notin Mine /\ Cover((Loose \ {e}) \cup {a, b}) = Cover(Loose)
  BY <1>6, <1>10, TilesSplit
<1>12. a # b /\ a \notin Blocks /\ b \notin Blocks /\ a \notin Owned /\ b \notin Owned
  BY <1>6, <1>11 DEF Family, Mine, Loose
<1>13. Lists(right, Blocks \cup {b}) /\ right.state = [m.state EXCEPT ![b] = FREE]
  BY <1>2, <1>7, <1>12, PushHolds
<1> HIDE DEF right
<1>14. /\ Lists(both, (Blocks \cup {b}) \cup {a}) /\ both.state = [right.state EXCEPT ![a] = FREE]
       /\ both.free[l] = a
  <2>1. a \notin Blocks \cup {b}
    BY <1>12
  <2> QED
    BY <1>7, <1>13, <2>1, PushHolds
<1> HIDE DEF both
<1>15. /\ left.entry = a /\ Lists(m', ((Blocks \cup {b}) \cup {a}) \ {a})
       /\ m'.state = [both.state EXCEPT ![a] = USED]
  <2>1. Popped(both, (Blocks \cup {b}) \cup {a}, l, m', left.entry)
    BY <1>1, <1>5, <1>14, PopHolds
  <2>2. At((Blocks \cup {b}) \cup {a}, l) # {}
    BY <1>7 DEF At
  <2> QED
    BY <1>5, <1>14, <2>1, <2>2 DEF Popped
<1>16. Blocks' = Blocks \cup {b} /\ Lists(m', Blocks')
  <2>1. m.state \in [Cells -> States] /\ right.state \in [Cells -> States] /\ both.state \in [Cells -> States]
    BY <1>2, <1>13, <1>14 DEF Lists, Shape
  <2>2. FreeIn(right.state) = Blocks \cup {b}
    BY <1>2, <1>6, <1>13, <2>1, FreeChange
  <2>3. FreeIn(both.state) = (Blocks \cup {b}) \cup {a}
    <3>1. FreeIn([right.state EXCEPT ![a] = FREE]) = FreeIn(right.state) \cup {a}
      BY <1>6, <2>1, FreeChange
    <3> QED
      BY <1>14, <2>2, <3>1
  <2>4. FreeIn(m'.state) = ((Blocks \cup {b}) \cup {a}) \ {a}
    BY <1>6, <1>15, <2>1, <2>3, FreeChange
  <2>5. Blocks' = FreeIn(m'.state) /\ ((Blocks \cup {b}) \cup {a}) \ {a} = Blocks \cup {b}
    BY <1>12 DEF Blocks, FreeIn
  <2> QED
    BY <1>15, <2>4, <2>5
<1>17. Flight' = {a}
  BY <1>9, <1>15 DEF Flight, Carries
<1>18. Owned' = Owned /\ \A blk \in live' : \E x \in Inner : blk = BlkOf(x)
  BY <1>1, <1>2, LiveSame
<1>19. Loose' = (Loose \ {e}) \cup {a, b} /\ Mine' = (Mine \ {e}) \cup {a, b}
  BY <1>10, <1>16, <1>17, <1>18 DEF Loose, Mine
<1>20. TilesInv'
  <2>1. Tiles(Mine') /\ Loose' \cap Owned' = {} /\ Flight' \cap Blocks' = {}
    BY <1>2, <1>11, <1>12, <1>16, <1>17, <1>18, <1>19 DEF TilesInv
  <2> QED
    BY <1>18, <2>1 DEF TilesInv
<1>21. RootInv' /\ Effect
  BY <1>1, <1>2, <1>11, <1>16, <1>19, RootStays DEF Effect, Stays
<1>22. Pushed' = Blocks'
  BY <1>9 DEF Pushed
<1>23. BuddiesInv'
  <2> SUFFICES ASSUME NEW x \in Blocks', Lvl(x) > 0, get_buddy(x) \in Blocks' PROVE FALSE
    BY DEF BuddiesInv
  <2>1. x \in Nodes /\ get_buddy(get_buddy(x)) = x
    BY <1>2, <1>6, <1>16, Parents
  <2>2. x # b /\ get_buddy(x) # b
    BY <1>8, <1>12, <1>16, <2>1
  <2> QED
    BY <1>1, <1>2, <1>16, <2>2 DEF BuddiesInv
<1>24. Wants'
  BY <1>3, <1>5, <1>9 DEF Wants
<1>25. CallInv'
  BY <1>7, <1>9, <1>15, <1>24 DEF CallInv
<1> QED
  BY <1>9, <1>16, <1>20, <1>21, <1>22, <1>23, <1>25, RunStep

\* A block goes to the caller.
LEMMA HandStep ==
    ASSUME BuddyInv, Wants, call.splits = 0, call.pc \in {"find", "split"},
           NEW e \in Inner, e \in Loose, Lvl(e) + 1 = call.lvl, HandOut(e),
           Blocks' = Blocks \ {e}, Flight \subseteq {e}, Lists(m', Blocks')
    PROVE  BuddyInv' /\ Effect
<1>1. /\ e \in Nodes /\ e \in Listed /\ e # 0 /\ TilesInv /\ RootInv /\ BuddiesInv /\ e \notin Owned /\ e \in Mine
  BY InnerIs, Settled DEF Mine, TilesInv, Running
<1>2. getAddress(e) = BlkOf(e).ptr /\ BlkOf(e).lvl = Lvl(e) + 1
  BY <1>1, BlkIs
<1>3. Depth - log2ui(call.want) = Lvl(e) + 1
  <2> DEFINE k == Depth - (call.lvl + 1)
  <2>1. call.lvl \in Levels /\ call.lvl + 0 + 1 \in Levels /\ call.want = BlockPages(call.lvl + 0 + 1)
    BY DEF Wants
  <2>2. k \in 0 .. W - 1 /\ Depth - (k + 1) = call.lvl /\ Depth - (call.lvl + 0 + 1) = k
    BY <2>1, Sizes DEF Levels
  <2>3. call.want = 2^k
    BY <2>1, <2>2 DEF BlockPages
  <2> HIDE DEF k
  <2>4. log2ui(2^k) = k + 1
    BY <2>2, WantedList
  <2> QED
    BY <2>2, <2>3, <2>4
<1>4. [ptr |-> getAddress(e), lvl |-> Depth - log2ui(call.want)] = BlkOf(e)
  BY <1>2, <1>3 DEF BlkOf
<1>5. call' = Idle /\ live' = live \cup {BlkOf(e)}
  BY <1>1, <1>4 DEF HandOut
<1>6. call'.pc = "idle"
  BY <1>5, CallFields DEF Idle
<1>7. Flight' = {} /\ Loose' = Loose \ {e} /\ Pushed' = Blocks'
  BY <1>6 DEF Flight, Carries, Loose, Pushed
<1>8. CallInv'
  BY <1>5, <1>6 DEF CallInv
<1>9. BuddiesInv'
  BY <1>1 DEF BuddiesInv
<1>10. Owned' = Owned \cup {e}
  BY <1>5, OwnedChange
<1>11. Mine' = Mine
  BY <1>7, <1>10 DEF Mine
<1>12. TilesInv'
  <2>1. \A blk \in live' : \E x \in Inner : blk = BlkOf(x)
    BY <1>1, <1>5 DEF TilesInv
  <2>2. Loose' \cap Owned' = {} /\ Flight' \cap Blocks' = {}
    BY <1>1, <1>7, <1>10 DEF TilesInv
  <2> QED
    BY <1>1, <1>11, <2>1, <2>2 DEF TilesInv
<1>13. RootInv'
  BY <1>1, <1>11, RootStays
<1>14. Effect
  BY <1>5, <1>7 DEF Effect, Hands
<1> QED
  BY <1>6, <1>7, <1>8, <1>9, <1>12, <1>13, <1>14, RunStep

\* alloc_pages ends with a block, or with the head of the list that hides its own.
LEMMA TakeStep ==
    ASSUME BuddyInv, TakeBlock \/ ReturnBlock
    PROVE  BuddyInv' /\ Effect
<1>1. call.pc \in {"find", "split"} /\ Running
  BY DEF TakeBlock, ReturnBlock, Running
<1>2. /\ Shape(m) /\ Blocks = FreeIn(m.state) /\ Blocks \subseteq Listed /\ Lists(m, Blocks)
      /\ CallInv /\ TilesInv
  BY <1>1, Settled
<1>3. CASE TakeBlock
  <2> DEFINE l == call.lvl
             p == pop_entry(m, l)
             e == p.entry
  <2>1. call.pc = "find" /\ ~NoBlock /\ call.splits = 0 /\ m' = p.m /\ HandOut(e)
    BY <1>3 DEF TakeBlock
  <2>2. Wants /\ At(Blocks, l) # {} /\ l \in Levels
    BY <1>2, <2>1 DEF CallInv, Finds, Wants
  <2>3. Popped(m, Blocks, l, m', e) /\ l \in Nat /\ Flight = {}
    BY <1>2, <2>1, <2>2, PopHolds DEF Flight, Carries, Levels
  <2> HIDE DEF p, e
  <2>4. CASE l < 2
    <3>1. Same(m, m') /\ e = ListHead(l)
      BY <2>3, <2>4 DEF Popped
    <3>2. Blocks' = Blocks /\ e \notin Nodes
      BY <2>2, <3>1, HeadPlaces DEF Same, Blocks
    <3>3. call' = Fault /\ live' = live
      BY <2>1, <3>2 DEF HandOut
    <3> QED
      BY <2>3, <3>2, <3>3, FaultStep
  <2>5. CASE l >= 2
    <3>1. e \in Blocks /\ Lvl(e) + 1 = l /\ Lists(m', Blocks \ {e}) /\ m'.state = [m.state EXCEPT ![e] = USED]
      BY <2>2, <2>3, <2>5 DEF Popped
    <3>2. e \in Inner /\ e \in Nodes
      <4>1. e \in Listed /\ e \in Nodes /\ Lvl(e) \in Nat
        BY <1>2, <3>1, ListOf
      <4> QED
        BY <2>5, <3>1, <4>1 DEF Inner
    <3>3. Blocks' = Blocks \ {e}
      <4>1. Blocks' = FreeIn(m'.state) /\ m.state \in [Cells -> States]
        BY <1>2 DEF Blocks, FreeIn, Shape
      <4> QED
        BY <1>2, <3>1, <3>2, <4>1, FreeChange
    <3>4. Flight \subseteq {e} /\ e \in Loose
      BY <2>3, <3>1 DEF Loose
    <3> QED
      BY <2>1, <2>2, <3>1, <3>2, <3>3, <3>4, HandStep
  <2> QED
    BY <2>3, <2>4, <2>5
<1>4. CASE ReturnBlock
  <2> DEFINE e == call.node
  <2>1. call.pc = "split" /\ call.splits = 0 /\ m' = m /\ HandOut(e)
    BY <1>4 DEF ReturnBlock
  <2>2. Wants /\ Lvl(e) + 1 = call.lvl /\ e \in Inner /\ Flight = {e} /\ e \in Loose /\ e \notin Blocks
    BY <1>2, <2>1 DEF CallInv, Flight, Carries, Loose, TilesInv
  <2>3. Blocks' = Blocks /\ Blocks' = Blocks \ {e}
    BY <2>1, <2>2 DEF Blocks
  <2>4. Lists(m', Blocks') /\ Flight \subseteq {e}
    BY <1>2, <2>1, <2>2, <2>3
  <2> HIDE DEF e
  <2> QED
    BY <2>1, <2>2, <2>3, <2>4, HandStep
<1> QED
  BY <1>3, <1>4

\* free_pages takes a block back.
LEMMA FreeStep ==
    ASSUME BuddyInv, NEW blk \in live, free_pages(blk)
    PROVE  BuddyInv' /\ Effect
<1>1. call.pc = "idle" /\ Running
  BY DEF free_pages, Running
<1>2. /\ TilesInv /\ BuddiesInv /\ RootInv /\ Lists(m, Blocks) /\ Shape(m) /\ Blocks = FreeIn(m.state)
      /\ Blocks \subseteq Nodes
  BY <1>1, Settled
<1>3. PICK e \in Inner : blk = BlkOf(e)
  BY <1>2 DEF TilesInv
<1> DEFINE l == Lvl(e) + 1
<1>4. e \in Listed /\ e \in Nodes /\ l \in Levels /\ e # 0
  BY <1>3, InnerIs
<1>5. /\ blk.lvl = l /\ blk.ptr \in Nat /\ Start <= blk.ptr /\ Start \in Nat /\ blk.ptr # 0
      /\ Offset(blk.ptr, blk.lvl) = e
  BY <1>3, <1>4, BlkIs, BuddyAssumption
<1>6. ~(blk.ptr = NULLPTR \/ blk.ptr < Start \/ blk.lvl > Depth)
  BY <1>4, <1>5, Sizes DEF NULLPTR, Levels
<1>7. live' = live \ {BlkOf(e)} /\ m' = push_entry(m, l, e) /\ call' = Call("merge", e, l, 0, 0)
  BY <1>3, <1>5, <1>6 DEF free_pages
<1>8. call'.pc = "merge" /\ call'.node = e /\ call'.lvl = l /\ call'.splits = 0
  BY <1>7, CallFields
<1>9. e \in Owned /\ e \notin Blocks /\ Flight = {} /\ Flight' = {}
  <2>1. Flight = {} /\ Flight' = {}
    BY <1>1, <1>8 DEF Flight, Carries
  <2>2. e \in Owned
    BY <1>3 DEF Owned
  <2> QED
    BY <1>2, <2>1, <2>2 DEF TilesInv, Loose
<1>10. Lists(m', Blocks \cup {e}) /\ m'.free[l] = e /\ m'.state = [m.state EXCEPT ![e] = FREE]
  BY <1>2, <1>4, <1>7, <1>9, PushHolds
<1> HIDE DEF l
<1>11. Blocks' = Blocks \cup {e}
  <2>1. Blocks' = FreeIn(m'.state) /\ m.state \in [Cells -> States]
    BY <1>2 DEF Blocks, FreeIn, Shape
  <2> QED
    BY <1>2, <1>4, <1>10, <2>1, FreeChange
<1>12. Owned' = Owned \ {e}
  BY <1>7, OwnedChange
<1>13. Loose' = Loose \cup {e} /\ Mine' = Mine
  BY <1>9, <1>11, <1>12 DEF Loose, Mine
<1>14. TilesInv'
  <2>1. Loose' \cap Owned' = {} /\ Flight' \cap Blocks' = {} /\ Tiles(Mine')
    BY <1>2, <1>9, <1>12, <1>13 DEF TilesInv
  <2>2. \A x \in live' : \E y \in Inner : x = BlkOf(y)
    BY <1>2, <1>7 DEF TilesInv
  <2> QED
    BY <2>1, <2>2 DEF TilesInv
<1>15. RootInv' /\ Effect
  BY <1>2, <1>7, <1>9, <1>11, <1>13, RootStays DEF Effect, Returns
<1>16. Pushed' = Blocks'
  BY <1>8 DEF Pushed
<1>17. BuddiesInv'
  <2> SUFFICES ASSUME NEW x \in Blocks', Lvl(x) > 0, get_buddy(x) \in Blocks'
               PROVE  call'.pc = "merge" /\ call'.node \in {x, get_buddy(x)}
    BY DEF BuddiesInv
  <2>1. x = e \/ get_buddy(x) = e
    BY <1>1, <1>2, <1>11 DEF BuddiesInv
  <2> QED
    BY <1>8, <2>1
<1>18. CallInv'
  BY <1>8, <1>10, <1>11 DEF CallInv, Merges, l
<1> QED
  BY <1>8, <1>10, <1>11, <1>14, <1>15, <1>16, <1>17, <1>18, RunStep

\* A round of the loop that merges.  The parent is not the whole-zone block: the zone would
\* be free as a whole, and then that block was there from the beginning.
LEMMA MergeStep ==
    ASSUME BuddyInv, try_merge
    PROVE  BuddyInv' /\ Effect
<1> DEFINE e == call.node
           l == call.lvl
           b == get_buddy(e)
           p == (e - 1) \div 2
           removed == remove_entry(m, b)
           popped == pop_entry(removed, l).m
<1>1. /\ call.pc = "merge" /\ m.state[b] # USED /\ live' = live
      /\ m' = push_entry(popped, l - 1, p) /\ call' = Call("merge", p, l - 1, 0, 0)
  BY DEF try_merge, Mergeable
<1>2. /\ Lists(m, Blocks) /\ Shape(m) /\ Blocks = FreeIn(m.state) /\ Blocks \subseteq Listed
      /\ TilesInv /\ RootInv /\ BuddiesInv /\ CallInv
  BY <1>1, Settled DEF Running
<1>3. e \in Blocks /\ e \in Inner /\ l = Lvl(e) + 1 /\ m.free[l] = e
  BY <1>1, <1>2 DEF CallInv, Merges
<1>4. e \in Nodes /\ Lvl(e) \in Nat /\ Lvl(e) >= 1 /\ Lvl(e) < Depth /\ l \in Levels /\ l >= 2
  BY <1>3, InnerIs
<1>5. /\ p \in Nodes /\ Lvl(p) = Lvl(e) - 1 /\ Lvl(p) + 1 = l - 1 /\ Lvl(p) < Depth
      /\ b \in Nodes /\ Lvl(b) = Lvl(e) /\ b # e /\ Family(p, e, b) /\ b # 0 /\ e # 0
  <2>1. Lvl(e) > 0 /\ Lvl(e) - 1 + 1 = l - 1
    BY <1>3, <1>4
  <2> QED
    BY <1>4, <2>1, Parents, ParentFamily
<1>6. b \in Blocks
  BY <1>1, <1>5 DEF Blocks
<1>7. call'.pc = "merge" /\ call'.node = p /\ call'.lvl = l - 1 /\ call'.splits = 0
  BY <1>1, CallFields
<1> HIDE DEF e, l, b, p
<1>8. Flight = {} /\ Flight' = {}
  BY <1>1, <1>7 DEF Flight, Carries
<1>9. /\ Tiles(Mine) /\ Tiles(Loose) /\ e \in Loose /\ b \in Loose /\ e \in Mine /\ b \in Mine
      /\ e \notin Owned /\ b \notin Owned
  <2>1. /\ Tiles(Mine) /\ Loose \subseteq Mine /\ e \in Loose /\ b \in Loose /\ e \in Mine /\ b \in Mine
        /\ e \notin Owned /\ b \notin Owned
    BY <1>2, <1>3, <1>6 DEF TilesInv, Loose, Mine
  <2> QED
    BY <2>1, TilesPart
<1>10. /\ Tiles((Mine \ {e, b}) \cup {p}) /\ Cover((Mine \ {e, b}) \cup {p}) = Cover(Mine) /\ p \notin Mine
       /\ Cover((Loose \ {e, b}) \cup {p}) = Cover(Loose)
  BY <1>5, <1>9, TilesMerge
<1>11. p # e /\ p # b /\ p \notin Blocks /\ p \notin Owned
  BY <1>5, <1>10 DEF Family, Mine, Loose
<1>12. p # 0
  <2> SUFFICES ASSUME p = 0 PROVE FALSE
    OBVIOUS
  <2>1. PagesOf(p) \subseteq Cover(Mine)
    BY <1>10 DEF Cover
  <2> QED
    BY <1>2, <1>11, <2>1 DEF RootInv
<1>13. p \in Inner /\ p \in Listed
  <2>1. Lvl(p) # 0 /\ Lvl(p) \in Nat
    BY <1>4, <1>5, <1>12, RootLevel
  <2>2. Lvl(p) >= 1
    BY <2>1
  <2> QED
    BY <1>5, <2>2 DEF Inner, Listed
<1>14. Lists(removed, Blocks \ {b}) /\ removed.free = m.free /\ removed.state = [m.state EXCEPT ![b] = USED]
  <2>1. l = Lvl(b) + 1 /\ m.free[l] # b
    BY <1>3, <1>5
  <2> QED
    BY <1>2, <1>4, <1>6, <2>1, RemoveHolds
<1> HIDE DEF removed
<1>15. Lists(popped, (Blocks \ {b}) \ {e}) /\ popped.state = [removed.state EXCEPT ![e] = USED]
  <2>1. Popped(removed, Blocks \ {b}, l, popped, pop_entry(removed, l).entry)
    BY <1>4, <1>14, PopHolds
  <2>2. At(Blocks \ {b}, l) # {}
    BY <1>3, <1>5 DEF At
  <2>3. removed.free[l] = e
    BY <1>3, <1>14
  <2> HIDE DEF popped
  <2> QED
    BY <1>4, <2>1, <2>2, <2>3 DEF Popped
<1> HIDE DEF popped
<1>16. /\ Lists(m', ((Blocks \ {b}) \ {e}) \cup {p}) /\ m'.free[l - 1] = p
       /\ m'.state = [popped.state EXCEPT ![p] = FREE]
  <2>1. p \notin (Blocks \ {b}) \ {e}
    BY <1>11
  <2> QED
    BY <1>1, <1>5, <1>13, <1>15, <2>1, PushHolds
<1>17. Blocks' = ((Blocks \ {b}) \ {e}) \cup {p}
  <2>1. /\ m.state \in [Cells -> States] /\ removed.state \in [Cells -> States]
        /\ popped.state \in [Cells -> States]
    BY <1>2, <1>14, <1>15 DEF Lists, Shape
  <2>2. FreeIn(removed.state) = Blocks \ {b}
    BY <1>2, <1>5, <1>14, <2>1, FreeChange
  <2>3. FreeIn(popped.state) = (Blocks \ {b}) \ {e}
    BY <1>4, <1>15, <2>1, <2>2, FreeChange
  <2>4. FreeIn(m'.state) = ((Blocks \ {b}) \ {e}) \cup {p}
    <3>1. FreeIn([popped.state EXCEPT ![p] = FREE]) = FreeIn(popped.state) \cup {p}
      BY <1>5, <2>1, FreeChange
    <3> QED
      BY <1>16, <2>3, <3>1
  <2> QED
    BY <2>4 DEF Blocks, FreeIn
<1>18. Owned' = Owned /\ \A blk \in live' : \E x \in Inner : blk = BlkOf(x)
  BY <1>1, <1>2, LiveSame
<1>19. Loose' = (Loose \ {e, b}) \cup {p} /\ Mine' = (Mine \ {e, b}) \cup {p}
  BY <1>8, <1>9, <1>17, <1>18 DEF Loose, Mine
<1>20. TilesInv'
  <2>1. Tiles(Mine') /\ Loose' \cap Owned' = {} /\ Flight' \cap Blocks' = {}
    BY <1>2, <1>8, <1>10, <1>11, <1>18, <1>19 DEF TilesInv
  <2> QED
    BY <1>18, <2>1 DEF TilesInv
<1>21. RootInv' /\ Effect
  <2>1. 0 \in Blocks => 0 \in Blocks'
    BY <1>5, <1>17
  <2>2. Cover(Mine') = Cover(Mine) /\ Cover(Loose') = Cover(Loose)
    BY <1>10, <1>19
  <2> QED
    BY <1>1, <1>2, <2>1, <2>2, RootStays DEF Effect, Stays
<1>22. Pushed' = Blocks'
  BY <1>7 DEF Pushed
<1>23. BuddiesInv'
  <2> SUFFICES ASSUME NEW x \in Blocks', Lvl(x) > 0, get_buddy(x) \in Blocks'
               PROVE  call'.pc = "merge" /\ call'.node \in {x, get_buddy(x)}
    BY DEF BuddiesInv
  <2>1. CASE x # p /\ get_buddy(x) # p
    <3>1. x \in Blocks /\ get_buddy(x) \in Blocks /\ x # e /\ get_buddy(x) # e
      BY <1>17, <2>1
    <3>2. call.node \in {x, get_buddy(x)}
      BY <1>2, <3>1 DEF BuddiesInv
    <3> QED
      BY <3>1, <3>2 DEF e
  <2> QED
    BY <1>7, <2>1
<1>24. CallInv'
  <2>1. call'.lvl = Lvl(call'.node) + 1
    BY <1>5, <1>7
  <2> QED
    BY <1>7, <1>13, <1>16, <1>17, <2>1 DEF CallInv, Merges
<1> QED
  BY <1>7, <1>16, <1>17, <1>20, <1>21, <1>22, <1>23, <1>24, RunStep

\* Every step keeps the invariant.
LEMMA BuddyStep ==
    ASSUME BuddyInv, [Next]_vars
    PROVE  BuddyInv' /\ Effect
<1>1. CASE UNCHANGED vars
  BY <1>1, StutterStep
<1>2. CASE PushMarked
  BY <1>2, PushMarkedStep
<1>3. ASSUME NEW count \in Counts, AllocRefused(count) \/ alloc_pages(count) PROVE BuddyInv' /\ Effect
  BY <1>3, AllocStep, StutterStep DEF AllocRefused
<1>4. CASE FindBlock
  BY <1>4, FindStep
<1>5. CASE AllocFails \/ MergeEnds
  BY <1>5, EndStep
<1>6. CASE SplitBlock
  BY <1>6, SplitStep
<1>7. CASE TakeBlock \/ ReturnBlock
  BY <1>7, TakeStep
<1>8. ASSUME NEW blk \in live, free_pages(blk) PROVE BuddyInv' /\ Effect
  BY <1>8, FreeStep
<1>9. CASE try_merge
  BY <1>9, MergeStep
<1> QED
  BY <1>1, <1>2, <1>3, <1>4, <1>5, <1>6, <1>7, <1>8, <1>9 DEF Next, Alloc, Free

-----------------------------------------------------------------------------
(* The beginning.                                                          *)

\* The lists as buddy_alloc_init leaves them: the whole-zone block, with no others, on the
\* list before its own.
LEMMA RootPushed ==
    LET h == ListHead(0)
        b == buddy_alloc_init
    IN  /\ b.state \in [Cells -> States] /\ \A c \in Cells : c # 0 => b.state[c] = USED
        /\ b.next \in [Cells -> Cells] /\ b.next[0] = h /\ b.next[h] = 0
        /\ b.prev \in [Cells -> Cells] /\ b.prev[0] = h /\ b.prev[h] = 0
        /\ \A l \in Levels : l # 0 => b.next[ListHead(l)] = ListHead(l) /\ b.prev[ListHead(l)] = ListHead(l)
        /\ b.free \in [Levels -> Cells] /\ b.free[0] = 0 /\ \A l \in Levels : l # 0 => b.free[l] = ListHead(l)
        /\ b.size \in [Levels -> Word] /\ b.size[0] = 1 /\ \A l \in Levels : l # 0 => b.size[l] = 0
<1> DEFINE h == ListHead(0)
           links == [e \in Cells |-> IF e \in Heads THEN e ELSE 0]
           c == [state |-> [e \in Cells |-> USED], next |-> links, prev |-> links,
                 free |-> [l \in Levels |-> ListHead(l)], size |-> [l \in Levels |-> 0]]
           b == buddy_alloc_init
<1>1. 0 \in Cells /\ h \in Cells /\ 0 # h /\ 0 \in Levels
  BY RootLevel, HeadPlaces, FirstLists
<1>2. links \in [Cells -> Cells] /\ \A l \in Levels : ListHead(l) \in Cells /\ links[ListHead(l)] = ListHead(l)
  BY <1>1, HeadPlaces DEF Heads
<1>3. 0 \in Word /\ 1 \in Word /\ (0 + 1) % 2^W = 1
  <2>1. 2^W \in Nat /\ 2^W > 1
    BY Sizes
  <2>2. ASSUME NEW w \in Nat, w > 1 PROVE (0 + 1) % w = 1 /\ 0 \in 0 .. w - 1 /\ 1 \in 0 .. w - 1
    BY <2>2
  <2> QED
    BY <2>1, <2>2 DEF Word
<1>4. b = push_entry(c, 0, 0)
  BY DEF buddy_alloc_init
<1>5. /\ c.state = [e \in Cells |-> USED] /\ c.next = links /\ c.prev = links
      /\ c.free = [l \in Levels |-> ListHead(l)] /\ c.size = [l \in Levels |-> 0]
  OBVIOUS
<1> HIDE DEF c, b, links
<1>6. /\ b.state = [c.state EXCEPT ![0] = FREE] /\ b.free = [c.free EXCEPT ![0] = 0]
      /\ b.size = [c.size EXCEPT ![0] = (c.size[0] + 1) % 2^W]
      /\ b.next = [c.next EXCEPT ![0] = c.next[c.free[0]], ![c.free[0]] = 0]
      /\ b.prev = [[c.prev EXCEPT ![0] = c.free[0]] EXCEPT ![b.next[0]] = 0]
  BY <1>4 DEF push_entry
<1>7. c.free[0] = h /\ c.size[0] = 0
  BY <1>1, <1>5
<1>8. b.next = [links EXCEPT ![0] = h, ![h] = 0] /\ b.next[0] = h
  <2>1. links[h] = h
    BY <1>1, <1>2
  <2>2. b.next = [links EXCEPT ![0] = h, ![h] = 0]
    BY <1>5, <1>6, <1>7, <2>1
  <2> QED
    BY <1>1, <1>2, <2>2
<1>9. b.prev = [[links EXCEPT ![0] = h] EXCEPT ![h] = 0]
  BY <1>5, <1>6, <1>7, <1>8
<1>10. \A l \in Levels : l # 0 => ListHead(l) # h /\ ListHead(l) # 0
  BY <1>1, HeadPlaces, RootLevel
<1>11. b.state \in [Cells -> States] /\ \A x \in Cells : x # 0 => b.state[x] = USED
  BY <1>1, <1>5, <1>6 DEF States, USED, FREE
<1>12. b.free \in [Levels -> Cells] /\ b.free[0] = 0 /\ \A l \in Levels : l # 0 => b.free[l] = ListHead(l)
  BY <1>1, <1>2, <1>5, <1>6
<1>13. b.size \in [Levels -> Word] /\ b.size[0] = 1 /\ \A l \in Levels : l # 0 => b.size[l] = 0
  BY <1>1, <1>3, <1>5, <1>6, <1>7
<1>14. /\ b.next \in [Cells -> Cells] /\ b.next[h] = 0
       /\ \A l \in Levels : l # 0 => b.next[ListHead(l)] = ListHead(l)
  <2> HIDE DEF h
  <2> QED
    BY <1>1, <1>2, <1>8, <1>10
<1>15. /\ b.prev \in [Cells -> Cells] /\ b.prev[0] = h /\ b.prev[h] = 0
       /\ \A l \in Levels : l # 0 => b.prev[ListHead(l)] = ListHead(l)
  <2> HIDE DEF h
  <2> QED
    BY <1>1, <1>2, <1>9, <1>10
<1> QED
  BY <1>8, <1>11, <1>12, <1>13, <1>14, <1>15 DEF b

\* The block is popped again, whatever the states are set to before, and the lists are
\* empty; two counts are not.
LEMMA RootPopped ==
    ASSUME NEW a, a.next = buddy_alloc_init.next, a.prev = buddy_alloc_init.prev,
           a.free = buddy_alloc_init.free, a.size = buddy_alloc_init.size,
           a.state \in [Cells -> States], \A l \in Levels : a.state[ListHead(l)] = USED
    PROVE  Lists(pop_entry(a, 0).m, {}) /\ pop_entry(a, 0).m.state = [a.state EXCEPT ![0] = USED]
<1> DEFINE h == ListHead(0)
           r == remove_entry(a, 0)
           q == [r EXCEPT !.free[0] = r.prev[0]]
           b == pop_entry(a, 0).m
           i == buddy_alloc_init
<1>1. 0 \in Cells /\ 0 \in Nodes /\ h \in Cells /\ 0 # h /\ 0 \in Levels /\ 1 \in Levels
  BY RootLevel, HeadPlaces, FirstLists
<1>2. /\ a.next \in [Cells -> Cells] /\ a.next[0] = h /\ a.next[h] = 0
      /\ a.prev \in [Cells -> Cells] /\ a.prev[0] = h /\ a.prev[h] = 0
      /\ \A l \in Levels : l # 0 => a.next[ListHead(l)] = ListHead(l) /\ a.prev[ListHead(l)] = ListHead(l)
  BY RootPushed
<1>3. /\ a.free \in [Levels -> Cells] /\ a.free[0] = 0 /\ \A l \in Levels : l # 0 => a.free[l] = ListHead(l)
      /\ a.size \in [Levels -> Word] /\ a.size[0] = 1 /\ \A l \in Levels : l # 0 => a.size[l] = 0
  BY RootPushed
<1>4. get_level(0) = 1
  BY <1>1, GetLevel, RootLevel
<1>5. b = q
  BY <1>3 DEF pop_entry
<1>6. /\ r.state = [a.state EXCEPT ![0] = USED] /\ r.free = a.free
      /\ r.next = [a.next EXCEPT ![a.prev[0]] = a.next[0]]
      /\ r.prev = [a.prev EXCEPT ![a.next[0]] = a.prev[0]]
      /\ r.size = [l \in Levels |-> IF l = get_level(0) THEN (a.size[l] + 2^W - 1) % 2^W ELSE a.size[l]]
  BY DEF remove_entry
<1>7. /\ q.state = r.state /\ q.next = r.next /\ q.prev = r.prev /\ q.size = r.size
      /\ q.free = [r.free EXCEPT ![0] = r.prev[0]]
  BY DEF remove_entry
<1> HIDE DEF b, q, r, h, i
<1>8. /\ b.state = [a.state EXCEPT ![0] = USED] /\ b.next = [a.next EXCEPT ![h] = h]
      /\ b.prev = [a.prev EXCEPT ![h] = h] /\ b.free = [a.free EXCEPT ![0] = r.prev[0]]
      /\ b.size = [l \in Levels |-> IF l = 1 THEN (a.size[l] + 2^W - 1) % 2^W ELSE a.size[l]]
  BY <1>2, <1>4, <1>5, <1>6, <1>7
<1>9. r.prev[0] = h
  BY <1>1, <1>2, <1>6
<1>10. ASSUME NEW l \in Levels PROVE b.next[ListHead(l)] = ListHead(l) /\ b.prev[ListHead(l)] = ListHead(l) /\ b.free[l] = ListHead(l)
  <2>1. CASE l = 0
    BY <1>1, <1>2, <1>3, <1>8, <1>9, <2>1 DEF h
  <2>2. CASE l # 0
    <3>1. ListHead(l) # h /\ ListHead(l) \in Cells
      BY <1>1, <2>2, HeadPlaces DEF h
    <3> QED
      BY <1>1, <1>2, <1>3, <1>8, <2>2, <3>1
  <2> QED
    BY <2>1, <2>2
<1>11. 2^W \in Nat /\ 2^W > 1 /\ (0 + 2^W - 1) % 2^W = 2^W - 1
  <2>1. 2^W \in Nat /\ 2^W > 1
    BY Sizes
  <2>2. ASSUME NEW w \in Nat, w > 1 PROVE (0 + w - 1) % w = w - 1
    BY <2>2
  <2> QED
    BY <2>1, <2>2
<1>12. b.size \in [Levels -> Word] /\ \A l \in Levels : b.size[l] = Counted(l, {})
  <2>1. 2^W - 1 \in Word
    BY <1>11 DEF Word
  <2>2. ASSUME NEW l \in Levels PROVE b.size[l] \in Word /\ b.size[l] = Counted(l, {})
    <3>1. CASE l = 0
      BY <1>1, <1>3, <1>8, <3>1 DEF Counted
    <3>2. CASE l = 1
      <4>1. a.size[1] = 0 /\ b.size[1] = (0 + 2^W - 1) % 2^W
        BY <1>1, <1>3, <1>8
      <4> QED
        BY <1>11, <2>1, <3>2, <4>1 DEF Counted
    <3>3. CASE l # 0 /\ l # 1
      <4>1. b.size[l] = 0 /\ b.size[l] \in Word
        BY <1>3, <1>8, <3>3
      <4>2. Counted(l, {}) = Cardinality({})
        BY <3>3 DEF Counted
      <4> QED
        BY <4>1, <4>2, FS_EmptySet
    <3> QED
      BY <3>1, <3>2, <3>3
  <2>3. b.size \in [Levels -> Word]
    BY <1>8, <2>2
  <2> QED
    BY <2>2, <2>3
<1>13. Shape(b)
  <2>1. \A l \in Levels : ListHead(l) \in Cells /\ ListHead(l) # 0
    BY <1>1, HeadPlaces
  <2>2. b.state \in [Cells -> States] /\ \A l \in Levels : b.state[ListHead(l)] = USED
    BY <1>1, <1>8, <2>1 DEF States, USED
  <2>3. b.next \in [Cells -> Cells] /\ b.prev \in [Cells -> Cells] /\ b.free \in [Levels -> Cells]
    BY <1>1, <1>2, <1>3, <1>8, <1>9
  <2> QED
    BY <1>12, <2>2, <2>3 DEF Shape
<1>14. ASSUME NEW l \in Levels PROVE ListHolds(b, l, At({}, l))
  <2>1. At({}, l) = {} /\ Ring(l, {}) = {ListHead(l)}
    BY DEF At, Ring
  <2>2. IsRing(ListHead(l), {ListHead(l)}, b.next, b.prev)
    BY <1>10 DEF IsRing
  <2> QED
    BY <1>10, <1>12, <2>1, <2>2 DEF ListHolds
<1> QED
  BY <1>8, <1>13, <1>14 DEF Lists, b

\* The states do not matter to lists that hold nothing.
LEMMA MarksHold ==
    ASSUME NEW b, Lists(b, {}), NEW marks \in [Nodes -> States]
    PROVE  LET c == WithMarks(b, marks)
           IN  Lists(c, {}) /\ FreeIn(c.state) = {e \in Nodes : marks[e] # USED}
<1> DEFINE c == WithMarks(b, marks)
<1>1. Shape(b) /\ \A l \in Levels : ListHolds(b, l, At({}, l))
  BY DEF Lists
<1>2. /\ c.state = [e \in Cells |-> IF e \in Nodes THEN marks[e] ELSE b.state[e]]
      /\ c.next = b.next /\ c.prev = b.prev /\ c.free = b.free /\ c.size = b.size
  BY DEF WithMarks
<1> HIDE DEF c
<1>3. c.state \in [Cells -> States] /\ \A e \in Nodes : c.state[e] = marks[e]
  BY <1>1, <1>2, HeadPlaces DEF Shape
<1>4. \A l \in Levels : c.state[ListHead(l)] = USED
  BY <1>1, <1>2, HeadPlaces DEF Shape
<1>5. FreeIn(c.state) = {e \in Nodes : marks[e] # USED}
  BY <1>3 DEF FreeIn
<1>6. Lists(c, {})
  BY <1>1, <1>2, <1>3, <1>4 DEF Lists, Shape, ListHolds
<1> QED
  BY <1>5, <1>6 DEF c

\* The allocator that is about to push what was marked.
LEMMA BeginInv ==
    ASSUME NEW b, Lists(b, {}), NEW marks \in [Nodes -> States], NEW pages,
           {e \in Nodes : marks[e] # USED} = Marked(pages),
           m = WithMarks(b, marks), live = {}, call = Call("init", 0, 0, 0, 0)
    PROVE  BuddyInv /\ Mine = Marked(pages)
<1>1. Lists(m, {}) /\ Blocks = Marked(pages)
  BY MarksHold DEF Blocks, FreeIn
<1>2. call.pc = "init" /\ call.node = 0 /\ call.lvl = 0 /\ call.splits = 0
  BY CallFields
<1>3. Blocks \subseteq Nodes
  BY DEF Blocks
<1>4. Pushed = {}
  <2>1. \A e \in Blocks : ~(e < 0)
    BY <1>3 DEF Nodes
  <2> QED
    BY <1>2, <2>1 DEF Pushed
<1>5. Flight = {} /\ Owned = {}
  BY <1>2 DEF Flight, Carries, Owned
<1>6. Loose = Marked(pages) /\ Mine = Marked(pages)
  BY <1>1, <1>5 DEF Loose, Mine
<1>7. TilesInv
  BY <1>5, <1>6, MarkTiles DEF TilesInv
<1>8. RootInv
  <2> SUFFICES ASSUME PagesOf(0) \subseteq Cover(Mine) PROVE 0 \in Blocks
    BY DEF RootInv
  <2>1. PagesOf(0) \subseteq pages /\ 0 \in Nodes
    BY <1>6, MarkTiles, RootLevel
  <2> QED
    BY <1>1, <2>1 DEF Marked, MarkRegions
<1>9. CallInv
  BY <1>2, RootLevel DEF CallInv
<1>10. BuddiesInv
  BY <1>1, MarkTiles DEF BuddiesInv
<1> QED
  BY <1>1, <1>2, <1>4, <1>6, <1>7, <1>8, <1>9, <1>10 DEF BuddyInv, RunInv

\* The marks of the regions are FREE or USED.
LEMMA MarkTypes ==
    ASSUME NEW pages
    PROVE  /\ MarkRegions(pages) \in [Nodes -> States]
           /\ {e \in Nodes : MarkRegions(pages)[e] # USED} = Marked(pages)
<1>1. MarkRegions(pages) \in [Nodes -> {USED, FREE}]
  BY DEF MarkRegions
<1> QED
  BY <1>1 DEF States, USED, FREE, Marked

\* buddy_alloc_init_free_regions establishes the invariant.
LEMMA BuddyBegins ==
    ASSUME Init
    PROVE  BuddyInv
<1>1. PICK pages \in FreeRegions : m = buddy_alloc_init_free_regions(pages)
  BY DEF Init
<1> DEFINE a == buddy_alloc_init
           b == pop_entry(a, 0).m
<1>2. a.state \in [Cells -> States] /\ \A l \in Levels : a.state[ListHead(l)] = USED
  <2>1. \A l \in Levels : ListHead(l) \in Cells /\ ListHead(l) # 0
    BY HeadPlaces, RootLevel
  <2> QED
    BY <2>1, RootPushed
<1>3. Lists(b, {})
  BY <1>2, RootPopped
<1>4. m = WithMarks(b, MarkRegions(pages))
  BY <1>1 DEF buddy_alloc_init_free_regions
<1> HIDE DEF a, b
<1> QED
  BY <1>3, <1>4, MarkTypes, BeginInv DEF Init

\* Memory under 4 MiB begins with the junk taken for free.
LEMMA LowBegins ==
    ASSUME LowInit
    PROVE  BuddyInv /\ \A p \in declared : p \in 0 .. 2^Depth - 1 => p \in Cover(Mine)
<1>1. PICK junk \in LeafJunk : m = lowmem_buddy_init_free_regions(declared, junk)
  BY DEF LowInit
<1> DEFINE a == lowmem_buddy_init(junk)
           b == pop_entry(a, 0).m
           pages == MarkedPages(b, declared)
           marks == LowMarks(b, declared)
           first == LevelStart(Depth)
<1>2. junk \in [ZonePages -> States] /\ first \in Nat /\ first >= 1
  <2>1. 2^Depth \in Nat /\ 2^Depth >= 2
    <3>1. Depth \in Levels /\ 1 \in Levels /\ Depth >= 2 /\ 1 \in 0 .. W /\ Depth \in 0 .. W /\ 0 \in 0 .. W /\ 0 < Depth
      BY FirstLists, Sizes DEF Levels
    <3>2. 2 * 2^0 <= 2^Depth /\ 2^0 = 1
      BY <3>1, PowerGrows, Powers
    <3> QED
      BY <3>2, Sizes
  <2> QED
    BY <2>1, LowAssumption DEF LevelStart
<1>3. \A e \in Nodes : e >= first => e - first \in ZonePages /\ first + (e - first) = e
  BY <1>2, Sizes DEF Nodes, ZonePages, LevelStart
<1>4. /\ a.next = buddy_alloc_init.next /\ a.prev = buddy_alloc_init.prev
      /\ a.free = buddy_alloc_init.free /\ a.size = buddy_alloc_init.size
      /\ a.state = [e \in Cells |-> IF e \in Nodes /\ e >= first THEN junk[e - first] ELSE buddy_alloc_init.state[e]]
  BY DEF lowmem_buddy_init, buddy_alloc_init, push_entry
<1> HIDE DEF a, first
<1>5. a.state \in [Cells -> States] /\ \A l \in Levels : a.state[ListHead(l)] = USED
  <2>1. \A l \in Levels : ListHead(l) \in Cells /\ ListHead(l) # 0 /\ ListHead(l) \notin Nodes
    BY HeadPlaces, RootLevel
  <2>2. buddy_alloc_init.state \in [Cells -> States] /\ \A c \in Cells : c # 0 => buddy_alloc_init.state[c] = USED
    BY RootPushed
  <2>3. ASSUME NEW e \in Cells PROVE a.state[e] \in States
    BY <1>2, <1>3, <1>4, <2>2
  <2> QED
    BY <1>4, <2>1, <2>2, <2>3
<1>6. Lists(b, {})
  BY <1>4, <1>5, RootPopped
<1>7. m = WithMarks(b, marks)
  BY <1>1 DEF lowmem_buddy_init_free_regions, a
<1> HIDE DEF b
<1>8. ASSUME NEW e \in Nodes
      PROVE  marks[e] \in States /\ ((marks[e] # USED) <=> (e \in Marked(pages)))
  <2> DEFINE mark == MarkRegions(pages)[e]
  <2>1. marks[e] = IF mark # USED /\ e >= first /\ e - first \notin declared THEN b.state[e] ELSE mark
    BY DEF LowMarks, first
  <2>2. mark \in States /\ ((mark # USED) <=> (e \in Marked(pages)))
    BY MarkTypes
  <2>3. b.state[e] \in States
    BY <1>6, HeadPlaces DEF Lists, Shape
  <2>4. ASSUME mark # USED, e >= first, e - first \notin declared PROVE b.state[e] # USED
    <3> DEFINE p == e - first
    <3>1. p \in 0 .. 2^Depth - 1 /\ first + p = e
      BY <1>3, <2>4 DEF ZonePages
    <3>2. PagesOf(e) = {p}
      <4>1. PagesOf(first + p) = {p}
        BY <3>1, Leaf DEF first
      <4> HIDE DEF p
      <4> QED
        BY <3>1, <4>1
    <3>3. PagesOf(e) \subseteq pages
      BY <2>4 DEF MarkRegions
    <3> HIDE DEF p
    <3>4. p \in pages /\ p \notin declared
      BY <2>4, <3>2, <3>3 DEF p
    <3>5. b.state[first + p] # USED
      BY <3>4 DEF MarkedPages, first
    <3> QED
      BY <3>1, <3>5
  <2> HIDE DEF mark, marks, pages
  <2> QED
    BY <2>1, <2>2, <2>3, <2>4
<1>9. marks \in [Nodes -> States]
  <2>1. DOMAIN marks = Nodes /\ marks = [e \in Nodes |-> marks[e]]
    BY DEF LowMarks
  <2> HIDE DEF marks
  <2> QED
    BY <1>8, <2>1
<1>10. declared \subseteq pages
  BY DEF MarkedPages
<1> HIDE DEF marks, pages
<1>11. {e \in Nodes : marks[e] # USED} = Marked(pages)
  <2>1. Marked(pages) \subseteq Nodes
    BY DEF Marked
  <2> QED
    BY <1>8, <2>1
<1>12. BuddyInv /\ Mine = Marked(pages)
  BY <1>6, <1>7, <1>9, <1>11, BeginInv DEF LowInit
<1> QED
  BY <1>10, <1>12, MarkTiles

-----------------------------------------------------------------------------
(* The invariant holds.                                                    *)

\* A step of the allocator under 4 MiB is a step of buddy.c.
LEMMA LowSteps ==
    ASSUME [LowNext]_lowVars
    PROVE  [Next]_vars /\ declared' = declared
BY DEF LowNext, lowmem_alloc_pages, lowmem_free_pages, lowVars, vars, Next

\* The invariant of both allocators, for every depth, start, set of regions and requests
\* and whatever the uncleared states hold: until buddy.c leaves its arrays the lists hold
\* the FREE blocks, the loop of the call knows where it is and nothing is left unmerged;
\* blocks share no page, and the whole-zone block never comes back by merging.
THEOREM BuddyInvariant ==
    (Spec => []BuddyInv) /\ (LowSpec => []BuddyInv)
<1>1. Init => BuddyInv
  BY BuddyBegins
<1>2. LowInit => BuddyInv
  BY LowBegins
<1>3. BuddyInv /\ [Next]_vars => BuddyInv'
  BY BuddyStep
<1>4. BuddyInv /\ [LowNext]_lowVars => BuddyInv'
  BY <1>3, LowSteps
<1> QED
  BY <1>1, <1>2, <1>3, <1>4, PTL DEF Spec, LowSpec

\* What the code counts is what the property says it counts.
LEMMA CountIs ==
    ASSUME NEW S \in SUBSET Listed, NEW l \in Levels
    PROVE  Counted(l, At(S, l)) = (Cardinality(At(S, l)) + Miscount(l)) % 2^W
<1> DEFINE n == Cardinality(At(S, l))
<1>1. n \in Nat /\ n < 2^W /\ At(S, 0) = {} /\ At(S, 1) \subseteq {0} /\ Cardinality({}) = 0
  BY AtCount, FS_EmptySet
<1>2. 2^W \in Nat /\ 2^W > 1
  BY Sizes
<1>3. ASSUME NEW w \in Nat, w > 1
      PROVE  /\ (0 + 1) % w = 1 /\ (0 + (w - 1)) % w = w - 1 /\ (1 + (w - 1)) % w = 0
             /\ \A x \in Nat : x < w => (x + 0) % w = x
  BY <1>3
<1>4. CASE l = 0
  <2>1. Counted(l, At(S, l)) = 1 /\ n = 0 /\ Miscount(l) = 1
    BY <1>1, <1>4 DEF Counted, Miscount
  <2> QED
    BY <1>2, <1>3, <2>1
<1>5. CASE l = 1
  <2>1. Miscount(l) = 2^W - 1 /\ l # 0
    BY <1>5 DEF Miscount
  <2>2. CASE At(S, l) = {}
    <3>1. Counted(l, At(S, l)) = 2^W - 1 /\ n = 0
      BY <1>1, <1>5, <2>2 DEF Counted
    <3> QED
      BY <1>2, <1>3, <2>1, <3>1
  <2>3. CASE At(S, l) # {}
    <3>1. At(S, l) = {0}
      BY <1>1, <1>5, <2>3
    <3>2. n = 1
      BY <3>1, FS_Singleton
    <3>3. Counted(l, At(S, l)) = 0
      BY <1>5, <2>3 DEF Counted
    <3> QED
      BY <1>2, <1>3, <2>1, <3>2, <3>3
  <2> QED
    BY <2>2, <2>3
<1>6. CASE l # 0 /\ l # 1
  <2>1. Counted(l, At(S, l)) = n /\ Miscount(l) = 0
    BY <1>6 DEF Counted, Miscount
  <2> HIDE DEF n
  <2>2. (n + 0) % 2^W = n
    BY <1>1, <1>2, <1>3
  <2> QED
    BY <2>1, <2>2 DEF n
<1> QED
  BY <1>4, <1>5, <1>6

\* The invariant tells the story of the lists that the property asks for.
LEMMA ListsAgree ==
    ASSUME BuddyInv, Running
    PROVE  FreeListsConsistent
<1>1. ASSUME NEW l \in Levels
      PROVE  /\ FreeNodes(l) = At(Pushed, l) /\ ListHolds(m, l, At(Pushed, l))
             /\ Counted(l, At(Pushed, l)) = (Cardinality(At(Pushed, l)) + Miscount(l)) % 2^W
  <2>1. Lists(m, Pushed)
    BY Settled
  <2>2. ListHolds(m, l, At(Pushed, l)) /\ Pushed \in SUBSET Listed
    BY <2>1 DEF Lists
  <2>3. FreeNodes(l) = At(Pushed, l)
    BY DEF FreeNodes, At, Pushed, Lvl
  <2> QED
    BY <2>2, <2>3, CountIs
<1> SUFFICES ASSUME NEW l \in Levels, NEW R, R = FreeNodes(l)
             PROVE  LET ring == R \cup {ListHead(l)}
                    IN  /\ \A e \in ring : /\ m.next[e] \in ring /\ m.prev[m.next[e]] = e
                                           /\ m.prev[e] \in ring /\ m.next[m.prev[e]] = e
                        /\ \A met \in SUBSET ring :
                              (ListHead(l) \in met /\ \A e \in met : m.next[e] \in met) => met = ring
                        /\ m.free[l] = m.prev[ListHead(l)]
                        /\ m.size[l] = (Cardinality(R) + Miscount(l)) % 2^W
  BY Zenon DEF FreeListsConsistent
<1>2. ListHolds(m, l, R) /\ Counted(l, R) = (Cardinality(R) + Miscount(l)) % 2^W
  BY <1>1
<1> QED
  BY <1>2, Zenon DEF ListHolds, IsRing, Ring

\* Buddies that are both FREE are about to be merged.
LEMMA BuddiesMerge ==
    ASSUME BuddyInv, Running
    PROVE  NoFreeBuddies
<1> SUFFICES ASSUME NEW e \in Nodes, e # 0, m.state[e] # USED, m.state[get_buddy(e)] # USED
             PROVE  call.pc = "merge" /\ call.node \in {e, get_buddy(e)}
  BY DEF NoFreeBuddies
<1>1. Lvl(e) > 0
  <2>1. Lvl(e) \in Nat /\ Lvl(e) # 0
    BY LevelOf, RootLevel DEF Levels
  <2> QED
    BY <2>1
<1>2. e \in Blocks /\ get_buddy(e) \in Blocks
  BY <1>1, Parents DEF Blocks
<1> QED
  BY <1>1, <1>2, Settled DEF BuddiesInv

\* Types follow from the invariant.
LEMMA TypesFollow ==
    ASSUME BuddyInv, Running
    PROVE  TypeOK
<1>1. Shape(m) /\ TilesInv /\ CallInv /\ call.pc \in {"init", "idle", "find", "split", "merge"}
  BY Settled DEF BuddyInv, Running
<1>2. live \subseteq [ptr : Nat, lvl : Levels]
  <2>1. ASSUME NEW blk \in live PROVE blk \in [ptr : Nat, lvl : Levels]
    <3>1. PICK e \in Inner : blk = BlkOf(e)
      BY <1>1 DEF TilesInv
    <3> QED
      BY <3>1, InnerIs, BlkIs
  <2> QED
    BY <2>1
<1>3. 0 \in Cells /\ 0 \in Levels /\ Depth \in Nat
  BY RootLevel, HeadPlaces, FirstLists, Sizes
<1>4. call.node \in Cells /\ call.lvl \in Levels /\ call.splits \in 0 .. Depth - call.lvl
  <2>1. CASE call.pc = "init"
    BY <1>1, <1>3, <2>1, HeadPlaces DEF CallInv
  <2>2. CASE call.pc = "idle"
    <3>1. call.node = 0 /\ call.lvl = 0 /\ call.splits = 0
      BY <1>1, <2>2, CallFields DEF CallInv, Idle
    <3> QED
      BY <1>3, <3>1
  <2>3. CASE call.pc \in {"find", "split"}
    <3>1. Wants /\ call.node \in Cells
      BY <1>1, <2>3, HeadPlaces, InnerIs DEF CallInv, Finds
    <3> QED
      BY <1>3, <3>1 DEF Wants, Levels
  <2>4. CASE call.pc = "merge"
    <3>1. call.node \in Inner /\ call.lvl = Lvl(call.node) + 1 /\ call.splits = 0
      BY <1>1, <2>4 DEF CallInv, Merges
    <3>2. call.node \in Cells /\ call.lvl \in Levels
      BY <3>1, HeadPlaces, InnerIs
    <3> QED
      BY <1>3, <3>1, <3>2 DEF Levels
  <2> QED
    BY <1>1, <2>1, <2>2, <2>3, <2>4
<1> QED
  BY <1>1, <1>2, <1>4 DEF TypeOK, Shape

\* TreeConsistent for every instance of both allocators: after any history of alloc_pages
\* and free_pages, between any two rounds of their loops and as long as the code is inside
\* its arrays, flags, links, last entries and counts agree, but for the two counts that
\* initialisation leaves one off, and nothing that can be merged is left unmerged.
THEOREM TreeConsistentHolds ==
    (Spec => []TreeConsistent) /\ (LowSpec => []TreeConsistent)
<1>1. BuddyInv => TreeConsistent
  BY TypesFollow, ListsAgree, BuddiesMerge DEF TreeConsistent
<1> QED
  BY BuddyInvariant, <1>1, PTL

-----------------------------------------------------------------------------
(* What alloc_pages can find.                                              *)

\* A run of pages that begins at a multiple of its length is a block.
LEMMA RunIsBlock ==
    ASSUME NEW l \in Levels, NEW first \in 0 .. 2^Depth - 1, first % BlockPages(l) = 0
    PROVE  \E g \in Nodes : Lvl(g) = l /\ PagesOf(g) = first .. first + BlockPages(l) - 1
<1> DEFINE s == BlockPages(l)
           n == 2^l
           i == first \div s
           g == LevelStart(l) + i
<1>1. s \in Nat /\ s >= 1 /\ n \in Nat /\ n * s = 2^Depth /\ 2^Depth \in Nat /\ first \in Nat /\ first < 2^Depth
  BY BlockSizes, LevelFills, Sizes
<1>2. ASSUME NEW x \in Nat, NEW y \in Nat, y >= 1, x % y = 0 PROVE x \div y \in Nat /\ (x \div y) * y = x
  BY <1>2
<1> HIDE DEF s, n
<1>3. i \in Nat /\ i * s = first
  BY <1>1, <1>2 DEF s
<1> HIDE DEF i
<1>4. i < n
  <2>1. ASSUME NEW x \in Nat, NEW y \in Nat, NEW z \in Nat, x <= y PROVE x * z <= y * z
    BY <2>1
  <2>2. ~(n <= i)
    BY <1>1, <1>3, <2>1
  <2> QED
    BY <1>1, <1>3, <2>2
<1>5. g \in Nodes /\ Lvl(g) = l /\ Idx(g) = i
  BY <1>3, <1>4, BlockAt DEF n
<1>6. PagesOf(g) = Idx(g) * s .. Idx(g) * s + s - 1
  BY <1>5, PagesAre DEF s
<1> HIDE DEF g
<1>7. PagesOf(g) = first .. first + s - 1
  BY <1>3, <1>5, <1>6
<1> QED
  BY <1>5, <1>7 DEF s

\* The whole-zone block is all of the zone.
LEMMA RootPages == PagesOf(0) = 0 .. 2^Depth - 1
<1>1. 0 \in Nodes /\ Lvl(0) = 0 /\ Idx(0) = 0 /\ BlockPages(0) = 2^Depth /\ 2^Depth \in Nat
  <2>1. 0 \in Nodes /\ Lvl(0) = 0 /\ 2^0 = 1 /\ 2^Depth \in Nat /\ Depth - 0 = Depth
    BY RootLevel, Powers, Sizes
  <2>2. Idx(0) = 0 + 1 - 2^0
    BY <2>1 DEF Idx
  <2>3. 0 + 1 - 2^0 = 0
    BY <2>1
  <2>4. BlockPages(0) = 2^(Depth - 0)
    BY Zenon DEF BlockPages
  <2>5. 2^(Depth - 0) = 2^Depth
    BY <2>1, Zenon
  <2> QED
    BY <2>1, <2>2, <2>3, <2>4, <2>5, Zenon
<1>2. PagesOf(0) = 0 * 2^Depth .. 0 * 2^Depth + 2^Depth - 1
  BY <1>1, PagesAre
<1> QED
  BY <1>1, <1>2

\* AllocComplete for every instance: when alloc_pages gives up, no aligned run of four
\* times the pages it was asked for is free, or the zone is free as a whole, whatever
\* splits and merges came before.
THEOREM AllocCompleteHolds ==
    (Spec => []AllocComplete) /\ (LowSpec => []AllocComplete)
<1>1. ASSUME BuddyInv PROVE AllocComplete
  <2> SUFFICES ASSUME call.pc = "find", call.lvl = 0, NoBlock, FreePages # 0 .. 2^Depth - 1,
                      NEW first \in 0 .. 2^Depth - 1, first % (4 * call.want) = 0,
                      first .. first + 4 * call.want - 1 \subseteq FreePages
               PROVE  FALSE
    BY DEF AllocComplete
  <2> DEFINE l == call.splits
  <2>1. Finds /\ Wants /\ Blocks \subseteq Nodes /\ BuddiesInv
    BY <1>1, Settled DEF CallInv, Finds, Running
  <2>2. l \in Nat /\ l + 1 \in Levels /\ l \in Levels /\ call.want = BlockPages(l + 1)
    <3>1. l \in Nat /\ 0 + l + 1 = l + 1
      BY <2>1 DEF Wants
    <3> QED
      BY <2>1, <3>1, Sizes DEF Wants, Levels
  <2>3. FreePages = Cover(Blocks) /\ FreePages \subseteq 0 .. 2^Depth - 1
    BY <2>1, PagesInZone DEF FreePages, Cover
  <2>4. /\ 2 * call.want = BlockPages(l) /\ call.want \in Nat /\ call.want >= 1 /\ l < Depth
        /\ first \in Nat /\ 2^Depth \in Nat
    BY <2>2, BlockSizes, Sizes DEF Levels
  <2>5. l # 0
    <3> SUFFICES ASSUME l = 0 PROVE FALSE
      OBVIOUS
    <3>1. BlockPages(l) = 2^Depth
      BY Sizes DEF BlockPages
    <3>2. first + 4 * call.want - 1 \in first .. first + 4 * call.want - 1 /\ first + 4 * call.want - 1 > 2^Depth - 1
      BY <2>4, <3>1
    <3> QED
      BY <2>3, <2>4, <3>2
  <2>6. l - 1 \in Levels /\ 4 * call.want = BlockPages(l - 1)
    <3>1. l - 1 \in Levels /\ l - 1 < Depth /\ l - 1 + 1 = l
      BY <2>2, <2>4, <2>5, Sizes DEF Levels
    <3>2. BlockPages(l - 1) = 2 * BlockPages(l)
      BY <3>1, BlockSizes
    <3> QED
      BY <2>4, <3>1, <3>2
  <2>7. PICK g \in Nodes : Lvl(g) = l - 1 /\ PagesOf(g) = first .. first + 4 * call.want - 1
    BY <2>6, RunIsBlock
  <2>8. \A e \in Blocks : Lvl(e) > 0 => get_buddy(e) \notin Blocks
    BY <2>1 DEF BuddiesInv
  <2>9. PICK e \in Blocks : Lvl(e) <= Lvl(g)
    BY <2>1, <2>3, <2>7, <2>8, Descent
  <2>10. e \in Nodes /\ Lvl(e) \in Nat /\ Lvl(e) + 1 <= l
    <3>1. e \in Nodes /\ Lvl(e) \in Nat
      BY <2>1, LevelOf DEF Levels
    <3> QED
      BY <2>2, <2>7, <2>9, <3>1
  <2>11. CASE Lvl(e) = 0
    <3>1. PagesOf(0) \subseteq Cover(Blocks)
      BY <2>10, <2>11, RootLevel DEF Cover
    <3> QED
      BY <2>3, <3>1, RootPages
  <2>12. CASE Lvl(e) > 0
    <3>1. Lvl(e) + 1 \in Levels /\ 2 <= Lvl(e) + 1 /\ call.lvl < Lvl(e) + 1 /\ Lvl(e) + 1 <= call.lvl + call.splits
      BY <2>2, <2>10, <2>12, Sizes DEF Levels
    <3>2. At(Blocks, Lvl(e) + 1) = {}
      BY <2>1, <3>1 DEF Finds
    <3> QED
      BY <3>2 DEF At
  <2> QED
    BY <2>10, <2>11, <2>12
<1> QED
  BY BuddyInvariant, <1>1, PTL

-----------------------------------------------------------------------------
(* The page allocator the tree implements.                                 *)

Given == {LivePages(blk) : blk \in live}

\* The free pages of the abstract allocator, and the blocks it has handed out.
View ==
    /\ Unowned = Cover(Loose) /\ Unowned \subseteq 0 .. 2^Depth - 1
    /\ Given = {PagesOf(e) : e \in Owned}

\* The invariant gives the abstract allocator its state.
LEMMA AbstractView ==
    ASSUME BuddyInv
    PROVE  View
<1>1. Mine \subseteq Nodes /\ Loose \subseteq Mine /\ TilesInv
  BY DEF BuddyInv, TilesInv, Tiles, Mine
<1>2. Unowned = Cover(Loose)
  <2>1. InFlight = Cover(Flight)
    <3>1. CASE Carries
      <4>1. Flight = {call.node} /\ InFlight = PagesOf(call.node)
        BY <3>1 DEF Flight, InFlight, Carries
      <4> QED
        BY <4>1 DEF Cover
    <3>2. CASE ~Carries
      <4>1. Flight = {} /\ InFlight = {}
        BY <3>2 DEF Flight, InFlight, Carries
      <4> QED
        BY <4>1 DEF Cover
    <3> QED
      BY <3>1, <3>2
  <2>2. FreePages = Cover(Blocks)
    BY DEF FreePages, Cover
  <2> QED
    BY <2>1, <2>2, CoverUnion DEF Unowned, Loose
<1>3. {LivePages(blk) : blk \in live} = {PagesOf(e) : e \in Owned}
  <2>1. ASSUME NEW blk \in live PROVE \E e \in Owned : LivePages(blk) = PagesOf(e)
    <3>1. PICK e \in Inner : blk = BlkOf(e)
      BY <1>1 DEF TilesInv
    <3>2. e \in Owned
      BY <3>1 DEF Owned
    <3> QED
      BY <3>1, <3>2, InnerIs, BlkIs
  <2>2. ASSUME NEW e \in Owned PROVE \E blk \in live : LivePages(blk) = PagesOf(e)
    <3>1. e \in Inner /\ BlkOf(e) \in live
      BY DEF Owned
    <3> QED
      BY <3>1, InnerIs, BlkIs
  <2> QED
    BY <2>1, <2>2
<1>4. Cover(Loose) \subseteq 0 .. 2^Depth - 1
  BY <1>1, PagesInZone DEF Cover
<1> QED
  BY <1>2, <1>3, <1>4 DEF View, Given

\* What a step does to the blocks is a step of the abstract allocator.
LEMMA AbstractStep ==
    ASSUME BuddyInv, View, View', Effect
    PROVE  Abstract!Next \/ (Unowned' = Unowned /\ Given' = Given)
<1>1. /\ Unowned = Cover(Loose) /\ Given = {PagesOf(e) : e \in Owned}
      /\ Unowned' = Cover(Loose') /\ Given' = {PagesOf(e) : e \in Owned'}
  BY DEF View
<1>2. Mine \subseteq Nodes /\ Tiles(Mine) /\ Loose \subseteq Mine /\ Owned \subseteq Mine
  BY DEF BuddyInv, TilesInv, Tiles, Mine
<1>3. CASE Stays
  <2>1. Owned' = Owned
    BY <1>3 DEF Stays, Owned
  <2> QED
    BY <1>1, <1>3, <2>1 DEF Stays
<1>4. CASE Hands
  <2>1. PICK e \in Loose \cap Inner : Loose' = Loose \ {e} /\ live' = live \cup {BlkOf(e)}
    BY <1>4 DEF Hands
  <2>2. e \in Nodes /\ Tiles(Loose) /\ e \in Loose /\ e \in Inner
    BY <1>2, TilesPart
  <2>3. Owned' = Owned \cup {e}
    BY <2>1, <2>2, OwnedChange
  <2>4. Unowned' = Unowned \ PagesOf(e) /\ PagesOf(e) \subseteq Unowned
    BY <1>1, <2>1, <2>2, TilesMinus
  <2>5. Given' = Given \cup {PagesOf(e)}
    BY <1>1, <2>3
  <2>6. Abstract!Take(PagesOf(e))
    BY <2>4, <2>5 DEF Abstract!Take, Given
  <2> QED
    BY <2>2, <2>6 DEF Abstract!Next
<1>5. CASE Returns
  <2>1. PICK e \in Owned : Loose' = Loose \cup {e} /\ live' = live \ {BlkOf(e)}
    BY <1>5 DEF Returns
  <2>2. e \in Nodes /\ e \in Mine /\ e \in Inner
    BY <1>2 DEF Owned
  <2>3. Owned' = Owned \ {e}
    BY <2>1, <2>2, OwnedChange
  <2>4. Unowned' = Unowned \cup PagesOf(e)
    BY <1>1, <2>1 DEF Cover
  <2>5. \A f \in Owned : PagesOf(f) = PagesOf(e) => f = e
    <3>1. PagesOf(e) # {}
      BY <2>2, PagesInZone
    <3> QED
      BY <1>2, <2>2, <3>1 DEF Tiles
  <2>6. Given' = Given \ {PagesOf(e)} /\ PagesOf(e) \in Given
    BY <1>1, <2>3, <2>5
  <2>7. Abstract!Give(PagesOf(e))
    BY <2>4, <2>6 DEF Abstract!Give, Given
  <2> QED
    BY <2>2, <2>7 DEF Abstract!Next
<1> QED
  BY <1>3, <1>4, <1>5 DEF Effect

\* ImplementsPageAlloc for every zone: the tree and its lists refine the page allocator in
\* the pages of their nodes, every round of every loop a step of it or none.  What
\* alloc_pages takes out of the tree was free, is aligned and belongs to one caller, and
\* free_pages puts back exactly that; the addresses are not spoken of.
THEOREM ImplementsPageAllocHolds ==
    (Spec => ImplementsPageAlloc) /\ (LowSpec => ImplementsPageAlloc)
<1>1. BuddyInv => View
  BY AbstractView
<1>2. BuddyInv' => View'
  BY <1>1, PTL
<1>3. ASSUME BuddyInv, live = {} PROVE Abstract!Init
  <2>1. Unowned \subseteq 0 .. 2^Depth - 1
    BY <1>1, <1>3 DEF View
  <2> QED
    BY <1>3, <2>1 DEF Abstract!Init
<1>4. (Init => Abstract!Init) /\ (LowInit => Abstract!Init)
  BY <1>3, BuddyBegins, LowBegins DEF Init, LowInit
<1>5. BuddyInv /\ [Next]_vars => [Abstract!Next]_<<Unowned, Given>>
  <2> SUFFICES ASSUME BuddyInv, [Next]_vars PROVE Abstract!Next \/ (Unowned' = Unowned /\ Given' = Given)
    OBVIOUS
  <2>1. BuddyInv' /\ Effect
    BY BuddyStep
  <2>2. View /\ View'
    BY <1>1, <1>2, <2>1
  <2> QED
    BY <2>1, <2>2, AbstractStep
<1>6. BuddyInv /\ [LowNext]_lowVars => [Abstract!Next]_<<Unowned, Given>>
  BY <1>5, LowSteps
<1> QED
  BY BuddyInvariant, <1>4, <1>5, <1>6, PTL DEF Spec, LowSpec, ImplementsPageAlloc, Abstract!Spec, Given

-----------------------------------------------------------------------------
(* No page is lost.                                                        *)

\* No step loses a page.
LEMMA NoneLost ==
    ASSUME BuddyInv, Effect
    PROVE  Cover(Mine') = Cover(Mine)
<1>1. Cover(Mine) = Cover(Loose) \cup Cover(Owned) /\ Cover(Mine') = Cover(Loose') \cup Cover(Owned')
  BY CoverUnion DEF Mine
<1>2. CASE Stays
  <2>1. Owned' = Owned
    BY <1>2 DEF Stays, Owned
  <2> QED
    BY <1>1, <1>2, <2>1 DEF Stays
<1>3. CASE Hands
  <2>1. PICK e \in Loose \cap Inner : Loose' = Loose \ {e} /\ live' = live \cup {BlkOf(e)}
    BY <1>3 DEF Hands
  <2>2. Owned' = Owned \cup {e}
    BY <2>1, OwnedChange
  <2>3. Mine' = Mine
    BY <2>1, <2>2 DEF Mine
  <2> QED
    BY <2>3
<1>4. CASE Returns
  <2>1. PICK e \in Owned : Loose' = Loose \cup {e} /\ live' = live \ {BlkOf(e)}
    BY <1>4 DEF Returns
  <2>2. Owned' = Owned \ {e}
    BY <2>1, OwnedChange DEF Owned
  <2>3. Mine' = Mine
    BY <2>1, <2>2 DEF Mine
  <2> QED
    BY <2>3
<1> QED
  BY <1>2, <1>3, <1>4 DEF Effect

LowKept == declared \subseteq Cover(Mine)

\* NothingLost for every instance: whatever the uncleared states of the pages read, every
\* page declared to lowmem_buddy_init_free_regions is free or has an owner after any
\* history of calls.
THEOREM NothingLostHolds == LowSpec => []NothingLost
<1>1. LowInit => LowKept
  <2> SUFFICES ASSUME LowInit PROVE LowKept
    OBVIOUS
  <2>1. \A p \in declared : p \in 0 .. 2^Depth - 1 => p \in Cover(Mine)
    BY LowBegins
  <2>2. declared \subseteq 0 .. 2^Depth - 1
    BY BuddyAssumption DEF LowInit
  <2> QED
    BY <2>1, <2>2 DEF LowKept
<1>2. BuddyInv /\ LowKept /\ [LowNext]_lowVars => LowKept'
  <2> SUFFICES ASSUME BuddyInv, LowKept, [LowNext]_lowVars PROVE LowKept'
    OBVIOUS
  <2>1. [Next]_vars /\ declared' = declared
    BY LowSteps
  <2>2. Cover(Mine') = Cover(Mine)
    BY <2>1, BuddyStep, NoneLost
  <2> QED
    BY <2>1, <2>2 DEF LowKept
<1>3. BuddyInv /\ LowKept => NothingLost
  <2> SUFFICES ASSUME BuddyInv, LowKept PROVE NothingLost
    OBVIOUS
  <2>1. View
    BY AbstractView
  <2>2. Cover(Mine) = Cover(Loose) \cup Cover(Owned)
    BY CoverUnion DEF Mine
  <2>3. Cover(Owned) = UNION {LivePages(blk) : blk \in live}
    BY <2>1 DEF View, Given, Cover
  <2>4. Managed = Cover(Mine)
    BY <2>1, <2>2, <2>3 DEF View, Managed
  <2> QED
    BY <2>4 DEF NothingLost, LowKept
<1> QED
  BY BuddyInvariant, <1>1, <1>2, <1>3, PTL DEF LowSpec

=============================================================================
