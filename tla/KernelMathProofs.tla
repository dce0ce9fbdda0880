-------------------------- MODULE KernelMathProofs --------------------------
(***************************************************************************)
(* What round2, ppow2 and roundN compute, for every word of every width up *)
(* to 64 bits, and the facts about powers of two and logarithms that the   *)
(* proofs about the allocators share.                                      *)
(***************************************************************************)
EXTENDS KernelMath, WellFoundedInduction, TLAPS

-----------------------------------------------------------------------------
(* Powers of two.                                                          *)

\* A set of numbers that is not empty has a least element.
LEMMA Least ==
    ASSUME NEW S \in SUBSET Nat, S # {}
    PROVE  \E n \in S : \A k \in S : n <= k
<1> DEFINE R == OpToRel(<, Nat)
<1>1. PICK n \in S : \A y \in S : ~(<<y, n>> \in R)
  BY NatLessThanWellFounded, WFMin, Zenon
<1>2. \A y \in S : ~(y < n)
  BY <1>1, Zenon DEF OpToRel
<1> QED
  BY <1>2

\* The assumption on powers, apart, for the powers that occur.
LEMMA Power ==
    /\ W \in Nat /\ W >= 1 /\ W <= 64 /\ \A k : k = 0 => 2^k = 1
    /\ \A k \in 0 .. W : 2^k \in Nat /\ 2^(k + 1) = 2 * 2^k /\ 2^(k + 1) \in Nat
<1>1. W \in Nat /\ W >= 1 /\ W <= 64
  BY WAssumption
<1>2. \A k : k = 0 => 2^k = 1
  BY PowersAssumption, Zenon
<1>3. ASSUME NEW k \in 0 .. W PROVE 2^k \in Nat /\ 2^(k + 1) = 2 * 2^k
  BY PowersAssumption
<1>4. ASSUME NEW x, NEW y \in Nat, x = 2 * y PROVE x \in Nat
  BY <1>4
<1> QED
  BY <1>1, <1>2, <1>3, <1>4

\* Powers are positive.
LEMMA PowerPositive ==
    ASSUME NEW k \in 0 .. W
    PROVE  2^k \in Nat /\ 2^k >= 1
<1> DEFINE B == {i \in 0 .. W : ~(2^i >= 1)}
<1>1. B \in SUBSET Nat
  BY Power
<1>2. CASE B # {}
  <2>1. PICK n \in B : \A i \in B : n <= i
    BY <1>1, <1>2, Least
  <2>2. n \in 0 .. W /\ ~(2^n >= 1) /\ n # 0
    BY <2>1, Power
  <2>3. n - 1 \in 0 .. W /\ (n - 1) + 1 = n /\ ~(n <= n - 1)
    BY <2>2, Power
  <2>4. 2^(n - 1) >= 1
    BY <2>1, <2>3
  <2>5. 2^((n - 1) + 1) = 2 * 2^(n - 1) /\ 2^(n - 1) \in Nat
    BY <2>3, Power
  <2> QED
    BY <2>2, <2>3, <2>4, <2>5
<1> QED
  BY <1>2, Power

\* A greater exponent makes a power at least twice as large.
LEMMA PowerGrows ==
    ASSUME NEW i \in 0 .. W, NEW j \in 0 .. W, i < j
    PROVE  2 * 2^i <= 2^j
<1> DEFINE B == {n \in 0 .. W : i < n /\ ~(2 * 2^i <= 2^n)}
<1>1. B \in SUBSET Nat
  BY Power
<1>2. CASE B # {}
  <2>1. PICK n \in B : \A k \in B : n <= k
    BY <1>1, <1>2, Least
  <2>2. n \in 0 .. W /\ i < n /\ ~(2 * 2^i <= 2^n)
    BY <2>1
  <2>3. n - 1 \in 0 .. W /\ (n - 1) + 1 = n /\ ~(n <= n - 1)
    BY <2>2, Power
  <2>4. 2^((n - 1) + 1) = 2 * 2^(n - 1) /\ 2^(n - 1) \in Nat /\ 2^i \in Nat
    BY <2>3, Power
  <2>5. CASE i = n - 1
    <3>1. 2^n = 2 * 2^i
      BY <2>3, <2>4, <2>5
    <3> QED
      BY <2>2, <2>4, <3>1
  <2>6. CASE i < n - 1
    <3>1. 2 * 2^i <= 2^(n - 1)
      BY <2>1, <2>3, <2>6
    <3>2. 2^n = 2 * 2^(n - 1)
      BY <2>3, <2>4
    <3> QED
      BY <2>2, <2>4, <3>1, <3>2
  <2> QED
    BY <2>2, <2>3, <2>5, <2>6, Power
<1> QED
  BY <1>2, Power

\* The logarithm of a number between two powers.
LEMMA LogIs ==
    ASSUME NEW k \in 0 .. W - 1, NEW n \in Nat, 2^k <= n, n < 2 * 2^k
    PROVE  IntegerLog(n) = k
<1> DEFINE S == {i \in 0 .. W - 1 : 2^i <= n}
<1>1. k \in S
  OBVIOUS
<1>2. ASSUME NEW i \in S PROVE k >= i /\ i \in Nat
  <2>1. i \in 0 .. W /\ k \in 0 .. W /\ 2^i <= n /\ i \in Nat /\ k \in Nat
    BY Power
  <2>2. CASE k < i
    <3>1. 2 * 2^k <= 2^i
      BY <2>1, <2>2, PowerGrows
    <3>2. 2^i \in Nat /\ 2^k \in Nat
      BY <2>1, Power
    <3> QED
      BY <2>1, <3>1, <3>2
  <2> QED
    BY <2>1, <2>2
<1>3. \A x \in S : (\A y \in S : x >= y) => x = k
  BY <1>1, <1>2
<1>4. IntegerLog(n) = CHOOSE x \in S : \A y \in S : x >= y
  BY DEF IntegerLog, Max
<1> HIDE DEF S
<1>5. k \in S /\ \A y \in S : k >= y
  BY <1>1, <1>2
<1> QED
  BY <1>3, <1>4, <1>5, Zenon

\* Every word but 0 lies between the power of its logarithm and the next.
LEMMA LogOf ==
    ASSUME NEW n \in Nat, n >= 1, n < 2^W
    PROVE  \E k \in 0 .. W - 1 : 2^k <= n /\ n < 2 * 2^k /\ 2^(k + 1) = 2 * 2^k
<1> DEFINE S == {k \in 0 .. W : n < 2^k}
<1>1. S \in SUBSET Nat /\ W \in S
  BY Power
<1>2. PICK j \in S : \A i \in S : j <= i
  BY <1>1, Least, Zenon
<1>3. j \in 0 .. W /\ n < 2^j /\ j # 0
  BY <1>2, Power
<1>4. j - 1 \in 0 .. W - 1 /\ j - 1 \in 0 .. W /\ (j - 1) + 1 = j /\ ~(j <= j - 1)
  BY <1>3, Power
<1>5. 2^((j - 1) + 1) = 2 * 2^(j - 1) /\ 2^(j - 1) \in Nat
  BY <1>4, Power
<1>6. ~(n < 2^(j - 1))
  BY <1>2, <1>4
<1>7. 2^j = 2 * 2^(j - 1)
  BY <1>4, <1>5
<1> QED
  BY <1>3, <1>4, <1>5, <1>6, <1>7

-----------------------------------------------------------------------------
(* The bits of a word.                                                     *)

\* The highest one of a word between two powers.
LEMMA HighestBit ==
    ASSUME NEW k \in 0 .. W - 1, NEW n \in Nat, 2^k <= n, n < 2 * 2^k
    PROVE  k \in Bits(n) /\ Bits(n) \subseteq 0 .. k
<1>1. k \in 0 .. W /\ 2^k \in Nat /\ 2^k >= 1 /\ k \in Nat
  BY Power, PowerPositive
<1>2. n \div 2^k = 1
  <2>1. ASSUME NEW p \in Nat, p >= 1, p <= n, n < 2 * p PROVE n \div p = 1
    BY <2>1
  <2> QED
    BY <1>1, <2>1
<1>3. ASSUME NEW b \in 0 .. W - 1, k < b PROVE b \notin Bits(n)
  <2>1. b \in 0 .. W /\ 2^b \in Nat /\ 2^b >= 1
    BY Power, PowerPositive
  <2>2. 2 * 2^k <= 2^b
    BY <1>1, <1>3, <2>1, PowerGrows
  <2>3. n < 2^b
    BY <1>1, <2>1, <2>2
  <2>4. ASSUME NEW p \in Nat, p >= 1, n < p PROVE n \div p = 0
    BY <2>4
  <2>5. n \div 2^b = 0
    BY <2>1, <2>3, <2>4
  <2>6. ASSUME NEW x, x = 0 PROVE x % 2 # 1
    BY <2>6
  <2> QED
    BY <2>5, <2>6 DEF Bits
<1>4. ASSUME NEW x, x = 1 PROVE x % 2 = 1
  BY <1>4
<1>5. k \in Bits(n)
  BY <1>2, <1>4 DEF Bits
<1>6. \A b \in Bits(n) : b \in 0 .. W - 1
  BY DEF Bits
<1>7. \A b \in Bits(n) : b \in 0 .. k
  BY <1>1, <1>3, <1>6, Power
<1> QED
  BY <1>5, <1>7

\* The positions from which a one lies d to the left, for some d in D.
Spread(B, D) == {x \in Nat : \E d \in D : x + d \in B}

\* The distances D, and those that are k more.
Joined(D, k, E) ==
    /\ D \subseteq Nat /\ k \in Nat
    /\ \A e : e \in E <=> (e \in D \/ \E d \in D : e = d + k)

\* A shift by k, or'ed in, adds k to the distances.
LEMMA SmearSpreads ==
    ASSUME NEW B, NEW D, NEW k, NEW E, Joined(D, k, E)
    PROVE  SmearRight(Spread(B, D), k) = Spread(B, E)
<1> USE DEF Joined
<1> DEFINE C == Spread(B, D)
<1>1. ASSUME NEW x \in SmearRight(C, k) PROVE x \in Spread(B, E)
  <2>1. CASE x \in C
    BY <2>1 DEF Spread
  <2>2. CASE x \in {b - k : b \in {b \in C : b >= k}}
    <3>1. PICK b \in C : b >= k /\ x = b - k
      BY <2>2
    <3>2. PICK d \in D : b + d \in B
      BY <3>1 DEF Spread
    <3>3. b \in Nat /\ d \in Nat
      BY <3>1, <3>2 DEF Spread
    <3>4. x \in Nat /\ x + (d + k) = b + d /\ d + k \in E
      BY <3>1, <3>2, <3>3
    <3> QED
      BY <3>2, <3>4 DEF Spread
  <2> QED
    BY <1>1, <2>1, <2>2 DEF SmearRight
<1>2. ASSUME NEW x \in Spread(B, E) PROVE x \in SmearRight(C, k)
  <2>1. PICK e \in E : x + e \in B
    BY <1>2 DEF Spread
  <2>2. x \in Nat
    BY <1>2 DEF Spread
  <2>3. CASE e \in D
    BY <2>1, <2>2, <2>3 DEF Spread, SmearRight
  <2>4. CASE \E d \in D : e = d + k
    <3>1. PICK d \in D : e = d + k
      BY <2>4
    <3>2. (x + k) + d = x + e /\ x + k \in Nat /\ x + k >= k /\ (x + k) - k = x
      BY <2>2, <3>1
    <3>3. x + k \in C
      BY <2>1, <3>1, <3>2 DEF Spread
    <3>4. x \in {b - k : b \in {b \in C : b >= k}}
      BY <3>2, <3>3
    <3> QED
      BY <3>4 DEF SmearRight
  <2> QED
    BY <2>1, <2>3, <2>4
<1> QED
  BY <1>1, <1>2

\* round2's six shifts fill a word to the right of its highest one.
LEMMA SmearFills ==
    ASSUME NEW k \in 0 .. W - 1, NEW B, k \in B, B \subseteq 0 .. k
    PROVE  Smeared(B) = 0 .. k
<1>1. Spread(B, {0}) = B
  <2>1. \A x \in B : x \in Nat /\ x + 0 = x
    OBVIOUS
  <2>2. \A x \in Nat : x + 0 = x
    OBVIOUS
  <2> QED
    BY <2>1, <2>2, Zenon DEF Spread
<1>2. SmearRight(Spread(B, {0}), 1) = Spread(B, {0, 1})
  <2>1. Joined({0}, 1, {0, 1})
    BY DEF Joined
  <2> QED
    BY <2>1, SmearSpreads, Zenon
<1>3. SmearRight(Spread(B, {0, 1}), 4) = Spread(B, {0, 1, 4, 5})
  <2>1. Joined({0, 1}, 4, {0, 1, 4, 5})
    BY DEF Joined
  <2> QED
    BY <2>1, SmearSpreads, Zenon
<1>4. SmearRight(Spread(B, {0, 1, 4, 5}), 8) = Spread(B, {0, 1, 4, 5, 8, 9, 12, 13})
  <2>1. Joined({0, 1, 4, 5}, 8, {0, 1, 4, 5, 8, 9, 12, 13})
    BY DEF Joined
  <2> QED
    BY <2>1, SmearSpreads, Zenon
<1>5. SmearRight(Spread(B, {0, 1, 4, 5, 8, 9, 12, 13}), 2) = Spread(B, 0 .. 15)
  <2>1. Joined({0, 1, 4, 5, 8, 9, 12, 13}, 2, 0 .. 15)
    BY DEF Joined
  <2> QED
    BY <2>1, SmearSpreads, Zenon
<1>6. SmearRight(Spread(B, 0 .. 15), 16) = Spread(B, 0 .. 31)
  <2>1. Joined(0 .. 15, 16, 0 .. 31)
    BY DEF Joined
  <2> QED
    BY <2>1, SmearSpreads, Zenon
<1>7. SmearRight(Spread(B, 0 .. 31), 32) = Spread(B, 0 .. 63)
  <2>1. Joined(0 .. 31, 32, 0 .. 63)
    BY DEF Joined
  <2> QED
    BY <2>1, SmearSpreads, Zenon
<1>12. Smeared(B) = Spread(B, 0 .. 63)
  BY <1>1, <1>2, <1>3, <1>4, <1>5, <1>6, <1>7 DEF Smeared
<1>13. ASSUME NEW x \in 0 .. k PROVE x \in Spread(B, 0 .. 63)
  <2>1. k - x \in 0 .. 63 /\ x + (k - x) = k /\ x \in Nat
    BY <1>13, Power
  <2> QED
    BY <2>1 DEF Spread
<1>14. ASSUME NEW x \in Spread(B, 0 .. 63) PROVE x \in 0 .. k
  <2>1. PICK d \in 0 .. 63 : x + d \in B
    BY <1>14 DEF Spread
  <2>2. x \in Nat /\ x + d \in 0 .. k
    BY <1>14, <2>1 DEF Spread
  <2> QED
    BY <2>1, <2>2
<1> QED
  BY <1>12, <1>13, <1>14

\* A word without ones stays so.
LEMMA SmearNothing == Smeared({}) = {}
<1>1. \A j \in Nat : SmearRight({}, j) = {}
  BY DEF SmearRight
<1> QED
  BY <1>1 DEF Smeared

-----------------------------------------------------------------------------
(* The value of a set of positions.                                        *)

\* The recursion of ValueBelow is one.
LEMMA ValueBelowIs ==
    ASSUME NEW B
    PROVE  ValueBelow(B) = [b \in 0 .. W |->
               IF b = 0 THEN 0 ELSE ValueBelow(B)[b - 1] + (IF b - 1 \in B THEN 2^(b - 1) ELSE 0)]
<1> DEFINE Add(b) == IF b - 1 \in B THEN 2^(b - 1) ELSE 0
           Sums(V, k) == V = [b \in 0 .. k |-> IF b = 0 THEN 0 ELSE V[b - 1] + Add(b)]
           K == {k \in Nat : ~\E V : Sums(V, k)}
<1> HIDE DEF Add
<1>1. ASSUME K # {} PROVE FALSE
  <2>1. PICK n \in K : \A k \in K : n <= k
    BY <1>1, Least
  <2>2. CASE n = 0
    <3> DEFINE V == [b \in 0 .. 0 |-> 0]
    <3>1. V = [b \in 0 .. 0 |-> IF b = 0 THEN 0 ELSE V[b - 1] + Add(b)]
      OBVIOUS
    <3> HIDE DEF V
    <3> QED
      BY <2>1, <2>2, <3>1
  <2>3. CASE n # 0
    <3>1. n \in Nat /\ n - 1 \in Nat /\ ~(n <= n - 1)
      BY <2>1, <2>3
    <3>2. PICK V : Sums(V, n - 1)
      BY <2>1, <3>1
    <3> DEFINE G(b) == IF b = 0 THEN 0 ELSE V[b - 1] + Add(b)
               T == [b \in 0 .. n |-> G(b)]
    <3>3. \A b \in 0 .. n - 1 : V[b] = G(b)
      BY <3>2
    <3> HIDE DEF G
    <3>4. \A b \in 0 .. n - 1 : T[b] = V[b]
      BY <3>1, <3>3
    <3>5. \A b \in 0 .. n : b # 0 => b - 1 \in 0 .. n - 1
      BY <3>1
    <3>6. \A b \in 0 .. n : G(b) = IF b = 0 THEN 0 ELSE T[b - 1] + Add(b)
      <4> HIDE DEF T
      <4> QED
        BY <3>4, <3>5, Zenon DEF G
    <3>7. T = [b \in 0 .. n |-> IF b = 0 THEN 0 ELSE T[b - 1] + Add(b)]
      <4>1. T = [b \in 0 .. n |-> G(b)]
        OBVIOUS
      <4> HIDE DEF T
      <4> QED
        BY <3>6, <4>1, Zenon
    <3> HIDE DEF T
    <3> QED
      BY <2>1, <3>7, Zenon
  <2> QED
    BY <2>2, <2>3
<1>2. W \in Nat
  BY Power
<1>3. \E V : Sums(V, W)
  BY <1>1, <1>2
<1>4. ValueBelow(B) = CHOOSE V : Sums(V, W)
  BY Zenon DEF ValueBelow, Add
<1>5. Sums(ValueBelow(B), W)
  BY <1>3, <1>4, Zenon
<1> QED
  BY <1>5 DEF Add

\* The ones from 0 to k are worth one less than the next power.
LEMMA ValueFilled ==
    ASSUME NEW k \in 0 .. W - 1
    PROVE  Value(0 .. k) = 2 * 2^k - 1
<1> DEFINE B == 0 .. k
           V == ValueBelow(B)
           Worth(j) == IF j <= k + 1 THEN 2^j - 1 ELSE 2^(k + 1) - 1
           Bad == {j \in 0 .. W : V[j] # Worth(j)}
<1>1. \A j \in 0 .. W : V[j] = IF j = 0 THEN 0 ELSE V[j - 1] + (IF j - 1 \in B THEN 2^(j - 1) ELSE 0)
  BY ValueBelowIs
<1> HIDE DEF V
<1>2. Bad \in SUBSET Nat
  BY Power
<1>3. ASSUME Bad # {} PROVE FALSE
  <2>1. PICK n \in Bad : \A j \in Bad : n <= j
    BY <1>2, <1>3, Least
  <2>2. n \in 0 .. W /\ V[n] # Worth(n) /\ n \in Nat
    BY <2>1, Power
  <2>3. CASE n = 0
    <3>1. Worth(0) = 0
      BY Power
    <3> QED
      BY <1>1, <2>2, <2>3, <3>1
  <2>4. CASE n # 0
    <3>1. n - 1 \in 0 .. W /\ (n - 1) + 1 = n /\ ~(n <= n - 1) /\ n - 1 \in Nat /\ k \in Nat
      BY <2>2, <2>4, Power
    <3>2. V[n - 1] = Worth(n - 1)
      BY <2>1, <3>1
    <3>3. V[n] = V[n - 1] + (IF n - 1 \in B THEN 2^(n - 1) ELSE 0)
      BY <1>1, <2>2, <2>4
    <3>4. 2^((n - 1) + 1) = 2 * 2^(n - 1) /\ 2^(n - 1) \in Nat
      BY <3>1, Power
    <3>5. 2^n = 2 * 2^(n - 1)
      BY <3>1, <3>4
    <3>6. k + 1 \in 0 .. W /\ 2^(k + 1) \in Nat
      BY Power
    <3>7. CASE n - 1 <= k
      <4>1. n - 1 \in B /\ n - 1 <= k + 1 /\ n <= k + 1
        BY <3>1, <3>7
      <4>2. V[n] = (2^(n - 1) - 1) + 2^(n - 1) /\ Worth(n) = 2^n - 1
        BY <3>2, <3>3, <4>1
      <4> QED
        BY <2>2, <3>4, <3>5, <4>2
    <3>8. CASE n - 1 > k
      <4>1. n - 1 \notin B /\ ~(n <= k + 1)
        BY <3>1, <3>8
      <4>2. V[n] = Worth(n - 1) + 0 /\ Worth(n) = 2^(k + 1) - 1
        BY <3>2, <3>3, <4>1
      <4>3. Worth(n - 1) = 2^(k + 1) - 1
        <5>1. CASE n - 1 = k + 1
          BY <3>1, <5>1
        <5>2. CASE n - 1 # k + 1
          BY <3>1, <3>8, <5>2
        <5> QED
          BY <5>1, <5>2
      <4> QED
        BY <2>2, <3>6, <4>2, <4>3
    <3> QED
      BY <3>1, <3>7, <3>8
  <2> QED
    BY <2>3, <2>4
<1>4. W \in 0 .. W /\ k \in 0 .. W /\ k + 1 <= W /\ k + 1 \in Nat
  BY Power
<1>5. V[W] = Worth(W)
  BY <1>3, <1>4
<1>6. Worth(W) = 2^(k + 1) - 1
  <2>1. CASE W = k + 1
    BY <2>1
  <2>2. CASE W # k + 1
    BY <1>4, <2>2, Power
  <2> QED
    BY <2>1, <2>2
<1>7. 2^(k + 1) = 2 * 2^k
  BY <1>4, Power
<1> QED
  BY <1>5, <1>6, <1>7 DEF Value, V

\* No ones are worth nothing.
LEMMA ValueNothing == Value({}) = 0
<1> DEFINE V == ValueBelow({})
           Bad == {j \in 0 .. W : V[j] # 0}
<1>1. \A j \in 0 .. W : V[j] = IF j = 0 THEN 0 ELSE V[j - 1] + (IF j - 1 \in {} THEN 2^(j - 1) ELSE 0)
  BY ValueBelowIs
<1> HIDE DEF V
<1>2. Bad \in SUBSET Nat
  BY Power
<1>3. ASSUME Bad # {} PROVE FALSE
  <2>1. PICK n \in Bad : \A j \in Bad : n <= j
    BY <1>2, <1>3, Least
  <2>2. n \in 0 .. W /\ V[n] # 0 /\ n \in Nat /\ n # 0
    BY <1>1, <2>1, Power
  <2>3. n - 1 \in 0 .. W /\ ~(n <= n - 1)
    BY <2>2, Power
  <2>4. V[n - 1] = 0
    BY <2>1, <2>3
  <2> QED
    BY <1>1, <2>2, <2>4
<1>4. V[W] = 0
  BY <1>3, Power
<1> QED
  BY <1>4 DEF Value, V

-----------------------------------------------------------------------------
(* round2, ppow2 and roundN.                                               *)

\* The decrement of round2 wraps at 0 only.
LEMMA Decrement ==
    ASSUME NEW n \in Word
    PROVE  (n + 2^W - 1) % 2^W = IF n = 0 THEN 2^W - 1 ELSE n - 1
<1>1. 2^W \in Nat /\ 2^W >= 1 /\ n \in Nat /\ n < 2^W
  BY Power, PowerPositive DEF Word
<1>2. ASSUME NEW p \in Nat, p >= 1, n < p
      PROVE  (n + p - 1) % p = IF n = 0 THEN p - 1 ELSE n - 1
  BY <1>1, <1>2
<1> QED
  BY <1>1, <1>2

\* What round2 makes of a word between two powers, before the increment wraps.
LEMMA Filled ==
    ASSUME NEW k \in 0 .. W - 1, NEW n \in Nat, 2^k <= n, n < 2 * 2^k
    PROVE  Value(Smeared(Bits(n))) + 1 = 2 * 2^k
<1>1. Smeared(Bits(n)) = 0 .. k
  BY HighestBit, SmearFills
<1>2. 2^k \in Nat
  BY Power
<1> QED
  BY <1>1, <1>2, ValueFilled

\* A word without a value has no ones, and smearing leaves it at 0.
LEMMA FilledZero == Value(Smeared(Bits(0))) + 1 = 1
<1>1. ASSUME NEW b \in 0 .. W - 1 PROVE (0 \div 2^b) % 2 # 1
  <2>1. 2^b \in Nat /\ 2^b >= 1
    BY Power, PowerPositive
  <2>2. ASSUME NEW p \in Nat, p >= 1 PROVE (0 \div p) % 2 # 1
    BY <2>2
  <2> QED
    BY <2>1, <2>2
<1>2. Bits(0) = {}
  BY <1>1, Zenon DEF Bits
<1>3. Value(Smeared(Bits(0))) = 0
  BY <1>2, SmearNothing, ValueNothing, Zenon
<1> QED
  BY <1>3

\* The increment of round2 wraps when the power is the first that does not fit.
LEMMA Increment ==
    ASSUME NEW k \in 0 .. W
    PROVE  2^k % 2^W = IF k = W THEN 0 ELSE 2^k
<1>1. 2^k \in Nat /\ 2^k >= 1 /\ 2^W \in Nat /\ 2^W >= 1 /\ W \in 0 .. W /\ k \in Nat
  BY Power, PowerPositive
<1>2. CASE k = W
  <2>1. ASSUME NEW p \in Nat, p >= 1 PROVE p % p = 0
    BY <2>1
  <2> QED
    BY <1>1, <1>2, <2>1
<1>3. CASE k # W
  <2>1. k < W
    BY <1>1, <1>3, Power
  <2>2. 2 * 2^k <= 2^W
    BY <1>1, <2>1, PowerGrows
  <2>3. ASSUME NEW x \in Nat, NEW p \in Nat, x < p PROVE x % p = x
    BY <2>3
  <2>4. 2^k < 2^W
    BY <1>1, <2>2
  <2> QED
    BY <1>1, <1>3, <2>3, <2>4
<1> QED
  BY <1>2, <1>3

\* The power p that a word n is rounded up to.
RoundsUp(n, p) == \E k \in 0 .. W - 1 : p = 2^k /\ n <= 2^k /\ 2^k < 2 * n

\* round2 gives the power of two a word is rounded up to, and 0 where there is none.
LEMMA Round2Is ==
    ASSUME NEW n \in Word
    PROVE  IF n = 0 \/ n > 2^(W - 1) THEN round2(n) = 0 ELSE RoundsUp(n, round2(n))
<1> DEFINE p == 2^(W - 1)
<1>1. W - 1 \in 0 .. W /\ W - 1 \in 0 .. W - 1 /\ (W - 1) + 1 = W /\ W \in 0 .. W
  BY Power
<1>2. 2^((W - 1) + 1) = 2 * p /\ p \in Nat /\ p >= 1
  BY <1>1, Power, PowerPositive
<1>3. 2^W = 2 * p /\ 2^W \in Nat
  BY <1>1, <1>2, Power
<1>4. n \in Nat /\ n < 2 * p
  BY <1>3 DEF Word
<1>5. CASE n = 0
  <2>1. (n + 2^W - 1) % 2^W = 2 * p - 1
    BY <1>3, <1>5, Decrement
  <2>2. 2 * p - 1 \in Nat /\ p <= 2 * p - 1 /\ 2 * p - 1 < 2 * p
    BY <1>2
  <2>3. Value(Smeared(Bits(2 * p - 1))) + 1 = 2^W
    BY <1>1, <1>3, <2>2, Filled
  <2> QED
    BY <1>1, <1>5, <2>1, <2>3, Increment DEF round2
<1>6. CASE n = 1
  <2>1. (n + 2^W - 1) % 2^W = 0
    BY <1>6, Decrement
  <2>2. Value(Smeared(Bits(0))) + 1 = 2^0
    BY FilledZero, Power
  <2>3. 0 \in 0 .. W /\ 0 # W /\ 0 \in 0 .. W - 1 /\ 2^0 = 1
    BY Power
  <2>4. round2(n) = 2^0
    BY <2>1, <2>2, <2>3, Increment DEF round2
  <2>5. n <= 2^0 /\ 2^0 < 2 * n
    BY <1>6, <2>3
  <2>6. RoundsUp(n, round2(n))
    BY <2>3, <2>4, <2>5, Zenon DEF RoundsUp
  <2>7. ~(n = 0 \/ n > p)
    BY <1>2, <1>6
  <2> QED
    BY <2>6, <2>7
<1>7. CASE n >= 2
  <2>1. n # 0 /\ n - 1 \in Nat /\ n - 1 >= 1 /\ n - 1 < 2^W
    BY <1>3, <1>4, <1>7
  <2>2. (n + 2^W - 1) % 2^W = n - 1
    BY <2>1, Decrement
  <2>3. PICK k \in 0 .. W - 1 : 2^k <= n - 1 /\ n - 1 < 2 * 2^k /\ 2^(k + 1) = 2 * 2^k
    BY <2>1, LogOf
  <2>4. k \in 0 .. W /\ k + 1 \in 0 .. W /\ 2^k \in Nat /\ 2^(k + 1) \in Nat
    BY Power
  <2>5. Value(Smeared(Bits(n - 1))) + 1 = 2^(k + 1)
    BY <2>1, <2>3, Filled
  <2>6. round2(n) = IF k + 1 = W THEN 0 ELSE 2^(k + 1)
    BY <2>2, <2>4, <2>5, Increment DEF round2
  <2>7. n <= 2^(k + 1) /\ 2^(k + 1) < 2 * n
    BY <1>4, <2>3, <2>4
  <2>8. CASE k + 1 = W
    <3>1. k = W - 1
      BY <2>4, <2>8, Power
    <3>2. n > p
      BY <1>2, <1>4, <2>3, <3>1
    <3> QED
      BY <2>6, <2>8, <3>2
  <2>9. CASE k + 1 # W
    <3>1. k + 1 \in 0 .. W - 1 /\ k < W - 1
      BY <2>4, <2>9, Power
    <3>2. RoundsUp(n, round2(n))
      BY <2>6, <2>7, <2>9, <3>1 DEF RoundsUp
    <3>3. 2 * 2^k <= p
      BY <1>1, <2>4, <3>1, PowerGrows
    <3>4. ~(n = 0 \/ n > p)
      BY <1>2, <1>4, <2>1, <2>3, <2>4, <3>3
    <3> QED
      BY <3>2, <3>4
  <2> QED
    BY <2>8, <2>9
<1> QED
  BY <1>4, <1>5, <1>6, <1>7

\* Whatever number it is given, round2 returns 0 or a power of two.
LEMMA Round2Powers ==
    ASSUME NEW n \in Nat
    PROVE  round2(n) = 0 \/ \E k \in 0 .. W - 1 : round2(n) = 2^k
<1> DEFINE m == (n + 2^W - 1) % 2^W
<1>1. 2^W \in Nat /\ 2^W >= 1 /\ W \in 0 .. W
  BY Power, PowerPositive
<1>2. m \in Nat /\ m < 2^W
  <2>1. ASSUME NEW p \in Nat, p >= 1 PROVE (n + p - 1) % p \in Nat /\ (n + p - 1) % p < p
    BY <2>1
  <2> QED
    BY <1>1, <2>1
<1>3. round2(n) = (Value(Smeared(Bits(m))) + 1) % 2^W
  BY DEF round2
<1> HIDE DEF m
<1>4. \E k \in 0 .. W : Value(Smeared(Bits(m))) + 1 = 2^k
  <2>1. CASE m = 0
    <3>1. 0 \in 0 .. W /\ 2^0 = 1
      BY Power
    <3> QED
      BY <2>1, <3>1, FilledZero
  <2>2. CASE m # 0
    <3>1. PICK k \in 0 .. W - 1 : 2^k <= m /\ m < 2 * 2^k /\ 2^(k + 1) = 2 * 2^k
      BY <1>2, <2>2, LogOf
    <3>2. k + 1 \in 0 .. W
      BY Power
    <3> QED
      BY <1>2, <3>1, <3>2, Filled
  <2> QED
    BY <2>1, <2>2
<1>5. PICK k \in 0 .. W : Value(Smeared(Bits(m))) + 1 = 2^k
  BY <1>4
<1>6. round2(n) = IF k = W THEN 0 ELSE 2^k
  BY <1>3, <1>5, Increment
<1>7. k # W => k \in 0 .. W - 1
  BY Power
<1> QED
  BY <1>6, <1>7

\* ppow2 gives the power below a word that is none itself.
LEMMA Ppow2Is ==
    ASSUME NEW n \in Word, n \notin {2^k : k \in 0 .. W - 1}, n \in 1 .. 2^(W - 1)
    PROVE  ppow2(n) = 2^IntegerLog(n)
<1>1. W - 1 \in 0 .. W /\ 2^(W - 1) \in Nat
  BY Power
<1>2. n \in Nat /\ ~(n = 0 \/ n > 2^(W - 1))
  BY <1>1
<1>3. PICK k \in 0 .. W - 1 : round2(n) = 2^k /\ n <= 2^k /\ 2^k < 2 * n
  BY <1>2, Round2Is DEF RoundsUp
<1>4. n # 2^k /\ k \in Nat
  BY Power
<1>5. k # 0
  <2>1. CASE k = 0
    <3>1. 2^k = 1
      BY <2>1, Power
    <3> QED
      BY <1>2, <1>3, <1>4, <3>1
  <2> QED
    BY <2>1
<1>6. k - 1 \in 0 .. W - 1 /\ k - 1 \in 0 .. W /\ (k - 1) + 1 = k
  BY <1>4, <1>5, Power
<1>7. 2^((k - 1) + 1) = 2 * 2^(k - 1) /\ 2^(k - 1) \in Nat
  BY <1>6, Power
<1>8. 2^k = 2 * 2^(k - 1)
  BY <1>6, <1>7
<1>9. 2^(k - 1) <= n /\ n < 2 * 2^(k - 1)
  BY <1>2, <1>3, <1>4, <1>7, <1>8
<1>10. IntegerLog(n) = k - 1
  BY <1>2, <1>6, <1>9, LogIs
<1>11. ASSUME NEW p \in Nat PROVE (2 * p) \div 2 = p
  BY <1>11
<1> QED
  BY <1>3, <1>7, <1>8, <1>10, <1>11 DEF ppow2

\* A product is a multiple of its factor.
LEMMA MultipleOf ==
    ASSUME NEW q \in Nat, NEW n \in Nat, n >= 1
    PROVE  q * n \in Nat /\ (q * n) % n = 0
<1>1. q * n \in Nat
  OBVIOUS
<1> QED
  BY <1>1

\* roundN gives the least multiple that is not below the word.
LEMMA RoundNIs ==
    ASSUME NEW x \in Word, NEW n \in Nat, n # 0, x + n <= 2^W - 1
    PROVE  roundN(x, n) % n = 0 /\ roundN(x, n) \in x .. x + n - 1
<1> DEFINE q == x \div n
           r == x % n
           v == ((IF r = 0 THEN 0 ELSE 1) + q) * n
<1>1. x \in Nat /\ n >= 1 /\ 2^W \in Nat
  BY Power DEF Word
<1>2. q \in Nat /\ r \in 0 .. n - 1 /\ x = q * n + r
  BY <1>1
<1>3. v \in Nat /\ v % n = 0
  <2>1. (IF r = 0 THEN 0 ELSE 1) + q \in Nat
    BY <1>2
  <2> HIDE DEF q, r
  <2> QED
    BY <1>1, <2>1, MultipleOf
<1>4. v \in x .. x + n - 1
  <2> HIDE DEF q, r
  <2>1. CASE r = 0
    <3>1. v = q * n
      BY <1>2, <2>1
    <3> QED
      BY <1>1, <1>2, <2>1, <3>1
  <2>2. CASE r # 0
    <3>1. v = q * n + n
      BY <1>1, <1>2, <2>2
    <3> QED
      BY <1>1, <1>2, <2>2, <3>1
  <2> QED
    BY <2>1, <2>2
<1>5. roundN(x, n) = v % 2^W
  BY DEF roundN
<1> HIDE DEF v
<1>6. ASSUME NEW p \in Nat, v < p PROVE v % p = v
  BY <1>3, <1>6
<1>7. v < 2^W
  BY <1>1, <1>3, <1>4
<1> QED
  BY <1>1, <1>3, <1>4, <1>5, <1>6, <1>7
=============================================================================
