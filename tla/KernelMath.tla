----------------------------- MODULE KernelMath -----------------------------
(***************************************************************************)
(* The integer helpers of source/std/math.c on unsigned words of W bits.   *)
(* A word is a number in 0..2^W-1; where the code works on bits, the word  *)
(* is the set of the positions of its ones.                                *)
(***************************************************************************)
EXTENDS Naturals, FiniteSetsExt, SequencesExt

CONSTANT W                     \* bits of a word; the code has 32 and 64

ASSUME WAssumption == W \in 1 .. 64

\* Shifting a one to the left: what the provers need to know of 2^k.
ASSUME PowersAssumption ==
    2^0 = 1 /\ \A k \in 0 .. W : 2^k \in Nat /\ 2^(k + 1) = 2 * 2^k

Word == 0 .. 2^W - 1

Bits(n) == {b \in 0 .. W - 1 : (n \div 2^b) % 2 = 1}
\* The value of the lowest positions, up to any of them, of B.
ValueBelow(B) ==
    LET V[b \in 0 .. W] ==
            IF b = 0 THEN 0 ELSE V[b - 1] + (IF b - 1 \in B THEN 2^(b - 1) ELSE 0)
    IN  V

Value(B) == ValueBelow(B)[W]

\* n |= n >> k
SmearRight(B, k) == B \cup {b - k : b \in {b \in B : b >= k}}

\* Slip: the shift by two, out of its usual place in the sequence, left out.
SlipSmeared(B) ==
    LET by5  == SmearRight(SmearRight(B, 1), 4)
        by13 == SmearRight(by5, 8)
    IN  SmearRight(SmearRight(by13, 16), 32)

\* The shifts, in the code's order: it is the fourth that closes the gaps.
Smeared(B) ==
    LET by5  == SmearRight(SmearRight(B, 1), 4)
        by15 == SmearRight(SmearRight(by5, 8), 2)
    IN  SmearRight(SmearRight(by15, 16), 32)

\* round2: decrement, smear the highest bit to the right, increment; both the
\* decrement and the increment wrap.
round2(n) == (Value(Smeared(Bits((n + 2^W - 1) % 2^W))) + 1) % 2^W

ppow2(n) == round2(n) \div 2

\* Slip: a multiple is rounded up to the next one.
SlipRoundN(x, n) == ((x \div n) + 1) * n % 2^W

\* roundN: !!(x % n) + x / n, times n.
roundN(x, n) == (((IF x % n = 0 THEN 0 ELSE 1) + (x \div n)) * n) % 2^W

\* __builtin_clz: the number of zeroes above the highest one (undefined at 0).
clz(n) == W - 1 - Max(Bits(n))

\* log2ui and log2ul as written: the width minus the leading zeroes.
log2ui(n) == W - clz(n)

\* What math.h documents for them, "Integer log": the floor of the logarithm.
IntegerLog(n) == Max({k \in 0 .. W - 1 : 2^k <= n})

=============================================================================
