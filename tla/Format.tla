------------------------------- MODULE Format -------------------------------
(***************************************************************************)
(* The number formats of source/std/io.c: what each format function leaves *)
(* in intToStrBuffer, as the sequence of its characters from the pointer   *)
(* it returns up to the terminating zero.  Words have W bits; pad is       *)
(* format_align_pad.                                                       *)
(***************************************************************************)
EXTENDS KernelMath, Integers

Representation == <<"0", "1", "2", "3", "4", "5", "6", "7",
                    "8", "9", "A", "B", "C", "D", "E", "F">>

\* The loop "*ptr = Representation[value % base]", least digit first from the
\* end of the buffer, while the value is not 0.
DigitsOf[base \in {2, 10, 16}, v \in Word] ==
    IF v = 0 THEN <<>>
    ELSE Append(DigitsOf[base, v \div base], Representation[(v % base) + 1])

Fill(ch, k) == [i \in 1 .. k |-> ch]

\* Slip: one character short.
SlipPadded(text, width, ch) ==
    IF Len(text) < width THEN Fill(ch, width - Len(text) - 1) \o text ELSE text

\* The padding of all the formats: up to width characters, in front.
Padded(text, width, ch) ==
    IF Len(text) < width THEN Fill(ch, width - Len(text)) \o text ELSE text

formatu(v, pad) == Padded(IF v = 0 THEN <<"0">> ELSE DigitsOf[10, v], pad, " ")

\* The same with 64 bits.
formatul(v, pad) == formatu(v, pad)

\* Negating the least value leaves it as it is: value % 10 is then not positive,
\* and Representation is read before its first element.
LeastValue == -(2^(W - 1))
DigitsOfLeast ==
    LET digits == DigitsOf[10, 2^(W - 1)]
    IN  [i \in 1 .. Len(digits) |-> IF digits[i] = "0" THEN "0" ELSE "?"]

\* Slip: the sign is put over the first digit.
Slipformatd(v, pad) ==
    IF v < 0 THEN <<"-">> \o Tail(Padded(DigitsOf[10, -v], pad, " "))
    ELSE formatu(v, pad)

\* On a signed value: the sign is put in front of the
\* padding, and takes one character of the width.
formatd(v, pad) ==
    IF v < 0
    THEN <<"-">> \o Padded(IF v = LeastValue THEN DigitsOfLeast
                           ELSE DigitsOf[10, -v], pad - 1, " ")
    ELSE formatu(v, pad)

\* The same with 64 bits.
formatl(v, pad) == formatd(v, pad)

\* formatx: always as many digits as the word has.
formatx(v) == <<"0", "x">> \o Padded(DigitsOf[16, v], W \div 4, "0")

\* formatp: a number with more digits than pad gets all the digits of the word.
formatp(v, pad) ==
    IF v = 0 THEN Padded(<<"0">>, pad, "0")
    ELSE LET digits == DigitsOf[16, v]
         IN  Padded(digits, IF Len(digits) > pad THEN W \div 4 ELSE pad, "0")

\* formatb: a width from the rounded logarithm, none when that is exactly 8.
formatb(v) ==
    LET log     == round2(log2ui(IF v = 0 THEN 1 ELSE v))
        max_bit == IF log < 8 THEN 8 ELSE IF log > 8 THEN log ELSE 0
    IN  <<"0", "b">> \o Padded(DigitsOf[2, v], max_bit, "0")

\* The signed reading of a word.
Signed(v) == IF v >= 2^(W - 1) THEN v - 2^W ELSE v
=============================================================================
