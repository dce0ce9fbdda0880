----------------------------- MODULE MCLibrary ------------------------------
(***************************************************************************)
(* The kernel's library: every word through the helpers of math.c and the  *)
(* number formats of io.c, against reference definitions, and printk with  *)
(* interrupts between its steps.                                           *)
(***************************************************************************)
EXTENDS Console

Calls ==
    { system_status(<<"a", "%", "z", "nl">>),
      << align(3), printk(<<"%", "l", "%", "s", "%", "b">>), putln >>,
      << printk(<<"%", "r", "%", "%", "c", "%">>), clear,
         printk(<<"%", "x", "nl", "%", "p">>) >> }
OneChar    == { << puts(<<"a", "a", "a", "a", "a", "a", "a">>) >> }
LongText   == { << printk(<<"a", "a", "a", "a", "a", "a", "a">>) >> }
HandlerCalls == { printk(<<"nl", "I", "%", "u">>) }
TwoLetters == <<"a", "b">>
AllChars   == STRING

\* The value of a text: its digits, wherever the padding is put.
Reads(text, base) ==
    LET digits == SelectSeq(text, LAMBDA ch : ch \notin {" ", "-", "x", "b"})
        digit(ch) == (CHOOSE i \in DOMAIN Representation : Representation[i] = ch) - 1
        value  == FoldLeft(LAMBDA v, ch : v * base + digit(ch), 0, digits)
    IN  IF "-" \in ToSet(text) THEN 0 - value ELSE value

\* Every format reads back as the number it was given, whatever the alignment; the
\* least signed value is the exception (LeastReadsBack).
NumbersReadBack ==
    /\ Signed(argument) # LeastValue =>
           Reads(formatd(Signed(argument), format_align_pad), 10) = Signed(argument)
    /\ Reads(formatu(argument, format_align_pad), 10) = argument
    /\ Reads(formatx(argument), 16) = argument
    /\ Reads(formatp(argument, format_align_pad), 16) = argument
    /\ Reads(formatb(argument), 2) = argument

\* io.h "Aligns Format strings by 'padding_amount' spaces. number/string formats that
\* are bigger than padding_amount will ignore it", for the decimal formats: columns
\* of numbers line up, negative ones included.
ColumnsAligned ==
    LET width(v) == Len(formatd(v, 0))
    IN  /\ Len(formatd(Signed(argument), format_align_pad)) =
               Max({format_align_pad, width(Signed(argument))})
        /\ Len(formatu(argument, format_align_pad)) =
               Max({format_align_pad, Len(formatu(argument, 0))})

\* What formatd, formatu, formatx, formatp and formatb write into the buffer is the
\* number, and the decimal ones stand in the column that was asked for.
NumbersFormatted == NumbersReadBack /\ ColumnsAligned

-----------------------------------------------------------------------------
(* What does not hold *)

\* math.h "Integer log for a uint32_t-sized type": log2ui is the integer
\* logarithm.  It is not: it is one more, for every argument.
Log2Correct == argument # 0 => log2ui(argument) = IntegerLog(argument)

\* io.h "d - int32_t": the least value is one of them.
LeastReadsBack ==
    "?" \notin ToSet(formatd(Signed(argument), format_align_pad))

\* io.h "formats that are bigger than padding_amount will ignore it", for %p.
PointersIgnoreAlignment ==
    LET natural == DigitsOf[16, argument]
    IN  argument # 0 /\ Len(natural) > format_align_pad
            => formatp(argument, format_align_pad) = natural
=============================================================================
