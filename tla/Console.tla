------------------------------ MODULE Console -------------------------------
(***************************************************************************)
(* printk and the console it writes to (source/std/io.c, gpcs2/blit.c,     *)
(* gpcs2/console/, std/error.c).  The kernel's main line runs a program of *)
(* calls; an interrupt may come between any two of its steps, and its      *)
(* handler's own printk runs to the end before the main line goes on       *)
(* (interrupt gates keep further interrupts out).  Both share the          *)
(* console's cursor and colours and the one static conversion buffer.      *)
(*                                                                         *)
(* A glyph is drawn in one step, and a number is converted one character   *)
(* at a time.  A write keeps its offset in a local and assigns it to the   *)
(* console's cursor when it is over, as the wrappers of                    *)
(* console_instance.h do.  A format string is a sequence of characters, of *)
(* which the model tells apart "%", "nl" and the specifiers.               *)
(***************************************************************************)
EXTENDS Format

CONSTANTS
    Width, Height,     \* pixels of the window, whose offset is (0,0)
    StepX, StepY,      \* glyph size plus charOffsetX, charOffsetY
    BufferLength,      \* characters of intToStrBuffer before its last one
    Sampled,           \* numbers the main line prints
    Gate,              \* the number a handler prints
    Alignments,        \* values of format_align_pad
    Chars,             \* characters
    Colours,           \* the colours of text and of its background
    StringArgument,    \* the string printed by %s, or NullString
    Programs,          \* programs of calls the main line may run
    Handlers,          \* calls of an interrupt handler
    Interrupts         \* bound on the interrupts

NUL        == "NUL"
NullString == <<NUL>>
Blank      == " "
Line       == {"main", "irq"}
Plain      == [back |-> "black", text |-> "white"]
Palettes   == [back : Colours, text : Colours]

\* The calls: printkcol alone has colours of its own, and the alignments in use are
\* those of the callers of printk_align_format.  A string ends at its first zero.
Call ==
    {k \in [kind : {"print", "puts", "putln", "clear", "align"}, fmt : Seq(Chars \ {NUL}),
            colours : Palettes, coloured : BOOLEAN] :
        /\ IF k.coloured THEN k.kind = "print" ELSE k.colours = Plain
        /\ k.kind = "align" => Len(k.fmt) \in Alignments}

ASSUME SizesAssumption ==
    /\ {Width, Height} \subseteq Nat \ {0} /\ Width < 65536 /\ Height < 65536
    /\ {StepX, StepY, BufferLength} \subseteq Nat
    /\ Alignments \subseteq Nat /\ Gate \in Word

ASSUME CharsAssumption ==
    /\ NUL \in Chars /\ "nl" \in Chars /\ "%" \in Chars /\ Blank \in Chars /\ "c" \in Chars
    /\ {"black", "white"} \subseteq Colours /\ StringArgument \in Seq(Chars)

\* Interrupt handlers print with printk.
ASSUME CallsAssumption ==
    /\ Programs \subseteq Seq(Call)
    /\ Handlers \subseteq Call /\ \A k \in Handlers : k.kind = "print" /\ ~k.coloured

VARIABLES
    argument,    \* the number of the main line's calls
    format_align_pad,
    program,     \* calls the main line has still to make
    call,        \* call of each line under way
    pr,          \* its progress: the locals of print_internal and of the write
    cursor,      \* local_console.cursor_pos
    colours,     \* local_console.background_col, text_col
    buffer,      \* intToStrBuffer; 0 is its last byte, k the k-th before it
    out,         \* what each line's call has drawn, with the colours
    pending,     \* interrupts that may still come
    mangled      \* a handler has converted a number over one of the main line's

inputs == <<argument, format_align_pad>>
vars == <<inputs, program, call, pr, cursor, colours, buffer, out, pending, mangled>>

\* The numbers that are formatted without being printed are inputs too: for them
\* the main line makes no call.
InputsInit ==
    /\ argument \in Word
    /\ format_align_pad \in Alignments
    /\ program \in IF argument \in Sampled THEN Programs ELSE {<<>>}

printk(fmt)      == [kind |-> "print", fmt |-> fmt, colours |-> Plain, coloured |-> FALSE]
printkcol(c, fmt) == [kind |-> "print", fmt |-> fmt, colours |-> c, coloured |-> TRUE]
puts(str)        == [kind |-> "puts", fmt |-> str, colours |-> Plain, coloured |-> FALSE]
putln            == [kind |-> "putln", fmt |-> <<>>, colours |-> Plain, coloured |-> FALSE]
clear            == [kind |-> "clear", fmt |-> <<>>, colours |-> Plain, coloured |-> FALSE]
align(k)         == [kind |-> "align", fmt |-> Fill(Blank, k), colours |-> Plain, coloured |-> FALSE]

\* system_status: puts("["), printkcol(...), puts("] "), printk(message).
system_status(message) ==
    << puts(<<"[">>),
       printkcol([back |-> "black", text |-> "green"], <<"G">>),
       puts(<<"]", Blank>>),
       printk(message) >>

Idle == [pc |-> "idle", c |-> 0, start |-> 0, end |-> 0, ptr |-> 0, keep |-> FALSE,
         at |-> 0, left |-> <<>>, off |-> <<0, 0>>, then |-> "none", saved |-> Plain]

Init ==
    /\ InputsInit
    /\ call = [l \in Line |-> putln]
    /\ pr = [l \in Line |-> Idle]
    /\ cursor = <<0, 0>>
    /\ colours = Plain
    /\ buffer = [k \in 0 .. BufferLength |-> NUL]     \* __kernel_init_basic clears it
    /\ out = [l \in Line |-> <<>>]
    /\ pending = Interrupts
    /\ mangled = FALSE

-----------------------------------------------------------------------------
(* blit.c *)

\* Coordinates have 16 bits.
Short(x) == x % 65536

\* Slip: the edge is tested before the step.
SlipAdvance(off) == IF off[1] < Width THEN <<off[1] + StepX, off[2]>>
                    ELSE <<0, off[2] + StepY>>

\* The step to the next glyph: at the right edge to the first column, and from
\* whatever came to stand there down to the next row.
Advance(off) ==
    LET x == IF Short(off[1] + StepX) < Width THEN Short(off[1] + StepX) ELSE 0
    IN  <<x, IF x = 0 THEN Short(off[2] + StepY) ELSE off[2]>>

\* Only the string writes go back to the top of the window.
Within(off) == IF off[2] >= Height THEN <<0, 0>> ELSE off

Newline(off) ==
    <<0, IF Short(off[2] + StepY) < Height THEN Short(off[2] + StepY) ELSE 0>>

Inside(off) == off[1] \in 0 .. Width - 1 /\ off[2] \in 0 .. Height - 1

-----------------------------------------------------------------------------
\* The main line stands still while a handler runs.
Runs(l) == l = "irq" \/ pr["irq"].pc = "idle"

Glyph(ch) == [ch |-> ch, colours |-> colours]

At(l, pc) == Runs(l) /\ pr[l].pc = pc
Goes(l, r) == pr' = [pr EXCEPT ![l] = r]

\* What a line does when its call is over.
Over(l) == [Idle EXCEPT !.pc = IF l = "main" THEN "over" ELSE "idle"]

Begin(l, k) ==
    /\ call' = [call EXCEPT ![l] = k]
    /\ out' = [out EXCEPT ![l] = <<>>]
    /\ Goes(l, [Idle EXCEPT !.pc = IF k.coloured THEN "colour" ELSE k.kind])
    /\ UNCHANGED <<cursor, colours, buffer>>

MainCalls ==
    /\ Runs("main") /\ pr["main"].pc \in {"idle", "over"}
    /\ program # <<>>
    /\ program' = Tail(program)
    /\ Begin("main", Head(program))
    /\ mangled' = FALSE
    /\ UNCHANGED <<inputs, pending>>

\* interrupt_handler prints before it dispatches.
Interrupted ==
    /\ pr["irq"].pc = "idle" /\ pending > 0 /\ argument \in Sampled
    /\ pending' = pending - 1
    /\ \E k \in Handlers : Begin("irq", k)
    /\ UNCHANGED <<inputs, program, mangled>>

\* Slip: the saved colours are put back the wrong way round.
SlipRestored(saved) == [back |-> saved.text, text |-> saved.back]

Restored(saved) == saved

\* printkcol saves the console's colours and sets its own, one after the other ...
SetBackColour(l) ==
    /\ At(l, "colour")
    /\ colours' = [colours EXCEPT !.back = call[l].colours.back]
    /\ Goes(l, [pr[l] EXCEPT !.pc = "colour text", !.saved = colours])
    /\ UNCHANGED <<inputs, program, call, cursor, buffer, out, pending, mangled>>

SetTextColour(l) ==
    /\ At(l, "colour text")
    /\ colours' = [colours EXCEPT !.text = call[l].colours.text]
    /\ Goes(l, [pr[l] EXCEPT !.pc = "print"])
    /\ UNCHANGED <<inputs, program, call, cursor, buffer, out, pending, mangled>>

\* ... and puts the saved ones back.
RestoreBackColour(l) ==
    /\ At(l, "restore")
    /\ colours' = [colours EXCEPT !.back = Restored(pr[l].saved).back]
    /\ Goes(l, [pr[l] EXCEPT !.pc = "restore text"])
    /\ UNCHANGED <<inputs, program, call, cursor, buffer, out, pending, mangled>>

RestoreTextColour(l) ==
    /\ At(l, "restore text")
    /\ colours' = [colours EXCEPT !.text = Restored(pr[l].saved).text]
    /\ Goes(l, Over(l))
    /\ UNCHANGED <<inputs, program, call, cursor, buffer, out, pending, mangled>>

PrintOver(l) == IF call[l].coloured THEN [pr[l] EXCEPT !.pc = "restore"] ELSE Over(l)

CharAt(fmt, i) == IF i < Len(fmt) THEN fmt[i + 1] ELSE NUL
Char(l, i) == CharAt(call[l].fmt, i)

\* The end of print_internal's loop.
Finish(l) ==
    /\ At(l, "print")
    /\ Char(l, pr[l].c) = NUL
    /\ Goes(l, PrintOver(l))
    /\ UNCHANGED <<inputs, program, call, cursor, colours, buffer, out, pending, mangled>>

\* The next "%", newline or end of the string at or after c.
Stop(l) == Min({i \in pr[l].c .. Len(call[l].fmt) : Char(l, i) \in {"%", "nl", NUL}})

\* Up to there the text is written as it is, by its own pair of indices.
Scan(l) ==
    /\ At(l, "print")
    /\ Char(l, pr[l].c) # NUL
    /\ LET end == pr[l].end + Stop(l) - pr[l].c
       IN  Goes(l, [pr[l] EXCEPT !.pc = "draw", !.c = Stop(l), !.keep = FALSE,
                                 !.left = SubSeq(call[l].fmt, pr[l].start + 1, end),
                                 !.off = cursor, !.then = "switch",
                                 !.start = end + 1, !.end = end + 1])
    /\ UNCHANGED <<inputs, program, call, cursor, colours, buffer, out, pending, mangled>>

\* framebufferWriteStringBmFontRGB and framebufferWriteSubStringBmFontRGB: one glyph.
Draw(l) ==
    /\ At(l, "draw")
    /\ pr[l].left # <<>>
    /\ out' = [out EXCEPT ![l] = Append(@, Glyph(Head(pr[l].left)))]
    /\ Goes(l, [pr[l] EXCEPT !.left = Tail(@), !.off = Within(Advance(@))])
    /\ UNCHANGED <<inputs, program, call, cursor, colours, buffer, pending, mangled>>

\* The write is over: its offset becomes the cursor.
Drawn(l) ==
    /\ At(l, "draw")
    /\ pr[l].left = <<>>
    /\ cursor' = pr[l].off
    /\ Goes(l, [pr[l] EXCEPT !.pc = pr[l].then])
    /\ UNCHANGED <<inputs, program, call, colours, buffer, out, pending, mangled>>

\* framebufferWriteCharBmFontRGB: one glyph, and the row is left unchecked.
WriteChar(l, ch, next) ==
    /\ out' = [out EXCEPT ![l] = Append(@, Glyph(ch))]
    /\ cursor' = Advance(cursor)
    /\ Goes(l, next)

\* consoleNewline.
SwitchNewline(l) ==
    /\ At(l, "switch")
    /\ Char(l, pr[l].c) = "nl"
    /\ cursor' = Newline(cursor)
    /\ out' = [out EXCEPT ![l] = Append(@, Glyph("nl"))]
    /\ Goes(l, [pr[l] EXCEPT !.pc = "print", !.c = @ + 1])
    /\ UNCHANGED <<inputs, program, call, colours, buffer, pending, mangled>>

\* "--c; continue": the loop ends at the string's end.
SwitchEnd(l) ==
    /\ At(l, "switch")
    /\ Char(l, pr[l].c) = NUL
    /\ Goes(l, [pr[l] EXCEPT !.pc = "print"])
    /\ UNCHANGED <<inputs, program, call, cursor, colours, buffer, out, pending, mangled>>

Numeric == {"d", "l", "u", "z", "x", "X", "p", "b"}
Specifiers == Numeric \cup {"s", "c"}

\* The text of a numeric specifier, all of them on words of one width.
Formatted(v, pad, spec) ==
    CASE spec = "d" -> formatd(Signed(v), pad)
      [] spec = "l" -> formatl(Signed(v), pad)
      [] spec = "u" -> formatu(v, pad)
      [] spec \in {"x", "X"} -> formatx(v)
      [] spec = "p" -> formatp(v, pad)
      [] spec = "z" -> formatul(v, pad)
      [] spec = "b" -> formatb(v)

Number(l) == IF l = "main" THEN argument ELSE Gate
Text(l, spec) == Formatted(Number(l), format_align_pad, spec)

\* The buffer has room for every number, with the alignments in use.
ASSUME BufferAssumption ==
    \A v \in Word, pad \in Alignments, spec \in Numeric :
        /\ Formatted(v, pad, spec) \in Seq(Chars \ {NUL})
        /\ Len(Formatted(v, pad, spec)) <= BufferLength

\* The number of the specifier that c has come to.
Conversion(l) == Text(l, Char(l, pr[l].c))

\* A numeric specifier: its format function begins at the end of the buffer.
SwitchNumber(l) ==
    /\ At(l, "switch")
    /\ Char(l, pr[l].c) = "%" /\ Char(l, pr[l].c + 1) \in Numeric
    /\ Goes(l, [pr[l] EXCEPT !.pc = "convert", !.c = @ + 1, !.ptr = 0])
    /\ UNCHANGED <<inputs, program, call, cursor, colours, buffer, out, pending, mangled>>

\* It goes towards the front, a character at a time.  (The padding is filled in the
\* other direction, which makes no difference: a handler clears all that it passes.)
Convert(l) ==
    /\ At(l, "convert")
    /\ pr[l].ptr < Len(Conversion(l))
    /\ LET text == Conversion(l)
       IN  buffer' = [k \in DOMAIN buffer |-> IF k = pr[l].ptr + 1 THEN text[Len(text) + 1 - k]
                                              ELSE buffer[k]]
    /\ Goes(l, [pr[l] EXCEPT !.ptr = @ + 1])
    /\ mangled' = \/ mangled
                  \/ /\ l = "irq" /\ pr["main"].pc \in {"convert", "show"}
                     /\ ~pr["main"].keep /\ pr["main"].ptr # 0
    /\ UNCHANGED <<inputs, program, call, cursor, colours, out, pending>>

\* Slip: a conversion is taken for one that leaves nothing to clear.
SlipAfterConversion(r) ==
    [r EXCEPT !.pc = "show", !.at = r.ptr, !.off = cursor, !.keep = TRUE]

AfterConversion(r) == [r EXCEPT !.pc = "show", !.at = r.ptr, !.off = cursor]

\* The write of intToStr begins.
Converted(l) ==
    /\ At(l, "convert")
    /\ pr[l].ptr = Len(Conversion(l))
    /\ Goes(l, AfterConversion(pr[l]))
    /\ UNCHANGED <<inputs, program, call, cursor, colours, buffer, out, pending, mangled>>

\* %s: the string, and then the conversion buffer all the same.  A null string
\* moves the cursor to (0xFFFF, 0xFFFF).
SwitchString(l) ==
    /\ At(l, "switch")
    /\ Char(l, pr[l].c) = "%" /\ Char(l, pr[l].c + 1) = "s"
    /\ Goes(l, [pr[l] EXCEPT !.pc = "draw", !.c = @ + 1, !.keep = TRUE,
                             !.left = IF StringArgument = NullString THEN <<>> ELSE StringArgument,
                             !.off = IF StringArgument = NullString THEN <<65535, 65535>>
                                     ELSE cursor,
                             !.then = "buffer"])
    /\ UNCHANGED <<inputs, program, call, cursor, colours, buffer, out, pending, mangled>>

\* %c: the argument's low byte.
SwitchChar(l) ==
    /\ At(l, "switch")
    /\ Char(l, pr[l].c) = "%" /\ Char(l, pr[l].c + 1) = "c"
    /\ WriteChar(l, "c", [pr[l] EXCEPT !.pc = "buffer", !.c = @ + 1, !.keep = TRUE])
    /\ UNCHANGED <<inputs, program, call, colours, buffer, pending, mangled>>

\* Slip: start and end go on from the character after the "%".
SlipStepBack(r) == [r EXCEPT !.pc = "buffer", !.keep = TRUE]

\* "start = --end; --c": the character after the "%" is read again.
StepBack(r) == [r EXCEPT !.pc = "buffer", !.keep = TRUE, !.end = @ - 1, !.start = r.end - 1]

\* Any other character, or none: the "%" is a regular sign.
SwitchOther(l) ==
    /\ At(l, "switch")
    /\ Char(l, pr[l].c) = "%" /\ Char(l, pr[l].c + 1) \notin Specifiers
    /\ WriteChar(l, "%", StepBack(pr[l]))
    /\ UNCHANGED <<inputs, program, call, colours, buffer, pending, mangled>>

\* "localConsoleWriteString(intToStr)" begins.
ShowBuffer(l) ==
    /\ At(l, "buffer")
    /\ Goes(l, [pr[l] EXCEPT !.pc = "show", !.at = pr[l].ptr, !.off = cursor])
    /\ UNCHANGED <<inputs, program, call, cursor, colours, buffer, out, pending, mangled>>

\* What the write finds at a place of the buffer: ptr 0 is the empty local string
\* until a first conversion; past the last byte the model ends the text.
Found(l) == IF pr[l].ptr = 0 \/ pr[l].at < 0 THEN NUL ELSE buffer[pr[l].at]

Show(l) ==
    /\ At(l, "show")
    /\ Found(l) # NUL
    /\ out' = [out EXCEPT ![l] = Append(@, Glyph(Found(l)))]
    /\ Goes(l, [pr[l] EXCEPT !.at = @ - 1, !.off = Within(Advance(@))])
    /\ UNCHANGED <<inputs, program, call, cursor, colours, buffer, pending, mangled>>

\* The buffer's text is over; "start = ++end", "++c" of the loop.
Shown(l) ==
    /\ At(l, "show")
    /\ Found(l) = NUL
    /\ cursor' = pr[l].off
    /\ Goes(l, [pr[l] EXCEPT !.pc = IF pr[l].keep THEN "print" ELSE "clean",
                             !.c = @ + 1, !.end = @ + 1, !.start = pr[l].end + 1])
    /\ UNCHANGED <<inputs, program, call, colours, buffer, out, pending, mangled>>

\* memset from intToStr to the end of the buffer, its last byte included.
Clean(l) ==
    /\ At(l, "clean")
    /\ buffer' = [k \in DOMAIN buffer |-> IF k <= pr[l].ptr THEN NUL ELSE buffer[k]]
    /\ Goes(l, [pr[l] EXCEPT !.pc = "print"])
    /\ UNCHANGED <<inputs, program, call, cursor, colours, out, pending, mangled>>

\* puts: a character at or below 32 is written as a blank.
Puts(l) ==
    /\ At(l, "puts")
    /\ Char(l, pr[l].c) # NUL
    /\ WriteChar(l, IF Char(l, pr[l].c) = "nl" THEN Blank ELSE Char(l, pr[l].c),
                 [pr[l] EXCEPT !.c = @ + 1])
    /\ UNCHANGED <<inputs, program, call, colours, buffer, pending, mangled>>

PutsOver(l) ==
    /\ At(l, "puts")
    /\ Char(l, pr[l].c) = NUL
    /\ Goes(l, Over(l))
    /\ UNCHANGED <<inputs, program, call, cursor, colours, buffer, out, pending, mangled>>

\* putln is consoleNewline; consoleClear moves the cursor to the top.
Putln(l) ==
    /\ At(l, "putln")
    /\ cursor' = Newline(cursor)
    /\ Goes(l, Over(l))
    /\ UNCHANGED <<inputs, program, call, colours, buffer, out, pending, mangled>>

consoleClear(l) ==
    /\ At(l, "clear")
    /\ cursor' = <<0, 0>>
    /\ Goes(l, Over(l))
    /\ UNCHANGED <<inputs, program, call, colours, buffer, out, pending, mangled>>

\* printk_align_format.
printk_align_format(l) ==
    /\ At(l, "align")
    /\ format_align_pad' = Len(call[l].fmt)
    /\ Goes(l, Over(l))
    /\ UNCHANGED <<argument, program, call, cursor, colours, buffer, out, pending, mangled>>

Step(l) ==
    \/ SetBackColour(l) \/ SetTextColour(l) \/ RestoreBackColour(l) \/ RestoreTextColour(l)
    \/ Scan(l) \/ Finish(l)
    \/ Draw(l) \/ Drawn(l)
    \/ SwitchNewline(l) \/ SwitchEnd(l) \/ SwitchString(l) \/ SwitchChar(l) \/ SwitchOther(l)
    \/ SwitchNumber(l) \/ Convert(l) \/ Converted(l)
    \/ ShowBuffer(l) \/ Show(l) \/ Shown(l) \/ Clean(l)
    \/ Puts(l) \/ PutsOver(l) \/ Putln(l) \/ consoleClear(l) \/ printk_align_format(l)

Next == MainCalls \/ Interrupted \/ \E l \in Line : Step(l)

\* The processor goes on: a line with a step to take takes it.
Spec == Init /\ [][Next]_vars /\ WF_vars(Next)

-----------------------------------------------------------------------------
(* Properties *)

TypeOK ==
    /\ argument \in Word /\ format_align_pad \in Nat
    /\ cursor \in (0 .. Width - 1) \X Nat
    /\ DOMAIN buffer = 0 .. BufferLength
    /\ \A l \in Line : /\ pr[l].c \in 0 .. Len(call[l].fmt)
                        /\ pr[l].start \in 0 .. Len(call[l].fmt) + 1
                        /\ pr[l].ptr \in 0 .. BufferLength

\* math.h "round 'value' to closest power of 2" as its callers use it: the least
\* power of two not below the word.  0 gives 0, which is what lets pfa_alloc_pages
\* and alloc_pages refuse a count of zero, and so does a word above the largest
\* power of two the word holds.
Round2Correct ==
    LET powers == {2^k : k \in 0 .. W - 1}
    IN  round2(argument) = IF argument = 0 \/ argument > 2^(W - 1) THEN 0
                           ELSE Min({p \in powers : p >= argument})

\* math.h: for 2^M + K with K > 0, ppow2 gives 2^M.
Ppow2Correct ==
    argument \notin {2^k : k \in 0 .. W - 1} /\ argument \in 1 .. 2^(W - 1)
        => ppow2(argument) = 2^IntegerLog(argument)

\* math.h "Rounds 'toround' to a multiple": the least multiple not below the word,
\* as long as it fits.  The divisors are the values of format_align_pad.
RoundNCorrect ==
    LET n == format_align_pad
    IN  n # 0 /\ argument + n <= 2^W - 1 =>
            /\ roundN(argument, n) % n = 0
            /\ roundN(argument, n) \in argument .. argument + n - 1

\* The integer helpers agree with what their header says of them on every word, the
\* ends of the range included, where the subtraction and the shifts wrap.
HelpersCorrect == Round2Correct /\ Ppow2Correct /\ RoundNCorrect

\* The reading of a format string that io.h documents, from any place of it on, with
\* the number v for every numeric specifier.
MeaningFrom(fmt, v, pad) ==
    LET M[i \in 1 .. Len(fmt) + 1] ==
            IF i > Len(fmt) THEN <<>>
            ELSE IF fmt[i] = "%" /\ i < Len(fmt) /\ fmt[i + 1] \in Specifiers
            THEN (CASE fmt[i + 1] = "s" -> StringArgument
                    [] fmt[i + 1] = "c" -> <<"c">>
                    [] OTHER -> Formatted(v, pad, fmt[i + 1])) \o M[i + 2]
            ELSE <<fmt[i]>> \o M[i + 1]
    IN  M

Meanings(l) == MeaningFrom(call[l].fmt, Number(l), format_align_pad)
Meaning(l)  == Meanings(l)[1]

Characters(l) == [i \in 1 .. Len(out[l]) |-> out[l][i].ch]

Finishing(l) == pr[l].pc = "print" /\ Char(l, pr[l].c) = NUL

\* No handler has converted a number over one that the line has begun to convert and
\* not yet shown.
Undisturbed(l) == ~(l = "main" /\ mangled)

\* printk draws, glyph after glyph, what its format string means, and so does a
\* handler's printk wherever it interrupts the main line's.  The main line's text
\* suffers only from a handler that converts a number between the first character
\* of its own conversion and the last of its showing (MainAsWritten).
PrintedAsWritten ==
    \A l \in Line : Finishing(l) /\ Undisturbed(l) => Characters(l) = Meaning(l)

\* printkcol draws in the colours asked for, printk in the console's own, and the
\* console has its own again once no coloured call is under way.
ColoursAsAsked ==
    /\ \A i \in DOMAIN out["main"] : out["main"][i].colours = call["main"].colours
    /\ pr["main"].pc \in {"idle", "over"} => colours = Plain

\* The glyphs that printk and printkcol draw are those of the call's text, in order
\* and in its colours, with handlers printing between any two steps.  Where on the
\* screen they stand, and what is drawn over them, is not said: see CursorForward.
ShownAsWritten == PrintedAsWritten /\ ColoursAsAsked

\* A line that has a number to clear from the buffer.
Owes(p) == p.pc \in {"convert", "show", "clean"} /\ ~p.keep

\* Nothing of a number stays in the buffer: the write of the buffer that follows
\* every %s, %c and lone % finds it empty.
BufferLeftClean ==
    (\A l \in Line : ~Owes(pr[l]))
        => \A k \in DOMAIN buffer : buffer[k] = NUL

\* The buffer and the places in it and in the format string stay within bounds, and
\* no conversion leaves anything in the buffer for the next.
BufferInOrder == TypeOK /\ BufferLeftClean

-----------------------------------------------------------------------------
(* What keeps BufferInOrder and ColoursAsAsked true.                       *)

\* The columns where a write may stand: a null string moves it out of the window.
Columns == IF StringArgument = NullString THEN Nat ELSE 0 .. Width - 1

Single == {"puts", "putln", "clear", "align"}
Steps  == {"idle", "over", "colour", "colour text", "restore", "restore text", "print", "draw",
           "switch", "buffer", "convert", "show", "clean"} \cup Single
Progress ==
    [pc : Steps, c : Nat, start : Nat, end : Nat, ptr : 0 .. BufferLength, keep : BOOLEAN,
     at : -1 .. BufferLength, left : Seq(Chars), off : Columns \X Nat, then : {"none", "switch", "buffer"},
     saved : Palettes]

TypesInv ==
    /\ argument \in Word /\ format_align_pad \in Alignments
    /\ program \in Seq(Call)
    /\ call \in [Line -> Call] /\ pr \in [Line -> Progress]
    /\ cursor \in Columns \X Nat /\ colours \in Palettes
    /\ buffer \in [0 .. BufferLength -> Chars]
    /\ out \in [Line -> Seq([ch : Chars, colours : Palettes])]

\* The three indices of print_internal: start and end go together, and with c, but for
\* the character that a write has ended at.
InStep(p, fmt) ==
    LET plain == p.pc = "switch" \/ (p.pc = "draw" /\ p.then = "switch")
        spec  == p.pc \in {"buffer", "convert", "show"} \/ (p.pc = "draw" /\ p.then = "buffer")
    IN  /\ p.c <= Len(fmt) /\ p.start = p.end /\ p.end <= Len(fmt) + 1
        /\ p.pc \in {"colour", "colour text", "clean"} => p.end = p.c
        /\ p.pc = "print" => p.end = p.c \/ CharAt(fmt, p.c) = NUL
        /\ p.pc = "draw" => p.then # "none"
        /\ plain => p.end = p.c + 1 /\ ~p.keep
        /\ spec => p.c < Len(fmt) /\ p.end = p.c
        /\ p.pc = "convert" => ~p.keep /\ CharAt(fmt, p.c) \in Numeric

PlacesInv == \A l \in Line : InStep(pr[l], call[l].fmt)

\* What is left in the buffer, a line still has to clear.
BufferInv ==
    \A k \in 0 .. BufferLength : buffer[k] # NUL =>
        \E l \in Line : Owes(pr[l]) /\ k <= pr[l].ptr

\* The console's colours while the main line is at p in call k: the call's own from the
\* steps that set them to those that put the saved ones back.
ColoursAt(p, k) ==
    IF ~k.coloured \/ p.pc \in {"idle", "over", "colour"} THEN Plain
    ELSE IF p.pc = "colour text" THEN [Plain EXCEPT !.back = k.colours.back]
    ELSE IF p.pc = "restore text" THEN [Plain EXCEPT !.text = k.colours.text]
    ELSE k.colours

Colouring == {"colour", "colour text", "restore", "restore text"}

ColoursInv ==
    /\ ~call["irq"].coloured
    /\ \A l \in Line : /\ pr[l].pc \in Colouring => call[l].coloured
                       /\ pr[l].pc \in Single => ~call[l].coloured /\ call[l].kind = pr[l].pc
    /\ colours = ColoursAt(pr["main"], call["main"])
    /\ call["main"].coloured /\ pr["main"].pc \notin {"idle", "over", "colour"}
           => pr["main"].saved = Plain
    /\ pr["main"].pc \in {"colour", "colour text"} => out["main"] = <<>>
    /\ ColoursAsAsked

ConsoleInv == TypesInv /\ PlacesInv /\ BufferInv /\ ColoursInv

-----------------------------------------------------------------------------
(* What keeps PrintedAsWritten true.                                       *)

\* As much of a number as is converted is in the buffer, as its line has left it there.
NumberInv ==
    \A l \in Line : Undisturbed(l) /\ pr[l].pc \in {"convert", "show"} /\ ~pr[l].keep =>
        LET text == Conversion(l)
        IN  /\ Char(l, pr[l].c) \in Numeric /\ pr[l].ptr \in 0 .. Len(text)
            /\ pr[l].pc = "show" => pr[l].ptr = Len(text) /\ pr[l].at \in 0 .. Len(text)
            /\ \A k \in 1 .. pr[l].ptr : buffer[k] = text[Len(text) + 1 - k]

\* Where no number of its own is shown, a line finds the buffer empty: a handler clears
\* what it has written, and has written nothing while the main line's number is whole.
EmptyInv ==
    /\ buffer[0] = NUL
    /\ \A l \in Line :
          /\ pr[l].pc = "buffer" \/ (pr[l].pc = "draw" /\ pr[l].then = "buffer") => pr[l].keep
          /\ pr[l].pc = "show" /\ pr[l].keep => pr[l].at = pr[l].ptr
    /\ pr["irq"].ptr # 0 /\ ~Owes(pr["irq"]) => \A k \in 0 .. pr["irq"].ptr : buffer[k] = NUL
    /\ pr["irq"].pc = "idle" => pr["irq"].ptr = 0
    /\ pr["irq"].pc \notin Single
    /\ pr["main"].pc \in {"convert", "show"} /\ ~pr["main"].keep /\ pr["main"].ptr # 0 /\ ~mangled
           => pr["irq"].ptr = 0

\* What a write under way has still to draw, and where the reading goes on after it.
Rest(l) ==
    LET text == Conversion(l)
    IN  IF pr[l].pc = "draw" THEN pr[l].left
        ELSE IF pr[l].pc = "convert" THEN text
        ELSE IF pr[l].pc = "show" /\ ~pr[l].keep
        THEN SubSeq(text, Len(text) + 1 - pr[l].at, Len(text)) ELSE <<>>

Further(l) ==
    IF pr[l].pc \in {"buffer", "convert", "show"} \/ (pr[l].pc = "draw" /\ pr[l].then = "buffer")
    THEN pr[l].c + 2 ELSE pr[l].c + 1

\* What is drawn, with what the rest of the format string means, is what it all means.
Written(l) == Characters(l) \o (Rest(l) \o Meanings(l)[Further(l)]) = Meaning(l)

Printing == {"colour", "colour text", "print", "draw", "switch", "buffer", "convert", "show", "clean"}

TextInv == \A l \in Line : Undisturbed(l) /\ pr[l].pc \in Printing => Written(l)

WrittenInv == NumberInv /\ EmptyInv /\ TextInv

-----------------------------------------------------------------------------
(* What does not hold, each in a configuration of its own *)

\* An interrupt does not change what the main line prints.
MainAsWritten == Finishing("main") => Characters("main") = Meaning("main")

\* blit.c "if the active y offset has reached the extent, we need to go back".
CursorInside == Inside(cursor)

\* A glyph is drawn within the window; it is two pixels smaller than a step.
GlyphsInside ==
    \A l \in Line : pr[l].pc = "draw" /\ pr[l].left # <<>> =>
        /\ pr[l].off[1] + StepX - 2 <= Width
        /\ pr[l].off[2] + StepY - 2 <= Height

\* Text already on the screen is not drawn over before the window is full.
CursorForward ==
    [][\/ cursor'[2] > cursor[2]
       \/ cursor'[2] = cursor[2] /\ cursor'[1] >= cursor[1]]_vars
=============================================================================
