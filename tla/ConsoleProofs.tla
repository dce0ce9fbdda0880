---------------------------- MODULE ConsoleProofs ---------------------------
(***************************************************************************)
(* printk and the console, for windows and glyphs of any size, any         *)
(* programs of calls and any interrupts between two steps: no number stays *)
(* in the shared buffer, the indices stay within the format string, and    *)
(* the glyphs drawn are those of what the format string means, in the      *)
(* colours of its call.                                                    *)
(***************************************************************************)
EXTENDS Console, KernelMathProofs, SequenceTheorems

-----------------------------------------------------------------------------
(* The window.                                                             *)

Places == Columns \X Nat

\* The constants as the provers need them.
LEMMA Sizes ==
    /\ Width \in Nat /\ Width >= 1 /\ Height \in Nat /\ Height >= 1
    /\ StepX \in Nat /\ StepY \in Nat /\ BufferLength \in Nat
BY SizesAssumption

\* Every column of the window is one a write may stand at.
LEMMA InWindow ==
    /\ \A x \in 0 .. Width - 1 : x \in Columns
    /\ \A x \in Columns : x \in Nat
    /\ 0 \in Columns
    /\ StringArgument = NullString => 65535 \in Columns
BY Sizes DEF Columns

\* Sixteen bits hold a natural number.
LEMMA ShortIs == ASSUME NEW x \in Nat PROVE Short(x) \in Nat
BY DEF Short

\* A step to the next glyph ends in the window's columns, wherever it began.
LEMMA AdvancePlace ==
    ASSUME NEW off \in Places
    PROVE  Advance(off) \in Places
<1>1. off[1] \in Nat /\ off[2] \in Nat
  <2>1. off[1] \in Columns /\ off[2] \in Nat
    BY DEF Places
  <2> QED
    BY <2>1, InWindow
<1> DEFINE u == Short(off[1] + StepX)
           v == Short(off[2] + StepY)
           x == IF u < Width THEN u ELSE 0
           y == IF x = 0 THEN v ELSE off[2]
<1>2. u \in Nat /\ v \in Nat
  BY <1>1, Sizes, ShortIs
<1>3. Advance(off) = <<x, y>>
  BY DEF Advance
<1> HIDE DEF u, v
<1>4. x \in 0 .. Width - 1 /\ y \in Nat
  BY <1>1, <1>2, Sizes
<1> HIDE DEF x, y
<1> QED
  BY <1>3, <1>4, InWindow DEF Places

\* The top of the window.
LEMMA TopPlace == <<0, 0>> \in Places
BY InWindow DEF Places

\* One glyph of a string or a number.
LEMMA GlyphPlace ==
    ASSUME NEW off \in Places
    PROVE  Within(Advance(off)) \in Places
<1>1. Advance(off) \in Places
  BY AdvancePlace
<1> QED
  BY <1>1, TopPlace DEF Within

\* A newline.
LEMMA NewlinePlace ==
    ASSUME NEW off \in Places
    PROVE  Newline(off) \in Places
<1>1. off[2] \in Nat
  BY DEF Places
<1> DEFINE v == Short(off[2] + StepY)
           y == IF v < Height THEN v ELSE 0
<1>2. v \in Nat
  BY <1>1, Sizes, ShortIs
<1>3. Newline(off) = <<0, y>>
  BY DEF Newline
<1> HIDE DEF v
<1>4. y \in Nat
  BY <1>2
<1> HIDE DEF y
<1> QED
  BY <1>3, <1>4, InWindow DEF Places

-----------------------------------------------------------------------------
(* Calls and their progress.                                               *)

\* The console's own colours.
LEMMA PlainIs == Plain \in Palettes
BY CharsAssumption DEF Palettes, Plain

\* Pairs of which one colour is another pair's.
LEMMA PalettesIs ==
    \A c \in Palettes, d \in Palettes :
        /\ [c EXCEPT !.back = d.back] \in Palettes /\ [c EXCEPT !.text = d.text] \in Palettes
        /\ [[c EXCEPT !.back = d.back] EXCEPT !.text = d.text] = d
BY DEF Palettes

Drawings == Seq([ch : Chars, colours : Palettes])
Buffers  == [0 .. BufferLength -> Chars]

\* A string without zeroes.
LEMMA CString ==
    ASSUME NEW s \in Seq(Chars \ {NUL})
    PROVE  /\ s \in Seq(Chars) /\ Len(s) \in Nat
           /\ \A i \in 1 .. Len(s) : s[i] \in Chars /\ s[i] # NUL
<1>1. s \in Seq(Chars)
  BY SeqMonotonic
<1>2. \A i \in 1 .. Len(s) : s[i] \in Chars \ {NUL}
  OBVIOUS
<1> QED
  BY <1>1, <1>2

\* What is known of a line and its call.
LEMMA LineTypes ==
    ASSUME TypesInv, NEW l \in Line
    PROVE  /\ pr[l] \in Progress /\ call[l] \in Call
           /\ call[l].fmt \in Seq(Chars) /\ Len(call[l].fmt) \in Nat
           /\ \A i \in 1 .. Len(call[l].fmt) : call[l].fmt[i] # NUL
           /\ call[l].coloured \in BOOLEAN /\ call[l].colours \in Palettes
           /\ ~call[l].coloured => call[l].colours = Plain
           /\ out[l] \in Drawings
<1>1. pr[l] \in Progress /\ call[l] \in Call /\ out[l] \in Drawings
  BY DEF TypesInv, Drawings
<1>2. /\ call[l] \in [kind : {"print", "puts", "putln", "clear", "align"}, fmt : Seq(Chars \ {NUL}),
                      colours : Palettes, coloured : BOOLEAN]
      /\ IF call[l].coloured THEN call[l].kind = "print" ELSE call[l].colours = Plain
  BY <1>1, Zenon DEF Call
<1>3. /\ call[l].fmt \in Seq(Chars \ {NUL}) /\ call[l].coloured \in BOOLEAN
      /\ call[l].colours \in Palettes
  BY <1>2
<1>4. /\ call[l].fmt \in Seq(Chars) /\ Len(call[l].fmt) \in Nat
      /\ \A i \in 1 .. Len(call[l].fmt) : call[l].fmt[i] # NUL
  BY <1>3, CString
<1> QED
  BY <1>1, <1>2, <1>3, <1>4

\* The fields of a call's progress.
LEMMA ProgressFields ==
    ASSUME NEW p \in Progress
    PROVE  /\ p.pc \in Steps /\ p.c \in Nat /\ p.start \in Nat /\ p.end \in Nat
           /\ p.ptr \in 0 .. BufferLength /\ p.keep \in BOOLEAN /\ p.at \in -1 .. BufferLength
           /\ p.left \in Seq(Chars) /\ p.off \in Places /\ p.then \in {"none", "switch", "buffer"}
           /\ p.saved \in Palettes
BY DEF Progress, Places

\* One line goes on, and the other stays.
LEMMA TypesStep ==
    ASSUME TypesInv, PlacesInv, NEW l \in Line, NEW q \in Progress, InStep(q, call[l].fmt),
           pr' = [pr EXCEPT ![l] = q], UNCHANGED <<argument, program, call>>,
           format_align_pad' \in Alignments, cursor' \in Places, colours' \in Palettes,
           buffer' \in Buffers, out' \in [Line -> Drawings]
    PROVE  TypesInv' /\ PlacesInv'
<1>1. pr \in [Line -> Progress]
  BY DEF TypesInv
<1>2. pr' \in [Line -> Progress] /\ pr'[l] = q /\ \A m \in Line \ {l} : pr'[m] = pr[m]
  BY <1>1
<1>3. TypesInv'
  BY <1>2 DEF TypesInv, Places, Buffers, Drawings
<1>4. PlacesInv'
  BY <1>2 DEF PlacesInv
<1> QED
  BY <1>3, <1>4

\* The buffer is as it was, and the line goes on owing what it owed.
LEMMA BufferStep ==
    ASSUME TypesInv, BufferInv, NEW l \in Line, NEW q,
           pr' = [pr EXCEPT ![l] = q], buffer' = buffer,
           Owes(pr[l]) => Owes(q) /\ q.ptr = pr[l].ptr
    PROVE  BufferInv'
<1>1. pr'[l] = q /\ \A m \in Line \ {l} : pr'[m] = pr[m]
  BY DEF TypesInv
<1>2. ASSUME NEW k \in 0 .. BufferLength, buffer'[k] # NUL
      PROVE  \E m \in Line : Owes(pr'[m]) /\ k <= pr'[m].ptr
  <2>1. PICK m \in Line : Owes(pr[m]) /\ k <= pr[m].ptr
    BY <1>2 DEF BufferInv
  <2>2. CASE m = l
    BY <1>1, <2>1, <2>2
  <2>3. CASE m # l
    BY <1>1, <2>1, <2>3
  <2> QED
    BY <2>2, <2>3
<1> QED
  BY <1>2 DEF BufferInv

\* The steps of print_internal.
Busy == {"print", "draw", "switch", "buffer", "convert", "show", "clean"}

\* A line draws nothing, or one glyph.
Drew(l) == out' = out \/ \E ch \in Chars : out' = [out EXCEPT ![l] = Append(@, Glyph(ch))]

\* What a line draws has the console's colours.
LEMMA DrewTypes ==
    ASSUME TypesInv, NEW l \in Line, Drew(l)
    PROVE  /\ out' \in [Line -> Drawings]
           /\ \A m \in Line : \A i \in DOMAIN out'[m] :
                 \/ i \in DOMAIN out[m] /\ out'[m][i] = out[m][i]
                 \/ m = l /\ out'[m][i].colours = colours
<1>0. out \in [Line -> Drawings] /\ colours \in Palettes
  BY DEF TypesInv, Drawings
<1>1. CASE out' = out
  BY <1>0, <1>1
<1>2. ASSUME NEW ch \in Chars, out' = [out EXCEPT ![l] = Append(@, Glyph(ch))]
      PROVE  /\ out' \in [Line -> Drawings]
             /\ \A m \in Line : \A i \in DOMAIN out'[m] :
                   \/ i \in DOMAIN out[m] /\ out'[m][i] = out[m][i]
                   \/ m = l /\ out'[m][i].colours = colours
  <2> DEFINE G == [ch : Chars, colours : Palettes]
             g == Glyph(ch)
  <2>1. g \in G /\ g.colours = colours
    BY <1>0 DEF Glyph
  <2> HIDE DEF G, g
  <2>2. ASSUME NEW s \in Seq(G)
        PROVE  /\ Append(s, g) \in Seq(G)
               /\ \A i \in DOMAIN Append(s, g) :
                     \/ i \in DOMAIN s /\ Append(s, g)[i] = s[i]
                     \/ Append(s, g)[i] = g
    BY <2>1
  <2>3. out[l] \in Seq(G)
    BY <1>0 DEF G, Drawings
  <2>4. /\ Append(out[l], g) \in Drawings
        /\ \A i \in DOMAIN Append(out[l], g) :
              \/ i \in DOMAIN out[l] /\ Append(out[l], g)[i] = out[l][i]
              \/ Append(out[l], g)[i] = g
    BY <2>2, <2>3 DEF G, Drawings
  <2>5. out' = [out EXCEPT ![l] = Append(out[l], g)]
    BY <1>2 DEF g
  <2>6. out' \in [Line -> Drawings] /\ out'[l] = Append(out[l], g)
        /\ \A m \in Line \ {l} : out'[m] = out[m]
    BY <1>0, <2>4, <2>5
  <2> QED
    BY <2>1, <2>4, <2>6
<1> QED
  BY <1>1, <1>2 DEF Drew

\* A line that prints goes on printing, in the same colours.
LEMMA ColoursStep ==
    ASSUME TypesInv, ColoursInv, NEW l \in Line, NEW q, pr' = [pr EXCEPT ![l] = q],
           \/ pr[l].pc \in Busy /\ q.pc \in Busy
           \/ pr[l].pc = "puts" /\ q.pc = "puts",
           q.saved = pr[l].saved, call' = call, colours' = colours, Drew(l)
    PROVE  ColoursInv'
<1>1. pr'[l] = q /\ \A m \in Line \ {l} : pr'[m] = pr[m]
  BY DEF TypesInv
<1>2. \A m \in Line : /\ pr'[m].pc \in Colouring => call[m].coloured
                      /\ pr'[m].pc \in Single => ~call[m].coloured /\ call[m].kind = pr'[m].pc
  BY <1>1 DEF ColoursInv, Busy, Single, Colouring
<1>3. /\ "main" \in Line /\ ~call["irq"].coloured
      /\ ~call["main"].coloured => call["main"].colours = Plain
      /\ \A i \in DOMAIN out["main"] : out["main"][i].colours = call["main"].colours
      /\ colours = ColoursAt(pr["main"], call["main"])
  BY LineTypes DEF ColoursInv, ColoursAsAsked, Line
<1>4. /\ ColoursAt(pr'["main"], call["main"]) = ColoursAt(pr["main"], call["main"])
      /\ l = "main" => colours = call["main"].colours
  <2>1. CASE l # "main"
    BY <1>1, <1>3, <2>1
  <2>2. CASE l = "main"
    <3>1. pr["main"].pc \in Busy \cup {"puts"} /\ pr'["main"].pc \in Busy \cup {"puts"}
      BY <1>1, <2>2
    <3>2. ASSUME NEW p, p.pc \in Busy \cup {"puts"}
          PROVE  ColoursAt(p, call["main"]) = call["main"].colours
      BY <1>3, <3>2 DEF ColoursAt, Busy
    <3> QED
      BY <1>3, <3>1, <3>2
  <2> QED
    BY <2>1, <2>2
<1>5. \A i \in DOMAIN out'["main"] : out'["main"][i].colours = call["main"].colours
  <2>1. \A i \in DOMAIN out'["main"] :
           \/ i \in DOMAIN out["main"] /\ out'["main"][i] = out["main"][i]
           \/ "main" = l /\ out'["main"][i].colours = colours
    BY DrewTypes, <1>3
  <2> QED
    BY <1>3, <1>4, <2>1
<1>6. /\ pr'["main"].pc \in {"colour", "colour text"} => out'["main"] = <<>>
      /\ call["main"].coloured /\ pr'["main"].pc \notin {"idle", "over", "colour"}
             => pr'["main"].saved = Plain
      /\ pr'["main"].pc \in {"idle", "over"} => colours = Plain
  <2>1. CASE l # "main"
    <3>1. out'["main"] = out["main"] /\ pr'["main"] = pr["main"]
      BY <1>1, <1>3, <2>1 DEF Drew, TypesInv
    <3> QED
      BY <3>1 DEF ColoursInv, ColoursAsAsked
  <2>2. CASE l = "main"
    <3>1. /\ pr["main"].pc \in Busy \cup {"puts"} /\ pr'["main"].pc \in Busy \cup {"puts"}
          /\ pr'["main"].saved = pr["main"].saved
      BY <1>1, <2>2
    <3> QED
      BY <3>1 DEF ColoursInv, Busy
  <2> QED
    BY <2>1, <2>2
<1> QED
  BY <1>2, <1>3, <1>4, <1>5, <1>6 DEF ColoursInv, ColoursAsAsked

\* A call without colours of its own is over.
LEMMA ColoursOver ==
    ASSUME TypesInv, ColoursInv, NEW l \in Line, NEW q, pr' = [pr EXCEPT ![l] = q],
           pr[l].pc \in Busy \cup Single, ~call[l].coloured, q.pc \in {"idle", "over"},
           call' = call, colours' = colours, out' = out
    PROVE  ColoursInv'
<1>1. pr'[l] = q /\ \A m \in Line \ {l} : pr'[m] = pr[m]
  BY DEF TypesInv
<1>2. CASE l = "main"
  <2>1. colours = Plain /\ pr'["main"].pc \in {"idle", "over"} /\ pr'["irq"] = pr["irq"]
    BY <1>1, <1>2 DEF ColoursInv, ColoursAt, Line
  <2> QED
    BY <1>2, <2>1 DEF ColoursInv, ColoursAsAsked, ColoursAt, Colouring, Line, Single
<1>3. CASE l = "irq"
  <2>1. pr'["main"] = pr["main"] /\ pr'["irq"].pc \in {"idle", "over"}
    BY <1>1, <1>3 DEF Line
  <2> QED
    BY <1>3, <2>1 DEF ColoursInv, ColoursAsAsked, Colouring, Line, Single
<1> QED
  BY <1>2, <1>3 DEF Line

\* A line goes on with its call: the shared state but for the cursor stays.
LEMMA LineGoesOn ==
    ASSUME ConsoleInv, NEW l \in Line, NEW q \in Progress, InStep(q, call[l].fmt), Goes(l, q),
           \/ pr[l].pc \in Busy /\ q.pc \in Busy
           \/ pr[l].pc = "puts" /\ q.pc = "puts",
           q.saved = pr[l].saved, Owes(pr[l]) => Owes(q) /\ q.ptr = pr[l].ptr,
           UNCHANGED <<inputs, program, call, colours, buffer>>, cursor' \in Places, Drew(l)
    PROVE  ConsoleInv'
<1>1. TypesInv /\ PlacesInv /\ BufferInv /\ ColoursInv /\ pr' = [pr EXCEPT ![l] = q]
  BY DEF ConsoleInv, Goes
<1>2. /\ UNCHANGED <<argument, format_align_pad, program, call>> /\ format_align_pad \in Alignments
      /\ colours' = colours /\ buffer' = buffer /\ colours \in Palettes /\ buffer \in Buffers
  BY <1>1 DEF TypesInv, inputs, Buffers
<1>3. out' \in [Line -> Drawings]
  BY <1>1, DrewTypes
<1>4. TypesInv' /\ PlacesInv'
  BY <1>1, <1>2, <1>3, TypesStep
<1>5. BufferInv'
  BY <1>1, <1>2, BufferStep
<1>6. ColoursInv'
  BY <1>1, <1>2, ColoursStep
<1> QED
  BY <1>4, <1>5, <1>6 DEF ConsoleInv

\* The progress of a line that has no call.
LEMMA IdleRecord ==
    /\ Idle \in Progress /\ Idle.pc = "idle" /\ Idle.c = 0 /\ Idle.start = 0 /\ Idle.end = 0
    /\ Idle.then = "none" /\ Idle.saved = Plain
<1>1. 0 \in 0 .. BufferLength /\ 0 \in -1 .. BufferLength
  BY Sizes
<1>2. <<0, 0>> \in Columns \X Nat
  BY InWindow
<1>3. <<>> \in Seq(Chars) /\ Plain \in Palettes
  BY PlainIs
<1> QED
  BY <1>1, <1>2, <1>3 DEF Idle, Progress, Steps

\* The progress of a line that begins a call, or ends one.
LEMMA IdleProgress ==
    ASSUME NEW pc \in Steps
    PROVE  LET q == [Idle EXCEPT !.pc = pc]
           IN  /\ q \in Progress /\ q.pc = pc /\ q.c = 0 /\ q.start = 0 /\ q.end = 0
               /\ q.then = "none" /\ q.saved = Plain
<1>1. ASSUME NEW p \in Progress
      PROVE  LET q == [p EXCEPT !.pc = pc]
             IN  /\ q \in Progress /\ q.pc = pc /\ q.c = p.c /\ q.start = p.start
                 /\ q.end = p.end /\ q.then = p.then /\ q.saved = p.saved
  BY DEF Progress
<1> QED
  BY <1>1, IdleRecord

\* A line at no place of a format string, or at its start.
LEMMA AtStart ==
    ASSUME NEW q, NEW fmt \in Seq(Chars), q.c = 0, q.start = 0, q.end = 0,
           q.pc \in {"idle", "over", "colour", "print"} \cup Single
    PROVE  InStep(q, fmt)
<1>1. Len(fmt) \in Nat
  OBVIOUS
<1> QED
  BY <1>1 DEF InStep, Single

\* A call without colours of its own is over: the buffer and the screen stay.
LEMMA CallOver ==
    ASSUME ConsoleInv, NEW l \in Line, pr[l].pc \in {"print"} \cup Single, ~call[l].coloured,
           Goes(l, Over(l)), UNCHANGED <<argument, program, call, colours, buffer, out>>,
           format_align_pad' \in Alignments, cursor' \in Places
    PROVE  ConsoleInv'
<1> DEFINE q == Over(l)
<1>1. TypesInv /\ PlacesInv /\ BufferInv /\ ColoursInv /\ pr' = [pr EXCEPT ![l] = q]
  BY DEF ConsoleInv, Goes
<1>2. /\ q \in Progress /\ q.pc \in {"idle", "over"} /\ q.c = 0 /\ q.start = 0 /\ q.end = 0
  <2> DEFINE pc == IF l = "main" THEN "over" ELSE "idle"
  <2>1. pc \in Steps /\ pc \in {"idle", "over"}
    BY DEF Steps
  <2>2. q = [Idle EXCEPT !.pc = pc]
    BY DEF Over
  <2> HIDE DEF pc, q
  <2> QED
    BY <2>1, <2>2, IdleProgress
<1> HIDE DEF q
<1>3. InStep(q, call[l].fmt)
  <2>1. call[l].fmt \in Seq(Chars)
    BY <1>1, LineTypes
  <2> QED
    BY <1>2, <2>1, AtStart
<1>4. colours \in Palettes /\ buffer \in Buffers /\ out \in [Line -> Drawings]
  BY <1>1 DEF TypesInv, Buffers, Drawings
<1>5. TypesInv' /\ PlacesInv'
  BY <1>1, <1>2, <1>3, <1>4, TypesStep
<1>6. ~Owes(pr[l])
  BY DEF Owes, Single
<1>7. BufferInv'
  BY <1>1, <1>6, BufferStep
<1>8. pr[l].pc \in Busy \cup Single
  BY DEF Busy
<1>9. ColoursInv'
  BY <1>1, <1>2, <1>8, ColoursOver
<1> QED
  BY <1>5, <1>7, <1>9 DEF ConsoleInv

\* What an invariant's proof takes of a line at the start of a step.
LEMMA LineAt ==
    ASSUME ConsoleInv, NEW l \in Line
    PROVE  /\ pr[l] \in Progress /\ InStep(pr[l], call[l].fmt)
           /\ pr[l].c \in Nat /\ pr[l].end \in Nat /\ pr[l].start = pr[l].end
           /\ pr[l].c <= Len(call[l].fmt) /\ pr[l].end <= Len(call[l].fmt) + 1
           /\ Len(call[l].fmt) \in Nat /\ call[l].fmt \in Seq(Chars)
           /\ \A i \in Nat : Char(l, i) # NUL => i < Len(call[l].fmt)
           /\ \A i \in Nat : Char(l, i) = CharAt(call[l].fmt, i) /\ Char(l, i) \in Chars
           /\ cursor \in Places /\ pr[l].off \in Places
<1>1. TypesInv /\ PlacesInv
  BY DEF ConsoleInv
<1>2. /\ pr[l] \in Progress /\ InStep(pr[l], call[l].fmt) /\ cursor \in Places
      /\ Len(call[l].fmt) \in Nat /\ call[l].fmt \in Seq(Chars)
  BY <1>1, LineTypes DEF PlacesInv, TypesInv, Places
<1>3. pr[l].c \in Nat /\ pr[l].end \in Nat /\ pr[l].off \in Places
  BY <1>2, ProgressFields
<1>4. \A i \in Nat : /\ Char(l, i) # NUL => i < Len(call[l].fmt)
                     /\ Char(l, i) = CharAt(call[l].fmt, i) /\ Char(l, i) \in Chars
  <2>1. ASSUME NEW fmt \in Seq(Chars), NEW i \in Nat
        PROVE  CharAt(fmt, i) \in Chars /\ (CharAt(fmt, i) # NUL => i < Len(fmt))
    <3>1. i < Len(fmt) => i + 1 \in 1 .. Len(fmt)
      OBVIOUS
    <3>2. NUL \in Chars /\ \A k \in 1 .. Len(fmt) : fmt[k] \in Chars
      BY CharsAssumption
    <3> QED
      BY <3>1, <3>2 DEF CharAt
  <2> QED
    BY <1>2, <2>1 DEF Char
<1> QED
  BY <1>2, <1>3, <1>4 DEF InStep

-----------------------------------------------------------------------------
(* The steps of a line.                                                    *)

\* The end of the text that is written as it is lies within the format string.
LEMMA StopWithin ==
    ASSUME ConsoleInv, NEW l \in Line
    PROVE  /\ Stop(l) \in Nat /\ pr[l].c <= Stop(l) /\ Stop(l) <= Len(call[l].fmt)
           /\ \A i \in Nat : pr[l].c <= i /\ i < Stop(l) => Char(l, i) # "%"
<1> DEFINE c == pr[l].c
           size == Len(call[l].fmt)
           S == {i \in c .. size : Char(l, i) \in {"%", "nl", NUL}}
<1>1. c \in Nat /\ size \in Nat /\ c <= size /\ Char(l, size) = NUL
  <2>1. c \in Nat /\ size \in Nat /\ c <= size /\ ~(size < size)
    BY LineAt
  <2> QED
    BY <2>1 DEF Char, CharAt
<1> HIDE DEF c, size
<1>2. size \in S /\ \A i \in S : i \in Nat /\ c <= i /\ i <= size
  BY <1>1
<1>3. Stop(l) = CHOOSE x \in S : \A y \in S : x <= y
  BY DEF Stop, Min, c, size
<1> HIDE DEF S
<1>4. \E m \in S : \A y \in S : m <= y
  <2> DEFINE R == OpToRel(<, Nat)
  <2>1. S \in SUBSET Nat /\ S # {}
    BY <1>2
  <2>2. PICK m \in S : \A y \in S : ~(<<y, m>> \in R)
    BY <2>1, NatLessThanWellFounded, WFMin, Zenon
  <2>3. \A y \in S : ~(y < m)
    BY <2>1, <2>2, Zenon DEF OpToRel
  <2> QED
    BY <2>1, <2>3
<1>5. Stop(l) \in S /\ \A y \in S : Stop(l) <= y
  BY <1>3, <1>4, Zenon
<1>6. ASSUME NEW i \in Nat, c <= i, i < Stop(l) PROVE Char(l, i) # "%"
  <2>0. Stop(l) \in Nat /\ Stop(l) <= size
    BY <1>2, <1>5
  <2>1. i \in c .. size /\ ~(Stop(l) <= i)
    BY <1>1, <1>6, <2>0
  <2> QED
    BY <1>5, <2>1 DEF S
<1> QED
  BY <1>2, <1>5, <1>6 DEF c, size

\* A step that leaves the three indices and the place in the call.
LEMMA SamePlace ==
    ASSUME NEW p, NEW q, NEW fmt, InStep(p, fmt), q.pc = p.pc, q.c = p.c, q.start = p.start,
           q.end = p.end, q.then = p.then, q.keep = p.keep
    PROVE  InStep(q, fmt)
BY DEF InStep

\* The text up to the next sign is taken: the loop's three indices stay in step.
LEMMA ScanKeeps ==
    ASSUME ConsoleInv, NEW l \in Line, Scan(l)
    PROVE  ConsoleInv'
<1> DEFINE p == pr[l]
           fmt == call[l].fmt
           stop == Stop(l)
           end == p.end + stop - p.c
           text == SubSeq(fmt, p.start + 1, end)
           Upd(r, c, t, o, e) ==
               [r EXCEPT !.pc = "draw", !.c = c, !.keep = FALSE, !.left = t, !.off = o,
                         !.then = "switch", !.start = e, !.end = e]
           q == Upd(p, stop, text, cursor, end + 1)
<1>1. /\ p.pc = "print" /\ Char(l, p.c) # NUL /\ Goes(l, q) /\ out' = out /\ cursor' = cursor
      /\ UNCHANGED <<inputs, program, call, colours, buffer>>
  BY DEF Scan, At
<1>2. /\ p \in Progress /\ InStep(p, fmt) /\ p.c \in Nat /\ p.start = p.end /\ cursor \in Places
      /\ fmt \in Seq(Chars) /\ Len(fmt) \in Nat /\ stop \in Nat /\ stop <= Len(fmt)
      /\ CharAt(fmt, p.c) # NUL
  BY <1>1, LineAt, StopWithin
<1>3. p.end = p.c
  BY <1>1, <1>2 DEF InStep
<1>4. end = stop
  BY <1>2, <1>3
<1>5. text \in Seq(Chars)
  <2>1. ASSUME NEW m \in Nat, NEW n \in Nat, n <= Len(fmt), m >= 1
        PROVE  SubSeq(fmt, m, n) \in Seq(Chars)
    <3>1. \A i \in m .. n : fmt[i] \in Chars
      BY <2>1, <1>2
    <3> QED
      BY <3>1, SubSeqProperties
  <2>2. p.start + 1 \in Nat /\ p.start + 1 >= 1
    BY <1>2, <1>3
  <2> QED
    BY <2>1, <2>2, <1>2, <1>4
<1> HIDE DEF p, fmt, stop, end, text
<1>6. /\ q \in Progress /\ q.pc = "draw" /\ q.then = "switch" /\ q.c = stop
      /\ q.start = end + 1 /\ q.end = end + 1 /\ q.saved = p.saved /\ ~q.keep
  <2>1. ASSUME NEW r \in Progress, NEW c \in Nat, NEW t \in Seq(Chars), NEW o \in Places,
               NEW e \in Nat
        PROVE  LET s == Upd(r, c, t, o, e)
               IN  /\ s \in Progress /\ s.pc = "draw" /\ s.then = "switch" /\ s.c = c
                   /\ s.start = e /\ s.end = e /\ s.saved = r.saved /\ ~s.keep
    BY DEF Progress, Places, Steps
  <2> HIDE DEF Upd
  <2>2. end + 1 \in Nat /\ p \in Progress /\ stop \in Nat /\ text \in Seq(Chars)
        /\ cursor \in Places
    BY <1>2, <1>4, <1>5
  <2> QED
    BY <2>1, <2>2
<1> HIDE DEF q
<1>7. InStep(q, fmt)
  <2>1. Len(fmt) \in Nat /\ stop \in Nat /\ stop <= Len(fmt) /\ end = stop
    BY <1>2, <1>4
  <2> QED
    BY <1>6, <2>1 DEF InStep
<1>8. p.pc \in Busy /\ q.pc \in Busy /\ ~Owes(p) /\ Drew(l)
  BY <1>1, <1>6 DEF Busy, Owes, Drew
<1> QED
  BY <1>1, <1>2, <1>6, <1>7, <1>8, LineGoesOn DEF p, fmt

\* One glyph of a string, and its place in the window.
LEMMA DrawKeeps ==
    ASSUME ConsoleInv, NEW l \in Line, Draw(l)
    PROVE  ConsoleInv'
<1> DEFINE p == pr[l]
           fmt == call[l].fmt
           Upd(r, t, o) == [r EXCEPT !.left = t, !.off = o]
           q == Upd(p, Tail(p.left), Within(Advance(p.off)))
<1>1. /\ p.pc = "draw" /\ p.left # <<>> /\ Goes(l, q)
      /\ out' = [out EXCEPT ![l] = Append(@, Glyph(Head(p.left)))] /\ cursor' = cursor
      /\ UNCHANGED <<inputs, program, call, colours, buffer>>
  BY DEF Draw, At
<1>2. p \in Progress /\ InStep(p, fmt) /\ cursor \in Places /\ p.off \in Places
  BY LineAt
<1>3. Within(Advance(p.off)) \in Places
  BY <1>2, GlyphPlace
<1>4. p.left \in Seq(Chars)
  BY <1>2, ProgressFields
<1>5. Head(p.left) \in Chars /\ Tail(p.left) \in Seq(Chars)
  BY <1>1, <1>4
<1>6. ASSUME NEW r \in Progress, NEW t \in Seq(Chars), NEW o \in Places
      PROVE  LET s == Upd(r, t, o)
             IN  /\ s \in Progress /\ s.pc = r.pc /\ s.c = r.c /\ s.start = r.start
                 /\ s.end = r.end /\ s.then = r.then /\ s.saved = r.saved /\ s.off = o
                 /\ s.keep = r.keep
  BY DEF Progress, Places
<1> HIDE DEF p, fmt, Upd
<1>7. /\ q \in Progress /\ q.pc = p.pc /\ q.c = p.c /\ q.start = p.start
      /\ q.end = p.end /\ q.then = p.then /\ q.saved = p.saved /\ q.off = Within(Advance(p.off))
      /\ q.keep = p.keep
  BY <1>2, <1>3, <1>5, <1>6
<1> HIDE DEF q
<1>8. InStep(q, fmt)
  BY <1>2, <1>7, SamePlace
<1>9. p.pc \in Busy /\ q.pc \in Busy /\ ~Owes(p) /\ Drew(l)
  BY <1>1, <1>5, <1>7 DEF Busy, Owes, Drew
<1>10. ConsoleInv'
  BY <1>1, <1>2, <1>7, <1>8, <1>9, LineGoesOn DEF p, fmt
<1>11. pr'[l] = q
  BY <1>1 DEF Goes, ConsoleInv, TypesInv
<1> QED
  BY <1>3, <1>7, <1>10, <1>11

\* A write is over, and print_internal goes on where the write was called.
LEMMA DrawnKeeps ==
    ASSUME ConsoleInv, NEW l \in Line, Drawn(l)
    PROVE  ConsoleInv'
<1> DEFINE p == pr[l]
           fmt == call[l].fmt
           Upd(r, pc) == [r EXCEPT !.pc = pc]
           q == Upd(p, p.then)
<1>1. /\ p.pc = "draw" /\ Goes(l, q) /\ out' = out /\ cursor' = p.off
      /\ UNCHANGED <<inputs, program, call, colours, buffer>>
  BY DEF Drawn, At
<1>2. p \in Progress /\ InStep(p, fmt) /\ p.off \in Places
  BY LineAt
<1>3. p.then \in {"switch", "buffer"} /\ p.then \in Steps
  BY <1>1, <1>2, ProgressFields DEF InStep, Steps
<1>4. ASSUME NEW r \in Progress, NEW pc \in Steps
      PROVE  LET s == Upd(r, pc)
             IN  /\ s \in Progress /\ s.pc = pc /\ s.c = r.c /\ s.start = r.start
                 /\ s.end = r.end /\ s.then = r.then /\ s.saved = r.saved /\ s.keep = r.keep
  BY DEF Progress
<1> HIDE DEF p, fmt, Upd
<1>5. /\ q \in Progress /\ q.pc = p.then /\ q.c = p.c /\ q.start = p.start
      /\ q.end = p.end /\ q.then = p.then /\ q.saved = p.saved /\ q.keep = p.keep
  BY <1>2, <1>3, <1>4
<1> HIDE DEF q
<1>6. InStep(q, fmt)
  BY <1>1, <1>2, <1>3, <1>5 DEF InStep
<1>7. p.pc \in Busy /\ q.pc \in Busy /\ ~Owes(p) /\ Drew(l)
  BY <1>1, <1>3, <1>5 DEF Busy, Owes, Drew
<1> QED
  BY <1>1, <1>2, <1>5, <1>6, <1>7, LineGoesOn DEF p, fmt

\* A newline of the format string.
LEMMA SwitchNewlineKeeps ==
    ASSUME ConsoleInv, NEW l \in Line, SwitchNewline(l)
    PROVE  ConsoleInv'
<1> DEFINE p == pr[l]
           fmt == call[l].fmt
           Upd(r, c) == [r EXCEPT !.pc = "print", !.c = c]
           q == Upd(p, p.c + 1)
<1>1. /\ p.pc = "switch" /\ Char(l, p.c) = "nl" /\ Goes(l, q) /\ cursor' = Newline(cursor)
      /\ out' = [out EXCEPT ![l] = Append(@, Glyph("nl"))]
      /\ UNCHANGED <<inputs, program, call, colours, buffer>>
  BY DEF SwitchNewline, At
<1>2. /\ p \in Progress /\ InStep(p, fmt) /\ p.c \in Nat /\ cursor \in Places
      /\ Len(fmt) \in Nat /\ p.c < Len(fmt)
  BY <1>1, LineAt DEF NUL
<1>3. cursor' \in Places
  BY <1>1, <1>2, NewlinePlace
<1>4. ASSUME NEW r \in Progress, NEW c \in Nat
      PROVE  LET s == Upd(r, c)
             IN  /\ s \in Progress /\ s.pc = "print" /\ s.c = c /\ s.start = r.start
                 /\ s.end = r.end /\ s.then = r.then /\ s.saved = r.saved
  BY DEF Progress, Steps
<1>5. p.c + 1 \in Nat
  BY <1>2
<1> HIDE DEF p, fmt, Upd
<1>6. /\ q \in Progress /\ q.pc = "print" /\ q.c = p.c + 1 /\ q.start = p.start
      /\ q.end = p.end /\ q.then = p.then /\ q.saved = p.saved
  BY <1>2, <1>4, <1>5
<1> HIDE DEF q
<1>7. InStep(q, fmt)
  BY <1>1, <1>2, <1>6 DEF InStep
<1>8. p.pc \in Busy /\ q.pc \in Busy /\ ~Owes(p) /\ Drew(l)
  BY <1>1, <1>6, CharsAssumption DEF Busy, Owes, Drew
<1> QED
  BY <1>1, <1>2, <1>3, <1>6, <1>7, <1>8, LineGoesOn DEF p, fmt

\* The end of the format string, at the character after a write.
LEMMA SwitchEndKeeps ==
    ASSUME ConsoleInv, NEW l \in Line, SwitchEnd(l)
    PROVE  ConsoleInv'
<1> DEFINE p == pr[l]
           fmt == call[l].fmt
           Upd(r) == [r EXCEPT !.pc = "print"]
           q == Upd(p)
<1>1. /\ p.pc = "switch" /\ Char(l, p.c) = NUL /\ Goes(l, q) /\ out' = out /\ cursor' = cursor
      /\ UNCHANGED <<inputs, program, call, colours, buffer>>
  BY DEF SwitchEnd, At
<1>2. /\ p \in Progress /\ InStep(p, fmt) /\ p.c \in Nat /\ cursor \in Places
      /\ CharAt(fmt, p.c) = NUL
  BY <1>1, LineAt
<1>3. ASSUME NEW r \in Progress
      PROVE  LET s == Upd(r)
             IN  /\ s \in Progress /\ s.pc = "print" /\ s.c = r.c /\ s.start = r.start
                 /\ s.end = r.end /\ s.then = r.then /\ s.saved = r.saved
  BY DEF Progress, Steps
<1> HIDE DEF p, fmt, Upd
<1>4. /\ q \in Progress /\ q.pc = "print" /\ q.c = p.c /\ q.start = p.start
      /\ q.end = p.end /\ q.then = p.then /\ q.saved = p.saved
  BY <1>2, <1>3
<1> HIDE DEF q
<1>5. InStep(q, fmt)
  BY <1>1, <1>2, <1>4 DEF InStep
<1>6. p.pc \in Busy /\ q.pc \in Busy /\ ~Owes(p) /\ Drew(l)
  BY <1>1, <1>4 DEF Busy, Owes, Drew
<1> QED
  BY <1>1, <1>2, <1>4, <1>5, <1>6, LineGoesOn DEF p, fmt

\* %s, of a null string too.
LEMMA SwitchStringKeeps ==
    ASSUME ConsoleInv, NEW l \in Line, SwitchString(l)
    PROVE  ConsoleInv'
<1> DEFINE p == pr[l]
           fmt == call[l].fmt
           text == IF StringArgument = NullString THEN <<>> ELSE StringArgument
           off == IF StringArgument = NullString THEN <<65535, 65535>> ELSE cursor
           Upd(r, c, t, o) == [r EXCEPT !.pc = "draw", !.c = c, !.keep = TRUE, !.left = t,
                                        !.off = o, !.then = "buffer"]
           q == Upd(p, p.c + 1, text, off)
<1>1. /\ p.pc = "switch" /\ Char(l, p.c + 1) = "s" /\ Goes(l, q) /\ out' = out
      /\ cursor' = cursor /\ UNCHANGED <<inputs, program, call, colours, buffer>>
  BY DEF SwitchString, At
<1>2. /\ p \in Progress /\ InStep(p, fmt) /\ p.c \in Nat /\ cursor \in Places
      /\ Len(fmt) \in Nat /\ p.c + 1 < Len(fmt) /\ p.c + 1 \in Nat
  <2>1. p.c \in Nat /\ p.c + 1 \in Nat /\ Char(l, p.c + 1) # NUL
    BY <1>1, LineAt DEF NUL
  <2> QED
    BY <2>1, LineAt
<1>3. text \in Seq(Chars) /\ off \in Places
  <2>1. <<>> \in Seq(Chars) /\ StringArgument \in Seq(Chars)
    BY CharsAssumption
  <2>2. StringArgument = NullString => <<65535, 65535>> \in Places
    BY InWindow DEF Places
  <2> QED
    BY <1>2, <2>1, <2>2
<1>4. ASSUME NEW r \in Progress, NEW c \in Nat, NEW t \in Seq(Chars), NEW o \in Places
      PROVE  LET s == Upd(r, c, t, o)
             IN  /\ s \in Progress /\ s.pc = "draw" /\ s.c = c /\ s.start = r.start
                 /\ s.end = r.end /\ s.then = "buffer" /\ s.saved = r.saved
  BY DEF Progress, Steps, Places
<1> HIDE DEF p, fmt, Upd, text, off
<1>5. /\ q \in Progress /\ q.pc = "draw" /\ q.c = p.c + 1 /\ q.start = p.start
      /\ q.end = p.end /\ q.then = "buffer" /\ q.saved = p.saved
  BY <1>2, <1>3, <1>4
<1> HIDE DEF q
<1>6. InStep(q, fmt)
  BY <1>1, <1>2, <1>5 DEF InStep
<1>7. p.pc \in Busy /\ q.pc \in Busy /\ ~Owes(p) /\ Drew(l)
  BY <1>1, <1>5 DEF Busy, Owes, Drew
<1> QED
  BY <1>1, <1>2, <1>5, <1>6, <1>7, LineGoesOn DEF p, fmt

\* %c.
LEMMA SwitchCharKeeps ==
    ASSUME ConsoleInv, NEW l \in Line, SwitchChar(l)
    PROVE  ConsoleInv'
<1> DEFINE p == pr[l]
           fmt == call[l].fmt
           Upd(r, c) == [r EXCEPT !.pc = "buffer", !.c = c, !.keep = TRUE]
           q == Upd(p, p.c + 1)
<1>1. /\ p.pc = "switch" /\ Char(l, p.c + 1) = "c" /\ Goes(l, q)
      /\ out' = [out EXCEPT ![l] = Append(@, Glyph("c"))]
      /\ cursor' = Advance(cursor) /\ UNCHANGED <<inputs, program, call, colours, buffer>>
  BY DEF SwitchChar, At, WriteChar
<1>2. /\ p \in Progress /\ InStep(p, fmt) /\ p.c \in Nat /\ cursor' \in Places
      /\ Len(fmt) \in Nat /\ p.c + 1 < Len(fmt) /\ p.c + 1 \in Nat
  <2>1. p.c \in Nat /\ p.c + 1 \in Nat /\ Char(l, p.c + 1) # NUL /\ cursor \in Places
    BY <1>1, LineAt DEF NUL
  <2>2. cursor' \in Places
    BY <1>1, <2>1, AdvancePlace
  <2> QED
    BY <2>1, <2>2, LineAt
<1>3. ASSUME NEW r \in Progress, NEW c \in Nat
      PROVE  LET s == Upd(r, c)
             IN  /\ s \in Progress /\ s.pc = "buffer" /\ s.c = c /\ s.start = r.start
                 /\ s.end = r.end /\ s.then = r.then /\ s.saved = r.saved
  BY DEF Progress, Steps
<1> HIDE DEF p, fmt, Upd
<1>4. /\ q \in Progress /\ q.pc = "buffer" /\ q.c = p.c + 1 /\ q.start = p.start
      /\ q.end = p.end /\ q.then = p.then /\ q.saved = p.saved
  BY <1>2, <1>3
<1> HIDE DEF q
<1>5. InStep(q, fmt)
  BY <1>1, <1>2, <1>4 DEF InStep
<1>6. p.pc \in Busy /\ q.pc \in Busy /\ ~Owes(p) /\ Drew(l)
  BY <1>1, <1>4, CharsAssumption DEF Busy, Owes, Drew
<1> QED
  BY <1>1, <1>2, <1>4, <1>5, <1>6, LineGoesOn DEF p, fmt

\* A lone %: start and end step back to c.
LEMMA SwitchOtherKeeps ==
    ASSUME ConsoleInv, NEW l \in Line, SwitchOther(l)
    PROVE  ConsoleInv'
<1> DEFINE p == pr[l]
           fmt == call[l].fmt
           Upd(r, e) == [r EXCEPT !.pc = "buffer", !.keep = TRUE, !.end = e, !.start = e]
           q == Upd(p, p.end - 1)
<1>1. /\ p.pc = "switch" /\ Char(l, p.c) = "%" /\ Goes(l, q)
      /\ out' = [out EXCEPT ![l] = Append(@, Glyph("%"))]
      /\ cursor' = Advance(cursor) /\ UNCHANGED <<inputs, program, call, colours, buffer>>
  BY DEF SwitchOther, At, WriteChar, StepBack
<1>2. /\ p \in Progress /\ InStep(p, fmt) /\ p.c \in Nat /\ cursor' \in Places
      /\ Len(fmt) \in Nat /\ p.c < Len(fmt) /\ p.end \in Nat
  <2>1. p.c \in Nat /\ Char(l, p.c) # NUL /\ cursor \in Places
    BY <1>1, LineAt DEF NUL
  <2>2. cursor' \in Places
    BY <1>1, <2>1, AdvancePlace
  <2> QED
    BY <2>1, <2>2, LineAt
<1>3. p.end = p.c + 1
  BY <1>1, <1>2 DEF InStep
<1>4. ASSUME NEW r \in Progress, NEW e \in Nat
      PROVE  LET s == Upd(r, e)
             IN  /\ s \in Progress /\ s.pc = "buffer" /\ s.c = r.c /\ s.start = e
                 /\ s.end = e /\ s.then = r.then /\ s.saved = r.saved
  BY DEF Progress, Steps
<1>5. p.end - 1 \in Nat /\ p.end - 1 = p.c
  BY <1>2, <1>3
<1> HIDE DEF p, fmt, Upd
<1>6. /\ q \in Progress /\ q.pc = "buffer" /\ q.c = p.c /\ q.start = p.end - 1
      /\ q.end = p.end - 1 /\ q.then = p.then /\ q.saved = p.saved
  BY <1>2, <1>4, <1>5
<1> HIDE DEF q
<1>7. InStep(q, fmt)
  BY <1>1, <1>2, <1>5, <1>6 DEF InStep
<1>8. p.pc \in Busy /\ q.pc \in Busy /\ ~Owes(p) /\ Drew(l)
  BY <1>1, <1>6, CharsAssumption DEF Busy, Owes, Drew
<1> QED
  BY <1>1, <1>2, <1>6, <1>7, <1>8, LineGoesOn DEF p, fmt

\* The write of the conversion buffer begins.
LEMMA ShowBufferKeeps ==
    ASSUME ConsoleInv, NEW l \in Line, ShowBuffer(l)
    PROVE  ConsoleInv'
<1> DEFINE p == pr[l]
           fmt == call[l].fmt
           Upd(r, a, o) == [r EXCEPT !.pc = "show", !.at = a, !.off = o]
           q == Upd(p, p.ptr, cursor)
<1>1. /\ p.pc = "buffer" /\ Goes(l, q) /\ out' = out /\ cursor' = cursor
      /\ UNCHANGED <<inputs, program, call, colours, buffer>>
  BY DEF ShowBuffer, At
<1>2. p \in Progress /\ InStep(p, fmt) /\ cursor \in Places
  BY LineAt
<1>3. p.ptr \in -1 .. BufferLength
  BY <1>2, ProgressFields, Sizes
<1>4. ASSUME NEW r \in Progress, NEW a \in -1 .. BufferLength, NEW o \in Places
      PROVE  LET s == Upd(r, a, o)
             IN  /\ s \in Progress /\ s.pc = "show" /\ s.c = r.c /\ s.start = r.start
                 /\ s.end = r.end /\ s.then = r.then /\ s.saved = r.saved
  BY DEF Progress, Steps, Places
<1> HIDE DEF p, fmt, Upd
<1>5. /\ q \in Progress /\ q.pc = "show" /\ q.c = p.c /\ q.start = p.start
      /\ q.end = p.end /\ q.then = p.then /\ q.saved = p.saved
  BY <1>2, <1>3, <1>4
<1> HIDE DEF q
<1>6. InStep(q, fmt)
  BY <1>1, <1>2, <1>5 DEF InStep
<1>7. p.pc \in Busy /\ q.pc \in Busy /\ ~Owes(p) /\ Drew(l)
  BY <1>1, <1>5 DEF Busy, Owes, Drew
<1> QED
  BY <1>1, <1>2, <1>5, <1>6, <1>7, LineGoesOn DEF p, fmt

\* One glyph from the buffer, never from before its first character or past its last.
LEMMA ShowKeeps ==
    ASSUME ConsoleInv, NEW l \in Line, Show(l)
    PROVE  ConsoleInv'
<1> DEFINE p == pr[l]
           fmt == call[l].fmt
           ch == Found(l)
           Upd(r, a, o) == [r EXCEPT !.at = a, !.off = o]
           q == Upd(p, p.at - 1, Within(Advance(p.off)))
<1>1. /\ p.pc = "show" /\ ch # NUL /\ Goes(l, q)
      /\ out' = [out EXCEPT ![l] = Append(@, Glyph(ch))]
      /\ cursor' = cursor /\ UNCHANGED <<inputs, program, call, colours, buffer>>
  BY DEF Show, At
<1>2. p \in Progress /\ InStep(p, fmt) /\ cursor \in Places /\ p.off \in Places
  BY LineAt
<1>3. Within(Advance(p.off)) \in Places
  BY <1>2, GlyphPlace
<1>4. p.at - 1 \in -1 .. BufferLength /\ ch \in Chars
  <2>1. p.at \in -1 .. BufferLength /\ ~(p.at < 0) /\ ch = buffer[p.at]
    BY <1>1, <1>2, ProgressFields DEF Found
  <2>2. p.at \in 0 .. BufferLength /\ p.at - 1 \in -1 .. BufferLength
    BY <2>1, Sizes
  <2>3. buffer \in [0 .. BufferLength -> Chars]
    BY DEF ConsoleInv, TypesInv
  <2> QED
    BY <2>1, <2>2, <2>3
<1>5. ASSUME NEW r \in Progress, NEW a \in -1 .. BufferLength, NEW o \in Places
      PROVE  LET s == Upd(r, a, o)
             IN  /\ s \in Progress /\ s.pc = r.pc /\ s.c = r.c /\ s.start = r.start
                 /\ s.end = r.end /\ s.then = r.then /\ s.saved = r.saved /\ s.off = o
                 /\ s.keep = r.keep /\ s.ptr = r.ptr
  BY DEF Progress, Places
<1> HIDE DEF p, fmt, Upd, ch
<1>6. /\ q \in Progress /\ q.pc = p.pc /\ q.c = p.c /\ q.start = p.start
      /\ q.end = p.end /\ q.then = p.then /\ q.saved = p.saved /\ q.off = Within(Advance(p.off))
      /\ q.keep = p.keep /\ q.ptr = p.ptr
  BY <1>2, <1>3, <1>4, <1>5
<1> HIDE DEF q
<1>7. InStep(q, fmt)
  BY <1>2, <1>6, SamePlace
<1>8. p.pc \in Busy /\ q.pc \in Busy /\ (Owes(p) => Owes(q) /\ q.ptr = p.ptr) /\ Drew(l)
  BY <1>1, <1>4, <1>6 DEF Busy, Owes, Drew
<1>9. ConsoleInv'
  BY <1>1, <1>2, <1>6, <1>7, <1>8, LineGoesOn DEF p, fmt
<1>10. pr'[l] = q
  BY <1>1 DEF Goes, ConsoleInv, TypesInv
<1> QED
  BY <1>3, <1>6, <1>9, <1>10

\* The buffer's text is over: a number has still to be cleared.
LEMMA ShownKeeps ==
    ASSUME ConsoleInv, NEW l \in Line, Shown(l)
    PROVE  ConsoleInv'
<1> DEFINE p == pr[l]
           fmt == call[l].fmt
           pc == IF p.keep THEN "print" ELSE "clean"
           Upd(r, n, c, e) == [r EXCEPT !.pc = n, !.c = c, !.end = e, !.start = e]
           Has(s, r, n, c, e) == /\ s \in Progress /\ s.pc = n /\ s.c = c /\ s.start = e
                                 /\ s.end = e /\ s.then = r.then /\ s.saved = r.saved
                                 /\ s.keep = r.keep /\ s.ptr = r.ptr
           q == Upd(p, pc, p.c + 1, p.end + 1)
<1>1. /\ p.pc = "show" /\ Goes(l, q) /\ out' = out /\ cursor' = p.off
      /\ UNCHANGED <<inputs, program, call, colours, buffer>>
  BY DEF Shown, At
<1>2. /\ p \in Progress /\ InStep(p, fmt) /\ p.off \in Places /\ p.c \in Nat /\ p.end \in Nat
      /\ Len(fmt) \in Nat /\ p.c + 1 \in Nat /\ p.end + 1 \in Nat
  BY LineAt
<1>3. pc \in Steps /\ pc \in {"print", "clean"} /\ (~p.keep => pc = "clean")
  BY DEF Steps
<1>4. ASSUME NEW r \in Progress, NEW n \in Steps, NEW c \in Nat, NEW e \in Nat
      PROVE  Has(Upd(r, n, c, e), r, n, c, e)
  BY DEF Progress
<1> HIDE DEF p, fmt, Upd, pc
<1>5. /\ q \in Progress /\ q.pc = pc /\ q.c = p.c + 1 /\ q.start = p.end + 1
      /\ q.end = p.end + 1 /\ q.then = p.then /\ q.saved = p.saved
      /\ q.keep = p.keep /\ q.ptr = p.ptr
  <2>1. p \in Progress /\ pc \in Steps /\ p.c + 1 \in Nat /\ p.end + 1 \in Nat
    BY <1>2, <1>3
  <2>2. Has(q, p, pc, p.c + 1, p.end + 1)
    <3> HIDE DEF Has
    <3> QED
      BY <2>1, <1>4
  <2> QED
    BY <2>2
<1> HIDE DEF q
<1>6. InStep(q, fmt)
  <2>1. p.c < Len(fmt) /\ p.end = p.c /\ Len(fmt) \in Nat /\ p.c \in Nat
    BY <1>1, <1>2 DEF InStep
  <2>2. q.pc \in {"print", "clean"} /\ q.c = p.c + 1 /\ q.start = p.c + 1 /\ q.end = p.c + 1
    BY <1>3, <1>5, <2>1
  <2> QED
    BY <2>1, <2>2 DEF InStep
<1>7. p.pc \in Busy /\ q.pc \in Busy /\ (Owes(p) => Owes(q) /\ q.ptr = p.ptr) /\ Drew(l)
  BY <1>1, <1>3, <1>5 DEF Busy, Owes, Drew
<1> QED
  BY <1>1, <1>2, <1>5, <1>6, <1>7, LineGoesOn DEF p, fmt

\* One character of puts.
LEMMA PutsKeeps ==
    ASSUME ConsoleInv, NEW l \in Line, Puts(l)
    PROVE  ConsoleInv'
<1> DEFINE p == pr[l]
           fmt == call[l].fmt
           ch == IF Char(l, p.c) = "nl" THEN Blank ELSE Char(l, p.c)
           Upd(r, c) == [r EXCEPT !.c = c]
           q == Upd(p, p.c + 1)
<1>1. /\ p.pc = "puts" /\ Char(l, p.c) # NUL /\ Goes(l, q)
      /\ out' = [out EXCEPT ![l] = Append(@, Glyph(ch))]
      /\ cursor' = Advance(cursor) /\ UNCHANGED <<inputs, program, call, colours, buffer>>
  BY Zenon DEF Puts, At, WriteChar
<1>2. /\ p \in Progress /\ InStep(p, fmt) /\ p.c \in Nat /\ cursor' \in Places
      /\ Len(fmt) \in Nat /\ p.c < Len(fmt) /\ p.c + 1 \in Nat /\ ch \in Chars
  <2>1. p.c \in Nat /\ cursor \in Places /\ Blank \in Chars
    BY LineAt, CharsAssumption
  <2>2. cursor' \in Places
    BY <1>1, <2>1, AdvancePlace
  <2> QED
    BY <1>1, <2>1, <2>2, LineAt
<1>3. ASSUME NEW r \in Progress, NEW c \in Nat
      PROVE  LET s == Upd(r, c)
             IN  /\ s \in Progress /\ s.pc = r.pc /\ s.c = c /\ s.start = r.start
                 /\ s.end = r.end /\ s.then = r.then /\ s.saved = r.saved
  BY DEF Progress
<1> HIDE DEF p, fmt, Upd, ch
<1>4. /\ q \in Progress /\ q.pc = "puts" /\ q.c = p.c + 1 /\ q.start = p.start
      /\ q.end = p.end /\ q.then = p.then /\ q.saved = p.saved
  BY <1>1, <1>2, <1>3
<1> HIDE DEF q
<1>5. InStep(q, fmt)
  BY <1>1, <1>2, <1>4 DEF InStep
<1>6. ~Owes(p) /\ Drew(l)
  BY <1>1, <1>2 DEF Owes, Drew
<1> QED
  BY <1>1, <1>2, <1>4, <1>5, <1>6, LineGoesOn DEF p, fmt

\* puts is over.
LEMMA PutsOverKeeps ==
    ASSUME ConsoleInv, NEW l \in Line, PutsOver(l)
    PROVE  ConsoleInv'
<1>1. pr[l].pc = "puts" /\ Goes(l, Over(l)) /\ cursor' = cursor
      /\ UNCHANGED <<inputs, program, call, colours, buffer, out>>
  BY DEF PutsOver, At
<1>2. pr[l].pc \in Single /\ ~call[l].coloured /\ cursor \in Places /\ format_align_pad \in Alignments
  BY <1>1, LineAt DEF ConsoleInv, ColoursInv, TypesInv, Single
<1> QED
  BY <1>1, <1>2, CallOver DEF inputs

\* putln.
LEMMA PutlnKeeps ==
    ASSUME ConsoleInv, NEW l \in Line, Putln(l)
    PROVE  ConsoleInv'
<1>1. pr[l].pc = "putln" /\ Goes(l, Over(l)) /\ cursor' = Newline(cursor)
      /\ UNCHANGED <<inputs, program, call, colours, buffer, out>>
  BY DEF Putln, At
<1>2. pr[l].pc \in Single /\ ~call[l].coloured /\ cursor \in Places /\ format_align_pad \in Alignments
  BY <1>1, LineAt DEF ConsoleInv, ColoursInv, TypesInv, Single
<1>3. cursor' \in Places
  BY <1>1, <1>2, NewlinePlace
<1> QED
  BY <1>1, <1>2, <1>3, CallOver DEF inputs

\* consoleClear.
LEMMA consoleClearKeeps ==
    ASSUME ConsoleInv, NEW l \in Line, consoleClear(l)
    PROVE  ConsoleInv'
<1>1. pr[l].pc = "clear" /\ Goes(l, Over(l)) /\ cursor' = <<0, 0>>
      /\ UNCHANGED <<inputs, program, call, colours, buffer, out>>
  BY DEF consoleClear, At
<1>2. pr[l].pc \in Single /\ ~call[l].coloured /\ format_align_pad \in Alignments
  BY <1>1 DEF ConsoleInv, ColoursInv, TypesInv, Single
<1>3. cursor' \in Places
  BY <1>1, TopPlace
<1> QED
  BY <1>1, <1>2, <1>3, CallOver DEF inputs

\* printk_align_format: the alignment is one of those in use.
LEMMA printk_align_formatKeeps ==
    ASSUME ConsoleInv, NEW l \in Line, printk_align_format(l)
    PROVE  ConsoleInv'
<1>1. pr[l].pc = "align" /\ Goes(l, Over(l)) /\ cursor' = cursor
      /\ format_align_pad' = Len(call[l].fmt)
      /\ UNCHANGED <<argument, program, call, colours, buffer, out>>
  BY DEF printk_align_format, At
<1>2. /\ pr[l].pc \in Single /\ ~call[l].coloured /\ call[l].kind = "align"
      /\ cursor \in Places
  BY <1>1, LineAt DEF ConsoleInv, ColoursInv, Single
<1>3. call[l] \in Call
  BY LineTypes DEF ConsoleInv
<1>4. format_align_pad' \in Alignments
  BY <1>1, <1>2, <1>3 DEF Call
<1> QED
  BY <1>1, <1>2, <1>4, CallOver

\* print_internal is over: a printkcol has still to put the colours back.
LEMMA FinishKeeps ==
    ASSUME ConsoleInv, NEW l \in Line, Finish(l)
    PROVE  ConsoleInv'
<1>1. /\ pr[l].pc = "print" /\ Goes(l, PrintOver(l)) /\ cursor' = cursor
      /\ UNCHANGED <<argument, format_align_pad, program, call, colours, buffer, out>>
  BY DEF Finish, At, inputs
<1>2. /\ TypesInv /\ PlacesInv /\ BufferInv /\ ColoursInv
      /\ cursor \in Places /\ format_align_pad \in Alignments
  BY LineAt DEF ConsoleInv, TypesInv
<1>3. CASE ~call[l].coloured
  <2>1. Goes(l, Over(l))
    BY <1>1, <1>3 DEF PrintOver
  <2> QED
    BY <1>1, <1>2, <1>3, <2>1, CallOver
<1>4. CASE call[l].coloured
  <2> DEFINE p == pr[l]
             fmt == call[l].fmt
             q == [p EXCEPT !.pc = "restore"]
  <2>1. pr' = [pr EXCEPT ![l] = q]
    BY <1>1, <1>4 DEF PrintOver, Goes
  <2>2. p \in Progress /\ InStep(p, fmt)
    BY LineAt
  <2>3. ASSUME NEW r \in Progress
        PROVE  LET s == [r EXCEPT !.pc = "restore"]
               IN  /\ s \in Progress /\ s.pc = "restore" /\ s.c = r.c /\ s.start = r.start
                   /\ s.end = r.end /\ s.saved = r.saved
    BY DEF Progress, Steps
  <2>4. /\ q \in Progress /\ q.pc = "restore" /\ q.c = p.c /\ q.start = p.start
        /\ q.end = p.end /\ q.saved = p.saved
    BY <2>2, <2>3
  <2> HIDE DEF q
  <2>5. InStep(q, fmt) /\ ~Owes(p)
    BY <1>1, <2>2, <2>4 DEF InStep, Owes
  <2>6. colours \in Palettes /\ buffer \in Buffers /\ out \in [Line -> Drawings]
    BY <1>2 DEF TypesInv, Buffers, Drawings
  <2>7. TypesInv' /\ PlacesInv'
    BY <1>1, <1>2, <2>1, <2>4, <2>5, <2>6, TypesStep
  <2>8. BufferInv'
    BY <1>1, <1>2, <2>1, <2>5, BufferStep
  <2>9. l = "main" /\ pr'["main"] = q /\ pr'["irq"] = pr["irq"]
    BY <1>2, <1>4, <2>1 DEF ColoursInv, Line, TypesInv
  <2>10. ColoursInv'
    BY <1>1, <1>2, <1>4, <2>4, <2>9 DEF ColoursInv, ColoursAsAsked, ColoursAt, Colouring, Line, Single
  <2> QED
    BY <2>7, <2>8, <2>10 DEF ConsoleInv
<1> QED
  BY <1>3, <1>4

\* A printkcol of the main line goes on to q, with the colours of that place.
LEMMA ColoursChange ==
    ASSUME ConsoleInv, NEW l \in Line, NEW q \in Progress, InStep(q, call[l].fmt),
           pr[l].pc \in Colouring, pr' = [pr EXCEPT ![l] = q], q.pc \notin Single,
           UNCHANGED <<argument, format_align_pad, program, call, cursor, buffer, out>>,
           colours' = ColoursAt(q, call[l]), colours' \in Palettes,
           q.pc \in {"idle", "over"} \/ q.saved = Plain,
           q.pc = "colour text" => pr[l].pc = "colour", q.pc # "colour"
    PROVE  ConsoleInv'
<1>1. /\ TypesInv /\ PlacesInv /\ BufferInv /\ ColoursInv
      /\ cursor \in Places /\ format_align_pad \in Alignments
  BY LineAt DEF ConsoleInv, TypesInv
<1>2. buffer \in Buffers /\ out \in [Line -> Drawings]
  BY <1>1 DEF TypesInv, Buffers, Drawings
<1>3. TypesInv' /\ PlacesInv'
  BY <1>1, <1>2, TypesStep
<1>4. BufferInv'
  <2>1. ~Owes(pr[l])
    BY DEF Owes, Colouring
  <2> QED
    BY <1>1, <2>1, BufferStep
<1>5. l = "main" /\ pr'["main"] = q /\ pr'["irq"] = pr["irq"] /\ call["main"].coloured
  BY <1>1 DEF ColoursInv, Line, TypesInv
<1>6. /\ q.pc = "colour text" => out["main"] = <<>>
      /\ q.pc \in {"idle", "over"} => colours' = Plain
  BY <1>1, <1>5 DEF ColoursInv, ColoursAt
<1>7. ColoursInv'
  BY <1>1, <1>5, <1>6 DEF ColoursInv, ColoursAsAsked, Line
<1> QED
  BY <1>3, <1>4, <1>7 DEF ConsoleInv

\* What is known where a printkcol sets its colours or puts them back.
LEMMA ColoursHere ==
    ASSUME ConsoleInv, NEW l \in Line, pr[l].pc \in Colouring
    PROVE  /\ l = "main" /\ call[l].coloured /\ colours = ColoursAt(pr[l], call[l])
           /\ pr[l].pc # "colour" => pr[l].saved = Plain
           /\ call[l].colours \in Palettes /\ colours \in Palettes
BY LineTypes DEF ConsoleInv, ColoursInv, Colouring, Line, TypesInv

\* printkcol takes the console's own colours for the saved ones, and sets its own.
LEMMA SetBackColourKeeps ==
    ASSUME ConsoleInv, NEW l \in Line, SetBackColour(l)
    PROVE  ConsoleInv'
<1> DEFINE p == pr[l]
           fmt == call[l].fmt
           Upd(r, c) == [r EXCEPT !.pc = "colour text", !.saved = c]
           q == Upd(p, colours)
<1>1. /\ p.pc = "colour" /\ pr' = [pr EXCEPT ![l] = q]
      /\ colours' = [colours EXCEPT !.back = call[l].colours.back]
      /\ UNCHANGED <<argument, format_align_pad, program, call, cursor, buffer, out>>
  BY DEF SetBackColour, At, inputs, Goes
<1>2. /\ p \in Progress /\ InStep(p, fmt) /\ colours = Plain /\ colours \in Palettes
      /\ call[l].coloured /\ colours' \in Palettes
  BY <1>1, LineAt, ColoursHere, PlainIs, PalettesIs DEF Colouring, ColoursAt
<1>3. ASSUME NEW r \in Progress, NEW c \in Palettes
      PROVE  LET s == Upd(r, c)
             IN  /\ s \in Progress /\ s.pc = "colour text" /\ s.c = r.c /\ s.start = r.start
                 /\ s.end = r.end /\ s.saved = c
  BY DEF Progress, Steps
<1> HIDE DEF Upd
<1>4. /\ q \in Progress /\ q.pc = "colour text" /\ q.c = p.c /\ q.start = p.start
      /\ q.end = p.end /\ q.saved = Plain
  BY <1>2, <1>3
<1> HIDE DEF q
<1>5. InStep(q, fmt)
  BY <1>1, <1>2, <1>4 DEF InStep
<1>6. colours' = ColoursAt(q, call[l])
  BY <1>1, <1>2, <1>4 DEF ColoursAt
<1> QED
  BY <1>1, <1>2, <1>4, <1>5, <1>6, ColoursChange DEF Colouring, Single

\* The second of them.
LEMMA SetTextColourKeeps ==
    ASSUME ConsoleInv, NEW l \in Line, SetTextColour(l)
    PROVE  ConsoleInv'
<1> DEFINE p == pr[l]
           fmt == call[l].fmt
           Upd(r) == [r EXCEPT !.pc = "print"]
           q == Upd(p)
<1>1. /\ p.pc = "colour text" /\ pr' = [pr EXCEPT ![l] = q]
      /\ colours' = [colours EXCEPT !.text = call[l].colours.text]
      /\ UNCHANGED <<argument, format_align_pad, program, call, cursor, buffer, out>>
  BY DEF SetTextColour, At, inputs, Goes
<1>2. /\ p \in Progress /\ InStep(p, fmt) /\ colours = [Plain EXCEPT !.back = call[l].colours.back]
      /\ call[l].coloured /\ call[l].colours \in Palettes /\ p.saved = Plain
  BY <1>1, LineAt, ColoursHere DEF Colouring, ColoursAt
<1>3. colours' = call[l].colours
  BY <1>1, <1>2, PlainIs, PalettesIs
<1>4. ASSUME NEW r \in Progress
      PROVE  LET s == Upd(r)
             IN  /\ s \in Progress /\ s.pc = "print" /\ s.c = r.c /\ s.start = r.start
                 /\ s.end = r.end /\ s.saved = r.saved
  BY DEF Progress, Steps
<1> HIDE DEF Upd
<1>5. /\ q \in Progress /\ q.pc = "print" /\ q.c = p.c /\ q.start = p.start
      /\ q.end = p.end /\ q.saved = Plain
  BY <1>2, <1>4
<1> HIDE DEF q
<1>6. InStep(q, fmt)
  BY <1>1, <1>2, <1>5 DEF InStep
<1>7. colours' = ColoursAt(q, call[l])
  BY <1>2, <1>3, <1>5 DEF ColoursAt
<1> QED
  BY <1>1, <1>2, <1>3, <1>5, <1>6, <1>7, ColoursChange DEF Colouring, Single

\* printkcol puts the console's own colours back.
LEMMA RestoreBackColourKeeps ==
    ASSUME ConsoleInv, NEW l \in Line, RestoreBackColour(l)
    PROVE  ConsoleInv'
<1> DEFINE p == pr[l]
           fmt == call[l].fmt
           Upd(r) == [r EXCEPT !.pc = "restore text"]
           q == Upd(p)
<1>1. /\ p.pc = "restore" /\ pr' = [pr EXCEPT ![l] = q]
      /\ colours' = [colours EXCEPT !.back = p.saved.back]
      /\ UNCHANGED <<argument, format_align_pad, program, call, cursor, buffer, out>>
  BY DEF RestoreBackColour, At, inputs, Goes, Restored
<1>2. /\ p \in Progress /\ InStep(p, fmt) /\ colours = call[l].colours
      /\ call[l].coloured /\ call[l].colours \in Palettes /\ p.saved = Plain
  BY <1>1, LineAt, ColoursHere DEF Colouring, ColoursAt
<1>3. colours' = [Plain EXCEPT !.text = call[l].colours.text] /\ colours' \in Palettes
  <2>1. \A c \in Palettes : [c EXCEPT !.back = Plain.back] = [Plain EXCEPT !.text = c.text]
    BY DEF Palettes, Plain
  <2> QED
    BY <1>1, <1>2, <2>1, PlainIs, PalettesIs
<1>4. ASSUME NEW r \in Progress
      PROVE  LET s == Upd(r)
             IN  /\ s \in Progress /\ s.pc = "restore text" /\ s.c = r.c /\ s.start = r.start
                 /\ s.end = r.end /\ s.saved = r.saved
  BY DEF Progress, Steps
<1> HIDE DEF Upd
<1>5. /\ q \in Progress /\ q.pc = "restore text" /\ q.c = p.c /\ q.start = p.start
      /\ q.end = p.end /\ q.saved = Plain
  BY <1>2, <1>4
<1> HIDE DEF q
<1>6. InStep(q, fmt)
  BY <1>1, <1>2, <1>5 DEF InStep
<1>7. colours' = ColoursAt(q, call[l])
  BY <1>2, <1>3, <1>5 DEF ColoursAt
<1> QED
  BY <1>1, <1>2, <1>3, <1>5, <1>6, <1>7, ColoursChange DEF Colouring, Single

\* And with the second of them its call is over.
LEMMA RestoreTextColourKeeps ==
    ASSUME ConsoleInv, NEW l \in Line, RestoreTextColour(l)
    PROVE  ConsoleInv'
<1> DEFINE p == pr[l]
           fmt == call[l].fmt
           q == Over(l)
<1>1. /\ p.pc = "restore text" /\ pr' = [pr EXCEPT ![l] = q]
      /\ colours' = [colours EXCEPT !.text = p.saved.text]
      /\ UNCHANGED <<argument, format_align_pad, program, call, cursor, buffer, out>>
  BY DEF RestoreTextColour, At, inputs, Goes, Restored
<1>2. /\ fmt \in Seq(Chars) /\ colours = [Plain EXCEPT !.text = call[l].colours.text] /\ l = "main"
      /\ call[l].coloured /\ call[l].colours \in Palettes /\ p.saved = Plain
  BY <1>1, LineAt, ColoursHere DEF Colouring, ColoursAt
<1>3. colours' = Plain /\ colours' \in Palettes
  <2>1. \A c \in Palettes : [[Plain EXCEPT !.text = c.text] EXCEPT !.text = Plain.text] = Plain
    BY DEF Palettes, Plain
  <2> QED
    BY <1>1, <1>2, <2>1, PlainIs, PalettesIs
<1>4. q \in Progress /\ q.pc = "over" /\ q.c = 0 /\ q.start = 0 /\ q.end = 0
  <2>1. "over" \in Steps /\ q = [Idle EXCEPT !.pc = "over"]
    BY <1>2 DEF Steps, Over
  <2> HIDE DEF q
  <2> QED
    BY <2>1, IdleProgress
<1> HIDE DEF q
<1>5. InStep(q, fmt)
  BY <1>2, <1>4, AtStart
<1>6. colours' = ColoursAt(q, call[l])
  BY <1>3, <1>4 DEF ColoursAt
<1> QED
  BY <1>1, <1>3, <1>4, <1>5, <1>6, ColoursChange DEF Colouring, Single

\* The text of a number, where a line has come to its specifier.
LEMMA ConversionIs ==
    ASSUME ConsoleInv, NEW l \in Line, Char(l, pr[l].c) \in Numeric
    PROVE  /\ Conversion(l) \in Seq(Chars) /\ Len(Conversion(l)) \in 0 .. BufferLength
           /\ \A i \in 1 .. Len(Conversion(l)) : Conversion(l)[i] \in Chars /\ Conversion(l)[i] # NUL
<1> DEFINE text == Conversion(l)
<1>1. Number(l) \in Word /\ format_align_pad \in Alignments
  <2>1. argument \in Word /\ Gate \in Word /\ format_align_pad \in Alignments
    BY SizesAssumption DEF ConsoleInv, TypesInv
  <2> QED
    BY <2>1 DEF Number
<1>2. text = Formatted(Number(l), format_align_pad, Char(l, pr[l].c))
  BY DEF Conversion, Text
<1> HIDE DEF text
<1>3. text \in Seq(Chars \ {NUL}) /\ Len(text) <= BufferLength
  BY <1>1, <1>2, BufferAssumption
<1>4. text \in Seq(Chars) /\ Len(text) \in Nat
      /\ \A i \in 1 .. Len(text) : text[i] \in Chars /\ text[i] # NUL
  BY <1>3, CString
<1>5. Len(text) \in 0 .. BufferLength
  BY <1>3, <1>4, Sizes
<1> QED
  BY <1>4, <1>5 DEF text

\* A numeric specifier is met, and nothing is converted yet.
LEMMA SwitchNumberKeeps ==
    ASSUME ConsoleInv, NEW l \in Line, SwitchNumber(l)
    PROVE  ConsoleInv'
<1> DEFINE p == pr[l]
           fmt == call[l].fmt
           Upd(r, c) == [r EXCEPT !.pc = "convert", !.c = c, !.ptr = 0]
           q == Upd(p, p.c + 1)
<1>1. /\ p.pc = "switch" /\ Char(l, p.c + 1) \in Numeric /\ Goes(l, q) /\ out' = out
      /\ cursor' = cursor /\ UNCHANGED <<inputs, program, call, colours, buffer>>
  BY DEF SwitchNumber, At
<1>2. /\ p \in Progress /\ InStep(p, fmt) /\ p.c \in Nat /\ Len(fmt) \in Nat
      /\ p.c + 1 < Len(fmt) /\ p.c + 1 \in Nat /\ cursor \in Places
      /\ CharAt(fmt, p.c + 1) \in Numeric
  <2>1. p.c \in Nat /\ p.c + 1 \in Nat /\ Char(l, p.c + 1) # NUL
    BY <1>1, LineAt DEF NUL, Numeric
  <2> QED
    BY <1>1, <2>1, LineAt DEF Char
<1>3. ASSUME NEW r \in Progress, NEW c \in Nat
      PROVE  LET s == Upd(r, c)
             IN  /\ s \in Progress /\ s.pc = "convert" /\ s.c = c /\ s.start = r.start
                 /\ s.end = r.end /\ s.then = r.then /\ s.saved = r.saved /\ s.keep = r.keep
  <2>1. 0 \in 0 .. BufferLength
    BY Sizes
  <2> QED
    BY <2>1 DEF Progress, Steps
<1> HIDE DEF p, fmt, Upd
<1>4. /\ q \in Progress /\ q.pc = "convert" /\ q.c = p.c + 1 /\ q.start = p.start
      /\ q.end = p.end /\ q.then = p.then /\ q.saved = p.saved /\ q.keep = p.keep
  BY <1>2, <1>3
<1> HIDE DEF q
<1>5. InStep(q, fmt)
  BY <1>1, <1>2, <1>4 DEF InStep
<1>6. p.pc \in Busy /\ q.pc \in Busy /\ ~Owes(p) /\ Drew(l)
  BY <1>1, <1>4 DEF Busy, Owes, Drew
<1> QED
  BY <1>1, <1>2, <1>4, <1>5, <1>6, LineGoesOn DEF p, fmt

\* The number is converted, and its write begins.
LEMMA ConvertedKeeps ==
    ASSUME ConsoleInv, NEW l \in Line, Converted(l)
    PROVE  ConsoleInv'
<1> DEFINE p == pr[l]
           fmt == call[l].fmt
           Upd(r, a, o) == [r EXCEPT !.pc = "show", !.at = a, !.off = o]
           q == Upd(p, p.ptr, cursor)
<1>1. /\ p.pc = "convert" /\ Goes(l, q) /\ out' = out
      /\ cursor' = cursor /\ UNCHANGED <<inputs, program, call, colours, buffer>>
  BY DEF Converted, At, AfterConversion
<1>2. p \in Progress /\ InStep(p, fmt) /\ cursor \in Places /\ p.ptr \in -1 .. BufferLength
  <2>1. p \in Progress /\ InStep(p, fmt) /\ cursor \in Places
    BY LineAt
  <2>2. p.ptr \in 0 .. BufferLength
    BY <2>1, ProgressFields
  <2> QED
    BY <2>1, <2>2, Sizes
<1>3. ASSUME NEW r \in Progress, NEW a \in -1 .. BufferLength, NEW o \in Places
      PROVE  LET s == Upd(r, a, o)
             IN  /\ s \in Progress /\ s.pc = "show" /\ s.c = r.c /\ s.start = r.start
                 /\ s.end = r.end /\ s.then = r.then /\ s.saved = r.saved
                 /\ s.keep = r.keep /\ s.ptr = r.ptr
  BY DEF Progress, Steps, Places
<1> HIDE DEF p, fmt, Upd
<1>4. /\ q \in Progress /\ q.pc = "show" /\ q.c = p.c /\ q.start = p.start
      /\ q.end = p.end /\ q.then = p.then /\ q.saved = p.saved
      /\ q.keep = p.keep /\ q.ptr = p.ptr
  BY <1>2, <1>3
<1> HIDE DEF q
<1>5. InStep(q, fmt)
  BY <1>1, <1>2, <1>4 DEF InStep
<1>6. p.pc \in Busy /\ q.pc \in Busy /\ (Owes(p) => Owes(q) /\ q.ptr = p.ptr) /\ Drew(l)
  BY <1>1, <1>4 DEF Busy, Owes, Drew
<1> QED
  BY <1>1, <1>2, <1>4, <1>5, <1>6, LineGoesOn DEF p, fmt

\* One character of a number: what the line finds in the buffer, the other line has to clear.
LEMMA ConvertKeeps ==
    ASSUME ConsoleInv, NEW l \in Line, Convert(l)
    PROVE  ConsoleInv'
<1> DEFINE p == pr[l]
           fmt == call[l].fmt
           text == Conversion(l)
           size == Len(text)
           Upd(r, n) == [r EXCEPT !.ptr = n]
           q == Upd(p, p.ptr + 1)
<1>1. /\ p.pc = "convert" /\ p.ptr < size /\ pr' = [pr EXCEPT ![l] = q] /\ cursor' = cursor
      /\ buffer' = [k \in DOMAIN buffer |-> IF k = p.ptr + 1 THEN text[size + 1 - k] ELSE buffer[k]]
      /\ UNCHANGED <<argument, format_align_pad, program, call, colours, out>>
  BY DEF Convert, At, inputs, Goes
<1>2. /\ TypesInv /\ PlacesInv /\ BufferInv /\ ColoursInv
      /\ cursor \in Places /\ format_align_pad \in Alignments
  BY LineAt DEF ConsoleInv, TypesInv
<1>3. /\ p \in Progress /\ InStep(p, fmt) /\ p.ptr \in 0 .. BufferLength
  <2>1. p \in Progress /\ InStep(p, fmt)
    BY LineAt
  <2> QED
    BY <2>1, ProgressFields
<1>0. ~p.keep /\ Char(l, p.c) \in Numeric
  BY <1>1, <1>3 DEF InStep, Char
<1>4. text \in Seq(Chars) /\ size \in 0 .. BufferLength /\ \A i \in 1 .. size : text[i] \in Chars
  BY <1>0, ConversionIs
<1> HIDE DEF text
<1>5. /\ p.ptr + 1 \in 0 .. BufferLength /\ p.ptr \in Nat
      /\ size + 1 - (p.ptr + 1) \in 1 .. size
  <2>1. ASSUME NEW i \in 0 .. BufferLength, NEW n \in 0 .. BufferLength, i < n
        PROVE  i + 1 \in 0 .. BufferLength /\ i \in Nat /\ n + 1 - (i + 1) \in 1 .. n
    BY <2>1, Sizes
  <2> HIDE DEF p, size
  <2> QED
    BY <1>1, <1>3, <1>4, <2>1
<1>6. ASSUME NEW r \in Progress, NEW n \in 0 .. BufferLength
      PROVE  LET s == Upd(r, n)
             IN  /\ s \in Progress /\ s.pc = r.pc /\ s.c = r.c /\ s.start = r.start
                 /\ s.end = r.end /\ s.then = r.then /\ s.saved = r.saved /\ s.ptr = n
                 /\ s.keep = r.keep
  BY DEF Progress
<1> HIDE DEF p, fmt, size, Upd
<1>7. /\ q \in Progress /\ q.pc = "convert" /\ q.c = p.c /\ q.start = p.start
      /\ q.end = p.end /\ q.then = p.then /\ q.saved = p.saved /\ q.ptr = p.ptr + 1
      /\ q.keep = p.keep
  BY <1>1, <1>3, <1>5, <1>6
<1> HIDE DEF q
<1>8. InStep(q, fmt) /\ Owes(q)
  <2>1. ~q.keep
    BY <1>0, <1>7
  <2> QED
    BY <1>1, <1>3, <1>7, <2>1 DEF InStep, Owes
<1>9. /\ buffer \in Buffers /\ buffer' \in Buffers
      /\ \A k \in 0 .. BufferLength : k = p.ptr + 1 \/ buffer'[k] = buffer[k]
  <2>1. buffer \in [0 .. BufferLength -> Chars]
    BY <1>2 DEF TypesInv
  <2>2. buffer' = [k \in 0 .. BufferLength |-> IF k = p.ptr + 1 THEN text[size + 1 - k]
                                               ELSE buffer[k]]
    BY <1>1, <2>1
  <2>3. text[size + 1 - (p.ptr + 1)] \in Chars
    BY <1>4, <1>5
  <2> QED
    BY <2>1, <2>2, <2>3 DEF Buffers
<1>10. colours \in Palettes /\ out \in [Line -> Drawings]
  BY <1>2 DEF TypesInv, Drawings
<1>11. TypesInv' /\ PlacesInv'
  BY <1>1, <1>2, <1>7, <1>8, <1>9, <1>10, TypesStep DEF fmt
<1>12. pr'[l] = q /\ \A m \in Line \ {l} : pr'[m] = pr[m]
  BY <1>1, <1>2 DEF TypesInv
<1>13. BufferInv'
  <2>1. ASSUME NEW k \in 0 .. BufferLength, buffer'[k] # NUL
        PROVE  \E m \in Line : Owes(pr'[m]) /\ k <= pr'[m].ptr
    <3>1. CASE k = p.ptr + 1
      BY <1>5, <1>7, <1>8, <1>12, <3>1
    <3>2. CASE buffer'[k] = buffer[k]
      <4>1. PICK m \in Line : Owes(pr[m]) /\ k <= pr[m].ptr
        BY <1>2, <2>1, <3>2 DEF BufferInv
      <4>2. CASE m # l
        BY <1>12, <4>1, <4>2
      <4>3. CASE m = l
        <5>1. k <= p.ptr + 1
          BY <1>5, <4>1, <4>3 DEF p
        <5> QED
          BY <1>7, <1>8, <1>12, <5>1
      <4> QED
        BY <4>2, <4>3
    <3> QED
      BY <1>9, <3>1, <3>2
  <2> QED
    BY <2>1 DEF BufferInv
<1>14. p.pc \in Busy /\ q.pc \in Busy /\ Drew(l)
  BY <1>1, <1>7 DEF Busy, Drew
<1>15. ColoursInv'
  BY <1>1, <1>2, <1>7, <1>14, ColoursStep DEF p
<1> QED
  BY <1>11, <1>13, <1>15 DEF ConsoleInv

\* The line clears what it left in the buffer; what another left, the other clears.
LEMMA CleanKeeps ==
    ASSUME ConsoleInv, NEW l \in Line, Clean(l)
    PROVE  ConsoleInv'
<1> DEFINE p == pr[l]
           fmt == call[l].fmt
           Upd(r) == [r EXCEPT !.pc = "print"]
           q == Upd(p)
<1>1. /\ p.pc = "clean" /\ pr' = [pr EXCEPT ![l] = q]
      /\ buffer' = [k \in DOMAIN buffer |-> IF k <= p.ptr THEN NUL ELSE buffer[k]]
      /\ UNCHANGED <<argument, format_align_pad, program, call, cursor, colours, out>>
  BY Zenon DEF Clean, At, inputs, Goes
<1>2. /\ TypesInv /\ PlacesInv /\ BufferInv /\ ColoursInv
      /\ cursor \in Places /\ format_align_pad \in Alignments
  BY LineAt DEF ConsoleInv, TypesInv
<1>3. p \in Progress /\ InStep(p, fmt)
  BY LineAt
<1>4. ASSUME NEW r \in Progress
      PROVE  LET s == Upd(r)
             IN  /\ s \in Progress /\ s.pc = "print" /\ s.c = r.c /\ s.start = r.start
                 /\ s.end = r.end /\ s.then = r.then /\ s.saved = r.saved
  BY DEF Progress, Steps
<1> HIDE DEF p, fmt, Upd
<1>5. /\ q \in Progress /\ q.pc = "print" /\ q.c = p.c /\ q.start = p.start
      /\ q.end = p.end /\ q.then = p.then /\ q.saved = p.saved
  BY <1>3, <1>4
<1> HIDE DEF q
<1>6. InStep(q, fmt)
  BY <1>1, <1>3, <1>5 DEF InStep
<1>7. /\ buffer \in Buffers /\ buffer' \in Buffers
      /\ \A k \in 0 .. BufferLength : buffer'[k] # NUL => ~(k <= p.ptr) /\ buffer'[k] = buffer[k]
  <2>1. buffer \in [0 .. BufferLength -> Chars] /\ NUL \in Chars
    BY <1>2, CharsAssumption DEF TypesInv
  <2>2. buffer' = [k \in 0 .. BufferLength |-> IF k <= p.ptr THEN NUL ELSE buffer[k]]
    BY <1>1, <2>1
  <2> QED
    BY <2>1, <2>2 DEF Buffers
<1>8. colours \in Palettes /\ out \in [Line -> Drawings]
  BY <1>2 DEF TypesInv, Drawings
<1>9. TypesInv' /\ PlacesInv'
  BY <1>1, <1>2, <1>5, <1>6, <1>7, <1>8, TypesStep DEF fmt
<1>10. \A m \in Line \ {l} : pr'[m] = pr[m]
  BY <1>1, <1>2 DEF TypesInv
<1>11. BufferInv'
  <2>1. ASSUME NEW k \in 0 .. BufferLength, buffer'[k] # NUL
        PROVE  \E m \in Line : Owes(pr'[m]) /\ k <= pr'[m].ptr
    <3>1. ~(k <= p.ptr) /\ buffer[k] # NUL
      BY <1>7, <2>1
    <3>2. PICK m \in Line : Owes(pr[m]) /\ k <= pr[m].ptr
      BY <1>2, <3>1 DEF BufferInv
    <3>3. m # l
      BY <3>1, <3>2 DEF p
    <3> QED
      BY <1>10, <3>2, <3>3
  <2> QED
    BY <2>1 DEF BufferInv
<1>12. p.pc \in Busy /\ q.pc \in Busy /\ Drew(l)
  BY <1>1, <1>5 DEF Busy, Drew
<1>13. ColoursInv'
  BY <1>1, <1>2, <1>5, <1>12, ColoursStep DEF p
<1> QED
  BY <1>9, <1>11, <1>13 DEF ConsoleInv

-----------------------------------------------------------------------------
(* Calls begin.                                                            *)

\* A call begins where no other is under way, a handler's without colours of its own.
LEMMA BeginKeeps ==
    ASSUME ConsoleInv, NEW l \in Line, NEW k \in Call, Begin(l, k),
           pr[l].pc \in {"idle", "over"}, l = "irq" => ~k.coloured,
           UNCHANGED inputs, program' \in Seq(Call)
    PROVE  ConsoleInv'
<1> DEFINE pc == IF k.coloured THEN "colour" ELSE k.kind
           q == [Idle EXCEPT !.pc = pc]
<1>1. /\ pr' = [pr EXCEPT ![l] = q] /\ call' = [call EXCEPT ![l] = k]
      /\ out' = [out EXCEPT ![l] = <<>>]
      /\ UNCHANGED <<argument, format_align_pad, cursor, colours, buffer>>
  BY Zenon DEF Begin, Goes, inputs
<1>2. TypesInv /\ PlacesInv /\ BufferInv /\ ColoursInv
  BY DEF ConsoleInv
<1>3. /\ k.fmt \in Seq(Chars) /\ k.kind \in {"print", "puts", "putln", "clear", "align"}
      /\ k.coloured \in BOOLEAN
  <2>1. k \in [kind : {"print", "puts", "putln", "clear", "align"}, fmt : Seq(Chars \ {NUL}),
               colours : Palettes, coloured : BOOLEAN]
    BY DEF Call
  <2> QED
    BY <2>1, CString
<1>4. /\ pc \in Steps /\ pc \in {"colour", "print"} \cup Single
      /\ pc = "colour" => k.coloured
      /\ pc \in Single => ~k.coloured /\ k.kind = pc
      /\ k.coloured => pc = "colour"
  BY <1>3 DEF Steps, Single
<1> HIDE DEF pc
<1>5. q \in Progress /\ q.pc = pc /\ q.c = 0 /\ q.start = 0 /\ q.end = 0
  BY <1>4, IdleProgress
<1> HIDE DEF q
<1>6. InStep(q, k.fmt)
  BY <1>3, <1>4, <1>5, AtStart
<1>7. /\ pr' \in [Line -> Progress] /\ pr'[l] = q /\ \A m \in Line \ {l} : pr'[m] = pr[m]
      /\ call' \in [Line -> Call] /\ call'[l] = k /\ \A m \in Line \ {l} : call'[m] = call[m]
  BY <1>1, <1>2, <1>5 DEF TypesInv
<1>8. /\ out' \in [Line -> Drawings] /\ out'[l] = <<>> /\ \A m \in Line \ {l} : out'[m] = out[m]
  <2>1. ASSUME NEW S PROVE <<>> \in Seq(S)
    OBVIOUS
  <2>2. <<>> \in Drawings
    BY <2>1 DEF Drawings
  <2>3. out \in [Line -> Drawings]
    BY <1>2 DEF TypesInv, Drawings
  <2> QED
    BY <1>1, <2>2, <2>3
<1>9. TypesInv'
  BY <1>1, <1>2, <1>7, <1>8 DEF TypesInv, Drawings
<1>10. PlacesInv'
  BY <1>2, <1>6, <1>7 DEF PlacesInv
<1>11. BufferInv'
  <2>1. ~Owes(pr[l])
    BY DEF Owes
  <2> QED
    BY <1>1, <1>2, <2>1, BufferStep
<1>12. ColoursInv'
  <2>1. CASE l = "main"
    <3>1. /\ pr'["main"].pc = pc /\ pr'["irq"] = pr["irq"] /\ call'["main"] = k
          /\ call'["irq"] = call["irq"] /\ out'["main"] = <<>> /\ colours' = Plain
      BY <1>1, <1>2, <1>5, <1>7, <1>8, <2>1 DEF ColoursInv, ColoursAsAsked, Line
    <3>2. colours' = ColoursAt(pr'["main"], call'["main"])
      BY <1>4, <3>1 DEF ColoursAt
    <3>3. call'["main"].coloured => pr'["main"].pc = "colour"
      BY <1>4, <3>1
    <3>4. ColoursAsAsked'
      BY <1>4, <3>1 DEF ColoursAsAsked, Single
    <3>5. \A m \in Line : /\ pr'[m].pc \in Colouring => call'[m].coloured
                          /\ pr'[m].pc \in Single => ~call'[m].coloured /\ call'[m].kind = pr'[m].pc
      BY <1>2, <1>4, <3>1 DEF ColoursInv, Line, Single, Colouring
    <3> QED
      BY <1>2, <3>1, <3>2, <3>3, <3>4, <3>5 DEF ColoursInv
  <2>2. CASE l = "irq"
    <3>1. /\ pr'["irq"].pc = pc /\ pr'["main"] = pr["main"] /\ call'["irq"] = k
          /\ call'["main"] = call["main"] /\ out'["main"] = out["main"] /\ ~k.coloured
      BY <1>1, <1>2, <1>5, <1>7, <1>8, <2>2 DEF Line
    <3>2. /\ ~call'["irq"].coloured /\ colours' = colours
          /\ \A m \in Line : /\ pr'[m].pc \in Colouring => call'[m].coloured
                             /\ pr'[m].pc \in Single =>
                                    ~call'[m].coloured /\ call'[m].kind = pr'[m].pc
      BY <1>1, <1>2, <1>4, <3>1 DEF ColoursInv, Line, Single, Colouring
    <3> QED
      BY <1>2, <3>1, <3>2 DEF ColoursInv, ColoursAsAsked
  <2> QED
    BY <2>1, <2>2 DEF Line
<1> QED
  BY <1>9, <1>10, <1>11, <1>12 DEF ConsoleInv

\* The main line makes its next call.
LEMMA MainCallsKeeps ==
    ASSUME ConsoleInv, MainCalls
    PROVE  ConsoleInv'
<1>1. /\ pr["main"].pc \in {"idle", "over"} /\ program # <<>> /\ program' = Tail(program)
      /\ Begin("main", Head(program)) /\ UNCHANGED inputs
  BY DEF MainCalls
<1>2. program \in Seq(Call)
  BY DEF ConsoleInv, TypesInv
<1>3. Head(program) \in Call /\ Tail(program) \in Seq(Call)
  BY <1>1, <1>2
<1>4. "main" \in Line /\ "main" # "irq"
  BY DEF Line
<1> QED
  BY <1>1, <1>3, <1>4, BeginKeeps

\* An interrupt comes between two steps.
LEMMA InterruptedKeeps ==
    ASSUME ConsoleInv, Interrupted
    PROVE  ConsoleInv'
<1>1. /\ pr["irq"].pc = "idle" /\ UNCHANGED <<inputs, program>>
      /\ \E k \in Handlers : Begin("irq", k)
  BY DEF Interrupted
<1>2. PICK k \in Handlers : Begin("irq", k)
  BY <1>1
<1>3. k \in Call /\ ~k.coloured /\ program' \in Seq(Call) /\ "irq" \in Line
  BY <1>1, CallsAssumption DEF ConsoleInv, TypesInv, Line
<1> QED
  BY <1>1, <1>2, <1>3, BeginKeeps

-----------------------------------------------------------------------------
(* The theorems.                                                           *)

\* The console after __kernel_init_basic.
LEMMA ConsoleInit == Init => ConsoleInv
<1> SUFFICES ASSUME Init PROVE ConsoleInv
  OBVIOUS
<1> DEFINE k == putln
<1>1. /\ k \in Call /\ ~k.coloured /\ k.fmt = <<>>
  <2>1. <<>> \in Seq(Chars \ {NUL}) /\ Plain \in Palettes
    BY PlainIs
  <2>2. /\ k \in [kind : {"print", "puts", "putln", "clear", "align"}, fmt : Seq(Chars \ {NUL}),
                  colours : Palettes, coloured : BOOLEAN]
        /\ ~k.coloured /\ k.colours = Plain /\ k.kind = "putln" /\ k.fmt = <<>>
    BY <2>1 DEF putln
  <2> HIDE DEF k
  <2> QED
    BY <2>2 DEF Call
<1> HIDE DEF k
<1>2. Idle \in Progress /\ Idle.pc = "idle" /\ Idle.c = 0 /\ Idle.start = 0 /\ Idle.end = 0
  BY IdleRecord
<1>3. /\ argument \in Word /\ format_align_pad \in Alignments /\ program \in Seq(Call)
  <2>1. <<>> \in Seq(Call) /\ \A s \in Programs : s \in Seq(Call)
    BY CallsAssumption
  <2> QED
    BY <2>1 DEF Init, InputsInit
<1>4. /\ call = [l \in Line |-> k] /\ pr = [l \in Line |-> Idle] /\ cursor = <<0, 0>>
      /\ colours = Plain /\ buffer = [i \in 0 .. BufferLength |-> NUL]
      /\ out = [l \in Line |-> <<>>]
  BY DEF Init, k
<1>5. TypesInv
  <2>1. <<0, 0>> \in Columns \X Nat /\ NUL \in Chars /\ Plain \in Palettes
    BY TopPlace, PlainIs, CharsAssumption DEF Places
  <2>2. out \in [Line -> Seq([ch : Chars, colours : Palettes])]
    BY <1>4
  <2> QED
    BY <1>1, <1>2, <1>3, <1>4, <2>1, <2>2 DEF TypesInv
<1>6. PlacesInv
  <2>1. <<>> \in Seq(Chars)
    OBVIOUS
  <2>2. InStep(Idle, k.fmt)
    BY <1>1, <1>2, <2>1, AtStart
  <2> QED
    BY <1>4, <2>2 DEF PlacesInv
<1>7. BufferInv
  BY <1>4 DEF BufferInv
<1>8. ColoursInv
  <2>1. "main" \in Line /\ "irq" \in Line
    BY DEF Line
  <2>2. /\ \A l \in Line : pr[l].pc = "idle" /\ ~call[l].coloured
        /\ out["main"] = <<>> /\ colours = Plain
    BY <1>1, <1>2, <1>4, <2>1
  <2>3. colours = ColoursAt(pr["main"], call["main"])
    BY <2>1, <2>2 DEF ColoursAt
  <2>4. ColoursAsAsked
    BY <2>1, <2>2 DEF ColoursAsAsked
  <2> QED
    BY <2>1, <2>2, <2>3, <2>4 DEF ColoursInv, Single, Colouring
<1> QED
  BY <1>5, <1>6, <1>7, <1>8 DEF ConsoleInv

\* A step of either line keeps the invariant.
LEMMA StepKeeps ==
    ASSUME ConsoleInv, NEW l \in Line, Step(l)
    PROVE  ConsoleInv'
BY SetBackColourKeeps, SetTextColourKeeps, RestoreBackColourKeeps, RestoreTextColourKeeps,
   ScanKeeps, FinishKeeps, DrawKeeps, DrawnKeeps, SwitchNewlineKeeps, SwitchEndKeeps,
   SwitchNumberKeeps, ConvertKeeps, ConvertedKeeps, SwitchStringKeeps, SwitchCharKeeps,
   SwitchOtherKeeps, ShowBufferKeeps, ShowKeeps, ShownKeeps, CleanKeeps, PutsKeeps,
   PutsOverKeeps, PutlnKeeps, consoleClearKeeps, printk_align_formatKeeps, Zenon DEF Step

\* The main line and its interrupts keep types, places, buffer and colours in order.
THEOREM ConsoleInvariant == Spec => []ConsoleInv
<1>1. ConsoleInv /\ [Next]_vars => ConsoleInv'
  <2> SUFFICES ASSUME ConsoleInv, [Next]_vars PROVE ConsoleInv'
    OBVIOUS
  <2>1. CASE Next
    BY <2>1, MainCallsKeeps, InterruptedKeeps, StepKeeps, Zenon DEF Next
  <2>2. CASE UNCHANGED vars
    BY <2>2 DEF vars, inputs, ConsoleInv, TypesInv, PlacesInv, BufferInv, ColoursInv, ColoursAsAsked
  <2> QED
    BY <2>1, <2>2
<1> QED
  BY <1>1, ConsoleInit, PTL DEF Spec

\* BufferInOrder for every window, program and interrupt: the places in the buffer and in
\* the format string stay within bounds, and no number of printk's stays in the shared
\* buffer for the write that follows every %s, %c and lone %.  A null string alone moves
\* the cursor out of the window's columns (framebufferWriteStringBmFontRGB).
THEOREM BufferStaysInOrder ==
    ASSUME StringArgument # NullString
    PROVE  Spec => []BufferInOrder
<1>1. ConsoleInv => BufferInOrder
  <2> SUFFICES ASSUME ConsoleInv PROVE BufferInOrder
    OBVIOUS
  <2>1. TypesInv /\ BufferInv
    BY DEF ConsoleInv
  <2>2. /\ argument \in Word /\ format_align_pad \in Nat /\ cursor \in (0 .. Width - 1) \X Nat
        /\ DOMAIN buffer = 0 .. BufferLength
    BY <2>1, SizesAssumption DEF TypesInv, Columns
  <2>3. ASSUME NEW l \in Line
        PROVE  /\ pr[l].c \in 0 .. Len(call[l].fmt)
               /\ pr[l].start \in 0 .. Len(call[l].fmt) + 1
               /\ pr[l].ptr \in 0 .. BufferLength
    <3>1. /\ pr[l] \in Progress /\ pr[l].c \in Nat /\ pr[l].start = pr[l].end
          /\ pr[l].end \in Nat /\ Len(call[l].fmt) \in Nat
          /\ pr[l].c <= Len(call[l].fmt) /\ pr[l].end <= Len(call[l].fmt) + 1
      BY LineAt
    <3>2. pr[l].ptr \in 0 .. BufferLength
      BY <3>1, ProgressFields
    <3> QED
      BY <3>1, <3>2
  <2>4. TypeOK
    BY <2>2, <2>3 DEF TypeOK
  <2>5. BufferLeftClean
    BY <2>1, <2>2 DEF BufferLeftClean, BufferInv
  <2> QED
    BY <2>4, <2>5 DEF BufferInOrder
<1> QED
  BY <1>1, ConsoleInvariant, PTL

\* HelpersCorrect for words of every width up to 64 bits, every argument and every
\* alignment: round2 gives the least power of two that is not below its argument, and 0
\* for 0 and above the largest; ppow2 the power below; roundN the least multiple.
THEOREM HelpersAreCorrect == Spec => []HelpersCorrect
<1>1. ConsoleInv => HelpersCorrect
  <2> SUFFICES ASSUME ConsoleInv PROVE HelpersCorrect
    OBVIOUS
  <2>1. argument \in Word /\ format_align_pad \in Nat
    BY SizesAssumption DEF ConsoleInv, TypesInv
  <2>2. Round2Correct
    <3> DEFINE powers == {2^k : k \in 0 .. W - 1}
               above == {p \in powers : p >= argument}
    <3>1. CASE argument = 0 \/ argument > 2^(W - 1)
      BY <2>1, <3>1, Round2Is DEF Round2Correct
    <3>2. CASE ~(argument = 0 \/ argument > 2^(W - 1))
      <4>1. RoundsUp(argument, round2(argument))
        BY <2>1, <3>2, Round2Is
      <4>2. PICK k \in 0 .. W - 1 : round2(argument) = 2^k /\ argument <= 2^k /\ 2^k < 2 * argument
        BY <4>1 DEF RoundsUp
      <4>3. argument \in Nat /\ 2^k \in Nat /\ k \in 0 .. W /\ k \in Nat
        BY <2>1, Power DEF Word
      <4>4. 2^k \in above
        BY <4>2, <4>3
      <4>5. ASSUME NEW i \in 0 .. W - 1, 2^i >= argument PROVE 2^k <= 2^i
        <5>1. i \in 0 .. W /\ 2^i \in Nat /\ i \in Nat
          BY Power
        <5>2. CASE i < k
          <6>1. 2 * 2^i <= 2^k
            BY <4>3, <5>1, <5>2, PowerGrows
          <6> QED
            BY <4>2, <4>3, <4>5, <5>1, <6>1
        <5>3. CASE i = k
          BY <4>3, <5>3
        <5>4. CASE k < i
          <6>1. 2 * 2^k <= 2^i
            BY <4>3, <5>1, <5>4, PowerGrows
          <6> QED
            BY <4>3, <5>1, <6>1
        <5> QED
          BY <4>3, <5>1, <5>2, <5>3, <5>4
      <4>6. \A p \in above : p \in Nat /\ 2^k <= p
        BY <4>5, Power
      <4>7. \A x \in above : (\A y \in above : x <= y) => x = 2^k
        BY <4>3, <4>4, <4>6
      <4>8. Min(above) = CHOOSE x \in above : \A y \in above : x <= y
        BY DEF Min
      <4> HIDE DEF above
      <4>9. Min(above) = 2^k
        BY <4>4, <4>6, <4>7, <4>8, Zenon
      <4> QED
        BY <3>2, <4>2, <4>9 DEF Round2Correct, above
    <3> QED
      BY <3>1, <3>2
  <2>3. Ppow2Correct
    BY <2>1, Ppow2Is DEF Ppow2Correct
  <2>4. RoundNCorrect
    BY <2>1, RoundNIs DEF RoundNCorrect
  <2> QED
    BY <2>2, <2>3, <2>4 DEF HelpersCorrect
<1> QED
  BY <1>1, ConsoleInvariant, PTL

\* The colours' part of ShownAsWritten: whatever a handler prints in between, printkcol
\* draws in its own colours, printk in the console's, and the console has its own back.
THEOREM ColoursStayAsAsked == Spec => []ColoursAsAsked
<1>1. ConsoleInv => ColoursAsAsked
  BY DEF ConsoleInv, ColoursInv
<1> QED
  BY <1>1, ConsoleInvariant, PTL

-----------------------------------------------------------------------------
(* What a format string means.                                             *)

\* What the sign at place i stands for, when the reading goes on as in V.
Sign(V, fmt, v, pad, i) ==
    IF i > Len(fmt) THEN <<>>
    ELSE IF fmt[i] = "%" /\ i < Len(fmt) /\ fmt[i + 1] \in Specifiers
    THEN (CASE fmt[i + 1] = "s" -> StringArgument
            [] fmt[i + 1] = "c" -> <<"c">>
            [] OTHER -> Formatted(v, pad, fmt[i + 1])) \o V[i + 2]
    ELSE <<fmt[i]>> \o V[i + 1]

\* The reading of a format string is one: its recursion is over what is left of it.
LEMMA MeaningIs ==
    ASSUME NEW fmt, Len(fmt) \in Nat, NEW v, NEW pad, NEW i \in 1 .. Len(fmt) + 1
    PROVE  MeaningFrom(fmt, v, pad)[i] = Sign(MeaningFrom(fmt, v, pad), fmt, v, pad, i)
<1> DEFINE N == Len(fmt) + 1
           G(V, k) == Sign(V, fmt, v, pad, k)
           Reads(V, k) == V = [j \in k .. N |-> G(V, j)]
           K == {n \in Nat : n < N /\ ~\E V : Reads(V, N - n)}
<1>0. N \in Nat /\ N >= 1
  OBVIOUS
<1>1. ASSUME NEW V, NEW T, NEW k \in 1 .. N,
             \A j \in 1 .. N : j > k => V[j] = T[j]
      PROVE  G(V, k) = G(T, k)
  <2>1. CASE k > Len(fmt)
    BY <2>1 DEF Sign
  <2>2. CASE ~(k > Len(fmt)) /\ fmt[k] = "%" /\ k < Len(fmt) /\ fmt[k + 1] \in Specifiers
    <3>1. k + 2 \in 1 .. N /\ k + 2 > k
      BY <2>2
    <3>2. V[k + 2] = T[k + 2]
      BY <1>1, <3>1
    <3> QED
      BY <2>2, <3>2, Zenon DEF Sign
  <2>3. CASE ~(k > Len(fmt)) /\ ~(fmt[k] = "%" /\ k < Len(fmt) /\ fmt[k + 1] \in Specifiers)
    <3>1. k + 1 \in 1 .. N /\ k + 1 > k
      BY <2>3
    <3>2. V[k + 1] = T[k + 1]
      BY <1>1, <3>1
    <3> QED
      BY <2>3, <3>2, Zenon DEF Sign
  <2> QED
    BY <2>1, <2>2, <2>3
<1> HIDE DEF G, N
<1>2. ASSUME K # {} PROVE FALSE
  <2>1. PICK n \in K : \A k \in K : n <= k
    BY <1>2, Least
  <2> DEFINE a == N - n
  <2>2. n \in Nat /\ n < N /\ a \in 1 .. N /\ ~\E V : Reads(V, a)
    BY <1>0, <2>1
  <2>3. \E V : V = [j \in (a + 1) .. N |-> G(V, j)]
    <3>1. CASE n = 0
      <4> DEFINE V == [j \in (a + 1) .. N |-> 0]
      <4>1. \A j : j \notin (a + 1) .. N
        BY <1>0, <3>1
      <4>2. V = [j \in (a + 1) .. N |-> G(V, j)]
        <5> HIDE DEF a
        <5> QED
          BY <4>1
      <4> QED
        BY <4>2
    <3>2. CASE n # 0
      <4>1. n - 1 \in Nat /\ n - 1 < N /\ ~(n <= n - 1) /\ N - (n - 1) = a + 1
        BY <1>0, <2>2, <3>2
      <4>2. \E V : Reads(V, N - (n - 1))
        BY <2>1, <4>1
      <4> QED
        BY <4>1, <4>2
    <3> QED
      BY <3>1, <3>2
  <2>4. PICK V : V = [j \in (a + 1) .. N |-> G(V, j)]
    BY <2>3
  <2> DEFINE T == [j \in a .. N |-> G(V, j)]
  <2> HIDE DEF a
  <2>5. \A j \in a .. N : G(V, j) = G(T, j)
    <3>1. \A j \in (a + 1) .. N : V[j] = G(V, j)
      <4> DEFINE H(j) == G(V, j)
      <4>1. V = [j \in (a + 1) .. N |-> H(j)]
        BY <2>4
      <4> HIDE DEF H
      <4>2. \A j \in (a + 1) .. N : V[j] = H(j)
        BY <4>1
      <4> QED
        BY <4>2 DEF H
    <3>2. \A j \in (a + 1) .. N : T[j] = G(V, j)
      <4>1. \A j \in (a + 1) .. N : j \in a .. N
        BY <1>0, <2>2
      <4> QED
        BY <4>1
    <3>3. \A j \in (a + 1) .. N : V[j] = T[j]
      BY <3>1, <3>2
    <3> HIDE DEF T
    <3>4. ASSUME NEW j \in a .. N PROVE G(V, j) = G(T, j)
      <4>1. j \in 1 .. N /\ \A k \in 1 .. N : k > j => k \in (a + 1) .. N
        BY <1>0, <2>2
      <4> QED
        BY <1>1, <3>3, <4>1
    <3> QED
      BY <3>4
  <2>6. T = [j \in a .. N |-> G(T, j)]
    <3>1. T = [j \in a .. N |-> G(V, j)]
      OBVIOUS
    <3> HIDE DEF T
    <3> QED
      BY <2>5, <3>1, Zenon
  <2> QED
    BY <2>2, <2>6
<1>3. \E V : Reads(V, 1)
  <2>1. N - 1 \in Nat /\ N - 1 < N /\ N - (N - 1) = 1
    BY <1>0
  <2>2. \E V : Reads(V, N - (N - 1))
    BY <1>2, <2>1
  <2> QED
    BY <2>1, <2>2
<1>4. MeaningFrom(fmt, v, pad) = CHOOSE V : Reads(V, 1)
  BY Zenon DEF MeaningFrom, G, N, Sign
<1>5. Reads(MeaningFrom(fmt, v, pad), 1)
  BY <1>3, <1>4, Zenon
<1> DEFINE H(j) == G(MeaningFrom(fmt, v, pad), j)
<1>6. MeaningFrom(fmt, v, pad) = [j \in 1 .. N |-> H(j)]
  BY <1>5
<1>7. i \in 1 .. N
  BY DEF N
<1> HIDE DEF H
<1>8. MeaningFrom(fmt, v, pad)[i] = H(i)
  BY <1>6, <1>7
<1> QED
  BY <1>8 DEF H, G

\* What each sign of a format string stands for.
Reading(M, fmt, v, pad) ==
    /\ M[Len(fmt) + 1] = <<>>
    /\ \A i \in 1 .. Len(fmt) :
          /\ ~(fmt[i] = "%" /\ i < Len(fmt) /\ fmt[i + 1] \in Specifiers) =>
                 M[i] = <<fmt[i]>> \o M[i + 1]
          /\ fmt[i] = "%" /\ i < Len(fmt) /\ fmt[i + 1] = "s" =>
                 M[i] = StringArgument \o M[i + 2]
          /\ fmt[i] = "%" /\ i < Len(fmt) /\ fmt[i + 1] = "c" =>
                 M[i] = <<"c">> \o M[i + 2]
          /\ fmt[i] = "%" /\ i < Len(fmt) /\ fmt[i + 1] \in Numeric =>
                 M[i] = Formatted(v, pad, fmt[i + 1]) \o M[i + 2]

\* MeaningFrom reads it so.
LEMMA MeaningRules ==
    ASSUME NEW fmt \in Seq(Chars), NEW v, NEW pad
    PROVE  Reading(MeaningFrom(fmt, v, pad), fmt, v, pad)
<1> DEFINE M == MeaningFrom(fmt, v, pad)
<1>1. Len(fmt) \in Nat
  OBVIOUS
<1>2. \A i \in 1 .. Len(fmt) + 1 : M[i] = Sign(M, fmt, v, pad, i)
  BY <1>1, MeaningIs
<1> HIDE DEF M
<1>3. M[Len(fmt) + 1] = <<>>
  <2>1. Len(fmt) + 1 \in 1 .. Len(fmt) + 1 /\ Len(fmt) + 1 > Len(fmt)
    BY <1>1
  <2> QED
    BY <1>2, <2>1, Zenon DEF Sign
<1>4. ASSUME NEW i \in 1 .. Len(fmt)
      PROVE  /\ ~(fmt[i] = "%" /\ i < Len(fmt) /\ fmt[i + 1] \in Specifiers) =>
                    M[i] = <<fmt[i]>> \o M[i + 1]
             /\ fmt[i] = "%" /\ i < Len(fmt) /\ fmt[i + 1] = "s" =>
                    M[i] = StringArgument \o M[i + 2]
             /\ fmt[i] = "%" /\ i < Len(fmt) /\ fmt[i + 1] = "c" =>
                    M[i] = <<"c">> \o M[i + 2]
             /\ fmt[i] = "%" /\ i < Len(fmt) /\ fmt[i + 1] \in Numeric =>
                    M[i] = Formatted(v, pad, fmt[i + 1]) \o M[i + 2]
  <2>1. i \in 1 .. Len(fmt) + 1 /\ ~(i > Len(fmt))
    BY <1>1
  <2>2. M[i] = IF fmt[i] = "%" /\ i < Len(fmt) /\ fmt[i + 1] \in Specifiers
               THEN (CASE fmt[i + 1] = "s" -> StringArgument
                       [] fmt[i + 1] = "c" -> <<"c">>
                       [] OTHER -> Formatted(v, pad, fmt[i + 1])) \o M[i + 2]
               ELSE <<fmt[i]>> \o M[i + 1]
    BY <1>2, <2>1, Zenon DEF Sign
  <2>3. \A ch \in Numeric : ch \in Specifiers /\ ch # "s" /\ ch # "c"
    BY DEF Numeric, Specifiers
  <2>4. "s" \in Specifiers /\ "c" \in Specifiers /\ "s" # "c"
    BY DEF Specifiers
  <2>5. ASSUME NEW ch, NEW x, NEW y, NEW z
        PROVE  /\ ch = "s" => (CASE ch = "s" -> x [] ch = "c" -> y [] OTHER -> z) = x
               /\ ch = "c" => (CASE ch = "s" -> x [] ch = "c" -> y [] OTHER -> z) = y
               /\ ch # "s" /\ ch # "c" => (CASE ch = "s" -> x [] ch = "c" -> y [] OTHER -> z) = z
    OBVIOUS
  <2>6. ASSUME fmt[i] = "%", i < Len(fmt), fmt[i + 1] = "s" PROVE M[i] = StringArgument \o M[i + 2]
    <3>1. (CASE fmt[i + 1] = "s" -> StringArgument [] fmt[i + 1] = "c" -> <<"c">>
             [] OTHER -> Formatted(v, pad, fmt[i + 1])) = StringArgument
      BY <2>5, <2>6
    <3> QED
      BY <2>2, <2>4, <2>6, <3>1, Zenon
  <2>7. ASSUME fmt[i] = "%", i < Len(fmt), fmt[i + 1] = "c" PROVE M[i] = <<"c">> \o M[i + 2]
    <3>1. (CASE fmt[i + 1] = "s" -> StringArgument [] fmt[i + 1] = "c" -> <<"c">>
             [] OTHER -> Formatted(v, pad, fmt[i + 1])) = <<"c">>
      BY <2>4, <2>5, <2>7
    <3> QED
      BY <2>2, <2>4, <2>7, <3>1, Zenon
  <2>8. ASSUME fmt[i] = "%", i < Len(fmt), fmt[i + 1] \in Numeric
        PROVE  M[i] = Formatted(v, pad, fmt[i + 1]) \o M[i + 2]
    <3>1. (CASE fmt[i + 1] = "s" -> StringArgument [] fmt[i + 1] = "c" -> <<"c">>
             [] OTHER -> Formatted(v, pad, fmt[i + 1])) = Formatted(v, pad, fmt[i + 1])
      BY <2>3, <2>5, <2>8
    <3> QED
      BY <2>2, <2>3, <2>8, <3>1, Zenon
  <2>9. ASSUME ~(fmt[i] = "%" /\ i < Len(fmt) /\ fmt[i + 1] \in Specifiers)
        PROVE  M[i] = <<fmt[i]>> \o M[i + 1]
    BY <2>2, <2>9, Zenon
  <2> QED
    BY <2>6, <2>7, <2>8, <2>9
<1>5. Reading(M, fmt, v, pad)
  BY <1>3, <1>4, Zenon DEF Reading
<1> QED
  BY <1>5 DEF M

\* What any part of a format string means is a text.
LEMMA MeaningTypes ==
    ASSUME NEW fmt \in Seq(Chars), NEW v \in Word, NEW pad \in Alignments,
           NEW i \in 1 .. Len(fmt) + 1
    PROVE  MeaningFrom(fmt, v, pad)[i] \in Seq(Chars)
<1> DEFINE M == MeaningFrom(fmt, v, pad)
           N == Len(fmt) + 1
           K == {n \in Nat : n < N /\ M[N - n] \notin Seq(Chars)}
<1>1. Len(fmt) \in Nat /\ N \in Nat /\ \A k \in 1 .. Len(fmt) : fmt[k] \in Chars
  OBVIOUS
<1>0. Reading(M, fmt, v, pad)
  BY MeaningRules
<1> HIDE DEF M
<1>2. M[N] = <<>>
  BY <1>0 DEF Reading
<1>3. ASSUME NEW k \in 1 .. Len(fmt), M[k + 1] \in Seq(Chars),
             k + 2 <= N => M[k + 2] \in Seq(Chars)
      PROVE  M[k] \in Seq(Chars)
  <2>1. CASE ~(fmt[k] = "%" /\ k < Len(fmt) /\ fmt[k + 1] \in Specifiers)
    <3>1. M[k] = <<fmt[k]>> \o M[k + 1]
      BY <1>0, <2>1 DEF Reading
    <3>2. <<fmt[k]>> \in Seq(Chars)
      BY <1>1
    <3> QED
      BY <1>3, <3>1, <3>2, ConcatProperties
  <2>2. CASE fmt[k] = "%" /\ k < Len(fmt) /\ fmt[k + 1] \in Specifiers
    <3>1. M[k + 2] \in Seq(Chars)
      BY <1>1, <1>3, <2>2
    <3>2. fmt[k + 1] = "s" \/ fmt[k + 1] = "c" \/ fmt[k + 1] \in Numeric
      BY <2>2 DEF Specifiers
    <3>3. CASE fmt[k + 1] = "s"
      <4>1. M[k] = StringArgument \o M[k + 2]
        BY <1>0, <2>2, <3>3 DEF Reading
      <4> QED
        BY <3>1, <4>1, CharsAssumption, ConcatProperties
    <3>4. CASE fmt[k + 1] = "c"
      <4>1. M[k] = <<"c">> \o M[k + 2]
        BY <1>0, <2>2, <3>4 DEF Reading
      <4>2. <<"c">> \in Seq(Chars)
        BY CharsAssumption
      <4> QED
        BY <3>1, <4>1, <4>2, ConcatProperties
    <3>5. CASE fmt[k + 1] \in Numeric
      <4>1. M[k] = Formatted(v, pad, fmt[k + 1]) \o M[k + 2]
        BY <1>0, <2>2, <3>5 DEF Reading
      <4>2. Formatted(v, pad, fmt[k + 1]) \in Seq(Chars)
        BY <3>5, BufferAssumption, CString
      <4> QED
        BY <3>1, <4>1, <4>2, ConcatProperties
    <3> QED
      BY <3>2, <3>3, <3>4, <3>5
  <2> QED
    BY <2>1, <2>2
<1> HIDE DEF N
<1>4. ASSUME K # {} PROVE FALSE
  <2>1. PICK n \in K : \A k \in K : n <= k
    BY <1>4, Least
  <2>2. n \in Nat /\ n < N /\ M[N - n] \notin Seq(Chars)
    BY <2>1
  <2>3. n # 0
    <3>1. N - 0 = N /\ <<>> \in Seq(Chars)
      BY <1>1
    <3> QED
      BY <1>2, <2>2, <3>1
  <2>4. \A k \in Nat : k < n => M[N - k] \in Seq(Chars)
    <3>1. \A k \in Nat : k < n => k < N /\ ~(n <= k)
      BY <1>1, <2>2
    <3> QED
      BY <2>1, <3>1
  <2>5. n - 1 \in Nat /\ n - 1 < n /\ N - (n - 1) = (N - n) + 1 /\ N - n \in 1 .. Len(fmt)
    BY <1>1, <2>2, <2>3 DEF N
  <2>6. M[(N - n) + 1] \in Seq(Chars)
    BY <2>4, <2>5
  <2>7. (N - n) + 2 <= N => M[(N - n) + 2] \in Seq(Chars)
    <3>1. (N - n) + 2 <= N => n - 2 \in Nat /\ n - 2 < n /\ N - (n - 2) = (N - n) + 2
      BY <1>1, <2>2
    <3> QED
      BY <2>4, <3>1
  <2>8. M[N - n] \in Seq(Chars)
    BY <1>3, <2>5, <2>6, <2>7
  <2> QED
    BY <2>2, <2>8
<1>5. N - i \in Nat /\ N - i < N /\ N - (N - i) = i
  BY <1>1 DEF N
<1>6. M[N - (N - i)] \in Seq(Chars)
  BY <1>4, <1>5
<1> QED
  BY <1>5, <1>6 DEF M

\* Texts one after the other.
LEMMA TextsAssociate ==
    ASSUME NEW s \in Seq(Chars), NEW t \in Seq(Chars), NEW u \in Seq(Chars)
    PROVE  (s \o t) \o u = s \o (t \o u)
BY ConcatAssociative

\* Text without a "%" means itself.
LEMMA MeaningRun ==
    ASSUME NEW fmt \in Seq(Chars), NEW v \in Word, NEW pad \in Alignments,
           NEW i \in 1 .. Len(fmt) + 1, NEW j \in i .. Len(fmt) + 1,
           \A k \in i .. j - 1 : fmt[k] # "%"
    PROVE  MeaningFrom(fmt, v, pad)[i] = SubSeq(fmt, i, j - 1) \o MeaningFrom(fmt, v, pad)[j]
<1> DEFINE M == MeaningFrom(fmt, v, pad)
           Itself(k) == M[k] = SubSeq(fmt, k, j - 1) \o M[j]
           K == {n \in Nat : n <= j - i /\ ~Itself(j - n)}
<1>1. Len(fmt) \in Nat /\ i \in Nat /\ i >= 1 /\ j \in Nat /\ i <= j /\ j <= Len(fmt) + 1
  OBVIOUS
<1>2. Reading(M, fmt, v, pad) /\ \A k \in 1 .. Len(fmt) + 1 : M[k] \in Seq(Chars)
  BY MeaningRules, MeaningTypes
<1> HIDE DEF M
<1>3. Itself(j)
  <2>1. SubSeq(fmt, j, j - 1) = <<>>
    BY <1>1, SubSeqEmpty
  <2>2. M[j] \in Seq(Chars)
    BY <1>1, <1>2
  <2> QED
    BY <2>1, <2>2, ConcatEmptySeq
<1>4. ASSUME NEW k \in i .. j - 1, Itself(k + 1) PROVE Itself(k)
  <2>1. k \in 1 .. Len(fmt) /\ k + 1 \in 1 .. Len(fmt) + 1 /\ fmt[k] # "%" /\ fmt[k] \in Chars
        /\ j - 1 \in k .. Len(fmt)
    BY <1>1
  <2>2. M[k] = <<fmt[k]>> \o M[k + 1]
    BY <1>2, <2>1 DEF Reading
  <2>3. SubSeq(fmt, k, j - 1) = <<fmt[k]>> \o SubSeq(fmt, k + 1, j - 1)
    BY <2>1, SubSeqRecursiveFirst
  <2>4. <<fmt[k]>> \in Seq(Chars) /\ M[j] \in Seq(Chars)
    BY <1>1, <1>2, <2>1
  <2>5. SubSeq(fmt, k + 1, j - 1) \in Seq(Chars)
    <3>1. k + 1 \in Int /\ j - 1 \in Int /\ \A n \in (k + 1) .. (j - 1) : fmt[n] \in Chars
      BY <1>1, <2>1
    <3> QED
      BY <3>1, SubSeqProperties
  <2>6. (<<fmt[k]>> \o SubSeq(fmt, k + 1, j - 1)) \o M[j]
            = <<fmt[k]>> \o (SubSeq(fmt, k + 1, j - 1) \o M[j])
    BY <2>4, <2>5, TextsAssociate
  <2> QED
    BY <1>4, <2>2, <2>3, <2>6
<1> HIDE DEF Itself
<1>5. ASSUME K # {} PROVE FALSE
  <2>1. PICK n \in K : \A k \in K : n <= k
    BY <1>5, Least
  <2>2. n \in Nat /\ n <= j - i /\ ~Itself(j - n)
    BY <2>1
  <2>3. n # 0
    <3>1. j - 0 = j
      BY <1>1
    <3> QED
      BY <1>3, <2>2, <3>1
  <2>4. n - 1 \in Nat /\ n - 1 <= j - i /\ ~(n <= n - 1) /\ j - (n - 1) = (j - n) + 1
        /\ j - n \in i .. j - 1
    BY <1>1, <2>2, <2>3
  <2>5. Itself((j - n) + 1)
    BY <2>1, <2>4
  <2> QED
    BY <1>4, <2>2, <2>4, <2>5
<1>6. j - i \in Nat /\ j - i <= j - i /\ j - (j - i) = i
  BY <1>1
<1>7. Itself(j - (j - i))
  BY <1>5, <1>6
<1> QED
  BY <1>6, <1>7 DEF Itself, M

\* A glyph is drawn.
LEMMA OneGlyph ==
    ASSUME NEW s \in Seq(Chars), NEW x \in Chars, NEW t \in Seq(Chars)
    PROVE  s \o (<<x>> \o t) = Append(s, x) \o t
<1>1. <<x>> \in Seq(Chars)
  OBVIOUS
<1>2. (s \o <<x>>) \o t = s \o (<<x>> \o t)
  BY <1>1, TextsAssociate
<1>3. Append(s, x) = s \o <<x>>
  BY AppendIsConcat
<1> QED
  BY <1>2, <1>3

\* The first glyph of two texts.
LEMMA FirstGlyph ==
    ASSUME NEW x \in Chars, NEW t \in Seq(Chars), NEW u \in Seq(Chars)
    PROVE  (<<x>> \o t) \o u = <<x>> \o (t \o u) /\ t \o u \in Seq(Chars)
<1>1. <<x>> \in Seq(Chars)
  OBVIOUS
<1>2. (<<x>> \o t) \o u = <<x>> \o (t \o u)
  BY <1>1, TextsAssociate
<1>3. t \o u \in Seq(Chars)
  BY ConcatProperties
<1> QED
  BY <1>2, <1>3

\* Nothing before a text.
LEMMA NoGlyph ==
    ASSUME NEW t \in Seq(Chars)
    PROVE  <<>> \o t = t
BY ConcatEmptySeq

\* The characters a line has drawn.
LEMMA CharactersTypes ==
    ASSUME TypesInv, NEW l \in Line
    PROVE  Characters(l) \in Seq(Chars)
<1> DEFINE G == [ch : Chars, colours : Palettes]
<1>1. out[l] \in Seq(G)
  BY LineTypes DEF Drawings
<1> HIDE DEF G
<1>2. Len(out[l]) \in Nat /\ \A i \in 1 .. Len(out[l]) : out[l][i] \in G
  BY <1>1
<1>3. \A i \in 1 .. Len(out[l]) : out[l][i].ch \in Chars
  BY <1>2 DEF G
<1>4. Characters(l) \in [1 .. Len(out[l]) -> Chars]
  BY <1>3 DEF Characters
<1> QED
  BY <1>2, <1>4

\* One more of them.
LEMMA CharactersAppend ==
    ASSUME TypesInv, NEW l \in Line, NEW x \in Chars, out'[l] = Append(out[l], Glyph(x)),
           TypesInv'
    PROVE  Characters(l)' = Append(Characters(l), x)
<1> DEFINE G == [ch : Chars, colours : Palettes]
           g == Glyph(x)
           n == Len(out[l])
<1>1. out[l] \in Seq(G) /\ g \in G /\ g.ch = x
  BY LineTypes DEF Drawings, Glyph, TypesInv
<1> HIDE DEF G, g
<1>2. /\ n \in Nat /\ Len(out'[l]) = n + 1 /\ out'[l][n + 1] = g
      /\ \A i \in 1 .. n : out'[l][i] = out[l][i]
  <2>1. out'[l] = Append(out[l], g)
    BY DEF g
  <2> QED
    BY <1>1, <2>1, AppendProperties
<1>3. Characters(l) \in Seq(Chars) /\ Len(Characters(l)) = n
      /\ \A i \in 1 .. n : Characters(l)[i] = out[l][i].ch
  <2>1. Characters(l) \in Seq(Chars)
    BY CharactersTypes
  <2>2. Characters(l) = [i \in 1 .. n |-> out[l][i].ch]
    BY DEF Characters
  <2> QED
    BY <1>2, <2>1, <2>2
<1>4. Characters(l)' \in Seq(Chars) /\ Len(Characters(l)') = n + 1
      /\ \A i \in 1 .. n + 1 : Characters(l)'[i] = out'[l][i].ch
  <2>1. Characters(l)' = [i \in 1 .. Len(out'[l]) |-> out'[l][i].ch]
    BY DEF Characters
  <2>2. Len(out'[l]) = n + 1 /\ n + 1 \in Nat
    BY <1>2
  <2>3. \A i \in 1 .. n + 1 : out'[l][i].ch \in Chars
    <3>1. \A i \in 1 .. n : out[l][i] \in G
      BY <1>1
    <3>2. \A i \in 1 .. n : out[l][i].ch \in Chars
      BY <3>1 DEF G
    <3>3. \A i \in 1 .. n + 1 : i \in 1 .. n \/ i = n + 1
      BY <1>2
    <3> QED
      BY <1>1, <1>2, <3>2, <3>3
  <2> HIDE DEF n
  <2>4. Characters(l)' \in [1 .. n + 1 -> Chars]
    BY <2>1, <2>2, <2>3
  <2> QED
    BY <2>1, <2>2, <2>4
<1>5. /\ Append(Characters(l), x) \in Seq(Chars) /\ Len(Append(Characters(l), x)) = n + 1
      /\ Append(Characters(l), x)[n + 1] = x
      /\ \A i \in 1 .. n : Append(Characters(l), x)[i] = Characters(l)[i]
  BY <1>3, AppendProperties
<1>6. \A i \in 1 .. n + 1 : Characters(l)'[i] = Append(Characters(l), x)[i]
  <2>1. \A i \in 1 .. n + 1 : i \in 1 .. n \/ i = n + 1
    BY <1>2
  <2>2. n + 1 \in 1 .. n + 1 /\ \A i \in 1 .. n : i \in 1 .. n + 1
    BY <1>2
  <2> HIDE DEF n
  <2> QED
    BY <1>1, <1>2, <1>3, <1>4, <1>5, <2>1, <2>2
<1> HIDE DEF n
<1> QED
  BY <1>4, <1>5, <1>6, SeqEqual

-----------------------------------------------------------------------------
(* What is drawn, and what is left of the format string.                   *)

\* A step to q that converts, shows and clears no number.
Settled(l, p, q) ==
    /\ q.pc # "convert"
    /\ q.pc = "show" => q.keep /\ q.at = q.ptr
    /\ q.pc = "buffer" \/ (q.pc = "draw" /\ q.then = "buffer") => q.keep
    /\ q.ptr = 0 \/ (q.ptr = p.ptr /\ (Owes(p) => Owes(q)))
    /\ q.pc = "idle" => q.ptr = 0
    /\ l = "irq" => q.pc \notin Single

\* As much of a line's number as it has converted, in the buffer.
Held(l, p, b) ==
    LET text == Text(l, Char(l, p.c))
    IN  /\ Char(l, p.c) \in Numeric /\ p.ptr \in 0 .. Len(text)
        /\ p.pc = "show" => p.ptr = Len(text) /\ p.at \in 0 .. Len(text)
        /\ \A k \in 1 .. p.ptr : b[k] = text[Len(text) + 1 - k]

\* The other line's texts are as they were.
LEMMA OtherLine ==
    ASSUME TypesInv, NEW l \in Line, NEW q, Goes(l, q)
    PROVE  pr'[l] = q /\ \A m \in Line : m # l => pr'[m] = pr[m]
BY DEF TypesInv, Goes

\* Such a step leaves the buffer's numbers alone.
LEMMA QuietStep ==
    ASSUME TypesInv, NumberInv, EmptyInv, NEW l \in Line, NEW q, Goes(l, q),
           Settled(l, pr[l], q), UNCHANGED <<inputs, buffer>>, l = "main" \/ mangled' = mangled,
           \A m \in Line : m # l => call'[m] = call[m]
    PROVE  NumberInv' /\ EmptyInv'
<1>1. pr'[l] = q /\ \A m \in Line : m # l => pr'[m] = pr[m]
  BY OtherLine
<1>2. NumberInv'
  <2> SUFFICES ASSUME NEW m \in Line, Undisturbed(m)', pr'[m].pc \in {"convert", "show"},
                      ~pr'[m].keep
               PROVE  Held(m, pr[m], buffer)'
    BY DEF NumberInv, Held, Conversion
  <2>1. m # l /\ pr'[m] = pr[m] /\ Undisturbed(m)
    BY <1>1 DEF Settled, Undisturbed
  <2>2. Held(m, pr[m], buffer)
    BY <2>1 DEF NumberInv, Held, Conversion
  <2>3. /\ Text(m, Char(m, pr[m].c))' = Text(m, Char(m, pr[m].c))
        /\ Char(m, pr[m].c)' = Char(m, pr[m].c)
    BY <2>1 DEF Text, Char, Number, inputs
  <2> QED
    BY <2>1, <2>2, <2>3 DEF Held
<1>3. EmptyInv'
  <2>1. \A m \in Line :
          /\ pr'[m].pc = "buffer" \/ (pr'[m].pc = "draw" /\ pr'[m].then = "buffer") => pr'[m].keep
          /\ pr'[m].pc = "show" /\ pr'[m].keep => pr'[m].at = pr'[m].ptr
    BY <1>1 DEF EmptyInv, Settled
  <2>2. CASE l = "main"
    <3>1. pr'["irq"] = pr["irq"] /\ pr'["main"] = q
      BY <1>1, <2>2 DEF Line
    <3> QED
      BY <2>1, <3>1 DEF EmptyInv, Settled, Owes
  <2>3. CASE l = "irq"
    <3>1. pr'["main"] = pr["main"] /\ pr'["irq"] = q
      BY <1>1, <2>3 DEF Line
    <3> QED
      BY <2>1, <2>3, <3>1 DEF EmptyInv, Settled, Owes
  <2> QED
    BY <2>2, <2>3 DEF Line
<1> QED
  BY <1>2, <1>3

\* A step leaves the other line's text as it was.
LEMMA TextStep ==
    ASSUME TypesInv, TextInv, NEW l \in Line, NEW q, Goes(l, q), UNCHANGED inputs,
           \A m \in Line : m # l => call'[m] = call[m] /\ out'[m] = out[m],
           l = "main" \/ (mangled => mangled'),
           Undisturbed(l)' /\ q.pc \in Printing => Written(l)'
    PROVE  TextInv'
<1>1. pr'[l] = q /\ \A m \in Line : m # l => pr'[m] = pr[m]
  BY OtherLine
<1> SUFFICES ASSUME NEW m \in Line, Undisturbed(m)', pr'[m].pc \in Printing
             PROVE  Written(m)'
  BY DEF TextInv
<1>2. CASE m = l
  BY <1>1, <1>2
<1>3. CASE m # l
  <2>1. pr'[m] = pr[m] /\ out'[m] = out[m] /\ Undisturbed(m)
    BY <1>1, <1>3 DEF Undisturbed
  <2>2. Written(m)
    BY <2>1 DEF TextInv
  <2>3. Characters(m)' = Characters(m)
    BY <2>1 DEF Characters
  <2>4. Meanings(m)' = Meanings(m)
    BY <1>3 DEF Meanings, Number, inputs
  <2>5. Rest(m)' = Rest(m)
    BY <1>3, <2>1 DEF Rest, Conversion, Text, Char, Number, inputs
  <2>6. Further(m)' = Further(m)
    BY <2>1 DEF Further
  <2> QED
    BY <2>2, <2>3, <2>4, <2>5, <2>6 DEF Written, Meaning
<1> QED
  BY <1>2, <1>3

\* What the format string of a line means, from each of its places on.
LEMMA LineMeaning ==
    ASSUME TypesInv, NEW l \in Line
    PROVE  /\ Reading(Meanings(l), call[l].fmt, Number(l), format_align_pad)
           /\ \A i \in 1 .. Len(call[l].fmt) + 1 : Meanings(l)[i] \in Seq(Chars)
           /\ Number(l) \in Word /\ format_align_pad \in Alignments
<1>1. call[l].fmt \in Seq(Chars)
  BY LineTypes
<1>2. Number(l) \in Word /\ format_align_pad \in Alignments
  BY SizesAssumption DEF TypesInv, Number
<1> QED
  BY <1>1, <1>2, MeaningRules, MeaningTypes DEF Meanings

\* A step that draws nothing: what is left is the same.
LEMMA SameText ==
    ASSUME NEW l \in Line, Written(l), out'[l] = out[l], UNCHANGED <<inputs, call>>,
           Rest(l)' \o Meanings(l)[Further(l)'] = Rest(l) \o Meanings(l)[Further(l)]
    PROVE  Written(l)'
<1>1. Characters(l)' = Characters(l)
  BY DEF Characters
<1>2. Meanings(l)' = Meanings(l)
  BY DEF Meanings, Number, inputs
<1>3. Characters(l) \o (Rest(l) \o Meanings(l)[Further(l)]) = Meanings(l)[1]
  BY DEF Written, Meaning
<1> QED
  BY <1>1, <1>2, <1>3 DEF Written, Meaning

\* A step that draws one glyph: it was the first of what is left.
LEMMA GlyphText ==
    ASSUME TypesInv, TypesInv', NEW l \in Line, NEW x \in Chars, Written(l),
           out'[l] = Append(out[l], Glyph(x)), UNCHANGED <<inputs, call>>,
           Rest(l)' \o Meanings(l)[Further(l)'] \in Seq(Chars),
           Rest(l) \o Meanings(l)[Further(l)] = <<x>> \o (Rest(l)' \o Meanings(l)[Further(l)'])
    PROVE  Written(l)'
<1> DEFINE s == Characters(l)
           t == Rest(l)' \o Meanings(l)[Further(l)']
<1>1. s \in Seq(Chars) /\ Characters(l)' = Append(s, x)
  BY CharactersTypes, CharactersAppend
<1>2. Meanings(l)' = Meanings(l)
  BY DEF Meanings, Number, inputs
<1>3. s \o (<<x>> \o t) = Meanings(l)[1]
  BY DEF Written, Meaning
<1>4. t \in Seq(Chars)
  OBVIOUS
<1> HIDE DEF s, t
<1>5. Append(s, x) \o t = Meanings(l)[1]
  BY <1>1, <1>3, <1>4, OneGlyph
<1> QED
  BY <1>1, <1>2, <1>5 DEF Written, Meaning, t

\* A step that leaves the numbers alone, and what it leaves to be drawn.
LEMMA WriteGoesOn ==
    ASSUME ConsoleInv, WrittenInv, NEW l \in Line, NEW q, Goes(l, q), Settled(l, pr[l], q),
           UNCHANGED <<inputs, call, buffer, mangled>>,
           \A m \in Line : m # l => out'[m] = out[m],
           Undisturbed(l) /\ q.pc \in Printing => Written(l)'
    PROVE  WrittenInv'
<1>1. TypesInv /\ NumberInv /\ EmptyInv /\ TextInv
  BY DEF ConsoleInv, WrittenInv
<1>2. NumberInv' /\ EmptyInv'
  BY <1>1, QuietStep
<1>3. Undisturbed(l)' => Undisturbed(l)
  BY DEF Undisturbed
<1>4. TextInv'
  BY <1>1, <1>3, TextStep
<1> QED
  BY <1>2, <1>4 DEF WrittenInv

\* A step that draws nothing.
LEMMA DrawsNothing ==
    ASSUME ConsoleInv, WrittenInv, NEW l \in Line, NEW q, Goes(l, q), Settled(l, pr[l], q),
           UNCHANGED <<inputs, call, buffer, mangled, out>>, pr[l].pc \in Printing,
           Undisturbed(l) =>
               Rest(l)' \o Meanings(l)[Further(l)'] = Rest(l) \o Meanings(l)[Further(l)]
    PROVE  WrittenInv'
<1>1. ASSUME Undisturbed(l) PROVE Written(l)'
  <2>1. Written(l)
    BY <1>1 DEF WrittenInv, TextInv
  <2> QED
    BY <1>1, <2>1, SameText
<1> QED
  BY <1>1, WriteGoesOn

\* A step that draws the first glyph of what is left.
LEMMA DrawsGlyph ==
    ASSUME ConsoleInv, WrittenInv, TypesInv', NEW l \in Line, NEW q, Goes(l, q),
           Settled(l, pr[l], q), NEW x \in Chars,
           UNCHANGED <<inputs, call, buffer, mangled>>, pr[l].pc \in Printing,
           out' = [out EXCEPT ![l] = Append(@, Glyph(x))],
           Undisturbed(l) =>
               /\ Rest(l)' \o Meanings(l)[Further(l)'] \in Seq(Chars)
               /\ Rest(l) \o Meanings(l)[Further(l)]
                     = <<x>> \o (Rest(l)' \o Meanings(l)[Further(l)'])
    PROVE  WrittenInv'
<1>1. TypesInv /\ out'[l] = Append(out[l], Glyph(x)) /\ \A m \in Line : m # l => out'[m] = out[m]
  BY DEF ConsoleInv, TypesInv
<1>2. ASSUME Undisturbed(l) PROVE Written(l)'
  <2>1. Written(l)
    BY <1>2 DEF WrittenInv, TextInv
  <2> QED
    BY <1>1, <1>2, <2>1, GlyphText
<1> QED
  BY <1>1, <1>2, WriteGoesOn

\* A step out of print_internal.
LEMMA WriteEnds ==
    ASSUME ConsoleInv, WrittenInv, NEW l \in Line, NEW q, Goes(l, q), Settled(l, pr[l], q),
           UNCHANGED <<inputs, call, buffer, mangled>>, q.pc \notin Printing,
           \A m \in Line : m # l => out'[m] = out[m]
    PROVE  WrittenInv'
BY WriteGoesOn

\* A line with nothing under way has nothing left to draw.
LEMMA NoRest ==
    ASSUME NEW l \in Line, pr[l].pc \notin {"draw", "convert", "show"}
    PROVE  /\ Rest(l) = <<>>
           /\ pr[l].pc # "buffer" => Further(l) = pr[l].c + 1
           /\ pr[l].pc = "buffer" => Further(l) = pr[l].c + 2
BY DEF Rest, Further

\* The same, of the line's next state.
LEMMA NoRestNext ==
    ASSUME NEW l \in Line, NEW q, pr'[l] = q, q.pc \notin {"draw", "convert", "show"}
    PROVE  /\ Rest(l)' = <<>>
           /\ q.pc # "buffer" => Further(l)' = q.c + 1
           /\ q.pc = "buffer" => Further(l)' = q.c + 2
BY DEF Rest, Further

\* The call's colours are set, one after the other, and nothing is drawn yet.
LEMMA SetBackColourWrites ==
    ASSUME ConsoleInv, WrittenInv, NEW l \in Line, SetBackColour(l)
    PROVE  WrittenInv'
<1> DEFINE p == pr[l]
           Upd(r, s) == [r EXCEPT !.pc = "colour text", !.saved = s]
           q == Upd(p, colours)
<1>1. p.pc = "colour" /\ Goes(l, q) /\ UNCHANGED <<inputs, call, buffer, mangled, out>>
  BY DEF SetBackColour, At
<1>2. p \in Progress
  BY LineAt
<1>3. ASSUME NEW r \in Progress, NEW s
      PROVE  LET t == Upd(r, s) IN t.pc = "colour text" /\ t.c = r.c /\ t.ptr = r.ptr
  BY DEF Progress
<1> HIDE DEF Upd
<1>4. q.pc = "colour text" /\ q.c = p.c /\ q.ptr = p.ptr
  BY <1>2, <1>3
<1>5. pr'[l] = q
  BY <1>1, OtherLine DEF ConsoleInv
<1> HIDE DEF q
<1>6. Settled(l, p, q)
  BY <1>1, <1>4 DEF Settled, Owes, Single
<1>7. Rest(l)' = Rest(l) /\ Further(l)' = Further(l)
  BY <1>1, <1>4, <1>5, NoRest, NoRestNext
<1> QED
  BY <1>1, <1>6, <1>7, DrawsNothing DEF Printing

LEMMA SetTextColourWrites ==
    ASSUME ConsoleInv, WrittenInv, NEW l \in Line, SetTextColour(l)
    PROVE  WrittenInv'
<1> DEFINE p == pr[l]
           Upd(r) == [r EXCEPT !.pc = "print"]
           q == Upd(p)
<1>1. p.pc = "colour text" /\ Goes(l, q) /\ UNCHANGED <<inputs, call, buffer, mangled, out>>
  BY DEF SetTextColour, At
<1>2. p \in Progress
  BY LineAt
<1>3. ASSUME NEW r \in Progress
      PROVE  LET t == Upd(r) IN t.pc = "print" /\ t.c = r.c /\ t.ptr = r.ptr
  BY DEF Progress
<1> HIDE DEF Upd
<1>4. q.pc = "print" /\ q.c = p.c /\ q.ptr = p.ptr
  BY <1>2, <1>3
<1>5. pr'[l] = q
  BY <1>1, OtherLine DEF ConsoleInv
<1> HIDE DEF q
<1>6. Settled(l, p, q)
  BY <1>1, <1>4 DEF Settled, Owes, Single
<1>7. Rest(l)' = Rest(l) /\ Further(l)' = Further(l)
  BY <1>1, <1>4, <1>5, NoRest, NoRestNext
<1> QED
  BY <1>1, <1>6, <1>7, DrawsNothing DEF Printing

\* The text up to the next sign is taken: it means itself.
LEMMA ScanWrites ==
    ASSUME ConsoleInv, WrittenInv, NEW l \in Line, Scan(l)
    PROVE  WrittenInv'
<1> DEFINE p == pr[l]
           fmt == call[l].fmt
           stop == Stop(l)
           end == p.end + stop - p.c
           text == SubSeq(fmt, p.start + 1, end)
           M == Meanings(l)
           Upd(r, c, t, o, e) ==
               [r EXCEPT !.pc = "draw", !.c = c, !.keep = FALSE, !.left = t, !.off = o,
                         !.then = "switch", !.start = e, !.end = e]
           q == Upd(p, stop, text, cursor, end + 1)
<1>1. /\ p.pc = "print" /\ Char(l, p.c) # NUL /\ Goes(l, q)
      /\ UNCHANGED <<inputs, call, buffer, mangled, out>>
  BY DEF Scan, At
<1>2. /\ p \in Progress /\ InStep(p, fmt) /\ p.c \in Nat /\ p.start = p.end
      /\ fmt \in Seq(Chars) /\ Len(fmt) \in Nat /\ CharAt(fmt, p.c) # NUL
      /\ stop \in Nat /\ p.c <= stop /\ stop <= Len(fmt)
      /\ \A i \in Nat : p.c <= i /\ i < stop => CharAt(fmt, i) # "%"
  BY <1>1, LineAt, StopWithin
<1>3. p.end = p.c /\ p.start = p.c
  BY <1>1, <1>2 DEF InStep
<1>4. text = SubSeq(fmt, p.c + 1, (stop + 1) - 1)
  <2>1. end = stop /\ (stop + 1) - 1 = stop /\ p.start + 1 = p.c + 1
    BY <1>2, <1>3
  <2> HIDE DEF p, fmt, stop, end
  <2> QED
    BY <2>1
<1>5. M[p.c + 1] = text \o M[stop + 1]
  <2>1. p.c + 1 \in 1 .. Len(fmt) + 1 /\ stop + 1 \in (p.c + 1) .. Len(fmt) + 1
    BY <1>2
  <2>2. \A k \in (p.c + 1) .. (stop + 1) - 1 : fmt[k] # "%"
    <3>1. ASSUME NEW k \in (p.c + 1) .. (stop + 1) - 1 PROVE fmt[k] # "%"
      <4>1. k - 1 \in Nat /\ p.c <= k - 1 /\ k - 1 < stop /\ k - 1 < Len(fmt) /\ (k - 1) + 1 = k
        BY <1>2
      <4> QED
        BY <1>2, <4>1 DEF CharAt
    <3> QED
      BY <3>1
  <2>3. Number(l) \in Word /\ format_align_pad \in Alignments
    BY LineMeaning DEF ConsoleInv
  <2> HIDE DEF p, fmt, stop
  <2>4. MeaningFrom(fmt, Number(l), format_align_pad)[p.c + 1]
          = SubSeq(fmt, p.c + 1, (stop + 1) - 1)
            \o MeaningFrom(fmt, Number(l), format_align_pad)[stop + 1]
    BY <1>2, <2>1, <2>2, <2>3, MeaningRun
  <2> QED
    BY <1>4, <2>4 DEF Meanings, fmt
<1>6. M[p.c + 1] \in Seq(Chars)
  <2>1. p.c + 1 \in 1 .. Len(fmt) + 1
    BY <1>2
  <2> QED
    BY <2>1, LineMeaning DEF ConsoleInv
<1>7. ASSUME NEW r \in Progress, NEW c, NEW t, NEW o, NEW e
      PROVE  LET s == Upd(r, c, t, o, e)
             IN  s.pc = "draw" /\ s.then = "switch" /\ s.c = c /\ s.left = t /\ s.ptr = r.ptr
  BY DEF Progress
<1> HIDE DEF Upd, text, end
<1>8. q.pc = "draw" /\ q.then = "switch" /\ q.c = stop /\ q.left = text /\ q.ptr = p.ptr
  BY <1>2, <1>7
<1>9. pr'[l] = q
  BY <1>1, OtherLine DEF ConsoleInv
<1> HIDE DEF q, stop
<1>10. Settled(l, p, q)
  BY <1>1, <1>8 DEF Settled, Owes, Single
<1>11. Rest(l) = <<>> /\ Further(l) = p.c + 1
  BY <1>1, NoRest
<1>12. Rest(l)' = text /\ Further(l)' = stop + 1
  BY <1>8, <1>9 DEF Rest, Further
<1>13. <<>> \o M[p.c + 1] = M[p.c + 1]
  BY <1>6, NoGlyph
<1>14. Rest(l)' \o M[Further(l)'] = Rest(l) \o M[Further(l)]
  BY <1>5, <1>11, <1>12, <1>13
<1> QED
  BY <1>1, <1>10, <1>14, DrawsNothing DEF Printing

\* A sign of the format string, by its place in it.
LEMMA SignAt ==
    ASSUME ConsoleInv, NEW l \in Line, NEW i \in Nat, Char(l, i) # NUL
    PROVE  i < Len(call[l].fmt) /\ i + 1 \in 1 .. Len(call[l].fmt) /\ call[l].fmt[i + 1] = Char(l, i)
<1>1. i < Len(call[l].fmt) /\ Len(call[l].fmt) \in Nat
  BY LineAt
<1> QED
  BY <1>1 DEF Char, CharAt

\* Each place of the format string, as the steps read it.
LEMMA MeaningAt ==
    ASSUME ConsoleInv, NEW l \in Line, NEW i \in Nat, i <= Len(call[l].fmt)
    PROVE  /\ Meanings(l)[i + 1] \in Seq(Chars)
           /\ <<>> \o Meanings(l)[i + 1] = Meanings(l)[i + 1]
<1>1. Len(call[l].fmt) \in Nat
  BY LineAt
<1>2. i + 1 \in 1 .. Len(call[l].fmt) + 1
  BY <1>1
<1>3. Meanings(l)[i + 1] \in Seq(Chars)
  BY <1>2, LineMeaning DEF ConsoleInv
<1> QED
  BY <1>3, NoGlyph

\* One glyph of a string: the first of what is left of it.
LEMMA DrawWrites ==
    ASSUME ConsoleInv, WrittenInv, NEW l \in Line, Draw(l)
    PROVE  WrittenInv'
<1> DEFINE p == pr[l]
           M == Meanings(l)
           x == Head(p.left)
           Upd(r, t, o) == [r EXCEPT !.left = t, !.off = o]
           q == Upd(p, Tail(p.left), Within(Advance(p.off)))
<1>1. /\ p.pc = "draw" /\ p.left # <<>> /\ Goes(l, q)
      /\ out' = [out EXCEPT ![l] = Append(@, Glyph(x))]
      /\ UNCHANGED <<inputs, call, buffer, mangled>>
  BY DEF Draw, At
<1>2. p \in Progress /\ InStep(p, call[l].fmt) /\ p.c \in Nat /\ p.c <= Len(call[l].fmt)
      /\ Len(call[l].fmt) \in Nat
  BY LineAt
<1>3. p.left \in Seq(Chars)
  BY <1>2, ProgressFields
<1>4. x \in Chars /\ Tail(p.left) \in Seq(Chars) /\ p.left = <<x>> \o Tail(p.left)
  <2>1. ASSUME NEW s \in Seq(Chars), s # <<>>
        PROVE  Head(s) \in Chars /\ Tail(s) \in Seq(Chars) /\ s = <<Head(s)>> \o Tail(s)
    BY <2>1
  <2> QED
    BY <1>1, <1>3, <2>1
<1>5. M[Further(l)] \in Seq(Chars)
  <2>1. CASE p.then = "buffer"
    <3>1. p.c + 1 \in Nat /\ p.c + 1 <= Len(call[l].fmt) /\ (p.c + 1) + 1 = p.c + 2
      BY <1>1, <1>2, <2>1 DEF InStep
    <3>2. Further(l) = p.c + 2
      BY <1>1, <2>1 DEF Further
    <3> QED
      BY <3>1, <3>2, MeaningAt
  <2>2. CASE p.then # "buffer"
    <3>1. Further(l) = p.c + 1
      BY <1>1, <2>2 DEF Further
    <3> QED
      BY <1>2, <3>1, MeaningAt
  <2> QED
    BY <2>1, <2>2
<1>6. ASSUME NEW r \in Progress, NEW t, NEW o
      PROVE  LET s == Upd(r, t, o)
             IN  /\ s.pc = r.pc /\ s.c = r.c /\ s.then = r.then /\ s.left = t /\ s.ptr = r.ptr
                 /\ s.keep = r.keep
  BY DEF Progress
<1> HIDE DEF Upd
<1>7. /\ q.pc = p.pc /\ q.c = p.c /\ q.then = p.then /\ q.left = Tail(p.left) /\ q.ptr = p.ptr
      /\ q.keep = p.keep
  BY <1>2, <1>6
<1>8. pr'[l] = q
  BY <1>1, OtherLine DEF ConsoleInv
<1> HIDE DEF q, x
<1>9. Settled(l, p, q)
  BY <1>1, <1>7 DEF Settled, Owes, Single, WrittenInv, EmptyInv
<1>10. Rest(l) = p.left /\ Rest(l)' = Tail(p.left) /\ Further(l)' = Further(l)
  BY <1>1, <1>7, <1>8 DEF Rest, Further
<1>11. /\ Rest(l)' \o M[Further(l)'] \in Seq(Chars)
       /\ Rest(l) \o M[Further(l)] = <<x>> \o (Rest(l)' \o M[Further(l)'])
  <2> HIDE DEF M
  <2>1. /\ (<<x>> \o Tail(p.left)) \o M[Further(l)] = <<x>> \o (Tail(p.left) \o M[Further(l)])
        /\ Tail(p.left) \o M[Further(l)] \in Seq(Chars)
    BY <1>4, <1>5, FirstGlyph
  <2> QED
    BY <1>4, <1>10, <2>1
<1>12. TypesInv'
  BY DrawKeeps DEF ConsoleInv
<1> QED
  BY <1>1, <1>4, <1>9, <1>11, <1>12, DrawsGlyph DEF Printing

\* A write is over: nothing of it is left.
LEMMA DrawnWrites ==
    ASSUME ConsoleInv, WrittenInv, NEW l \in Line, Drawn(l)
    PROVE  WrittenInv'
<1> DEFINE p == pr[l]
           Upd(r, pc) == [r EXCEPT !.pc = pc]
           q == Upd(p, p.then)
<1>1. p.pc = "draw" /\ p.left = <<>> /\ Goes(l, q) /\ UNCHANGED <<inputs, call, buffer, mangled, out>>
  BY DEF Drawn, At
<1>2. p \in Progress /\ InStep(p, call[l].fmt)
  BY LineAt
<1>3. p.then \in {"switch", "buffer"}
  BY <1>1, <1>2, ProgressFields DEF InStep
<1>4. ASSUME NEW r \in Progress, NEW pc
      PROVE  LET s == Upd(r, pc)
             IN  s.pc = pc /\ s.c = r.c /\ s.ptr = r.ptr /\ s.keep = r.keep
  BY DEF Progress
<1> HIDE DEF Upd
<1>5. q.pc = p.then /\ q.c = p.c /\ q.ptr = p.ptr /\ q.keep = p.keep
  BY <1>2, <1>4
<1>6. pr'[l] = q
  BY <1>1, OtherLine DEF ConsoleInv
<1> HIDE DEF q
<1>7. Settled(l, p, q)
  BY <1>1, <1>3, <1>5 DEF Settled, Owes, Single, WrittenInv, EmptyInv
<1>8. Rest(l) = <<>> /\ Rest(l)' = <<>> /\ Further(l)' = Further(l)
  BY <1>1, <1>3, <1>5, <1>6 DEF Rest, Further
<1> QED
  BY <1>1, <1>7, <1>8, DrawsNothing DEF Printing

\* A newline of the format string means itself.
LEMMA SwitchNewlineWrites ==
    ASSUME ConsoleInv, WrittenInv, NEW l \in Line, SwitchNewline(l)
    PROVE  WrittenInv'
<1> DEFINE p == pr[l]
           fmt == call[l].fmt
           M == Meanings(l)
           Upd(r, c) == [r EXCEPT !.pc = "print", !.c = c]
           q == Upd(p, p.c + 1)
<1>1. /\ p.pc = "switch" /\ Char(l, p.c) = "nl" /\ Goes(l, q)
      /\ out' = [out EXCEPT ![l] = Append(@, Glyph("nl"))]
      /\ UNCHANGED <<inputs, call, buffer, mangled>>
  BY DEF SwitchNewline, At
<1>2. p \in Progress /\ p.c \in Nat /\ Len(fmt) \in Nat
  BY LineAt
<1>3. p.c + 1 \in 1 .. Len(fmt) /\ fmt[p.c + 1] = "nl"
  BY <1>1, <1>2, SignAt DEF NUL
<1>4. M[p.c + 1] = <<"nl">> \o M[(p.c + 1) + 1]
  BY <1>3, LineMeaning DEF Reading, ConsoleInv
<1>5. /\ M[p.c + 1] \in Seq(Chars) /\ <<>> \o M[p.c + 1] = M[p.c + 1]
      /\ M[(p.c + 1) + 1] \in Seq(Chars) /\ <<>> \o M[(p.c + 1) + 1] = M[(p.c + 1) + 1]
  <2>1. p.c <= Len(fmt) /\ p.c + 1 \in Nat /\ p.c + 1 <= Len(fmt)
    BY <1>2, <1>3
  <2> QED
    BY <1>2, <2>1, MeaningAt
<1>6. ASSUME NEW r \in Progress, NEW c
      PROVE  LET s == Upd(r, c) IN s.pc = "print" /\ s.c = c /\ s.ptr = r.ptr
  BY DEF Progress
<1> HIDE DEF Upd
<1>7. q.pc = "print" /\ q.c = p.c + 1 /\ q.ptr = p.ptr
  BY <1>2, <1>6
<1>8. pr'[l] = q
  BY <1>1, OtherLine DEF ConsoleInv
<1> HIDE DEF q
<1>9. Settled(l, p, q)
  BY <1>1, <1>7 DEF Settled, Owes, Single
<1>10. Rest(l) = <<>> /\ Further(l) = p.c + 1 /\ Rest(l)' = <<>> /\ Further(l)' = (p.c + 1) + 1
  BY <1>1, <1>7, <1>8, NoRest, NoRestNext
<1>11. /\ Rest(l)' \o M[Further(l)'] \in Seq(Chars)
       /\ Rest(l) \o M[Further(l)] = <<"nl">> \o (Rest(l)' \o M[Further(l)'])
  BY <1>4, <1>5, <1>10
<1>12. TypesInv' /\ "nl" \in Chars
  BY SwitchNewlineKeeps, CharsAssumption DEF ConsoleInv
<1> QED
  BY <1>1, <1>9, <1>11, <1>12, DrawsGlyph DEF Printing

\* The end of the format string, at the character after a write.
LEMMA SwitchEndWrites ==
    ASSUME ConsoleInv, WrittenInv, NEW l \in Line, SwitchEnd(l)
    PROVE  WrittenInv'
<1> DEFINE p == pr[l]
           Upd(r) == [r EXCEPT !.pc = "print"]
           q == Upd(p)
<1>1. p.pc = "switch" /\ Goes(l, q) /\ UNCHANGED <<inputs, call, buffer, mangled, out>>
  BY DEF SwitchEnd, At
<1>2. p \in Progress
  BY LineAt
<1>3. ASSUME NEW r \in Progress
      PROVE  LET s == Upd(r) IN s.pc = "print" /\ s.c = r.c /\ s.ptr = r.ptr
  BY DEF Progress
<1> HIDE DEF Upd
<1>4. q.pc = "print" /\ q.c = p.c /\ q.ptr = p.ptr
  BY <1>2, <1>3
<1>5. pr'[l] = q
  BY <1>1, OtherLine DEF ConsoleInv
<1> HIDE DEF q
<1>6. Settled(l, p, q)
  BY <1>1, <1>4 DEF Settled, Owes, Single
<1>7. Rest(l)' = Rest(l) /\ Further(l)' = Further(l)
  BY <1>1, <1>4, <1>5, NoRest, NoRestNext
<1> QED
  BY <1>1, <1>6, <1>7, DrawsNothing DEF Printing

\* %s means the string.
LEMMA SwitchStringWrites ==
    ASSUME StringArgument # NullString, ConsoleInv, WrittenInv, NEW l \in Line, SwitchString(l)
    PROVE  WrittenInv'
<1> DEFINE p == pr[l]
           fmt == call[l].fmt
           M == Meanings(l)
           off == IF StringArgument = NullString THEN <<65535, 65535>> ELSE cursor
           Upd(r, c, t, o) == [r EXCEPT !.pc = "draw", !.c = c, !.keep = TRUE, !.left = t,
                                        !.off = o, !.then = "buffer"]
           q == Upd(p, p.c + 1, StringArgument, off)
<1>1. /\ p.pc = "switch" /\ Char(l, p.c) = "%" /\ Char(l, p.c + 1) = "s" /\ Goes(l, q)
      /\ UNCHANGED <<inputs, call, buffer, mangled, out>>
  BY DEF SwitchString, At
<1>2. p \in Progress /\ p.c \in Nat /\ Len(fmt) \in Nat
  BY LineAt
<1>3. p.c + 1 \in 1 .. Len(fmt) /\ fmt[p.c + 1] = "%"
  BY <1>1, <1>2, SignAt DEF NUL
<1>4. p.c + 1 < Len(fmt) /\ fmt[(p.c + 1) + 1] = "s"
  <2>1. p.c + 1 \in Nat /\ Char(l, p.c + 1) # NUL
    BY <1>1, <1>2 DEF NUL
  <2> QED
    BY <1>1, <2>1, SignAt
<1>5. M[p.c + 1] = StringArgument \o M[(p.c + 1) + 2]
  BY <1>3, <1>4, LineMeaning DEF Reading, ConsoleInv
<1>6. <<>> \o M[p.c + 1] = M[p.c + 1]
  <2>1. p.c <= Len(fmt)
    BY <1>2, <1>3
  <2> QED
    BY <1>2, <2>1, MeaningAt
<1>7. ASSUME NEW r \in Progress, NEW c, NEW t, NEW o
      PROVE  LET s == Upd(r, c, t, o)
             IN  /\ s.pc = "draw" /\ s.then = "buffer" /\ s.c = c /\ s.left = t /\ s.ptr = r.ptr
                 /\ s.keep
  BY DEF Progress
<1> HIDE DEF Upd, off
<1>8. /\ q.pc = "draw" /\ q.then = "buffer" /\ q.c = p.c + 1 /\ q.left = StringArgument
      /\ q.ptr = p.ptr /\ q.keep
  BY <1>2, <1>7
<1>9. pr'[l] = q
  BY <1>1, OtherLine DEF ConsoleInv
<1> HIDE DEF q
<1>10. Settled(l, p, q)
  BY <1>1, <1>8 DEF Settled, Owes, Single
<1>11. Rest(l) = <<>> /\ Further(l) = p.c + 1
  BY <1>1, NoRest
<1>12. Rest(l)' = StringArgument /\ Further(l)' = (p.c + 1) + 2
  BY <1>8, <1>9 DEF Rest, Further
<1>13. Rest(l)' \o M[Further(l)'] = Rest(l) \o M[Further(l)]
  BY <1>5, <1>6, <1>11, <1>12
<1> QED
  BY <1>1, <1>10, <1>13, DrawsNothing DEF Printing

\* %c means the character.
LEMMA SwitchCharWrites ==
    ASSUME ConsoleInv, WrittenInv, NEW l \in Line, SwitchChar(l)
    PROVE  WrittenInv'
<1> DEFINE p == pr[l]
           fmt == call[l].fmt
           M == Meanings(l)
           Upd(r, c) == [r EXCEPT !.pc = "buffer", !.c = c, !.keep = TRUE]
           q == Upd(p, p.c + 1)
<1>1. /\ p.pc = "switch" /\ Char(l, p.c) = "%" /\ Char(l, p.c + 1) = "c" /\ Goes(l, q)
      /\ out' = [out EXCEPT ![l] = Append(@, Glyph("c"))]
      /\ UNCHANGED <<inputs, call, buffer, mangled>>
  BY DEF SwitchChar, At, WriteChar
<1>2. p \in Progress /\ p.c \in Nat /\ Len(fmt) \in Nat
  BY LineAt
<1>3. p.c + 1 \in 1 .. Len(fmt) /\ fmt[p.c + 1] = "%"
  BY <1>1, <1>2, SignAt DEF NUL
<1>4. p.c + 1 < Len(fmt) /\ fmt[(p.c + 1) + 1] = "c"
  <2>1. p.c + 1 \in Nat /\ Char(l, p.c + 1) # NUL
    BY <1>1, <1>2 DEF NUL
  <2> QED
    BY <1>1, <2>1, SignAt
<1>5. M[p.c + 1] = <<"c">> \o M[(p.c + 1) + 2]
  BY <1>3, <1>4, LineMeaning DEF Reading, ConsoleInv
<1>6. /\ <<>> \o M[p.c + 1] = M[p.c + 1] /\ M[(p.c + 1) + 2] \in Seq(Chars)
      /\ <<>> \o M[(p.c + 1) + 2] = M[(p.c + 1) + 2]
  <2>1. p.c <= Len(fmt) /\ p.c + 2 \in Nat /\ p.c + 2 <= Len(fmt) /\ (p.c + 1) + 2 = (p.c + 2) + 1
    BY <1>2, <1>4
  <2> QED
    BY <1>2, <2>1, MeaningAt
<1>7. ASSUME NEW r \in Progress, NEW c
      PROVE  LET s == Upd(r, c) IN s.pc = "buffer" /\ s.c = c /\ s.ptr = r.ptr /\ s.keep
  BY DEF Progress
<1> HIDE DEF Upd
<1>8. q.pc = "buffer" /\ q.c = p.c + 1 /\ q.ptr = p.ptr /\ q.keep
  BY <1>2, <1>7
<1>9. pr'[l] = q
  BY <1>1, OtherLine DEF ConsoleInv
<1> HIDE DEF q
<1>10. Settled(l, p, q)
  BY <1>1, <1>8 DEF Settled, Owes, Single
<1>11. Rest(l) = <<>> /\ Further(l) = p.c + 1 /\ Rest(l)' = <<>> /\ Further(l)' = (p.c + 1) + 2
  BY <1>1, <1>8, <1>9, NoRest, NoRestNext
<1>12. /\ Rest(l)' \o M[Further(l)'] \in Seq(Chars)
       /\ Rest(l) \o M[Further(l)] = <<"c">> \o (Rest(l)' \o M[Further(l)'])
  BY <1>5, <1>6, <1>11
<1>13. TypesInv' /\ "c" \in Chars
  BY SwitchCharKeeps, CharsAssumption DEF ConsoleInv
<1> QED
  BY <1>1, <1>10, <1>12, <1>13, DrawsGlyph DEF Printing

\* A lone % means itself, and the character after it is read again.
LEMMA SwitchOtherWrites ==
    ASSUME ConsoleInv, WrittenInv, NEW l \in Line, SwitchOther(l)
    PROVE  WrittenInv'
<1> DEFINE p == pr[l]
           fmt == call[l].fmt
           M == Meanings(l)
           Upd(r, e) == [r EXCEPT !.pc = "buffer", !.keep = TRUE, !.end = e, !.start = e]
           q == Upd(p, p.end - 1)
<1>1. /\ p.pc = "switch" /\ Char(l, p.c) = "%" /\ Char(l, p.c + 1) \notin Specifiers
      /\ Goes(l, q) /\ out' = [out EXCEPT ![l] = Append(@, Glyph("%"))]
      /\ UNCHANGED <<inputs, call, buffer, mangled>>
  BY DEF SwitchOther, At, WriteChar, StepBack
<1>2. p \in Progress /\ p.c \in Nat /\ Len(fmt) \in Nat
  BY LineAt
<1>3. p.c + 1 \in 1 .. Len(fmt) /\ fmt[p.c + 1] = "%"
  BY <1>1, <1>2, SignAt DEF NUL
<1>4. ~(p.c + 1 < Len(fmt) /\ fmt[(p.c + 1) + 1] \in Specifiers)
  BY <1>1, <1>2 DEF Char, CharAt
<1>5. M[p.c + 1] = <<"%">> \o M[(p.c + 1) + 1]
  BY <1>3, <1>4, LineMeaning DEF Reading, ConsoleInv
<1>6. /\ <<>> \o M[p.c + 1] = M[p.c + 1] /\ M[(p.c + 1) + 1] \in Seq(Chars)
      /\ <<>> \o M[(p.c + 1) + 1] = M[(p.c + 1) + 1]
  <2>1. p.c <= Len(fmt) /\ p.c + 1 \in Nat /\ p.c + 1 <= Len(fmt)
    BY <1>2, <1>3
  <2> QED
    BY <1>2, <2>1, MeaningAt
<1>7. ASSUME NEW r \in Progress, NEW e
      PROVE  LET s == Upd(r, e) IN s.pc = "buffer" /\ s.c = r.c /\ s.ptr = r.ptr /\ s.keep
  BY DEF Progress
<1> HIDE DEF Upd
<1>8. q.pc = "buffer" /\ q.c = p.c /\ q.ptr = p.ptr /\ q.keep
  BY <1>2, <1>7
<1>9. pr'[l] = q
  BY <1>1, OtherLine DEF ConsoleInv
<1> HIDE DEF q
<1>10. Settled(l, p, q)
  BY <1>1, <1>8 DEF Settled, Owes, Single
<1>11. Rest(l) = <<>> /\ Further(l) = p.c + 1 /\ Rest(l)' = <<>> /\ Further(l)' = (p.c + 1) + 1
  <2>1. p.c + 2 = (p.c + 1) + 1
    BY <1>2
  <2> QED
    BY <1>1, <1>8, <1>9, <2>1, NoRest, NoRestNext
<1>12. /\ Rest(l)' \o M[Further(l)'] \in Seq(Chars)
       /\ Rest(l) \o M[Further(l)] = <<"%">> \o (Rest(l)' \o M[Further(l)'])
  BY <1>5, <1>6, <1>11
<1>13. TypesInv' /\ "%" \in Chars
  BY SwitchOtherKeeps, CharsAssumption DEF ConsoleInv
<1> QED
  BY <1>1, <1>10, <1>12, <1>13, DrawsGlyph DEF Printing

\* The write of the conversion buffer begins: it has nothing to draw.
LEMMA ShowBufferWrites ==
    ASSUME ConsoleInv, WrittenInv, NEW l \in Line, ShowBuffer(l)
    PROVE  WrittenInv'
<1> DEFINE p == pr[l]
           Upd(r, a, o) == [r EXCEPT !.pc = "show", !.at = a, !.off = o]
           q == Upd(p, p.ptr, cursor)
<1>1. p.pc = "buffer" /\ Goes(l, q) /\ UNCHANGED <<inputs, call, buffer, mangled, out>>
  BY DEF ShowBuffer, At
<1>2. p \in Progress /\ p.keep
  BY <1>1, LineAt DEF WrittenInv, EmptyInv
<1>3. ASSUME NEW r \in Progress, NEW a, NEW o
      PROVE  LET s == Upd(r, a, o)
             IN  s.pc = "show" /\ s.c = r.c /\ s.ptr = r.ptr /\ s.keep = r.keep /\ s.at = a
  BY DEF Progress
<1> HIDE DEF Upd
<1>4. q.pc = "show" /\ q.c = p.c /\ q.ptr = p.ptr /\ q.keep = p.keep /\ q.at = p.ptr
  <2> HIDE DEF p
  <2> QED
    BY <1>2, <1>3
<1>5. pr'[l] = q
  BY <1>1, OtherLine DEF ConsoleInv
<1> HIDE DEF q
<1>6. Settled(l, p, q)
  BY <1>1, <1>2, <1>4 DEF Settled, Owes, Single
<1>7. Rest(l) = <<>> /\ Rest(l)' = <<>> /\ Further(l)' = Further(l)
  BY <1>1, <1>2, <1>4, <1>5 DEF Rest, Further
<1> QED
  BY <1>1, <1>6, <1>7, DrawsNothing DEF Printing

\* The number a line shows, character by character from the front.
LEMMA ShownNumber ==
    ASSUME ConsoleInv, WrittenInv, NEW l \in Line, pr[l].pc = "show", ~pr[l].keep, Undisturbed(l)
    PROVE  LET text == Text(l, Char(l, pr[l].c))
               n    == Len(text)
           IN  /\ text \in Seq(Chars) /\ n \in Nat /\ pr[l].ptr = n /\ pr[l].at \in 0 .. n
               /\ pr[l].at # 0 => /\ buffer[pr[l].at] = text[n + 1 - pr[l].at]
                                  /\ text[n + 1 - pr[l].at] \in Chars
                                  /\ text[n + 1 - pr[l].at] # NUL
               /\ buffer[0] = NUL
<1> DEFINE text == Text(l, Char(l, pr[l].c))
           n == Len(text)
           a == pr[l].at
<1>1. Held(l, pr[l], buffer) /\ buffer[0] = NUL
  BY DEF WrittenInv, NumberInv, EmptyInv, Held, Conversion
<1>2. Char(l, pr[l].c) \in Numeric /\ pr[l].ptr = n /\ a \in 0 .. n
      /\ \A k \in 1 .. n : buffer[k] = text[n + 1 - k]
  BY <1>1 DEF Held
<1>3. text \in Seq(Chars \ {NUL})
  <2>1. Number(l) \in Word /\ format_align_pad \in Alignments
    BY LineMeaning DEF ConsoleInv
  <2> QED
    BY <1>2, <2>1, BufferAssumption DEF Text
<1> HIDE DEF text
<1>4. text \in Seq(Chars) /\ n \in Nat /\ \A i \in 1 .. n : text[i] \in Chars /\ text[i] # NUL
  BY <1>3, CString
<1>5. a # 0 => a \in 1 .. n /\ n + 1 - a \in 1 .. n
  BY <1>2, <1>4
<1> QED
  BY <1>1, <1>2, <1>4, <1>5 DEF text

\* A line that owes no number finds nothing in the buffer.
LEMMA NothingFound ==
    ASSUME ConsoleInv, WrittenInv, NEW l \in Line, Runs(l), pr[l].pc = "show", pr[l].keep
    PROVE  Found(l) = NUL
<1>1. pr[l].at = pr[l].ptr /\ pr[l].ptr \in 0 .. BufferLength
  <2>1. pr[l] \in Progress
    BY LineAt
  <2> QED
    BY <2>1, ProgressFields DEF WrittenInv, EmptyInv
<1> SUFFICES ASSUME pr[l].ptr # 0 PROVE buffer[pr[l].ptr] = NUL
  BY <1>1 DEF Found
<1>2. CASE l = "irq"
  <2>1. ~Owes(pr["irq"]) /\ pr["irq"].ptr \in 0 .. pr["irq"].ptr
    BY <1>1, <1>2, Sizes DEF Owes
  <2> QED
    BY <1>2, <2>1 DEF WrittenInv, EmptyInv
<1>3. CASE l = "main"
  <2>1. \A m \in Line : ~Owes(pr[m])
    BY <1>3 DEF Line, Runs, Owes
  <2> QED
    BY <1>1, <2>1 DEF ConsoleInv, BufferInv
<1> QED
  BY <1>2, <1>3 DEF Line

\* The buffer's text is over: all of it is drawn.
LEMMA ShownWrites ==
    ASSUME ConsoleInv, WrittenInv, NEW l \in Line, Shown(l)
    PROVE  WrittenInv'
<1> DEFINE p == pr[l]
           pc == IF p.keep THEN "print" ELSE "clean"
           Upd(r, n, c, e) == [r EXCEPT !.pc = n, !.c = c, !.end = e, !.start = e]
           q == Upd(p, pc, p.c + 1, p.end + 1)
<1>1. /\ p.pc = "show" /\ Found(l) = NUL /\ Goes(l, q)
      /\ UNCHANGED <<inputs, call, buffer, mangled, out>>
  BY DEF Shown, At
<1>2. p \in Progress /\ p.c \in Nat
  BY LineAt
<1>3. ASSUME NEW r \in Progress, NEW n, NEW c, NEW e
      PROVE  LET s == Upd(r, n, c, e)
             IN  s.pc = n /\ s.c = c /\ s.ptr = r.ptr /\ s.keep = r.keep
  BY DEF Progress
<1>4. pc \in {"print", "clean"} /\ (~p.keep => pc = "clean")
  OBVIOUS
<1> HIDE DEF Upd, pc
<1>5. q.pc = pc /\ q.c = p.c + 1 /\ q.ptr = p.ptr /\ q.keep = p.keep
  <2> HIDE DEF p
  <2> QED
    BY <1>2, <1>3
<1>6. pr'[l] = q
  BY <1>1, OtherLine DEF ConsoleInv
<1> HIDE DEF q
<1>7. Settled(l, p, q)
  BY <1>1, <1>4, <1>5 DEF Settled, Owes, Single
<1>8. Undisturbed(l) => Rest(l) = <<>>
  <2>1. CASE p.keep
    BY <1>1, <2>1 DEF Rest
  <2>2. ASSUME ~p.keep, Undisturbed(l) PROVE Rest(l) = <<>>
    <3> DEFINE text == Text(l, Char(l, p.c))
               n == Len(text)
    <3>1. /\ text \in Seq(Chars) /\ n \in Nat /\ p.ptr = n /\ p.at \in 0 .. n
          /\ p.at # 0 => buffer[p.at] # NUL
      BY <1>1, <2>2, ShownNumber
    <3>2. Rest(l) = SubSeq(text, n + 1 - p.at, n)
      BY <1>1, <2>2 DEF Rest, Conversion
    <3> HIDE DEF text
    <3>3. p.at = 0
      <4>1. p.at # 0 => p.ptr # 0 /\ ~(p.at < 0)
        BY <3>1
      <4> QED
        BY <1>1, <3>1, <4>1 DEF Found
    <3>4. n + 1 - p.at \in Int /\ n \in Int /\ n < n + 1 - p.at
      BY <3>1, <3>3
    <3> QED
      BY <3>2, <3>4, SubSeqEmpty
  <2> QED
    BY <2>1, <2>2
<1>9. Rest(l)' = <<>> /\ Further(l)' = Further(l)
  <2>1. Rest(l)' = <<>> /\ Further(l)' = (p.c + 1) + 1
    BY <1>4, <1>5, <1>6, NoRestNext
  <2>2. Further(l) = p.c + 2 /\ p.c + 2 = (p.c + 1) + 1
    BY <1>1, <1>2 DEF Further
  <2> QED
    BY <2>1, <2>2
<1> QED
  BY <1>1, <1>7, <1>8, <1>9, DrawsNothing DEF Printing

\* One character of a number: the next of its text.
LEMMA ShowWrites ==
    ASSUME ConsoleInv, WrittenInv, NEW l \in Line, Show(l)
    PROVE  WrittenInv'
<1> DEFINE p == pr[l]
           fmt == call[l].fmt
           M == Meanings(l)
           x == Found(l)
           text == Text(l, Char(l, p.c))
           n == Len(text)
           Upd(r, a, o) == [r EXCEPT !.at = a, !.off = o]
           q == Upd(p, p.at - 1, Within(Advance(p.off)))
<1>1. /\ Runs(l) /\ p.pc = "show" /\ x # NUL /\ Goes(l, q)
      /\ out' = [out EXCEPT ![l] = Append(@, Glyph(x))]
      /\ UNCHANGED <<inputs, call, buffer, mangled>>
  BY DEF Show, At
<1>2. /\ p \in Progress /\ InStep(p, fmt) /\ p.c \in Nat /\ Len(fmt) \in Nat /\ ~p.keep
      /\ TypesInv /\ NumberInv /\ EmptyInv /\ TextInv
  BY <1>1, LineAt, NothingFound DEF ConsoleInv, WrittenInv
<1>3. ASSUME NEW r \in Progress, NEW a, NEW o
      PROVE  LET s == Upd(r, a, o)
             IN  /\ s.pc = r.pc /\ s.c = r.c /\ s.then = r.then /\ s.ptr = r.ptr
                 /\ s.keep = r.keep /\ s.at = a
  BY DEF Progress
<1> HIDE DEF Upd
<1>4. /\ q.pc = p.pc /\ q.c = p.c /\ q.then = p.then /\ q.ptr = p.ptr
      /\ q.keep = p.keep /\ q.at = p.at - 1
  <2> HIDE DEF p
  <2> QED
    BY <1>2, <1>3
<1>5. pr'[l] = q /\ \A m \in Line : m # l => pr'[m] = pr[m]
  BY <1>1, <1>2, OtherLine
<1>6. out'[l] = Append(out[l], Glyph(x)) /\ \A m \in Line : m # l => out'[m] = out[m]
  BY <1>1, <1>2 DEF TypesInv
<1>7. Undisturbed(l) =>
        /\ text \in Seq(Chars) /\ n \in Nat /\ p.at \in 1 .. n /\ p.ptr = n
        /\ x = text[n + 1 - p.at] /\ x \in Chars
  <2> SUFFICES ASSUME Undisturbed(l)
               PROVE  /\ text \in Seq(Chars) /\ n \in Nat /\ p.at \in 1 .. n /\ p.ptr = n
                      /\ x = text[n + 1 - p.at] /\ x \in Chars
    OBVIOUS
  <2>1. /\ text \in Seq(Chars) /\ n \in Nat /\ p.ptr = n /\ p.at \in 0 .. n
        /\ p.at # 0 => buffer[p.at] = text[n + 1 - p.at] /\ text[n + 1 - p.at] \in Chars
        /\ buffer[0] = NUL
    BY <1>1, <1>2, ShownNumber
  <2>2. x = buffer[p.at]
    BY <1>1 DEF Found
  <2>3. p.at # 0
    BY <1>1, <2>1, <2>2
  <2> HIDE DEF text, x
  <2> QED
    BY <2>1, <2>2, <2>3
<1> HIDE DEF q
<1>8. NumberInv'
  <2> SUFFICES ASSUME NEW m \in Line, Undisturbed(m)', pr'[m].pc \in {"convert", "show"},
                      ~pr'[m].keep
               PROVE  Held(m, pr[m], buffer)'
    BY DEF NumberInv, Held, Conversion
  <2>1. Undisturbed(m) /\ pr'[m].c = pr[m].c /\ pr'[m].pc = pr[m].pc /\ pr'[m].keep = pr[m].keep
        /\ pr'[m].ptr = pr[m].ptr
    BY <1>1, <1>4, <1>5 DEF Undisturbed
  <2>2. Held(m, pr[m], buffer)
    BY <1>2, <2>1 DEF NumberInv, Held, Conversion
  <2>3. /\ Text(m, Char(m, pr[m].c))' = Text(m, Char(m, pr[m].c))
        /\ Char(m, pr[m].c)' = Char(m, pr[m].c)
    BY <1>1, <2>1 DEF Text, Char, Number, inputs
  <2>4. pr'[m].pc = "show" => pr'[m].at \in 0 .. Len(Text(m, Char(m, pr[m].c)))
    <3>1. CASE m = l
      <4>1. n \in Nat /\ p.at \in 1 .. n
        BY <1>7, <2>1, <3>1
      <4> HIDE DEF n
      <4>2. p.at - 1 \in 0 .. n
        BY <4>1
      <4> QED
        BY <1>4, <1>5, <3>1, <4>2 DEF n
    <3>2. CASE m # l
      BY <1>5, <2>1, <2>2, <3>2 DEF Held
    <3> QED
      BY <3>1, <3>2
  <2> QED
    BY <1>1, <2>1, <2>2, <2>3, <2>4 DEF Held
<1>9. EmptyInv'
  <2>1. \A m \in Line : /\ pr'[m].pc = pr[m].pc /\ pr'[m].keep = pr[m].keep /\ pr'[m].ptr = pr[m].ptr
                        /\ pr'[m].then = pr[m].then
                        /\ pr'[m].keep => pr'[m].at = pr[m].at
    BY <1>2, <1>4, <1>5
  <2>2. "main" \in Line /\ "irq" \in Line
    BY DEF Line
  <2>3. Owes(pr["irq"])' = Owes(pr["irq"])
    BY <2>1, <2>2 DEF Owes
  <2> QED
    BY <1>1, <1>2, <2>1, <2>2, <2>3 DEF EmptyInv
<1>10. ASSUME Undisturbed(l) PROVE Written(l)'
  <2>1. Rest(l) = SubSeq(text, n + 1 - p.at, n) /\ Further(l) = p.c + 2
    BY <1>1, <1>2 DEF Rest, Further, Conversion
  <2>2. Rest(l)' = SubSeq(text, n + 1 - (p.at - 1), n) /\ Further(l)' = p.c + 2
    <3>1. Text(l, Char(l, pr[l].c))' = text
      BY <1>1, <1>4, <1>5 DEF Text, Char, Number, inputs
    <3>2. Rest(l)' = LET t == Text(l, Char(l, pr[l].c))'
                     IN  SubSeq(t, Len(t) + 1 - (p.at - 1), Len(t))
      BY <1>1, <1>2, <1>4, <1>5 DEF Rest, Conversion
    <3> HIDE DEF text
    <3>3. Rest(l)' = SubSeq(text, n + 1 - (p.at - 1), n)
      BY <3>1, <3>2, Zenon
    <3>4. Further(l)' = p.c + 2
      BY <1>1, <1>4, <1>5 DEF Further
    <3> QED
      BY <3>3, <3>4
  <2> DEFINE i == n + 1 - p.at
             s == SubSeq(text, i + 1, n)
  <2>3. text \in Seq(Chars) /\ n \in Nat /\ p.at \in 1 .. n /\ x = text[i] /\ x \in Chars
    BY <1>7, <1>10
  <2> HIDE DEF text, x
  <2>4. i \in 1 .. Len(text) /\ n \in i .. Len(text) /\ n + 1 - (p.at - 1) = i + 1
        /\ i + 1 \in Int /\ n \in Int
    BY <2>3
  <2> HIDE DEF n, i
  <2>5. Rest(l) = <<x>> \o s /\ Rest(l)' = s
    <3>1. SubSeq(text, i, n) = <<text[i]>> \o SubSeq(text, i + 1, n)
      BY <2>3, <2>4, SubSeqRecursiveFirst
    <3> QED
      BY <2>1, <2>2, <2>3, <2>4, <3>1 DEF i
  <2>6. s \in Seq(Chars)
    <3>1. \A k \in (i + 1) .. n : text[k] \in Chars
      BY <2>3, <2>4 DEF n
    <3> QED
      BY <2>4, <3>1, SubSeqProperties
  <2>7. M[p.c + 2] \in Seq(Chars)
    <3>1. p.c + 1 \in Nat /\ p.c + 1 <= Len(fmt) /\ (p.c + 1) + 1 = p.c + 2
      BY <1>1, <1>2 DEF InStep
    <3> QED
      BY <3>1, MeaningAt
  <2> HIDE DEF s, M
  <2>8. (<<x>> \o s) \o M[p.c + 2] = <<x>> \o (s \o M[p.c + 2]) /\ s \o M[p.c + 2] \in Seq(Chars)
    BY <2>3, <2>6, <2>7, FirstGlyph
  <2>9. /\ Rest(l)' \o M[Further(l)'] \in Seq(Chars)
        /\ Rest(l) \o M[Further(l)] = <<x>> \o (Rest(l)' \o M[Further(l)'])
    BY <2>1, <2>2, <2>5, <2>8
  <2>10. Written(l)
    BY <1>1, <1>2, <1>10 DEF TextInv, Printing
  <2>11. TypesInv'
    BY ShowKeeps DEF ConsoleInv
  <2> QED
    BY <1>1, <1>2, <1>6, <2>3, <2>9, <2>10, <2>11, GlyphText DEF M
<1>11. TextInv'
  <2>1. Undisturbed(l)' => Written(l)'
    BY <1>1, <1>10 DEF Undisturbed
  <2> QED
    BY <1>1, <1>2, <1>6, <2>1, TextStep
<1> QED
  BY <1>8, <1>9, <1>11 DEF WrittenInv

\* A numeric specifier is met: what it means is the number's text, of which nothing is
\* converted yet.
LEMMA SwitchNumberWrites ==
    ASSUME ConsoleInv, WrittenInv, NEW l \in Line, SwitchNumber(l)
    PROVE  WrittenInv'
<1> DEFINE p == pr[l]
           fmt == call[l].fmt
           M == Meanings(l)
           text == Text(l, Char(l, p.c + 1))
           Upd(r, c) == [r EXCEPT !.pc = "convert", !.c = c, !.ptr = 0]
           q == Upd(p, p.c + 1)
<1>1. /\ Runs(l) /\ p.pc = "switch" /\ Char(l, p.c) = "%" /\ Char(l, p.c + 1) \in Numeric
      /\ Goes(l, q) /\ UNCHANGED <<inputs, call, out, buffer, mangled>>
  BY DEF SwitchNumber, At
<1>2. /\ p \in Progress /\ InStep(p, fmt) /\ p.c \in Nat /\ Len(fmt) \in Nat
      /\ TypesInv /\ NumberInv /\ EmptyInv /\ TextInv
  BY LineAt DEF ConsoleInv, WrittenInv
<1>4. p.c + 1 \in 1 .. Len(fmt) /\ fmt[p.c + 1] = "%"
  BY <1>1, <1>2, SignAt DEF NUL
<1>5. p.c + 1 \in Nat /\ p.c + 1 < Len(fmt) /\ fmt[(p.c + 1) + 1] = Char(l, p.c + 1)
  <2>1. p.c + 1 \in Nat /\ Char(l, p.c + 1) # NUL
    BY <1>1, <1>2 DEF NUL, Numeric
  <2> QED
    BY <1>1, <2>1, SignAt
<1>6. M[p.c + 1] = text \o M[(p.c + 1) + 2]
  <2>1. Reading(M, fmt, Number(l), format_align_pad)
    BY <1>2, LineMeaning
  <2> HIDE DEF M
  <2>2. M[p.c + 1] = Formatted(Number(l), format_align_pad, fmt[(p.c + 1) + 1]) \o M[(p.c + 1) + 2]
    BY <1>1, <1>4, <1>5, <2>1 DEF Reading
  <2> QED
    BY <1>5, <2>2 DEF Text
<1>7. <<>> \o M[p.c + 1] = M[p.c + 1]
  <2>1. p.c <= Len(fmt)
    BY <1>2, <1>4
  <2> QED
    BY <1>2, <2>1, MeaningAt
<1>8. Len(text) \in Nat
  <2>1. Number(l) \in Word /\ format_align_pad \in Alignments
    BY <1>2, LineMeaning
  <2>2. text \in Seq(Chars \ {NUL})
    BY <1>1, <2>1, BufferAssumption DEF Text
  <2> HIDE DEF text
  <2> QED
    BY <2>2, CString
<1>9. ASSUME NEW r \in Progress, NEW c
      PROVE  LET s == Upd(r, c)
             IN  s.pc = "convert" /\ s.c = c /\ s.ptr = 0 /\ s.keep = r.keep
  BY DEF Progress
<1> HIDE DEF Upd
<1>10. q.pc = "convert" /\ q.c = p.c + 1 /\ q.ptr = 0 /\ ~q.keep
  <2>1. ~p.keep
    BY <1>1, <1>2 DEF InStep
  <2> HIDE DEF p
  <2> QED
    BY <1>2, <1>9, <2>1
<1>11. pr'[l] = q /\ \A m \in Line : m # l => pr'[m] = pr[m]
  BY <1>1, <1>2, OtherLine
<1>12. Text(l, Char(l, pr[l].c))' = text /\ Char(l, pr[l].c)' = Char(l, p.c + 1)
  BY <1>1, <1>10, <1>11 DEF Text, Char, Number, inputs
<1> HIDE DEF q, text
<1>14. NumberInv'
  <2> SUFFICES ASSUME NEW m \in Line, Undisturbed(m)', pr'[m].pc \in {"convert", "show"},
                      ~pr'[m].keep
               PROVE  Held(m, pr[m], buffer)'
    BY DEF NumberInv, Held, Conversion
  <2>1. CASE m = l
    <3>1. 0 \in 0 .. Len(text) /\ \A k : k \notin 1 .. 0
      BY <1>8
    <3>2. pr'[l].ptr = 0 /\ pr'[l].pc # "show"
      BY <1>10, <1>11
    <3> QED
      BY <1>1, <1>12, <2>1, <3>1, <3>2 DEF Held
  <2>2. CASE m # l
    <3>1. pr'[m] = pr[m] /\ Undisturbed(m)
      BY <1>1, <1>11, <2>2 DEF Undisturbed
    <3>2. Held(m, pr[m], buffer)
      BY <1>2, <3>1 DEF NumberInv, Held, Conversion
    <3>3. /\ Text(m, Char(m, pr[m].c))' = Text(m, Char(m, pr[m].c))
          /\ Char(m, pr[m].c)' = Char(m, pr[m].c)
      BY <1>1, <3>1 DEF Text, Char, Number, inputs
    <3> QED
      BY <1>1, <3>1, <3>2, <3>3 DEF Held
  <2> QED
    BY <2>1, <2>2
<1>15. EmptyInv'
  <2>1. \A m \in Line :
          /\ pr'[m].pc = "buffer" \/ (pr'[m].pc = "draw" /\ pr'[m].then = "buffer") => pr'[m].keep
          /\ pr'[m].pc = "show" /\ pr'[m].keep => pr'[m].at = pr'[m].ptr
    BY <1>2, <1>10, <1>11 DEF EmptyInv
  <2>2. CASE l = "main"
    <3>1. pr'["irq"] = pr["irq"] /\ pr["irq"].pc = "idle" /\ pr["irq"].ptr = 0
      BY <1>1, <1>2, <1>11, <2>2 DEF Line, Runs, EmptyInv
    <3> QED
      BY <1>1, <1>2, <2>1, <3>1 DEF EmptyInv, Single
  <2>3. CASE l = "irq"
    <3>1. pr'["irq"].ptr = 0 /\ pr'["irq"].pc = "convert"
      BY <1>10, <1>11, <2>3
    <3> QED
      BY <1>1, <1>2, <2>1, <3>1 DEF EmptyInv, Single
  <2> QED
    BY <2>2, <2>3 DEF Line
<1>16. TextInv'
  <2>1. Rest(l) = <<>> /\ Further(l) = p.c + 1
    BY <1>1, NoRest
  <2>2. Rest(l)' = text /\ Further(l)' = (p.c + 1) + 2
    <3>1. Rest(l)' = Conversion(l)'
      BY <1>10, <1>11 DEF Rest
    <3>2. Conversion(l)' = text
      BY <1>12 DEF Conversion
    <3>3. Further(l)' = (p.c + 1) + 2
      BY <1>10, <1>11 DEF Further
    <3> QED
      BY <3>1, <3>2, <3>3
  <2>3. Rest(l)' \o M[Further(l)'] = Rest(l) \o M[Further(l)]
    BY <1>6, <1>7, <2>1, <2>2
  <2>4. ASSUME Undisturbed(l)' PROVE Written(l)'
    <3>1. Written(l)
      BY <1>1, <1>2, <2>4 DEF TextInv, Undisturbed, Printing
    <3> QED
      BY <1>1, <2>3, <3>1, SameText
  <2> QED
    BY <1>1, <1>2, <2>4, TextStep
<1> QED
  BY <1>14, <1>15, <1>16 DEF WrittenInv

\* A character is converted.  A handler's first one leaves the main line's number
\* disturbed, if any of it is in the buffer.
LEMMA ConvertWrites ==
    ASSUME ConsoleInv, WrittenInv, NEW l \in Line, Convert(l)
    PROVE  WrittenInv'
<1> DEFINE p == pr[l]
           fmt == call[l].fmt
           text == Conversion(l)
           n == Len(text)
           Upd(r, k) == [r EXCEPT !.ptr = k]
           q == Upd(p, p.ptr + 1)
           Torn == /\ l = "irq" /\ pr["main"].pc \in {"convert", "show"}
                   /\ ~pr["main"].keep /\ pr["main"].ptr # 0
<1>1. /\ Runs(l) /\ p.pc = "convert" /\ p.ptr < n /\ Goes(l, q) /\ UNCHANGED <<inputs, call, out>>
      /\ buffer' = [k \in DOMAIN buffer |-> IF k = p.ptr + 1 THEN text[n + 1 - k] ELSE buffer[k]]
      /\ mangled' = (mangled \/ Torn)
  BY DEF Convert, At
<1>2. /\ p \in Progress /\ InStep(p, fmt) /\ p.ptr \in 0 .. BufferLength
      /\ TypesInv /\ NumberInv /\ EmptyInv /\ TextInv
  <2>1. p \in Progress /\ InStep(p, fmt)
    BY LineAt
  <2> QED
    BY <2>1, ProgressFields DEF ConsoleInv, WrittenInv
<1>3. ~p.keep /\ Char(l, p.c) \in Numeric
  BY <1>1, <1>2 DEF InStep, Char
<1>4. n \in 0 .. BufferLength
  BY <1>3, ConversionIs
<1>5. ASSUME NEW r \in Progress, NEW k
      PROVE  LET s == Upd(r, k)
             IN  s.pc = r.pc /\ s.c = r.c /\ s.ptr = k /\ s.keep = r.keep
  BY DEF Progress
<1> HIDE DEF Upd, Torn
<1>6. q.pc = "convert" /\ q.c = p.c /\ q.ptr = p.ptr + 1 /\ ~q.keep
  <2> HIDE DEF p
  <2> QED
    BY <1>1, <1>2, <1>3, <1>5
<1>7. pr'[l] = q /\ \A m \in Line : m # l => pr'[m] = pr[m]
  BY <1>1, <1>2, OtherLine
<1>8. ASSUME NEW m \in Line
      PROVE  /\ Text(m, Char(m, pr[m].c))' = Text(m, Char(m, pr[m].c))
             /\ Char(m, pr[m].c)' = Char(m, pr[m].c)
  <2>1. pr'[m].c = pr[m].c
    BY <1>6, <1>7
  <2> QED
    BY <1>1, <2>1 DEF Text, Char, Number, inputs
<1>9. text = Text(l, Char(l, p.c))
  BY DEF Conversion
<1> HIDE DEF q, text
<1>10. /\ p.ptr \in Nat /\ p.ptr + 1 \in 0 .. n /\ p.ptr + 1 \in 0 .. BufferLength
       /\ \A k \in 1 .. p.ptr + 1 : k = p.ptr + 1 \/ k \in 1 .. p.ptr
       /\ \A k \in 1 .. p.ptr + 1 : k \in 0 .. BufferLength
       /\ 0 \in 0 .. BufferLength /\ 0 # p.ptr + 1
  <2>1. ASSUME NEW i \in 0 .. BufferLength, NEW j \in 0 .. BufferLength, i < j
        PROVE  /\ i \in Nat /\ i + 1 \in 0 .. j /\ i + 1 \in 0 .. BufferLength
               /\ \A k \in 1 .. i + 1 : k = i + 1 \/ k \in 1 .. i
               /\ \A k \in 1 .. i + 1 : k \in 0 .. BufferLength
               /\ 0 \in 0 .. BufferLength /\ 0 # i + 1
    BY <2>1, Sizes
  <2> HIDE DEF p, n
  <2> QED
    BY <1>1, <1>2, <1>4, <2>1
<1>11. /\ buffer'[0] = NUL /\ buffer'[p.ptr + 1] = text[n + 1 - (p.ptr + 1)]
       /\ \A k \in 1 .. p.ptr + 1 : k # p.ptr + 1 => buffer'[k] = buffer[k]
  <2>1. DOMAIN buffer = 0 .. BufferLength
    BY <1>2 DEF TypesInv
  <2>2. buffer' = [k \in 0 .. BufferLength |-> IF k = p.ptr + 1 THEN text[n + 1 - k] ELSE buffer[k]]
    BY <1>1, <2>1
  <2> HIDE DEF p, n
  <2>3. buffer'[0] = buffer[0]
    BY <1>10, <2>2
  <2> QED
    BY <1>2, <1>10, <2>2, <2>3 DEF EmptyInv
<1>12. NumberInv'
  <2> SUFFICES ASSUME NEW m \in Line, Undisturbed(m)', pr'[m].pc \in {"convert", "show"},
                      ~pr'[m].keep
               PROVE  Held(m, pr[m], buffer)'
    BY DEF NumberInv, Held, Conversion
  <2>1. CASE m = l
    <3>1. Undisturbed(l)
      BY <1>1, <2>1 DEF Undisturbed
    <3>2. Held(l, p, buffer)
      BY <1>1, <1>2, <1>3, <3>1 DEF NumberInv, Held, Conversion
    <3>3. \A k \in 1 .. p.ptr : buffer[k] = text[n + 1 - k]
      BY <1>9, <3>2 DEF Held
    <3>4. pr'[l].ptr = p.ptr + 1 /\ pr'[l].pc # "show"
      BY <1>6, <1>7
    <3>5. \A k \in 1 .. p.ptr + 1 : buffer'[k] = text[n + 1 - k]
      <4> HIDE DEF p, n
      <4> QED
        BY <1>10, <1>11, <3>3
    <3>6. Char(l, pr[l].c)' \in Numeric /\ Text(l, Char(l, pr[l].c))' = text
      BY <1>3, <1>8, <1>9
    <3> HIDE DEF p
    <3> QED
      BY <1>10, <2>1, <3>4, <3>5, <3>6 DEF Held
  <2>2. CASE m # l
    <3>1. pr'[m] = pr[m]
      BY <1>7, <2>2
    <3>2. l = "irq" /\ m = "main"
      BY <1>1, <2>2, <3>1 DEF Line, Runs
    <3>3. Undisturbed(m) /\ pr[m].ptr = 0
      BY <1>1, <3>1, <3>2 DEF Undisturbed, Torn
    <3>4. Held(m, pr[m], buffer)
      BY <1>2, <3>1, <3>3 DEF NumberInv, Held, Conversion
    <3>5. \A k : k \notin 1 .. 0
      OBVIOUS
    <3> QED
      BY <1>8, <3>1, <3>3, <3>4, <3>5 DEF Held
  <2> QED
    BY <2>1, <2>2
<1>13. EmptyInv'
  <2>1. \A m \in Line :
          /\ pr'[m].pc = "buffer" \/ (pr'[m].pc = "draw" /\ pr'[m].then = "buffer") => pr'[m].keep
          /\ pr'[m].pc = "show" /\ pr'[m].keep => pr'[m].at = pr'[m].ptr
    BY <1>2, <1>6, <1>7 DEF EmptyInv
  <2>2. CASE l = "main"
    <3>1. pr'["irq"] = pr["irq"] /\ pr["irq"].pc = "idle" /\ pr["irq"].ptr = 0
      BY <1>1, <1>2, <1>7, <2>2 DEF Line, Runs, EmptyInv
    <3> QED
      BY <1>11, <2>1, <3>1 DEF EmptyInv, Single
  <2>3. CASE l = "irq"
    <3>1. pr'["main"] = pr["main"] /\ Owes(pr["irq"])' /\ pr'["irq"].pc = "convert"
      BY <1>6, <1>7, <2>3 DEF Line, Owes
    <3> QED
      BY <1>1, <1>11, <2>1, <2>3, <3>1 DEF EmptyInv, Single, Torn
  <2> QED
    BY <2>2, <2>3 DEF Line
<1>14. TextInv'
  <2>1. Rest(l)' = Rest(l) /\ Further(l)' = Further(l)
    <3>1. Rest(l)' = Conversion(l)' /\ Rest(l) = Conversion(l)
      BY <1>1, <1>6, <1>7 DEF Rest
    <3>2. Conversion(l)' = Conversion(l)
      BY <1>8 DEF Conversion
    <3>3. Further(l)' = Further(l)
      BY <1>1, <1>6, <1>7 DEF Further
    <3> QED
      BY <3>1, <3>2, <3>3
  <2>2. ASSUME Undisturbed(l)' PROVE Written(l)'
    <3>1. Written(l)
      BY <1>1, <1>2, <2>2 DEF TextInv, Undisturbed, Printing
    <3> QED
      BY <1>1, <2>1, <3>1, SameText
  <2>3. mangled => mangled'
    BY <1>1
  <2> QED
    BY <1>1, <1>2, <2>2, <2>3, TextStep
<1> QED
  BY <1>12, <1>13, <1>14 DEF WrittenInv

\* The number is converted: all of its text is to be shown.
LEMMA ConvertedWrites ==
    ASSUME ConsoleInv, WrittenInv, NEW l \in Line, Converted(l)
    PROVE  WrittenInv'
<1> DEFINE p == pr[l]
           fmt == call[l].fmt
           text == Conversion(l)
           n == Len(text)
           Upd(r, a, o) == [r EXCEPT !.pc = "show", !.at = a, !.off = o]
           q == Upd(p, p.ptr, cursor)
<1>1. /\ Runs(l) /\ p.pc = "convert" /\ p.ptr = n /\ Goes(l, q)
      /\ UNCHANGED <<inputs, call, out, buffer, mangled>>
  BY DEF Converted, At, AfterConversion
<1>2. /\ p \in Progress /\ InStep(p, fmt)
      /\ TypesInv /\ NumberInv /\ EmptyInv /\ TextInv
  BY LineAt DEF ConsoleInv, WrittenInv
<1>3. ~p.keep /\ Char(l, p.c) \in Numeric
  BY <1>1, <1>2 DEF InStep, Char
<1>4. text \in Seq(Chars) /\ n \in Nat
  <2>1. text \in Seq(Chars)
    BY <1>3, ConversionIs
  <2> HIDE DEF text
  <2> QED
    BY <2>1
<1>5. ASSUME NEW r \in Progress, NEW a, NEW o
      PROVE  LET s == Upd(r, a, o)
             IN  s.pc = "show" /\ s.c = r.c /\ s.ptr = r.ptr /\ s.at = a /\ s.keep = r.keep
  BY DEF Progress
<1> HIDE DEF Upd
<1>6. q.pc = "show" /\ q.c = p.c /\ q.ptr = p.ptr /\ q.at = p.ptr /\ ~q.keep
  <2> HIDE DEF p
  <2> QED
    BY <1>2, <1>3, <1>5
<1>7. pr'[l] = q /\ \A m \in Line : m # l => pr'[m] = pr[m]
  BY <1>1, <1>2, OtherLine
<1>8. ASSUME NEW m \in Line
      PROVE  /\ Text(m, Char(m, pr[m].c))' = Text(m, Char(m, pr[m].c))
             /\ Char(m, pr[m].c)' = Char(m, pr[m].c)
  <2>1. pr'[m].c = pr[m].c
    BY <1>6, <1>7
  <2> QED
    BY <1>1, <2>1 DEF Text, Char, Number, inputs
<1>9. text = Text(l, Char(l, p.c))
  BY DEF Conversion
<1> HIDE DEF q, text
<1>10. NumberInv'
  <2> SUFFICES ASSUME NEW m \in Line, Undisturbed(m)', pr'[m].pc \in {"convert", "show"},
                      ~pr'[m].keep
               PROVE  Held(m, pr[m], buffer)'
    BY DEF NumberInv, Held, Conversion
  <2>1. Undisturbed(m) /\ pr[m].pc \in {"convert", "show"} /\ ~pr[m].keep /\ pr'[m].ptr = pr[m].ptr
    BY <1>1, <1>3, <1>6, <1>7 DEF Undisturbed
  <2>2. Held(m, pr[m], buffer)
    BY <1>2, <2>1 DEF NumberInv, Held, Conversion
  <2>3. pr'[m].pc = "show" => /\ pr'[m].ptr = Len(Text(m, Char(m, pr[m].c)))
                              /\ pr'[m].at \in 0 .. Len(Text(m, Char(m, pr[m].c)))
    <3>1. CASE m = l
      <4>1. n \in 0 .. n
        BY <1>4
      <4> QED
        BY <1>1, <1>6, <1>7, <1>9, <3>1, <4>1
    <3>2. CASE m # l
      BY <1>7, <2>2, <3>2 DEF Held
    <3> QED
      BY <3>1, <3>2
  <2> QED
    BY <1>1, <1>8, <2>1, <2>2, <2>3 DEF Held
<1>11. EmptyInv'
  <2>1. \A m \in Line :
          /\ pr'[m].pc = "buffer" \/ (pr'[m].pc = "draw" /\ pr'[m].then = "buffer") => pr'[m].keep
          /\ pr'[m].pc = "show" /\ pr'[m].keep => pr'[m].at = pr'[m].ptr
    BY <1>2, <1>6, <1>7 DEF EmptyInv
  <2>2. CASE l = "main"
    <3>1. pr'["irq"] = pr["irq"] /\ pr["irq"].pc = "idle" /\ pr["irq"].ptr = 0
      BY <1>1, <1>2, <1>7, <2>2 DEF Line, Runs, EmptyInv
    <3> QED
      BY <1>1, <1>2, <2>1, <3>1 DEF EmptyInv, Single
  <2>3. CASE l = "irq"
    <3>1. /\ pr'["main"] = pr["main"] /\ Owes(pr["irq"])' /\ pr'["irq"].pc = "show"
          /\ pr'["irq"].ptr = pr["irq"].ptr
      BY <1>6, <1>7, <2>3 DEF Line, Owes
    <3> QED
      BY <1>1, <1>2, <2>1, <3>1 DEF EmptyInv, Single
  <2> QED
    BY <2>2, <2>3 DEF Line
<1>12. TextInv'
  <2>1. Rest(l) = text /\ Further(l)' = Further(l)
    BY <1>1, <1>6, <1>7 DEF Rest, Further, text
  <2>2. Rest(l)' = text
    <3>1. Rest(l)' = LET t == Conversion(l)' IN SubSeq(t, Len(t) + 1 - p.ptr, Len(t))
      BY <1>6, <1>7 DEF Rest
    <3>2. Conversion(l)' = text
      BY <1>8, <1>9 DEF Conversion
    <3>3. Rest(l)' = SubSeq(text, n + 1 - n, n)
      <4> HIDE DEF p
      <4> QED
        BY <1>1, <3>1, <3>2, Zenon
    <3>4. n + 1 - n = 1
      BY <1>4
    <3> QED
      BY <1>4, <3>3, <3>4, SubSeqFull
  <2>3. ASSUME Undisturbed(l)' PROVE Written(l)'
    <3>1. Written(l)
      BY <1>1, <1>2, <2>3 DEF TextInv, Undisturbed, Printing
    <3>2. Rest(l)' \o Meanings(l)[Further(l)'] = Rest(l) \o Meanings(l)[Further(l)]
      BY <2>1, <2>2
    <3> QED
      BY <1>1, <3>1, <3>2, SameText
  <2> QED
    BY <1>1, <1>2, <2>3, TextStep
<1> QED
  BY <1>10, <1>11, <1>12 DEF WrittenInv

\* The buffer is cleared: nothing is left in it that the line has written.
LEMMA CleanWrites ==
    ASSUME ConsoleInv, WrittenInv, NEW l \in Line, Clean(l)
    PROVE  WrittenInv'
<1> DEFINE p == pr[l]
           Upd(r) == [r EXCEPT !.pc = "print"]
           q == Upd(p)
<1>1. /\ Runs(l) /\ p.pc = "clean" /\ Goes(l, q) /\ UNCHANGED <<inputs, call, out, mangled>>
      /\ buffer' = [k \in DOMAIN buffer |-> IF k <= p.ptr THEN NUL ELSE buffer[k]]
  BY DEF Clean, At
<1>2. p \in Progress /\ TypesInv /\ NumberInv /\ EmptyInv /\ TextInv
  BY LineAt DEF ConsoleInv, WrittenInv
<1>3. p.ptr \in 0 .. BufferLength
  BY <1>2, ProgressFields
<1>4. ASSUME NEW r \in Progress
      PROVE  LET s == Upd(r) IN s.pc = "print" /\ s.c = r.c /\ s.ptr = r.ptr
  BY DEF Progress
<1> HIDE DEF Upd
<1>5. q.pc = "print" /\ q.c = p.c /\ q.ptr = p.ptr
  BY <1>2, <1>4
<1>6. pr'[l] = q /\ \A m \in Line : m # l => pr'[m] = pr[m]
  BY <1>1, <1>2, OtherLine
<1> HIDE DEF q
<1>7. /\ \A k \in 0 .. p.ptr : buffer'[k] = NUL
      /\ \A k \in 0 .. BufferLength : ~(k <= p.ptr) => buffer'[k] = buffer[k]
      /\ buffer'[0] = NUL
  <2>1. DOMAIN buffer = 0 .. BufferLength
    BY <1>2 DEF TypesInv
  <2>2. 0 \in 0 .. p.ptr /\ \A k \in 0 .. p.ptr : k \in 0 .. BufferLength /\ k <= p.ptr
    BY <1>3, Sizes
  <2> QED
    BY <1>1, <2>1, <2>2
<1>8. NumberInv'
  <2> SUFFICES ASSUME NEW m \in Line, Undisturbed(m)', pr'[m].pc \in {"convert", "show"},
                      ~pr'[m].keep
               PROVE  Held(m, pr[m], buffer)'
    BY DEF NumberInv, Held, Conversion
  <2>1. m # l /\ pr'[m] = pr[m] /\ Undisturbed(m)
    BY <1>1, <1>5, <1>6 DEF Undisturbed
  <2>2. l = "irq" /\ m = "main"
    BY <1>1, <2>1 DEF Line, Runs
  <2>3. pr[m].ptr # 0 => p.ptr = 0
    BY <1>2, <2>1, <2>2 DEF EmptyInv, Undisturbed
  <2>4. Held(m, pr[m], buffer)
    BY <1>2, <2>1 DEF NumberInv, Held, Conversion
  <2>5. /\ Text(m, Char(m, pr[m].c))' = Text(m, Char(m, pr[m].c))
        /\ Char(m, pr[m].c)' = Char(m, pr[m].c)
    BY <1>1, <2>1 DEF Text, Char, Number, inputs
  <2>6. \A k \in 1 .. pr[m].ptr : buffer'[k] = buffer[k]
    <3>1. pr[m].ptr \in 0 .. BufferLength
      <4>1. pr[m] \in Progress
        BY LineAt
      <4> QED
        BY <4>1, ProgressFields
    <3>2. ASSUME NEW i \in 0 .. BufferLength, NEW j \in 0 .. BufferLength, i # 0 => j = 0
          PROVE  \A k \in 1 .. i : k \in 0 .. BufferLength /\ ~(k <= j)
      BY <3>2, Sizes
    <3>3. \A k \in 1 .. pr[m].ptr : k \in 0 .. BufferLength /\ ~(k <= p.ptr)
      BY <1>3, <2>3, <3>1, <3>2
    <3> QED
      BY <1>7, <3>3
  <2> QED
    BY <2>1, <2>4, <2>5, <2>6 DEF Held
<1>9. EmptyInv'
  <2>1. \A m \in Line :
          /\ pr'[m].pc = "buffer" \/ (pr'[m].pc = "draw" /\ pr'[m].then = "buffer") => pr'[m].keep
          /\ pr'[m].pc = "show" /\ pr'[m].keep => pr'[m].at = pr'[m].ptr
    BY <1>2, <1>5, <1>6 DEF EmptyInv
  <2>2. CASE l = "main"
    <3>1. pr'["irq"] = pr["irq"] /\ pr["irq"].pc = "idle" /\ pr["irq"].ptr = 0
      BY <1>1, <1>2, <1>6, <2>2 DEF Line, Runs, EmptyInv
    <3> QED
      BY <1>7, <2>1, <3>1 DEF EmptyInv, Single
  <2>3. CASE l = "irq"
    <3>1. pr'["main"] = pr["main"] /\ pr'["irq"].pc = "print" /\ pr'["irq"].ptr = p.ptr
      BY <1>5, <1>6, <2>3 DEF Line
    <3> QED
      BY <1>1, <1>2, <1>7, <2>1, <2>3, <3>1 DEF EmptyInv, Single
  <2> QED
    BY <2>2, <2>3 DEF Line
<1>10. TextInv'
  <2>1. Rest(l)' = Rest(l) /\ Further(l)' = Further(l)
    BY <1>1, <1>5, <1>6, NoRest, NoRestNext
  <2>2. ASSUME Undisturbed(l)' PROVE Written(l)'
    <3>1. Written(l)
      BY <1>1, <1>2, <2>2 DEF TextInv, Undisturbed, Printing
    <3> QED
      BY <1>1, <2>1, <3>1, SameText
  <2> QED
    BY <1>1, <1>2, <2>2, TextStep
<1> QED
  BY <1>8, <1>9, <1>10 DEF WrittenInv

\* A record of a line that begins a call, or ends one.
LEMMA IdleFields ==
    ASSUME NEW pc
    PROVE  LET q == [Idle EXCEPT !.pc = pc] IN q.pc = pc /\ q.ptr = 0 /\ q.c = 0
BY DEF Idle

\* A call is over.
LEMMA OverSettled ==
    ASSUME NEW l \in Line, NEW p
    PROVE  Settled(l, p, Over(l)) /\ Over(l).pc \in {"idle", "over"} /\ Over(l).pc \notin Printing
<1> DEFINE pc == IF l = "main" THEN "over" ELSE "idle"
           q == Over(l)
<1>1. pc \in {"idle", "over"}
  OBVIOUS
<1>2. q = [Idle EXCEPT !.pc = pc]
  BY DEF Over
<1> HIDE DEF pc, q
<1>3. q.pc = pc /\ q.ptr = 0
  BY <1>2, IdleFields
<1> QED
  BY <1>1, <1>3 DEF Settled, Single, Printing, q

\* So it is with the calls that print no format string, and with a handler's print.
LEMMA OverWrites ==
    ASSUME ConsoleInv, WrittenInv, NEW l \in Line, Goes(l, Over(l)),
           UNCHANGED <<inputs, call, buffer, mangled, out>>
    PROVE  WrittenInv'
BY OverSettled, WriteEnds

\* print_internal is over.
LEMMA FinishWrites ==
    ASSUME ConsoleInv, WrittenInv, NEW l \in Line, Finish(l)
    PROVE  WrittenInv'
<1>1. /\ pr[l].pc = "print" /\ Goes(l, PrintOver(l))
      /\ UNCHANGED <<inputs, call, buffer, mangled, out>>
  BY DEF Finish, At
<1>2. CASE ~call[l].coloured
  BY <1>1, <1>2, OverWrites DEF PrintOver
<1>3. CASE call[l].coloured
  <2> DEFINE p == pr[l]
             Upd(r) == [r EXCEPT !.pc = "restore"]
             q == Upd(p)
  <2>1. Goes(l, q) /\ p \in Progress
    BY <1>1, <1>3, LineAt DEF PrintOver
  <2>2. ASSUME NEW r \in Progress
        PROVE  LET s == Upd(r) IN s.pc = "restore" /\ s.ptr = r.ptr
    BY DEF Progress
  <2> HIDE DEF Upd
  <2>3. q.pc = "restore" /\ q.ptr = p.ptr
    BY <2>1, <2>2
  <2> HIDE DEF q
  <2>4. Settled(l, p, q) /\ q.pc \notin Printing
    BY <1>1, <2>3 DEF Settled, Owes, Single, Printing
  <2> QED
    BY <1>1, <2>1, <2>4, WriteEnds
<1> QED
  BY <1>2, <1>3

\* The saved colours are put back, the background's first.
LEMMA RestoreBackColourWrites ==
    ASSUME ConsoleInv, WrittenInv, NEW l \in Line, RestoreBackColour(l)
    PROVE  WrittenInv'
<1> DEFINE p == pr[l]
           Upd(r) == [r EXCEPT !.pc = "restore text"]
           q == Upd(p)
<1>1. p.pc = "restore" /\ Goes(l, q) /\ UNCHANGED <<inputs, call, buffer, mangled, out>>
  BY DEF RestoreBackColour, At
<1>2. p \in Progress
  BY LineAt
<1>3. ASSUME NEW r \in Progress
      PROVE  LET s == Upd(r) IN s.pc = "restore text" /\ s.ptr = r.ptr
  BY DEF Progress
<1> HIDE DEF Upd
<1>4. q.pc = "restore text" /\ q.ptr = p.ptr
  BY <1>2, <1>3
<1> HIDE DEF q
<1>5. Settled(l, p, q) /\ q.pc \notin Printing
  BY <1>1, <1>4 DEF Settled, Owes, Single, Printing
<1> QED
  BY <1>1, <1>5, WriteEnds

\* The calls of one step, and the end of a printkcol.
LEMMA OneStepWrites ==
    ASSUME ConsoleInv, WrittenInv, NEW l \in Line,
           RestoreTextColour(l) \/ PutsOver(l) \/ Putln(l) \/ consoleClear(l)
    PROVE  WrittenInv'
<1>1. Goes(l, Over(l)) /\ UNCHANGED <<inputs, call, buffer, mangled, out>>
  BY DEF RestoreTextColour, PutsOver, Putln, consoleClear
<1> QED
  BY <1>1, OverWrites

\* A character of puts.
LEMMA PutsWrites ==
    ASSUME ConsoleInv, WrittenInv, NEW l \in Line, Puts(l)
    PROVE  WrittenInv'
<1> DEFINE p == pr[l]
           ch == IF Char(l, p.c) = "nl" THEN Blank ELSE Char(l, p.c)
           Upd(r, c) == [r EXCEPT !.c = c]
           q == Upd(p, p.c + 1)
<1>1. /\ p.pc = "puts" /\ Goes(l, q) /\ UNCHANGED <<inputs, call, buffer, mangled>>
      /\ out' = [out EXCEPT ![l] = Append(@, Glyph(ch))]
  BY DEF Puts, At, WriteChar
<1>2. p \in Progress /\ l # "irq" /\ out \in [Line -> Drawings]
  BY <1>1, LineAt DEF WrittenInv, EmptyInv, Single, ConsoleInv, TypesInv, Drawings
<1>3. ASSUME NEW r \in Progress, NEW c
      PROVE  LET s == Upd(r, c) IN s.pc = r.pc /\ s.ptr = r.ptr
  BY DEF Progress
<1> HIDE DEF Upd, ch
<1>4. q.pc = p.pc /\ q.ptr = p.ptr
  BY <1>2, <1>3
<1> HIDE DEF q
<1>5. Settled(l, p, q) /\ q.pc \notin Printing
  BY <1>1, <1>2, <1>4 DEF Settled, Owes, Printing
<1>6. \A m \in Line : m # l => out'[m] = out[m]
  BY <1>1, <1>2
<1> QED
  BY <1>1, <1>5, <1>6, WriteEnds

\* printk_align_format is the main line's, with no handler under way: no number is shown.
LEMMA printk_align_formatWrites ==
    ASSUME ConsoleInv, WrittenInv, NEW l \in Line, printk_align_format(l)
    PROVE  WrittenInv'
<1>1. /\ Runs(l) /\ pr[l].pc = "align" /\ Goes(l, Over(l)) /\ buffer' = buffer
  BY DEF printk_align_format, At
<1>2. TypesInv /\ EmptyInv
  BY DEF ConsoleInv, WrittenInv
<1>3. l = "main" /\ pr["irq"].pc = "idle"
  BY <1>1, <1>2 DEF EmptyInv, Single, Line, Runs
<1>4. pr'["irq"] = pr["irq"] /\ pr'["main"].pc \in {"idle", "over"}
  <2>1. pr'[l] = Over(l) /\ \A m \in Line : m # l => pr'[m] = pr[m]
    BY <1>1, <1>2, OtherLine
  <2>2. Over(l).pc \in {"idle", "over"}
    BY OverSettled
  <2> QED
    BY <1>3, <2>1, <2>2 DEF Line
<1>5. NumberInv' /\ TextInv'
  BY <1>3, <1>4 DEF NumberInv, TextInv, Line, Printing
<1>6. EmptyInv'
  BY <1>1, <1>2, <1>3, <1>4 DEF EmptyInv, Line, Owes, Single
<1> QED
  BY <1>5, <1>6 DEF WrittenInv

\* A call begins: nothing is drawn, and all of the format string is left.
LEMMA BeginWrites ==
    ASSUME ConsoleInv, WrittenInv, NEW l \in Line, NEW k \in Call, Begin(l, k),
           UNCHANGED inputs, l = "main" \/ mangled' = mangled,
           l = "irq" => k.kind = "print" /\ ~k.coloured
    PROVE  WrittenInv'
<1> DEFINE pc == IF k.coloured THEN "colour" ELSE k.kind
           q == [Idle EXCEPT !.pc = pc]
<1>1. /\ Goes(l, q) /\ call' = [call EXCEPT ![l] = k] /\ out' = [out EXCEPT ![l] = <<>>]
      /\ UNCHANGED <<inputs, buffer>>
  BY Zenon DEF Begin
<1>2. /\ TypesInv /\ NumberInv /\ EmptyInv /\ TextInv
      /\ call \in [Line -> Call] /\ out \in [Line -> Drawings]
  BY DEF ConsoleInv, WrittenInv, TypesInv, Drawings
<1>3. k.fmt \in Seq(Chars) /\ pc \in {"colour", "print", "puts", "putln", "clear", "align"}
  <2>1. k \in [kind : {"print", "puts", "putln", "clear", "align"}, fmt : Seq(Chars \ {NUL}),
               colours : Palettes, coloured : BOOLEAN]
    BY DEF Call
  <2> QED
    BY <2>1, CString
<1>4. l = "irq" => pc = "print"
  OBVIOUS
<1> HIDE DEF pc
<1>5. q.pc = pc /\ q.ptr = 0 /\ q.c = 0
  BY IdleFields
<1>6. pr'[l] = q
  BY <1>1, <1>2, OtherLine
<1> HIDE DEF q
<1>7. Settled(l, pr[l], q)
  BY <1>3, <1>4, <1>5 DEF Settled, Single
<1>8. /\ call'[l] = k /\ out'[l] = <<>>
      /\ \A m \in Line : m # l => call'[m] = call[m] /\ out'[m] = out[m]
  BY <1>1, <1>2
<1>9. NumberInv' /\ EmptyInv'
  BY <1>1, <1>2, <1>7, <1>8, QuietStep
<1>10. Written(l)'
  <2>1. Rest(l)' = <<>> /\ Further(l)' = 1
    BY <1>3, <1>5, <1>6, NoRestNext
  <2>2. Characters(l)' = <<>>
    <3>1. Characters(l)' = [i \in 1 .. Len(out'[l]) |-> out'[l][i].ch]
      BY DEF Characters
    <3>2. Len(<<>>) = 0 /\ 1 .. 0 = {}
      OBVIOUS
    <3>3. Characters(l)' = [i \in {} |-> out'[l][i].ch]
      BY <1>8, <3>1, <3>2
    <3>4. Characters(l)' \in Seq(Chars) /\ Len(Characters(l)') = 0
      <4>1. Characters(l)' \in [1 .. 0 -> Chars] /\ 0 \in Nat
        BY <3>2, <3>3
      <4> QED
        BY <4>1
    <3> QED
      BY <3>4, EmptySeq
  <2> DEFINE V == Meanings(l)'
  <2>3. V[1] \in Seq(Chars)
    <3>1. V = MeaningFrom(k.fmt, Number(l), format_align_pad)
      BY <1>1, <1>8 DEF Meanings, Number, inputs
    <3>2. Number(l) \in Word /\ format_align_pad \in Alignments
      BY <1>2, LineMeaning
    <3>3. 1 \in 1 .. Len(k.fmt) + 1
      BY <1>3
    <3> QED
      BY <1>3, <3>1, <3>2, <3>3, MeaningTypes
  <2>4. Written(l)' <=> Characters(l)' \o (Rest(l)' \o V[Further(l)']) = V[1]
    BY DEF Written, Meaning
  <2> HIDE DEF V
  <2>5. <<>> \o (<<>> \o V[1]) = V[1]
    BY <2>3, NoGlyph
  <2> QED
    BY <2>1, <2>2, <2>4, <2>5
<1>11. TextInv'
  BY <1>1, <1>2, <1>8, <1>10, TextStep
<1> QED
  BY <1>9, <1>11 DEF WrittenInv

\* The main line's next call, and a handler's.
LEMMA CallsWrite ==
    ASSUME ConsoleInv, WrittenInv, MainCalls \/ Interrupted
    PROVE  WrittenInv'
<1>1. CASE MainCalls
  <2>1. program \in Seq(Call) /\ program # <<>> /\ Begin("main", Head(program)) /\ UNCHANGED inputs
    BY <1>1 DEF MainCalls, ConsoleInv, TypesInv
  <2>2. Head(program) \in Call /\ "main" \in Line
    BY <2>1 DEF Line
  <2> QED
    BY <2>1, <2>2, BeginWrites
<1>2. CASE Interrupted
  <2>1. PICK k \in Handlers : Begin("irq", k)
    BY <1>2 DEF Interrupted
  <2>2. k \in Call /\ k.kind = "print" /\ ~k.coloured /\ "irq" \in Line
        /\ UNCHANGED inputs /\ mangled' = mangled
    BY <1>2, CallsAssumption DEF Interrupted, Line
  <2> QED
    BY <2>1, <2>2, BeginWrites
<1> QED
  BY <1>1, <1>2

\* Nothing is drawn at first.
LEMMA WrittenInit == Init => WrittenInv
<1> SUFFICES ASSUME Init PROVE WrittenInv
  OBVIOUS
<1>1. /\ \A l \in Line : pr[l] = Idle
      /\ "main" \in Line /\ "irq" \in Line /\ Idle.pc = "idle" /\ Idle.ptr = 0
  BY DEF Init, Line, Idle
<1>2. buffer[0] = NUL
  <2>1. 0 \in 0 .. BufferLength
    BY Sizes
  <2> QED
    BY <2>1 DEF Init
<1> QED
  BY <1>1, <1>2 DEF WrittenInv, NumberInv, EmptyInv, TextInv, Printing, Single

\* Every step of a line keeps what is drawn and what is left together.
LEMMA StepWrites ==
    ASSUME StringArgument # NullString, ConsoleInv, WrittenInv, NEW l \in Line, Step(l)
    PROVE  WrittenInv'
BY SetBackColourWrites, SetTextColourWrites, RestoreBackColourWrites, OneStepWrites,
   ScanWrites, FinishWrites, DrawWrites, DrawnWrites, SwitchNewlineWrites, SwitchEndWrites,
   SwitchNumberWrites, ConvertWrites, ConvertedWrites, SwitchStringWrites, SwitchCharWrites,
   SwitchOtherWrites, ShowBufferWrites, ShowWrites, ShownWrites, CleanWrites,
   PutsWrites, printk_align_formatWrites, Zenon DEF Step

\* At the end of print_internal nothing is left.
LEMMA FinishedText ==
    ASSUME ConsoleInv, WrittenInv
    PROVE  PrintedAsWritten
<1> SUFFICES ASSUME NEW l \in Line, Finishing(l), Undisturbed(l)
             PROVE  Characters(l) = Meaning(l)
  BY DEF PrintedAsWritten
<1> DEFINE M == Meanings(l)
           c == pr[l].c
           n == Len(call[l].fmt)
<1>1. pr[l].pc = "print" /\ Char(l, c) = NUL /\ Written(l)
  BY DEF Finishing, WrittenInv, TextInv, Printing
<1>2. c \in Nat /\ n \in Nat /\ c <= n /\ TypesInv
  BY LineAt DEF ConsoleInv
<1>3. c = n
  <2>1. ASSUME c < n PROVE FALSE
    <3>1. c + 1 \in 1 .. n
      BY <1>2, <2>1
    <3>2. call[l].fmt[c + 1] # NUL
      BY <1>2, <3>1, LineTypes
    <3> QED
      BY <1>1, <2>1, <3>2 DEF Char, CharAt
  <2> QED
    BY <1>2, <2>1
<1>4. Rest(l) = <<>> /\ Further(l) = n + 1
  BY <1>1, <1>3, NoRest
<1>5. M[n + 1] = <<>>
  BY <1>2, LineMeaning DEF Reading
<1>6. Characters(l) \o (<<>> \o <<>>) = Meaning(l)
  BY <1>1, <1>4, <1>5 DEF Written
<1>7. <<>> \o <<>> = <<>> /\ Characters(l) \in Seq(Chars)
  <2>1. <<>> \in Seq(Chars)
    OBVIOUS
  <2> QED
    BY <1>2, <2>1, NoGlyph, CharactersTypes
<1>8. Characters(l) \o <<>> = Characters(l)
  BY <1>7, ConcatEmptySeq
<1> QED
  BY <1>6, <1>7, <1>8

\* What a call has drawn and what is left of its format string are together what it all
\* means, in every state, whichever handler came in between.
THEOREM WrittenInvariant ==
    ASSUME StringArgument # NullString
    PROVE  Spec => []WrittenInv
<1>1. ConsoleInv /\ WrittenInv /\ [Next]_vars => WrittenInv'
  <2> SUFFICES ASSUME ConsoleInv, WrittenInv, [Next]_vars PROVE WrittenInv'
    OBVIOUS
  <2>1. CASE Next
    BY <2>1, CallsWrite, StepWrites, Zenon DEF Next
  <2>2. CASE UNCHANGED vars
    <3>1. /\ argument' = argument /\ format_align_pad' = format_align_pad /\ call' = call
          /\ pr' = pr /\ buffer' = buffer /\ out' = out /\ mangled' = mangled
      BY <2>2 DEF vars, inputs
    <3>2. EmptyInv'
      BY <3>1 DEF WrittenInv, EmptyInv, Owes
    <3>3. NumberInv'
      BY <3>1 DEF WrittenInv, NumberInv, Undisturbed, Conversion, Text, Number, Char
    <3>4. ASSUME NEW l \in Line
          PROVE  Written(l)' = Written(l) /\ Undisturbed(l)' = Undisturbed(l)
      <4>1. Characters(l)' = Characters(l) /\ Further(l)' = Further(l) /\ Meanings(l)' = Meanings(l)
        BY <3>1 DEF Characters, Further, Meanings, Number
      <4>2. Rest(l)' = Rest(l)
        BY <3>1 DEF Rest, Conversion, Text, Number, Char
      <4> QED
        BY <3>1, <4>1, <4>2 DEF Written, Meaning, Undisturbed
    <3>5. TextInv'
      BY <3>1, <3>4 DEF WrittenInv, TextInv
    <3> QED
      BY <3>2, <3>3, <3>5 DEF WrittenInv
  <2> QED
    BY <2>1, <2>2
<1> QED
  BY <1>1, ConsoleInvariant, WrittenInit, PTL DEF Spec

\* ShownAsWritten for every window, program and interrupt: the glyphs that printk draws are
\* those of what io.h says its format string means, in order and in the colours of the
\* call, unless a handler converts a number between the first character of the main line's
\* own conversion and the last of its showing.  The string of %s is not null.
THEOREM ShownStaysAsWritten ==
    ASSUME StringArgument # NullString
    PROVE  Spec => []ShownAsWritten
<1>1. ConsoleInv /\ WrittenInv => ShownAsWritten
  BY FinishedText DEF ShownAsWritten, ConsoleInv, ColoursInv
<1> QED
  BY <1>1, ConsoleInvariant, WrittenInvariant, PTL

=============================================================================
