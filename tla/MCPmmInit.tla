----------------------------- MODULE MCPmmInit -----------------------------
(***************************************************************************)
(* Memory maps of up to three descriptors over zones of eight pages, the   *)
(* first two of which are low.  The managers take one page, and one more   *)
(* for every other zone.                                                   *)
(***************************************************************************)
EXTENDS PmmInit

Desc(mem, pages, free) == [mem |-> mem, pages |-> pages, free |-> free]

\* A low descriptor, one above it, with or without a hole between, and a third.
AnyMaps ==
    {<<Desc(0, a, f), Desc(a + hole, b, g), Desc(a + hole + b, c, h)>> :
        a \in {1, 3, 5}, hole \in {0, 1}, b \in {2, 9, 17}, c \in {1, 4, 12},
        f \in BOOLEAN, g \in BOOLEAN, h \in BOOLEAN}

\* Nothing, a page of the low zone, one of the first zone, one far behind all memory.
AnyJunk == {{}, {0}, {1, 5}, {100}}
=============================================================================
