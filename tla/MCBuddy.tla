------------------------------- MODULE MCBuddy -------------------------------
(***************************************************************************)
(* A zone of thirty-two pages for the buddy allocators.                    *)
(***************************************************************************)
EXTENDS BuddyLow

\* The pages of groups of four, the least that a request is met with.
Fours(groups) == UNION {4 * g .. 4 * g + 3 : g \in groups}

\* Zones with holes, one with a pair of pages that no request can use, one with a block of
\* half its size, and one that is all free.
Regions == {Fours({2, 3}) \cup {0, 1}, Fours({1, 2, 6}), Fours(0 .. 3), ZonePages}

\* Memory that was zero, memory that makes a four of what the first zone does not
\* declare, and memory that leaves a page of it alone.
Reads(pages, state) == [p \in ZonePages |-> IF p \in pages THEN state ELSE USED]
Junk == {Reads({}, 0), Reads(4 .. 7, 3), Reads({5}, 2)}
=============================================================================
