----------------------------- MODULE MCAvlTree -----------------------------
(***************************************************************************)
(* Size - 1 regions apart from one another, and one more at the address of *)
(* the first: with twelve apart, one removal can make two rotations.       *)
(***************************************************************************)
EXTENDS VmRegion

CONSTANTS Size,         \* the number of items
          Stride        \* the distance of two regions, in bytes

MCNodes == 1 .. Size
MCAddress == [n \in Nodes |-> IF n = Size THEN Stride ELSE n * Stride]
MCExtent == [n \in Nodes |-> 1 + (n % 2)]
=============================================================================
