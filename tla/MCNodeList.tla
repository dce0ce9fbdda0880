----------------------------- MODULE MCNodeList -----------------------------
(***************************************************************************)
(* An instance of NodeList with two pages that follow one another.         *)
(***************************************************************************)
EXTENDS NodeList

Frames == {2, 4, 5}
=============================================================================
