-------------------------------- MODULE MCPmm --------------------------------
(***************************************************************************)
(* Two normal zones of four pages and a low zone of two; the managers      *)
(* report nothing, a part or all of a zone.                                *)
(***************************************************************************)
EXTENDS Pmm
=============================================================================
