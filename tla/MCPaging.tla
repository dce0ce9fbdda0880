------------------------------ MODULE MCPaging ------------------------------
(***************************************************************************)
(* Instances of Paging: two entries a table, so sixteen pages; the ranges  *)
(* start in the same page table, in another one and in another directory.  *)
(* There are fewer frames than the tables of all of them need.  The        *)
(* bootloader has mapped the PML4 itself, through which the kernel edits.  *)
(***************************************************************************)
EXTENDS Paging

MCHanded == {<<14, 2>>}
MCVPages == {8, 9}
Device == {"present", "rw", "cachedis", "nx", "dirty"}
ReadOnly == {"present", "user"}
MCFlagSets == {Device, ReadOnly}
=============================================================================
