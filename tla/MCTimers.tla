------------------------------ MODULE MCTimers ------------------------------
(***************************************************************************)
(* Short counters for both timers.                                         *)
(***************************************************************************)
EXTENDS Timers
=============================================================================
