----------------------------- MODULE MCSpinlock -----------------------------
(* Three CPUs on one spinlock.                                             *)
EXTENDS Spinlock
=============================================================================
