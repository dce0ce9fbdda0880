------------------------------ MODULE LockSpec ------------------------------
(***************************************************************************)
(* What a lock promises: at any time at most one processor is inside, it   *)
(* entered when nobody was, and only it takes itself out.                  *)
(***************************************************************************)
CONSTANT CPUs

VARIABLE holders     \* the processors that hold the lock

Init == holders = {}

Acquire(c) == holders = {} /\ holders' = {c}

Release(c) == holders = {c} /\ holders' = {}

Next == \E c \in CPUs : Acquire(c) \/ Release(c)

Spec == Init /\ [][Next]_holders
=============================================================================
