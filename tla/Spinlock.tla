------------------------------ MODULE Spinlock ------------------------------
(***************************************************************************)
(* The kernel's spinlock (include/std/lock.h): one byte, flag, taken with  *)
(* an atomic exchange and given back with a compare-and-exchange whose     *)
(* "expected" operand is the flag itself.  Every atomic access is a step   *)
(* of its own, so the window between the two accesses of try_lock and of   *)
(* unlock is open to every other CPU.                                      *)
(***************************************************************************)
EXTENDS Naturals

CONSTANT CPUs    \* the processors that share one spinlock_t

VARIABLES
    flag,        \* spinlock_t.flag, TRUE = taken
    pc,          \* pc[c]: where CPU c stands in lock / try_lock / unlock
    expected     \* expected[c]: the operand unlock loaded before its cmpxchg

SpinlockVars == <<flag, pc, expected>>

PCs == {"idle", "exchange", "spin", "try", "tried", "critical", "release"}

SpinlockInit ==
    /\ flag = FALSE                              \* SPINLOCK_INIT_VALUE
    /\ pc = [c \in CPUs |-> "idle"]
    /\ expected = [c \in CPUs |-> FALSE]

Goto(c, label) == pc' = [pc EXCEPT ![c] = label]

\* Sensitivity variants: slips this code could plausibly contain.  No action uses
\* them; each stands in for the definition it distorts when a property is shown
\* to depend on that definition.

\* unlock with the constant FALSE as the expected operand.
SlipUnlockLoad(c) ==
    /\ pc[c] = "critical"
    /\ expected' = [expected EXCEPT ![c] = FALSE]
    /\ Goto(c, "release")
    /\ UNCHANGED flag

\* try_lock with a plain store: the load alone decides.
SlipTryExchange(c) ==
    /\ pc[c] = "tried"
    /\ flag' = TRUE
    /\ Goto(c, "critical")
    /\ UNCHANGED expected

\* unlock without its write.
SlipUnlockCmpxchg(c) ==
    /\ pc[c] = "release"
    /\ Goto(c, "idle")
    /\ UNCHANGED <<flag, expected>>

-----------------------------------------------------------------------------
\* A caller enters lock(sl) or try_lock(sl).
EnterLock(c) ==
    /\ pc[c] = "idle"
    /\ \/ Goto(c, "exchange")
       \/ Goto(c, "try")
    /\ UNCHANGED <<flag, expected>>

\* lock: atomic_exchange(flag, TRUE); the old value decides who got it.
LockExchange(c) ==
    /\ pc[c] = "exchange"
    /\ flag' = TRUE
    /\ Goto(c, IF flag THEN "spin" ELSE "critical")
    /\ UNCHANGED expected

\* lock: the relaxed load of the inner loop sees the flag clear, and the outer
\* loop tries the exchange again; while it sees the flag set it pauses.
LockSpin(c) ==
    /\ pc[c] = "spin"
    /\ ~flag
    /\ Goto(c, "exchange")
    /\ UNCHANGED <<flag, expected>>

\* try_lock, left operand of &&: give up when the flag is set.
TryLoad(c) ==
    /\ pc[c] = "try"
    /\ Goto(c, IF flag THEN "idle" ELSE "tried")
    /\ UNCHANGED <<flag, expected>>

\* try_lock, right operand of &&: the exchange decides.
TryExchange(c) ==
    /\ pc[c] = "tried"
    /\ flag' = TRUE
    /\ Goto(c, IF flag THEN "idle" ELSE "critical")
    /\ UNCHANGED expected

\* unlock: the compiler loads the expected operand, which is sl->flag.
UnlockLoad(c) ==
    /\ pc[c] = "critical"
    /\ expected' = [expected EXCEPT ![c] = flag]
    /\ Goto(c, "release")
    /\ UNCHANGED flag

\* unlock: the compare-and-exchange.  On success the flag becomes FALSE; on
\* failure the value found is written back through `expected', which is again
\* the flag.  The result is ignored.
UnlockCmpxchg(c) ==
    /\ pc[c] = "release"
    /\ flag' = IF flag = expected[c] THEN FALSE ELSE flag
    /\ Goto(c, "idle")
    /\ UNCHANGED expected

Step(c) ==
    \/ EnterLock(c)
    \/ LockExchange(c)
    \/ LockSpin(c)
    \/ TryLoad(c)
    \/ TryExchange(c)
    \/ UnlockLoad(c)
    \/ UnlockCmpxchg(c)

SpinlockNext == \E c \in CPUs : Step(c)

SpinlockSpec == SpinlockInit /\ [][SpinlockNext]_SpinlockVars

\* A CPU that is inside a spinlock routine, or holds the lock, keeps running:
\* nothing in the kernel preempts it for good.  Entering is the caller's choice.
Fairness ==
    \A c \in CPUs :
        /\ WF_SpinlockVars(LockExchange(c))
        /\ WF_SpinlockVars(LockSpin(c))
        /\ WF_SpinlockVars(TryLoad(c))
        /\ WF_SpinlockVars(TryExchange(c))
        /\ WF_SpinlockVars(UnlockLoad(c))
        /\ WF_SpinlockVars(UnlockCmpxchg(c))

FairSpec == SpinlockSpec /\ Fairness

-----------------------------------------------------------------------------
\* Every variable has its type.
SpinlockTypeOK ==
    /\ flag \in BOOLEAN
    /\ pc \in [CPUs -> PCs]
    /\ expected \in [CPUs -> BOOLEAN]

Holds(c) == pc[c] \in {"critical", "release"}

\* lock.h:13-14 "only one thread can access a certain memory region at a time":
\* two CPUs never both hold the lock, whichever of lock and try_lock they used.
MutualExclusion == \A c, d \in CPUs : Holds(c) /\ Holds(d) => c = d

\* The flag is set exactly while somebody holds the lock: a failed attempt, which
\* also writes TRUE, never leaves the lock taken by nobody (after which every
\* caller of lock would spin for ever), and unlock's compare-and-exchange with
\* itself never misses.
FlagMeansHeld == flag <=> \E c \in CPUs : Holds(c)

\* The abstract lock this one implements: its holders are the CPUs between a
\* successful exchange and the compare-and-exchange of unlock.
Abstract == INSTANCE LockSpec WITH holders <- {c \in CPUs : Holds(c)}

\* Every step of the spinlock is a step of the abstract lock or none: a CPU gets
\* in only when nobody is in, and leaves by its own unlock.
ImplementsLock == Abstract!Spec

\* While the lock is wanted by lock(), somebody eventually gets it: CPUs
\* spinning on the flag cannot wait on each other for ever.
SomeoneAcquires ==
    (\E c \in CPUs : pc[c] \in {"exchange", "spin"}) ~> (\E c \in CPUs : Holds(c))


\* The inductive strengthening: unlock always compares the flag with TRUE, because
\* the flag cannot change between its load and its compare-and-exchange.
ReleaseExpectsTrue == \A c \in CPUs : pc[c] = "release" => expected[c]

IInv == SpinlockTypeOK /\ MutualExclusion /\ FlagMeansHeld /\ ReleaseExpectsTrue
=============================================================================
