SPECIFICATION FairSpec
CONSTANT CPUs = {c1, c2, c3}
INVARIANTS IInv MutualExclusion
PROPERTIES ImplementsLock SomeoneAcquires
