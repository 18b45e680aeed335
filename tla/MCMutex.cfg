SPECIFICATION FairSpec
CONSTANTS
    Procs = {p1, p2, p3}
    MutexCount = 2
    MaxUse = 4
INVARIANTS Inv CommittedCanProceed
PROPERTIES WritersServed UnlockVerdict ImplementsGoMutex
CHECK_DEADLOCK FALSE
