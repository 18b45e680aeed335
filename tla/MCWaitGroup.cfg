SPECIFICATION FairSpec
CONSTANTS
    Procs = {p1, p2, p3}
    WaitGroupCount = 2
    Deltas <- AddArguments
    MaxCounter = 3
INVARIANTS Inv NoReuseUnderWaiters
PROPERTIES DueReturns ReturnsAtZero BadOnlyByMisuse
CHECK_DEADLOCK FALSE
