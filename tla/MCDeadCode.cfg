SPECIFICATION Spec
CONSTANTS
    FuncCount = 4
    MaxCallCounts = 3
    Programs <- AllSorts
    AllKinds = TRUE
    EntryFunc = 1
INVARIANTS
    SCCsRight
    CanPanicRight
    CountsRight
    RemovedNeverRun
    RemovesUnnecessaryOfLive
CHECK_DEADLOCK FALSE
