SPECIFICATION Spec
CONSTANTS
    FuncCount = 4
    MaxCallCounts = 5
    Programs <- FewClosures
    AllKinds = TRUE
    EntryFunc = 1
INVARIANT
    RemovesUnnecessary
CHECK_DEADLOCK FALSE
