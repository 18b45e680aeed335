SPECIFICATION FairSpec
CONSTANTS
    Procs = {p1, p2, p3, p4}
    OnceCount = 2
    CalleePanics = TRUE
INVARIANTS Inv AtMostOnce
PROPERTIES ReturnsWhenDone DoEnds
CHECK_DEADLOCK FALSE
