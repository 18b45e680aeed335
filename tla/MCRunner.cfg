SPECIFICATION FairSpec
CONSTANTS
    a = a
    b = b
    c = c
    d = d
    Workers = {w1, w2}
    Systems <- Args
    Name <- ArgNames
    NoXml = {d}
    CannotOpen = {b}
    Nothing = Nothing
INVARIANTS
    NoneLost
    ResultsTogether
    DoneMeansDone
PROPERTIES
    InterruptEnds
CHECK_DEADLOCK FALSE
