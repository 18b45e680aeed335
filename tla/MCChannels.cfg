SPECIFICATION RSpec
CONSTANTS
    Procs = {p1, p2, p3}
    ChanCount = 2
    BufferSizes = {0, 1}
    Menus <- DistinctMenus
    MaxStmts = 2
SYMMETRY ProcSymmetry
CONSTRAINT BeforePanic
INVARIANTS NoLostWakeup CommittedCanMove
PROPERTIES CloseVerdict ImplementsGoChannels
CHECK_DEADLOCK FALSE
