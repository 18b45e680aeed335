SPECIFICATION FairSpec
CONSTANTS
    init = init
    f = f
    g = g
    d = d
    Funcs <- ProgramFuncs
    InitFunc = init
    CallCount <- Instances
    DeferCount <- DeferStacks
    Edges <- ProgramEdges
    Panics = {g, d}
    Recovers = {d}
    OptimizeIR = TRUE
    MaxStmts = 2
INVARIANTS OneCallerPerInstance GoRoutinesCounted PanicVerdict
PROPERTIES InitEndsLast ProgramEnds
CHECK_DEADLOCK FALSE
