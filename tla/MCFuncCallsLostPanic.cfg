SPECIFICATION Spec
CONSTANTS
    init = init
    f = f
    g = g
    d = d
    Funcs <- ProgramFuncs
    InitFunc = init
    CallCount <- Instances
    DeferCount <- DeferStacks
    Edges <- ProgramEdges
    Panics = {g, d}
    Recovers = {}
    OptimizeIR = TRUE
    MaxStmts = 3
INVARIANTS PanicVerdict
CHECK_DEADLOCK FALSE
