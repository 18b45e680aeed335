SPECIFICATION Spec
CONSTANTS
    Programs <- MCPrograms
    Callees = {"f"}
    MaxNesting = 4
    MaxCallCounts = 8
    MaxIterCount = 4
INVARIANTS
    GoRunsTranslated
    TranslationFaithful
    ReductionFaithful
    QueriedStatesKept
    CallCountsBound
CHECK_DEADLOCK FALSE
