CONSTANTS
    f = f
    g = g
    Flow = {f, g}
    LastSeq = 2
    RetryLimit = 1
    MaxBufferSize = 2
    Confs <- Mixed
SPECIFICATION FairSpec
INVARIANTS
    CopiesAccounted
    RetryBudget
    NeverStranded
PROPERTIES
    FlowsIsolated
    EventuallySettled
CHECK_DEADLOCK FALSE
