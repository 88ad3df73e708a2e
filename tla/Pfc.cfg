CONSTANTS
    a = a
    b = b
    d = d
    e = e
    Source = {a, b}
    Dest = {d, e}
    InPort = {1, 2}
    Vc = {1, 2}
    MaxLoad = 6
    CtrlBound = 1
    RetryLimit = 1
    VoqDepth = 7
    PauseThreshold = 2
    ResumeOffset = 1
    Headroom = 1
    ResendLimit = 1
    Confs <- AllFabrics
SPECIFICATION FairSpec
INVARIANTS
    SlotsExact
    FlowsKeepOrder
    HoldIsOwned
    HeadroomBoundsData
PROPERTIES
    EverySendSettles
CHECK_DEADLOCK FALSE
