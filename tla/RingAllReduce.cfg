CONSTANTS
    Rings <- SmallRings
    Graphs <- SmallGraphs
    MaxLosses = 1
SPECIFICATION Spec
INVARIANTS
    AllReduced
    SendsOnCompleteInput
PROPERTIES
    EventuallyComplete
CHECK_DEADLOCK FALSE
