CONSTANTS
    Graphs <- Compiled
    MaxLosses = 1
SPECIFICATION ExecSpec
INVARIANTS
    DependencyOrder
    DeliveryIsHeard
    CompleteIsTotal
PROPERTIES
    EventuallyNotified
CHECK_DEADLOCK FALSE
