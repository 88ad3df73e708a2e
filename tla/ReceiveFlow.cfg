CONSTANTS
    SeqBound = 5
    MaxBufferSize = 2
SPECIFICATION Spec
INVARIANTS
    WaitsOnlyForMissing
    AckedIsSafe
    SlotsAccounted
PROPERTY
    DeliversInOrder
CHECK_DEADLOCK FALSE
