CONSTANTS
    SeqBound = 5
    MaxBufferSize = 2
SPECIFICATION Spec
INVARIANTS
    WithinCapacity
CHECK_DEADLOCK FALSE
