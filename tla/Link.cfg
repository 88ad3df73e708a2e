CONSTANTS
    SeqBound = 3
    MaxBufferSize = 1
    Modulus = 32
    Credits = 2
    Confs <- AllFlows
    RetryLimit = 1
    TimeoutRetransmit = TRUE
SPECIFICATION Spec
INVARIANTS
    CreditExactlyOnce
    CreditNotEarly
    NoLostWakeup
    NeverForgotten
    ToldInOrder
    StrictNeverAwaitsLost
CHECK_DEADLOCK FALSE
