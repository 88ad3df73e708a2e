CONSTANTS
    SeqBound = 2
    MaxBufferSize = 1
    Modulus = 32
    Credits = 1
    Confs <- NoticesArrive
    RetryLimit = 1
    TimeoutRetransmit = TRUE
SPECIFICATION FairSpec
PROPERTIES
    EveryPacketTold
    WindowReopens
CHECK_DEADLOCK FALSE
