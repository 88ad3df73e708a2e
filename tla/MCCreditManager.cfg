CONSTANTS
    VC = {v0, v1}
    MaxCredits = 3
    MaxInFlight = 4
    Modulus = 16
SPECIFICATION Spec
INVARIANTS
    CreditConservation
    NoPhantomPending
    InFlightWithinWindow
CHECK_DEADLOCK FALSE
