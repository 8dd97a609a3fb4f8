SPECIFICATION Spec
CONSTANTS
    Byes = {b1}
    MaxRetries = 1
    Reliable = TRUE
    WaitACK = TRUE
    RetransmitMayFail = TRUE
    Shutdown = TRUE
INVARIANT EmittedOnce
INVARIANT ActiveIsAcked
PROPERTY StopReturns
CHECK_DEADLOCK FALSE
