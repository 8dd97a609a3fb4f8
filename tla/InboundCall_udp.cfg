SPECIFICATION Spec
CONSTANTS
    Byes = {b1}
    MaxRetries = 1
    Reliable = FALSE
    WaitACK = FALSE
    RetransmitMayFail = FALSE
    Shutdown = FALSE
INVARIANT CallerIsTold
INVARIANT Released
PROPERTY RingingEnds
PROPERTY ByeEndsCall
PROPERTY CancelAnswered
PROPERTY ImplementsCallLeg
CHECK_DEADLOCK FALSE
