SPECIFICATION Spec
CONSTANTS
    Byes = {b1}
    MaxTries = 2
    Shutdown = TRUE
    StopRaces = FALSE
    PortsRunOut = FALSE
INVARIANT CalleeIsTold
INVARIANT Released
INVARIANT NoNilDeref
PROPERTY AttrsInBye
PROPERTY ByeEndsCall
PROPERTY RoomEndsCall
PROPERTY StopReturns
PROPERTY ImplementsCallLeg
CHECK_DEADLOCK FALSE
