SPECIFICATION Spec
CONSTANTS
    InCalls = {i1, i2}
    OutCalls = {o1, o2}
INVARIANT Graceful
PROPERTY KillStops
PROPERTY DrainEnds
CHECK_DEADLOCK FALSE
