SPECIFICATION Spec
CONSTANTS
    Options <- PortOptions
    Changes <- PortChanges
    Defaults <- PortDefaults
    Park = 4
    MaxTime = 6
INVARIANT Punctual
 
PROPERTY DisabledIsQuiet
PROPERTY LoopStops
CHECK_DEADLOCK FALSE
