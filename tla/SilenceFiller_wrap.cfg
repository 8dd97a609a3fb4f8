SPECIFICATION Spec
CONSTANTS
    SeqMod = 4
    TsMod = 12
    Frame = 2
    MaxGap = 2
    FirstSeq = 2
    FirstTs = 7
    MaxPackets = 6
    Pauses = {0, 1, 2, 3, 7}
    MaxFaults = 2
INVARIANT InSync
PROPERTY SilenceIsReal
CHECK_DEADLOCK FALSE
