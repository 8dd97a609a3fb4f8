SPECIFICATION Spec
CONSTANTS
    Audio = {1}
    Cameras = {2}
    Screens = {}
    Width = 13
    Height = 7
    SipPeers = {3}
    MaxFaults = 1
    LateVideo = FALSE
    EarlyClose = FALSE
INVARIANT NoGhosts
PROPERTY Rendered
CHECK_DEADLOCK FALSE
