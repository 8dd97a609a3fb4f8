SPECIFICATION Spec
CONSTANTS
    MaxRequests = 2
    Targets = {t1, t2}
    NotifyHasId = TRUE
INVARIANT RepeatedGetsResult
CHECK_DEADLOCK FALSE
