SPECIFICATION Spec
CONSTANTS
    MaxRequests = 2
    Targets = {t1, t2}
    NotifyHasId = TRUE
INVARIANT OneTransfer
INVARIANT ResultIsOwn
INVARIANT AudioReturns
PROPERTY RequestAnswered
PROPERTY TransferEnds
CHECK_DEADLOCK FALSE
