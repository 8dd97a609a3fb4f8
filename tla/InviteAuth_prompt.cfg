SPECIFICATION Spec
CONSTANTS
    CallIDs = {c1}
    MaxInvites = 2
    DigestLimit = 2
    Trunks = {"password"}
    PromptRetry = TRUE
PROPERTY TimerSparesCalls
CHECK_DEADLOCK FALSE
