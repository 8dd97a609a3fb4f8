SPECIFICATION Spec
CONSTANTS
    CallIDs = {c1, c2}
    MaxInvites = 3
    DigestLimit = 1
    Trunks = {"open", "password"}
    PromptRetry = FALSE
INVARIANT LiveCallFindable
PROPERTY AuthFresh
PROPERTY Finalized
CHECK_DEADLOCK FALSE
