SPECIFICATION Spec
CONSTANTS
    NbFragments = 5
    WindowSize = 2
    MaxWindowNb = 4
    MaxTuples = 2
    AbortIsShort = FALSE
    ZeroRuleId = FALSE
    MaxAckRequests = 2
    DisableMaxAckRequests = FALSE
    SendErrors = FALSE
    Acks <- AnyAcks
INVARIANTS
    NoWaitAfterAbort
