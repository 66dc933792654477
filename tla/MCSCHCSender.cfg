SPECIFICATION FairSpec
CONSTANTS
    NbFragments = 5
    WindowSize = 2
    MaxWindowNb = 4
    MaxTuples = 3
    AbortIsShort = TRUE
    ZeroRuleId = FALSE
    MaxAckRequests = 3
    DisableMaxAckRequests = FALSE
    SendErrors = TRUE
    Acks <- AscendingAcks
INVARIANTS
    NoRefusedPut
    RetransmissionOrdered
    RequestAfterFragments
    RequestsBounded
    NoWaitAfterAbort
PROPERTIES
    EventuallyReturns
