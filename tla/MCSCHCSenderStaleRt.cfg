SPECIFICATION Spec
CONSTANTS
    NbFragments = 5
    WindowSize = 2
    MaxWindowNb = 4
    MaxTuples = 2
    AbortIsShort = TRUE
    ZeroRuleId = FALSE
    MaxAckRequests = 2
    DisableMaxAckRequests = FALSE
    SendErrors = TRUE
    Acks <- PacketAcks
INVARIANTS
    RtNamesQueue
