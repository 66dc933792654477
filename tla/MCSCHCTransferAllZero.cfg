SPECIFICATION TransferSpec
CONSTANTS
    NbFragments = 5
    WindowSize = 2
    MaxWindowNb = 4
    MaxTuples = 3
    AbortIsShort = TRUE
    ZeroRuleId = TRUE
    MaxAckRequests = 3
    DisableMaxAckRequests = FALSE
    SendErrors = FALSE
    Acks <- TruthfulAcks
    MaxFaults = 2
    MayReceiverAbort = FALSE
INVARIANTS
    AbortNeedsFaults
