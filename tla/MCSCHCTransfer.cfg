SPECIFICATION FairTransferSpec
CONSTANTS
    NbFragments = 8
    WindowSize = 3
    MaxWindowNb = 3
    MaxTuples = 2
    AbortIsShort = TRUE
    ZeroRuleId = FALSE
    MaxAckRequests = 3
    DisableMaxAckRequests = FALSE
    SendErrors = TRUE
    Acks <- TruthfulAcks
    MaxFaults = 4
    MayReceiverAbort = TRUE
INVARIANTS
    TypeOK
    RequestPending
    NoContradiction
    AbortNeedsFaults
PROPERTIES
    ImplementsService
    TransferEnds
    EventuallyCompleted
