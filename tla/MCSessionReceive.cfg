SPECIFICATION Spec
CONSTANTS
    TheRule <- SmallRule
    PacketSizes <- TwoPackets
    InactivityTimeout = 1
    MaxTime = 2
    Remembers = TRUE
INVARIANTS
    TypeOK
    BitmapMatchesStore
    LossesReported
    AbortDelivered
PROPERTIES
    KeptUntilRestart
    PendingAckAnswered
