SPECIFICATION Spec
CONSTANTS
    TheRule <- SmallRule
    PacketSizes <- TwoPackets
    InactivityTimeout = 1
    MaxTime = 2
    Remembers = TRUE
INVARIANT EveryLossReported
