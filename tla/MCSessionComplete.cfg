SPECIFICATION Spec
CONSTANTS
    TheRule <- RealRule
    PacketSizes <- WholePackets
    InactivityTimeout = 1
    MaxTime = 1
    Remembers = FALSE
INVARIANT WholePacketAcked
