SPECIFICATION FairSpec
CONSTANTS
    CmdQueueLen = 8
    PktQueueLen = 1
    BufferCount = 3
    Kinds <- Unicast
    MaxSends = 2
    MaxTraffic = 1
    MaxTimeouts = 0
    EarlyIdle = FALSE
INVARIANTS TruthfulResults AcceptedAtMostOnce TransmitterUsable
PROPERTIES EverySendReturns FrameStable
