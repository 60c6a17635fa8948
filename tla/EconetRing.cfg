SPECIFICATION Spec
CONSTANTS
    CmdQueueLen = 1
    PktQueueLen = 1
    BufferCount = 2
    Kinds <- Everything
    MaxSends = 2
    MaxTraffic = 1
    MaxTimeouts = 2
    EarlyIdle = FALSE
INVARIANTS FramesIntact NoStrayReply
CHECK_DEADLOCK FALSE
