SPECIFICATION FairSpec
CONSTANTS
    HostCount = 2
    BeebCount = 1
    Port <- OwnPorts
    Configured <- OnlyFirst
    Links <- TwoHosts
    Types <- DataAndOther
    MaxPackets <- TwoAndOne
    SocketLen = 2
    MaxRestarts = 1
    MaxReconfigs = 1
INVARIANTS AckedDelivered AnswerGoesToCaller DeliveredOnce
PROPERTIES HostIsAnswered PromisesKept
CHECK_DEADLOCK FALSE
