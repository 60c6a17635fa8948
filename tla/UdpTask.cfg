SPECIFICATION FairSpec
CONSTANTS
    Stations = 1
    Trunks = 1
    Configs <- OneOfEach
    Descriptors = {1, 2}
    UpdateInterval = 2
    TimerModulus = 3
    FirstNumber = 4
    MaxPackets = 2
    SocketLen = 1
    MaxReconfigs = 2
INVARIANTS ReceivesOwn
PROPERTIES TrunkPromise ShutdownEnds HubHears
CHECK_DEADLOCK FALSE
