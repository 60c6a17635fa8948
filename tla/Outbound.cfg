SPECIFICATION FairSpec
CONSTANTS
    Beebs = {"b1"}
    AunHosts = {h1}
    h1 = h1
    net5 = net5
    net88 = net88
    Trunks <- TwoTrunks
    Nets = {net5, net88}
    Local = Local
    Dests <- ToHostAndNet
    Lengths <- SixOnly
    Configs <- Changing
    RxQueueLen = 3
    AckQueueLen = 2
    Tries = 2
    Receipts = 2
    MaxExchanges = 2
    MaxFlight = 1
    MaxUpdates = 1
    MaxReconfigs = 1
INVARIANTS OwnScout InOrderOnce ListensWhereRouted QuietWhileRebuilt
PROPERTIES ExchangeHandled ReconfigureEnds
CHECK_DEADLOCK FALSE
