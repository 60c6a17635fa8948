SPECIFICATION FairSpec
CONSTANTS
  Conns <- TwoConns
  MaxRequests = 1
  MaxClients = 2
  BufferLen = 2
  WorkLen = 1
  Streams = {log, statistics}
  PongTicks = 0
  Types <- RestartOnly
INVARIANTS LiveSlots SentWithTheNext
PROPERTIES Settles Reconnects
CHECK_DEADLOCK FALSE
