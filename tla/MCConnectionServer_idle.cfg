SPECIFICATION FairSpec
CONSTANTS
  Conns = {c1}
  MaxConnections = 1
  MaxActive = 1
  IdleTimeout = 2
  CloseGrace = 1
  ShutdownGrace = 2
  RequestTimeout = 3
PROPERTIES
  IdleSparesResponses
CHECK_DEADLOCK FALSE
