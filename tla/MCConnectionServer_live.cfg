SPECIFICATION FairSpec
CONSTANTS
  Conns = {c1, c2}
  MaxConnections = 2
  MaxActive = 1
  IdleTimeout = 2
  CloseGrace = 1
  ShutdownGrace = 2
  RequestTimeout = 3
PROPERTIES
  ServerShutdownCompletes
CHECK_DEADLOCK FALSE
