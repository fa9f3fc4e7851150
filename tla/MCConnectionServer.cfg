SPECIFICATION Spec
CONSTANTS
  Conns = {c1, c2, c3}
  MaxConnections = 2
  MaxActive = 2
  IdleTimeout = 2
  CloseGrace = 1
  ShutdownGrace = 2
  RequestTimeout = 3
SYMMETRY Symmetry
INVARIANTS
  ClosedOnTime
PROPERTIES
  IdleNeverEarly
  ServerImplementsBudget
CHECK_DEADLOCK FALSE
