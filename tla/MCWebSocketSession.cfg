SPECIFICATION SocketsSpec
CONSTANTS
  MessageLimit = 2
  SessionLimit = 5
  MaxFrames = 4
  MaxMessageBytes = 2
  MaxQueuedMessages = 2
  MaxQueuedBytes = 3
  MaxSessionBytes = 5
  SocketFrames = 5
INVARIANTS
  BudgetShared
  SuccessIsMutual
  QueueIsAccounted
  SocketEndsAreTold
PROPERTIES
  CloseEndsData
  NativePumpEnds
  PeerCloseReachesSession
CHECK_DEADLOCK FALSE
