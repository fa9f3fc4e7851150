SPECIFICATION FairSpec
CONSTANTS
  Requests = {r1, r2, r3}
  MaxConcurrent = 1
INVARIANTS
  ExecutionBounded
  CleanEofOnly
PROPERTIES
  CancelSettlesCalls
  NoDispatchWhileDraining
CHECK_DEADLOCK FALSE
