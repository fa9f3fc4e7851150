SPECIFICATION FairSpec
CONSTANTS
  Requests = {r1, r2, r3}
  Lanes = {l1, l2}
  MaxConcurrent = 1
  Replicated = TRUE
  Global = Global
  NoLane = NoLane
INVARIANTS
  AdmissionIsExact
  FewWaitForTheGroup
PROPERTIES
  CallsSettle
CHECK_DEADLOCK FALSE
