CONSTANTS
  Conns = {c1, c2, c3, c4}
  ReplicaCount = 2
  MaxConnections = 3
  Manifests = {m1, m2}
  AllocateCalls = 1
  NoManifest = NoManifest
  NoConn = NoConn
SPECIFICATION Spec
SYMMETRY Symmetry
INVARIANTS
  PermitsConserved
  
  NeverBlocksWhileAllOpen
  GateNeedsAgreement
PROPERTIES
  ImplementsBudget
CHECK_DEADLOCK FALSE
