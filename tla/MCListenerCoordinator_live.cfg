CONSTANTS
  Conns = {c1, c2}
  ReplicaCount = 2
  MaxConnections = 2
  Manifests = {m1}
  AllocateCalls = 0
  NoManifest = NoManifest
  NoConn = NoConn
SPECIFICATION FairSpec
PROPERTIES
  
  FailureReachesLanes
  ShutdownCompletes
CHECK_DEADLOCK FALSE
