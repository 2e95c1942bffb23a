SPECIFICATION CallSpec
CONSTANTS
  MaxSockets = 4
  MaxPcs = 2
  Pcs = {1, 2}
  Own = 9
  None = 0
INVARIANTS
  CallTypeOK
  SignalingFollowsSession
  DisconnectedSaidGoodbye
  EndedReleasesMedia
  CallKeepsItsConnection
PROPERTIES
  LifecycleOrder
  SetupEnds
CHECK_DEADLOCK FALSE
