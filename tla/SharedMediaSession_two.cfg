SPECIFICATION Spec
CONSTANT MaxConnects = 2
INVARIANTS TypeOK SignalingFollowsSession DisconnectedSaidGoodbye EndedReleasesPeerConnection
PROPERTIES EndedIsFinal LifecycleOrder
CHECK_DEADLOCK FALSE
