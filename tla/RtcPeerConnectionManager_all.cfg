SPECIFICATION Spec
CONSTANTS
  MaxSessions = 2
  MaxPcs = 7
INVARIANTS
  TypeOK
  CallIsHeld
  TalksOnNegotiated
  WaiterIsAwaited
CHECK_DEADLOCK FALSE
