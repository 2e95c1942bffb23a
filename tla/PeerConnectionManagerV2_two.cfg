SPECIFICATION FairSpec
CONSTANTS
  Calls = {c1, c2}
  PageLoads = {p1}
  None = None
  MaxOrphans = 1
INVARIANTS
  TypeOK
  LiveSessionIsCurrent
  CallsHaveSession
  SkippedContactIsInvited
  IdleConnectionIsTimed
  NoCallForgotten
PROPERTIES
  CallSettles
CHECK_DEADLOCK FALSE
