SPECIFICATION Spec
CONSTANTS
  Calls = {c1}
  PageLoads = {p1}
  None = None
  MaxOrphans = 1
INVARIANT CompletedSessionForgotten
CHECK_DEADLOCK FALSE
