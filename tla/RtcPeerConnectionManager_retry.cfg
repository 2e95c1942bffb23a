SPECIFICATION Spec
CONSTANTS
  MaxSessions = 2
  MaxPcs = 7
PROPERTIES
  CallToldOfFailure
CHECK_DEADLOCK FALSE
