SPECIFICATION Spec
CONSTANTS
  MaxSockets = 3
  Pcs = {p1}
  Own = Own
  None = None
PROPERTY HangupEndsTalking
CHECK_DEADLOCK FALSE
