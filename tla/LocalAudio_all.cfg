SPECIFICATION Spec
CONSTANTS
  MaxOps = 3
  Devices = {d1, d2}
  None = None
INVARIANTS
  StreamIsTransmitted
  WishIsTransmitted
  DeviceIsCurrent
CHECK_DEADLOCK FALSE
