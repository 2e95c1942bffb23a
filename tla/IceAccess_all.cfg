SPECIFICATION AccessSpec
CONSTANTS
  MaxPcs = 2
  Supported = TRUE
  Calls = {c1, c2}
INVARIANTS
  AccessTypeOK
  StandbyIsTimed
  HandedOutStaysOpen
  ForeignIsCaught
PROPERTIES
  StandbyIsRefreshed
  OwnServersNeverWait
