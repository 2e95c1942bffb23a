SPECIFICATION FairSpec
CONSTANTS
  MaxRestarts = 2
  MaxOrphans = 1
  MaxRetries = 2
INVARIANTS TypeOK InviteIsDriven OneOutcome InvitesBounded
PROPERTIES RestartEnds
CHECK_DEADLOCK FALSE
