CONSTANTS
  Daemons = {d1, d2}
  Lines = {l1, l2}
  Identified = {l1}
  None = none
  MaxFaults = 2
SPECIFICATION FairSpec
INVARIANTS
  VersionMatchesTables
PROPERTIES
  NothingLost
  KeysKept
  EventuallyMigrated
CHECK_DEADLOCK FALSE
