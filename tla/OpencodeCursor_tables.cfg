CONSTANTS
  Messages = {a, b, c}
  MaxTime = 2
  MaxFaults = 1
SPECIFICATION FairSpec
INVARIANTS
  OneCopyPerMessage
  NothingBehindCursor
PROPERTIES
  FinishedEventuallyCounted
