CONSTANTS
  Char = x
  Newline = nl
  MaxLineBytes = 2
  MaxBytes = 5
  MaxRewrites = 1
  MaxFaults = 1
SPECIFICATION FairSpec
INVARIANTS
  LinesIntact
PROPERTIES
  FinishedLinesStored
  ImplementsLineLog
