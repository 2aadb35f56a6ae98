CONSTANTS
  None = none
  Prices <- MCPrices
  Entries <- MCEntries
  StatusLimits <- MCStatusLimits
  Caches <- MCCaches
  Start <- Noon
  End <- MCEnd
  Step <- MCStep
  UtcOffset = 120
  GapDays <- MCGapDays
  PageSize = 2
  MaxWrites = 2
SPECIFICATION Spec
INVARIANTS
  UnpricedModelsReported
CHECK_DEADLOCK FALSE
