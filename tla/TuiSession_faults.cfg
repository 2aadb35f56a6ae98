CONSTANTS
  Outcomes <- Failing
  MaxVersion = 2
  MaxTimeouts = 1
  MaxDeaths = 2
  IdSpace = 3
SPECIFICATION FairSpec
INVARIANTS
  TypeOK
  StreamInStep
  ConnectedIsCurrent
PROPERTIES
  RefreshShowsFreshData
  StatusEventuallyShown
  EventuallyShown
