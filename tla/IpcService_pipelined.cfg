CONSTANTS
  c1 = c1
  c2 = c2
  Clients = {c1, c2}
  Collector = Collector
  NoClient = NoClient
  NoLimit = NoLimit
  Nothing = Nothing
  Script <- MCScript
  MaxMessageLen = 2
  MaxFaults = 1
SPECIFICATION FairSpec
CHECK_DEADLOCK FALSE
PROPERTIES
  ImplementsService
  StatusNeverWaitsForCollectors
  EveryLineAnswered
