CONSTANTS
  Daemons = {d1, d2}
  NoSocket = none
  Stale = stale
  LaunchAgent = d1
  MaxFaults = 2
  MaxSignals = 2
  MaxKills = 2
SPECIFICATION FairSpec
INVARIANTS
  TypeOK
  ServingIsReachable
PROPERTIES
  ShutdownTerminates
  ServesAgain
