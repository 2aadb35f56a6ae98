CONSTANTS
  Responses = {r1, r2}
  Models = {m1, m2}
  Unknown = unknown
  Versions <- AllVersions
  MaxLines <- LegacyLonger
  MaxFaults = 1
  MaxRewrites <- RecordsCutBack
SPECIFICATION FairSpec
INVARIANTS
  ResponseCountedOnce
  ResponsesBelowOffsetCounted
  ModelNeverWrong
PROPERTIES
  ResponseEventuallyCounted
