CONSTANTS
  Responses = {r1, r2}
  Models = {m1}
  Unknown = unknown
  Versions <- OnlyRecords
  MaxLines <- Three
  MaxFaults = 0
  MaxRewrites <- NoCutBack
SPECIFICATION Spec
INVARIANTS
  ModelFromLatestContext
