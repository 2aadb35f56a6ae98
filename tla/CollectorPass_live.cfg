CONSTANTS
  f1 = f1
  f2 = f2
  f3 = f3
  u1 = u1
  q1 = q1
  h1 = h1
  Noise = noise
  Carries <- MCCarries
  Files <- MCFiles
  Collectors = 2
  Owner <- MCOwner
  UsageKeys = {u1}
  QuotaKeys = {q1}
  HitKeys = {h1}
  MaxLines <- MCMaxLines
  MaxFaults = 1
  MaxCrashes = 1
SPECIFICATION FairSpec
INVARIANTS
  TypeOK
  CursorCoversOnlyStored
  NoDoubleCount
  SnapshotsRepeatOnlyOnRetry
PROPERTIES
  StoreOnlyGrows
  StoredEventuallySummarised
  WrittenEventuallyStored
  ImplementsLedger
