SPECIFICATION MCFairSpec
CONSTANTS
  d1 = d1
  d2 = d2
  j1 = j1
  j2 = j2
  Whole = Whole
  Docs = {d1}
  Revs = {1, 2}
  BadRevs = {2}
  NoRev = 0
  Jobs = {j1}
  DocOf <- SlotsOfOne
  Scheduled = TRUE
  MaxAttempts = 2
  MaxConfig = 2
  MaxFilter = 2
  BatchSize = 1
  Faults = {"crash"}
  Concurrency = 1
  AbruptAttempts = 2
  IndexFaults = {"crash", "kill", "timeout", "stop"}
  AdminOps = {"settings", "principal", "validate", "disable", "enable", "purge", "restore", "sync", "select", "explicit", "deselect", "exclude", "exclude_all", "include", "reindex"}
  Budget = 2
INVARIANTS IndexOfItsContent
PROPERTIES ExcludedOnlyByLateBatch Converges JobEnds
