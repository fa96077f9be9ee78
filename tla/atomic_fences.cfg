SPECIFICATION AtomicSpec
CONSTANTS
  d1 = d1
  d2 = d2
  j1 = j1
  j2 = j2
  Whole = Whole
  Docs = {d1}
  Revs = {1, 2}
  BadRevs = {}
  NoRev = 0
  Jobs = {j1, j2}
  DocOf <- SlotsOfOne
  Scheduled = TRUE
  MaxAttempts = 2
  MaxConfig = 2
  MaxFilter = 1
  BatchSize = 1
  Faults = {"busy"}
  Concurrency = 1
  AbruptAttempts = 2
  IndexFaults = {}
  AdminOps = {"principal", "disable", "enable", "exclude", "sync"}
  Budget = 2
SYMMETRY Slots
INVARIANTS ServedRevisionIsExpected ExcludedNotServed
PROPERTIES ReturnIsFenced
CHECK_DEADLOCK FALSE
