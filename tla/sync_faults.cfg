SPECIFICATION MCFairSpec
CONSTANTS
  d1 = d1
  d2 = d2
  j1 = j1
  j2 = j2
  Whole = Whole
  Docs = {d1, d2}
  Revs = {1}
  BadRevs = {}
  NoRev = 0
  Jobs = {j1, j2}
  DocOf <- SlotsOfTwo
  Scheduled = FALSE
  MaxAttempts = 2
  MaxConfig = 2
  MaxFilter = 1
  BatchSize = 1
  Faults = {"scan", "denied", "invalid", "unlisted", "crash"}
  Concurrency = 0
  AbruptAttempts = 2
  IndexFaults = {}
  AdminOps = {"sync", "validate", "rotate", "disable", "enable", "purge", "restore", "exclude_all"}
  Budget = 3
INVARIANTS RunOwned
PROPERTIES RunEnds ValidationAnswered DueMarkerCleared
