SPECIFICATION PromiseSpec
CONSTANTS
  d1 = d1
  d2 = d2
  j1 = j1
  j2 = j2
  Whole = Whole
  Docs = {d1}
  Revs = {1}
  BadRevs = {}
  NoRev = 0
  Jobs = {j1}
  DocOf <- SlotsOfOne
  Scheduled = TRUE
  MaxAttempts = 2
  MaxConfig = 1
  MaxFilter = 0
  BatchSize = 1
  Faults = {}
  Concurrency = 0
  AbruptAttempts = 2
  IndexFaults = {}
  AdminOps = {"validate", "disable"}
  Budget = 2
PROPERTIES WorkerNeverReactivates
