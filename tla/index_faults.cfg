SPECIFICATION MCSpec
CONSTANTS
  d1 = d1
  d2 = d2
  j1 = j1
  j2 = j2
  Whole = Whole
  Docs = {d1}
  Revs = {1, 2}
  BadRevs = {}
  NoRev = 0
  Jobs = {j1, j2}
  DocOf <- SlotsOfOne
  Scheduled = TRUE
  MaxAttempts = 2
  MaxConfig = 1
  MaxFilter = 0
  BatchSize = 1
  Faults = {}
  Concurrency = 2
  AbruptAttempts = 1
  IndexFaults = {"fetch", "forbidden", "skip", "build", "kill", "timeout", "crash", "stop"}
  AdminOps = {}
  Budget = 2
SYMMETRY Slots
INVARIANTS TypeOK RunningJobOwned RetryBudget OneJobPerRevision EligibleHasIndex
PROPERTIES ImplementsJobLifecycle StaleOnlyByLatePublish
