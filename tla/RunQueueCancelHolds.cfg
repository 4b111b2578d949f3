CONSTANTS
  RunIds = {r1, r2}
  TrackedIds = {}
  JobIds = {j1, j2}
  SuspendIds = {}
  HoldIds = {h1}
  HoldKeys = {k1}
  WorkerIds = {w1}
  ServedIds = {j1, j2}
  ReadsFail = FALSE
  NoRun = NoRun
  NoJob = NoJob
  NoWorker = NoWorker
  NoTask = NoTask
  NoKey = NoKey
  LeaseTTL = 1
  HoldTTL = 2
  StuckAfter = 2
  SuccessRetention = 1
  FailureRetention = 1
  MaxAttempts = 2
SPECIFICATION Spec
INVARIANT CancellationEndsHolds
CHECK_DEADLOCK FALSE
