CONSTANTS
  RunIds = {r1}
  TrackedIds = {}
  JobIds = {j1}
  SuspendIds = {}
  HoldIds = {}
  HoldKeys = {}
  WorkerIds = {w1, w2}
  ServedIds = {j1}
  ReadsFail = TRUE
  NoRun = NoRun
  NoJob = NoJob
  NoWorker = NoWorker
  NoTask = NoTask
  NoKey = NoKey
  LeaseTTL = 1
  HoldTTL = 1
  StuckAfter = 1
  SuccessRetention = 1
  FailureRetention = 1
  MaxAttempts = 2
SPECIFICATION MaintainedSpec
PROPERTY LostCanceledJobSettles
CHECK_DEADLOCK FALSE
