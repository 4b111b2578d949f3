CONSTANTS
  RunIds = {r1}
  TrackedIds = {}
  JobIds = {j1}
  SuspendIds = {}
  HoldIds = {h1, h2}
  HoldKeys = {k1}
  WorkerIds = {w1, w2}
  ServedIds = {j1}
  ReadsFail = FALSE
  NoRun = NoRun
  NoJob = NoJob
  NoWorker = NoWorker
  NoTask = NoTask
  NoKey = NoKey
  LeaseTTL = 1
  HoldTTL = 3
  StuckAfter = 2
  SuccessRetention = 1
  FailureRetention = 1
  MaxAttempts = 2
SPECIFICATION Spec
PROPERTY LiveHoldSurvives
CHECK_DEADLOCK FALSE
