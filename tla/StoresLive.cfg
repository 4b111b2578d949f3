CONSTANTS
  RunIds = {r1}
  Sessions = {s1, s2, s3}
  MaxAttempts = 2
  PgRunIds = {p1}
  MaxPgAttempts = 2
  StuckSweep = TRUE
  TrackedIds = {}
  JobIds = {j1, j2}
  SuspendIds = {}
  HoldIds = {h1}
  HoldKeys = {k1}
  WorkerIds = {w1}
  ServedIds = {j1}
  ReadsFail = TRUE
  NoRun = NoRun
  NoJob = NoJob
  NoWorker = NoWorker
  NoTask = NoTask
  NoKey = NoKey
  LeaseTTL = 1
  HoldTTL = 1
  StuckAfter = 1
  SuccessRetention = 1
  FailureRetention = 1
SPECIFICATION StoresFairSpec
PROPERTIES
  LostLeaseRecovered
  HeldTaskEnds
  TransactionEnds
CHECK_DEADLOCK FALSE
