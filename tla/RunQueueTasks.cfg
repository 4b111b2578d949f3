CONSTANTS
  RunIds = {r1, r2}
  TrackedIds = {r1}
  JobIds = {j1, j2}
  SuspendIds = {s1}
  HoldIds = {h1, h2}
  HoldKeys = {k1}
  WorkerIds = {w1}
  ServedIds = {j1, j2}
  ReadsFail = FALSE
  NoRun = NoRun
  NoJob = NoJob
  NoWorker = NoWorker
  NoTask = NoTask
  NoKey = NoKey
  LeaseTTL = 1
  HoldTTL = 1
  StuckAfter = 1
  SuccessRetention = 1
  FailureRetention = 1
  MaxAttempts = 2
SPECIFICATION Spec
SYMMETRY Symmetry
INVARIANTS
  TypeOK
  IndInv
  NoOrphans
  SuspendedRunHasItsTask
PROPERTIES
  FirstTerminalWriterWins
  FollowsLifecycle
CHECK_DEADLOCK FALSE
