CONSTANTS
  RunIds = {r1, r2}
  Sessions = {s1, s2}
  MaxAttempts = 2
  PgRunIds = {p1, p2}
  MaxPgAttempts = 2
  StuckSweep = TRUE
  TrackedIds = {r1}
  JobIds = {j1, j2}
  SuspendIds = {}
  HoldIds = {}
  HoldKeys = {}
  WorkerIds = {w1, w2}
  ServedIds = {j1, j2}
  ReadsFail = TRUE
  NoRun = NoRun
  NoJob = NoJob
  NoWorker = NoWorker
  NoTask = NoTask
  NoKey = NoKey
  LeaseTTL = 2
  HoldTTL = 1
  StuckAfter = 2
  SuccessRetention = 1
  FailureRetention = 1
SPECIFICATION StoresSpec
SYMMETRY StoresSymmetry
INVARIANTS
  PgTypeOK
  RowsAgree
  EveryClaimCounted
  PgCanceledJobNeverRuns
  OneActiveJob
  NewestLeaseOnly
  CanceledJobNeverRuns
  AdmissionFence
  LeasedJobNotStuck
PROPERTIES
  PgFollowsLifecycle
  OutcomeIsFinal
  SettledJobIsFinal
  FollowsLifecycle
CHECK_DEADLOCK FALSE
