CONSTANTS
  QueueJobs <- MCJobs
  Payload <- MCPayload
  Scopes <- MCScopes
  PolicyKeys <- MCPolicyKeys
  Mutations <- MCMutations
  Window = 2
  LeaseTicks = 1
  MaxClock = 2
  MaxStarts = 2
  AppJobs = {1}
  Objects = {1}
  Operations = {1, 2, 3}
  MaxWrites = 2
  AppLease = 1
  MaxAppClock = 2
  MaxAppAttempts = 2
  MaxChanges = 2
  MaxRevisions = 2
  PgJobs = {1, 2, 3}
  PgLimits <- MCPgCeilings
  PgSessions = {s1, s2}
  BatchSize = 1
  Allowances = {0, 1}
  PgWindow = 2
  PgLease = 0
  SnapshotFence = FALSE
  MaxPgClock = 1
  MaxPgStarts = 2
  WorkerIds = {w1}
  FleetJobs = {1}
  FleetRequests = {"q1", "q2"}
  Traffic <- MCTraffic
  StaticToken = TRUE
  MaxGeneration = 1
  MaxRevision = 1
  LiveTicks = 0
  ExpiryTicks = 0
  DrainTicks = 0
  FleetLease = 1
  MaxFleetClock = 1
  Hooks = {h1}
  Changes = {e1, e2}
  Dispatchers = {p1, p2}
  MaxTries = 2
  MaxSends = 2
  Messages = {m1}
  Servers = {v1, v2}
  Answerers = {p1}
  Targets = {"t1"}
  Policies = {"poll", "callback"}
  AdmissionFaults = {"unavailable", "refused"}
  MaxCallbacks = 2
  MaxAnswers = 2
  MaxEdits = 1
  MaxRedeliveries = 1
  SecretOps = {1, 2}
  SecretRequests = {q1, q2}
  GraceTicks = 2
  RequestTicks = 1
  MaxTouches = 2
  MaxSecretClock = 3
  Processes = {w1, w2}
  MaxWorkAttempts = 2
  WorkLease = 1
  MaxLostCalls = 1
  Commits = {"c1", "c2"}
  Asked = {"none", "c1"}
  Replicas = {r1, r2}
  SourceTicks = 1
  MaxReleases = 2
  ReleaseIds = {"r1", "r2"}
  Snapshots = {"k1"}
  Revisions = {"p1", "p2"}
  ReleasePin <- MCReleasePin
  CredentialRefs <- MCCredentialRefs
  Invocations = {q1, q2}
  MaxGenerations = 2
  Bindings = {b1, b2}
  RouteTriggers = {"t1"}
  Addresses = {"a1"}
  Routers = {"x", "y"}
  AutoProvider = "auto"
  MaxRouteGeneration = 2
SPECIFICATION Spec
VIEW FocusView
INVARIANTS
  ControlPlaneTypeOK
  CeilingsHold
  RateWindowHolds
  MutationAppliedOnce
  DemandMatchesClaims
  RetiredAppLetsGo
  PgCeilingsHold
  DeletedSubscriptionLetsGo
  NoEventLost
  PublishedSecretResolves
  RecordedCauseIsTrue
  AdmittedReleaseIsPinned
  ActivatedHistoryIsKept
  ReadyRouteIsWanted
PROPERTIES
  AttemptsWriteInOrder
  RecordKeepsItsCredential
  SettledCompletionIsFinal
  PublishesWhatWasAsked
CHECK_DEADLOCK FALSE
