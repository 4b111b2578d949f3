CONSTANTS
  PgJobs = {1, 2, 3, 4}
  PgLimits <- MCPgRateLimits
  PgSessions = {s1, s2}
  BatchSize = 1
  Allowances = {}
  PgWindow = 2
  PgLease = 2
  SnapshotFence = TRUE
  MaxPgClock = 3
  MaxPgStarts = 1
SPECIFICATION PgClaimsSpec
INVARIANT PgRateWindowHolds
CHECK_DEADLOCK FALSE
