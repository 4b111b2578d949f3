CONSTANTS
  PgRunIds = {r1}
  Sessions = {s1, s2}
  MaxPgAttempts = 1
  StuckSweep = TRUE
SPECIFICATION PoolSpec
PROPERTY LeasedJobNotExpired
CHECK_DEADLOCK FALSE
