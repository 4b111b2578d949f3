CONSTANTS
  QueueJobs <- MCJobs
  Payload <- MCPayload
  Scopes <- MCScopes
  PolicyKeys <- MCPolicyKeys
  Mutations <- MCMutations
  Window = 2
  LeaseTicks = 1
  MaxClock = 2
  MaxStarts = 2
SPECIFICATION LimitsSpec
INVARIANT EligibleIsWhatClaimsAcquire
CHECK_DEADLOCK FALSE
