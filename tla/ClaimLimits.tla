---------------------------- MODULE ClaimLimits ----------------------------
(***************************************************************************)
(* What LocalStore's claim may hand out: the order of the queue, the scope *)
(* of the worker, the lifecycle of the app, the concurrency ceilings of    *)
(* the app and of its keyed limits, the rate limits, the allowances by     *)
(* which operators tighten them, and the demand snapshot by which a        *)
(* controller sizes the worker groups.                                     *)
(*                                                                         *)
(* An operation runs under the file lock of the store and is one step.     *)
(* The runs behind the jobs, human tasks and the outcomes of a completion  *)
(* are RunQueue's matter: a job here is queued, running or done.  Digests, *)
(* fingerprints and the validity of a pin (a pin is written by admission   *)
(* only, and only when valid) are abstracted to model values.              *)
(***************************************************************************)
EXTENDS Integers, FiniteSets, FiniteSetsExt

CONSTANTS
  QueueJobs,     \* identifiers of the jobs, numbers, since they break ties
  Payload,       \* what admission pinned to each job, see JobPayload
  Scopes,        \* [workspaces, tags, labels] of the workers that ask
  PolicyKeys,    \* operator policies: [workspace, app, kind, policy]
  Mutations,     \* the requests operators send, and send again
  Window,        \* ticks of a rate window
  LeaseTicks,    \* ticks of a lease
  MaxClock,      \* bound on the clock
  MaxStarts      \* bound on the attempts of one job

\* A pin: the declared policy, its shape ("" in a job older than shapes), the
\* digest of the key taken from the input, and the ceiling of the release,
\* which a valid pin has positive.
Pin == [policy : STRING, shape : STRING, key : STRING, ceiling : Nat \ {0}]

JobPayload == [workspace : STRING, app : STRING, tag : STRING,
               labels : SUBSET STRING, priority : Int, created : Nat,
               \* ceiling of the app, 0 if the release sets none
               maxConcurrent : Nat,
               concurrency : SUBSET Pin, rate : SUBSET Pin]

ASSUME LimitsAssumption ==
  /\ QueueJobs \subseteq Nat /\ IsFiniteSet(QueueJobs)
  /\ Payload \in [QueueJobs -> JobPayload]
  /\ \A m \in Mutations : m.key \in PolicyKeys /\ {m.expected, m.allowance} \subseteq Nat
  /\ {Window, LeaseTicks} \subseteq Nat \ {0}
  /\ {MaxClock, MaxStarts} \subseteq Nat

VARIABLES
  queue,      \* the jobs
  buckets,    \* ExecutionRateBuckets
  policies,   \* ExecutionLimitPolicies
  retired,    \* the apps whose lifecycle is not active (AppRuntime has it in full)
  clock,
  ceilings,   \* history: per running job, the ceilings its claim was held to
  spent,      \* history: the attempts of a rate key in the current window
  applied     \* history: how often each mutation took effect

limitsVars ==
  <<queue, buckets, policies, retired, clock, ceilings, spent, applied>>

-----------------------------------------------------------------------------
(* Jobs, keys and allowances *)

Apps == {[workspace |-> Payload[j].workspace, app |-> Payload[j].app] :
           j \in QueueJobs}

jobAppKey(j) == [workspace |-> Payload[j].workspace, app |-> Payload[j].app]

AppPolicy(j) == [workspace |-> Payload[j].workspace, app |-> Payload[j].app,
                 kind |-> "concurrency", policy |-> "app"]

executionPolicyKeyForJob(j, kind, pin) ==
  [workspace |-> Payload[j].workspace, app |-> Payload[j].app,
   kind |-> kind, policy |-> pin.policy]

\* The key of the bucket of a rate limit: shapes do not share a bucket.
rateBucketKey(j, pin) == <<Payload[j].workspace, pin.policy, pin.shape, pin.key>>

RateKeys == UNION {{rateBucketKey(j, p) : p \in Payload[j].rate} : j \in QueueJobs}

\* An absent policy has revision 0.
NoPolicy == [revision |-> 0, deleted |-> TRUE, shape |-> "", allowance |-> 0,
             operation |-> 0]

\* The allowances that apply to the shape: none or one.
matchingPolicyAllowance(key, shape) ==
  {policies[k].allowance :
     k \in {k \in PolicyKeys : /\ k = key
                               /\ shape # ""
                               /\ ~policies[k].deleted
                               /\ policies[k].allowance > 0
                               /\ policies[k].shape = shape}}

\* The ceilings of the app, as a set with at most one member.  The shape of
\* the app-wide limit is derived from the app and never changes.
effectiveAppConcurrencyLimit(j) ==
  LET release  == IF Payload[j].maxConcurrent > 0 THEN {Payload[j].maxConcurrent} ELSE {}
      ceiling  == release \cup matchingPolicyAllowance(AppPolicy(j), "app")
  IN  IF ceiling = {} THEN {} ELSE {Min(ceiling)}

effectiveKeyedConcurrencyLimit(j, pin) ==
  Min({pin.ceiling} \cup
      matchingPolicyAllowance(executionPolicyKeyForJob(j, "concurrency", pin), pin.shape))

effectiveKeyedRateLimit(j, pin) ==
  Min({pin.ceiling} \cup
      matchingPolicyAllowance(executionPolicyKeyForJob(j, "rate", pin), pin.shape))

-----------------------------------------------------------------------------
(* The tests of a claim, on the jobs q and the buckets b of a snapshot *)

Running(q) == {j \in QueueJobs : q[j].state = "running"}

\* A job without a shape counts every job of the policy and the key, a job
\* with one only the jobs of its shape.
jobHasKeyedConcurrencyPin(i, j, pin) ==
  /\ Payload[i].workspace = Payload[j].workspace
  /\ \E p \in Payload[i].concurrency :
       /\ pin.shape \in {"", p.shape}
       /\ p.policy = pin.policy
       /\ p.key = pin.key

\* Mutant: the ceiling is reached one job too late.
keyedConcurrencyExceeded(q, j) ==
  \E pin \in Payload[j].concurrency :
    Cardinality({i \in Running(q) : jobHasKeyedConcurrencyPin(i, j, pin)})
      > effectiveKeyedConcurrencyLimit(j, pin)

keyedConcurrencyReached(q, j) ==
  \E pin \in Payload[j].concurrency :
    Cardinality({i \in Running(q) : jobHasKeyedConcurrencyPin(i, j, pin)})
      >= effectiveKeyedConcurrencyLimit(j, pin)

maxConcurrentReached(q, j) ==
  \/ keyedConcurrencyReached(q, j)
  \/ \E limit \in effectiveAppConcurrencyLimit(j) :
       Cardinality({i \in Running(q) : jobAppKey(i) = jobAppKey(j)}) >= limit

rateWindow(t) == t \div Window

NoBucket == [window |-> -1, consumed |-> 0]

rateLimitsReached(b, j) ==
  \E pin \in Payload[j].rate :
    /\ b[rateBucketKey(j, pin)].window = rateWindow(clock)
    /\ b[rateBucketKey(j, pin)].consumed >= effectiveKeyedRateLimit(j, pin)

consumeRateLimits(b, j) ==
  [k \in RateKeys |->
     IF k \notin {rateBucketKey(j, pin) : pin \in Payload[j].rate} THEN b[k]
     ELSE IF b[k].window = rateWindow(clock)
          THEN [b[k] EXCEPT !.consumed = @ + 1]
          ELSE [window |-> rateWindow(clock), consumed |-> 1]]

\* Mutant: the bucket of the current window is dropped too.
pruneCurrentRateBuckets(b) ==
  [k \in RateKeys |-> IF b[k].window <= rateWindow(clock) THEN NoBucket ELSE b[k]]

\* A bucket is dropped when its window has ended.
pruneExecutionRateBuckets(b) ==
  [k \in RateKeys |-> IF b[k].window < rateWindow(clock) THEN NoBucket ELSE b[k]]

appRuntimeAllowsNewAttempt(j) == jobAppKey(j) \notin retired

\* No tags serve every tag; labels must cover what the job requires; no
\* workspaces serve every workspace.
claimAllowed(j, scope) ==
  /\ scope.workspaces = {} \/ Payload[j].workspace \in scope.workspaces
  /\ scope.tags = {} \/ Payload[j].tag \in scope.tags
  /\ Payload[j].labels \subseteq scope.labels

ClaimsBefore(i, j) ==
  \/ Payload[i].priority < Payload[j].priority
  \/ /\ Payload[i].priority = Payload[j].priority
     /\ \/ Payload[i].created < Payload[j].created
        \/ Payload[i].created = Payload[j].created /\ i < j

LeaseExpired(j) == queue[j].state = "running" /\ queue[j].expires <= clock

\* What requeueExpiredJobs leaves: a canceled job ends, another is queued again.
requeueExpiredJobs ==
  [j \in QueueJobs |->
     IF LeaseExpired(j)
     THEN [queue[j] EXCEPT !.state = IF queue[j].canceled THEN "done" ELSE "queued",
                           !.expires = 0]
     ELSE queue[j]]

\* The jobs a claim may take from q and b, and the one it takes: the first.
Claimable(q, b, scope) ==
  {j \in QueueJobs : /\ q[j].state = "queued"
                     /\ appRuntimeAllowsNewAttempt(j)
                     /\ claimAllowed(j, scope)
                     /\ ~maxConcurrentReached(q, j)
                     /\ ~rateLimitsReached(b, j)}

FirstOf(candidates) ==
  {j \in candidates : \A i \in candidates \ {j} : ClaimsBefore(j, i)}

-----------------------------------------------------------------------------
(* The operations on jobs *)

LimitsInit ==
  /\ queue = [j \in QueueJobs |-> [state |-> "queued", starts |-> 0, expires |-> 0,
                                   canceled |-> FALSE]]
  /\ buckets = [k \in RateKeys |-> NoBucket]
  /\ policies = [k \in PolicyKeys |-> NoPolicy]
  /\ retired = {}
  /\ clock = 0
  /\ ceilings = [j \in QueueJobs |-> [app |-> {}, keyed |-> {}]]
  /\ spent = [k \in RateKeys |-> [window |-> 0, attempts |-> 0, ceiling |-> 0]]
  /\ applied = [m \in Mutations |-> 0]

\* The rate attempts as counted by the windows of the clock, with the ceiling
\* of the latest of them.
Spent(j) ==
  [k \in RateKeys |->
     IF \A pin \in Payload[j].rate : rateBucketKey(j, pin) # k THEN spent[k]
     ELSE [window   |-> rateWindow(clock),
           attempts |-> IF spent[k].window = rateWindow(clock)
                        THEN spent[k].attempts + 1 ELSE 1,
           ceiling  |-> Min({effectiveKeyedRateLimit(j, pin) :
                               pin \in {p \in Payload[j].rate : rateBucketKey(j, p) = k}})]]

\* One successful claim.  Without a claimable job the store saves nothing: not
\* what requeueExpiredJobs did either.
ClaimJobForWorkerScope(scope) ==
  LET q == requeueExpiredJobs
      b == pruneExecutionRateBuckets(buckets)
  IN  \E j \in FirstOf(Claimable(q, b, scope)) :
        /\ queue[j].starts < MaxStarts
        /\ queue' = [q EXCEPT ![j] = [q[j] EXCEPT !.state = "running",
                                                  !.starts = @ + 1,
                                                  !.expires = clock + LeaseTicks]]
        /\ buckets' = consumeRateLimits(b, j)
        /\ ceilings' =
             [ceilings EXCEPT ![j] =
                [app |-> effectiveAppConcurrencyLimit(j),
                 keyed |-> {[pin |-> p, ceiling |-> effectiveKeyedConcurrencyLimit(j, p)] :
                              p \in Payload[j].concurrency}]]
        /\ spent' = Spent(j)
        /\ UNCHANGED <<policies, retired, clock, applied>>

HeartbeatJob(j) ==
  /\ queue[j].state = "running"
  /\ queue' = [queue EXCEPT ![j].expires = clock + LeaseTicks]
  /\ UNCHANGED <<buckets, policies, retired, clock, ceilings, spent, applied>>

\* A completion of any outcome ends the attempt.  A lease that runs out at
\* this instant still counts here, though not for requeueExpiredJobs.
CompleteJob(j) ==
  /\ queue[j].state = "running" /\ queue[j].expires >= clock
  /\ queue' = [queue EXCEPT ![j].state = "done", ![j].expires = 0]
  /\ UNCHANGED <<buckets, policies, retired, clock, ceilings, spent, applied>>

\* A queued job ends at once, a running one is asked to stop.
CancelJob(j) ==
  /\ queue[j].state \in {"queued", "running"}
  /\ queue' = [queue EXCEPT ![j].canceled = TRUE,
                            ![j].state = IF @ = "queued" THEN "done" ELSE @]
  /\ UNCHANGED <<buckets, policies, retired, clock, ceilings, spent, applied>>

-----------------------------------------------------------------------------
(* Operators: the policies and the lifecycle *)

\* Of the lifecycle only whether it is active matters here; a revocation also
\* asks the running attempts of the app to stop.
SetAppRuntimeLifecycle(a, state) ==
  /\ retired' = IF state = "active" THEN retired \ {a} ELSE retired \cup {a}
  /\ queue' = [j \in QueueJobs |->
       IF state = "revoked" /\ jobAppKey(j) = a /\ queue[j].state = "running"
       THEN [queue[j] EXCEPT !.canceled = TRUE] ELSE queue[j]]
  /\ UNCHANGED <<buckets, policies, clock, ceilings, spent, applied>>

\* Whether the request is the one applied last (and is answered from it), and
\* whether it is applied: its revision is the current one, and the shape of a
\* policy changes only after the policy is deleted.
ReplayedMutation(m) == policies[m.key].operation = m.operation

\* Mutant: the expected revision is not compared.
AppliedAtAnyRevision(m) ==
  ~ReplayedMutation(m) /\ (policies[m.key].deleted \/ policies[m.key].shape = m.shape)

AppliedMutation(m) ==
  /\ ~ReplayedMutation(m)
  /\ m.expected = policies[m.key].revision
  /\ policies[m.key].deleted \/ policies[m.key].shape = m.shape

\* A batch names a policy once and takes effect as a whole or not at all.  A
\* batch that is refused, or replayed as a whole, changes nothing.
MutateExecutionLimitPolicies(batch) ==
  /\ \A m, n \in batch : m.key = n.key => m = n
  /\ \A m \in batch : ReplayedMutation(m) \/ AppliedMutation(m)
  /\ \E m \in batch : AppliedMutation(m)
  /\ policies' = [k \in PolicyKeys |->
       IF \E m \in batch : m.key = k /\ AppliedMutation(m)
       THEN LET m == CHOOSE m \in batch : m.key = k
            IN  [revision |-> m.expected + 1, deleted |-> m.delete, shape |-> m.shape,
                 allowance |-> m.allowance, operation |-> m.operation]
       ELSE policies[k]]
  /\ applied' = [m \in Mutations |->
       applied[m] + IF m \in batch /\ AppliedMutation(m) THEN 1 ELSE 0]
  /\ UNCHANGED <<queue, buckets, retired, clock, ceilings, spent>>

LimitsTick ==
  /\ clock < MaxClock
  /\ clock' = clock + 1
  /\ UNCHANGED <<queue, buckets, policies, retired, ceilings, spent, applied>>

LimitsNext ==
  \/ \E scope \in Scopes : ClaimJobForWorkerScope(scope)
  \/ \E j \in QueueJobs : HeartbeatJob(j) \/ CompleteJob(j) \/ CancelJob(j)
  \/ \E a \in Apps, state \in {"active", "tombstoned", "revoked"} :
       SetAppRuntimeLifecycle(a, state)
  \/ \E batch \in SUBSET Mutations : MutateExecutionLimitPolicies(batch)
  \/ LimitsTick

LimitsSpec == LimitsInit /\ [][LimitsNext]_limitsVars

-----------------------------------------------------------------------------
(* The demand snapshot *)

\* Mutant: a lease counts until it is requeued.
unexpiredOrNotQueueLease(j) == queue[j].state = "running"

\* The leases it counts as active, and the jobs it counts as candidates.
activeQueueLease(j) == queue[j].state = "running" /\ queue[j].expires > clock

queueDemandCandidate(j) ==
  ~queue[j].canceled /\ (queue[j].state = "queued" \/ LeaseExpired(j))

\* The buckets whose window holds the present.
currentRateUsage ==
  [k \in RateKeys |-> IF buckets[k].window = rateWindow(clock) THEN buckets[k].consumed ELSE 0]

keyedConcurrencyCountKey(j, pin) == <<Payload[j].workspace, pin.policy, pin.shape, pin.key>>

\* One candidate of the greedy pass: admitted if the leases and the candidates
\* already admitted leave room for it under every limit.
DemandAdmits(admitted, j) ==
  LET busy == {i \in QueueJobs : activeQueueLease(i)} \cup admitted
      sharing(pin) == {i \in busy : \E p \in Payload[i].concurrency :
                         keyedConcurrencyCountKey(i, p) = keyedConcurrencyCountKey(j, pin)}
      consuming(pin) == {i \in admitted : \E p \in Payload[i].rate :
                           rateBucketKey(i, p) = rateBucketKey(j, pin)}
  IN  /\ \A limit \in effectiveAppConcurrencyLimit(j) :
           Cardinality({i \in busy : jobAppKey(i) = jobAppKey(j)}) < limit
      /\ \A pin \in Payload[j].concurrency :
           Cardinality(sharing(pin)) < effectiveKeyedConcurrencyLimit(j, pin)
      /\ \A pin \in Payload[j].rate :
           currentRateUsage[rateBucketKey(j, pin)] + Cardinality(consuming(pin))
             < effectiveKeyedRateLimit(j, pin)

\* The jobs of a set in claim order.
InClaimOrder(jobs) ==
  CHOOSE s \in [1..Cardinality(jobs) -> jobs] :
    \A m, n \in 1..Cardinality(jobs) : m < n => ClaimsBefore(s[m], s[n])

\* A selector of the snapshot is the scope of a worker of one workspace.
QueueDemandSelectors == {scope \in Scopes : Cardinality(scope.workspaces) = 1}

\* The candidates of a selector; its app's lifecycle is not asked for.
WaitingFor(selector) ==
  {j \in QueueJobs : claimAllowed(j, selector) /\ queueDemandCandidate(j)}

\* QueueDemandSnapshot for a selector: the jobs its Eligible counts.
buildQueueDemandSnapshot(selector) ==
  LET waiting == WaitingFor(selector)
      order == InClaimOrder(waiting)
      pass[n \in 0..Cardinality(waiting)] ==
        IF n = 0 THEN {}
        ELSE LET j == order[n]
             IN  pass[n - 1] \cup IF DemandAdmits(pass[n - 1], j) THEN {j} ELSE {}
  IN  pass[Cardinality(waiting)]

-----------------------------------------------------------------------------
(* Properties *)

\* Type correctness of the queue, the buckets and the policies.
LimitsTypeOK ==
  /\ queue \in [QueueJobs -> [state : {"queued", "running", "done"}, starts : 0..MaxStarts,
                              expires : 0..(MaxClock + LeaseTicks), canceled : BOOLEAN]]
  /\ buckets \in [RateKeys -> [window : -1..MaxClock, consumed : Nat]]
  /\ retired \subseteq Apps
  /\ clock \in 0..MaxClock

\* However claims, lost leases, completions and operators' changes interleave,
\* the jobs that hold a concurrency limit together are never more than the
\* ceiling one of them was claimed under: of the app, and of every key.
CeilingsHold ==
  LET running == Running(queue)
  IN  /\ \A a \in {jobAppKey(j) : j \in {i \in running : ceilings[i].app # {}}} :
           LET held == {i \in running : jobAppKey(i) = a}
           IN  \E i \in held : \A limit \in ceilings[i].app : Cardinality(held) <= limit
      /\ \A j \in running : \A pin \in {p \in Payload[j].concurrency : p.shape # ""} :
           LET held == {i \in running : jobHasKeyedConcurrencyPin(i, j, pin)}
           IN  \E i \in held : \E c \in ceilings[i].keyed :
                 /\ c.pin.policy = pin.policy /\ c.pin.shape = pin.shape /\ c.pin.key = pin.key
                 /\ Cardinality(held) <= c.ceiling

\* No rate window sees more attempts of a key than the ceiling in force when the
\* latest of them was claimed, though leases are lost and their jobs claimed
\* again, buckets are pruned, and operators change the allowance.
RateWindowHolds == \A k \in RateKeys : spent[k].attempts <= spent[k].ceiling

\* A mutation that is sent again, before or after others, takes effect once.
MutationAppliedOnce == \A m \in Mutations : applied[m] <= 1

\* What the claims of a scope hand out from here on, with nothing else
\* happening: each takes the first claimable job of what the one before left.
HandedOut(scope) ==
  LET q == requeueExpiredJobs
      step(c) ==
        LET next == FirstOf(Claimable(c.q, c.b, scope))
        IN  IF next = {} THEN c
            ELSE LET j == CHOOSE j \in next : TRUE
                 IN  [q |-> [c.q EXCEPT ![j].state = "running"],
                      b |-> consumeRateLimits(c.b, j), jobs |-> c.jobs \cup {j}]
      claims[n \in 0..Cardinality(QueueJobs)] ==
        IF n = 0 THEN [q |-> q, b |-> pruneExecutionRateBuckets(buckets), jobs |-> {}]
        ELSE step(claims[n - 1])
  IN  claims[Cardinality(QueueJobs)].jobs

\* The jobs for which the snapshot makes the test of the claim: of an active
\* app, and pinned with shapes.  It does not ask for the lifecycle at all, and
\* counts for a pin without a shape only pins without one.
SameTestApplies(j) ==
  appRuntimeAllowsNewAttempt(j) /\ \A pin \in Payload[j].concurrency : pin.shape # ""

\* As long as every candidate of a selector is of an active app and pinned with
\* shapes, the demand the selector is told is exactly what its claims would be
\* given, whatever else is retired, leased or spent: the greedy pass of the
\* snapshot and the repeated claim are two programs for one answer.
DemandIsWhatClaimsHandOut ==
  \A selector \in QueueDemandSelectors :
    (\A j \in WaitingFor(selector) : SameTestApplies(j)) =>
      buildQueueDemandSnapshot(selector) = HandedOut(selector)

\* docs/adr/0019: eligible is the number that repeated claims by the selector
\* could acquire from the observed state.  The snapshot also counts the
\* candidates of tombstoned and revoked apps, which no claim takes.
EligibleIsWhatClaimsAcquire ==
  \A selector \in QueueDemandSelectors :
    Cardinality(buildQueueDemandSnapshot(selector)) = Cardinality(HandedOut(selector))
=============================================================================
