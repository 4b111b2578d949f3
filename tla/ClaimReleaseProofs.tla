-------------------------- MODULE ClaimReleaseProofs --------------------------
(***************************************************************************)
(* Theorems about what a claim may hand out, in both stores, and about     *)
(* what a publication releases.                                            *)
(***************************************************************************)
EXTENDS ClaimLimits, PostgresClaims, Releases, FiniteSetTheorems, FunctionTheorems,
        WellFoundedInduction, TLAPS

-----------------------------------------------------------------------------
(* Minima and counts *)

(* A set of naturals that is not empty has its minimum: Min is what it should be. *)
LEMMA MinOf ==
  ASSUME NEW S, S \subseteq Nat, S # {}
  PROVE  Min(S) \in S /\ \A x \in S : Min(S) <= x
<1>. DEFINE R == OpToRel(<, Nat)
<1>1. IsWellFoundedOn(R, Nat)
  BY NatLessThanWellFounded
<1>2. \A x, y \in Nat : x < y => <<x, y>> \in R
  BY DEF OpToRel
<1>. HIDE DEF R
<1>3. PICK x \in S : \A y \in S : ~(<<y, x>> \in R)
  BY <1>1, WFMin
<1>4. ASSUME NEW y \in S PROVE x =< y
  <2>1. x \in Nat /\ y \in Nat
    OBVIOUS
  <2>2. ~(y < x)
    BY <1>2, <1>3, <2>1
  <2>. QED
    BY <2>1, <2>2
<1>. QED
  BY <1>4 DEF Min

(* One more than what was below the limit is not above it. *)
LEMMA OneMore ==
  ASSUME NEW H, IsFiniteSet(H), NEW limit \in Nat, ~(Cardinality(H) >= limit),
         NEW j, NEW S, S \subseteq H \cup {j}
  PROVE  Cardinality(S) <= limit
<1>1. /\ IsFiniteSet(H \cup {j})
      /\ Cardinality(H \cup {j}) = IF j \in H THEN Cardinality(H) ELSE Cardinality(H) + 1
  BY FS_AddElement
<1>2. Cardinality(H) \in Nat
  BY FS_CardinalityType
<1>3. IsFiniteSet(S) /\ Cardinality(S) <= Cardinality(H \cup {j})
  BY <1>1, FS_Subset
<1>4. Cardinality(S) \in Nat
  BY <1>3, FS_CardinalityType
<1>. QED
  BY <1>1, <1>2, <1>3, <1>4

(* Fewer than what was below the limit are below it. *)
LEMMA NoMore ==
  ASSUME NEW H, IsFiniteSet(H), NEW limit \in Nat, ~(Cardinality(H) >= limit),
         NEW S, S \subseteq H
  PROVE  ~(Cardinality(S) >= limit)
<1>1. Cardinality(H) \in Nat
  BY FS_CardinalityType
<1>2. IsFiniteSet(S) /\ Cardinality(S) <= Cardinality(H)
  BY FS_Subset
<1>3. Cardinality(S) \in Nat
  BY <1>2, FS_CardinalityType
<1>. QED
  BY <1>1, <1>2, <1>3

-----------------------------------------------------------------------------
(* Policies *)

\* A policy counts its revisions, and a mutation that was applied is behind the
\* revision it made: this is why it cannot be applied again.
PolicyInv ==
  /\ DOMAIN policies = PolicyKeys
  /\ \A k \in PolicyKeys : policies[k].revision \in Nat /\ policies[k].allowance \in Nat
  /\ applied \in [Mutations -> Nat]
  /\ \A m \in Mutations :
       applied[m] <= 1 /\ (applied[m] = 1 => m.expected < policies[m.key].revision)

(* A batch moves each policy it applies to one revision on. *)
LEMMA Batches ==
  ASSUME PolicyInv, NEW batch \in SUBSET Mutations, MutateExecutionLimitPolicies(batch)
  PROVE  PolicyInv'
<1>. DEFINE ByMutation(m) == [revision |-> m.expected + 1, deleted |-> m.delete,
               shape |-> m.shape, allowance |-> m.allowance, operation |-> m.operation]
<1>1. \A m \in Mutations : /\ m.key \in PolicyKeys /\ m.expected \in Nat /\ m.allowance \in Nat
  BY LimitsAssumption
<1>2. \A m \in batch : ByMutation(m).revision = m.expected + 1 /\ ByMutation(m).allowance = m.allowance
  OBVIOUS
<1>3. \A m \in batch : AppliedMutation(m) => policies'[m.key] = ByMutation(m)
  <2>. SUFFICES ASSUME NEW m \in batch, AppliedMutation(m)
                PROVE  policies'[m.key] = ByMutation(m)
    OBVIOUS
  <2>1. (CHOOSE n \in batch : n.key = m.key) = m
    BY DEF MutateExecutionLimitPolicies
  <2>. QED
    BY <1>1, <2>1 DEF MutateExecutionLimitPolicies
<1>. HIDE DEF ByMutation
<1>4. \A k \in PolicyKeys : \/ policies'[k] = policies[k]
                            \/ \E m \in batch : m.key = k /\ AppliedMutation(m)
  BY DEF MutateExecutionLimitPolicies
<1>5. \A m \in Mutations :
        applied'[m] = applied[m] + IF m \in batch /\ AppliedMutation(m) THEN 1 ELSE 0
  BY DEF MutateExecutionLimitPolicies
<1>6. \A k \in PolicyKeys :
        /\ policies'[k].revision \in Nat /\ policies'[k].allowance \in Nat
        /\ policies[k].revision <= policies'[k].revision
  BY <1>1, <1>2, <1>3, <1>4 DEF PolicyInv, AppliedMutation
<1>7. applied' \in [Mutations -> Nat] /\ DOMAIN policies' = PolicyKeys
  BY DEF MutateExecutionLimitPolicies, PolicyInv
<1>8. ASSUME NEW m \in Mutations
      PROVE  applied'[m] <= 1 /\ (applied'[m] = 1 => m.expected < policies'[m.key].revision)
  <2>1. CASE m \in batch /\ AppliedMutation(m)
    <3>1. m.expected = policies[m.key].revision /\ applied[m] = 0
      BY <1>1, <2>1 DEF PolicyInv, AppliedMutation
    <3>2. applied'[m] = 1
      BY <1>5, <2>1, <3>1
    <3>3. policies'[m.key].revision = m.expected + 1
      BY <1>2, <1>3, <2>1
    <3>. QED
      BY <1>1, <3>2, <3>3
  <2>2. CASE ~(m \in batch /\ AppliedMutation(m))
    BY <1>1, <1>5, <1>6, <2>2 DEF PolicyInv
  <2>. QED
    BY <2>1, <2>2
<1>. QED
  BY <1>6, <1>7, <1>8 DEF PolicyInv

(* Nothing but a batch changes a policy. *)
LEMMA PolicySteps ==
  ASSUME PolicyInv, [LimitsNext]_limitsVars
  PROVE  PolicyInv'
<1>1. CASE \E batch \in SUBSET Mutations : MutateExecutionLimitPolicies(batch)
  BY <1>1, Batches
<1>2. CASE UNCHANGED <<policies, applied>>
  BY <1>2 DEF PolicyInv
<1>. QED
  BY <1>1, <1>2 DEF LimitsNext, limitsVars, ClaimJobForWorkerScope, HeartbeatJob, CompleteJob,
     CancelJob, SetAppRuntimeLifecycle, LimitsTick

(* No policy is set and no mutation applied at the start. *)
LEMMA PolicyInvInit ==
  ASSUME LimitsInit
  PROVE  PolicyInv
<1>1. NoPolicy.revision = 0 /\ NoPolicy.allowance = 0
  BY DEF NoPolicy
<1>2. policies = [k \in PolicyKeys |-> NoPolicy] /\ applied = [m \in Mutations |-> 0]
  BY DEF LimitsInit
<1>. QED
  BY <1>1, <1>2 DEF PolicyInv

\* A mutation that is sent again, before or after others, takes effect once, for
\* any policies, mutations and batches.
THEOREM MutationAppliedOnceHolds == LimitsSpec => []MutationAppliedOnce
<1>1. LimitsInit => PolicyInv
  BY PolicyInvInit
<1>2. PolicyInv => MutationAppliedOnce
  BY DEF PolicyInv, MutationAppliedOnce
<1>. QED
  BY <1>1, <1>2, PolicySteps, PTL DEF LimitsSpec

-----------------------------------------------------------------------------
(* Concurrency *)

\* The fields of a job.
IsQueueJob(job) == DOMAIN job = {"state", "starts", "expires", "canceled"}

QueueShape ==
  /\ DOMAIN queue = QueueJobs /\ DOMAIN ceilings = QueueJobs
  /\ \A j \in QueueJobs : IsQueueJob(queue[j])

\* Of every set of running jobs of one app, and not only of all of them, one was
\* claimed under a ceiling that admits the set.  It is the one claimed last: the
\* jobs that leave take no such witness from those that stay.
AppSetsFit ==
  \A S \in SUBSET Running(queue) :
    S # {} /\ (\A i, k \in S : jobAppKey(i) = jobAppKey(k)) =>
      \E i \in S : \A limit \in ceilings[i].app : Cardinality(S) <= limit

SamePin(p, pin) == p.policy = pin.policy /\ p.shape = pin.shape /\ p.key = pin.key

\* The same for the jobs that share a key.
KeySetsFit ==
  \A j \in QueueJobs : \A pin \in {p \in Payload[j].concurrency : p.shape # ""} :
    \A S \in SUBSET Running(queue) :
      S # {} /\ (\A i \in S : jobHasKeyedConcurrencyPin(i, j, pin)) =>
        \E i \in S : \E c \in ceilings[i].keyed :
          SamePin(c.pin, pin) /\ Cardinality(S) <= c.ceiling

CeilingsInv == PolicyInv /\ QueueShape /\ AppSetsFit /\ KeySetsFit

(* What ends, is renewed, canceled or requeued makes no job run. *)
LEMMA QuietSteps ==
  ASSUME QueueShape,
         \/ \E j \in QueueJobs : HeartbeatJob(j) \/ CompleteJob(j) \/ CancelJob(j)
         \/ \E a \in Apps, state \in {"active", "tombstoned", "revoked"} :
              SetAppRuntimeLifecycle(a, state)
         \/ \E batch \in SUBSET Mutations : MutateExecutionLimitPolicies(batch)
         \/ LimitsTick
         \/ UNCHANGED limitsVars
  PROVE  QueueShape' /\ Running(queue') \subseteq Running(queue) /\ UNCHANGED ceilings
<1>. DEFINE Quiet == /\ DOMAIN queue' = QueueJobs /\ ceilings' = ceilings
                     /\ \A k \in QueueJobs :
                          /\ IsQueueJob(queue'[k])
                          /\ queue'[k].state = "running" => queue[k].state = "running"
<1>1. ASSUME NEW j \in QueueJobs, HeartbeatJob(j) PROVE Quiet
  <2>1. queue' = [queue EXCEPT ![j] = [queue[j] EXCEPT !.expires = clock + LeaseTicks]]
        /\ ceilings' = ceilings
    BY <1>1 DEF HeartbeatJob
  <2>. QED
    BY <2>1 DEF QueueShape, IsQueueJob
<1>2. ASSUME NEW j \in QueueJobs, CompleteJob(j) PROVE Quiet
  <2>1. queue' = [queue EXCEPT ![j] = [queue[j] EXCEPT !.state = "done", !.expires = 0]]
        /\ ceilings' = ceilings
    BY <1>2 DEF CompleteJob
  <2>. QED
    BY <2>1 DEF QueueShape, IsQueueJob
<1>3. ASSUME NEW j \in QueueJobs, CancelJob(j) PROVE Quiet
  <2>1. queue' = [queue EXCEPT ![j] = [queue[j] EXCEPT !.canceled = TRUE,
                    !.state = IF queue[j].state = "queued" THEN "done" ELSE queue[j].state]]
        /\ ceilings' = ceilings
    BY <1>3 DEF CancelJob, QueueShape, IsQueueJob
  <2>. QED
    BY <2>1 DEF QueueShape, IsQueueJob
<1>4. ASSUME NEW a, NEW state, SetAppRuntimeLifecycle(a, state) PROVE Quiet
  BY <1>4 DEF SetAppRuntimeLifecycle, QueueShape, IsQueueJob
<1>5. ASSUME UNCHANGED <<queue, ceilings>> PROVE Quiet
  BY <1>5 DEF QueueShape
<1>6. Quiet
  BY <1>1, <1>2, <1>3, <1>4, <1>5 DEF MutateExecutionLimitPolicies, LimitsTick, limitsVars
<1>. QED
  BY <1>6 DEF QueueShape, Running

(* The limits that apply are natural numbers, and positive. *)
LEMMA EffectiveLimits ==
  ASSUME PolicyInv, NEW j \in QueueJobs
  PROVE  /\ effectiveAppConcurrencyLimit(j) \subseteq Nat
         /\ \A pin \in Payload[j].concurrency : effectiveKeyedConcurrencyLimit(j, pin) \in Nat \ {0}
         /\ \A pin \in Payload[j].rate : effectiveKeyedRateLimit(j, pin) \in Nat \ {0}
<1>1. Payload[j] \in JobPayload
  BY LimitsAssumption
<1>2. /\ Payload[j].maxConcurrent \in Nat
      /\ \A pin \in Payload[j].concurrency \cup Payload[j].rate : pin.ceiling \in Nat \ {0}
  BY <1>1 DEF JobPayload, Pin
<1>3. ASSUME NEW key, NEW shape, NEW x \in matchingPolicyAllowance(key, shape)
      PROVE  x \in Nat \ {0}
  <2>1. PICK k \in PolicyKeys : policies[k].allowance > 0 /\ x = policies[k].allowance
    BY DEF matchingPolicyAllowance
  <2>. QED
    BY <2>1 DEF PolicyInv
<1>4. ASSUME NEW pin, pin.ceiling \in Nat \ {0}
      PROVE  effectiveKeyedConcurrencyLimit(j, pin) \in Nat \ {0}
             /\ effectiveKeyedRateLimit(j, pin) \in Nat \ {0}
  <2>1. ASSUME NEW S, S \subseteq Nat \ {0}
        PROVE  Min({pin.ceiling} \cup S) \in Nat \ {0}
    BY <1>4, <2>1, MinOf
  <2>. QED
    BY <1>3, <2>1 DEF effectiveKeyedConcurrencyLimit, effectiveKeyedRateLimit
<1>5. effectiveAppConcurrencyLimit(j) \subseteq Nat
  <2>. DEFINE release == IF Payload[j].maxConcurrent > 0 THEN {Payload[j].maxConcurrent} ELSE {}
              ceiling == release \cup matchingPolicyAllowance(AppPolicy(j), "app")
  <2>1. ceiling \subseteq Nat
    BY <1>2, <1>3
  <2>2. effectiveAppConcurrencyLimit(j) = IF ceiling = {} THEN {} ELSE {Min(ceiling)}
    BY DEF effectiveAppConcurrencyLimit
  <2>. HIDE DEF ceiling
  <2>. QED
    BY <2>1, <2>2, MinOf
<1>. QED
  BY <1>2, <1>4, <1>5

(* The claim of one job, without the choice of the job. *)
Claims(j) ==
  LET q == requeueExpiredJobs
  IN  /\ ~maxConcurrentReached(q, j)
      /\ queue' = [q EXCEPT ![j] = [q[j] EXCEPT !.state = "running",
                                                !.starts = @ + 1,
                                                !.expires = clock + LeaseTicks]]
      /\ ceilings' =
           [ceilings EXCEPT ![j] =
              [app |-> effectiveAppConcurrencyLimit(j),
               keyed |-> {[pin |-> p, ceiling |-> effectiveKeyedConcurrencyLimit(j, p)] :
                            p \in Payload[j].concurrency}]]

(* A claim adds one job to those that run after the requeue. *)
LEMMA ClaimedJobs ==
  ASSUME QueueShape, NEW j \in QueueJobs, Claims(j)
  PROVE  /\ QueueShape'
         /\ Running(queue') \subseteq Running(requeueExpiredJobs) \cup {j}
         /\ Running(requeueExpiredJobs) \subseteq Running(queue)
         /\ \A i \in QueueJobs \ {j} : ceilings'[i] = ceilings[i]
         /\ ceilings'[j].app = effectiveAppConcurrencyLimit(j)
         /\ \A p \in Payload[j].concurrency :
              [pin |-> p, ceiling |-> effectiveKeyedConcurrencyLimit(j, p)] \in ceilings'[j].keyed
<1>. DEFINE q == requeueExpiredJobs
            job == [q[j] EXCEPT !.state = "running", !.starts = @ + 1,
                                !.expires = clock + LeaseTicks]
<1>1. /\ DOMAIN q = QueueJobs
      /\ \A i \in QueueJobs : IsQueueJob(q[i])
      /\ \A i \in QueueJobs : q[i].state = "running" => queue[i].state = "running"
  BY DEF requeueExpiredJobs, QueueShape, IsQueueJob
<1>2. queue' = [q EXCEPT ![j] = job]
  BY DEF Claims
<1>. HIDE DEF q
<1>3. IsQueueJob(job)
  BY <1>1 DEF IsQueueJob
<1>. HIDE DEF job
<1>4. \A i \in QueueJobs : queue'[i] = IF i = j THEN job ELSE q[i]
  BY <1>1, <1>2
<1>5. DOMAIN ceilings' = QueueJobs /\ DOMAIN queue' = QueueJobs
  BY <1>1, <1>2 DEF Claims, QueueShape
<1>6. QueueShape'
  BY <1>1, <1>3, <1>4, <1>5 DEF QueueShape
<1>7. Running(queue') \subseteq Running(q) \cup {j} /\ Running(q) \subseteq Running(queue)
  BY <1>1, <1>4 DEF Running
<1>8. /\ \A i \in QueueJobs \ {j} : ceilings'[i] = ceilings[i]
      /\ ceilings'[j] =
           [app |-> effectiveAppConcurrencyLimit(j),
            keyed |-> {[pin |-> p, ceiling |-> effectiveKeyedConcurrencyLimit(j, p)] :
                         p \in Payload[j].concurrency}]
  BY DEF Claims, QueueShape
<1>. QED
  BY <1>6, <1>7, <1>8 DEF q

(* The ceilings a claim passed admit every set with the job in it. *)
LEMMA ClaimsFit ==
  ASSUME CeilingsInv, NEW j \in QueueJobs, Claims(j)
  PROVE  AppSetsFit' /\ KeySetsFit'
<1>. DEFINE q == requeueExpiredJobs
<1>1. /\ Running(queue') \subseteq Running(q) \cup {j}
      /\ Running(q) \subseteq Running(queue)
      /\ \A i \in QueueJobs \ {j} : ceilings'[i] = ceilings[i]
      /\ ceilings'[j].app = effectiveAppConcurrencyLimit(j)
      /\ \A p \in Payload[j].concurrency :
           [pin |-> p, ceiling |-> effectiveKeyedConcurrencyLimit(j, p)] \in ceilings'[j].keyed
  BY ClaimedJobs DEF CeilingsInv
<1>2. ~maxConcurrentReached(q, j)
  BY DEF Claims
<1>. HIDE DEF q
<1>3. IsFiniteSet(Running(q)) /\ Running(q) \subseteq QueueJobs
  BY LimitsAssumption, FS_Subset DEF Running
<1>4. \A S : S \subseteq Running(queue') /\ j \notin S => S \subseteq Running(queue) /\ S \subseteq QueueJobs \ {j}
  BY <1>1 DEF Running
<1>5. AppSetsFit'
  <2>. SUFFICES ASSUME NEW S \in SUBSET Running(queue'), S # {},
                       \A i, k \in S : jobAppKey(i) = jobAppKey(k)
                PROVE  \E i \in S : \A limit \in ceilings'[i].app : Cardinality(S) <= limit
    BY DEF AppSetsFit
  <2>1. CASE j \notin S
    <3>1. PICK i \in S : \A limit \in ceilings[i].app : Cardinality(S) <= limit
      BY <1>4, <2>1 DEF CeilingsInv, AppSetsFit
    <3>. QED
      BY <1>1, <1>4, <2>1, <3>1
  <2>2. CASE j \in S
    <3>. DEFINE H == {i \in Running(q) : jobAppKey(i) = jobAppKey(j)}
    <3>1. IsFiniteSet(H) /\ S \subseteq H \cup {j}
      BY <1>1, <1>3, <2>2, FS_Subset
    <3>2. ASSUME NEW limit \in effectiveAppConcurrencyLimit(j)
          PROVE  Cardinality(S) <= limit
      <4>1. limit \in Nat
        BY EffectiveLimits DEF CeilingsInv
      <4>2. ~(Cardinality(H) >= limit)
        BY <1>2 DEF maxConcurrentReached
      <4>. HIDE DEF H
      <4>. QED
        BY <3>1, <4>1, <4>2, OneMore
    <3>. QED
      BY <1>1, <2>2, <3>2
  <2>. QED
    BY <2>1, <2>2
<1>6. KeySetsFit'
  <2>. SUFFICES ASSUME NEW i \in QueueJobs, NEW pin \in Payload[i].concurrency, pin.shape # "",
                       NEW S \in SUBSET Running(queue'), S # {},
                       \A k \in S : jobHasKeyedConcurrencyPin(k, i, pin)
                PROVE  \E k \in S : \E c \in ceilings'[k].keyed :
                         SamePin(c.pin, pin) /\ Cardinality(S) <= c.ceiling
    BY DEF KeySetsFit
  <2>1. CASE j \notin S
    <3>1. PICK k \in S : \E c \in ceilings[k].keyed :
            SamePin(c.pin, pin) /\ Cardinality(S) <= c.ceiling
      BY <1>4, <2>1 DEF CeilingsInv, KeySetsFit
    <3>. QED
      BY <1>1, <1>4, <2>1, <3>1
  <2>2. CASE j \in S
    <3>1. PICK p \in Payload[j].concurrency : SamePin(p, pin)
      BY <2>2 DEF jobHasKeyedConcurrencyPin, SamePin
    <3>. DEFINE H == {k \in Running(q) : jobHasKeyedConcurrencyPin(k, j, p)}
                limit == effectiveKeyedConcurrencyLimit(j, p)
    <3>2. \A k : jobHasKeyedConcurrencyPin(k, i, pin) => jobHasKeyedConcurrencyPin(k, j, p)
      BY <2>2, <3>1 DEF jobHasKeyedConcurrencyPin, SamePin
    <3>3. IsFiniteSet(H) /\ S \subseteq H \cup {j}
      BY <1>1, <1>3, <3>2, FS_Subset
    <3>4. limit \in Nat
      BY EffectiveLimits DEF CeilingsInv
    <3>5. ~(Cardinality(H) >= limit)
      BY <1>2 DEF maxConcurrentReached, keyedConcurrencyReached
    <3>. HIDE DEF H, limit
    <3>6. Cardinality(S) <= limit
      BY <3>3, <3>4, <3>5, OneMore
    <3>7. [pin |-> p, ceiling |-> limit] \in ceilings'[j].keyed
      BY <1>1 DEF limit
    <3>. QED
      BY <2>2, <3>1, <3>6, <3>7 DEF SamePin
  <2>. QED
    BY <2>1, <2>2
<1>. QED
  BY <1>5, <1>6

(* The sets that fit keep fitting when jobs leave. *)
LEMMA CeilingsSteps ==
  ASSUME CeilingsInv, [LimitsNext]_limitsVars
  PROVE  CeilingsInv'
<1>1. PolicyInv'
  BY PolicySteps DEF CeilingsInv
<1>2. CASE \E scope \in Scopes : ClaimJobForWorkerScope(scope)
  <2>1. PICK j \in QueueJobs : Claims(j)
    BY <1>2 DEF ClaimJobForWorkerScope, FirstOf, Claimable, Claims
  <2>. QED
    BY <1>1, <2>1, ClaimedJobs, ClaimsFit DEF CeilingsInv
<1>3. CASE ~\E scope \in Scopes : ClaimJobForWorkerScope(scope)
  <2>1. QueueShape' /\ Running(queue') \subseteq Running(queue) /\ UNCHANGED ceilings
    BY <1>3, QuietSteps DEF CeilingsInv, LimitsNext
  <2>2. AppSetsFit'
    BY <2>1 DEF CeilingsInv, AppSetsFit
  <2>3. KeySetsFit'
    BY <2>1 DEF CeilingsInv, KeySetsFit
  <2>. QED
    BY <1>1, <2>1, <2>2, <2>3 DEF CeilingsInv
<1>. QED
  BY <1>2, <1>3

(* Nothing runs at the start. *)
LEMMA CeilingsInvInit ==
  ASSUME LimitsInit
  PROVE  CeilingsInv
<1>1. PolicyInv
  BY PolicyInvInit
<1>2. /\ queue = [j \in QueueJobs |-> [state |-> "queued", starts |-> 0, expires |-> 0,
                                       canceled |-> FALSE]]
      /\ ceilings = [j \in QueueJobs |-> [app |-> {}, keyed |-> {}]]
  BY DEF LimitsInit
<1>3. QueueShape
  BY <1>2 DEF QueueShape, IsQueueJob
<1>4. Running(queue) = {}
  BY <1>2 DEF Running
<1>. QED
  BY <1>1, <1>3, <1>4 DEF CeilingsInv, AppSetsFit, KeySetsFit

(* The inductive invariant of the concurrency limits. *)
THEOREM CeilingsInvHolds == LimitsSpec => []CeilingsInv
BY CeilingsInvInit, CeilingsSteps, PTL DEF LimitsSpec

\* However claims, lost leases, completions and operators' changes interleave, the
\* jobs that hold a limit together are never more than the ceiling one of them was
\* claimed under, for any number of jobs, apps, keys and policies.
THEOREM CeilingsHoldHolds == LimitsSpec => []CeilingsHold
<1>1. CeilingsInv => CeilingsHold
  <2>. SUFFICES ASSUME CeilingsInv PROVE CeilingsHold
    OBVIOUS
  <2>1. ASSUME NEW j \in Running(queue)
        PROVE  LET held == {i \in Running(queue) : jobAppKey(i) = jobAppKey(j)}
               IN  \E i \in held : \A limit \in ceilings[i].app : Cardinality(held) <= limit
    <3>. DEFINE held == {i \in Running(queue) : jobAppKey(i) = jobAppKey(j)}
    <3>1. held \in SUBSET Running(queue) /\ held # {}
          /\ \A i, k \in held : jobAppKey(i) = jobAppKey(k)
      OBVIOUS
    <3>. HIDE DEF held
    <3>2. \E i \in held : \A limit \in ceilings[i].app : Cardinality(held) <= limit
      BY <3>1 DEF CeilingsInv, AppSetsFit
    <3>. QED
      BY <3>2 DEF held
  <2>2. ASSUME NEW j \in Running(queue), NEW pin \in Payload[j].concurrency, pin.shape # ""
        PROVE  LET held == {i \in Running(queue) : jobHasKeyedConcurrencyPin(i, j, pin)}
               IN  \E i \in held : \E c \in ceilings[i].keyed :
                     /\ c.pin.policy = pin.policy /\ c.pin.shape = pin.shape
                     /\ c.pin.key = pin.key
                     /\ Cardinality(held) <= c.ceiling
    <3>. DEFINE held == {i \in Running(queue) : jobHasKeyedConcurrencyPin(i, j, pin)}
    <3>1. held \in SUBSET Running(queue) /\ j \in QueueJobs
          /\ \A i \in held : jobHasKeyedConcurrencyPin(i, j, pin)
      BY DEF Running
    <3>2. j \in held
      BY DEF jobHasKeyedConcurrencyPin
    <3>. HIDE DEF held
    <3>3. \E i \in held : \E c \in ceilings[i].keyed :
            SamePin(c.pin, pin) /\ Cardinality(held) <= c.ceiling
      BY <2>2, <3>1, <3>2 DEF CeilingsInv, KeySetsFit
    <3>. QED
      BY <3>3 DEF held, SamePin
  <2>3. \A a \in {jobAppKey(j) : j \in {i \in Running(queue) : ceilings[i].app # {}}} :
          LET held == {i \in Running(queue) : jobAppKey(i) = a}
          IN  \E i \in held : \A limit \in ceilings[i].app : Cardinality(held) <= limit
    BY <2>1
  <2>4. \A j \in Running(queue) : \A pin \in {p \in Payload[j].concurrency : p.shape # ""} :
          LET held == {i \in Running(queue) : jobHasKeyedConcurrencyPin(i, j, pin)}
          IN  \E i \in held : \E c \in ceilings[i].keyed :
                /\ c.pin.policy = pin.policy /\ c.pin.shape = pin.shape /\ c.pin.key = pin.key
                /\ Cardinality(held) <= c.ceiling
    BY <2>2
  <2>. QED
    BY <2>3, <2>4 DEF CeilingsHold
<1>. QED
  BY <1>1, CeilingsInvHolds, PTL

-----------------------------------------------------------------------------
(* Rates *)

Bucket == [window : Int, consumed : Nat]

SpentRecord == [window : Nat, attempts : Nat, ceiling : Nat]

\* Bucket b tells what history s says of the window w that is now, or has been
\* dropped, which it may be once nothing of that window is in it.
BucketTells(b, s, w) ==
  /\ s.window <= w /\ s.attempts <= s.ceiling
  /\ \/ b.window = s.window /\ b.consumed = s.attempts
     \/ b.window = -1 /\ (s.window < w \/ s.attempts = 0)

RateInv ==
  /\ PolicyInv
  /\ clock \in Nat
  /\ buckets \in [RateKeys -> Bucket] /\ spent \in [RateKeys -> SpentRecord]
  /\ \A k \in RateKeys : BucketTells(buckets[k], spent[k], rateWindow(clock))

(* Windows are numbered by natural numbers, in the order of time. *)
LEMMA Windows ==
  ASSUME NEW t \in Nat
  PROVE  /\ rateWindow(t) \in Nat
         /\ rateWindow(t) <= rateWindow(t + 1)
<1>1. Window \in Nat /\ Window > 0
  BY LimitsAssumption
<1>. QED
  BY <1>1, Z3 DEF rateWindow

(* What a claim does to one bucket and to the history of its key. *)
LEMMA OneBucket ==
  ASSUME NEW b \in Bucket, NEW s \in SpentRecord, NEW w \in Nat, BucketTells(b, s, w),
         NEW b1 \in Bucket, b1 = b \/ (b.window < w /\ b1.window = -1), b.window < w => b1.window = -1
  PROVE  /\ BucketTells(b1, s, w)
         /\ \A ceiling \in Nat \ {0} : (b1.window = w => b1.consumed < ceiling) =>
              \A b2 \in Bucket, s2 \in SpentRecord :
                /\ b2.window = w /\ b2.consumed = (IF b1.window = w THEN b1.consumed + 1 ELSE 1)
                /\ s2.window = w /\ s2.attempts = (IF s.window = w THEN s.attempts + 1 ELSE 1)
                /\ s2.ceiling = ceiling
                => BucketTells(b2, s2, w)
BY DEF BucketTells, Bucket, SpentRecord

(* A claim that passed the rate limits consumes them without exceeding one. *)
LEMMA RateClaims ==
  ASSUME RateInv, NEW j \in QueueJobs,
         ~rateLimitsReached(pruneExecutionRateBuckets(buckets), j),
         buckets' = consumeRateLimits(pruneExecutionRateBuckets(buckets), j),
         spent' = Spent(j), UNCHANGED <<clock, policies, applied>>
  PROVE  RateInv'
<1>. DEFINE b == pruneExecutionRateBuckets(buckets)
            w == rateWindow(clock)
            pins(k) == {p \in Payload[j].rate : rateBucketKey(j, p) = k}
<1>1. w \in Nat
  BY Windows DEF RateInv
<1>2. NoBucket \in Bucket /\ NoBucket.window = -1
  BY DEF NoBucket, Bucket
<1>3. ASSUME NEW k \in RateKeys
      PROVE  /\ b[k] \in Bucket
             /\ b[k] = buckets[k] \/ (buckets[k].window < w /\ b[k].window = -1)
             /\ buckets[k].window < w => b[k].window = -1
             /\ BucketTells(b[k], spent[k], w)
  <2>1. b[k] = IF buckets[k].window < w THEN NoBucket ELSE buckets[k]
    BY DEF pruneExecutionRateBuckets
  <2>. HIDE DEF b, w
  <2>2. buckets[k] \in Bucket /\ spent[k] \in SpentRecord
    BY DEF RateInv
  <2>3. BucketTells(buckets[k], spent[k], w)
    BY DEF RateInv, w
  <2>4. /\ b[k] \in Bucket
        /\ b[k] = buckets[k] \/ (buckets[k].window < w /\ b[k].window = -1)
        /\ buckets[k].window < w => b[k].window = -1
    BY <1>2, <2>1, <2>2
  <2>. QED
    BY <1>1, <2>2, <2>3, <2>4, OneBucket
<1>4. ASSUME NEW k \in RateKeys
      PROVE  /\ buckets'[k] \in Bucket /\ spent'[k] \in SpentRecord
             /\ BucketTells(buckets'[k], spent'[k], w)
  <2>1. CASE pins(k) = {}
    <3>1. buckets'[k] = b[k]
      BY <2>1 DEF consumeRateLimits
    <3>2. spent'[k] = spent[k]
      BY <2>1 DEF Spent
    <3>. HIDE DEF b, w
    <3>. QED
      BY <1>3, <3>1, <3>2 DEF RateInv
  <2>2. CASE pins(k) # {}
    <3>. DEFINE limits == {effectiveKeyedRateLimit(j, pin) : pin \in pins(k)}
                ceiling == Min(limits)
    <3>1. buckets'[k] = IF b[k].window = w THEN [b[k] EXCEPT !.consumed = @ + 1]
                        ELSE [window |-> w, consumed |-> 1]
      BY <2>2 DEF consumeRateLimits
    <3>2. spent'[k] = [window |-> w,
                       attempts |-> IF spent[k].window = w THEN spent[k].attempts + 1 ELSE 1,
                       ceiling |-> ceiling]
      BY <2>2 DEF Spent
    <3>3. limits \subseteq Nat \ {0} /\ limits # {}
      BY <2>2, EffectiveLimits DEF RateInv
    <3>4. \A x \in limits : b[k].window = w => ~(b[k].consumed >= x)
      BY DEF rateLimitsReached
    <3>5. ceiling \in limits
      <4>. HIDE DEF limits
      <4>. QED
        BY <3>3, MinOf
    <3>. HIDE DEF b, w, limits, ceiling
    <3>6. ceiling \in Nat \ {0} /\ b[k] \in Bucket
      BY <1>3, <3>3, <3>5
    <3>7. b[k].window = w => b[k].consumed < ceiling
      <4>1. b[k].consumed \in Nat /\ ceiling \in Nat
        BY <3>6 DEF Bucket
      <4>. QED
        BY <3>4, <3>5, <4>1
    <3>8. /\ buckets'[k] \in Bucket /\ buckets'[k].window = w
          /\ buckets'[k].consumed = (IF b[k].window = w THEN b[k].consumed + 1 ELSE 1)
      BY <1>1, <3>1, <3>6 DEF Bucket
    <3>9. spent[k] \in SpentRecord /\ buckets[k] \in Bucket
      BY DEF RateInv
    <3>10. /\ spent'[k] \in SpentRecord /\ spent'[k].window = w
           /\ spent'[k].attempts = (IF spent[k].window = w THEN spent[k].attempts + 1 ELSE 1)
           /\ spent'[k].ceiling = ceiling
      BY <1>1, <3>2, <3>6, <3>9 DEF SpentRecord
    <3>11. BucketTells(buckets[k], spent[k], w)
      BY DEF RateInv, w
    <3>. QED
      BY <1>1, <1>3, <3>6, <3>7, <3>8, <3>9, <3>10, <3>11, OneBucket
  <2>. QED
    BY <2>1, <2>2
<1>5. rateWindow(clock)' = w
  BY DEF rateWindow
<1>6. buckets' \in [RateKeys -> Bucket] /\ spent' \in [RateKeys -> SpentRecord]
  BY <1>4 DEF consumeRateLimits, Spent
<1>7. PolicyInv'
  BY DEF RateInv, PolicyInv
<1>. QED
  BY <1>4, <1>5, <1>6, <1>7 DEF RateInv

(* No other operation consumes a limit, and time only opens new windows. *)
LEMMA RateSteps ==
  ASSUME RateInv, [LimitsNext]_limitsVars
  PROVE  RateInv'
<1>1. PolicyInv'
  BY PolicySteps DEF RateInv
<1>2. CASE \E scope \in Scopes : ClaimJobForWorkerScope(scope)
  <2>1. PICK j \in QueueJobs :
          /\ ~rateLimitsReached(pruneExecutionRateBuckets(buckets), j)
          /\ buckets' = consumeRateLimits(pruneExecutionRateBuckets(buckets), j)
          /\ spent' = Spent(j)
    BY <1>2 DEF ClaimJobForWorkerScope, FirstOf, Claimable
  <2>2. UNCHANGED <<clock, policies, applied>>
    BY <1>2 DEF ClaimJobForWorkerScope
  <2>. QED
    BY <2>1, <2>2, RateClaims
<1>3. CASE LimitsTick
  <2>1. clock \in Nat /\ clock' = clock + 1 /\ UNCHANGED <<buckets, spent>>
    BY <1>3 DEF LimitsTick, RateInv
  <2>2. /\ rateWindow(clock) \in Nat /\ rateWindow(clock') \in Nat
        /\ rateWindow(clock) <= rateWindow(clock')
    BY <2>1, Windows
  <2>3. ASSUME NEW k \in RateKeys
        PROVE  BucketTells(buckets[k], spent[k], rateWindow(clock'))
    <3>1. /\ spent[k] \in SpentRecord
          /\ BucketTells(buckets[k], spent[k], rateWindow(clock))
      BY DEF RateInv
    <3>. QED
      BY <2>2, <3>1 DEF BucketTells, SpentRecord
  <2>4. rateWindow(clock)' = rateWindow(clock')
    BY DEF rateWindow
  <2>. QED
    BY <1>1, <2>1, <2>3, <2>4 DEF RateInv
<1>4. CASE UNCHANGED <<clock, buckets, spent>>
  BY <1>1, <1>4 DEF RateInv, rateWindow
<1>. QED
  BY <1>2, <1>3, <1>4 DEF LimitsNext, limitsVars, HeartbeatJob, CompleteJob,
     CancelJob, SetAppRuntimeLifecycle, MutateExecutionLimitPolicies

(* No bucket exists and nothing was spent at the start. *)
LEMMA RateInvInit ==
  ASSUME LimitsInit
  PROVE  RateInv
<1>1. /\ clock = 0 /\ buckets = [k \in RateKeys |-> NoBucket]
      /\ spent = [k \in RateKeys |-> [window |-> 0, attempts |-> 0, ceiling |-> 0]]
  BY DEF LimitsInit
<1>2. NoBucket \in Bucket /\ NoBucket.window = -1
  BY DEF NoBucket, Bucket
<1>3. rateWindow(clock) \in Nat
  BY <1>1, Windows
<1>4. buckets \in [RateKeys -> Bucket] /\ spent \in [RateKeys -> SpentRecord]
  BY <1>1, <1>2 DEF SpentRecord
<1>5. \A k \in RateKeys : BucketTells(buckets[k], spent[k], rateWindow(clock))
  BY <1>1, <1>2, <1>3 DEF BucketTells
<1>. QED
  BY <1>1, <1>4, <1>5, PolicyInvInit DEF RateInv

(* The inductive invariant of the rate limits: a bucket tells what was spent. *)
THEOREM RateInvHolds == LimitsSpec => []RateInv
BY RateInvInit, RateSteps, PTL DEF LimitsSpec

\* No rate window sees more attempts of a key than the ceiling in force when the
\* latest of them was claimed, for windows of any length.
THEOREM RateWindowHoldsAlways == LimitsSpec => []RateWindowHolds
<1>1. RateInv => RateWindowHolds
  BY DEF RateInv, RateWindowHolds, BucketTells
<1>. QED
  BY <1>1, RateInvHolds, PTL

-----------------------------------------------------------------------------
(* Concurrency on PostgreSQL *)

PgRunning(js) == {i \in PgJobs : js[i].state = "running"}

\* The running jobs of the app of j, but for those that transaction t requeued.
PgHeld(t, js, j) == {i \in PgRunning(js) \ t.requeued : PgLimits[i].app = PgLimits[j].app}

IsPgTx(t) == DOMAIN t = {"next", "began", "requeued", "candidates", "rows", "wants", "locks",
                         "selected"}

PgShape ==
  /\ DOMAIN pgJobs = PgJobs /\ DOMAIN pgCeilings = PgJobs /\ DOMAIN pgTx = PgSessions
  /\ \A j \in PgJobs : DOMAIN pgJobs[j] = {"state", "starts", "expires"}
  /\ \A s \in PgSessions : IsPgTx(pgTx[s])
  /\ pgAllowance \in [PgApps -> Nat]

\* An advisory lock has one holder.
LimitLocksExclusive ==
  \A s, t \in PgSessions : s # t => pgTx[s].locks \cap pgTx[t].locks = {}

\* While a claim locks the limits of a candidate, each lock it needs is held or
\* still wanted.
TxLocks(t) ==
  t.next = "lock" /\ Head(t.candidates) \in PgJobs =>
    /\ t.wants \in Seq({"app", "policy", "rate"} \X (PgApps \cup PgRateKeys))
    /\ AppLocks(Head(t.candidates)) \subseteq t.locks \cup ToSet(t.wants)

\* A claim that found room holds the locks of the app, and there still is room:
\* what other sessions committed since can only have made more.
TxPassed(t) ==
  t.next = "commit" /\ t.selected \in PgJobs =>
    /\ AppLocks(t.selected) \subseteq t.locks
    /\ \A limit \in PgAppCeiling(t.selected) :
         ~(Cardinality(PgHeld(t, pgJobs, t.selected)) >= limit)

\* As for the local store, every set of running jobs of an app fits.
PgSetsFit ==
  \A S \in SUBSET PgRunning(pgJobs) :
    S # {} /\ (\A i, k \in S : PgLimits[i].app = PgLimits[k].app) =>
      \E i \in S : \A limit \in pgCeilings[i] : Cardinality(S) <= limit

PgInv ==
  /\ PgShape
  /\ LimitLocksExclusive
  /\ \A s \in PgSessions : TxLocks(pgTx[s]) /\ TxPassed(pgTx[s])
  /\ PgSetsFit

(* The ceiling that applies to an app is a natural number. *)
LEMMA PgCeilingTypes ==
  ASSUME PgShape, NEW j \in PgJobs
  PROVE  PgAppCeiling(j) \subseteq Nat
<1>. DEFINE C == {PgLimits[j].ceiling, pgAllowance[PgLimits[j].app]} \ {0}
<1>1. PgLimits[j].app \in PgApps
  BY DEF PgApps
<1>2. C \subseteq Nat
  BY <1>1, PgClaimsAssumption DEF PgShape
<1>3. PgAppCeiling(j) = IF C = {} THEN {} ELSE {Min(C)}
  BY DEF PgAppCeiling
<1>. HIDE DEF C
<1>. QED
  BY <1>2, <1>3, MinOf

(* Jobs are finitely many. *)
LEMMA PgHeldFinite ==
  ASSUME NEW t, NEW js, NEW j
  PROVE  IsFiniteSet(PgHeld(t, js, j))
BY PgClaimsAssumption, FS_Subset DEF PgHeld, PgRunning

(* A step of one transaction that commits nothing. *)
LEMMA TxMoves ==
  ASSUME PgInv, NEW s \in PgSessions, NEW t, IsPgTx(t),
         pgTx' = [pgTx EXCEPT ![s] = t],
         UNCHANGED <<pgJobs, pgAllowance, pgCeilings>>,
         \A l \in t.locks : l \in pgTx[s].locks \/ LockFree(s, l),
         TxLocks(t), TxPassed(t)
  PROVE  PgInv'
<1>1. \A r \in PgSessions : pgTx'[r] = IF r = s THEN t ELSE pgTx[r]
  BY DEF PgInv, PgShape
<1>2. PgShape'
  BY <1>1 DEF PgInv, PgShape
<1>3. LimitLocksExclusive'
  <2>. SUFFICES ASSUME NEW q \in PgSessions, NEW r \in PgSessions, q # r, NEW l,
                       l \in pgTx'[q].locks, l \in pgTx'[r].locks
                PROVE  FALSE
    BY DEF LimitLocksExclusive
  <2>. QED
    BY <1>1 DEF PgInv, LimitLocksExclusive, LockFree
<1>4. \A j \in PgJobs : PgAppCeiling(j)' = PgAppCeiling(j)
  BY DEF PgAppCeiling
<1>5. ASSUME NEW r \in PgSessions PROVE TxLocks(pgTx[r])' /\ TxPassed(pgTx[r])'
  <2>1. TxLocks(pgTx[r])'
    BY <1>1 DEF PgInv, TxLocks
  <2>2. TxPassed(pgTx[r])'
    BY <1>1, <1>4 DEF PgInv, TxPassed
  <2>. QED
    BY <2>1, <2>2
<1>6. PgSetsFit'
  BY DEF PgInv, PgSetsFit
<1>. QED
  BY <1>2, <1>3, <1>5, <1>6 DEF PgInv

(* A claim begins, requeues lost jobs, or ends without effect: no lock is
   taken, and none of its limits is said to be passed. *)
LEMMA PgBeginnings ==
  ASSUME PgInv, NEW s \in PgSessions, BeginClaim(s) \/ RequeueExpired(s) \/ RollbackClaim(s)
  PROVE  PgInv'
<1>1. PICK t : /\ pgTx' = [pgTx EXCEPT ![s] = t] /\ IsPgTx(t)
               /\ t.locks \subseteq pgTx[s].locks /\ t.next \in {"idle", "requeue", "select"}
  <2>1. CASE BeginClaim(s)
    <3>. DEFINE t == [NoTx EXCEPT !.next = "requeue", !.began = pgClock]
    <3>1. pgTx' = [pgTx EXCEPT ![s] = t]
      BY <2>1 DEF BeginClaim
    <3>2. IsPgTx(t) /\ t.locks = {} /\ t.next = "requeue"
      BY DEF NoTx, IsPgTx
    <3>. HIDE DEF t
    <3>. QED
      BY <3>1, <3>2
  <2>3. CASE RequeueExpired(s)
    <3>1. PICK expired : pgTx' = [pgTx EXCEPT ![s] =
                           [pgTx[s] EXCEPT !.next = "select",
                                           !.requeued = expired, !.rows = expired]]
      BY <2>3 DEF RequeueExpired
    <3>. DEFINE t == [pgTx[s] EXCEPT !.next = "select", !.requeued = expired, !.rows = expired]
    <3>2. IsPgTx(t) /\ t.locks = pgTx[s].locks /\ t.next = "select"
      BY DEF PgInv, PgShape, IsPgTx
    <3>3. pgTx' = [pgTx EXCEPT ![s] = t]
      BY <3>1
    <3>. HIDE DEF t
    <3>. QED
      BY <3>2, <3>3
  <2>2. CASE RollbackClaim(s)
    <3>1. IsPgTx(NoTx) /\ NoTx.locks = {} /\ NoTx.next = "idle"
      BY DEF NoTx, IsPgTx
    <3>. QED
      BY <2>2, <3>1 DEF RollbackClaim
  <2>. QED
    BY <2>1, <2>2, <2>3
<1>2. TxLocks(t) /\ TxPassed(t)
  BY <1>1 DEF TxLocks, TxPassed
<1>3. UNCHANGED <<pgJobs, pgAllowance, pgCeilings>>
  BY DEF BeginClaim, RequeueExpired, RollbackClaim
<1>. QED
  BY <1>1, <1>2, <1>3, TxMoves

(* The candidates are read. *)
LEMMA PgCandidates ==
  ASSUME PgInv, NEW s \in PgSessions, postgresClaimCandidates(s)
  PROVE  PgInv'
<1>1. PICK batch, rows : pgTx' = [pgTx EXCEPT ![s].next = "candidate",
                                              ![s].candidates = batch, ![s].rows = rows]
  BY DEF postgresClaimCandidates
<1>. DEFINE t == [pgTx[s] EXCEPT !.next = "candidate", !.candidates = batch, !.rows = rows]
<1>2. pgTx' = [pgTx EXCEPT ![s] = t]
  BY <1>1
<1>3. IsPgTx(t) /\ t.locks = pgTx[s].locks /\ t.next = "candidate"
  BY DEF PgInv, PgShape, IsPgTx
<1>. HIDE DEF t
<1>4. TxLocks(t) /\ TxPassed(t)
  BY <1>3 DEF TxLocks, TxPassed
<1>5. UNCHANGED <<pgJobs, pgAllowance, pgCeilings>>
  BY DEF postgresClaimCandidates
<1>. QED
  BY <1>2, <1>3, <1>4, <1>5, TxMoves

(* A candidate is passed over, or the locks of its limits are wanted. *)
LEMMA PgLooks ==
  ASSUME PgInv, NEW s \in PgSessions, LookAtCandidate(s)
  PROVE  PgInv'
<1>. DEFINE j == Head(pgTx[s].candidates)
            over == [pgTx[s] EXCEPT !.candidates = Tail(@)]
            look == [pgTx[s] EXCEPT !.next = "lock", !.wants = LimitLocks(j)]
<1>1. IsPgTx(pgTx[s]) /\ pgTx[s].next = "candidate"
  BY DEF PgInv, PgShape, LookAtCandidate
<1>2. UNCHANGED <<pgJobs, pgAllowance, pgCeilings>>
  BY DEF LookAtCandidate
<1>3. pgTx' = [pgTx EXCEPT ![s] = over] \/ pgTx' = [pgTx EXCEPT ![s] = look]
  BY DEF LookAtCandidate
<1>4. IsPgTx(over) /\ over.locks = pgTx[s].locks /\ over.next = "candidate"
  BY <1>1 DEF IsPgTx
<1>5. /\ IsPgTx(look) /\ look.locks = pgTx[s].locks /\ look.next = "lock"
      /\ look.wants = LimitLocks(j) /\ look.candidates = pgTx[s].candidates
  BY <1>1 DEF IsPgTx
<1>. HIDE DEF over, look
<1>6. TxLocks(over) /\ TxPassed(over)
  BY <1>4 DEF TxLocks, TxPassed
<1>7. TxLocks(look) /\ TxPassed(look)
  <2>1. TxPassed(look)
    BY <1>5 DEF TxPassed
  <2>2. TxLocks(look)
    BY <1>5, PgClaimsAssumption DEF TxLocks, LimitLocks
  <2>. QED
    BY <2>1, <2>2
<1>. QED
  BY <1>2, <1>3, <1>4, <1>5, <1>6, <1>7, TxMoves

(* An element of a sequence is its head or is in its tail. *)
LEMMA HeadAndTail ==
  ASSUME NEW L, NEW w \in Seq(L), w # <<>>
  PROVE  Tail(w) \in Seq(L) /\ ToSet(w) \subseteq {Head(w)} \cup ToSet(Tail(w))
<1>1. Tail(w) \in Seq(L) /\ DOMAIN Tail(w) = 1..(Len(w) - 1) /\ Len(w) \in Nat \ {0}
  OBVIOUS
<1>2. ASSUME NEW i \in DOMAIN w, i # 1
      PROVE  i - 1 \in DOMAIN Tail(w) /\ Tail(w)[i - 1] = w[i]
  <2>1. i \in 2..Len(w)
    BY <1>1, <1>2
  <2>. QED
    BY <1>1, <2>1
<1>3. ASSUME NEW i \in DOMAIN w PROVE w[i] \in {Head(w)} \cup ToSet(Tail(w))
  <2>1. CASE i = 1
    BY <2>1
  <2>2. CASE i # 1
    BY <1>2, <2>2 DEF ToSet
  <2>. QED
    BY <2>1, <2>2
<1>. QED
  BY <1>1, <1>3 DEF ToSet

(* A free lock that was wanted is held. *)
LEMMA PgLocks ==
  ASSUME PgInv, NEW s \in PgSessions, TakeLimitLock(s)
  PROVE  PgInv'
<1>. DEFINE l == Head(pgTx[s].wants)
            t == [pgTx[s] EXCEPT !.locks = @ \cup {l}, !.wants = Tail(@)]
<1>1. IsPgTx(pgTx[s]) /\ pgTx[s].next = "lock" /\ pgTx[s].wants # <<>> /\ LockFree(s, l)
  BY DEF PgInv, PgShape, TakeLimitLock
<1>2. UNCHANGED <<pgJobs, pgAllowance, pgCeilings>> /\ pgTx' = [pgTx EXCEPT ![s] = t]
  BY DEF TakeLimitLock
<1>3. /\ IsPgTx(t) /\ t.next = "lock" /\ t.candidates = pgTx[s].candidates
      /\ t.locks = pgTx[s].locks \cup {l} /\ t.wants = Tail(pgTx[s].wants)
  BY <1>1 DEF IsPgTx
<1>. HIDE DEF t
<1>4. TxPassed(t)
  BY <1>3 DEF TxPassed
<1>5. TxLocks(t)
  <2>. DEFINE L == {"app", "policy", "rate"} \X (PgApps \cup PgRateKeys)
  <2>. SUFFICES ASSUME Head(t.candidates) \in PgJobs
                PROVE  /\ t.wants \in Seq(L)
                       /\ AppLocks(Head(t.candidates)) \subseteq t.locks \cup ToSet(t.wants)
    BY DEF TxLocks
  <2>1. /\ pgTx[s].wants \in Seq(L)
        /\ AppLocks(Head(t.candidates)) \subseteq pgTx[s].locks \cup ToSet(pgTx[s].wants)
    BY <1>1, <1>3 DEF PgInv, TxLocks
  <2>. HIDE DEF L
  <2>2. /\ Tail(pgTx[s].wants) \in Seq(L)
        /\ ToSet(pgTx[s].wants) \subseteq {l} \cup ToSet(Tail(pgTx[s].wants))
    BY <1>1, <2>1, HeadAndTail
  <2>. QED
    BY <1>3, <2>1, <2>2
<1>. QED
  BY <1>1, <1>2, <1>3, <1>4, <1>5, TxMoves

(* The limits are tested when all locks are held. *)
LEMMA PgChecks ==
  ASSUME PgInv, NEW s \in PgSessions, CheckLimits(s)
  PROVE  PgInv'
<1>. DEFINE j == Head(pgTx[s].candidates)
            over == [pgTx[s] EXCEPT !.next = "candidate", !.candidates = Tail(@)]
            take == [pgTx[s] EXCEPT !.next = "commit", !.selected = j]
<1>1. IsPgTx(pgTx[s]) /\ pgTx[s].next = "lock" /\ pgTx[s].wants = <<>>
  BY DEF PgInv, PgShape, CheckLimits
<1>2. UNCHANGED <<pgJobs, pgAllowance, pgCeilings>>
  BY DEF CheckLimits
<1>3. \/ pgTx' = [pgTx EXCEPT ![s] = over]
      \/ pgTx' = [pgTx EXCEPT ![s] = take] /\ ~postgresClaimLimitsReached(s, j)
  BY DEF CheckLimits
<1>4. IsPgTx(over) /\ over.locks = pgTx[s].locks /\ over.next = "candidate"
  BY <1>1 DEF IsPgTx
<1>5. /\ IsPgTx(take) /\ take.locks = pgTx[s].locks /\ take.next = "commit"
      /\ take.selected = j /\ take.requeued = pgTx[s].requeued
  BY <1>1 DEF IsPgTx
<1>. HIDE DEF over, take
<1>6. TxLocks(over) /\ TxPassed(over)
  BY <1>4 DEF TxLocks, TxPassed
<1>7. ASSUME ~postgresClaimLimitsReached(s, j)
      PROVE  TxLocks(take) /\ TxPassed(take)
  <2>1. TxLocks(take)
    BY <1>5 DEF TxLocks
  <2>2. ToSet(<<>>) = {}
    BY DEF ToSet
  <2>3. j \in PgJobs => AppLocks(j) \subseteq take.locks
    BY <1>1, <1>5, <2>2 DEF PgInv, TxLocks
  <2>4. PgHeld(take, pgJobs, j) = {i \in RunningFor(s) : PgLimits[i].app = PgLimits[j].app}
    BY <1>5 DEF PgHeld, PgRunning, RunningFor
  <2>5. \A limit \in PgAppCeiling(j) : ~(Cardinality(PgHeld(take, pgJobs, j)) >= limit)
    BY <1>7, <2>4 DEF postgresClaimLimitsReached, RunningJobsForApp
  <2>. QED
    BY <1>5, <2>1, <2>3, <2>5 DEF TxPassed
<1>. QED
  BY <1>2, <1>3, <1>4, <1>5, <1>6, <1>7, TxMoves

(* A commit runs its job and queues the ones it took back. *)
LEMMA PgCommitted ==
  ASSUME PgShape, NEW s \in PgSessions, CommitClaim(s)
  PROVE  LET j == pgTx[s].selected IN
         /\ PgShape'
         /\ \A r \in PgSessions : pgTx'[r] = IF r = s THEN NoTx ELSE pgTx[r]
         /\ PgRunning(pgJobs') \subseteq (PgRunning(pgJobs) \ pgTx[s].requeued) \cup {j}
         /\ \A i \in PgJobs : pgCeilings'[i] = IF i = j THEN PgAppCeiling(j) ELSE pgCeilings[i]
         /\ UNCHANGED pgAllowance
<1>. DEFINE j == pgTx[s].selected
<1>1. IsPgTx(NoTx)
  BY DEF NoTx, IsPgTx
<1>2. /\ \A r \in PgSessions : pgTx'[r] = IF r = s THEN NoTx ELSE pgTx[r]
      /\ DOMAIN pgTx' = PgSessions
  BY DEF CommitClaim, PgShape
<1>3. /\ \A i \in PgJobs : pgCeilings'[i] = IF i = j THEN PgAppCeiling(j) ELSE pgCeilings[i]
      /\ DOMAIN pgCeilings' = PgJobs /\ pgAllowance' = pgAllowance
  BY DEF CommitClaim, PgShape
<1>4. DOMAIN pgJobs' = PgJobs
  BY DEF CommitClaim
<1>5. ASSUME NEW i \in PgJobs
      PROVE  /\ DOMAIN pgJobs'[i] = {"state", "starts", "expires"}
             /\ i # j /\ pgJobs'[i].state = "running" =>
                  pgJobs[i].state = "running" /\ i \notin pgTx[s].requeued
  <2>1. CASE i = j
    BY <2>1 DEF CommitClaim
  <2>2. CASE i # j /\ i \in pgTx[s].requeued
    <3>1. pgJobs'[i] = [pgJobs[i] EXCEPT !.state = "queued", !.expires = 0]
      BY <2>2 DEF CommitClaim
    <3>. QED
      BY <2>2, <3>1 DEF PgShape
  <2>3. CASE i # j /\ i \notin pgTx[s].requeued
    BY <2>3 DEF CommitClaim, PgShape
  <2>. QED
    BY <2>1, <2>2, <2>3
<1>6. PgRunning(pgJobs') \subseteq (PgRunning(pgJobs) \ pgTx[s].requeued) \cup {j}
  BY <1>5 DEF PgRunning
<1>7. PgShape'
  BY <1>1, <1>2, <1>3, <1>4, <1>5 DEF PgShape
<1>. QED
  BY <1>2, <1>3, <1>6, <1>7

(* The job a commit adds fits under the ceiling that was tested, and no other
   claim of the app can have passed its test meanwhile. *)
LEMMA PgCommits ==
  ASSUME PgInv, NEW s \in PgSessions, CommitClaim(s)
  PROVE  PgInv'
<1>. DEFINE j == pgTx[s].selected
<1>1. /\ PgShape'
      /\ \A r \in PgSessions : pgTx'[r] = IF r = s THEN NoTx ELSE pgTx[r]
      /\ PgRunning(pgJobs') \subseteq (PgRunning(pgJobs) \ pgTx[s].requeued) \cup {j}
      /\ \A i \in PgJobs : pgCeilings'[i] = IF i = j THEN PgAppCeiling(j) ELSE pgCeilings[i]
      /\ UNCHANGED pgAllowance
  BY PgCommitted DEF PgInv
<1>2. pgTx[s].next = "commit"
  BY DEF CommitClaim
<1>3. NoTx.locks = {} /\ NoTx.next = "idle"
  BY DEF NoTx
<1>4. \A i \in PgJobs : PgAppCeiling(i)' = PgAppCeiling(i)
  BY <1>1 DEF PgAppCeiling
<1>5. PgRunning(pgJobs) \subseteq PgJobs /\ PgRunning(pgJobs') \subseteq PgJobs
  BY DEF PgRunning
<1>. HIDE DEF j
<1>6. j \in PgJobs => /\ AppLocks(j) \subseteq pgTx[s].locks
                       /\ \A limit \in PgAppCeiling(j) :
                            ~(Cardinality(PgHeld(pgTx[s], pgJobs, j)) >= limit)
  BY <1>2 DEF PgInv, TxPassed, j
<1>7. LimitLocksExclusive'
  BY <1>1, <1>3 DEF PgInv, LimitLocksExclusive
<1>8. ASSUME NEW r \in PgSessions PROVE TxLocks(pgTx[r])' /\ TxPassed(pgTx[r])'
  <2>1. CASE r = s
    BY <1>1, <1>3, <2>1 DEF TxLocks, TxPassed
  <2>2. CASE r # s
    <3>1. pgTx'[r] = pgTx[r]
      BY <1>1, <2>2
    <3>2. TxLocks(pgTx[r])'
      BY <3>1 DEF PgInv, TxLocks
    <3>3. TxPassed(pgTx[r])'
      <4>. DEFINE k == pgTx[r].selected
      <4>. SUFFICES ASSUME pgTx[r].next = "commit", k \in PgJobs
                    PROVE  /\ AppLocks(k) \subseteq pgTx[r].locks
                           /\ \A limit \in PgAppCeiling(k) :
                                ~(Cardinality(PgHeld(pgTx[r], pgJobs', k)) >= limit)
        BY <1>4, <3>1 DEF TxPassed
      <4>1. /\ AppLocks(k) \subseteq pgTx[r].locks
            /\ \A limit \in PgAppCeiling(k) :
                 ~(Cardinality(PgHeld(pgTx[r], pgJobs, k)) >= limit)
        BY DEF PgInv, TxPassed
      <4>. HIDE DEF k
      <4>2. j \in PgJobs => PgLimits[j].app # PgLimits[k].app
        BY <1>6, <2>2, <4>1 DEF PgInv, LimitLocksExclusive, AppLocks
      <4>3. PgHeld(pgTx[r], pgJobs', k) \subseteq PgHeld(pgTx[r], pgJobs, k)
        BY <1>1, <1>5, <4>2 DEF PgHeld
      <4>4. \A limit \in PgAppCeiling(k) : limit \in Nat
        BY PgCeilingTypes DEF PgInv
      <4>5. IsFiniteSet(PgHeld(pgTx[r], pgJobs, k))
        BY PgHeldFinite
      <4>. QED
        BY <4>1, <4>3, <4>4, <4>5, NoMore
    <3>. QED
      BY <3>2, <3>3
  <2>. QED
    BY <2>1, <2>2
<1>9. PgSetsFit'
  <2>. SUFFICES ASSUME NEW S \in SUBSET PgRunning(pgJobs'), S # {},
                       \A i, k \in S : PgLimits[i].app = PgLimits[k].app
                PROVE  \E i \in S : \A limit \in pgCeilings'[i] : Cardinality(S) <= limit
    BY DEF PgSetsFit
  <2>1. CASE j \notin S
    <3>1. S \in SUBSET PgRunning(pgJobs)
      BY <1>1, <2>1
    <3>2. PICK i \in S : \A limit \in pgCeilings[i] : Cardinality(S) <= limit
      BY <3>1 DEF PgInv, PgSetsFit
    <3>. QED
      BY <1>1, <1>5, <2>1, <3>2
  <2>2. CASE j \in S
    <3>. DEFINE H == PgHeld(pgTx[s], pgJobs, j)
    <3>1. j \in PgJobs /\ S \subseteq H \cup {j}
      BY <1>1, <1>5, <2>2 DEF PgHeld
    <3>2. IsFiniteSet(H)
      BY PgHeldFinite
    <3>3. ASSUME NEW limit \in PgAppCeiling(j) PROVE Cardinality(S) <= limit
      <4>1. limit \in Nat
        BY <3>1, PgCeilingTypes DEF PgInv
      <4>2. ~(Cardinality(H) >= limit)
        BY <1>6, <3>1
      <4>. HIDE DEF H
      <4>. QED
        BY <3>1, <3>2, <4>1, <4>2, OneMore
    <3>. QED
      BY <1>1, <2>2, <3>1, <3>3
  <2>. QED
    BY <2>1, <2>2
<1>. QED
  BY <1>1, <1>7, <1>8, <1>9 DEF PgInv

(* Heartbeats and completions make no job run. *)
LEMMA PgWorkers ==
  ASSUME PgInv, NEW j \in PgJobs, PgHeartbeat(j) \/ PgComplete(j)
  PROVE  PgInv'
<1>1. UNCHANGED <<pgTx, pgAllowance, pgCeilings>>
  BY DEF PgHeartbeat, PgComplete
<1>2. PICK job : /\ pgJobs' = [pgJobs EXCEPT ![j] = job]
                 /\ DOMAIN job = {"state", "starts", "expires"}
                 /\ job.state = "running" => pgJobs[j].state = "running"
  <2>1. CASE PgHeartbeat(j)
    <3>1. pgJobs' = [pgJobs EXCEPT ![j] = [pgJobs[j] EXCEPT !.expires = pgClock + PgLease]]
      BY <2>1 DEF PgHeartbeat
    <3>. QED
      BY <2>1, <3>1 DEF PgInv, PgShape, PgHeartbeat
  <2>2. CASE PgComplete(j)
    <3>1. pgJobs' = [pgJobs EXCEPT ![j] = [pgJobs[j] EXCEPT !.state = "done", !.expires = 0]]
      BY <2>2 DEF PgComplete
    <3>. QED
      BY <2>2, <3>1 DEF PgInv, PgShape, PgComplete
  <2>. QED
    BY <2>1, <2>2
<1>3. \A i \in PgJobs : pgJobs'[i] = IF i = j THEN job ELSE pgJobs[i]
  BY <1>2 DEF PgInv, PgShape
<1>4. PgRunning(pgJobs') \subseteq PgRunning(pgJobs)
  BY <1>2, <1>3 DEF PgRunning
<1>5. PgShape'
  BY <1>1, <1>2, <1>3 DEF PgInv, PgShape
<1>6. \A i \in PgJobs : PgAppCeiling(i)' = PgAppCeiling(i)
  BY <1>1 DEF PgAppCeiling
<1>7. ASSUME NEW r \in PgSessions PROVE TxPassed(pgTx[r])'
  <2>. DEFINE k == pgTx[r].selected
  <2>. SUFFICES ASSUME pgTx[r].next = "commit", k \in PgJobs
                PROVE  /\ AppLocks(k) \subseteq pgTx[r].locks
                       /\ \A limit \in PgAppCeiling(k) :
                            ~(Cardinality(PgHeld(pgTx[r], pgJobs', k)) >= limit)
    BY <1>1, <1>6 DEF TxPassed
  <2>1. /\ AppLocks(k) \subseteq pgTx[r].locks
        /\ \A limit \in PgAppCeiling(k) :
             ~(Cardinality(PgHeld(pgTx[r], pgJobs, k)) >= limit)
    BY DEF PgInv, TxPassed
  <2>. HIDE DEF k
  <2>2. PgHeld(pgTx[r], pgJobs', k) \subseteq PgHeld(pgTx[r], pgJobs, k)
    BY <1>4 DEF PgHeld
  <2>3. \A limit \in PgAppCeiling(k) : limit \in Nat
    BY PgCeilingTypes DEF PgInv
  <2>4. IsFiniteSet(PgHeld(pgTx[r], pgJobs, k))
    BY PgHeldFinite
  <2>. QED
    BY <2>1, <2>2, <2>3, <2>4, NoMore
<1>8. PgSetsFit' /\ LimitLocksExclusive' /\ \A r \in PgSessions : TxLocks(pgTx[r])'
  BY <1>1, <1>4 DEF PgInv, PgSetsFit, LimitLocksExclusive, TxLocks
<1>. QED
  BY <1>5, <1>7, <1>8 DEF PgInv

(* An allowance changes under the lock of the policy, so under no claim that has
   already been tested against it. *)
LEMMA PgPolicies ==
  ASSUME PgInv, NEW a \in PgApps, NEW allowance \in Allowances, PgMutatePolicy(a, allowance)
  PROVE  PgInv'
<1>1. UNCHANGED <<pgTx, pgJobs, pgCeilings>> /\ pgAllowance' = [pgAllowance EXCEPT ![a] = allowance]
  BY DEF PgMutatePolicy
<1>2. PgShape'
  BY <1>1, PgClaimsAssumption DEF PgInv, PgShape
<1>3. ASSUME NEW r \in PgSessions PROVE TxPassed(pgTx[r])'
  <2>. DEFINE k == pgTx[r].selected
  <2>. SUFFICES ASSUME pgTx[r].next = "commit", k \in PgJobs
                PROVE  /\ AppLocks(k) \subseteq pgTx[r].locks
                       /\ \A limit \in PgAppCeiling(k)' :
                            ~(Cardinality(PgHeld(pgTx[r], pgJobs, k)) >= limit)
    BY <1>1 DEF TxPassed
  <2>1. /\ AppLocks(k) \subseteq pgTx[r].locks
        /\ \A limit \in PgAppCeiling(k) :
             ~(Cardinality(PgHeld(pgTx[r], pgJobs, k)) >= limit)
    BY DEF PgInv, TxPassed
  <2>2. PgLimits[k].app # a
    BY <2>1 DEF AppLocks, PgMutatePolicy
  <2>3. pgAllowance'[PgLimits[k].app] = pgAllowance[PgLimits[k].app]
    BY <1>1, <2>2 DEF PgInv, PgShape, PgApps
  <2>4. PgAppCeiling(k)' = PgAppCeiling(k)
    BY <1>1, <2>3 DEF PgAppCeiling
  <2>. QED
    BY <2>1, <2>4
<1>4. PgSetsFit' /\ LimitLocksExclusive' /\ \A r \in PgSessions : TxLocks(pgTx[r])'
  BY <1>1 DEF PgInv, PgSetsFit, LimitLocksExclusive, TxLocks
<1>. QED
  BY <1>2, <1>3, <1>4 DEF PgInv

(* Time and the lifecycle of apps touch nothing of it. *)
LEMMA PgElse ==
  ASSUME PgInv, UNCHANGED <<pgJobs, pgTx, pgAllowance, pgCeilings>>
  PROVE  PgInv'
<1>1. \A i \in PgJobs : PgAppCeiling(i)' = PgAppCeiling(i)
  BY DEF PgAppCeiling
<1>2. \A r \in PgSessions : TxPassed(pgTx[r])'
  BY <1>1 DEF PgInv, TxPassed
<1>3. \A r \in PgSessions : TxLocks(pgTx[r])'
  BY DEF PgInv, TxLocks
<1>4. PgShape' /\ PgSetsFit' /\ LimitLocksExclusive'
  BY DEF PgInv, PgShape, PgSetsFit, LimitLocksExclusive
<1>. QED
  BY <1>2, <1>3, <1>4 DEF PgInv

(* Nothing runs and no transaction is open at the start. *)
LEMMA PgInvInit ==
  ASSUME PgClaimsInit
  PROVE  PgInv
<1>1. IsPgTx(NoTx) /\ NoTx.locks = {} /\ NoTx.next = "idle"
  BY DEF NoTx, IsPgTx
<1>2. /\ pgJobs = [j \in PgJobs |-> [state |-> "queued", starts |-> 0, expires |-> 0]]
      /\ pgAllowance = [a \in PgApps |-> 0] /\ pgTx = [s \in PgSessions |-> NoTx]
      /\ pgCeilings = [j \in PgJobs |-> {}]
  BY DEF PgClaimsInit
<1>3. PgShape
  BY <1>1, <1>2 DEF PgShape
<1>4. PgRunning(pgJobs) = {}
  BY <1>2 DEF PgRunning
<1>5. \A s \in PgSessions : pgTx[s] = NoTx
  BY <1>2
<1>6. \A s \in PgSessions : TxLocks(pgTx[s]) /\ TxPassed(pgTx[s])
  BY <1>1, <1>5 DEF TxLocks, TxPassed
<1>7. LimitLocksExclusive /\ PgSetsFit
  BY <1>1, <1>4, <1>5 DEF LimitLocksExclusive, PgSetsFit
<1>. QED
  BY <1>3, <1>6, <1>7 DEF PgInv

(* The inductive invariant of the claims on PostgreSQL: a claim that was tested
   holds the locks of its app and still has room. *)
THEOREM PgInvHolds == PgClaimsSpec => []PgInv
<1>1. PgClaimsInit => PgInv
  BY PgInvInit
<1>2. PgInv /\ [PgClaimsNext]_pgVars => PgInv'
  <2>. SUFFICES ASSUME PgInv, [PgClaimsNext]_pgVars PROVE PgInv'
    OBVIOUS
  <2>1. CASE \E s \in PgSessions :
               \/ BeginClaim(s) \/ RequeueExpired(s)
               \/ postgresClaimCandidates(s) \/ LookAtCandidate(s)
               \/ TakeLimitLock(s) \/ CheckLimits(s) \/ CommitClaim(s) \/ RollbackClaim(s)
    BY <2>1, PgBeginnings, PgCandidates, PgLooks, PgLocks, PgChecks, PgCommits
  <2>2. CASE \E j \in PgJobs : PgHeartbeat(j) \/ PgComplete(j)
    BY <2>2, PgWorkers
  <2>3. CASE \E a \in PgApps : \E allowance \in Allowances : PgMutatePolicy(a, allowance)
    BY <2>3, PgPolicies
  <2>4. CASE (\E a \in PgApps : PgSetLifecycle(a)) \/ PgTick \/ UNCHANGED pgVars
    BY <2>4, PgElse DEF PgSetLifecycle, PgTick, pgVars
  <2>. QED
    BY <2>1, <2>2, <2>3, <2>4 DEF PgClaimsNext
<1>. QED
  BY <1>1, <1>2, PTL DEF PgClaimsSpec

\* Claims that run beside each other never run more jobs of an app than a ceiling
\* one of them was claimed under, for any number of sessions, jobs and apps.
THEOREM PgCeilingsHoldHolds == PgClaimsSpec => []PgCeilingsHold
<1>1. PgInv => PgCeilingsHold
  <2>. SUFFICES ASSUME PgInv, NEW j \in PgJobs, pgJobs[j].state = "running"
                PROVE  LET held == {i \in PgJobs : pgJobs[i].state = "running" /\
                                                   PgLimits[i].app = PgLimits[j].app}
                       IN  \E i \in held : \A limit \in pgCeilings[i] : Cardinality(held) <= limit
    BY DEF PgCeilingsHold
  <2>. DEFINE held == {i \in PgJobs : pgJobs[i].state = "running" /\
                                      PgLimits[i].app = PgLimits[j].app}
  <2>1. held \in SUBSET PgRunning(pgJobs) /\ j \in held
        /\ \A i, k \in held : PgLimits[i].app = PgLimits[k].app
    BY DEF PgRunning
  <2>. HIDE DEF held
  <2>2. \E i \in held : \A limit \in pgCeilings[i] : Cardinality(held) <= limit
    BY <2>1 DEF PgInv, PgSetsFit
  <2>. QED
    BY <2>2 DEF held
<1>. QED
  BY <1>1, PgInvHolds, PTL

-----------------------------------------------------------------------------
(* Releases *)

\* A handler in progress.
OperationRecord ==
  [step : {"none", "resolve", "save", "mark", "latest", "build", "publish", "canceled"},
   expected : Commits \cup {NoCommit}, commit : Commits \cup {NoCommit}]

ReleaseTypes ==
  /\ history \in Seq(Commits)
  /\ operation \in [Replicas -> OperationRecord]
  /\ DOMAIN rollback = Replicas
  /\ sourceLease \in [holder : Replicas \cup {NoReplica}, left : Nat]
  /\ outlived \in BOOLEAN

\* Until a handler outlives its lease, every handler in progress has the lease;
\* so there is one at most.
HandlersHaveTheLease ==
  ~outlived => \A r \in Replicas : operation[r] # NoOperation => HasLease(r)

\* What a deployment read before it built its bundle is what it was asked for
\* and still is the latest candidate.
BuildsLatest(op) ==
  op.step \in {"build", "publish"} =>
    /\ op.commit \in Commits
    /\ op.expected \in {NoCommit, op.commit}
    /\ outlived \/ IsLatest(op.commit)

BuildsTheLatest == \A r \in Replicas : BuildsLatest(operation[r])

ReleasesInv == ReleaseTypes /\ HandlersHaveTheLease /\ BuildsTheLatest

(* Nothing is synchronized, leased or in progress at the start. *)
LEMMA ReleasesInvInit ==
  ASSUME ReleasesInit
  PROVE  ReleasesInv
<1>1. NoOperation \in OperationRecord /\ NoOperation.step = "none"
  BY DEF NoOperation, OperationRecord
<1>2. ReleaseTypes
  <2>1. /\ operation \in [Replicas -> OperationRecord] /\ DOMAIN rollback = Replicas
        /\ sourceLease \in [holder : Replicas \cup {NoReplica}, left : Nat]
    BY <1>1 DEF ReleasesInit
  <2>2. history = <<>> /\ outlived = FALSE
    BY DEF ReleasesInit
  <2>3. history \in Seq(Commits)
    BY <2>2
  <2>. QED
    BY <2>1, <2>2, <2>3 DEF ReleaseTypes
<1>3. \A r \in Replicas : operation[r] = NoOperation
  BY DEF ReleasesInit
<1>4. HandlersHaveTheLease /\ BuildsTheLatest
  BY <1>1, <1>3 DEF HandlersHaveTheLease, BuildsTheLatest, BuildsLatest
<1>. QED
  BY <1>2, <1>4 DEF ReleasesInv

\* A step of a handler to op leaves the lease alone, or ends and releases it.
LeaseKept(r, op) ==
  \/ sourceLease' = sourceLease
  \/ op = NoOperation /\ sourceLease' = ReleasedLease(r)

(* A step of one handler that leaves the catalog and the lease alone. *)
LEMMA HandlerSteps ==
  ASSUME ReleasesInv, NEW r \in Replicas, NEW op \in OperationRecord,
         operation[r] # NoOperation,
         operation' = [operation EXCEPT ![r] = op],
         UNCHANGED <<candidates, history, rollback, outlived>>,
         LeaseKept(r, op), BuildsLatest(op)
  PROVE  ReleasesInv'
<1>1. \A q \in Replicas : operation'[q] = IF q = r THEN op ELSE operation[q]
  BY DEF ReleasesInv, ReleaseTypes
<1>2. \A c : IsLatest(c)' <=> IsLatest(c)
  BY DEF IsLatest, Synchronized
<1>3. sourceLease' \in [holder : Replicas \cup {NoReplica}, left : Nat]
  BY DEF ReleasesInv, ReleaseTypes, ReleasedLease, LeaseKept
<1>4. ReleaseTypes'
  BY <1>1, <1>3 DEF ReleasesInv, ReleaseTypes
<1>5. HandlersHaveTheLease'
  <2>. SUFFICES ASSUME ~outlived, NEW q \in Replicas, operation'[q] # NoOperation
                PROVE  HasLease(q)'
    BY DEF HandlersHaveTheLease
  <2>1. HasLease(r)
    BY DEF ReleasesInv, HandlersHaveTheLease
  <2>2. q = r
    BY <1>1, <2>1 DEF ReleasesInv, HandlersHaveTheLease, HasLease
  <2>. QED
    BY <1>1, <2>1, <2>2 DEF HasLease, LeaseKept
<1>6. BuildsTheLatest'
  BY <1>1, <1>2 DEF ReleasesInv, BuildsTheLatest, BuildsLatest
<1>. QED
  BY <1>4, <1>5, <1>6 DEF ReleasesInv

(* A handler begins when the lease is free, which nobody else can then hold. *)
LEMMA Beginnings ==
  ASSUME ReleasesInv, NEW r \in Replicas, NEW expected \in Asked,
         NEW step \in {"resolve", "latest"}, Begin(r, step, expected)
  PROVE  ReleasesInv'
<1>. DEFINE op == [NoOperation EXCEPT !.step = step, !.expected = expected]
<1>1. op \in OperationRecord /\ op.step = step
  BY ReleasesAssumption DEF NoOperation, OperationRecord, NoCommit
<1>2. operation' = [operation EXCEPT ![r] = op]
  BY DEF Begin
<1>. HIDE DEF op
<1>3. \A q \in Replicas : operation'[q] = IF q = r THEN op ELSE operation[q]
  BY <1>2 DEF ReleasesInv, ReleaseTypes
<1>4. \A c : IsLatest(c)' <=> IsLatest(c)
  BY DEF IsLatest, Synchronized, Begin, catalogVars
<1>5. sourceLease' = [holder |-> r, left |-> SourceTicks] /\ SourceTicks \in Nat /\ SourceTicks > 0
      /\ UNCHANGED <<history, rollback, outlived>> /\ sourceLease.left = 0
  BY ReleasesAssumption DEF Begin, catalogVars, LeaseFree
<1>6. ReleaseTypes'
  BY <1>1, <1>2, <1>3, <1>5 DEF ReleasesInv, ReleaseTypes
<1>7. HandlersHaveTheLease'
  BY <1>3, <1>5 DEF ReleasesInv, HandlersHaveTheLease, HasLease
<1>8. BuildsTheLatest'
  BY <1>1, <1>3, <1>4, <1>5 DEF ReleasesInv, BuildsTheLatest, BuildsLatest
<1>. QED
  BY <1>6, <1>7, <1>8 DEF ReleasesInv

(* The lease is renewed, or the handler is canceled. *)
LEMMA Renewals ==
  ASSUME ReleasesInv, NEW r \in Replicas, RenewSourceOperationLease(r)
  PROVE  ReleasesInv'
<1>1. operation[r] # NoOperation
  BY DEF RenewSourceOperationLease, NoOperation
<1>2. CASE /\ HasLease(r) /\ UNCHANGED operation
           /\ sourceLease' = [sourceLease EXCEPT !.left = SourceTicks]
  <2>1. /\ sourceLease' \in [holder : Replicas \cup {NoReplica}, left : Nat]
        /\ sourceLease'.holder = sourceLease.holder /\ sourceLease'.left > 0
    BY <1>2, ReleasesAssumption DEF ReleasesInv, ReleaseTypes
  <2>2. \A c : IsLatest(c)' <=> IsLatest(c)
    BY DEF IsLatest, Synchronized, RenewSourceOperationLease, catalogVars
  <2>. QED
    BY <1>2, <2>1, <2>2 DEF RenewSourceOperationLease, catalogVars, ReleasesInv,
       ReleaseTypes, HandlersHaveTheLease, HasLease, BuildsTheLatest, BuildsLatest
<1>3. CASE /\ operation' = [operation EXCEPT ![r] = [NoOperation EXCEPT !.step = "canceled"]]
           /\ UNCHANGED sourceLease
  <2>1. /\ [NoOperation EXCEPT !.step = "canceled"] \in OperationRecord
        /\ [NoOperation EXCEPT !.step = "canceled"].step = "canceled"
    BY DEF NoOperation, OperationRecord
  <2>. DEFINE op == [NoOperation EXCEPT !.step = "canceled"]
  <2>2. LeaseKept(r, op) /\ BuildsLatest(op)
    BY <1>3, <2>1 DEF LeaseKept, BuildsLatest
  <2>3. operation' = [operation EXCEPT ![r] = op] /\ op \in OperationRecord
    BY <1>3, <2>1
  <2>4. UNCHANGED <<candidates, history, rollback, outlived>>
    BY DEF RenewSourceOperationLease, catalogVars
  <2>. HIDE DEF op
  <2>. QED
    BY <1>1, <2>2, <2>3, <2>4, HandlerSteps
<1>. QED
  BY <1>2, <1>3 DEF RenewSourceOperationLease

(* The clock takes the lease from its holder; if that one still works, the
   behaviour is marked. *)
LEMMA SourceTicking ==
  ASSUME ReleasesInv, SourceTick
  PROVE  ReleasesInv'
<1>1. /\ sourceLease' \in [holder : Replicas \cup {NoReplica}, left : Nat]
      /\ sourceLease'.holder = sourceLease.holder
      /\ sourceLease'.left = sourceLease.left - 1 /\ sourceLease.left \in Nat \ {0}
  BY DEF ReleasesInv, ReleaseTypes, SourceTick
<1>2. \A c : IsLatest(c)' <=> IsLatest(c)
  BY DEF IsLatest, Synchronized, SourceTick, catalogVars
<1>3. /\ UNCHANGED <<history, operation, rollback>>
      /\ outlived' \in BOOLEAN /\ (outlived => outlived')
      /\ ~outlived' /\ sourceLease.left = 1 => operation[sourceLease.holder] = NoOperation
  BY DEF SourceTick, catalogVars
<1>4. HandlersHaveTheLease'
  <2>. SUFFICES ASSUME ~outlived', NEW q \in Replicas, operation[q] # NoOperation
                PROVE  HasLease(q)'
    BY <1>3 DEF HandlersHaveTheLease
  <2>. QED
    BY <1>1, <1>3 DEF ReleasesInv, HandlersHaveTheLease, HasLease
<1>. QED
  BY <1>1, <1>2, <1>3, <1>4 DEF ReleasesInv, ReleaseTypes, BuildsTheLatest, BuildsLatest

(* A synchronization saves its candidate: no deployment is under way then, or
   the behaviour is marked. *)
LEMMA Saves ==
  ASSUME ReleasesInv, NEW r \in Replicas, SaveReleaseCandidate(r)
  PROVE  ReleasesInv'
<1>. DEFINE op == [operation[r] EXCEPT !.step = "mark"]
<1>1. operation[r] \in OperationRecord /\ operation[r] # NoOperation
  BY DEF SaveReleaseCandidate, AtStep, NoOperation, ReleasesInv, ReleaseTypes
<1>2. op \in OperationRecord /\ op.step = "mark"
  BY <1>1 DEF OperationRecord
<1>3. op # NoOperation
  BY <1>2 DEF NoOperation
<1>4. operation' = [operation EXCEPT ![r] = op]
  BY DEF SaveReleaseCandidate
<1>. HIDE DEF op
<1>5. \A q \in Replicas : operation'[q] = IF q = r THEN op ELSE operation[q]
  BY <1>4 DEF ReleasesInv, ReleaseTypes
<1>6. UNCHANGED <<history, sourceLease, rollback, outlived>>
  BY DEF SaveReleaseCandidate
<1>7. BuildsTheLatest'
  <2>. SUFFICES ASSUME NEW q \in Replicas, operation'[q].step \in {"build", "publish"}
                PROVE  /\ operation'[q].commit \in Commits
                       /\ operation'[q].expected \in {NoCommit, operation'[q].commit}
                       /\ outlived
    BY <1>6 DEF BuildsTheLatest, BuildsLatest
  <2>1. q # r /\ operation'[q] = operation[q]
    BY <1>2, <1>5
  <2>2. operation[q] # NoOperation
    BY <2>1 DEF NoOperation
  <2>3. outlived
    BY <1>1, <2>1, <2>2 DEF ReleasesInv, HandlersHaveTheLease, HasLease
  <2>. QED
    BY <2>1, <2>3 DEF ReleasesInv, BuildsTheLatest, BuildsLatest
<1>. QED
  BY <1>1, <1>2, <1>4, <1>5, <1>6, <1>7
  DEF ReleasesInv, ReleaseTypes, HandlersHaveTheLease, HasLease

(* A publication adds its commit to the history and ends. *)
LEMMA Publications ==
  ASSUME ReleasesInv, NEW r \in Replicas, PublishRelease(r)
  PROVE  ReleasesInv'
<1>1. operation[r].step = "publish" /\ operation[r].commit \in Commits
  BY DEF PublishRelease, AtStep, ReleasesInv, BuildsTheLatest, BuildsLatest
<1>2. operation[r] # NoOperation
  BY <1>1 DEF NoOperation
<1>3. NoOperation \in OperationRecord /\ NoOperation.step = "none"
  BY DEF NoOperation, OperationRecord
<1>4. \A q \in Replicas : operation'[q] = IF q = r THEN NoOperation ELSE operation[q]
  BY DEF PublishRelease, Finish, ReleasesInv, ReleaseTypes
<1>5. sourceLease' \in [holder : Replicas \cup {NoReplica}, left : Nat]
  BY DEF PublishRelease, Finish, ReleasesInv, ReleaseTypes, ReleasedLease
<1>6. history' \in Seq(Commits)
  BY <1>1 DEF PublishRelease, ReleasesInv, ReleaseTypes
<1>7. \A c : IsLatest(c)' <=> IsLatest(c)
  BY DEF PublishRelease, IsLatest, Synchronized
<1>8. ReleaseTypes'
  BY <1>3, <1>4, <1>5, <1>6 DEF PublishRelease, Finish, ReleasesInv, ReleaseTypes
<1>9. HandlersHaveTheLease'
  BY <1>2, <1>4 DEF PublishRelease, ReleasesInv, HandlersHaveTheLease, HasLease
<1>10. BuildsTheLatest'
  BY <1>3, <1>4, <1>7 DEF PublishRelease, ReleasesInv, BuildsTheLatest, BuildsLatest
<1>. QED
  BY <1>8, <1>9, <1>10 DEF ReleasesInv

(* A rollback takes no lease and changes no candidate. *)
LEMMA Rollbacks ==
  ASSUME ReleasesInv, NEW r \in Replicas,
         (\E i \in 1..Len(history) : ValidateRollback(r, i)) \/ ApplyReleaseRollback(r)
  PROVE  ReleasesInv'
<1>1. /\ UNCHANGED <<candidates, history, sourceLease, operation, outlived>>
      /\ DOMAIN rollback' = DOMAIN rollback
  BY DEF ValidateRollback, ApplyReleaseRollback, catalogVars
<1>2. \A c : IsLatest(c)' <=> IsLatest(c)
  BY <1>1 DEF IsLatest, Synchronized
<1>. QED
  BY <1>1, <1>2 DEF ReleasesInv, ReleaseTypes, HandlersHaveTheLease, HasLease, BuildsTheLatest, BuildsLatest

(* The steps of a handler between its first and its last. *)
LEMMA HandlersMove ==
  ASSUME ReleasesInv, NEW r \in Replicas,
         \/ Abort(r) \/ CrashReplica(r) \/ MarkSynced(r)
         \/ \E c \in Commits : ResolveBranchCommit(r, c)
         \/ GetLatestReleaseCandidate(r) \/ BuildExecutionBundle(r)
  PROVE  ReleasesInv'
<1>1. operation[r] \in OperationRecord /\ NoOperation.step = "none"
  BY DEF ReleasesInv, ReleaseTypes, NoOperation
<1>2. NoOperation \in OperationRecord /\ BuildsLatest(NoOperation)
  BY DEF NoOperation, OperationRecord, BuildsLatest
<1>3. CASE Abort(r) \/ MarkSynced(r)
  <2>1. operation[r] # NoOperation
    BY <1>1, <1>3 DEF Abort, MarkSynced, AtStep
  <2>2. /\ LeaseKept(r, NoOperation) /\ operation' = [operation EXCEPT ![r] = NoOperation]
        /\ UNCHANGED <<candidates, history, rollback, outlived>>
    BY <1>3 DEF LeaseKept, Abort, MarkSynced, Finish, catalogVars
  <2>. QED
    BY <1>2, <2>1, <2>2, HandlerSteps
<1>4. CASE CrashReplica(r)
  <2>1. /\ LeaseKept(r, NoOperation) /\ operation' = [operation EXCEPT ![r] = NoOperation]
        /\ operation[r] # NoOperation
        /\ UNCHANGED <<candidates, history, rollback, outlived>>
    BY <1>4 DEF LeaseKept, CrashReplica, catalogVars
  <2>. QED
    BY <1>2, <2>1, HandlerSteps
<1>5. CASE \E c \in Commits : ResolveBranchCommit(r, c)
  <2>1. PICK c \in Commits : ResolveBranchCommit(r, c)
    BY <1>5
  <2>. DEFINE op == [operation[r] EXCEPT !.step = "save", !.commit = c]
  <2>2. op \in OperationRecord /\ op.step = "save"
    BY <1>1 DEF OperationRecord
  <2>3. operation' = [operation EXCEPT ![r] = op] /\ operation[r] # NoOperation
    BY <1>1, <2>1 DEF ResolveBranchCommit, AtStep
  <2>. HIDE DEF op
  <2>4. /\ LeaseKept(r, op) /\ BuildsLatest(op)
        /\ UNCHANGED <<candidates, history, rollback, outlived>>
    BY <2>1, <2>2 DEF ResolveBranchCommit, LeaseKept, BuildsLatest, catalogVars
  <2>. QED
    BY <2>2, <2>3, <2>4, HandlerSteps
<1>6. CASE GetLatestReleaseCandidate(r)
  <2>1. PICK c \in Commits :
          /\ IsLatest(c)
          /\ ExpectedCandidate(r, c)
          /\ operation' = [operation EXCEPT ![r] =
               [operation[r] EXCEPT !.step = "build", !.commit = c]]
    BY <1>6 DEF GetLatestReleaseCandidate
  <2>. DEFINE op == [operation[r] EXCEPT !.step = "build", !.commit = c]
  <2>2. op \in OperationRecord /\ op.commit = c /\ op.expected = operation[r].expected
    BY <1>1 DEF OperationRecord
  <2>3. operation' = [operation EXCEPT ![r] = op] /\ operation[r] # NoOperation
    BY <1>1, <1>6, <2>1 DEF GetLatestReleaseCandidate, AtStep
  <2>. HIDE DEF op
  <2>4. /\ LeaseKept(r, op) /\ BuildsLatest(op)
        /\ UNCHANGED <<candidates, history, rollback, outlived>>
    BY <1>6, <2>1, <2>2
    DEF GetLatestReleaseCandidate, ExpectedCandidate, LeaseKept, BuildsLatest, catalogVars
  <2>. QED
    BY <2>2, <2>3, <2>4, HandlerSteps
<1>7. CASE BuildExecutionBundle(r)
  <2>. DEFINE op == [operation[r] EXCEPT !.step = "publish"]
  <2>1. operation[r].step = "build" /\ operation[r] # NoOperation
    BY <1>1, <1>7 DEF BuildExecutionBundle, AtStep
  <2>2. /\ op \in OperationRecord /\ op.commit = operation[r].commit
        /\ op.expected = operation[r].expected
    BY <1>1 DEF OperationRecord
  <2>3. operation' = [operation EXCEPT ![r] = op]
    BY <1>7 DEF BuildExecutionBundle
  <2>. HIDE DEF op
  <2>4. /\ LeaseKept(r, op) /\ BuildsLatest(op)
        /\ UNCHANGED <<candidates, history, rollback, outlived>>
    BY <1>7, <2>1, <2>2
    DEF BuildExecutionBundle, LeaseKept, ReleasesInv, BuildsTheLatest, BuildsLatest, catalogVars
  <2>. QED
    BY <2>1, <2>2, <2>3, <2>4, HandlerSteps
<1>. QED
  BY <1>3, <1>4, <1>5, <1>6, <1>7

(* The inductive invariant of a source: whoever works has the lease, and what is
   built is the latest, for every number of replicas, commits and releases. *)
THEOREM ReleasesInvHolds == ReleasesSpec => []ReleasesInv
<1>1. ReleasesInit => ReleasesInv
  BY ReleasesInvInit
<1>2. ReleasesInv /\ ReleasesNext => ReleasesInv'
  BY Beginnings, Renewals, SourceTicking, Saves, Publications, Rollbacks, HandlersMove
  DEF ReleasesNext
<1>3. ReleasesInv /\ UNCHANGED releaseVars => ReleasesInv'
  BY DEF releaseVars, catalogVars, ReleasesInv, ReleaseTypes, HandlersHaveTheLease, HasLease,
     BuildsTheLatest, BuildsLatest, IsLatest, Synchronized
<1>. QED
  BY <1>1, <1>2, <1>3, PTL DEF ReleasesSpec

\* A release that enters the history is the commit its deployment was asked for
\* and, while no handler outlived its lease, the newest candidate of the catalog
\* when it is published: the one whose first synchronization is the latest.
THEOREM PublishesWhatWasAskedHolds == ReleasesSpec => PublishesWhatWasAsked
<1>. DEFINE A ==
       \A r \in Replicas : history' = Append(history, operation[r].commit) /\
                           operation[r].step = "publish" /\ operation'[r] = NoOperation =>
         /\ operation[r].expected \in {NoCommit, operation[r].commit}
         /\ outlived \/ IsLatest(operation[r].commit)
<1>1. ReleasesInv => A
  BY DEF ReleasesInv, BuildsTheLatest, BuildsLatest
<1>2. ReleasesInv /\ [ReleasesNext]_releaseVars => [A]_releaseVars
  BY <1>1
<1>. QED
  BY <1>2, ReleasesInvHolds, PTL DEF ReleasesSpec, PublishesWhatWasAsked
-----------------------------------------------------------------------------
(* Types of the claims on PostgreSQL *)

PgRow == [state : {"queued", "running", "done"}, starts : 0..MaxPgStarts,
          expires : 0..(MaxPgClock + PgLease)]

\* What the types of the rows need of a transaction: when it began, and which rows it has.
TxTyped(t) ==
  /\ t.began \in 0..MaxPgClock /\ t.rows \subseteq PgJobs
  /\ t.next \in {"idle", "requeue", "select", "candidate", "lock", "commit"}

PgTypes ==
  /\ PgClaimsTypeOK
  /\ DOMAIN pgBuckets = PgRateKeys
  /\ \A s \in PgSessions : TxTyped(pgTx[s])

(* A window of a time is a window. *)
LEMMA PgWindowTypes ==
  ASSUME NEW t \in 0..MaxPgClock
  PROVE  PgRateWindow(t) \in PgWindows
<1>1. PgWindow \in Nat /\ PgWindow > 0 /\ MaxPgClock \in Nat /\ t \in Nat /\ t <= MaxPgClock
  BY PgClaimsAssumption
<1>2. (t \div PgWindow) \in Nat /\ (MaxPgClock \div PgWindow) \in Nat
  BY <1>1, Z3
<1>3. t \div PgWindow <= MaxPgClock \div PgWindow
  BY <1>1, Z3
<1>. QED
  BY <1>2, <1>3 DEF PgRateWindow, PgWindows

(* A step that changes one transaction. *)
LEMMA TxTypes ==
  ASSUME PgTypes, PgInv, NEW s \in PgSessions, NEW t, TxTyped(t), pgTx' = [pgTx EXCEPT ![s] = t],
         UNCHANGED <<pgJobs, pgBuckets, pgClock>>
  PROVE  PgTypes'
<1>1. \A r \in PgSessions : pgTx'[r] = IF r = s THEN t ELSE pgTx[r]
  BY DEF PgInv, PgShape
<1>2. \A r \in PgSessions : TxTyped(pgTx'[r])
  BY <1>1 DEF PgTypes
<1>. QED
  BY <1>2 DEF PgTypes, PgClaimsTypeOK, TxTyped, PgWindows

(* The statements of a claim before its end. *)
LEMMA ClaimTypesStay ==
  ASSUME PgTypes, PgInv, NEW s \in PgSessions,
         \/ BeginClaim(s) \/ RequeueExpired(s)
         \/ postgresClaimCandidates(s) \/ LookAtCandidate(s)
         \/ TakeLimitLock(s) \/ CheckLimits(s) \/ RollbackClaim(s)
  PROVE  PgTypes'
<1>1. IsPgTx(pgTx[s]) /\ TxTyped(pgTx[s]) /\ s \in DOMAIN pgTx
  BY DEF PgInv, PgShape, PgTypes
<1>2. UNCHANGED <<pgJobs, pgBuckets, pgClock>>
  BY DEF BeginClaim, RequeueExpired, postgresClaimCandidates, LookAtCandidate, TakeLimitLock,
         CheckLimits, RollbackClaim
<1>3. MaxPgClock \in Nat /\ pgClock \in 0..MaxPgClock /\ 0 \in 0..MaxPgClock
  BY PgClaimsAssumption DEF PgTypes, PgClaimsTypeOK
<1>. SUFFICES \E t : TxTyped(t) /\ pgTx' = [pgTx EXCEPT ![s] = t]
  BY <1>2, TxTypes
<1>4. CASE BeginClaim(s)
  <2>. DEFINE t == [NoTx EXCEPT !.next = "requeue", !.began = pgClock]
  <2>1. pgTx' = [pgTx EXCEPT ![s] = t]
    BY <1>4 DEF BeginClaim
  <2>2. TxTyped(t)
    BY <1>3 DEF NoTx, TxTyped
  <2>. QED
    BY <2>1, <2>2
<1>9. CASE RequeueExpired(s)
  <2>1. PICK expired \in SUBSET PgJobs :
          pgTx' = [pgTx EXCEPT ![s] = [pgTx[s] EXCEPT !.next = "select",
                                                      !.requeued = expired, !.rows = expired]]
    BY <1>9 DEF RequeueExpired
  <2>. DEFINE t == [pgTx[s] EXCEPT !.next = "select", !.requeued = expired, !.rows = expired]
  <2>2. TxTyped(t)
    BY <1>1 DEF IsPgTx, TxTyped
  <2>. QED
    BY <2>1, <2>2
<1>5. CASE RollbackClaim(s)
  <2>1. TxTyped(NoTx)
    BY <1>3 DEF NoTx, TxTyped
  <2>. QED
    BY <1>5, <2>1 DEF RollbackClaim
<1>6. CASE postgresClaimCandidates(s)
  <2>1. PICK batch, seq :
          /\ batch \subseteq PgJobs
          /\ pgTx' = [pgTx EXCEPT ![s].next = "candidate", ![s].candidates = seq,
                                  ![s].rows = @ \cup batch]
    BY <1>6 DEF postgresClaimCandidates
  <2>. DEFINE t == [pgTx[s] EXCEPT !.next = "candidate", !.candidates = seq, !.rows = @ \cup batch]
  <2>2. TxTyped(t)
    BY <1>1, <2>1 DEF IsPgTx, TxTyped
  <2>3. pgTx' = [pgTx EXCEPT ![s] = t]
    BY <1>1, <2>1
  <2>. QED
    BY <2>2, <2>3
<1>7. CASE LookAtCandidate(s) \/ CheckLimits(s)
  <2>1. ASSUME NEW next \in {"candidate", "lock", "commit"}, NEW c, NEW w, NEW j
        PROVE  /\ TxTyped([pgTx[s] EXCEPT !.candidates = c])
               /\ TxTyped([pgTx[s] EXCEPT !.next = next, !.wants = w])
               /\ TxTyped([pgTx[s] EXCEPT !.next = next, !.candidates = c])
               /\ TxTyped([pgTx[s] EXCEPT !.next = next, !.selected = j])
    BY <1>1 DEF IsPgTx, TxTyped
  <2>2. CASE LookAtCandidate(s)
    BY <2>1, <2>2 DEF LookAtCandidate
  <2>3. CASE CheckLimits(s)
    BY <2>1, <2>3 DEF CheckLimits
  <2>. QED
    BY <1>7, <2>2, <2>3
<1>8. CASE TakeLimitLock(s)
  <2>. DEFINE t == [pgTx[s] EXCEPT !.locks = @ \cup {Head(pgTx[s].wants)}, !.wants = Tail(@)]
  <2>1. TxTyped(t)
    BY <1>1 DEF IsPgTx, TxTyped
  <2>2. pgTx' = [pgTx EXCEPT ![s] = t]
    BY <1>1, <1>8 DEF TakeLimitLock
  <2>. QED
    BY <2>1, <2>2
<1>. QED
  BY <1>4, <1>5, <1>6, <1>7, <1>8, <1>9

(* A commit writes a lease within the bounds and buckets of the window it began in. *)
LEMMA CommitTypes ==
  ASSUME PgTypes, PgInv, NEW s \in PgSessions, CommitClaim(s)
  PROVE  PgTypes'
<1>. DEFINE j == pgTx[s].selected
            w == PgRateWindow(pgTx[s].began)
<1>1. /\ TxTyped(pgTx[s]) /\ pgClock \in 0..MaxPgClock
      /\ pgJobs \in [PgJobs -> PgRow]
      /\ \A k \in PgRateKeys : pgBuckets[k].window \in {-1} \cup PgWindows
  BY DEF PgTypes, PgClaimsTypeOK, PgRow
<1>2. {MaxPgClock, PgLease, MaxPgStarts} \subseteq Nat
  BY PgClaimsAssumption
<1>3. pgTx[s].began + PgLease \in 0..(MaxPgClock + PgLease)
  BY <1>1, <1>2 DEF TxTyped
<1>4. ASSUME NEW i \in PgJobs
      PROVE  pgJobs'[i] \in PgRow
  <2>1. pgJobs'[i] = IF i = j THEN [state |-> "running", starts |-> pgJobs[i].starts + 1,
                                    expires |-> pgTx[s].began + PgLease]
                     ELSE IF i \in pgTx[s].requeued
                          THEN [pgJobs[i] EXCEPT !.state = "queued", !.expires = 0]
                     ELSE pgJobs[i]
    BY DEF CommitClaim
  <2>2. i = j => pgJobs[i].starts + 1 \in 0..MaxPgStarts
    <3>1. i = j => pgJobs[i].starts < MaxPgStarts
      BY DEF CommitClaim
    <3>2. pgJobs[i].starts \in 0..MaxPgStarts
      BY <1>1 DEF PgRow
    <3>. QED
      BY <1>2, <3>1, <3>2
  <2>3. pgJobs[i] \in PgRow /\ 0 \in 0..(MaxPgClock + PgLease)
    BY <1>1, <1>2
  <2>4. CASE i = j
    BY <1>3, <2>1, <2>2, <2>4 DEF PgRow
  <2>5. [pgJobs[i] EXCEPT !.state = "queued", !.expires = 0] \in PgRow
    BY <2>3 DEF PgRow
  <2>6. CASE i # j
    BY <2>1, <2>3, <2>5, <2>6
  <2>. QED
    BY <2>4, <2>6
<1>5. pgJobs' \in [PgJobs -> PgRow]
  BY <1>4 DEF CommitClaim
<1>6. w \in PgWindows
  BY <1>1, PgWindowTypes DEF TxTyped
<1>7. pgBuckets' = [k \in PgRateKeys |->
                      IF k \notin PgLimits[j].rateKey THEN pgBuckets[k]
                      ELSE [window   |-> w,
                            consumed |-> IF pgBuckets[k].window = w
                                         THEN pgBuckets[k].consumed + 1 ELSE 1]]
  BY DEF CommitClaim, postgresConsumeRateLimits
<1>. HIDE DEF w
<1>8. ASSUME NEW k \in PgRateKeys
      PROVE  pgBuckets'[k].window \in {-1} \cup PgWindows
  <2>1. pgBuckets'[k].window \in {pgBuckets[k].window, w}
    BY <1>7
  <2>. QED
    BY <1>1, <1>6, <2>1
<1>9. \A r \in PgSessions : TxTyped(pgTx'[r])
  <2>1. TxTyped(NoTx)
    BY <1>2 DEF NoTx, TxTyped
  <2>2. \A r \in PgSessions : pgTx'[r] = IF r = s THEN NoTx ELSE pgTx[r]
    BY DEF CommitClaim, PgInv, PgShape
  <2>. QED
    BY <2>1, <2>2 DEF PgTypes
<1>10. pgClock' = pgClock /\ DOMAIN pgBuckets' = PgRateKeys
  BY <1>7 DEF CommitClaim
<1>11. PgWindows' = PgWindows
  BY DEF PgWindows
<1>. QED
  BY <1>1, <1>5, <1>8, <1>9, <1>10, <1>11 DEF PgTypes, PgClaimsTypeOK, PgRow, TxTyped

(* Every step keeps the types of the rows and of the transactions. *)
LEMMA PgTypeSteps ==
  ASSUME PgTypes, PgInv, [PgClaimsNext]_pgVars
  PROVE  PgTypes'
<1>1. /\ pgClock \in 0..MaxPgClock /\ pgJobs \in [PgJobs -> PgRow]
      /\ {MaxPgClock, PgLease, MaxPgStarts} \subseteq Nat
  BY PgClaimsAssumption DEF PgTypes, PgClaimsTypeOK, PgRow
<1>2. ASSUME NEW j \in PgJobs, PgHeartbeat(j) \/ PgComplete(j)
      PROVE  PgTypes'
  <2>1. /\ pgClock + PgLease \in 0..(MaxPgClock + PgLease)
        /\ 0 \in 0..(MaxPgClock + PgLease)
    BY <1>1
  <2>2. /\ [pgJobs[j] EXCEPT !.expires = pgClock + PgLease] \in PgRow
        /\ [pgJobs[j] EXCEPT !.state = "done", !.expires = 0] \in PgRow
    BY <1>1, <2>1 DEF PgRow
  <2>3. PICK r \in PgRow : pgJobs' = [pgJobs EXCEPT ![j] = r]
    BY <1>1, <1>2, <2>2 DEF PgHeartbeat, PgComplete
  <2>4. pgJobs' \in [PgJobs -> PgRow]
    BY <1>1, <2>3
  <2>5. UNCHANGED <<pgBuckets, pgTx, pgClock>>
    BY <1>2 DEF PgHeartbeat, PgComplete
  <2>. QED
    BY <2>4, <2>5 DEF PgTypes, PgClaimsTypeOK, PgRow, TxTyped, PgWindows
<1>3. CASE PgTick
  <2>1. pgClock' \in 0..MaxPgClock /\ UNCHANGED <<pgJobs, pgBuckets, pgTx>>
    BY <1>1, <1>3 DEF PgTick
  <2>. QED
    BY <2>1 DEF PgTypes, PgClaimsTypeOK, TxTyped, PgWindows
<1>4. CASE UNCHANGED <<pgJobs, pgBuckets, pgTx, pgClock>>
  BY <1>4 DEF PgTypes, PgClaimsTypeOK, TxTyped, PgWindows
<1>. QED
  BY <1>2, <1>3, <1>4, ClaimTypesStay, CommitTypes
     DEF PgClaimsNext, pgVars, PgSetLifecycle, PgMutatePolicy

\* Type correctness of the rows, the buckets and the transactions of claims on PostgreSQL,
\* for any number of sessions and jobs and any limits.
THEOREM PgClaimsTypesHold == PgClaimsSpec => []PgClaimsTypeOK
<1>1. ASSUME PgClaimsInit PROVE PgTypes
  <2>1. {MaxPgClock, PgLease, MaxPgStarts} \subseteq Nat
    BY PgClaimsAssumption
  <2>2. \A s \in PgSessions : pgTx[s] = NoTx
    BY <1>1 DEF PgClaimsInit
  <2>3. \A s \in PgSessions : TxTyped(pgTx[s])
    BY <2>1, <2>2 DEF TxTyped, NoTx
  <2>4. pgJobs \in [PgJobs -> PgRow] /\ pgClock \in 0..MaxPgClock
    BY <1>1, <2>1 DEF PgClaimsInit, PgRow
  <2>5. DOMAIN pgBuckets = PgRateKeys /\ \A k \in PgRateKeys : pgBuckets[k].window = -1
    BY <1>1 DEF PgClaimsInit
  <2>. QED
    BY <2>3, <2>4, <2>5 DEF PgTypes, PgClaimsTypeOK, PgRow, TxTyped
<1>2. PgTypes => PgClaimsTypeOK
  BY DEF PgTypes
<1>. QED
  BY <1>1, <1>2, PgTypeSteps, PgInvHolds, PTL DEF PgClaimsSpec

-----------------------------------------------------------------------------
(* Types of the release catalog *)

CatalogTypes ==
  /\ candidates \in [Commits -> 0..Cardinality(Commits)]
  /\ sourceMarker \in Commits \cup {NoCommit}
  /\ Len(history) <= MaxReleases
  /\ activeId \in 0..Len(history) /\ rollback \in [Replicas -> 0..Len(history)]
  /\ sourceLease.left <= SourceTicks
  /\ lastSynced \in Commits \cup {NoCommit}

(* The commits that were synchronized are no more than the commits, and fewer while one    *)
(* was not.                                                                                *)
LEMMA NumberedCommits ==
  ASSUME CatalogTypes, NEW c \in Commits \ Synchronized
  PROVE  1 + Cardinality(Synchronized) \in 0..Cardinality(Commits)
<1>1. IsFiniteSet(Commits) /\ Synchronized \subseteq Commits /\ Synchronized # Commits
  BY ReleasesAssumption DEF Synchronized
<1>2. IsFiniteSet(Synchronized)
  BY <1>1, FS_Subset
<1>3. Cardinality(Synchronized) \in Nat /\ Cardinality(Commits) \in Nat
  BY <1>1, <1>2, FS_CardinalityType
<1>4. Cardinality(Synchronized) < Cardinality(Commits)
  BY <1>1, <1>2, <1>3, FS_Subset
<1>. QED
  BY <1>3, <1>4

(* A candidate that is saved is numbered after those saved before. *)
LEMMA SavedTypes ==
  ASSUME CatalogTypes, NEW c
  PROVE  Saved(c) \in [Commits -> 0..Cardinality(Commits)]
<1>1. candidates \in [Commits -> 0..Cardinality(Commits)]
  BY DEF CatalogTypes
<1>2. CASE c \in Synchronized \/ c \notin Commits
  <2>1. Saved(c) = candidates
    BY <1>1, <1>2 DEF Saved, Synchronized
  <2>. QED
    BY <1>1, <2>1
<1>3. CASE c \in Commits \ Synchronized
  <2>1. 1 + Cardinality(Synchronized) \in 0..Cardinality(Commits)
    BY <1>3, NumberedCommits
  <2>. QED
    BY <1>1, <1>3, <2>1 DEF Saved
<1>. QED
  BY <1>2, <1>3

(* The lease never has more than its term left. *)
LEMMA LeaseTerm ==
  ASSUME CatalogTypes, ReleasesInv, [ReleasesNext]_releaseVars
  PROVE  sourceLease'.left <= SourceTicks
<1>1. /\ sourceLease.left <= SourceTicks /\ SourceTicks \in Nat
      /\ sourceLease \in [holder : Replicas \cup {NoReplica}, left : Nat]
  BY ReleasesAssumption DEF CatalogTypes, ReleasesInv, ReleaseTypes
<1>2. \/ sourceLease' \in {sourceLease, [holder |-> NoReplica, left |-> 0],
                           [sourceLease EXCEPT !.left = SourceTicks]}
      \/ \E r \in Replicas : sourceLease' = [holder |-> r, left |-> SourceTicks]
      \/ sourceLease' = [sourceLease EXCEPT !.left = @ - 1]
  BY DEF ReleasesNext, releaseVars, SourceTick, Begin, ValidateRollback, ApplyReleaseRollback,
     RenewSourceOperationLease, Abort, CrashReplica, ResolveBranchCommit, SaveReleaseCandidate,
     MarkSynced, GetLatestReleaseCandidate, BuildExecutionBundle, PublishRelease, Finish,
     ReleasedLease
<1>. QED
  BY <1>1, <1>2

(* A synchronization is recorded with the commit its handler resolved. *)
LEMMA SyncedTyped ==
  ASSUME CatalogTypes, ReleasesInv, [ReleasesNext]_releaseVars
  PROVE  lastSynced' \in Commits \cup {NoCommit}
<1>1. \A r \in Replicas : operation[r].commit \in Commits \cup {NoCommit}
  BY DEF ReleasesInv, ReleaseTypes, OperationRecord
<1>2. lastSynced' \in {lastSynced, NoCommit} \/ \E r \in Replicas : lastSynced' = operation[r].commit
  BY DEF ReleasesNext, releaseVars, SourceTick, Begin, ValidateRollback, ApplyReleaseRollback,
     RenewSourceOperationLease, Abort, CrashReplica, ResolveBranchCommit, SaveReleaseCandidate,
     MarkSynced, GetLatestReleaseCandidate, BuildExecutionBundle, PublishRelease
<1>. QED
  BY <1>1, <1>2 DEF CatalogTypes

(* Every step keeps the catalog. *)
LEMMA CatalogSteps ==
  ASSUME CatalogTypes, ReleasesInv, [ReleasesNext]_releaseVars
  PROVE  CatalogTypes'
<1>1. /\ candidates \in [Commits -> 0..Cardinality(Commits)]
      /\ sourceMarker \in Commits \cup {NoCommit}
      /\ Len(history) <= MaxReleases /\ activeId \in 0..Len(history)
      /\ rollback \in [Replicas -> 0..Len(history)]
  BY DEF CatalogTypes
<1>2. /\ history \in Seq(Commits) /\ Len(history) \in Nat /\ MaxReleases \in Nat
      /\ \A r \in Replicas : operation[r] \in OperationRecord
  BY ReleasesAssumption DEF ReleasesInv, ReleaseTypes
<1>3. sourceLease'.left <= SourceTicks /\ lastSynced' \in Commits \cup {NoCommit}
  BY LeaseTerm, SyncedTyped
<1>4. CASE UNCHANGED <<catalogVars, rollback>>
  BY <1>1, <1>3, <1>4 DEF CatalogTypes, catalogVars
<1>5. ASSUME NEW r \in Replicas, SaveReleaseCandidate(r)
      PROVE  CatalogTypes'
  <2>1. candidates' \in [Commits -> 0..Cardinality(Commits)]
    BY <1>5, SavedTypes DEF SaveReleaseCandidate
  <2>2. UNCHANGED <<history, activeId, sourceMarker, rollback>>
    BY <1>5 DEF SaveReleaseCandidate
  <2>. QED
    BY <1>1, <1>3, <2>1, <2>2 DEF CatalogTypes
<1>6. ASSUME NEW r \in Replicas, PublishRelease(r)
      PROVE  CatalogTypes'
  <2>1. operation[r].commit \in Commits
    BY <1>6 DEF PublishRelease, AtStep, ReleasesInv, BuildsTheLatest, BuildsLatest
  <2>2. /\ history' = Append(history, operation[r].commit) /\ Len(history) < MaxReleases
        /\ activeId' = Len(history) + 1 /\ sourceMarker' = operation[r].commit
        /\ UNCHANGED <<candidates, rollback>>
    BY <1>6 DEF PublishRelease
  <2>3. Len(history') = Len(history) + 1
    BY <1>2, <2>1, <2>2
  <2>4. activeId' \in 0..Len(history') /\ Len(history') <= MaxReleases
    BY <1>2, <2>2, <2>3
  <2>5. \A q \in Replicas : rollback[q] \in 0..Len(history')
    BY <1>1, <1>2, <2>3
  <2>6. rollback' \in [Replicas -> 0..Len(history')]
    BY <1>1, <2>2, <2>5
  <2>. QED
    BY <1>1, <1>3, <2>1, <2>2, <2>4, <2>6 DEF CatalogTypes
<1>7. ASSUME NEW r \in Replicas, NEW i \in 1..Len(history), ValidateRollback(r, i)
      PROVE  CatalogTypes'
  <2>1. rollback' = [rollback EXCEPT ![r] = i] /\ UNCHANGED catalogVars
    BY <1>7 DEF ValidateRollback
  <2>2. i \in 0..Len(history)
    BY <1>2
  <2>3. rollback' \in [Replicas -> 0..Len(history)]
    BY <1>1, <2>1, <2>2
  <2>. QED
    BY <1>1, <1>3, <2>1, <2>3 DEF CatalogTypes, catalogVars
<1>8. ASSUME NEW r \in Replicas, ApplyReleaseRollback(r)
      PROVE  CatalogTypes'
  <2>1. /\ rollback[r] # 0 /\ rollback' = [rollback EXCEPT ![r] = 0]
        /\ UNCHANGED <<candidates, history>>
        /\ activeId' \in {activeId, rollback[r]}
        /\ sourceMarker' \in {sourceMarker, history[rollback[r]]}
    BY <1>8 DEF ApplyReleaseRollback
  <2>2. rollback[r] \in 1..Len(history)
    BY <1>1, <1>2, <2>1
  <2>3. history[rollback[r]] \in Commits
    BY <1>2, <2>2
  <2>4. 0 \in 0..Len(history)
    BY <1>2
  <2>5. rollback' \in [Replicas -> 0..Len(history)]
    BY <1>1, <2>1, <2>4
  <2>6. activeId' \in 0..Len(history)
    BY <1>1, <1>2, <2>1, <2>2
  <2>. QED
    BY <1>1, <1>3, <2>1, <2>3, <2>5, <2>6 DEF CatalogTypes
<1>. QED
  BY <1>4, <1>5, <1>6, <1>7, <1>8 DEF ReleasesNext, releaseVars, SourceTick, Begin,
     RenewSourceOperationLease, Abort, CrashReplica, ResolveBranchCommit, MarkSynced,
     GetLatestReleaseCandidate, BuildExecutionBundle

\* Type correctness of the release catalog, for any number of replicas and commits: what is
\* active and what a rollback has validated are releases of the history, and a candidate
\* has a place in the order of synchronization.
THEOREM ReleasesTypesHold == ReleasesSpec => []ReleasesTypeOK
<1>1. ASSUME ReleasesInit PROVE CatalogTypes
  <2>1. /\ history = <<>> /\ candidates = [c \in Commits |-> 0] /\ activeId = 0
        /\ rollback = [r \in Replicas |-> 0] /\ sourceMarker = NoCommit /\ lastSynced = NoCommit
        /\ sourceLease = [holder |-> NoReplica, left |-> 0]
    BY <1>1 DEF ReleasesInit
  <2>2. /\ Len(history) = 0 /\ SourceTicks \in Nat /\ MaxReleases \in Nat
        /\ Cardinality(Commits) \in Nat
    BY <2>1, ReleasesAssumption, FS_CardinalityType
  <2>3. 0 \in 0..Len(history) /\ 0 \in 0..Cardinality(Commits) /\ Len(history) <= MaxReleases
    BY <2>2
  <2>. QED
    BY <2>1, <2>2, <2>3 DEF CatalogTypes
<1>2. ASSUME CatalogTypes, ReleasesInv PROVE ReleasesTypeOK
  <2>1. sourceLease.left \in Nat /\ sourceLease.left <= SourceTicks /\ SourceTicks \in Nat
    BY <1>2, ReleasesAssumption DEF CatalogTypes, ReleasesInv, ReleaseTypes
  <2>2. sourceLease \in [holder : Replicas \cup {NoReplica}, left : 0..SourceTicks]
    BY <1>2, <2>1 DEF ReleasesInv, ReleaseTypes
  <2>. QED
    BY <1>2, <2>2 DEF CatalogTypes, ReleasesInv, ReleaseTypes, ReleasesTypeOK, OperationRecord
<1>. QED
  BY <1>1, <1>2, CatalogSteps, ReleasesInvHolds, PTL DEF ReleasesSpec
=============================================================================
