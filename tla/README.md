# Windforce Core: verification of the run queue and the control plane

Windforce Core admits runs, keeps them in a durable queue, hands their jobs to
workers under leases, lets a running action wait for a human, and settles,
retains and prunes what is done. Around that queue stand the limits on what a
claim may take, the fleet of workers, the outboxes, triggers, releases and the
opaque ingress. This directory holds TLA+ models of both, the TLC configurations
that check them and the TLAPS proofs that their safety properties hold for every
number of runs, workers, sessions, messages and replicas.

## The system

| Part | State it keeps | Operations | Talks to |
| --- | --- | --- | --- |
| Store: run queue | runs, jobs, leases (`internal/state/state.go`) | admit, claim, heartbeat, complete (succeeded, failed, waiting), resume, cancel job, cancel run, retry, requeue to another tag | workers through the worker plane, callers through the execution service |
| Store: human tasks | suspend tasks and held tasks | create, decide, expire, cancel | the HTTP request that waits for a held task, the deadline loop |
| Store: admission outcomes | one outcome per idempotent identity | bind on admission, resolve | callers that lost an answer, operators |
| Retention loop | none | expire stuck runs, prune settled runs | store |
| Claim policy, execution limits | rate buckets, limit policies | order, labels, concurrency, rate, demand snapshot | claim, operators, the controller that sizes worker groups |
| App lifecycle, runtime configuration | app state and revision, variables and resources, recorded operations | activate, tombstone, revoke, purge, write with replay | claim, the attempts of an app |
| Worker management | worker registry, credentials, group run state | create, revoke, register, heartbeat, drain | claim, worker plane |
| Worker processor | the running action, a heartbeat goroutine | poll, execute, heartbeat, report, drain | store, executor |
| Webhook outbox | subscriptions, events, deliveries with leases | publish, claim, send, complete, retry, prune | dispatchers, operators |
| Triggers and their completions | definitions, adapters, delivery records | reconcile, receive, submit, record, acknowledge, answer | the broker, admission, dispatchers |
| Secret candidates | objects of a secret backend, references to them | store, publish, sweep | running actions, the collector |
| Releases | candidates, history, active release, source lease | synchronize, publish, roll back | Git, replicas of the control plane, outbox |
| Opaque ingress | credential snapshots, publication revisions, activations | put, activate, revoke, prune, resolve, admit | the edge, admission |
| Route bindings | wanted address and provider, observed state, both with a generation | create, edit, ask for deletion, list, report | operators, trigger deletion, an external provider |

There are two stores. `LocalStore` runs each operation under a file lock on a
whole snapshot and replaces it in one rename, or writes nothing.
`PostgresStore` runs each operation as a transaction of several statements at
READ COMMITTED.

What is hard: workers crash and come back after their lease was given away; a
cancellation, a completion and the recovery of a lease meet; five parties may
end one human task; a request reads the state and acts on it in a later call;
transactions on PostgreSQL overlap; retention acts on what it read earlier; a
handler checks in one call of the store and writes in another; a goroutine learns
of a cancellation while the result is on its way; messages and answers are lost
and repeated while what they refer to is edited or deleted.
`PROJECT.json` lists these places under `hazards`, each with its line.

What makes it correct, part by part: a run that waits for execution has exactly
one job and no other run has any; only the newest lease of a job is accepted; a
cancellation is never lost; a settled job, an ended task and an admission outcome
never change again; a suspended run can be resumed; pruning leaves no orphan;
lost leases are recovered and held tasks end. Beside the queue: no ceiling and no
rate window is exceeded, and demand is what claims would hand out, for candidates of
active apps; a revoked app lets go of its attempts and no attempt of a job writes what
a later one has read or written; a worker's
record stays with its credential; a run records the interruption that really
happened; deleting a subscription leaves nothing to send; no event of a trigger is
lost and no settled completion reopens; a published secret resolves; a release is
the one that was asked for; an invocation is admitted on the release its route
pins, and retention keeps what was activated; a route that is called ready is wanted.

## Modules

* `RunQueue` is the core: all operations of the local store on runs, jobs,
  human tasks and admission outcomes, the waiting request, the retention loop
  and the clock. One store operation is one action because it is one file-lock
  section. An operation that fails, or replays an earlier answer, changes
  nothing and has no action. The request that waits on a held task
  (`waitForHumanTask`) is two actions, because it reads and cancels in two
  calls; `giveUps` is what it remembers in between. `leases` remembers every
  lease a worker was given, so that a late worker can present any of them.
* `RunLifecycle` is the abstract specification: the states of a run and the
  steps between them. `RunQueue` implements it (`FollowsLifecycle`, phase = the
  run's state).
* `PostgresQueue` is the same queue on PostgreSQL, one SQL statement per step:
  claim, heartbeat, completion, the two cancellations, the stuck sweep. Each
  session holds row locks and its uncommitted writes; others see committed rows;
  any transaction may be rolled back, and one in a deadlock is aborted. After a
  statement that writes `jobs`, a trigger updates the one row of
  `queue_snapshot_state`: the transaction waits for that row while it holds its
  other locks, and keeps it to its end (`BumpQueueSnapshot`). So every job write of
  one transaction excludes those of the others, and that row is one more thing to
  wait for in a circle (`WaitsFor`). The locking and visibility rules are the
  database's and are marked external. A name that begins with `Pg` has its
  counterpart in `RunQueue`.
* `ClaimLimits` is what `RunQueue` leaves open in a claim: order, worker scope,
  lifecycle test, concurrency ceilings of the app and of keyed limits, rate windows,
  operator policies, and the demand snapshot, which is compared with what repeated
  claims hand out.
* `PostgresClaims` is the same decision on PostgreSQL: a claim is a transaction of
  eight kinds of step (begin, requeue, select candidates, look at one, take its
  advisory locks one by one, test, commit, roll back) that runs beside others. The
  time a claim goes by is that of its begin, which may be long before its first
  statement. `SnapshotFence` says whether the row of `queue_snapshot_state` keeps
  claims apart from the requeue on, as it does in the code: `PostgresRate` has it
  (TRUE), and the counterexample needs only a pause between begin and requeue;
  `ControlPlane` has it off (FALSE), which admits more behaviours, to see what the
  advisory locks do alone. The theorems hold for both.
* `AppRuntime` is the lifecycle of one app and the runtime values its attempts read
  and write, with attempts that lost their lease and go on, and repeated writes.
  A read looks the attempt up before it looks up the value, so any attempt that was
  granted may read late; `readers` remembers the latest one that did.
* `WorkerFleet` is one worker group: credentials, run state, registry, and each
  handler of the worker plane as authenticate, check the record, check the run
  state, write.
* `WorkerProcess` is the worker around one job: poll loop, attempt, heartbeat
  goroutine (never joined), drain, crash, and calls that are lost on the way there
  or back.
* `WebhookOutbox`, `Triggers`, `SecretCandidates`, `Releases`, `OpaqueIngress` are
  the parts of those names. Each store operation is a step; each handler,
  dispatcher, consumer, collector or replica that makes several calls is a process
  with a step for each, which may crash or lose its lease in between.
* `RouteBindings` is the public addresses of triggers, with the provider processes
  that list bindings and report on them later, or never.
* `MCStores` opens one of the two stores and leaves the other alone, as a server does
  at its start (`openStateStore`). `MCRunQueue` adds the symmetry sets for TLC, `MCPostgresClaims`
  and `MCClaimLimits` the jobs and limits of theirs. `MCControlPlane` puts the eleven modules of the control
  plane into one instance. They share no variable: a part refers to another by
  what it leaves open (a claim that takes back the leases of other jobs, a change
  of the active release, a run that ends). So a behaviour first chooses the part
  it explores (`focus`) and the others stay in their initial states; the VIEW
  `FocusView` drops what cannot move, what no step or property looks at any more (the
  record of a job that is done) and which of several interchangeable processes is which.
* `RunQueueProofs` holds the theorems about `RunQueue`, `PostgresQueueProofs` those
  about `PostgresQueue`, `ClaimReleaseProofs` those about `ClaimLimits`,
  `PostgresClaims` and `Releases`, `DemandProofs` those about the demand snapshot of
  `ClaimLimits`, `RuntimeProofs` those about `AppRuntime`, `SecretCandidates`,
  `WorkerFleet` and `WorkerProcess`, `OutboxProofs` those about `WebhookOutbox` and
  `Triggers`, `IngressProofs` those about `OpaqueIngress` and `RouteBindings`, and
  `ControlPlaneProofs` those about the composition in `MCControlPlane`.

An operator whose comment says *Mutant* is a plausible bug in the definition
that follows it. Nothing uses it; it is there to be put in that definition's
place, to see that a property notices. `PROJECT.json` lists the pairs.

### What the models leave out

Data: payloads, results, encryption, actors, reasons, events and logs. They are
carried along and decide nothing here. Fingerprints: a reused key or identity
with a different request is refused, which changes nothing. Workspaces: an
identifier of another workspace is not found. In `RunQueue` any queued job may be
the one a claim takes: order, tags, labels, limits and app lifecycle only remove
possibilities from a claim, so the safety results do not depend on them. Liveness
does: it is stated of the jobs in `ServedIds`, those that some polling worker would
be given. The other jobs may be claimed or not (a retired app, no worker with
their tag), and nothing is promised of them. `ReadsFail` is whether the waiting
request's read of its job may fail, which it takes for a lost lease
(`canonical_human_tasks.go:272`); finding 3 does without.

Time: every timestamp is kept as its distance from now. `left` is the time to a
deadline and stops at -1 (past), `age` the time since `UpdatedAt` and stops at
`AgeCap`. The code compares timestamps with now or with a cutoff only, so nothing
is lost by stopping there. At `left = 0` the deadline is now: recovery takes such
a lease (`!After`) and completion still accepts it (`!Before`), as in the code.
Heartbeats do not look at the expiry at all. `PostgresQueue` reduces time
further, to "the lease has run out" and "the row is older than the cutoff"; that
a row under a live lease is not older is `LeasedJobNotStuck`, proved for
`RunQueue`.

In `PostgresQueue` a run has one job, and a statement that locks several rows
takes them together.

In the modules of the control plane: digests, fingerprints, HTTP metadata,
encryption and audits. Operations that are answered from a record change nothing
and have no action, except where the replay meets other state (policy mutations,
runtime writes, candidates, trigger deliveries). In `WebhookOutbox` and `Triggers`
an instant is due or not and a lease has run out or not; which delivery is taken
first is open. In `Releases` candidates are numbered by their first
synchronization, a strict order; the code has the clock of the replica there. In
`WorkerFleet` a credential does not expire: one that would be refused for its age is
still accepted, which only adds behaviours. In `PostgresClaims` the statements between a claim's last lock and
its update are one step, because what they read can meanwhile only make room. A
job there has an app ceiling and at most one rate limit; keyed ceilings use the
same locks and are checked in `ClaimLimits`.

## Runs

| Run | Instance | Shows |
| --- | --- | --- |
| `Stores`, local | 2 runs (one idempotent), 2 jobs, 2 workers, 2 attempts, leases of 2 ticks | one active job per run, lease fencing, cancellation sticks, admission outcomes are final, leased jobs are not stuck, settled jobs stay settled, lifecycle |
| `Stores`, PostgreSQL | 2 runs, 2 sessions, 2 attempts | types, rows agree, every claim has its own attempt, cancellation sticks, lifecycle (but for the sweep) |
| `RunQueueTasks` | 2 runs, 2 jobs, 1 suspend and 2 held tasks with the same key, 1 worker, everything lasts 1 tick | types and the whole inductive invariant, no orphans, a suspended run has its task, the first terminal writer of a task wins, lifecycle |
| `StoresLive`, local | 1 run, 2 jobs of which 1 is served, 1 held task, everything lasts 1 tick, reads may fail | lost leases of served jobs are recovered, held tasks end |
| `StoresLive`, PostgreSQL | 1 run, 3 sessions, 2 attempts | every transaction ends, whatever the order in which run, job and snapshot row are locked |
| `RunQueueLostCancel` | 1 job, 2 workers | violation, finding 1 |
| `RunQueueCancelHolds` | 2 runs, 2 jobs, 1 held task | violation, finding 2 |
| `RunQueueLiveHold` | 1 job, 2 held tasks | violation, finding 3 |
| `PostgresSweep` | 1 run, 2 sessions | violation, finding 4 |
| `ControlPlane` | eleven parts, see below | 18 properties, at least one for each part |
| `PostgresRate` | 4 jobs on one rate key, 2 sessions, 2 windows | violation, finding 5 |
| `TriggerAnswer` | 1 message, 1 server, 2 targets | violation, finding 6 |
| `ClaimDemand` | the limits of `ControlPlane`: 3 jobs of two apps, 2 selectors | violation, finding 7 |
| `ReleaseResync` | 2 commits, 1 replica, 1 release | violation, finding 8 |

`ControlPlane`, part by part:

| Part | Instance | Property |
| --- | --- | --- |
| `ClaimLimits` | 3 jobs of two apps, two of them of releases with different ceilings, one for GPU workers; 2 scopes; 3 mutations of 2 policies; windows of 2 ticks, leases of 1, 2 attempts | `CeilingsHold`, `RateWindowHolds`, `MutationAppliedOnce`, `DemandMatchesClaims` |
| `PostgresClaims` | 3 jobs of one app, 2 sessions, batches of 1, allowances 0 and 1, 2 attempts | `PgCeilingsHold` |
| `AppRuntime` | 1 job, 2 attempts, 1 object with 2 revisions, 3 operations, 2 writes per attempt, 2 changes of the lifecycle | `RetiredAppLetsGo`, `AttemptsWriteInOrder` |
| `WorkerFleet` | 1 worker identifier, static token and 1 credential, 1 job, 2 requests: any request against one that registers or deregisters | `RecordKeepsItsCredential` |
| `WorkerProcess` | 2 processes, 2 attempts, 1 lost call | `RecordedCauseIsTrue` |
| `WebhookOutbox` | 1 subscription, 2 events, 2 dispatchers, 2 tries | `DeletedSubscriptionLetsGo` |
| `Triggers` | 1 message, 2 servers, 1 dispatcher, 2 policies, 1 edit, 1 lost consumer, 2 tries | `NoEventLost`, `SettledCompletionIsFinal` |
| `SecretCandidates` | 2 operations, 2 requests of at most 1 tick, grace of 2 ticks | `PublishedSecretResolves` |
| `Releases` | 2 commits, 2 replicas, lease of 1 tick, 2 releases | `PublishesWhatWasAsked` |
| `OpaqueIngress` | 2 releases, 1 snapshot, 2 revisions, 2 generations, 2 invocations | `AdmittedReleaseIsPinned`, `ActivatedHistoryIsKept` |
| `RouteBindings` | 2 bindings of 1 trigger that want one address, 2 providers, edits up to generation 2 | `ReadyRouteIsWanted` |

`ControlPlaneTypeOK` is the type invariant of the part in focus. The run has 590,000
distinct states and takes about a minute, `Stores` 600,000 and one and
a half minutes, `StoresLive` 150,000 and three and a half minutes.

Bounds. Two attempts of a job are needed for a stale lease to meet a newer one,
two workers for it to be another worker's; the same worker claiming twice is
included. Two jobs let one run be retried or resumed, or two runs interfere: the
recovery of a lost job is committed only by the claim of some job, so two are
needed to see it happen. Two held tasks with one key are two attempts of one
job. All lifetimes are small, but each is long enough for its deadline to be
ahead, at hand and past, and the retention cutoffs are reached. Two sessions
make every pairwise overlap of transactions, three a circle of three. In the
control plane two of everything that competes (claims, attempts, requests,
dispatchers, servers, replicas, invocations) make every pairwise race; two attempts
or generations give each of them a stale predecessor; each clock is long enough
for a lease to run out and be renewed late, and for a rate window to roll over.
One worker identifier suffices because the registry keeps identifiers apart.
`SecretCandidates` assumes that a request takes less than the grace period of the
collector (a day by default); the code does not enforce it. Deadlock
checking is off because identifiers are finite: a system whose runs are all
settled or pruned stops. Symmetry permutes identifiers that no definition tells
apart and is not used in the liveness run.

Fairness. `RunQueue`: time passes (`Tick`); while a poll could be given a job that a
polling worker serves, some poll comes back with a job, if not with that one
(`ServedPoll`: the worker loop polls for ever, and a claim that finds a candidate
commits its recovery with it); the deadline loop runs (every second,
`human_task_deadline.go`). Of a poll that finds nothing it may take, nothing is
assumed: it fails with `ErrNoQueuedJob` and its recovery is rolled back, so the
lost job of a retired app, or one that no polling worker matches, may stay lost.
Nothing is assumed of the worker that holds a lease, of callers or of the request
that waits. `MaintainedSpec`, used for finding 1,
adds that the retention loop expires stuck runs. `PostgresQueue`: the database
executes the statements it was sent, in turn (strong fairness of a
transaction's next statement, because waiters are queued), and breaks deadlocks
(weak fairness of the abort, session by session: a waiting session looks for a
deadlock itself and gives up). `StoresFairSpec` takes both over, each for the store
that is open. The modules of the control plane are checked for
safety only and state no fairness.

## Findings

1. **A lost job that was asked to stop is not settled by an idle queue.** The
   claim that recovers leases fails with `ErrNoQueuedJob` when there is nothing
   to claim, and the failure rolls the recovery back, in both stores. The job
   stays leased until some other job is claimed or until the stuck sweep calls
   its run EXPIRED, where `lease_fencing_model_test.go` has it canceled by the
   next claim.
2. **Local store: a cancellation can leave a held task pending.**
   `applyCanceledJob` cancels the run and not the tasks that an earlier attempt
   left; the PostgreSQL store does cancel them, and `human-task-hold.md` says
   they are canceled.
3. **The wrong held task is canceled.** A request that waited for the task of a
   lost attempt cancels by job, and so takes the task of the attempt that is
   running now.
4. **PostgreSQL: the stuck sweep can expire a leased job.** What it read in its
   first statement is not looked at again; a job claimed in between is failed
   under its live lease, and a run completed in between becomes EXPIRED.
5. **PostgreSQL: a late claim resets a rate window.** A claim goes by the time its
   transaction began. One that began before the window rolled over and updates the
   bucket after a claim of the new window puts the old window back, and the new
   window starts again at one attempt, where ADR 0041 lets only a later window
   overwrite.
6. **The record of an accepted event can be overwritten.** A message that was
   accepted and is delivered again after its trigger was pointed elsewhere fails
   the fingerprint test of admission; the failure replaces the state and the run of
   the record, and the completion that ADR 0016 calls pinned is never sent.
7. **Demand counts jobs that no claim takes.** The snapshot does not look at the
   lifecycle of an app, so jobs of a tombstoned or revoked one are counted as
   eligible, and take room under a shared key from others, where ADR 0019 defines
   eligible as what repeated claims could acquire. (Also, a pin without a shape, of
   a job older than shapes, is counted with its like only.) `DemandMatchesClaims`
   says what is left: the two agree for every selector whose candidates are of active
   apps and pinned with shapes.
8. **A commit that is synchronized again is not deployed.** A candidate keeps the date
   of its first synchronization, so after a branch is moved back and synchronized, the
   next deployment publishes the commit in between; `README.md` of the repository says
   that each synchronization records the latest revision and that a deployment pins it.
   `PublishesWhatWasAsked` goes by the first synchronization.

Other behaviour met while modelling, which the documents leave open:

* An unforced purge of an app's values may be followed by an attempt whose lease had
  run out and that renews it, as heartbeats do not look at the expiry.
* A claim may follow the drain of its group, and the record of a worker may be
  dropped between the check of the handler and the claim, which then is unattributed.
* A webhook delivery in flight whose subscription is deleted and whose dispatcher
  crashes stays in `delivering`. Attempts lost to crashes do not count as tries.
* An attempt may end as succeeded with the interruption `worker_shutdown`; a
  cancellation during preparation is recorded as a failure without a cause.
* A replica that stalls past its source lease may still publish: nothing fences the
  write (`outlived` in `Releases` marks such behaviours).
* A late report of an earlier generation replaces the state `deleting` or `pending` of
  a binding by `error`; the request to delete stays.
* A credential revoked between resolution and admission still admits the invocation.

## Proofs

Every safety property that the passing runs check, the type invariants included, is
also a theorem, for every value of the constants that the modules' assumptions allow.
The theorems about the control plane are proved about the specification of one part
and then carried to the composition. Nearly every property needs a stronger invariant
to be inductive. TLC was run on those invariants too, on the instances of the runs.

### Assumptions

* `RunQueue`: identifiers differ from the "none" values (`IdentifierAssumption`);
  lifetimes are positive and, where the stuck sweep is on, a lease is not longer than
  the stuck age (`TimeAssumption`: 30 seconds, at most 15 minutes, against 24 hours).
* `ClaimLimits`: the ceilings of a pin are positive (`validKeyedConcurrencyPin` and
  `validKeyedRatePin` require it); a mutation names a policy and carries natural
  numbers.
* `PostgresClaims`: the locks of a candidate include that of its app and that of the
  app's policy, which `postgresClaimLimitsReached` always takes. Without this
  `PgCeilingsHold` is false.
* `SecretCandidates`: a request takes less than the grace period of the collector.
* `Releases`: finitely many commits, at least one tick of lease.
* `RouteBindings`: the provider name that stands for any provider is not the name of
  one. `Reports` also assumes of the external provider that it does not call a binding
  ready that it listed as to be deleted; the store would record such a report.
* `Triggers`: no target is called "none", the value of a record without one.

### The local store

`RunQueueProofs`: `TypeCorrect`, `CanceledJobNeverRunsHolds`,
`NewestLeaseOnlyHolds`, `LeasedJobNotStuckHolds`, `SettledJobIsFinalHolds`.
`JobStep(j)` lists the ways in which a step may change one job, and `JobSteps` shows
that every action changes every job in one of these ways: this is the only place
where the lease proofs look at the actions. The invariant that is carried is
`LeaseInv`: the types, `CanceledJobNeverRuns`, `LeaseAge` and `LeaseHistory`.
`LeaseAge` is what makes `LeasedJobNotStuck` inductive: the time left and the time
since the last touch of a leased job add up to at most `LeaseTTL`, so a lease that is
still good was touched within `StuckAfter`. `LeaseHistory` does the same for
`NewestLeaseOnly`: no lease has an attempt above its job's, and no two leases share
one, so an older lease never passes the ownership test again. Records are rebuilt
field by field (`JobIntro`, `RunIntro`, `TaskIntro`), which is what the SMT backend
can handle.

The state of a run, in the same module: `IndInvHolds` (the whole of `IndInv`), `OneActiveJobHolds`,
`NoOrphansHolds`, `SuspendedRunHasItsTaskHolds`, `AdmissionFenceHolds`,
`OutcomeIsFinalHolds`, `FirstTerminalWriterWinsHolds`, and the refinement
`FollowsLifecycleHolds`: `RunQueue` implements `RunLifecycle`. `RunStep`, `TaskStep`
and `AdmissionStep` summarize the actions as `JobStep` does. The parts of `IndInv`
need each other (a run is suspended because of a task, a task has a job, a job
follows its run), so one lemma per part shows that a step keeps it, given all of
them before the step. Types and leases are taken from the first half of the module.

### The store on PostgreSQL

`PostgresQueueProofs`, about `SafetySpec`: `PoolInvHolds`, `PoolTypeOK`,
`RowsAgreeHolds`, `EveryClaimCountedHolds`, `CanceledJobNeverRunsHolds`,
`PoolFollowsLifecycle`. `PoolInv` says of the committed rows that each run agrees
with its job, of each open transaction what it has locked, read and written so far
and that committing its writes would give rows that agree, and that no row of runs or
jobs is locked by two sessions. The proofs do not use the exclusion by the snapshot row:
the rows agree by the locks on runs and jobs alone. `OtherSession` is what `FOR UPDATE` is for: the rows that a
transaction relies on do not change while another one commits. The lifecycle theorem
exempts the stuck sweep, which may expire a run in any state (finding 4).

### The control plane

| Module | Theorems | What the invariant adds to the property |
| --- | --- | --- |
| `ClaimReleaseProofs` (`ClaimLimits`) | `MutationAppliedOnceHolds`, `CeilingsInvHolds`, `CeilingsHoldHolds`, `RateInvHolds`, `RateWindowHoldsAlways` | `PolicyInv`: an applied mutation is behind the revision it made. `CeilingsInv`: not only all running jobs of an app or a key, but every set of them, has a member whose ceiling admits the set; this is kept when a job with a generous ceiling ends. `RateInv`: a bucket tells what was spent in the current window, or its window is over |
| `ClaimReleaseProofs` (`PostgresClaims`) | `PgInvHolds`, `PgCeilingsHoldHolds` | `PgInv`: no lock is held twice, a transaction that looks at limits holds what it no longer waits for, and after its test the running jobs of its app are still below the ceiling it read, as only the holder of the app's lock may add one; and sets of running jobs as above |
| `ClaimReleaseProofs` (`Releases`) | `ReleasesInvHolds`, `PublishesWhatWasAskedHolds` | until some handler outlives its lease, handlers in progress hold the lease, so there is one; what it read as the newest candidate, by first synchronization, still is |
| `RuntimeProofs` (`AppRuntime`) | `RetiredAppLetsGoHolds`, `AttemptsWriteInOrderHolds` | `AppInv`: no attempt began in the future; recorded reads and writes are of attempts that were claimed |
| `RuntimeProofs` (`SecretCandidates`) | `PublishedSecretResolvesHolds` | `SecretsInv`: requests are young, the cutoff and the listed page of a sweep are old, so what a request still may publish is younger than what a sweep may delete |
| `OutboxProofs` (`WebhookOutbox`) | `WebhookInvHolds`, `DeletedSubscriptionLetsGoHolds` | what a dispatcher holds agrees with the delivery it claimed |
| `OutboxProofs` (`Triggers`) | `TriggersInvHolds`, `NoEventLostHolds`, `SettledCompletionIsFinalHolds` | the answer on which a consumer acknowledges is true of the message it holds; likewise adapters and answering dispatchers |
| `IngressProofs` (`OpaqueIngress`) | `IngressInvHolds`, `AdmittedReleaseIsPinnedHolds`, `ActivatedHistoryIsKeptHolds` | what an invocation resolved stays true of its generation; runs are of pinned releases; retention keeps references |
| `IngressProofs` (`RouteBindings`) | `RoutesInvHolds`, `ReadyRouteIsWantedHolds` | what a provider listed at the present generation is the present wish; wanted addresses differ |
| `RuntimeProofs` (`WorkerFleet`) | `RecordKeepsItsCredentialHolds` | the records of a worker have one credential, at any moment; `RegistrySteps` lists what a step may do to the registry |
| `RuntimeProofs` (`WorkerProcess`) | `WorkerInvHolds`, `RecordedCauseIsTrueHolds` | what a process, and every heartbeat answer still on its way, knows of the job stays true while the job only advances (`KnowledgeStays`, `AnswersStay`) |

`Min` is defined by CHOOSE; `MinOf` shows, by the well-foundedness of `<`, that it is
the minimum, which the proofs about effective ceilings need.

### The demand snapshot

`DemandProofs`: `DemandStateHolds`, `LimitsTypesHold`, `DemandIsWhatClaimsHandOutAlways`.
The snapshot and the claim are two programs. One sorts the candidates and passes over
them once with counters of its own; the other recovers leases, prunes buckets, looks
for the first job that may run, writes it to the store, and is repeated until it finds
none. The argument is that both make *the greedy choice* `Greedy(A, C)`: of the jobs
C, the set A has exactly those for which there was room after the members of A before
them.

* `GreedyIsUnique`: there is one such set, since two of them agree on the first job, and
  so on. So it is enough to show of each program that its answer is greedy.
* `SnapshotIsGreedy`: whoever the pass admits comes after all it admitted before.
* `SameTests`: after claims have handed out the jobs A, the tests of a claim on the
  store (running jobs, keys, buckets after pruning) leave room for the same candidates
  as the counters of the snapshot with A admitted. `RequeuedJobs` is the part about
  expired leases: recovery leaves running what the snapshot counts as leased.
* `RoomShrinks`: every job handed out leaves less room, so a job that a claim passed
  over is not taken by a later claim, and the jobs come out in claim order although
  every claim starts from the front (`ClaimKeeps`, `HandedOutIsGreedy`).
* The hypothesis on a selector is `SameTestApplies` for each of its candidates: an active
  app, and pins with shapes. It is about the state observed and about that selector only;
  other apps may be retired. `SameTests` needs it, as a claim makes both tests anew
  for every job and the snapshot neither.
* `DemandState`, the inductive invariant, adds to the types and to `PolicyInv` that no
  queued job is canceled: such a job would be a candidate of one program only.

Both programs are recursive functions. That they are total functions that meet their
equations (`Recursion`), and the induction over their length (`UpTo`), are proved from
the existence of least elements, because the library's theorems about recursion
and induction take an operator, which the provers cannot instantiate.

### The types

Each part has a theorem that its type invariant holds: `LimitsTypesHold`,
`PgClaimsTypesHold`, `AppRuntimeTypesHold`, `FleetTypesHold`, `WebhookTypesHold`,
`TriggersTypesHold`, `SecretsTypesHold`, `WorkerTypesHold`, `ReleasesTypesHold`,
`IngressTypesHold`, `RoutesTypesHold`. Most need something beyond the types: that the
lease of the catalog never has more than its term left and that no more candidates are
numbered than there are commits (`CatalogTypes`), and that a deletion, which is asked for
once, is the only step of a binding beyond the last generation of an edit
(`RouteBounds`).

### The composition

`ControlPlaneProofs`: a behaviour of `MCControlPlane` is a behaviour of each part
(`LimitsPart`, ..., `RoutesPart`: a step is one of the part, or leaves its variables
alone). `DemandMatchesClaims` has the hypothesis of the demand snapshot here too. From this and the theorems about the parts follow `ControlPlaneTypesHold`,
`DemandMatchesClaimsHolds`, `ControlPlaneSafe` (the other twelve invariants of the run)
and `ControlPlaneStepsSafe` (its four action properties), about the specification that
TLC checks and for every value of its constants.

### Only model-checked

* Liveness: lost leases are recovered, held tasks end, transactions end. Temporal
  reasoning from fairness is out of the prover's reach.
* The eight violations are counterexamples and have no theorem; on PostgreSQL the rate
  window is one of them (finding 5).

## Plan

Next models: held tasks, resume and pruning in `PostgresQueue`; liveness of the
outboxes under polling dispatchers; the registry calls of the worker loop against
the loop itself.

## Not modelled

* The schedule and HTTP adapters of triggers; Git, execution bundles and the
  registration of sources; key rotation; what the references in an input resolve to.
* Workspaces, clients, service principals and tokens: records with audit trails and
  no interleaving beyond one transaction.
* Provisioning applies documents one after another through operations of the stores;
  a failure leaves the earlier ones applied. Placement projections and group
  observations only read.
* Process execution, file and network I/O, encryption, telemetry, the command line,
  OpenAPI descriptions, the web interface and the SDKs. They keep no state that the
  properties above depend on, and they are most of the code: the models cover the
  stores, handlers and loops that change shared state.
* The migrations, except for the trigger on `jobs` and its row (`PostgresQueue`):
  they run before the server opens the store.
