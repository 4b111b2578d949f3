------------------------------ MODULE RunQueue ------------------------------
(***************************************************************************)
(* The durable run queue of Windforce Core: runs, the jobs that execute    *)
(* them, worker leases, human tasks and admission outcomes, as kept by     *)
(* internal/state.LocalStore.  Every store operation runs under the file   *)
(* lock and replaces the snapshot in one rename, or fails and writes       *)
(* nothing (updateWithClock), so each is one action; an operation that     *)
(* returns an error or only replays an earlier answer is a stuttering step *)
(* and has no action.                                                      *)
(*                                                                         *)
(* Time.  The code compares timestamps with the clock.  The model keeps,   *)
(* for every timestamp, its distance from now: "left" is the time to a     *)
(* deadline and stops at -1, "age" is the time since UpdatedAt and stops   *)
(* at AgeCap.  Beyond those values no comparison of the code changes.      *)
(*                                                                         *)
(* Claim selection (order, tags, labels, limits, lifecycle) is left open   *)
(* here: any queued job may be the one a claim takes, and no claim need    *)
(* take it, unless it is one of ServedIds.  ClaimLimits models selection.  *)
(***************************************************************************)
EXTENDS Integers

CONSTANTS
  RunIds,            \* run identifiers; chosen by the caller, may recur
  TrackedIds,        \* the runs that carry an idempotency hash
  JobIds,            \* job identifiers; NewID never repeats one
  SuspendIds,        \* identifiers of suspend tasks
  HoldIds,           \* identifiers of held tasks
  HoldKeys,          \* keys an action gives its held tasks
  WorkerIds,
  ServedIds,         \* jobs that some polling worker would always be given: its
                     \* workspaces, tags and labels admit them, their app stays
                     \* active and no limit holds them up
  ReadsFail,         \* whether the read of a waiting request may fail
  NoRun, NoJob, NoWorker, NoTask, NoKey,
  LeaseTTL,          \* lifetime a claim or heartbeat gives a lease
  HoldTTL,           \* lifetime of a held task
  StuckAfter,        \* age at which an active run is stuck
  SuccessRetention,  \* age at which a succeeded run may be pruned
  FailureRetention,  \* age at which any other settled run may be pruned
  MaxAttempts        \* bound on the attempts of one job

TaskIds == SuspendIds \cup HoldIds

ASSUME IdentifierAssumption ==
  /\ TrackedIds \subseteq RunIds
  /\ ServedIds \subseteq JobIds
  /\ ReadsFail \in BOOLEAN
  /\ SuspendIds \cap HoldIds = {}
  /\ NoRun \notin RunIds
  /\ NoJob \notin JobIds
  /\ NoWorker \notin WorkerIds
  /\ NoTask \notin TaskIds
  /\ NoKey \notin HoldKeys

\* The default lease is 30 seconds, the worker plane caps it at 15 minutes and
\* a run is stuck after 24 hours; zero turns a retention rule off.
ASSUME TimeAssumption ==
  /\ LeaseTTL \in Nat \ {0}
  /\ HoldTTL \in Nat \ {0}
  /\ StuckAfter \in Nat
  /\ SuccessRetention \in Nat
  /\ FailureRetention \in Nat
  /\ MaxAttempts \in Nat
  /\ StuckAfter > 0 => LeaseTTL <= StuckAfter

VARIABLES
  runs,      \* snapshot.Runs
  jobs,      \* snapshot.Jobs
  tasks,     \* snapshot.HumanTasks
  outcomes,  \* snapshot.AdmissionOutcomes
  leases,    \* every lease a claim has handed to a worker
  giveUps    \* held tasks whose waiting request has decided to cancel

vars == <<runs, jobs, tasks, outcomes, leases, giveUps>>

-----------------------------------------------------------------------------
(* States and records *)

TerminalStates == {"SUCCEEDED", "FAILED", "CANCELED", "EXPIRED"}

ActiveStates == {"QUEUED", "RUNNING", "RESUMING"}

RunStates == ActiveStates \cup TerminalStates \cup {"WAITING_HUMAN"}

JobStates == {"queued", "running", "succeeded", "failed"}

TaskStates == {"pending", "decided", "completed", "expired", "canceled"}

\* The greatest age any retention rule distinguishes.
AgeCap ==
  LET cuts == {StuckAfter, SuccessRetention, FailureRetention}
  IN  1 + (CHOOSE n \in cuts : \A m \in cuts : m <= n)

NoExpiry == -2   \* a nil deadline

Run == [state : RunStates \cup {"absent"},
        task  : TaskIds \cup {NoTask},
        age   : 0..AgeCap]

\* "absent" has not been created, "deleted" has been pruned.
Job == [run      : RunIds \cup {NoRun},
        state    : JobStates \cup {"absent", "deleted"},
        attempt  : 0..MaxAttempts,
        owner    : WorkerIds \cup {NoWorker},
        left     : NoExpiry..LeaseTTL,
        canceled : BOOLEAN,
        age      : 0..AgeCap]

Task == [run     : RunIds \cup {NoRun},
         job     : JobIds \cup {NoJob},
         attempt : 0..MaxAttempts,
         key     : HoldKeys \cup {NoKey},
         state   : TaskStates \cup {"absent", "deleted"},
         left    : NoExpiry..HoldTTL]

Lease == [job : JobIds, worker : WorkerIds, attempt : 1..MaxAttempts]

AbsentRun == [state |-> "absent", task |-> NoTask, age |-> 0]

AbsentJob == [run |-> NoRun, state |-> "absent", attempt |-> 0,
              owner |-> NoWorker, left |-> NoExpiry, canceled |-> FALSE,
              age |-> 0]

AbsentTask == [run |-> NoRun, job |-> NoJob, attempt |-> 0, key |-> NoKey,
               state |-> "absent", left |-> NoExpiry]

RunExists(r) == runs[r].state # "absent"

JobExists(j) == jobs[j].state \in JobStates

\* Mutant: EXPIRED and FAILED runs count as open.
IsTerminalDropsFailed(r) == runs[r].state \in TerminalStates \ {"FAILED", "EXPIRED"}

IsTerminal(r) == runs[r].state \in TerminalStates

JobActive(j) == jobs[j].state \in {"queued", "running"}

Pending(t) == tasks[t].state = "pending"

\* NewActionJob: a fresh job of run r in its initial state.
NewActionJob(r) == [AbsentJob EXCEPT !.run = r, !.state = "queued"]

-----------------------------------------------------------------------------
(* Helpers shared by the operations *)

\* Mutant: recovery looks at the deadline only.
LeaseExpiredAnyState(j) == jobs[j].left \in -1..0

\* A job whose lease the next claim may take away.
LeaseExpired(j) == jobs[j].state = "running" /\ jobs[j].left \in -1..0

\* Mutant: the job is settled and its run forgotten.
CanceledRunForgotten(run) == run

\* What an operation writes to a job.  All but the clock set UpdatedAt.
CanceledJob(job) ==   \* applyCanceledJob
  [job EXCEPT !.state = "failed", !.left = NoExpiry, !.canceled = TRUE, !.age = 0]

RequeuedJob(job) ==   \* the attempt number stays
  [job EXCEPT !.state = "queued", !.owner = NoWorker, !.left = NoExpiry, !.age = 0]

ClaimedJob(job, w) ==
  [job EXCEPT !.state = "running", !.attempt = @ + 1, !.owner = w,
              !.left = LeaseTTL, !.age = 0]

\* Mutant: a heartbeat adds to what is left of the lease.
ExtendedJob(job) == [job EXCEPT !.left = @ + LeaseTTL, !.age = 0]

RenewedJob(job) == [job EXCEPT !.left = LeaseTTL, !.age = 0]

SettledJob(job, state) ==   \* LeaseOwner stays
  [job EXCEPT !.state = state, !.left = NoExpiry, !.age = 0]

SoftCanceledJob(job) == [job EXCEPT !.canceled = TRUE, !.age = 0]

StoppedJob(job) ==   \* the jobs of a canceled run
  [job EXCEPT !.state = "failed", !.owner = NoWorker, !.left = NoExpiry, !.age = 0]

ExpiredJob(job) ==   \* the lease fields stay
  [job EXCEPT !.state = "failed", !.age = 0]

RetaggedJob(job) == [job EXCEPT !.age = 0]

\* A run moved to another state.
RunIn(run, state) == [run EXCEPT !.state = state, !.age = 0]

CanceledRun(run) == RunIn(run, "CANCELED")

EndedTask(task, state) == [task EXCEPT !.state = state]

\* Mutant: tasks that have ended are canceled too.
CancelHeldAnyState(js) ==
  [t \in TaskIds |->
     IF t \in HoldIds /\ tasks[t].job \in js
     THEN EndedTask(tasks[t], "canceled") ELSE tasks[t]]

\* cancelHeldHumanTasksInSnapshot: all pending held tasks of the jobs in js,
\* whichever attempt created them.
CancelHeld(js) ==
  [t \in TaskIds |->
     IF t \in HoldIds /\ Pending(t) /\ tasks[t].job \in js
     THEN EndedTask(tasks[t], "canceled") ELSE tasks[t]]

\* Mutants: recovery forgets that the job was asked to stop; no recovery.
RequeueIgnoringCancel ==
  [j \in JobIds |-> IF LeaseExpired(j) THEN RequeuedJob(jobs[j]) ELSE jobs[j]]

RequeueNothing == jobs

\* requeueExpiredJobs: a lost job goes back to the queue with its attempt
\* number, unless it was asked to stop, in which case it settles as canceled.
RequeueExpiredJobs ==
  [j \in JobIds |->
     IF ~LeaseExpired(j) THEN jobs[j]
     ELSE IF jobs[j].canceled THEN CanceledJob(jobs[j])
     ELSE RequeuedJob(jobs[j])]

RunsOfLostCanceledJobs ==
  {jobs[j].run : j \in {k \in JobIds : LeaseExpired(k) /\ jobs[k].canceled}}

\* Mutant: the worker is compared, the attempt is not.
OwnsJobAnyAttempt(l) ==
  jobs[l.job].state = "running" /\ jobs[l.job].owner = l.worker

\* HeartbeatJob's ownership test: the expiry of the lease is not looked at.
OwnsJob(l) ==
  /\ jobs[l.job].state = "running"
  /\ jobs[l.job].owner = l.worker
  /\ jobs[l.job].attempt = l.attempt

\* leasedJobAndRun: what a completion must present.
LeasedJobAndRun(l) ==
  /\ OwnsJob(l)
  /\ jobs[l.job].left # -1
  /\ RunExists(jobs[l.job].run)

-----------------------------------------------------------------------------
(* Admission *)

\* Mutants: an existing outcome is overwritten; the outcome is not recorded.
BindOverwrites(r) ==
  outcomes' = IF r \in TrackedIds THEN [outcomes EXCEPT ![r] = "admitted"] ELSE outcomes

BindForgets(r) ==
  /\ r \in TrackedIds => outcomes[r] = "none"
  /\ outcomes' = outcomes

\* bindLocalAdmissionOutcome: a tracked identity that has an outcome is refused.
BindAdmissionOutcome(r) ==
  /\ r \in TrackedIds => outcomes[r] = "none"
  /\ outcomes' = IF r \in TrackedIds THEN [outcomes EXCEPT ![r] = "admitted"]
                                     ELSE outcomes

CreateRunAndEnqueue(r, j) ==
  /\ ~RunExists(r)
  /\ jobs[j].state = "absent"
  /\ BindAdmissionOutcome(r)
  /\ runs' = [runs EXCEPT ![r] = [state |-> "QUEUED", task |-> NoTask, age |-> 0]]
  /\ jobs' = [jobs EXCEPT ![j] = NewActionJob(r)]
  /\ UNCHANGED <<tasks, leases, giveUps>>

\* An operator asks what became of an admission; one that is not there is
\* aborted for good.
ResolveAdmissionOutcome(r) ==
  /\ outcomes[r] = "none"
  /\ outcomes' = [outcomes EXCEPT ![r] = IF RunExists(r) THEN "admitted"
                                                         ELSE "aborted"]
  /\ UNCHANGED <<runs, jobs, tasks, leases, giveUps>>

-----------------------------------------------------------------------------
(* Workers: claim, heartbeat, completion *)

\* ClaimJobForWorkerScope: recovery of expired leases and the claim of one
\* queued job are one transaction.  When no job can be claimed the error rolls
\* the recovery back as well, so there is no step in which recovery alone
\* happens.
ClaimJob(w, j) ==
  LET recovered == RequeueExpiredJobs
      r         == jobs[j].run
  IN  /\ recovered[j].state = "queued"
      /\ jobs[j].attempt < MaxAttempts
      /\ jobs' = [recovered EXCEPT ![j] = ClaimedJob(@, w)]
      /\ runs' = [q \in RunIds |->
                    IF q \in RunsOfLostCanceledJobs THEN CanceledRun(runs[q])
                    ELSE IF q = r /\ runs[q].state \in {"QUEUED", "RESUMING"}
                    THEN RunIn(runs[q], "RUNNING")
                    ELSE runs[q]]
      /\ leases' = leases \cup
                   {[job |-> j, worker |-> w, attempt |-> jobs[j].attempt + 1]}
      /\ UNCHANGED <<tasks, outcomes, giveUps>>

\* HeartbeatJob: renews the lease, also one that has expired but has not been
\* recovered yet.
HeartbeatJob(l) ==
  /\ OwnsJob(l)
  /\ jobs' = [jobs EXCEPT ![l.job] = RenewedJob(@)]
  /\ UNCHANGED <<runs, tasks, outcomes, leases, giveUps>>

\* A completion that finds the job soft-canceled settles it as canceled,
\* whatever the worker reports.
CompleteCanceled(l) ==
  /\ jobs[l.job].canceled
  /\ jobs' = [jobs EXCEPT ![l.job] = CanceledJob(@)]
  /\ runs' = [runs EXCEPT ![jobs[l.job].run] = CanceledRun(@)]

SettleJob(l, jobState, runState, task) ==
  /\ ~jobs[l.job].canceled
  /\ jobs' = [jobs EXCEPT ![l.job] = SettledJob(@, jobState)]
  /\ runs' = [runs EXCEPT ![jobs[l.job].run] =
                [state |-> runState, task |-> task, age |-> 0]]

CompleteJobSucceeded(l) ==
  /\ LeasedJobAndRun(l)
  /\ \/ CompleteCanceled(l)
     \/ SettleJob(l, "succeeded", "SUCCEEDED", NoTask)
  /\ tasks' = CancelHeld({l.job})
  /\ UNCHANGED <<outcomes, leases, giveUps>>

\* CompleteJobFailed leaves run.TaskID as it is.
CompleteJobFailed(l) ==
  /\ LeasedJobAndRun(l)
  /\ \/ CompleteCanceled(l)
     \/ SettleJob(l, "failed", "FAILED", runs[jobs[l.job].run].task)
  /\ tasks' = CancelHeld({l.job})
  /\ UNCHANGED <<outcomes, leases, giveUps>>

SuspendTask(r) == [AbsentTask EXCEPT !.run = r, !.state = "pending"]

\* Neither branch of CompleteJobWaitingHuman touches the held tasks.
CompleteJobWaitingHuman(l, t) ==
  /\ LeasedJobAndRun(l)
  /\ \/ /\ CompleteCanceled(l)
        /\ UNCHANGED tasks
     \/ /\ tasks[t].state = "absent"
        /\ SettleJob(l, "succeeded", "WAITING_HUMAN", t)
        /\ tasks' = [tasks EXCEPT ![t] = SuspendTask(jobs[l.job].run)]
  /\ UNCHANGED <<outcomes, leases, giveUps>>

-----------------------------------------------------------------------------
(* Callers: resume, cancel, retry *)

\* ResumeHumanTask takes any pending task of a waiting run, also a held one that
\* the suspended attempt left pending.  ResumeRun reads run.TaskID and calls it.
ResumeHumanTask(t, j) ==
  LET r == tasks[t].run
  IN  /\ Pending(t)
      /\ r \in RunIds /\ runs[r].state = "WAITING_HUMAN"
      /\ jobs[j].state = "absent"
      /\ tasks' = [tasks EXCEPT ![t] = EndedTask(@, "completed")]
      /\ runs' = [runs EXCEPT ![r] = [state |-> "RESUMING", task |-> NoTask, age |-> 0]]
      /\ jobs' = [jobs EXCEPT ![j] = NewActionJob(r)]
      /\ UNCHANGED <<outcomes, leases, giveUps>>

\* CancelJob: a running job is only asked to stop, a queued one ends here.
\* Only the job and the run change: held tasks stay as they are.
CancelJob(j) ==
  /\ JobActive(j)
  /\ RunExists(jobs[j].run) /\ ~IsTerminal(jobs[j].run)
  /\ \/ /\ jobs[j].state = "running"
        /\ jobs' = [jobs EXCEPT ![j] = SoftCanceledJob(@)]
        /\ UNCHANGED runs
     \/ /\ jobs[j].state = "queued"
        /\ jobs' = [jobs EXCEPT ![j] = CanceledJob(@)]
        /\ runs' = [runs EXCEPT ![jobs[j].run] = CanceledRun(@)]
  /\ UNCHANGED <<tasks, outcomes, leases, giveUps>>

\* Mutant: the tasks of every run end.
EndAllTasks(r) ==
  [t \in TaskIds |->
     IF Pending(t)
     THEN EndedTask(tasks[t], IF t \in HoldIds THEN "canceled" ELSE "expired")
     ELSE tasks[t]]

\* The pending tasks of a canceled run: held ones are canceled, suspend ones
\* expire.
EndTasksOfRun(r) ==
  [t \in TaskIds |->
     IF tasks[t].run = r /\ Pending(t)
     THEN EndedTask(tasks[t], IF t \in HoldIds THEN "canceled" ELSE "expired")
     ELSE tasks[t]]

CancelRun(r) ==
  /\ RunExists(r) /\ ~IsTerminal(r)
  /\ runs' = [runs EXCEPT ![r] = CanceledRun(@)]
  /\ jobs' = [j \in JobIds |->
                IF jobs[j].run = r /\ JobActive(j) THEN StoppedJob(jobs[j])
                                                   ELSE jobs[j]]
  /\ tasks' = EndTasksOfRun(r)
  /\ UNCHANGED <<outcomes, leases, giveUps>>

RetryRun(r, j) ==
  /\ runs[r].state \in {"FAILED", "CANCELED", "EXPIRED"}
  /\ jobs[j].state = "absent"
  /\ runs' = [runs EXCEPT ![r] = [state |-> "QUEUED", task |-> NoTask, age |-> 0]]
  /\ jobs' = [jobs EXCEPT ![j] = NewActionJob(r)]
  /\ UNCHANGED <<tasks, outcomes, leases, giveUps>>

\* RequeueQueuedJobsForApp: moves the queued jobs js of an App to another tag.
RequeueQueuedJobsForApp(js) ==
  /\ \A j \in js : jobs[j].state = "queued"
  /\ jobs' = [j \in JobIds |-> IF j \in js THEN RetaggedJob(jobs[j]) ELSE jobs[j]]
  /\ UNCHANGED <<runs, tasks, outcomes, leases, giveUps>>

-----------------------------------------------------------------------------
(* Held human tasks *)

\* The attempt that holds the lease, as CreateHeldHumanTask and the waiting
\* request judge it.
ActivelyLeased(j, attempt) ==
  /\ jobs[j].state = "running"
  /\ jobs[j].attempt = attempt
  /\ jobs[j].left > 0

\* Mutant: the sweep must hit the deadline exactly.
DueExactly(t) == tasks[t].left = 0

Due(t) == tasks[t].left \in -1..0

\* CreateHeldHumanTask: the same key of the same attempt finds the task that is
\* there already and changes nothing.
CreateHeldHumanTask(l, k, t) ==
  /\ ActivelyLeased(l.job, l.attempt)
  /\ \A u \in HoldIds : ~(/\ tasks[u].job = l.job
                          /\ tasks[u].attempt = l.attempt
                          /\ tasks[u].key = k)
  /\ tasks[t].state = "absent"
  /\ tasks' = [tasks EXCEPT ![t] =
                 [run |-> jobs[l.job].run, job |-> l.job, attempt |-> l.attempt,
                  key |-> k, state |-> "pending", left |-> HoldTTL]]
  /\ UNCHANGED <<runs, jobs, outcomes, leases, giveUps>>

\* DecideHeldHumanTask: a decision that comes after the deadline expires the
\* task instead.
DecideHeldHumanTask(t) ==
  /\ Pending(t)
  /\ tasks' = [tasks EXCEPT ![t] = EndedTask(@, IF Due(t) THEN "expired" ELSE "decided")]
  /\ UNCHANGED <<runs, jobs, outcomes, leases, giveUps>>

\* ExpireHeldHumanTask, called by a waiting request past the deadline.
ExpireHeldHumanTask(t) ==
  /\ Pending(t) /\ Due(t)
  /\ tasks' = [tasks EXCEPT ![t] = EndedTask(@, "expired")]
  /\ UNCHANGED <<runs, jobs, outcomes, leases, giveUps>>

\* ExpireDueHeldHumanTasks, called by the deadline loop until no batch is full.
ExpireDueHeldHumanTasks ==
  /\ \E t \in HoldIds : Pending(t) /\ Due(t)
  /\ tasks' = [t \in TaskIds |->
                 IF t \in HoldIds /\ Pending(t) /\ Due(t)
                 THEN EndedTask(tasks[t], "expired") ELSE tasks[t]]
  /\ UNCHANGED <<runs, jobs, outcomes, leases, giveUps>>

\* waitForHumanTask: the request that waits on t reads the job and finds that
\* its attempt no longer holds the lease, or the read fails, which it takes for
\* the same; the cancellation is a later call.
WaitForHumanTask(t) ==
  /\ Pending(t) /\ ~Due(t)
  /\ ActivelyLeased(tasks[t].job, tasks[t].attempt) => ReadsFail
  /\ giveUps' = giveUps \cup {t}
  /\ UNCHANGED <<runs, jobs, tasks, outcomes, leases>>

\* CancelHeldHumanTasksForJob, the call of the request that waited on t: it
\* names the job only.
CancelHeldHumanTasksForJob(t) ==
  /\ t \in giveUps
  /\ giveUps' = giveUps \ {t}
  /\ tasks' = CancelHeld({tasks[t].job})
  /\ UNCHANGED <<runs, jobs, outcomes, leases>>

-----------------------------------------------------------------------------
(* The retention loop *)

\* retentionCutoff; a zero retention keeps the run for ever.
RetentionOf(state) == IF state = "SUCCEEDED" THEN SuccessRetention
                                             ELSE FailureRetention

Prunable(r) ==
  /\ IsTerminal(r)
  /\ RetentionOf(runs[r].state) > 0
  /\ runs[r].age > RetentionOf(runs[r].state)

DeletedJob == [AbsentJob EXCEPT !.state = "deleted"]

DeletedTask == [AbsentTask EXCEPT !.state = "deleted"]

\* Mutant: held tasks survive their run.
PrunedSuspendTasks(gone) ==
  [t \in TaskIds |->
     IF t \in SuspendIds /\ tasks[t].run \in gone
     THEN DeletedTask ELSE tasks[t]]

PrunedTasks(gone) ==
  [t \in TaskIds |->
     IF tasks[t].run \in gone THEN DeletedTask
                              ELSE tasks[t]]

PruneSettledJobs ==
  LET gone == {r \in RunIds : Prunable(r)}
  IN  /\ gone # {}
      /\ runs' = [r \in RunIds |-> IF r \in gone THEN AbsentRun ELSE runs[r]]
      /\ jobs' = [j \in JobIds |->
                    IF jobs[j].run \in gone
                    THEN DeletedJob ELSE jobs[j]]
      /\ tasks' = PrunedTasks(gone)
      /\ UNCHANGED <<outcomes, leases, giveUps>>

\* Mutant: heartbeats, which refresh the job only, do not count as progress.
StuckByRunAge(r) ==
  /\ StuckAfter > 0
  /\ runs[r].state \in ActiveStates
  /\ runs[r].age > StuckAfter

\* No progress of the run, nor of any of its jobs, since the cutoff.
Stuck(r) ==
  /\ StuckAfter > 0
  /\ runs[r].state \in ActiveStates
  /\ runs[r].age > StuckAfter
  /\ \A j \in JobIds : jobs[j].run = r => jobs[j].age > StuckAfter

ExpireStuckJobs ==
  LET stuck == {r \in RunIds : Stuck(r)}
      dead  == {j \in JobIds : jobs[j].run \in stuck /\ JobActive(j)}
  IN  /\ stuck # {}
      /\ runs' = [r \in RunIds |->
                    IF r \in stuck
                    THEN RunIn(runs[r], "EXPIRED") ELSE runs[r]]
      /\ jobs' = [j \in JobIds |->
                    IF j \in dead THEN ExpiredJob(jobs[j]) ELSE jobs[j]]
      /\ tasks' = CancelHeld(dead)
      /\ UNCHANGED <<outcomes, leases, giveUps>>

-----------------------------------------------------------------------------
(* The clock *)

Sooner(left) == IF left > -1 THEN left - 1 ELSE left

Older(age) == IF age < AgeCap THEN age + 1 ELSE age

AgedJob(job) == [job EXCEPT !.left = Sooner(@), !.age = Older(@)]

Tick ==
  /\ runs' = [r \in RunIds |->
                IF RunExists(r) THEN [runs[r] EXCEPT !.age = Older(@)]
                                ELSE runs[r]]
  /\ jobs' = [j \in JobIds |->
                IF JobExists(j) THEN AgedJob(jobs[j]) ELSE jobs[j]]
  /\ tasks' = [t \in TaskIds |->
                 IF Pending(t) THEN [tasks[t] EXCEPT !.left = Sooner(@)]
                               ELSE tasks[t]]
  /\ UNCHANGED <<outcomes, leases, giveUps>>

-----------------------------------------------------------------------------
Init ==
  /\ runs = [r \in RunIds |-> AbsentRun]
  /\ jobs = [j \in JobIds |-> AbsentJob]
  /\ tasks = [t \in TaskIds |-> AbsentTask]
  /\ outcomes = [r \in TrackedIds |-> "none"]
  /\ leases = {}
  /\ giveUps = {}

WorkerNext ==
  \/ \E w \in WorkerIds, j \in JobIds : ClaimJob(w, j)
  \/ \E l \in leases :
       \/ HeartbeatJob(l)
       \/ CompleteJobSucceeded(l)
       \/ CompleteJobFailed(l)
       \/ \E t \in SuspendIds : CompleteJobWaitingHuman(l, t)
       \/ \E k \in HoldKeys, t \in HoldIds : CreateHeldHumanTask(l, k, t)

CallerNext ==
  \/ \E r \in RunIds :
       \/ CancelRun(r)
       \/ \E j \in JobIds : CreateRunAndEnqueue(r, j) \/ RetryRun(r, j)
  \/ \E r \in TrackedIds : ResolveAdmissionOutcome(r)
  \/ \E j \in JobIds :
       \/ CancelJob(j)
       \/ \E t \in TaskIds : ResumeHumanTask(t, j)
  \/ \E js \in SUBSET JobIds : RequeueQueuedJobsForApp(js)

TaskNext ==
  \/ \E t \in HoldIds :
       \/ DecideHeldHumanTask(t)
       \/ ExpireHeldHumanTask(t)
       \/ WaitForHumanTask(t)
       \/ CancelHeldHumanTasksForJob(t)
  \/ ExpireDueHeldHumanTasks

MaintenanceNext == PruneSettledJobs \/ ExpireStuckJobs

Next == WorkerNext \/ CallerNext \/ TaskNext \/ MaintenanceNext \/ Tick

Spec == Init /\ [][Next]_vars

\* A poll that can be given a served job comes back with a job, if not with that
\* one.  A poll that cannot may find nothing it is allowed to take, and then its
\* recovery is rolled back: nothing is assumed of it.
ServedPoll ==
  /\ \E j \in ServedIds : /\ RequeueExpiredJobs[j].state = "queued"
                          /\ jobs[j].attempt < MaxAttempts
  /\ \E w \in WorkerIds, j \in JobIds : ClaimJob(w, j)

\* Time passes, the workers that serve ServedIds poll, and the deadline loop of
\* the server runs every second.  Nothing is assumed of the worker that holds a
\* lease: it may have crashed.
Fairness ==
  /\ WF_vars(Tick)
  /\ WF_vars(ServedPoll)
  /\ WF_vars(ExpireDueHeldHumanTasks)

FairSpec == Spec /\ Fairness

\* The retention loop runs as well.
MaintainedSpec == FairSpec /\ WF_vars(ExpireStuckJobs)

-----------------------------------------------------------------------------
(* Correctness *)

\* Every record of the snapshot has its Go type, with the bounds of the model.
TypeOK ==
  /\ runs \in [RunIds -> Run]
  /\ jobs \in [JobIds -> Job]
  /\ tasks \in [TaskIds -> Task]
  /\ outcomes \in [TrackedIds -> {"none", "admitted", "aborted"}]
  /\ leases \subseteq Lease
  /\ giveUps \subseteq HoldIds

ActiveJobs(r) == {j \in JobIds : jobs[j].run = r /\ JobActive(j)}

\* A run that waits for execution has one job to execute it, and no other run
\* has any: whatever mix of completions, cancellations, retries, resumes and
\* expiries ran, a run is never executed twice at once nor left without a job.
OneActiveJob ==
  \A r \in RunIds :
    /\ \A i, j \in ActiveJobs(r) : i = j
    /\ runs[r].state \in ActiveStates <=> ActiveJobs(r) # {}

\* A leased job belongs to a run that says so.
RunFollowsJob ==
  \A j \in JobIds : jobs[j].state = "running" => runs[jobs[j].run].state = "RUNNING"

\* Lease fencing: no two leases of a job carry the same attempt, and once a job
\* has been claimed again the earlier leases neither renew nor settle it, not
\* even in the hands of the worker that now has the newer one.
NewestLeaseOnly ==
  \A l, m \in leases :
    l.job = m.job /\ l # m =>
      /\ l.attempt # m.attempt
      /\ l.attempt < m.attempt => ~OwnsJob(l)

\* CancelJob's promise: a job asked to stop never goes back to the queue and
\* never counts as a success, whatever its worker reports and whoever recovers
\* its lease.
CanceledJobNeverRuns ==
  \A j \in JobIds : jobs[j].canceled => jobs[j].state \in {"running", "failed"}

\* A suspended run can be resumed: the task it waits for is its own and is still
\* pending, whatever was canceled, resumed, expired or pruned around it.
SuspendedRunHasItsTask ==
  \A r \in RunIds :
    runs[r].state = "WAITING_HUMAN" =>
      \E t \in SuspendIds : runs[r].task = t /\ Pending(t) /\ tasks[t].run = r

\* Pruning takes a run with everything that hangs on it: no job or task is left
\* without its run.
NoOrphans ==
  /\ \A j \in JobIds : JobExists(j) => jobs[j].run \in RunIds /\ RunExists(jobs[j].run)
  /\ \A t \in TaskIds : tasks[t].state \in TaskStates =>
                          tasks[t].run \in RunIds /\ RunExists(tasks[t].run)

\* An admission identity resolved as aborted never has a run, and one that has a
\* run is recorded as admitted, also after the run was pruned.
AdmissionFence ==
  \A r \in TrackedIds :
    /\ outcomes[r] = "aborted" => ~RunExists(r)
    /\ RunExists(r) => outcomes[r] = "admitted"

\* What an outcome once said it says for ever, and an admitted identity is not
\* admitted again after retention removed its run.
OutcomeIsFinal ==
  [][\A r \in TrackedIds :
       outcomes[r] # "none" => /\ outcomes'[r] = outcomes[r]
                               /\ ~RunExists(r) => runs'[r] = runs[r]]_vars

\* ExpireStuckJobs: "Actively heartbeating jobs refresh UpdatedAt and are never
\* considered stuck": no job under a lease that a completion would still accept
\* belongs to a stuck run.
LeasedJobNotStuck ==
  \A j \in JobIds : jobs[j].state = "running" /\ jobs[j].left >= 0 => ~Stuck(jobs[j].run)

\* A settled job stays as it settled until it is pruned: no late completion,
\* heartbeat, cancellation or recovery revives it.
SettledJobIsFinal ==
  [][\A j \in JobIds :
       jobs[j].state \in {"succeeded", "failed"} =>
         jobs'[j].state \in {jobs[j].state, "deleted"}]_vars

\* The first terminal writer of a human task wins: decision, deadline, resume,
\* cancellation and worker loss never overwrite one another.
FirstTerminalWriterWins ==
  [][\A t \in TaskIds :
       tasks[t].state \in TaskStates \ {"pending"} =>
         tasks'[t].state \in {tasks[t].state, "deleted"}]_vars

\* The run's states, as a caller sees them, follow the published lifecycle.
Lifecycle == INSTANCE RunLifecycle WITH phase <- [r \in RunIds |-> runs[r].state]

FollowsLifecycle == Lifecycle!Spec

\* A job whose worker died does not stay leased while a worker polls that may be
\* given it: the poll recovers it, or the worker was alive after all and renewed
\* or settled it.  A job that no poll may be given, of a retired app or without a
\* matching worker, has no such promise: ErrNoQueuedJob takes the recovery back.
\* (A job asked to stop is another exception: see LostCanceledJobSettles.)
LostLeaseRecovered ==
  \A j \in ServedIds :
    LeaseExpired(j) /\ ~jobs[j].canceled /\ jobs[j].attempt < MaxAttempts
      ~> ~LeaseExpired(j) \/ jobs[j].canceled

\* A held task does not stay pending: the deadline loop ends it even when the
\* request that waited on it is gone.
HeldTaskEnds == \A t \in HoldIds : Pending(t) ~> ~Pending(t)

-----------------------------------------------------------------------------
(* The inductive invariant behind the safety properties *)

\* A record that is not in the store has no run.
AbsentHasNoRun ==
  /\ \A j \in JobIds : ~JobExists(j) => jobs[j].run = NoRun
  /\ \A t \in TaskIds : tasks[t].state \in {"absent", "deleted"} => tasks[t].run = NoRun

\* A job has been leased once for every attempt it counts, and by its owner last.
LeaseHistory ==
  /\ \A l \in leases : JobExists(l.job) => l.attempt <= jobs[l.job].attempt
  /\ \A l \in leases : jobs[l.job].state # "absent"
  /\ \A l, m \in leases : l.job = m.job /\ l.attempt = m.attempt => l = m

\* A lease is never longer than LeaseTTL from the last time its job was touched.
LeaseAge ==
  \A j \in JobIds :
    jobs[j].state = "running" =>
      /\ jobs[j].left # NoExpiry
      /\ jobs[j].left >= 0 => jobs[j].left + jobs[j].age <= LeaseTTL

\* All that the safety proofs carry from step to step.
IndInv ==
  /\ TypeOK
  /\ AbsentHasNoRun
  /\ NoOrphans
  /\ OneActiveJob
  /\ RunFollowsJob
  /\ CanceledJobNeverRuns
  /\ LeaseHistory
  /\ LeaseAge
  /\ SuspendedRunHasItsTask
  /\ AdmissionFence

-----------------------------------------------------------------------------
(* Statements of the repository that the code does not meet *)

\* lease_fencing_model_test.go: "Core makes lease recovery part of the next claim
\* transaction", and that recovery ends a job that was asked to stop as canceled.
\* So a lost job that was asked to stop is canceled, unless its worker is alive
\* after all and renews the lease.
LostCanceledJobSettles ==
  \A j \in JobIds :
    LeaseExpired(j) /\ jobs[j].canceled
      ~> JobExists(j) /\ (jobs[j].left > 0 \/ runs[jobs[j].run].state = "CANCELED")

\* docs/concepts/human-task-hold.md: "Run/operator cancellation ... Cancel the
\* task with `run_canceled`".
CancellationEndsHolds ==
  \A t \in HoldIds : Pending(t) => runs[tasks[t].run].state # "CANCELED"

\* docs/concepts/human-task-hold.md: a lost lease cancels the task because "Live
\* state can no longer continue".  The task of an attempt that does hold the lease
\* is not canceled by the request that waited for another attempt's task.
LiveHoldSurvives ==
  [][\A t \in HoldIds :
       LET j == tasks[t].job
       IN  /\ Pending(t)
           /\ ActivelyLeased(j, tasks[t].attempt)
           /\ t \notin giveUps
           /\ jobs'[j].state = "running"
           => tasks'[t].state # "canceled"]_vars
=============================================================================
