--------------------------- MODULE PostgresQueue ---------------------------
(***************************************************************************)
(* The run queue on PostgreSQL, one SQL statement at a time.               *)
(*                                                                         *)
(* Where LocalStore holds one file lock for a whole operation, the         *)
(* operations of PostgresStore are transactions of several statements at   *)
(* READ COMMITTED (withTx).  A statement sees what is committed when it    *)
(* runs plus the writes of its own transaction.  It waits for the rows it  *)
(* locks, and what it decided from an earlier statement may be out of date *)
(* when it continues.  A transaction shows nothing before it commits and   *)
(* may be rolled back at any statement: a lost connection, a canceled      *)
(* context, or the database's choice of a deadlock victim.                 *)
(*                                                                         *)
(* A run has one job here: resume and retry, which add a second, are left  *)
(* to RunQueue, with the held tasks and retention.  Time is reduced to     *)
(* whether a lease has run out and whether a row was last touched before   *)
(* the stuck cutoff; RunQueue's LeasedJobNotStuck relates the two.  A      *)
(* statement that locks several rows takes them together.  The lease names *)
(* the attempt only: attempts are unique (EveryClaimCounted).              *)
(* Where RunQueue has the same name for the local store, the one here      *)
(* begins with Pg.                                                         *)
(*                                                                         *)
(* Besides the rows of runs and jobs there is one more that everyone needs: *)
(* the trigger jobs_queue_snapshot_revision updates the only row of        *)
(* queue_snapshot_state after every statement that writes jobs, also one   *)
(* that matches no job.  The statement has locked its jobs by then, waits  *)
(* there for whoever holds that row, and keeps it until its transaction    *)
(* ends.                                                                   *)
(***************************************************************************)
EXTENDS Integers

CONSTANTS
  PgRunIds,
  Sessions,       \* connections of the pool that run a transaction
  MaxPgAttempts,  \* bound on the attempts of one job
  StuckSweep      \* whether the retention loop expires stuck runs (StuckAfter > 0)

ASSUME PoolAssumption == MaxPgAttempts \in Nat /\ StuckSweep \in BOOLEAN

VARIABLES
  runRows,  \* committed rows of runs
  jobRows,  \* committed rows of jobs, by run
  tx,       \* the transaction of each session
  claims    \* how often each job was handed to a worker

poolVars == <<runRows, jobRows, tx, claims>>

-----------------------------------------------------------------------------
(* Rows and transactions *)

PgTerminalStates == {"SUCCEEDED", "FAILED", "CANCELED", "EXPIRED"}

PgActiveStates == {"QUEUED", "RUNNING", "RESUMING"}

RunRow == [state : PgTerminalStates \cup PgActiveStates \cup {"absent", "WAITING_HUMAN"},
           stale : BOOLEAN]

JobRow == [state    : {"absent", "queued", "running", "succeeded", "failed"},
           attempt  : 0..MaxPgAttempts,
           lease    : {"none", "live", "expired"},
           canceled : BOOLEAN,
           stale    : BOOLEAN]

Outcomes == {"SUCCEEDED", "FAILED", "WAITING_HUMAN"}

\* The statement a transaction executes next; "idle" is no transaction.
Statements == {"idle", "claimCanceledRuns", "claimRequeue", "claimSelect",
               "claimRun", "completeRun", "cancelJobRun", "cancelJobWrite",
               "cancelRunJobs", "expireJobs", "expireRuns", "commit"}

\* The row of queue_snapshot_state: a transaction has nothing to do with it, is
\* in the trigger of its last statement and waits for it, or holds it.
SnapshotLock == {"none", "waits", "holds"}

\* A transaction: its next statement, the run it is about (if one), the outcome
\* it reports, the runs it has read as stuck, the rows it has locked, and the
\* rows it has written.
Idle == [next |-> "idle", run |-> {}, outcome |-> "FAILED", stuck |-> {},
         snapshot |-> "none", jobLocks |-> {}, runLocks |-> {},
         jobWrites |-> [r \in {} |-> 0], runWrites |-> [r \in {} |-> 0]]

JobFree(s, r) == \A t \in Sessions \ {s} : r \notin tx[t].jobLocks

RunFree(s, r) == \A t \in Sessions \ {s} : r \notin tx[t].runLocks

Over(table, writes) ==
  [r \in DOMAIN table |-> IF r \in DOMAIN writes THEN writes[r] ELSE table[r]]

\* What session s sees.
JobsOf(s) == Over(jobRows, tx[s].jobWrites)

RunsOf(s) == Over(runRows, tx[s].runWrites)

Merged(writes, more) ==
  [r \in DOMAIN writes \cup DOMAIN more |->
     IF r \in DOMAIN more THEN more[r] ELSE writes[r]]

\* Mutant: the row was read without FOR UPDATE.
WriteJobsUnlocked(t, more) == [t EXCEPT !.jobWrites = Merged(@, more)]

\* A statement that locks and writes the rows of more.
WriteJobs(t, more) ==
  [t EXCEPT !.jobLocks = @ \cup DOMAIN more, !.jobWrites = Merged(@, more)]

WriteRuns(t, more) ==
  [t EXCEPT !.runLocks = @ \cup DOMAIN more, !.runWrites = Merged(@, more)]

Fired(lock) == IF lock = "none" THEN "waits" ELSE lock

\* The trigger of a statement that writes jobs.
Fire(t) == [t EXCEPT !.snapshot = Fired(@)]

\* Session s has finished its last statement, trigger included, and comes to
\* the next one.
At(s, statement) == tx[s].next = statement /\ tx[s].snapshot # "waits"

\* Commit of transaction t of session s.
Commit(s, t) ==
  /\ jobRows' = Over(jobRows, t.jobWrites)
  /\ runRows' = Over(runRows, t.runWrites)
  /\ tx' = [tx EXCEPT ![s] = Idle]

\* The statement ends, the transaction goes on.
Continue(s, t, next) ==
  /\ tx' = [tx EXCEPT ![s] = [t EXCEPT !.next = next]]
  /\ UNCHANGED <<runRows, jobRows, claims>>

\* Mutant: a failed run can still be canceled.
PgIsTerminalDropsFailed(run) == run.state \in PgTerminalStates \ {"FAILED"}

PgIsTerminal(run) == run.state \in PgTerminalStates

RowActive(job) == job.state \in {"queued", "running"}

RunRowIn(state) == [state |-> state, stale |-> FALSE]

PgCanceledJob(job) ==   \* completeCanceledJob
  [job EXCEPT !.state = "failed", !.lease = "none", !.canceled = TRUE, !.stale = FALSE]

-----------------------------------------------------------------------------
(* bump_queue_snapshot_revision *)

SnapshotFree(s) == \A t \in Sessions \ {s} : tx[t].snapshot # "holds"

BumpQueueSnapshot(s) ==
  /\ tx[s].snapshot = "waits" /\ SnapshotFree(s)
  /\ tx' = [tx EXCEPT ![s] = [tx[s] EXCEPT !.snapshot = "holds"]]
  /\ UNCHANGED <<runRows, jobRows, claims>>

\* A transaction whose last statement was a write of jobs.
CommitTx(s) == At(s, "commit") /\ Commit(s, tx[s]) /\ UNCHANGED claims

-----------------------------------------------------------------------------
(* CreateRunAndEnqueue: nobody sees the rows before the commit *)

PgCreateRunAndEnqueue(r) ==
  /\ runRows[r].state = "absent"
  /\ \A s \in Sessions : tx[s].snapshot # "holds"
  /\ runRows' = [runRows EXCEPT ![r] = RunRowIn("QUEUED")]
  /\ jobRows' = [jobRows EXCEPT ![r].state = "queued"]
  /\ UNCHANGED <<tx, claims>>

-----------------------------------------------------------------------------
(* ClaimJobForWorkerScope *)

PgLeaseExpired(job) == job.state = "running" /\ job.lease = "expired"

\* SELECT the expired jobs that were asked to stop, FOR UPDATE.
ClaimCanceled(s) ==
  LET lost == {r \in PgRunIds : PgLeaseExpired(jobRows[r]) /\ jobRows[r].canceled}
  IN  /\ tx[s].next = "idle"
      /\ \A r \in lost : JobFree(s, r)
      /\ Continue(s, WriteJobs(tx[s], [r \in lost |-> PgCanceledJob(jobRows[r])]),
                  IF lost = {} THEN "claimRequeue" ELSE "claimCanceledRuns")

\* ... and their runs, one after the other: the run FOR UPDATE, an UPDATE of the
\* job, an UPDATE of the run.
ClaimCanceledRuns(s, r) ==
  LET lost == DOMAIN tx[s].jobWrites
      done == DOMAIN tx[s].runWrites
  IN  /\ At(s, "claimCanceledRuns")
      /\ r \in lost \ done /\ RunFree(s, r)
      /\ Continue(s, Fire(WriteRuns(tx[s], [q \in {r} |-> RunRowIn("CANCELED")])),
                  IF lost = done \cup {r} THEN "claimRequeue" ELSE "claimCanceledRuns")

\* Mutant: a job asked to stop goes back to the queue.
LostAlsoCanceled(job) == PgLeaseExpired(job)

Lost(job) == PgLeaseExpired(job) /\ ~job.canceled

\* UPDATE the other expired jobs back to the queue.
ClaimRequeue(s) ==
  LET lost == {r \in PgRunIds : Lost(JobsOf(s)[r])}
      back(job) == [job EXCEPT !.state = "queued", !.lease = "none", !.stale = FALSE]
  IN  /\ At(s, "claimRequeue")
      /\ \A r \in lost : JobFree(s, r)
      /\ Continue(s, Fire(WriteJobs(tx[s], [r \in lost |-> back(jobRows[r])])), "claimSelect")

Queued(s) == {r \in PgRunIds : JobsOf(s)[r].state = "queued"}

\* Mutant: SKIP LOCKED is dropped and nobody waits.
CandidatesUnlocked(s) == Queued(s)

\* SELECT ... FOR UPDATE SKIP LOCKED.
Candidates(s) == {r \in Queued(s) : JobFree(s, r)}

\* The candidates are locked, and one of them is claimed.
ClaimSelect(s, r) ==
  LET job     == JobsOf(s)[r]
      claimed == [job EXCEPT !.state = "running", !.attempt = @ + 1,
                             !.lease = "live", !.stale = FALSE]
  IN  /\ At(s, "claimSelect")
      /\ r \in Candidates(s)
      /\ job.attempt < MaxPgAttempts
      /\ Continue(s, [WriteJobs(tx[s], [q \in {r} |-> claimed])
                        EXCEPT !.jobLocks = @ \cup Candidates(s), !.run = {r}],
                  "claimRun")

\* Mutant: the error returns without ending the transaction.
ClaimNothingLeaks(s) ==
  /\ At(s, "claimSelect")
  /\ \A r \in Candidates(s) : JobsOf(s)[r].attempt = MaxPgAttempts
  /\ UNCHANGED poolVars

\* No candidate: ErrNoQueuedJob rolls the recovery back.
ClaimNothing(s) ==
  /\ At(s, "claimSelect")
  /\ \A r \in Candidates(s) : JobsOf(s)[r].attempt = MaxPgAttempts
  /\ tx' = [tx EXCEPT ![s] = Idle]
  /\ UNCHANGED <<runRows, jobRows, claims>>

\* UPDATE the run, INSERT the event (whose foreign key needs the run row even
\* when the UPDATE matches nothing), commit.  The UPDATE of the job fired the
\* trigger too; the transaction has held its row since the requeue.
ClaimRun(s, r) ==
  LET starts == {q \in {r} : RunsOf(s)[q].state \in {"QUEUED", "RESUMING"}}
  IN  /\ At(s, "claimRun") /\ tx[s].run = {r}
      /\ RunFree(s, r)
      /\ Commit(s, WriteRuns(tx[s], [q \in starts |-> RunRowIn("RUNNING")]))
      /\ claims' = [claims EXCEPT ![r] = @ + 1]

-----------------------------------------------------------------------------
(* HeartbeatJob: an UPDATE that also renews a lease that has run out.  One  *)
(* that owns nothing matches no row and only waits in the trigger.          *)

Owns(r, attempt) == jobRows[r].state = "running" /\ jobRows[r].attempt = attempt

PgHeartbeatJob(s, r, attempt) ==
  /\ tx[s].next = "idle" /\ JobFree(s, r)
  /\ Owns(r, attempt)
  /\ Continue(s, Fire(WriteJobs(tx[s],
                        [q \in {r} |-> [jobRows[r] EXCEPT !.lease = "live", !.stale = FALSE]])),
              "commit")

-----------------------------------------------------------------------------
(* CompleteJobSucceeded, CompleteJobFailed, CompleteJobWaitingHuman *)

PgSettledJob(job, outcome) ==
  [job EXCEPT !.state = IF outcome = "FAILED" THEN "failed" ELSE "succeeded",
              !.lease = "none", !.stale = FALSE]

\* leasedJobAndRunPostgres: the job FOR UPDATE, then the run FOR UPDATE.
CompleteJob(s, r, attempt, outcome) ==
  LET done == IF jobRows[r].canceled THEN PgCanceledJob(jobRows[r])
                                     ELSE PgSettledJob(jobRows[r], outcome)
  IN  /\ tx[s].next = "idle" /\ JobFree(s, r)
      /\ Owns(r, attempt) /\ jobRows[r].lease # "expired"
      /\ Continue(s, [WriteJobs(tx[s], [q \in {r} |-> done])
                        EXCEPT !.run = {r},
                               !.outcome = IF jobRows[r].canceled THEN "CANCELED" ELSE outcome],
                  "completeRun")

\* With both rows locked: the UPDATE of the job, then of the run.
CompleteRun(s, r) ==
  /\ At(s, "completeRun") /\ tx[s].run = {r}
  /\ RunFree(s, r)
  /\ Continue(s, Fire(WriteRuns(tx[s], [q \in {r} |-> RunRowIn(tx[s].outcome)])), "commit")

-----------------------------------------------------------------------------
(* CancelJob: the job FOR UPDATE, then the run FOR UPDATE *)

PgCancelJob(s, r) ==
  /\ tx[s].next = "idle" /\ JobFree(s, r)
  /\ jobRows[r].state # "absent"
  /\ Continue(s, [tx[s] EXCEPT !.jobLocks = {r}, !.run = {r}], "cancelJobRun")

CancelJobRun(s, r) ==
  LET over == PgIsTerminal(runRows[r]) \/ ~RowActive(jobRows[r])
      t    == [tx[s] EXCEPT !.runLocks = {r}]
  IN  /\ At(s, "cancelJobRun") /\ tx[s].run = {r}
      /\ RunFree(s, r)
      /\ \/ over /\ Commit(s, t) /\ UNCHANGED claims   \* AlreadyCompleted
         \/ ~over /\ Continue(s, Fire(t), "cancelJobWrite")

\* The UPDATE that the trigger followed.  The rows have been locked since before
\* it, so it is the same one here, where the lease is what it has become.
CancelJobWrite(s, r) ==
  LET job  == jobRows[r]
      soft == [job EXCEPT !.canceled = TRUE, !.stale = FALSE]
      t    == WriteJobs(tx[s], [q \in {r} |-> IF job.state = "running" THEN soft
                                                                       ELSE PgCanceledJob(job)])
  IN  /\ At(s, "cancelJobWrite") /\ tx[s].run = {r}
      /\ \/ job.state = "running" /\ Commit(s, t)
         \/ job.state = "queued" /\ Commit(s, WriteRuns(t, [q \in {r} |-> RunRowIn("CANCELED")]))
      /\ UNCHANGED claims

-----------------------------------------------------------------------------
(* CancelRun: the run FOR UPDATE, then an UPDATE of its active jobs *)

PgCancelRun(s, r) ==
  /\ tx[s].next = "idle" /\ RunFree(s, r)
  /\ runRows[r].state # "absent" /\ ~PgIsTerminal(runRows[r])
  /\ Continue(s, [WriteRuns(tx[s], [q \in {r} |-> RunRowIn("CANCELED")]) EXCEPT !.run = {r}],
              "cancelRunJobs")

\* Mutant: a job that someone else has locked is passed over.
UnlockedJobsToStop(s, r) == {q \in {r} : RowActive(jobRows[q]) /\ JobFree(s, q)}

JobsToStop(s, r) == {q \in {r} : RowActive(jobRows[q])}

CancelRunJobs(s, r) ==
  LET stop(job) == [job EXCEPT !.state = "failed", !.lease = "none", !.stale = FALSE]
      active    == JobsToStop(s, r)
  IN  /\ At(s, "cancelRunJobs") /\ tx[s].run = {r}
      /\ \A q \in active : JobFree(s, q)
      /\ Continue(s, Fire(WriteJobs(tx[s], [q \in active |-> stop(jobRows[q])])), "commit")

-----------------------------------------------------------------------------
(* ExpireStuckJobs *)

PgStuck(r) == runRows[r].state \in PgActiveStates /\ runRows[r].stale /\ jobRows[r].stale

\* CREATE TEMPORARY TABLE stuck_runs AS SELECT: reads, locks nothing.
ExpireSelect(s) ==
  LET stuck == {r \in PgRunIds : PgStuck(r)}
  IN  /\ StuckSweep
      /\ tx[s].next = "idle"
      /\ stuck # {}
      /\ Continue(s, [tx[s] EXCEPT !.stuck = stuck], "expireJobs")

ToExpire(s) == {r \in tx[s].stuck : jobRows[r].state \notin {"succeeded", "failed"}}

\* UPDATE the jobs of those runs that have not settled.
ExpireJobs(s) ==
  LET expire(job) == [job EXCEPT !.state = "failed", !.stale = FALSE]
  IN  /\ At(s, "expireJobs")
      /\ \A r \in ToExpire(s) : JobFree(s, r)
      /\ Continue(s, Fire(WriteJobs(tx[s], [r \in ToExpire(s) |-> expire(jobRows[r])])),
                  "expireRuns")

\* UPDATE the runs, by identifier only, and commit.
ExpireRuns(s) ==
  LET stuck == tx[s].stuck
  IN  /\ At(s, "expireRuns")
      /\ \A r \in stuck : RunFree(s, r)
      /\ Commit(s, WriteRuns(tx[s], [r \in stuck |-> RunRowIn("EXPIRED")]))
      /\ UNCHANGED claims

-----------------------------------------------------------------------------
(* Rollback and time *)

\* The rows the next statement of a transaction waits for.
NeedsJob(s, r) ==
  \/ At(s, "claimRequeue") /\ Lost(JobsOf(s)[r])
  \/ At(s, "cancelRunJobs") /\ r \in JobsToStop(s, r) /\ tx[s].run = {r}
  \/ At(s, "expireJobs") /\ r \in ToExpire(s)

NeedsRun(s, r) ==
  \/ At(s, "claimCanceledRuns") /\ r \in DOMAIN tx[s].jobWrites \ DOMAIN tx[s].runWrites
  \/ tx[s].run = {r} /\ \E st \in {"claimRun", "completeRun", "cancelJobRun"} : At(s, st)
  \/ At(s, "expireRuns") /\ r \in tx[s].stuck

WaitsFor(s, t) ==
  /\ s # t
  /\ \/ tx[s].snapshot = "waits" /\ tx[t].snapshot = "holds"
     \/ \E r \in PgRunIds : \/ NeedsJob(s, r) /\ r \in tx[t].jobLocks
                            \/ NeedsRun(s, r) /\ r \in tx[t].runLocks

\* s waits within a set of sessions none of which can go on without another.
Deadlocked(s) ==
  \E circle \in SUBSET Sessions :
    s \in circle /\ \A t \in circle : \E u \in circle : WaitsFor(t, u)

Rollback(s) ==
  /\ tx[s].next # "idle"
  /\ tx' = [tx EXCEPT ![s] = Idle]
  /\ UNCHANGED <<runRows, jobRows, claims>>

\* The database ends a deadlock by aborting one of the transactions in it.
AbortDeadlocked(s) == Deadlocked(s) /\ Rollback(s)

LeaseRunsOut(r) ==
  /\ jobRows[r].state = "running" /\ jobRows[r].lease = "live"
  /\ jobRows' = [jobRows EXCEPT ![r].lease = "expired"]
  /\ UNCHANGED <<runRows, tx, claims>>

\* The stuck cutoff passes the row's updated_at.  A job under a live lease was
\* touched more recently than that: the lease is shorter than StuckAfter.
JobGrowsStale(r) ==
  /\ jobRows[r].state = "queued" \/ PgLeaseExpired(jobRows[r])
  /\ ~jobRows[r].stale
  /\ jobRows' = [jobRows EXCEPT ![r].stale = TRUE]
  /\ UNCHANGED <<runRows, tx, claims>>

RunGrowsStale(r) ==
  /\ runRows[r].state \in PgActiveStates /\ ~runRows[r].stale
  /\ runRows' = [runRows EXCEPT ![r].stale = TRUE]
  /\ UNCHANGED <<jobRows, tx, claims>>

-----------------------------------------------------------------------------
PoolInit ==
  /\ runRows = [r \in PgRunIds |-> [state |-> "absent", stale |-> FALSE]]
  /\ jobRows = [r \in PgRunIds |-> [state |-> "absent", attempt |-> 0, lease |-> "none",
                                    canceled |-> FALSE, stale |-> FALSE]]
  /\ tx = [s \in Sessions |-> Idle]
  /\ claims = [r \in PgRunIds |-> 0]

\* The first statement of a transaction.
Begin(s) ==
  \/ ClaimCanceled(s)
  \/ \E r \in PgRunIds :
       \/ PgCancelJob(s, r)
       \/ PgCancelRun(s, r)
       \/ \E n \in 1..MaxPgAttempts :
            \/ PgHeartbeatJob(s, r, n)
            \/ \E o \in Outcomes : CompleteJob(s, r, n, o)
  \/ ExpireSelect(s)

\* A later statement.
Resume(s) ==
  \/ BumpQueueSnapshot(s)
  \/ CommitTx(s)
  \/ ClaimRequeue(s)
  \/ ClaimNothing(s)
  \/ \E r \in PgRunIds :
       \/ ClaimCanceledRuns(s, r) \/ ClaimSelect(s, r) \/ ClaimRun(s, r)
       \/ CompleteRun(s, r)
       \/ CancelJobRun(s, r) \/ CancelJobWrite(s, r)
       \/ CancelRunJobs(s, r)
  \/ ExpireJobs(s)
  \/ ExpireRuns(s)

Time == \E r \in PgRunIds : LeaseRunsOut(r) \/ JobGrowsStale(r) \/ RunGrowsStale(r)

PoolNext ==
  \/ \E r \in PgRunIds : PgCreateRunAndEnqueue(r)
  \/ \E s \in Sessions : Begin(s) \/ Resume(s) \/ Rollback(s) \/ AbortDeadlocked(s)
  \/ Time

SafetySpec == PoolInit /\ [][PoolNext]_poolVars

\* The database executes what it was sent: waiters are served in turn, so a
\* statement whose rows are free again and again gets them, and a deadlock is
\* broken.  No client is assumed to send anything.
PoolSpec ==
  /\ SafetySpec
  /\ \A s \in Sessions : SF_poolVars(Resume(s)) /\ WF_poolVars(AbortDeadlocked(s))

-----------------------------------------------------------------------------
(* Correctness *)

\* The committed rows, and the rows a transaction is about to commit, have the
\* types of their columns; a transaction writes only what it has locked.
PgTypeOK ==
  /\ runRows \in [PgRunIds -> RunRow]
  /\ jobRows \in [PgRunIds -> JobRow]
  /\ claims \in [PgRunIds -> Nat]
  /\ \A s \in Sessions :
       LET t == tx[s]
       IN  /\ t.next \in Statements /\ t.snapshot \in SnapshotLock
           /\ t.jobLocks \cup t.runLocks \cup t.run \cup t.stuck \subseteq PgRunIds
           /\ DOMAIN t.jobWrites \subseteq t.jobLocks
           /\ DOMAIN t.runWrites \subseteq t.runLocks
           /\ \A r \in DOMAIN t.jobWrites : t.jobWrites[r] \in JobRow
           /\ \A r \in DOMAIN t.runWrites : t.runWrites[r] \in RunRow

\* Whatever transactions overlapped, gave up or were aborted, the committed run
\* and its committed job agree on whether there is work to do.
RowsAgree ==
  \A r \in PgRunIds :
    /\ runRows[r].state \in PgActiveStates <=> RowActive(jobRows[r])
    /\ jobRows[r].state = "running" => runRows[r].state = "RUNNING"

\* Every claim that committed has an attempt number of its own: two workers that
\* poll at once never get the same job.
EveryClaimCounted == \A r \in PgRunIds : claims[r] = jobRows[r].attempt

\* A job that was asked to stop never returns to the queue and never succeeds,
\* also when the request, the completion and the recovery of its lease overlap.
PgCanceledJobNeverRuns ==
  \A r \in PgRunIds : jobRows[r].canceled => jobRows[r].state \in {"running", "failed"}

\* Every transaction ends: CancelRun locks the run before the job, everyone else
\* the job before the run, all of them wait for the row of the trigger with
\* their jobs locked and keep it while they wait for the next job or run, and
\* still nobody waits for ever.
TransactionEnds == \A s \in Sessions : tx[s].next # "idle" ~> tx[s].next = "idle"

PgLifecycle ==
  INSTANCE RunLifecycle WITH RunIds <- PgRunIds, phase <- [r \in PgRunIds |-> runRows[r].state]

\* The committed runs follow the published lifecycle, with one exception: the
\* sweep, whose last statement names the runs by identifier only, may expire a
\* run in any state (see LeasedJobNotExpired).
PgFollowsLifecycle ==
  [][\A r \in PgRunIds :
       \/ runRows'[r].state \in {runRows[r].state, "EXPIRED"}
       \/ <<runRows[r].state, runRows'[r].state>> \in PgLifecycle!Edges]_poolVars

-----------------------------------------------------------------------------
(* A statement of the repository that the code does not meet *)

\* ExpireStuckJobs: "Heartbeats refresh jobs.updated_at, so actively leased jobs
\* are never stuck": no commit of the sweep expires a run whose job is under a
\* live lease.
LeasedJobNotExpired ==
  [][\A r \in PgRunIds :
       jobRows[r].state = "running" /\ jobRows[r].lease = "live" =>
         runRows'[r].state # "EXPIRED"]_poolVars
=============================================================================
