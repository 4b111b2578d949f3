------------------------ MODULE PostgresQueueProofs ------------------------
(***************************************************************************)
(* Proofs, for every number of runs, connections and attempts, that the    *)
(* overlapping transactions of PostgresQueue leave the committed rows in   *)
(* agreement.                                                              *)
(***************************************************************************)
EXTENDS PostgresQueue, TLAPS

-----------------------------------------------------------------------------
(* The inductive invariant *)

Settled == {"succeeded", "failed"}

\* The committed rows of one run, and the number of times its job was claimed.
RowOK(run, job, n) ==
  /\ run.state \in PgActiveStates <=> RowActive(job)
  /\ job.state = "running" => run.state = "RUNNING"
  /\ run.state = "absent" <=> job.state = "absent"
  /\ job.canceled => job.state \in {"running", "failed"}
  /\ n = job.attempt

Rows ==
  /\ runRows \in [PgRunIds -> RunRow]
  /\ jobRows \in [PgRunIds -> JobRow]
  /\ claims \in [PgRunIds -> Nat]
  /\ \A r \in PgRunIds : RowOK(runRows[r], jobRows[r], claims[r])

\* w is a record of a transaction.
IsTx(w) ==
  /\ DOMAIN w = {"next", "run", "outcome", "stuck", "snapshot", "jobLocks", "runLocks",
                 "jobWrites", "runWrites"}
  /\ w = [i \in DOMAIN w |-> w[i]]
  /\ w.snapshot \in SnapshotLock

\* A transaction writes rows of their type, and only rows it has locked.
TxTypes(t) ==
  /\ IsTx(t)
  /\ t.next \in Statements
  /\ t.jobLocks \subseteq PgRunIds /\ t.runLocks \subseteq PgRunIds
  /\ t.run \subseteq PgRunIds /\ t.stuck \subseteq PgRunIds
  /\ DOMAIN t.jobWrites \subseteq t.jobLocks
  /\ DOMAIN t.runWrites \subseteq t.runLocks
  /\ \A r \in DOMAIN t.jobWrites : t.jobWrites[r] \in JobRow
  /\ \A r \in DOMAIN t.runWrites : t.runWrites[r] \in RunRow

\* In what follows t is a transaction, js and rs are the committed jobs and runs.

\* What a transaction writes to a job: it keeps the attempt, never revives a
\* settled job and never requeues one that was asked to stop.
JobWriteOK(t, r, js) ==
  LET new == t.jobWrites[r]
  IN  /\ new.state # "absent"
      /\ RowActive(new) => RowActive(js[r])
      /\ new.canceled => new.state \in {"running", "failed"}
      /\ new.attempt = IF t.next = "claimRun" /\ r \in t.run THEN js[r].attempt + 1
                                                             ELSE js[r].attempt

\* What a transaction has done before its next statement.
Idling(t) == t = Idle

ClaimCancels(t, js) ==
  /\ DOMAIN t.runWrites \subseteq DOMAIN t.jobWrites
  /\ \A r \in DOMAIN t.jobWrites : js[r].state = "running" /\ t.jobWrites[r].state = "failed"
  /\ \A r \in DOMAIN t.runWrites : t.runWrites[r].state = "CANCELED"

Claiming(t, js) ==
  /\ DOMAIN t.runWrites \subseteq DOMAIN t.jobWrites
  /\ \A r \in DOMAIN t.runWrites :
       /\ js[r].state = "running"
       /\ t.jobWrites[r].state = "failed" /\ t.runWrites[r].state = "CANCELED"
  /\ \A r \in DOMAIN t.jobWrites \ DOMAIN t.runWrites :
       t.jobWrites[r].state = IF t.next = "claimRun" /\ r \in t.run THEN "running" ELSE "queued"

ClaimEnds(t) ==
  \E r \in PgRunIds : t.run = {r} /\ r \in DOMAIN t.jobWrites \ DOMAIN t.runWrites

Completing(t, js) ==
  /\ t.outcome \in Outcomes \cup {"CANCELED"}
  /\ DOMAIN t.runWrites = {}
  /\ \E r \in PgRunIds : /\ t.run = {r} /\ DOMAIN t.jobWrites = {r}
                         /\ js[r].state = "running" /\ t.jobWrites[r].state \in Settled

CancelingJob(t) ==
  /\ DOMAIN t.jobWrites = {} /\ DOMAIN t.runWrites = {}
  /\ t.run \subseteq t.jobLocks

CancelingRun(t, rs) ==
  /\ DOMAIN t.jobWrites = {}
  /\ \E r \in PgRunIds : /\ t.run = {r} /\ DOMAIN t.runWrites = {r}
                         /\ t.runWrites[r].state = "CANCELED"
                         /\ rs[r].state \notin PgTerminalStates \cup {"absent"}

ExpiringJobs(t) == DOMAIN t.jobWrites = {} /\ DOMAIN t.runWrites = {}

ExpiringRuns(t, js) ==
  /\ DOMAIN t.runWrites = {}
  /\ DOMAIN t.jobWrites \subseteq t.stuck
  /\ \A r \in DOMAIN t.jobWrites : t.jobWrites[r].state = "failed"
  /\ \A r \in t.stuck \ DOMAIN t.jobWrites : js[r].state \in Settled

Moves(from, to) == to \in {from, "EXPIRED"} \/ <<from, to>> \in PgLifecycle!Edges

\* Ready to commit: a job written without its run is running, as before; a run is
\* written together with its settled job, or its job has settled already; and
\* the lifecycle allows what is written to a run.
Committing(t, js, rs) ==
  /\ \A r \in DOMAIN t.jobWrites \ DOMAIN t.runWrites :
       js[r].state = "running" /\ t.jobWrites[r].state = "running"
  /\ \A r \in DOMAIN t.jobWrites \cap DOMAIN t.runWrites : t.jobWrites[r].state \in Settled
  /\ \A r \in DOMAIN t.runWrites \ DOMAIN t.jobWrites : js[r].state \in Settled
  /\ \A r \in DOMAIN t.runWrites :
       /\ t.runWrites[r].state \in PgTerminalStates \cup {"WAITING_HUMAN"}
       /\ rs[r].state # "absent" /\ Moves(rs[r].state, t.runWrites[r].state)

Progress(t, js, rs) ==
  /\ t.next = "idle" => Idling(t)
  /\ t.next = "claimCanceledRuns" => ClaimCancels(t, js)
  /\ t.next \in {"claimRequeue", "claimSelect", "claimRun"} => Claiming(t, js)
  /\ t.next = "claimRequeue" => DOMAIN t.jobWrites = DOMAIN t.runWrites
  /\ t.next = "claimRun" => ClaimEnds(t)
  /\ t.next = "completeRun" => Completing(t, js)
  /\ t.next \in {"cancelJobRun", "cancelJobWrite"} => CancelingJob(t)
  /\ t.next = "cancelJobWrite" => t.run \subseteq t.runLocks
  /\ t.next = "cancelRunJobs" => CancelingRun(t, rs)
  /\ t.next = "expireJobs" => ExpiringJobs(t)
  /\ t.next = "expireRuns" => ExpiringRuns(t, js)
  /\ t.next = "commit" => Committing(t, js, rs)

SessionOK(t, js, rs) ==
  /\ TxTypes(t)
  /\ \A r \in DOMAIN t.jobWrites : JobWriteOK(t, r, js)
  /\ Progress(t, js, rs)

\* A row is locked by one session at a time.
LocksExclusive ==
  \A s, t \in Sessions : s # t =>
    /\ tx[s].jobLocks \cap tx[t].jobLocks = {}
    /\ tx[s].runLocks \cap tx[t].runLocks = {}

PoolInv ==
  /\ Rows
  /\ tx = [s \in Sessions |-> tx[s]]
  /\ \A s \in Sessions : SessionOK(tx[s], jobRows, runRows)
  /\ LocksExclusive
-----------------------------------------------------------------------------
(* Records *)

\* v is the transaction with these fields.
TxIs(v, next, run, outcome, stuck, jobLocks, runLocks, jobWrites, runWrites) ==
  /\ IsTx(v)
  /\ v.next = next /\ v.run = run /\ v.outcome = outcome /\ v.stuck = stuck
  /\ v.jobLocks = jobLocks /\ v.runLocks = runLocks
  /\ v.jobWrites = jobWrites /\ v.runWrites = runWrites

\* Moving a transaction to its next statement changes nothing else of it.
LEMMA TxNext ==
  ASSUME NEW w, IsTx(w), NEW next
  PROVE  TxIs([w EXCEPT !.next = next], next, w.run, w.outcome, w.stuck,
              w.jobLocks, w.runLocks, w.jobWrites, w.runWrites)
BY DEF IsTx, TxIs

\* Nor does the trigger.
LEMMA TxFire ==
  ASSUME NEW w, IsTx(w)
  PROVE  TxIs(Fire(w), w.next, w.run, w.outcome, w.stuck, w.jobLocks, w.runLocks,
              w.jobWrites, w.runWrites)
<1>1. Fired(w.snapshot) \in SnapshotLock
  BY DEF IsTx, Fired, SnapshotLock
<1>. QED
  BY <1>1 DEF IsTx, TxIs, Fire

\* A statement that fires the trigger, seen as one that does not.
LEMMA TxFireNext ==
  ASSUME NEW w, IsTx(w), NEW next
  PROVE  /\ IsTx(Fire(w))
         /\ Fire(w).jobLocks = w.jobLocks /\ Fire(w).runLocks = w.runLocks
         /\ TxIs([Fire(w) EXCEPT !.next = next], next, w.run, w.outcome, w.stuck,
                 w.jobLocks, w.runLocks, w.jobWrites, w.runWrites)
<1>1. TxIs(Fire(w), w.next, w.run, w.outcome, w.stuck, w.jobLocks, w.runLocks,
           w.jobWrites, w.runWrites)
  BY TxFire
<1>. QED
  BY <1>1, TxNext DEF TxIs

\* What the statements make of a job: the local definitions of ClaimRequeue,
\* ClaimSelect, CancelJobRun, CancelRunJobs and ExpireJobs.
Requeued(job) == [job EXCEPT !.state = "queued", !.lease = "none", !.stale = FALSE]

Claimed(job) == [job EXCEPT !.state = "running", !.attempt = @ + 1, !.lease = "live",
                            !.stale = FALSE]

AskedToStop(job) == [job EXCEPT !.canceled = TRUE, !.stale = FALSE]

Stopped(job) == [job EXCEPT !.state = "failed", !.lease = "none", !.stale = FALSE]

ExpiredJob(job) == [job EXCEPT !.state = "failed", !.stale = FALSE]

\* new is job with another state, or none but its times changed.
KeepsAttempt(new, job, states) ==
  new \in JobRow /\ new.state \in states /\ new.attempt = job.attempt

(* Every update of a job but the claim leaves its attempt as it is. *)
LEMMA JobUpdates ==
  ASSUME NEW job \in JobRow
  PROVE  /\ KeepsAttempt(PgCanceledJob(job), job, {"failed"})
         /\ KeepsAttempt(Stopped(job), job, {"failed"})
         /\ KeepsAttempt(ExpiredJob(job), job, {"failed"})
         /\ KeepsAttempt(AskedToStop(job), job, {job.state})
         /\ KeepsAttempt(Requeued(job), job, {"queued"})
         /\ Requeued(job).canceled = job.canceled
         /\ \A outcome : /\ KeepsAttempt(PgSettledJob(job, outcome), job, Settled)
                         /\ PgSettledJob(job, outcome).canceled = job.canceled
BY DEF JobRow, PgCanceledJob, PgSettledJob, Stopped, ExpiredJob, AskedToStop, Requeued, KeepsAttempt,
       Settled

(* A claim counts one more attempt and keeps the cancellation. *)
LEMMA ClaimedJob ==
  ASSUME NEW job \in JobRow, job.attempt < MaxPgAttempts
  PROVE  /\ Claimed(job) \in JobRow /\ Claimed(job).state = "running"
         /\ Claimed(job).attempt = job.attempt + 1
         /\ Claimed(job).canceled = job.canceled
<1>. DEFINE n == job.attempt + 1
<1>1. n \in 0..MaxPgAttempts
  BY PoolAssumption DEF JobRow
<1>. QED
  BY <1>1 DEF JobRow, Claimed

(* A session without a transaction holds no lock and has written nothing. *)
LEMMA IdleFields ==
  /\ TxIs(Idle, "idle", {}, "FAILED", {}, {}, {}, [r \in {} |-> 0], [r \in {} |-> 0])
  /\ DOMAIN Idle.jobWrites = {} /\ DOMAIN Idle.runWrites = {}
BY DEF Idle, TxIs, IsTx, SnapshotLock

-----------------------------------------------------------------------------
(* What other sessions do to a transaction *)

\* A step from js and rs to js2 and rs2 as transaction t sees it: the rows it
\* has locked keep their state, and no settled job is revived.
RowsStep(t, js, rs, js2, rs2) ==
  /\ \A r \in t.jobLocks : /\ js2[r].state = js[r].state \/ js[r].state = "absent"
                           /\ js2[r].attempt = js[r].attempt
  /\ \A r \in t.runLocks : rs2[r].state = rs[r].state \/ rs[r].state = "absent"
  /\ \A r \in PgRunIds : js[r].state \in Settled => js2[r].state \in Settled

\* Such a step leaves what the transaction has read and written valid: this is
\* what FOR UPDATE is for.
LEMMA OtherSession ==
  ASSUME NEW t, NEW js, NEW rs, NEW js2, NEW rs2,
         SessionOK(t, js, rs), RowsStep(t, js, rs, js2, rs2)
  PROVE  SessionOK(t, js2, rs2)
<1>1. \A r \in DOMAIN t.jobWrites : JobWriteOK(t, r, js2)
  BY DEF SessionOK, RowsStep, TxTypes, JobWriteOK, RowActive
<1>2. ClaimCancels(t, js) => ClaimCancels(t, js2)
  BY DEF SessionOK, RowsStep, TxTypes, ClaimCancels
<1>3. Claiming(t, js) => Claiming(t, js2)
  BY DEF SessionOK, RowsStep, TxTypes, Claiming
<1>4. Completing(t, js) => Completing(t, js2)
  BY DEF SessionOK, RowsStep, TxTypes, Completing
<1>5. CancelingRun(t, rs) => CancelingRun(t, rs2)
  BY DEF SessionOK, RowsStep, TxTypes, CancelingRun
<1>6. ExpiringRuns(t, js) => ExpiringRuns(t, js2)
  BY DEF SessionOK, RowsStep, TxTypes, ExpiringRuns
<1>7. Committing(t, js, rs) => Committing(t, js2, rs2)
  BY DEF SessionOK, RowsStep, TxTypes, Committing
<1>. QED
  BY <1>1, <1>2, <1>3, <1>4, <1>5, <1>6, <1>7 DEF SessionOK, Progress

\* A session has its locks to itself.
LEMMA OwnLocks ==
  ASSUME PoolInv, NEW s \in Sessions
  PROVE  /\ \A r \in tx[s].jobLocks : JobFree(s, r)
         /\ \A r \in tx[s].runLocks : RunFree(s, r)
BY DEF PoolInv, LocksExclusive, JobFree, RunFree

\* A statement in the middle of a transaction.
LEMMA StatementKeeps ==
  ASSUME PoolInv, NEW s \in Sessions, NEW w, NEW n, IsTx(w), Continue(s, w, n),
         SessionOK([w EXCEPT !.next = n], jobRows, runRows),
         \A r \in w.jobLocks : JobFree(s, r),
         \A r \in w.runLocks : RunFree(s, r)
  PROVE  PoolInv'
<1>. DEFINE v == [w EXCEPT !.next = n]
<1>1. /\ tx' = [tx EXCEPT ![s] = v]
      /\ runRows' = runRows /\ jobRows' = jobRows /\ claims' = claims
  BY DEF Continue
<1>2. v.jobLocks = w.jobLocks /\ v.runLocks = w.runLocks
  BY TxNext DEF TxIs
<1>. HIDE DEF v
<1>3. tx'[s] = v /\ \A t \in Sessions \ {s} : tx'[t] = tx[t]
  BY <1>1 DEF PoolInv
<1>4. LocksExclusive'
  BY <1>2, <1>3 DEF PoolInv, LocksExclusive, JobFree, RunFree
<1>5. \A t \in Sessions : SessionOK(tx'[t], jobRows', runRows')
  BY <1>1, <1>3 DEF PoolInv, v
<1>6. Rows'
  BY <1>1 DEF PoolInv, Rows
<1>7. tx' = [t \in Sessions |-> tx'[t]]
  BY <1>1 DEF PoolInv
<1>. QED
  BY <1>4, <1>5, <1>6, <1>7 DEF PoolInv

\* A rollback.
LEMMA IdleOK ==
  ASSUME NEW js, NEW rs
  PROVE  SessionOK(Idle, js, rs)
BY IdleFields DEF TxIs, SessionOK, TxTypes, Progress, Idling, Statements

\* A session ends its transaction; the rows step as the other sessions allow.
LEMMA EndKeeps ==
  ASSUME PoolInv, NEW s \in Sessions, tx' = [tx EXCEPT ![s] = Idle], Rows',
         \A t \in Sessions \ {s} : RowsStep(tx[t], jobRows, runRows, jobRows', runRows')
  PROVE  PoolInv'
<1>3. tx'[s] = Idle /\ \A t \in Sessions \ {s} : tx'[t] = tx[t]
  BY DEF PoolInv
<1>4. LocksExclusive'
  BY <1>3, IdleFields DEF PoolInv, LocksExclusive, TxIs
<1>5. \A t \in Sessions : SessionOK(tx'[t], jobRows', runRows')
  BY <1>3, IdleOK, OtherSession DEF PoolInv
<1>7. tx' = [t \in Sessions |-> tx'[t]]
  BY DEF PoolInv
<1>. QED
  BY <1>4, <1>5, <1>7 DEF PoolInv

\* A commit of w, whose rows nobody else has locked.
LEMMA CommitKeeps ==
  ASSUME PoolInv, NEW s \in Sessions, NEW w, Commit(s, w),
         DOMAIN w.jobWrites \subseteq PgRunIds, DOMAIN w.runWrites \subseteq PgRunIds,
         \A r \in DOMAIN w.jobWrites :
           /\ JobFree(s, r) /\ w.jobWrites[r] \in JobRow /\ w.jobWrites[r].state # "absent"
           /\ RowActive(w.jobWrites[r]) => RowActive(jobRows[r]),
         \A r \in DOMAIN w.runWrites : RunFree(s, r) /\ w.runWrites[r] \in RunRow,
         claims' \in [PgRunIds -> Nat],
         \A r \in PgRunIds :
           RowOK(IF r \in DOMAIN w.runWrites THEN w.runWrites[r] ELSE runRows[r],
                 IF r \in DOMAIN w.jobWrites THEN w.jobWrites[r] ELSE jobRows[r], claims'[r])
  PROVE  PoolInv'
<1>0. runRows \in [PgRunIds -> RunRow] /\ jobRows \in [PgRunIds -> JobRow]
  BY DEF PoolInv, Rows
<1>1. /\ jobRows' \in [PgRunIds -> JobRow]
      /\ \A r \in PgRunIds : jobRows'[r] = IF r \in DOMAIN w.jobWrites THEN w.jobWrites[r] ELSE jobRows[r]
  BY <1>0 DEF Commit, Over
<1>2. /\ runRows' \in [PgRunIds -> RunRow]
      /\ \A r \in PgRunIds : runRows'[r] = IF r \in DOMAIN w.runWrites THEN w.runWrites[r] ELSE runRows[r]
  BY <1>0 DEF Commit, Over
<1>3. Rows'
  BY <1>1, <1>2 DEF Rows
<1>4. ASSUME NEW t \in Sessions \ {s}
      PROVE  RowsStep(tx[t], jobRows, runRows, jobRows', runRows')
  <2>1. tx[t].jobLocks \subseteq PgRunIds /\ tx[t].runLocks \subseteq PgRunIds
    BY DEF PoolInv, SessionOK, TxTypes
  <2>2. /\ \A r \in tx[t].jobLocks : jobRows'[r] = jobRows[r]
        /\ \A r \in tx[t].runLocks : runRows'[r] = runRows[r]
    BY <1>1, <1>2, <2>1 DEF JobFree, RunFree
  <2>3. \A r \in PgRunIds : jobRows[r].state \in Settled => jobRows'[r].state \in Settled
    BY <1>0, <1>1 DEF JobRow, RowActive, Settled
  <2>. QED
    BY <2>2, <2>3 DEF RowsStep
<1>. QED
  BY <1>3, <1>4, EndKeeps DEF Commit
-----------------------------------------------------------------------------
(* The transactions, one lemma per statement *)

\* The steps that commits take.
LEMMA CommittedMoves ==
  /\ Moves("absent", "QUEUED")
  /\ \A p \in {"QUEUED", "RESUMING"} : Moves(p, "RUNNING")
  /\ \A p \in Outcomes \cup {"CANCELED"} : Moves("RUNNING", p)
  /\ \A p \in PgActiveStates \cup {"WAITING_HUMAN"} : Moves(p, "CANCELED")
  /\ \A p : Moves(p, p) /\ Moves(p, "EXPIRED")
BY DEF Moves, PgLifecycle!Edges, Outcomes, PgActiveStates

\* What a statement of session s may rely on.
LEMMA SessionFacts ==
  ASSUME PoolInv, NEW s \in Sessions
  PROVE  /\ runRows \in [PgRunIds -> RunRow] /\ jobRows \in [PgRunIds -> JobRow] /\ claims \in [PgRunIds -> Nat]
         /\ \A r \in PgRunIds : runRows[r] \in RunRow /\ jobRows[r] \in JobRow
         /\ \A r \in PgRunIds : RowOK(runRows[r], jobRows[r], claims[r])
         /\ SessionOK(tx[s], jobRows, runRows) /\ TxTypes(tx[s]) /\ IsTx(tx[s])
         /\ tx[s].next = "idle" => tx[s] = Idle
BY DEF PoolInv, Rows, SessionOK, TxTypes, Progress, Idling

(* The claim settles the lost jobs that were asked to stop, in its transaction. *)
LEMMA ClaimCanceledKeeps ==
  ASSUME PoolInv, NEW s \in Sessions, ClaimCanceled(s)
  PROVE  PoolInv'
<1>. DEFINE lost == {r \in PgRunIds : PgLeaseExpired(jobRows[r]) /\ jobRows[r].canceled}
            more == [r \in lost |-> PgCanceledJob(jobRows[r])]
            n    == IF lost = {} THEN "claimRequeue" ELSE "claimCanceledRuns"
            w    == WriteJobs(tx[s], more)
            v    == [w EXCEPT !.next = n]
<1>0. tx[s] = Idle /\ \A r \in PgRunIds : jobRows[r] \in JobRow
  BY SessionFacts DEF ClaimCanceled
<1>m. DOMAIN more = lost /\ \A r \in lost : more[r] = PgCanceledJob(jobRows[r])
  OBVIOUS
<1>8. Continue(s, w, n) /\ \A r \in lost : JobFree(s, r)
  BY DEF ClaimCanceled
<1>3. \A r \in lost : /\ more[r] \in JobRow /\ more[r].state = "failed"
                      /\ more[r].attempt = jobRows[r].attempt
                      /\ jobRows[r].state = "running" /\ r \in PgRunIds
  BY <1>0, <1>m, JobUpdates DEF PgLeaseExpired, KeepsAttempt
<1>n. /\ n \in {"claimRequeue", "claimCanceledRuns"}
      /\ n = "claimRequeue" => lost = {}
  OBVIOUS
<1>. HIDE DEF more, lost, n
<1>1. /\ IsTx(w) /\ w.jobLocks = lost /\ w.runLocks = {}
      /\ TxIs(v, n, {}, "FAILED", {}, lost, {}, Merged(Idle.jobWrites, more), Idle.runWrites)
  BY <1>0, <1>m, IdleFields DEF TxIs, IsTx, WriteJobs
<1>. HIDE DEF v, w
<1>2. /\ DOMAIN v.jobWrites = lost /\ DOMAIN v.runWrites = {}
      /\ \A r \in lost : v.jobWrites[r] = more[r]
  BY <1>1, <1>m, IdleFields DEF TxIs, Merged
<1>4. TxTypes(v)
  BY <1>1, <1>2, <1>3, <1>n DEF TxTypes, TxIs, Statements
<1>5. \A r \in lost : JobWriteOK(v, r, jobRows)
  BY <1>1, <1>2, <1>3, <1>n DEF JobWriteOK, TxIs, RowActive
<1>6. Progress(v, jobRows, runRows)
  BY <1>1, <1>2, <1>3, <1>n DEF Progress, TxIs, ClaimCancels, Claiming
<1>7. SessionOK(v, jobRows, runRows)
  BY <1>2, <1>4, <1>5, <1>6 DEF SessionOK
<1>. QED
  BY <1>1, <1>7, <1>8, StatementKeeps DEF v

(* The claim cancels the run of a job it settled. *)
LEMMA ClaimCanceledRunsKeeps ==
  ASSUME PoolInv, NEW s \in Sessions, NEW r \in PgRunIds, ClaimCanceledRuns(s, r)
  PROVE  PoolInv'
<1>. DEFINE t    == tx[s]
            lost == DOMAIN t.jobWrites
            done == DOMAIN t.runWrites
            n    == IF lost = done \cup {r} THEN "claimRequeue" ELSE "claimCanceledRuns"
            more == [q \in {r} |-> RunRowIn("CANCELED")]
            u    == WriteRuns(t, more)
            w    == Fire(u)
            v    == [w EXCEPT !.next = n]
<1>0. /\ SessionOK(t, jobRows, runRows) /\ TxTypes(t) /\ IsTx(t)
      /\ t.next = "claimCanceledRuns" /\ ClaimCancels(t, jobRows)
  BY SessionFacts DEF ClaimCanceledRuns, At, SessionOK, Progress
<1>m. DOMAIN more = {r} /\ more[r] = RunRowIn("CANCELED")
  OBVIOUS
<1>8. Continue(s, w, n) /\ RunFree(s, r) /\ r \in lost
  BY DEF ClaimCanceledRuns
<1>n. /\ n \in {"claimRequeue", "claimCanceledRuns"}
      /\ n = "claimRequeue" => lost = done \cup {r}
  OBVIOUS
<1>. HIDE DEF more, n
<1>u. /\ IsTx(u) /\ u.jobLocks = t.jobLocks /\ u.runLocks = t.runLocks \cup {r}
      /\ TxIs(u, t.next, t.run, t.outcome, t.stuck, t.jobLocks, t.runLocks \cup {r},
              t.jobWrites, Merged(t.runWrites, more))
  BY <1>0, <1>m DEF TxIs, IsTx, WriteJobs, WriteRuns
<1>. HIDE DEF u
<1>1. /\ IsTx(w) /\ w.jobLocks = t.jobLocks /\ w.runLocks = t.runLocks \cup {r}
      /\ TxIs(v, n, t.run, t.outcome, t.stuck, t.jobLocks, t.runLocks \cup {r},
              t.jobWrites, Merged(t.runWrites, more))
  BY <1>u, TxFireNext DEF TxIs
<1>. HIDE DEF v, w
<1>3. RunRowIn("CANCELED") \in RunRow /\ RunRowIn("CANCELED").state = "CANCELED"
  BY DEF RunRowIn, RunRow, PgTerminalStates
<1>2. /\ DOMAIN v.runWrites = done \cup {r}
      /\ \A q \in done \cup {r} : v.runWrites[q] \in RunRow /\ v.runWrites[q].state = "CANCELED"
  BY <1>0, <1>1, <1>3, <1>m DEF TxIs, Merged, ClaimCancels, TxTypes
<1>4. TxTypes(v)
  BY <1>0, <1>1, <1>2, <1>n DEF TxTypes, TxIs, Statements
<1>5. \A q \in lost : JobWriteOK(v, q, jobRows)
  BY <1>0, <1>1, <1>n DEF JobWriteOK, TxIs, SessionOK
<1>6. Progress(v, jobRows, runRows)
  BY <1>0, <1>1, <1>2, <1>8, <1>n DEF Progress, TxIs, ClaimCancels, Claiming
<1>7. SessionOK(v, jobRows, runRows)
  BY <1>1, <1>4, <1>5, <1>6 DEF SessionOK, TxIs
<1>9. /\ \A q \in w.jobLocks : JobFree(s, q)
      /\ \A q \in w.runLocks : RunFree(s, q)
  BY <1>1, <1>8, OwnLocks
<1>. QED
  BY <1>1, <1>7, <1>8, <1>9, StatementKeeps DEF v

(* The claim puts the other lost jobs back into the queue. *)
LEMMA ClaimRequeueKeeps ==
  ASSUME PoolInv, NEW s \in Sessions, ClaimRequeue(s)
  PROVE  PoolInv'
<1>. DEFINE t    == tx[s]
            lost == {r \in PgRunIds : Lost(JobsOf(s)[r])}
            more == [r \in lost |-> Requeued(jobRows[r])]
            u    == WriteJobs(t, more)
            w    == Fire(u)
            v    == [w EXCEPT !.next = "claimSelect"]
<1>0. /\ SessionOK(t, jobRows, runRows) /\ TxTypes(t) /\ IsTx(t)
      /\ t.next = "claimRequeue" /\ Claiming(t, jobRows) /\ DOMAIN t.jobWrites = DOMAIN t.runWrites
      /\ jobRows \in [PgRunIds -> JobRow] /\ \A r \in PgRunIds : jobRows[r] \in JobRow
  BY SessionFacts DEF ClaimRequeue, At, SessionOK, Progress
\* A job this transaction has settled is not lost.
<1>2. \A r \in lost : r \in PgRunIds /\ r \notin DOMAIN t.jobWrites /\ Lost(jobRows[r])
  BY <1>0 DEF JobsOf, Over, Lost, PgLeaseExpired, Claiming
<1>m. /\ DOMAIN more = lost
      /\ \A r \in lost : more[r] = Requeued(jobRows[r])
  OBVIOUS
<1>6. Continue(s, w, "claimSelect") /\ \A r \in lost : JobFree(s, r)
  BY DEF ClaimRequeue, Requeued
<1>. HIDE DEF more, lost
<1>4. ASSUME NEW r \in lost
      PROVE  /\ more[r] \in JobRow /\ more[r].state = "queued"
             /\ more[r].attempt = jobRows[r].attempt
             /\ ~more[r].canceled /\ jobRows[r].state = "running"
  <2>1. jobRows[r] \in JobRow /\ jobRows[r].state = "running" /\ ~jobRows[r].canceled
    BY <1>0, <1>2 DEF Lost, PgLeaseExpired
  <2>. QED
    BY <1>m, <2>1, JobUpdates DEF KeepsAttempt
<1>u. /\ IsTx(u)
      /\ TxIs(u, t.next, t.run, t.outcome, t.stuck, t.jobLocks \cup lost, t.runLocks,
              Merged(t.jobWrites, more), t.runWrites)
  BY <1>0, <1>m DEF TxIs, IsTx, WriteJobs, WriteRuns
<1>. HIDE DEF u
<1>1. /\ IsTx(w) /\ w.jobLocks = t.jobLocks \cup lost /\ w.runLocks = t.runLocks
      /\ TxIs(v, "claimSelect", t.run, t.outcome, t.stuck, t.jobLocks \cup lost, t.runLocks,
              Merged(t.jobWrites, more), t.runWrites)
  BY <1>u, TxFireNext DEF TxIs
<1>. HIDE DEF v, w
<1>3. /\ DOMAIN v.jobWrites = DOMAIN t.jobWrites \cup lost
      /\ \A r \in lost : v.jobWrites[r] = more[r]
      /\ \A r \in DOMAIN t.jobWrites : v.jobWrites[r] = t.jobWrites[r]
  BY <1>1, <1>2, <1>m DEF TxIs, Merged
<1>7. TxTypes(v)
  BY <1>0, <1>1, <1>3, <1>2, <1>4 DEF TxTypes, TxIs, Statements
<1>8. ASSUME NEW r \in DOMAIN v.jobWrites
      PROVE  JobWriteOK(v, r, jobRows)
  <2>1. CASE r \in lost
    BY <1>1, <1>3, <1>4, <2>1 DEF JobWriteOK, TxIs, RowActive
  <2>2. CASE r \notin lost
    <3>1. JobWriteOK(t, r, jobRows) /\ v.jobWrites[r] = t.jobWrites[r]
      BY <1>0, <1>3, <2>2 DEF SessionOK
    <3>. QED
      BY <1>0, <1>1, <3>1 DEF JobWriteOK, TxIs
  <2>. QED
    BY <2>1, <2>2
<1>9. Progress(v, jobRows, runRows)
  BY <1>0, <1>1, <1>2, <1>3, <1>4 DEF Progress, TxIs, Claiming
<1>10. SessionOK(v, jobRows, runRows)
  BY <1>7, <1>8, <1>9 DEF SessionOK
<1>11. /\ \A r \in w.jobLocks : JobFree(s, r)
       /\ \A r \in w.runLocks : RunFree(s, r)
  BY <1>1, <1>6, OwnLocks
<1>. QED
  BY <1>1, <1>6, <1>10, <1>11, StatementKeeps DEF v

(* The claim selects a queued job, skipping locked rows, and leases it. *)
LEMMA ClaimSelectKeeps ==
  ASSUME PoolInv, NEW s \in Sessions, NEW r \in PgRunIds, ClaimSelect(s, r)
  PROVE  PoolInv'
<1>. DEFINE t    == tx[s]
            job  == JobsOf(s)[r]
            new  == Claimed(job)
            more == [q \in {r} |-> new]
            u    == WriteJobs(t, more)
            w    == [u EXCEPT !.jobLocks = u.jobLocks \cup Candidates(s), !.run = {r}]
            v    == [w EXCEPT !.next = "claimRun"]
<1>0. /\ SessionOK(t, jobRows, runRows) /\ TxTypes(t) /\ IsTx(t)
      /\ t.next = "claimSelect" /\ Claiming(t, jobRows)
      /\ jobRows \in [PgRunIds -> JobRow] /\ \A q \in PgRunIds : jobRows[q] \in JobRow
      /\ RowOK(runRows[r], jobRows[r], claims[r])
  BY SessionFacts DEF ClaimSelect, At, SessionOK, Progress
<1>1. /\ r \in Candidates(s) /\ Candidates(s) \subseteq PgRunIds
      /\ job.state = "queued" /\ \A q \in Candidates(s) : JobFree(s, q)
  BY DEF ClaimSelect, Candidates, Queued
<1>2. /\ job = IF r \in DOMAIN t.jobWrites THEN t.jobWrites[r] ELSE jobRows[r]
      /\ job \in JobRow
  BY <1>0 DEF JobsOf, Over, TxTypes
<1>3. /\ ~job.canceled /\ job.attempt = jobRows[r].attempt /\ jobRows[r].attempt \in Nat
      /\ RowActive(jobRows[r]) /\ r \notin DOMAIN t.runWrites
  BY <1>0, <1>1, <1>2 DEF SessionOK, JobWriteOK, RowActive, RowOK, Claiming, JobRow
<1>4. new \in JobRow /\ new.state = "running" /\ new.attempt = job.attempt + 1
  BY <1>2, ClaimedJob DEF ClaimSelect
<1>9. Continue(s, w, "claimRun")
  BY DEF ClaimSelect, Claimed
<1>m. DOMAIN more = {r} /\ more[r] = new
  OBVIOUS
<1>. HIDE DEF more, new, job
<1>5. IsTx(u) /\ TxIs(u, "claimSelect", t.run, t.outcome, t.stuck, t.jobLocks \cup {r}, t.runLocks,
                       Merged(t.jobWrites, more), t.runWrites)
  BY <1>0, <1>m DEF TxIs, IsTx, WriteJobs
<1>. HIDE DEF u
<1>6. IsTx(w) /\ TxIs(w, "claimSelect", {r}, t.outcome, t.stuck, t.jobLocks \cup {r} \cup Candidates(s),
                       t.runLocks, Merged(t.jobWrites, more), t.runWrites)
  BY <1>5 DEF TxIs, IsTx
<1>7. TxIs(v, "claimRun", {r}, t.outcome, t.stuck, t.jobLocks \cup {r} \cup Candidates(s),
            t.runLocks, Merged(t.jobWrites, more), t.runWrites)
  BY <1>6 DEF TxIs, IsTx
<1>. HIDE DEF v, w
<1>8. /\ DOMAIN v.jobWrites = DOMAIN t.jobWrites \cup {r}
      /\ v.jobWrites[r] = new
      /\ \A q \in DOMAIN t.jobWrites \ {r} : v.jobWrites[q] = t.jobWrites[q]
  BY <1>7, <1>m DEF TxIs, Merged
<1>10. TxTypes(v)
  BY <1>0, <1>1, <1>4, <1>7, <1>8 DEF TxTypes, TxIs, Statements
<1>11. ASSUME NEW q \in DOMAIN v.jobWrites
       PROVE  JobWriteOK(v, q, jobRows)
  <2>1. CASE q = r
    BY <1>3, <1>4, <1>7, <1>8, <2>1 DEF JobWriteOK, TxIs, RowActive
  <2>2. CASE q # r
    <3>1. JobWriteOK(t, q, jobRows) /\ v.jobWrites[q] = t.jobWrites[q]
      BY <1>0, <1>8, <2>2 DEF SessionOK
    <3>. QED
      BY <1>0, <1>7, <2>2, <3>1 DEF JobWriteOK, TxIs
  <2>. QED
    BY <2>1, <2>2
<1>12. Progress(v, jobRows, runRows)
  BY <1>0, <1>3, <1>4, <1>7, <1>8 DEF Progress, TxIs, Claiming, ClaimEnds
<1>13. SessionOK(v, jobRows, runRows)
  BY <1>10, <1>11, <1>12 DEF SessionOK
<1>14. /\ \A q \in w.jobLocks : JobFree(s, q)
       /\ \A q \in w.runLocks : RunFree(s, q)
  BY <1>1, <1>6, OwnLocks DEF TxIs
<1>. QED
  BY <1>6, <1>9, <1>13, <1>14, StatementKeeps DEF v
\* A rollback, for whatever reason.
LEMMA RollbackKeeps ==
  ASSUME PoolInv, NEW s \in Sessions, tx' = [tx EXCEPT ![s] = Idle],
         UNCHANGED <<runRows, jobRows, claims>>
  PROVE  PoolInv'
<1>1. Rows'
  BY DEF PoolInv, Rows
<1>2. \A t \in Sessions : RowsStep(tx[t], jobRows, runRows, jobRows', runRows')
  BY DEF RowsStep
<1>. QED
  BY <1>1, <1>2, EndKeeps

(* The claim starts the run of the job it took, and commits. *)
LEMMA ClaimRunKeeps ==
  ASSUME PoolInv, NEW s \in Sessions, NEW r \in PgRunIds, ClaimRun(s, r)
  PROVE  PoolInv'
<1>. DEFINE t      == tx[s]
            starts == {q \in {r} : RunsOf(s)[q].state \in {"QUEUED", "RESUMING"}}
            more   == [q \in starts |-> RunRowIn("RUNNING")]
            w      == WriteRuns(t, more)
<1>0. /\ SessionOK(t, jobRows, runRows) /\ TxTypes(t) /\ IsTx(t)
      /\ t.next = "claimRun" /\ Claiming(t, jobRows) /\ t.run = {r}
      /\ r \in DOMAIN t.jobWrites \ DOMAIN t.runWrites
      /\ runRows \in [PgRunIds -> RunRow] /\ jobRows \in [PgRunIds -> JobRow] /\ claims \in [PgRunIds -> Nat]
      /\ \A q \in PgRunIds : jobRows[q] \in JobRow /\ RowOK(runRows[q], jobRows[q], claims[q])
  BY SessionFacts DEF ClaimRun, At, SessionOK, Progress, ClaimEnds
<1>1. Commit(s, w) /\ RunFree(s, r) /\ claims' = [claims EXCEPT ![r] = @ + 1]
  BY DEF ClaimRun
<1>2. /\ starts \subseteq {r}
      /\ r \in starts <=> runRows[r].state \in {"QUEUED", "RESUMING"}
  BY <1>0 DEF RunsOf, Over
<1>3. DOMAIN more = starts /\ \A q \in starts : more[q] = RunRowIn("RUNNING")
  OBVIOUS
<1>4. RunRowIn("RUNNING") \in RunRow /\ RunRowIn("RUNNING").state = "RUNNING"
  BY DEF RunRowIn, RunRow, PgActiveStates
<1>. HIDE DEF more, starts
<1>5. w.jobWrites = t.jobWrites /\ w.runWrites = Merged(t.runWrites, more)
  BY <1>0 DEF IsTx, WriteRuns
<1>. HIDE DEF w
<1>6. /\ DOMAIN w.runWrites = DOMAIN t.runWrites \cup starts
      /\ r \in starts => w.runWrites[r] = RunRowIn("RUNNING")
      /\ \A q \in DOMAIN t.runWrites : q # r /\ w.runWrites[q] = t.runWrites[q]
  BY <1>0, <1>2, <1>3, <1>5 DEF Merged
<1>7. \A q \in DOMAIN t.jobWrites : JobWriteOK(t, q, jobRows)
  BY <1>0 DEF SessionOK
<1>8. ASSUME NEW q \in PgRunIds
      PROVE  RowOK(IF q \in DOMAIN w.runWrites THEN w.runWrites[q] ELSE runRows[q],
                   IF q \in DOMAIN w.jobWrites THEN w.jobWrites[q] ELSE jobRows[q], claims'[q])
  <2>0. claims'[q] = IF q = r THEN claims[r] + 1 ELSE claims[q]
    BY <1>0, <1>1
  <2>1. CASE q = r
    <3>1. t.jobWrites[r].state = "running" /\ t.jobWrites[r].attempt = jobRows[r].attempt + 1
      BY <1>0, <1>7 DEF Claiming, JobWriteOK
    <3>2. RowActive(jobRows[r])
      BY <1>0, <1>7, <3>1 DEF JobWriteOK, RowActive
    <3>3. runRows[r].state \in PgActiveStates
      BY <1>0, <3>2 DEF RowOK
    <3>4. r \notin starts => runRows[r].state = "RUNNING"
      BY <1>2, <3>3 DEF PgActiveStates
    <3>. QED
      BY <1>0, <1>2, <1>4, <1>5, <1>6, <2>0, <2>1, <3>1, <3>4 DEF RowOK, RowActive, PgActiveStates
  <2>2. CASE q # r /\ q \in DOMAIN t.runWrites
    <3>1. /\ q \in DOMAIN t.jobWrites /\ t.jobWrites[q].state = "failed"
          /\ t.runWrites[q].state = "CANCELED" /\ t.jobWrites[q].attempt = jobRows[q].attempt
      BY <1>0, <1>7, <2>2 DEF Claiming, JobWriteOK
    <3>. QED
      BY <1>0, <1>5, <1>6, <2>0, <2>2, <3>1 DEF RowOK, RowActive, PgActiveStates
  <2>3. CASE q # r /\ q \in DOMAIN t.jobWrites \ DOMAIN t.runWrites
    <3>1. /\ t.jobWrites[q].state = "queued" /\ RowActive(jobRows[q])
          /\ t.jobWrites[q].attempt = jobRows[q].attempt /\ ~t.jobWrites[q].canceled
      BY <1>0, <1>7, <2>3 DEF Claiming, JobWriteOK, RowActive
    <3>2. q \notin DOMAIN w.runWrites
      BY <1>2, <1>6, <2>3
    <3>. QED
      BY <1>0, <1>5, <2>0, <2>3, <3>1, <3>2 DEF RowOK, RowActive, PgActiveStates
  <2>4. CASE q # r /\ q \notin DOMAIN t.jobWrites /\ q \notin DOMAIN t.runWrites
    BY <1>0, <1>2, <1>5, <1>6, <2>0, <2>4
  <2>. QED
    BY <2>1, <2>2, <2>3, <2>4
<1>9. claims' \in [PgRunIds -> Nat]
  BY <1>0, <1>1
<1>10. \A q \in DOMAIN w.jobWrites :
         /\ JobFree(s, q) /\ w.jobWrites[q] \in JobRow /\ w.jobWrites[q].state # "absent"
         /\ RowActive(w.jobWrites[q]) => RowActive(jobRows[q])
  BY <1>0, <1>5, <1>7, OwnLocks DEF TxTypes, JobWriteOK
<1>11. \A q \in DOMAIN w.runWrites : RunFree(s, q) /\ w.runWrites[q] \in RunRow
  BY <1>0, <1>1, <1>2, <1>4, <1>6, OwnLocks DEF TxTypes
<1>12. DOMAIN w.jobWrites \subseteq PgRunIds /\ DOMAIN w.runWrites \subseteq PgRunIds
  BY <1>0, <1>2, <1>5, <1>6 DEF TxTypes
<1>. QED
  BY <1>1, <1>8, <1>9, <1>10, <1>11, <1>12, CommitKeeps

(* A completion settles the job whose lease it presents. *)
LEMMA CompleteJobKeeps ==
  ASSUME PoolInv, NEW s \in Sessions, NEW r \in PgRunIds, NEW n, NEW o \in Outcomes,
         CompleteJob(s, r, n, o)
  PROVE  PoolInv'
<1>. DEFINE done == IF jobRows[r].canceled THEN PgCanceledJob(jobRows[r]) ELSE PgSettledJob(jobRows[r], o)
            oc   == IF jobRows[r].canceled THEN "CANCELED" ELSE o
            more == [q \in {r} |-> done]
            u    == WriteJobs(tx[s], more)
            w    == [u EXCEPT !.run = {r}, !.outcome = oc]
            v    == [w EXCEPT !.next = "completeRun"]
<1>0. tx[s] = Idle /\ jobRows[r] \in JobRow /\ jobRows[r].state = "running"
  BY SessionFacts DEF CompleteJob, Owns
<1>1. /\ done \in JobRow /\ done.state \in Settled /\ done.attempt = jobRows[r].attempt
      /\ done.canceled => done.state = "failed"
  <2>1. CASE jobRows[r].canceled
    <3>1. KeepsAttempt(PgCanceledJob(jobRows[r]), jobRows[r], {"failed"})
      BY <1>0, JobUpdates
    <3>. QED
      BY <2>1, <3>1 DEF KeepsAttempt, Settled
  <2>2. CASE ~jobRows[r].canceled
    <3>1. /\ KeepsAttempt(PgSettledJob(jobRows[r], o), jobRows[r], Settled)
          /\ PgSettledJob(jobRows[r], o).canceled = jobRows[r].canceled
      BY <1>0, JobUpdates
    <3>. QED
      BY <2>2, <3>1 DEF KeepsAttempt
  <2>. QED
    BY <2>1, <2>2
<1>2. oc \in Outcomes \cup {"CANCELED"}
  OBVIOUS
<1>3. Continue(s, w, "completeRun") /\ JobFree(s, r)
  BY DEF CompleteJob
<1>m. DOMAIN more = {r} /\ more[r] = done
  OBVIOUS
<1>. HIDE DEF more, done, oc
<1>4. TxIs(u, "idle", {}, "FAILED", {}, {r}, {}, Merged(Idle.jobWrites, more), Idle.runWrites)
  BY <1>0, <1>m, IdleFields DEF TxIs, IsTx, WriteJobs
<1>. HIDE DEF u
<1>5. TxIs(w, "idle", {r}, oc, {}, {r}, {}, Merged(Idle.jobWrites, more), Idle.runWrites)
  BY <1>4 DEF TxIs, IsTx
<1>. HIDE DEF w
<1>6. TxIs(v, "completeRun", {r}, oc, {}, {r}, {}, Merged(Idle.jobWrites, more), Idle.runWrites)
  BY <1>5 DEF TxIs, IsTx
<1>. HIDE DEF v
<1>7. DOMAIN v.jobWrites = {r} /\ v.jobWrites[r] = done /\ DOMAIN v.runWrites = {}
  BY <1>6, <1>m, IdleFields DEF TxIs, Merged
<1>8. TxTypes(v)
  BY <1>1, <1>6, <1>7 DEF TxTypes, TxIs, Statements
<1>9. JobWriteOK(v, r, jobRows)
  BY <1>1, <1>6, <1>7 DEF JobWriteOK, TxIs, RowActive, Settled
<1>10. Progress(v, jobRows, runRows)
  BY <1>0, <1>1, <1>2, <1>6, <1>7 DEF Progress, TxIs, Completing
<1>11. SessionOK(v, jobRows, runRows)
  BY <1>7, <1>8, <1>9, <1>10 DEF SessionOK
<1>. QED
  BY <1>3, <1>5, <1>11, StatementKeeps DEF v, TxIs

(* A completion settles the run of its job. *)
LEMMA CompleteRunKeeps ==
  ASSUME PoolInv, NEW s \in Sessions, NEW r \in PgRunIds, CompleteRun(s, r)
  PROVE  PoolInv'
<1>. DEFINE t    == tx[s]
            new  == RunRowIn(t.outcome)
            more == [q \in {r} |-> new]
            u    == WriteRuns(t, more)
            w    == Fire(u)
            v    == [w EXCEPT !.next = "commit"]
<1>0. /\ SessionOK(t, jobRows, runRows) /\ TxTypes(t) /\ IsTx(t)
      /\ t.next = "completeRun" /\ Completing(t, jobRows) /\ t.run = {r}
      /\ DOMAIN t.jobWrites = {r} /\ DOMAIN t.runWrites = {}
      /\ jobRows[r].state = "running" /\ t.jobWrites[r].state \in Settled
      /\ RowOK(runRows[r], jobRows[r], claims[r])
  BY SessionFacts DEF CompleteRun, At, SessionOK, Progress, Completing
<1>1. Continue(s, w, "commit") /\ RunFree(s, r)
  BY DEF CompleteRun
<1>2. /\ new \in RunRow /\ new.state = t.outcome
      /\ new.state \in PgTerminalStates \cup {"WAITING_HUMAN"}
  BY <1>0 DEF Completing, Outcomes, RunRowIn, RunRow, PgTerminalStates
<1>c. runRows[r].state = "RUNNING" /\ Moves(runRows[r].state, new.state)
  BY <1>0, <1>2, CommittedMoves DEF RowOK, Completing
<1>3. DOMAIN more = {r} /\ more[r] = new
  OBVIOUS
<1>. HIDE DEF more, new
<1>u. /\ IsTx(u)
      /\ TxIs(u, t.next, t.run, t.outcome, t.stuck, t.jobLocks, t.runLocks \cup {r},
              t.jobWrites, Merged(t.runWrites, more))
  BY <1>0, <1>3 DEF TxIs, IsTx, WriteRuns
<1>. HIDE DEF u
<1>5. /\ IsTx(w) /\ w.jobLocks = t.jobLocks /\ w.runLocks = t.runLocks \cup {r}
      /\ TxIs(v, "commit", t.run, t.outcome, t.stuck, t.jobLocks, t.runLocks \cup {r},
              t.jobWrites, Merged(t.runWrites, more))
  BY <1>u, TxFireNext DEF TxIs
<1>. HIDE DEF v, w
<1>6. DOMAIN v.runWrites = {r} /\ v.runWrites[r] = new /\ v.jobWrites = t.jobWrites
  BY <1>0, <1>3, <1>5 DEF Merged, TxIs
<1>7. TxTypes(v)
  BY <1>0, <1>2, <1>5, <1>6 DEF TxTypes, TxIs, Statements
<1>8. JobWriteOK(v, r, jobRows)
  BY <1>0, <1>5 DEF JobWriteOK, TxIs, SessionOK
<1>9. Committing(v, jobRows, runRows)
  BY <1>0, <1>2, <1>6, <1>c DEF Committing
<1>10. SessionOK(v, jobRows, runRows)
  BY <1>0, <1>5, <1>6, <1>7, <1>8, <1>9 DEF SessionOK, Progress, TxIs
<1>11. /\ \A q \in w.jobLocks : JobFree(s, q)
       /\ \A q \in w.runLocks : RunFree(s, q)
  BY <1>1, <1>5, OwnLocks
<1>. QED
  BY <1>1, <1>5, <1>10, <1>11, StatementKeeps DEF v

(* The trigger gets the row of queue_snapshot_state. *)
LEMMA BumpKeeps ==
  ASSUME PoolInv, NEW s \in Sessions, BumpQueueSnapshot(s)
  PROVE  PoolInv'
<1>. DEFINE t == tx[s]
            w == [t EXCEPT !.snapshot = "holds"]
            v == [w EXCEPT !.next = t.next]
<1>0. SessionOK(t, jobRows, runRows) /\ IsTx(t) /\ t.next # "idle"
  <2>1. t.next = "idle" => t.snapshot = "none"
    BY SessionFacts DEF Idle
  <2>. QED
    BY <2>1, SessionFacts DEF BumpQueueSnapshot
<1>1. /\ IsTx(w) /\ w.jobLocks = t.jobLocks /\ w.runLocks = t.runLocks /\ w.next = t.next
      /\ w.run = t.run /\ w.outcome = t.outcome /\ w.stuck = t.stuck
      /\ w.jobWrites = t.jobWrites /\ w.runWrites = t.runWrites
  BY <1>0 DEF IsTx, SnapshotLock
<1>2. tx' = [tx EXCEPT ![s] = w] /\ UNCHANGED <<runRows, jobRows, claims>>
  BY DEF BumpQueueSnapshot
<1>. HIDE DEF w
<1>3. v = w
  BY <1>1 DEF IsTx
<1>4. Continue(s, w, t.next)
  BY <1>2, <1>3 DEF Continue
<1>5. TxTypes(w)
  BY <1>0, <1>1 DEF SessionOK, TxTypes
<1>6. \A r \in DOMAIN w.jobWrites : JobWriteOK(w, r, jobRows)
  BY <1>0, <1>1 DEF SessionOK, JobWriteOK
<1>7. Progress(w, jobRows, runRows)
  <2>1. Progress(t, jobRows, runRows)
    BY <1>0 DEF SessionOK
  <2>2. /\ ClaimCancels(t, jobRows) => ClaimCancels(w, jobRows)
        /\ Completing(t, jobRows) => Completing(w, jobRows)
        /\ CancelingJob(t) => CancelingJob(w)
        /\ CancelingRun(t, runRows) => CancelingRun(w, runRows)
        /\ ExpiringJobs(t) => ExpiringJobs(w)
        /\ ExpiringRuns(t, jobRows) => ExpiringRuns(w, jobRows)
    BY <1>1 DEF ClaimCancels, Completing, CancelingJob, CancelingRun, ExpiringJobs, ExpiringRuns
  <2>3. /\ Claiming(t, jobRows) => Claiming(w, jobRows)
        /\ ClaimEnds(t) => ClaimEnds(w)
        /\ Committing(t, jobRows, runRows) => Committing(w, jobRows, runRows)
    BY <1>1 DEF Claiming, ClaimEnds, Committing
  <2>. QED
    BY <1>0, <1>1, <2>1, <2>2, <2>3 DEF Progress
<1>8. SessionOK([w EXCEPT !.next = t.next], jobRows, runRows)
  BY <1>3, <1>5, <1>6, <1>7 DEF SessionOK
<1>. QED
  BY <1>1, <1>4, <1>8, OwnLocks, StatementKeeps

(* A transaction that has written what it had to commits. *)
LEMMA CommitTxKeeps ==
  ASSUME PoolInv, NEW s \in Sessions, CommitTx(s)
  PROVE  PoolInv'
<1>. DEFINE t == tx[s]
<1>0. /\ SessionOK(t, jobRows, runRows) /\ TxTypes(t) /\ Committing(t, jobRows, runRows)
      /\ t.next = "commit" /\ Commit(s, t) /\ claims' = claims
      /\ runRows \in [PgRunIds -> RunRow] /\ jobRows \in [PgRunIds -> JobRow] /\ claims \in [PgRunIds -> Nat]
      /\ \A q \in PgRunIds : jobRows[q] \in JobRow /\ RowOK(runRows[q], jobRows[q], claims[q])
  BY SessionFacts DEF CommitTx, At, SessionOK, Progress
<1>. HIDE DEF t
<1>1. \A r \in DOMAIN t.jobWrites : JobWriteOK(t, r, jobRows)
  BY <1>0 DEF SessionOK
<1>2. ASSUME NEW q \in PgRunIds
      PROVE  RowOK(IF q \in DOMAIN t.runWrites THEN t.runWrites[q] ELSE runRows[q],
                   IF q \in DOMAIN t.jobWrites THEN t.jobWrites[q] ELSE jobRows[q], claims'[q])
  <2>0. q \in DOMAIN t.jobWrites => /\ t.jobWrites[q].attempt = jobRows[q].attempt
                                    /\ t.jobWrites[q].canceled =>
                                         t.jobWrites[q].state \in {"running", "failed"}
    BY <1>0, <1>1 DEF JobWriteOK
  <2>1. CASE q \in DOMAIN t.jobWrites \ DOMAIN t.runWrites
    <3>1. jobRows[q].state = "running" /\ t.jobWrites[q].state = "running"
      BY <1>0, <2>1 DEF Committing
    <3>. QED
      BY <1>0, <2>0, <2>1, <3>1 DEF RowOK, RowActive
  <2>2. CASE q \in DOMAIN t.jobWrites \cap DOMAIN t.runWrites
    <3>1. /\ t.jobWrites[q].state \in Settled
          /\ t.runWrites[q].state \in PgTerminalStates \cup {"WAITING_HUMAN"}
      BY <1>0, <2>2 DEF Committing
    <3>. QED
      BY <1>0, <2>0, <2>2, <3>1 DEF RowOK, RowActive, PgActiveStates, PgTerminalStates, Settled
  <2>3. CASE q \in DOMAIN t.runWrites \ DOMAIN t.jobWrites
    <3>1. /\ jobRows[q].state \in Settled
          /\ t.runWrites[q].state \in PgTerminalStates \cup {"WAITING_HUMAN"}
      BY <1>0, <2>3 DEF Committing
    <3>. QED
      BY <1>0, <2>3, <3>1 DEF RowOK, RowActive, PgActiveStates, PgTerminalStates, Settled
  <2>4. CASE q \notin DOMAIN t.runWrites /\ q \notin DOMAIN t.jobWrites
    BY <1>0, <2>4
  <2>. QED
    BY <2>1, <2>2, <2>3, <2>4
<1>3. /\ DOMAIN t.jobWrites \subseteq t.jobLocks /\ t.jobLocks \subseteq PgRunIds
      /\ DOMAIN t.runWrites \subseteq t.runLocks /\ t.runLocks \subseteq PgRunIds
      /\ \A r \in DOMAIN t.jobWrites : t.jobWrites[r] \in JobRow
      /\ \A r \in DOMAIN t.runWrites : t.runWrites[r] \in RunRow
  BY <1>0 DEF TxTypes
<1>4. /\ \A r \in t.jobLocks : JobFree(s, r)
      /\ \A r \in t.runLocks : RunFree(s, r)
  BY OwnLocks DEF t
<1>5. \A r \in DOMAIN t.jobWrites :
        /\ JobFree(s, r) /\ t.jobWrites[r] \in JobRow /\ t.jobWrites[r].state # "absent"
        /\ RowActive(t.jobWrites[r]) => RowActive(jobRows[r])
  BY <1>1, <1>3, <1>4 DEF JobWriteOK
<1>6. \A r \in DOMAIN t.runWrites : RunFree(s, r) /\ t.runWrites[r] \in RunRow
  BY <1>3, <1>4
<1>. QED
  BY <1>0, <1>2, <1>3, <1>5, <1>6, CommitKeeps

(* A cancellation of a job locks it. *)
LEMMA CancelJobKeeps ==
  ASSUME PoolInv, NEW s \in Sessions, NEW r \in PgRunIds, PgCancelJob(s, r)
  PROVE  PoolInv'
<1>. DEFINE w == [tx[s] EXCEPT !.jobLocks = {r}, !.run = {r}]
            v == [w EXCEPT !.next = "cancelJobRun"]
<1>0. tx[s] = Idle
  BY SessionFacts DEF PgCancelJob
<1>1. Continue(s, w, "cancelJobRun") /\ JobFree(s, r)
  BY DEF PgCancelJob
<1>2. TxIs(w, "idle", {r}, "FAILED", {}, {r}, {}, Idle.jobWrites, Idle.runWrites)
  BY <1>0, IdleFields DEF TxIs, IsTx
<1>. HIDE DEF w
<1>3. TxIs(v, "cancelJobRun", {r}, "FAILED", {}, {r}, {}, Idle.jobWrites, Idle.runWrites)
  BY <1>2 DEF TxIs, IsTx
<1>. HIDE DEF v
<1>4. SessionOK(v, jobRows, runRows)
  BY <1>3, IdleFields DEF SessionOK, TxTypes, TxIs, Statements, Progress, CancelingJob
<1>. QED
  BY <1>1, <1>2, <1>4, StatementKeeps DEF v, TxIs

(* A cancellation of a job goes on to its run. *)
LEMMA CancelJobRunKeeps ==
  ASSUME PoolInv, NEW s \in Sessions, NEW r \in PgRunIds, CancelJobRun(s, r)
  PROVE  PoolInv'
<1>. DEFINE t == tx[s]
            u == [t EXCEPT !.runLocks = {r}]
            w == Fire(u)
            v == [w EXCEPT !.next = "cancelJobWrite"]
<1>0. /\ TxTypes(t) /\ IsTx(t)
      /\ t.next = "cancelJobRun" /\ t.run = {r} /\ r \in t.jobLocks
      /\ DOMAIN t.jobWrites = {} /\ DOMAIN t.runWrites = {}
      /\ runRows \in [PgRunIds -> RunRow] /\ jobRows \in [PgRunIds -> JobRow] /\ claims \in [PgRunIds -> Nat]
      /\ \A q \in PgRunIds : jobRows[q] \in JobRow /\ RowOK(runRows[q], jobRows[q], claims[q])
  BY SessionFacts DEF CancelJobRun, At, SessionOK, Progress, CancelingJob
<1>1. RunFree(s, r)
  BY DEF CancelJobRun
<1>2. \/ Commit(s, u) /\ claims' = claims
      \/ Continue(s, w, "cancelJobWrite")
  BY DEF CancelJobRun
<1>3. TxIs(u, t.next, t.run, t.outcome, t.stuck, t.jobLocks, {r}, t.jobWrites, t.runWrites)
  BY <1>0 DEF IsTx, TxIs
<1>. HIDE DEF u
<1>4. CASE Commit(s, u) /\ claims' = claims
  BY <1>0, <1>3, <1>4, CommitKeeps DEF TxIs
<1>5. CASE Continue(s, w, "cancelJobWrite")
  <2>1. /\ IsTx(w) /\ w.jobLocks = t.jobLocks /\ w.runLocks = {r}
        /\ TxIs(v, "cancelJobWrite", t.run, t.outcome, t.stuck, t.jobLocks, {r},
                t.jobWrites, t.runWrites)
    BY <1>3, TxFireNext DEF TxIs
  <2>. HIDE DEF v, w
  <2>2. TxTypes(v)
    BY <1>0, <2>1 DEF TxTypes, TxIs, Statements
  <2>3. SessionOK(v, jobRows, runRows)
    BY <1>0, <2>1, <2>2 DEF SessionOK, TxIs, Progress, CancelingJob
  <2>4. /\ \A q \in w.jobLocks : JobFree(s, q)
        /\ \A q \in w.runLocks : RunFree(s, q)
    BY <1>1, <2>1, OwnLocks
  <2>. QED
    BY <1>5, <2>1, <2>3, <2>4, StatementKeeps DEF v
<1>. QED
  BY <1>2, <1>4, <1>5

(* A cancellation of a job writes it, with its run if it was queued, and commits. *)
LEMMA CancelJobWriteKeeps ==
  ASSUME PoolInv, NEW s \in Sessions, NEW r \in PgRunIds, CancelJobWrite(s, r)
  PROVE  PoolInv'
<1>. DEFINE t    == tx[s]
            new  == IF jobRows[r].state = "running" THEN AskedToStop(jobRows[r]) ELSE PgCanceledJob(jobRows[r])
            more == [q \in {r} |-> new]
            u    == WriteJobs(t, more)
            gone == [q \in {r} |-> RunRowIn("CANCELED")]
            w    == WriteRuns(u, gone)
<1>0. /\ SessionOK(t, jobRows, runRows) /\ TxTypes(t) /\ IsTx(t)
      /\ t.next = "cancelJobWrite" /\ t.run = {r} /\ r \in t.jobLocks /\ r \in t.runLocks
      /\ DOMAIN t.jobWrites = {} /\ DOMAIN t.runWrites = {}
      /\ runRows \in [PgRunIds -> RunRow] /\ jobRows \in [PgRunIds -> JobRow] /\ claims \in [PgRunIds -> Nat]
      /\ \A q \in PgRunIds : jobRows[q] \in JobRow /\ RowOK(runRows[q], jobRows[q], claims[q])
  BY SessionFacts DEF CancelJobWrite, At, SessionOK, Progress, CancelingJob
<1>1. RunFree(s, r) /\ claims' = claims /\ JobFree(s, r)
  BY <1>0, OwnLocks DEF CancelJobWrite
<1>2. \/ jobRows[r].state = "running" /\ Commit(s, u)
      \/ jobRows[r].state = "queued" /\ Commit(s, w)
  BY DEF CancelJobWrite, AskedToStop
<1>3. /\ DOMAIN more = {r} /\ more[r] = new
      /\ DOMAIN gone = {r} /\ gone[r] = RunRowIn("CANCELED")
  OBVIOUS
<1>4. /\ new \in JobRow /\ new.attempt = jobRows[r].attempt
      /\ new.state = IF jobRows[r].state = "running" THEN "running" ELSE "failed"
  BY <1>0, JobUpdates DEF KeepsAttempt
<1>5. RunRowIn("CANCELED") \in RunRow /\ RunRowIn("CANCELED").state = "CANCELED"
  BY DEF RunRowIn, RunRow, PgTerminalStates
<1>. HIDE DEF more, new, gone
<1>6. /\ IsTx(u) /\ u.jobWrites = Merged(t.jobWrites, more) /\ u.runWrites = t.runWrites
  BY <1>0 DEF IsTx, WriteJobs
<1>. HIDE DEF u
<1>7. w.jobWrites = u.jobWrites /\ w.runWrites = Merged(t.runWrites, gone)
  BY <1>6 DEF IsTx, WriteRuns
<1>. HIDE DEF w
<1>8. /\ DOMAIN u.jobWrites = {r} /\ u.jobWrites[r] = new /\ DOMAIN u.runWrites = {}
      /\ DOMAIN w.jobWrites = {r} /\ w.jobWrites[r] = new
      /\ DOMAIN w.runWrites = {r} /\ w.runWrites[r] = RunRowIn("CANCELED")
  BY <1>0, <1>3, <1>6, <1>7 DEF Merged
<1>10. CASE jobRows[r].state = "running" /\ Commit(s, u)
  <2>1. \A q \in PgRunIds :
          RowOK(IF q \in DOMAIN u.runWrites THEN u.runWrites[q] ELSE runRows[q],
                IF q \in DOMAIN u.jobWrites THEN u.jobWrites[q] ELSE jobRows[q], claims'[q])
    BY <1>0, <1>1, <1>4, <1>8, <1>10 DEF RowOK, RowActive
  <2>2. \A q \in DOMAIN u.jobWrites :
          /\ JobFree(s, q) /\ u.jobWrites[q] \in JobRow /\ u.jobWrites[q].state # "absent"
          /\ RowActive(u.jobWrites[q]) => RowActive(jobRows[q])
    BY <1>1, <1>4, <1>8, <1>10 DEF RowActive
  <2>. QED
    BY <1>0, <1>1, <1>8, <1>10, <2>1, <2>2, CommitKeeps
<1>11. CASE jobRows[r].state = "queued" /\ Commit(s, w)
  <2>1. \A q \in PgRunIds :
          RowOK(IF q \in DOMAIN w.runWrites THEN w.runWrites[q] ELSE runRows[q],
                IF q \in DOMAIN w.jobWrites THEN w.jobWrites[q] ELSE jobRows[q], claims'[q])
    BY <1>0, <1>1, <1>4, <1>5, <1>8, <1>11 DEF RowOK, RowActive, PgActiveStates
  <2>2. \A q \in DOMAIN w.jobWrites :
          /\ JobFree(s, q) /\ w.jobWrites[q] \in JobRow /\ w.jobWrites[q].state # "absent"
          /\ RowActive(w.jobWrites[q]) => RowActive(jobRows[q])
    BY <1>1, <1>4, <1>8, <1>11 DEF RowActive
  <2>. QED
    BY <1>0, <1>1, <1>5, <1>8, <1>11, <2>1, <2>2, CommitKeeps
<1>. QED
  BY <1>2, <1>10, <1>11

(* A cancellation of a run settles the run first. *)
LEMMA CancelRunKeeps ==
  ASSUME PoolInv, NEW s \in Sessions, NEW r \in PgRunIds, PgCancelRun(s, r)
  PROVE  PoolInv'
<1>. DEFINE more == [q \in {r} |-> RunRowIn("CANCELED")]
            u    == WriteRuns(tx[s], more)
            w    == [u EXCEPT !.run = {r}]
            v    == [w EXCEPT !.next = "cancelRunJobs"]
<1>0. /\ tx[s] = Idle /\ Continue(s, w, "cancelRunJobs") /\ RunFree(s, r)
      /\ runRows[r].state \notin PgTerminalStates \cup {"absent"}
  BY SessionFacts DEF PgCancelRun, PgIsTerminal
<1>m. DOMAIN more = {r} /\ more[r] = RunRowIn("CANCELED")
  OBVIOUS
<1>1. RunRowIn("CANCELED") \in RunRow /\ RunRowIn("CANCELED").state = "CANCELED"
  BY DEF RunRowIn, RunRow, PgTerminalStates
<1>. HIDE DEF more
<1>4. TxIs(u, "idle", {}, "FAILED", {}, {}, {r}, Idle.jobWrites, Merged(Idle.runWrites, more))
  BY <1>0, <1>m, IdleFields DEF TxIs, IsTx, WriteRuns
<1>. HIDE DEF u
<1>5. TxIs(w, "idle", {r}, "FAILED", {}, {}, {r}, Idle.jobWrites, Merged(Idle.runWrites, more))
  BY <1>4 DEF TxIs, IsTx
<1>. HIDE DEF w
<1>6. TxIs(v, "cancelRunJobs", {r}, "FAILED", {}, {}, {r}, Idle.jobWrites,
           Merged(Idle.runWrites, more))
  BY <1>5 DEF TxIs, IsTx
<1>. HIDE DEF v
<1>7. DOMAIN v.runWrites = {r} /\ v.runWrites[r] = RunRowIn("CANCELED") /\ DOMAIN v.jobWrites = {}
  BY <1>6, <1>m, IdleFields DEF TxIs, Merged
<1>8. SessionOK(v, jobRows, runRows)
  BY <1>0, <1>1, <1>6, <1>7 DEF SessionOK, TxTypes, TxIs, Statements, Progress, CancelingRun
<1>. QED
  BY <1>0, <1>5, <1>8, StatementKeeps DEF v, TxIs

(* A cancellation of a run goes on to its job. *)
LEMMA CancelRunJobsKeeps ==
  ASSUME PoolInv, NEW s \in Sessions, NEW r \in PgRunIds, CancelRunJobs(s, r)
  PROVE  PoolInv'
<1>. DEFINE t      == tx[s]
            active == JobsToStop(s, r)
            more   == [q \in active |-> Stopped(jobRows[q])]
            u      == WriteJobs(t, more)
            w      == Fire(u)
            v      == [w EXCEPT !.next = "commit"]
<1>0. /\ SessionOK(t, jobRows, runRows) /\ TxTypes(t) /\ IsTx(t)
      /\ t.next = "cancelRunJobs" /\ t.run = {r} /\ r \in t.runLocks
      /\ DOMAIN t.jobWrites = {} /\ DOMAIN t.runWrites = {r}
      /\ t.runWrites[r] \in RunRow /\ t.runWrites[r].state = "CANCELED"
      /\ runRows[r].state \notin PgTerminalStates \cup {"absent"}
      /\ runRows[r] \in RunRow /\ jobRows[r] \in JobRow /\ RowOK(runRows[r], jobRows[r], claims[r])
  BY SessionFacts DEF CancelRunJobs, At, SessionOK, TxTypes, Progress, CancelingRun
<1>1. /\ Continue(s, w, "commit")
      /\ \A q \in active : JobFree(s, q)
  BY DEF CancelRunJobs, Stopped
<1>2. active \subseteq {r} /\ (r \in active <=> RowActive(jobRows[r]))
  BY DEF JobsToStop
<1>3. DOMAIN more = active /\ \A q \in active : more[q] = Stopped(jobRows[q])
  OBVIOUS
<1>4. \A q \in active : /\ more[q] \in JobRow /\ more[q].state = "failed"
                        /\ more[q].attempt = jobRows[q].attempt
  BY <1>0, <1>2, <1>3, JobUpdates DEF KeepsAttempt
<1>c. /\ r \notin active => jobRows[r].state \in Settled
      /\ Moves(runRows[r].state, "CANCELED")
  <2>1. runRows[r].state \in PgActiveStates \cup {"WAITING_HUMAN"}
    BY <1>0 DEF RunRow
  <2>2. jobRows[r].state # "absent" /\ (r \notin active => ~RowActive(jobRows[r]))
    BY <1>0, <1>2 DEF RowOK
  <2>3. r \notin active => jobRows[r].state \in Settled
    BY <1>0, <2>2 DEF JobRow, RowActive, Settled
  <2>. QED
    BY <2>1, <2>3, CommittedMoves
<1>. HIDE DEF more, active
<1>u. /\ IsTx(u)
      /\ TxIs(u, t.next, t.run, t.outcome, t.stuck, t.jobLocks \cup active, t.runLocks,
              Merged(t.jobWrites, more), t.runWrites)
  BY <1>0, <1>3 DEF TxIs, IsTx, WriteJobs
<1>. HIDE DEF u
<1>5. /\ IsTx(w) /\ w.jobLocks = t.jobLocks \cup active /\ w.runLocks = t.runLocks
      /\ TxIs(v, "commit", t.run, t.outcome, t.stuck, t.jobLocks \cup active, t.runLocks,
              Merged(t.jobWrites, more), t.runWrites)
  BY <1>u, TxFireNext DEF TxIs
<1>. HIDE DEF v, w
<1>6. /\ DOMAIN v.jobWrites = active /\ v.runWrites = t.runWrites
      /\ \A q \in active : v.jobWrites[q] = more[q]
  BY <1>0, <1>3, <1>5 DEF Merged, TxIs
<1>7. TxTypes(v)
  BY <1>0, <1>2, <1>4, <1>5, <1>6 DEF TxTypes, TxIs, Statements
<1>8. \A q \in active : JobWriteOK(v, q, jobRows)
  BY <1>4, <1>5, <1>6 DEF JobWriteOK, TxIs, RowActive
<1>9. Committing(v, jobRows, runRows)
  BY <1>0, <1>2, <1>4, <1>6, <1>c DEF Committing, Settled, PgTerminalStates
<1>10. SessionOK(v, jobRows, runRows)
  BY <1>5, <1>6, <1>7, <1>8, <1>9 DEF SessionOK, Progress, TxIs
<1>11. /\ \A q \in w.jobLocks : JobFree(s, q)
       /\ \A q \in w.runLocks : RunFree(s, q)
  BY <1>1, <1>5, OwnLocks
<1>. QED
  BY <1>1, <1>5, <1>10, <1>11, StatementKeeps DEF v

(* The stuck sweep reads the jobs that look stuck, without a lock. *)
LEMMA ExpireSelectKeeps ==
  ASSUME PoolInv, NEW s \in Sessions, ExpireSelect(s)
  PROVE  PoolInv'
<1>. DEFINE stuck == {r \in PgRunIds : PgStuck(r)}
            w     == [tx[s] EXCEPT !.stuck = stuck]
            v     == [w EXCEPT !.next = "expireJobs"]
<1>0. tx[s] = Idle /\ Continue(s, w, "expireJobs") /\ stuck \subseteq PgRunIds
  BY SessionFacts DEF ExpireSelect
<1>. HIDE DEF stuck
<1>2. TxIs(w, "idle", {}, "FAILED", stuck, {}, {}, Idle.jobWrites, Idle.runWrites)
  BY <1>0, IdleFields DEF TxIs, IsTx
<1>. HIDE DEF w
<1>3. TxIs(v, "expireJobs", {}, "FAILED", stuck, {}, {}, Idle.jobWrites, Idle.runWrites)
  BY <1>2 DEF TxIs, IsTx
<1>. HIDE DEF v
<1>4. SessionOK(v, jobRows, runRows)
  BY <1>0, <1>3, IdleFields DEF SessionOK, TxTypes, TxIs, Statements, Progress, ExpiringJobs
<1>. QED
  BY <1>0, <1>2, <1>4, StatementKeeps DEF v, TxIs

(* The stuck sweep fails the jobs it read. *)
LEMMA ExpireJobsKeeps ==
  ASSUME PoolInv, NEW s \in Sessions, ExpireJobs(s)
  PROVE  PoolInv'
<1>. DEFINE t    == tx[s]
            due  == ToExpire(s)
            more == [r \in due |-> ExpiredJob(jobRows[r])]
            u    == WriteJobs(t, more)
            w    == Fire(u)
            v    == [w EXCEPT !.next = "expireRuns"]
<1>0. /\ SessionOK(t, jobRows, runRows) /\ TxTypes(t) /\ IsTx(t) /\ t.stuck \subseteq PgRunIds
      /\ t.next = "expireJobs" /\ DOMAIN t.jobWrites = {} /\ DOMAIN t.runWrites = {}
      /\ \A r \in PgRunIds : jobRows[r] \in JobRow
  BY SessionFacts DEF ExpireJobs, At, SessionOK, TxTypes, Progress, ExpiringJobs
<1>1. Continue(s, w, "expireRuns") /\ \A r \in due : JobFree(s, r)
  BY DEF ExpireJobs, ExpiredJob
<1>2. /\ due \subseteq t.stuck
      /\ \A r \in t.stuck \ due : jobRows[r].state \in Settled
  BY DEF ToExpire, Settled
<1>m. DOMAIN more = due /\ \A r \in due : more[r] = ExpiredJob(jobRows[r])
  OBVIOUS
<1>. HIDE DEF more, due
<1>3. ASSUME NEW r \in due
      PROVE  more[r] \in JobRow /\ more[r].state = "failed" /\ more[r].attempt = jobRows[r].attempt
  <2>1. jobRows[r] \in JobRow /\ more[r] = ExpiredJob(jobRows[r])
    BY <1>0, <1>2, <1>m
  <2>. QED
    BY <2>1, JobUpdates DEF KeepsAttempt
<1>u. /\ IsTx(u)
      /\ TxIs(u, t.next, t.run, t.outcome, t.stuck, t.jobLocks \cup due, t.runLocks,
              Merged(t.jobWrites, more), t.runWrites)
  BY <1>0, <1>m DEF TxIs, IsTx, WriteJobs
<1>. HIDE DEF u
<1>4. /\ IsTx(w) /\ w.jobLocks = t.jobLocks \cup due /\ w.runLocks = t.runLocks
      /\ TxIs(v, "expireRuns", t.run, t.outcome, t.stuck, t.jobLocks \cup due, t.runLocks,
              Merged(t.jobWrites, more), t.runWrites)
  BY <1>u, TxFireNext DEF TxIs
<1>. HIDE DEF v, w
<1>5. /\ DOMAIN v.jobWrites = due /\ DOMAIN v.runWrites = {}
      /\ \A r \in due : v.jobWrites[r] = more[r]
  BY <1>0, <1>4, <1>m DEF TxIs, Merged
<1>6. TxTypes(v)
  BY <1>0, <1>2, <1>3, <1>4, <1>5 DEF TxTypes, TxIs, Statements
<1>7. \A r \in due : JobWriteOK(v, r, jobRows)
  BY <1>3, <1>4, <1>5 DEF JobWriteOK, TxIs, RowActive
<1>8. Progress(v, jobRows, runRows)
  BY <1>2, <1>3, <1>4, <1>5 DEF Progress, TxIs, ExpiringRuns
<1>9. SessionOK(v, jobRows, runRows)
  BY <1>5, <1>6, <1>7, <1>8 DEF SessionOK
<1>10. /\ \A r \in w.jobLocks : JobFree(s, r)
       /\ \A r \in w.runLocks : RunFree(s, r)
  BY <1>1, <1>4, OwnLocks
<1>. QED
  BY <1>1, <1>4, <1>9, <1>10, StatementKeeps DEF v

(* The stuck sweep expires their runs, and commits. *)
LEMMA ExpireRunsKeeps ==
  ASSUME PoolInv, NEW s \in Sessions, ExpireRuns(s)
  PROVE  PoolInv'
<1>. DEFINE t     == tx[s]
            stuck == t.stuck
            more  == [r \in stuck |-> RunRowIn("EXPIRED")]
            w     == WriteRuns(t, more)
<1>0. /\ SessionOK(t, jobRows, runRows) /\ TxTypes(t) /\ IsTx(t)
      /\ t.next = "expireRuns" /\ ExpiringRuns(t, jobRows) /\ stuck \subseteq PgRunIds
      /\ runRows \in [PgRunIds -> RunRow] /\ jobRows \in [PgRunIds -> JobRow] /\ claims \in [PgRunIds -> Nat]
      /\ \A q \in PgRunIds : jobRows[q] \in JobRow /\ RowOK(runRows[q], jobRows[q], claims[q])
  BY SessionFacts DEF ExpireRuns, At, SessionOK, TxTypes, Progress
<1>1. Commit(s, w) /\ claims' = claims /\ \A r \in stuck : RunFree(s, r)
  BY DEF ExpireRuns
<1>2. RunRowIn("EXPIRED") \in RunRow /\ RunRowIn("EXPIRED").state = "EXPIRED"
  BY DEF RunRowIn, RunRow, PgTerminalStates
<1>3. DOMAIN more = stuck /\ \A r \in stuck : more[r] = RunRowIn("EXPIRED")
  OBVIOUS
<1>. HIDE DEF more
<1>5. w.jobWrites = t.jobWrites /\ w.runWrites = Merged(t.runWrites, more)
  BY <1>0 DEF IsTx, WriteRuns
<1>. HIDE DEF w
<1>6. DOMAIN w.runWrites = stuck /\ \A r \in stuck : w.runWrites[r] = RunRowIn("EXPIRED")
  BY <1>0, <1>3, <1>5 DEF Merged, ExpiringRuns
<1>7. \A r \in DOMAIN t.jobWrites : JobWriteOK(t, r, jobRows)
  BY <1>0 DEF SessionOK
<1>8. ASSUME NEW q \in PgRunIds
      PROVE  RowOK(IF q \in DOMAIN w.runWrites THEN w.runWrites[q] ELSE runRows[q],
                   IF q \in DOMAIN w.jobWrites THEN w.jobWrites[q] ELSE jobRows[q], claims'[q])
  <2>1. CASE q \in DOMAIN t.jobWrites
    <3>1. /\ t.jobWrites[q].attempt = jobRows[q].attempt /\ t.jobWrites[q].state = "failed"
          /\ q \in stuck
      BY <1>0, <1>7, <2>1 DEF JobWriteOK, ExpiringRuns
    <3>. QED
      BY <1>0, <1>1, <1>2, <1>5, <1>6, <2>1, <3>1 DEF RowOK, RowActive, PgActiveStates
  <2>2. CASE q \in stuck \ DOMAIN t.jobWrites
    <3>1. jobRows[q].state \in Settled
      BY <1>0, <2>2 DEF ExpiringRuns
    <3>. QED
      BY <1>0, <1>1, <1>2, <1>5, <1>6, <2>2, <3>1 DEF RowOK, RowActive, PgActiveStates, Settled
  <2>3. CASE q \notin stuck
    BY <1>0, <1>1, <1>5, <1>6, <2>3 DEF ExpiringRuns
  <2>. QED
    BY <2>1, <2>2, <2>3
<1>9. \A q \in DOMAIN w.jobWrites :
        /\ JobFree(s, q) /\ w.jobWrites[q] \in JobRow /\ w.jobWrites[q].state # "absent"
        /\ RowActive(w.jobWrites[q]) => RowActive(jobRows[q])
  BY <1>0, <1>5, <1>7, OwnLocks DEF TxTypes, JobWriteOK
<1>10. DOMAIN w.jobWrites \subseteq PgRunIds
  BY <1>0, <1>5 DEF TxTypes
<1>. QED
  BY <1>0, <1>1, <1>2, <1>6, <1>8, <1>9, <1>10, CommitKeeps

-----------------------------------------------------------------------------
(* Single statements and time *)

\* A change of the rows that every open transaction allows.
LEMMA RowsChange ==
  ASSUME PoolInv, tx' = tx, Rows',
         \A t \in Sessions : RowsStep(tx[t], jobRows, runRows, jobRows', runRows')
  PROVE  PoolInv'
<1>1. \A t \in Sessions : SessionOK(tx'[t], jobRows', runRows')
  BY OtherSession DEF PoolInv
<1>. QED
  BY <1>1 DEF PoolInv, LocksExclusive

(* Admission inserts a run and its queued job. *)
LEMMA CreateKeeps ==
  ASSUME PoolInv, NEW r \in PgRunIds, PgCreateRunAndEnqueue(r)
  PROVE  PoolInv'
<1>. DEFINE new == [jobRows[r] EXCEPT !.state = "queued"]
<1>0. /\ runRows \in [PgRunIds -> RunRow] /\ jobRows \in [PgRunIds -> JobRow] /\ claims \in [PgRunIds -> Nat]
      /\ \A q \in PgRunIds : jobRows[q] \in JobRow /\ RowOK(runRows[q], jobRows[q], claims[q])
      /\ \A t \in Sessions : tx[t].jobLocks \subseteq PgRunIds /\ tx[t].runLocks \subseteq PgRunIds
  BY DEF PoolInv, Rows, SessionOK, TxTypes
<1>1. runRows[r].state = "absent" /\ jobRows[r].state = "absent" /\ ~jobRows[r].canceled
  BY <1>0 DEF PgCreateRunAndEnqueue, RowOK
<1>2. /\ new \in JobRow /\ new.state = "queued" /\ new.attempt = jobRows[r].attempt
      /\ new.canceled = jobRows[r].canceled
  <2>1. jobRows[r] \in JobRow
    BY <1>0
  <2>. QED
    BY <2>1 DEF JobRow
<1>3. RunRowIn("QUEUED") \in RunRow /\ RunRowIn("QUEUED").state = "QUEUED"
  BY DEF RunRowIn, RunRow, PgActiveStates
<1>4. /\ runRows' = [runRows EXCEPT ![r] = RunRowIn("QUEUED")] /\ jobRows' = [jobRows EXCEPT ![r] = new]
      /\ tx' = tx /\ claims' = claims
  BY DEF PgCreateRunAndEnqueue
<1>. HIDE DEF new
<1>5. Rows'
  BY <1>0, <1>1, <1>2, <1>3, <1>4 DEF Rows, RowOK, RowActive, PgActiveStates
<1>6. \A t \in Sessions : RowsStep(tx[t], jobRows, runRows, jobRows', runRows')
  BY <1>0, <1>1, <1>2, <1>3, <1>4 DEF RowsStep, Settled
<1>. QED
  BY <1>4, <1>5, <1>6, RowsChange

\* A change of a job that leaves its state, its attempt and its flag alone.
LEMMA JobTimes ==
  ASSUME PoolInv, NEW r \in PgRunIds, NEW new \in JobRow,
         new.state = jobRows[r].state, new.attempt = jobRows[r].attempt,
         new.canceled = jobRows[r].canceled,
         jobRows' = [jobRows EXCEPT ![r] = new], UNCHANGED <<runRows, tx, claims>>
  PROVE  PoolInv'
<1>0. /\ runRows \in [PgRunIds -> RunRow] /\ jobRows \in [PgRunIds -> JobRow] /\ claims \in [PgRunIds -> Nat]
      /\ \A q \in PgRunIds : RowOK(runRows[q], jobRows[q], claims[q])
      /\ \A t \in Sessions : tx[t].jobLocks \subseteq PgRunIds /\ tx[t].runLocks \subseteq PgRunIds
  BY DEF PoolInv, Rows, SessionOK, TxTypes
<1>1. jobRows' \in [PgRunIds -> JobRow] /\ \A q \in PgRunIds : jobRows'[q] = IF q = r THEN new ELSE jobRows[q]
  BY <1>0
<1>2. Rows'
  BY <1>0, <1>1 DEF Rows, RowOK, RowActive
<1>3. \A t \in Sessions : RowsStep(tx[t], jobRows, runRows, jobRows', runRows')
  BY <1>0, <1>1 DEF RowsStep
<1>. QED
  BY <1>2, <1>3, RowsChange

(* A heartbeat renews a lease and changes nothing else. *)
LEMMA HeartbeatKeeps ==
  ASSUME PoolInv, NEW s \in Sessions, NEW r \in PgRunIds, NEW n, PgHeartbeatJob(s, r, n)
  PROVE  PoolInv'
<1>. DEFINE new  == [jobRows[r] EXCEPT !.lease = "live", !.stale = FALSE]
            more == [q \in {r} |-> new]
            u    == WriteJobs(tx[s], more)
            w    == Fire(u)
            v    == [w EXCEPT !.next = "commit"]
<1>0. /\ tx[s] = Idle /\ jobRows[r] \in JobRow /\ jobRows[r].state = "running"
      /\ RowOK(runRows[r], jobRows[r], claims[r])
  BY SessionFacts DEF PgHeartbeatJob, Owns
<1>1. /\ new \in JobRow /\ new.state = "running" /\ new.attempt = jobRows[r].attempt
  BY <1>0 DEF JobRow
<1>2. Continue(s, w, "commit") /\ JobFree(s, r)
  BY DEF PgHeartbeatJob
<1>m. DOMAIN more = {r} /\ more[r] = new
  OBVIOUS
<1>. HIDE DEF more, new
<1>u. /\ IsTx(u)
      /\ TxIs(u, "idle", {}, "FAILED", {}, {r}, {}, Merged(Idle.jobWrites, more), Idle.runWrites)
  BY <1>0, <1>m, IdleFields DEF TxIs, IsTx, WriteJobs
<1>. HIDE DEF u
<1>3. /\ IsTx(w) /\ w.jobLocks = {r} /\ w.runLocks = {}
      /\ TxIs(v, "commit", {}, "FAILED", {}, {r}, {}, Merged(Idle.jobWrites, more), Idle.runWrites)
  BY <1>u, TxFireNext DEF TxIs
<1>. HIDE DEF v, w
<1>4. DOMAIN v.jobWrites = {r} /\ v.jobWrites[r] = new /\ DOMAIN v.runWrites = {}
  BY <1>3, <1>m, IdleFields DEF TxIs, Merged
<1>5. TxTypes(v)
  BY <1>1, <1>3, <1>4 DEF TxTypes, TxIs, Statements
<1>6. JobWriteOK(v, r, jobRows)
  BY <1>0, <1>1, <1>3, <1>4 DEF JobWriteOK, TxIs, RowActive
<1>7. Committing(v, jobRows, runRows)
  BY <1>0, <1>1, <1>4 DEF Committing
<1>8. SessionOK(v, jobRows, runRows)
  BY <1>3, <1>4, <1>5, <1>6, <1>7 DEF SessionOK, Progress, TxIs
<1>. QED
  BY <1>2, <1>3, <1>8, StatementKeeps DEF v

(* The passing of time changes no state of a row. *)
LEMMA TimeKeeps ==
  ASSUME PoolInv, Time
  PROVE  PoolInv'
<1>. PICK r \in PgRunIds : LeaseRunsOut(r) \/ JobGrowsStale(r) \/ RunGrowsStale(r)
  BY DEF Time
<1>0. /\ runRows \in [PgRunIds -> RunRow] /\ jobRows \in [PgRunIds -> JobRow] /\ claims \in [PgRunIds -> Nat]
      /\ jobRows[r] \in JobRow /\ runRows[r] \in RunRow
      /\ \A q \in PgRunIds : RowOK(runRows[q], jobRows[q], claims[q])
      /\ \A t \in Sessions : tx[t].jobLocks \subseteq PgRunIds /\ tx[t].runLocks \subseteq PgRunIds
  BY DEF PoolInv, Rows, SessionOK, TxTypes
<1>1. CASE LeaseRunsOut(r)
  <2>. DEFINE new == [jobRows[r] EXCEPT !.lease = "expired"]
  <2>1. /\ new \in JobRow /\ new.state = jobRows[r].state /\ new.attempt = jobRows[r].attempt
        /\ new.canceled = jobRows[r].canceled
    BY <1>0 DEF JobRow
  <2>2. jobRows' = [jobRows EXCEPT ![r] = new] /\ UNCHANGED <<runRows, tx, claims>>
    BY <1>1 DEF LeaseRunsOut
  <2>. HIDE DEF new
  <2>. QED
    BY <2>1, <2>2, JobTimes
<1>2. CASE JobGrowsStale(r)
  <2>. DEFINE new == [jobRows[r] EXCEPT !.stale = TRUE]
  <2>1. /\ new \in JobRow /\ new.state = jobRows[r].state /\ new.attempt = jobRows[r].attempt
        /\ new.canceled = jobRows[r].canceled
    BY <1>0 DEF JobRow
  <2>2. jobRows' = [jobRows EXCEPT ![r] = new] /\ UNCHANGED <<runRows, tx, claims>>
    BY <1>2 DEF JobGrowsStale
  <2>. HIDE DEF new
  <2>. QED
    BY <2>1, <2>2, JobTimes
<1>3. CASE RunGrowsStale(r)
  <2>. DEFINE new == [runRows[r] EXCEPT !.stale = TRUE]
  <2>1. new \in RunRow /\ new.state = runRows[r].state
    BY <1>0 DEF RunRow
  <2>2. runRows' = [runRows EXCEPT ![r] = new] /\ UNCHANGED <<jobRows, tx, claims>>
    BY <1>3 DEF RunGrowsStale
  <2>. HIDE DEF new
  <2>3. runRows' \in [PgRunIds -> RunRow] /\ \A q \in PgRunIds : runRows'[q] = IF q = r THEN new ELSE runRows[q]
    BY <1>0, <2>1, <2>2
  <2>4. Rows'
    BY <1>0, <2>1, <2>2, <2>3 DEF Rows, RowOK, PgActiveStates
  <2>5. \A t \in Sessions : RowsStep(tx[t], jobRows, runRows, jobRows', runRows')
    BY <1>0, <2>1, <2>2, <2>3 DEF RowsStep
  <2>. QED
    BY <2>2, <2>4, <2>5, RowsChange
<1>. QED
  BY <1>1, <1>2, <1>3
-----------------------------------------------------------------------------
(* The invariant *)

\* Init establishes the invariant: nothing is stored and nobody is connected.
LEMMA PoolInvInit == PoolInit => PoolInv
<1>. SUFFICES ASSUME PoolInit PROVE PoolInv
  OBVIOUS
<1>1. Rows
  <2>1. [state |-> "absent", stale |-> FALSE] \in RunRow
    BY DEF RunRow
  <2>2. [state |-> "absent", attempt |-> 0, lease |-> "none", canceled |-> FALSE,
         stale |-> FALSE] \in JobRow
    BY PoolAssumption DEF JobRow
  <2>. QED
    BY <2>1, <2>2 DEF PoolInit, Rows, RowOK, RowActive, PgActiveStates
<1>2. tx = [s \in Sessions |-> tx[s]] /\ \A s \in Sessions : tx[s] = Idle
  BY DEF PoolInit
<1>. QED
  BY <1>1, <1>2, IdleOK, IdleFields DEF PoolInv, LocksExclusive, TxIs

\* Every statement, commit, rollback and passage of time keeps it.
LEMMA PoolInvNext == PoolInv /\ [PoolNext]_poolVars => PoolInv'
<1>. SUFFICES ASSUME PoolInv, [PoolNext]_poolVars PROVE PoolInv'
  OBVIOUS
<1>1. ASSUME NEW r \in PgRunIds, PgCreateRunAndEnqueue(r) PROVE PoolInv'
  BY <1>1, CreateKeeps
<1>2. ASSUME NEW s \in Sessions, Begin(s) PROVE PoolInv'
  BY <1>2, ClaimCanceledKeeps, CancelJobKeeps, CancelRunKeeps, HeartbeatKeeps, CompleteJobKeeps,
     ExpireSelectKeeps DEF Begin
<1>3. ASSUME NEW s \in Sessions, Resume(s) PROVE PoolInv'
  <2>1. CASE ClaimNothing(s)
    BY <2>1, RollbackKeeps DEF ClaimNothing
  <2>. QED
    BY <1>3, <2>1, BumpKeeps, CommitTxKeeps, ClaimCanceledRunsKeeps, ClaimRequeueKeeps,
       ClaimSelectKeeps, ClaimRunKeeps, CompleteRunKeeps, CancelJobRunKeeps, CancelJobWriteKeeps,
       CancelRunJobsKeeps, ExpireJobsKeeps, ExpireRunsKeeps
       DEF Resume
<1>4. ASSUME NEW s \in Sessions, Rollback(s) PROVE PoolInv'
  BY <1>4, RollbackKeeps DEF Rollback
<1>5. CASE Time
  BY <1>5, TimeKeeps
<1>6. CASE UNCHANGED poolVars
  <2>1. runRows' = runRows /\ jobRows' = jobRows /\ claims' = claims /\ tx' = tx
    BY <1>6 DEF poolVars
  <2>. QED
    BY <2>1 DEF PoolInv, Rows, LocksExclusive
<1>. QED
  BY <1>1, <1>2, <1>3, <1>4, <1>5, <1>6 DEF PoolNext, AbortDeadlocked

\* Whatever the transactions of the pool do and in whatever order, the rows
\* agree, every transaction has written only rows it holds, and what it has
\* written is still right when it commits.
THEOREM PoolInvHolds == SafetySpec => []PoolInv
BY PoolInvInit, PoolInvNext, PTL DEF SafetySpec

\* The rows, committed and about to be, have the types of their columns.
THEOREM PoolTypeOK == SafetySpec => []PgTypeOK
<1>1. PoolInv => PgTypeOK
  <2>. SUFFICES ASSUME PoolInv PROVE PgTypeOK
    OBVIOUS
  <2>1. \A s \in Sessions : TxTypes(tx[s])
    BY DEF PoolInv, SessionOK
  <2>. QED
    BY <2>1 DEF PoolInv, Rows, TxTypes, IsTx, PgTypeOK
<1>. QED
  BY <1>1, PoolInvHolds, PTL

\* The committed run and its committed job agree on whether there is work to do.
THEOREM RowsAgreeHolds == SafetySpec => []RowsAgree
<1>1. PoolInv => RowsAgree
  BY DEF PoolInv, Rows, RowOK, RowsAgree
<1>. QED
  BY <1>1, PoolInvHolds, PTL

\* Every claim that committed has an attempt number of its own.
THEOREM EveryClaimCountedHolds == SafetySpec => []EveryClaimCounted
<1>1. PoolInv => EveryClaimCounted
  BY DEF PoolInv, Rows, RowOK, EveryClaimCounted
<1>. QED
  BY <1>1, PoolInvHolds, PTL

\* A job that was asked to stop never returns to the queue and never succeeds.
THEOREM CanceledJobNeverRunsHolds == SafetySpec => []PgCanceledJobNeverRuns
<1>1. PoolInv => PgCanceledJobNeverRuns
  BY DEF PoolInv, Rows, RowOK, PgCanceledJobNeverRuns
<1>. QED
  BY <1>1, PoolInvHolds, PTL
-----------------------------------------------------------------------------
(* The published lifecycle *)

\* Merging rows into the runs a transaction has written, and committing them.
LEMMA CommittedRuns ==
  ASSUME runRows \in [PgRunIds -> RunRow], NEW s, NEW t, IsTx(t), NEW more, NEW q \in PgRunIds,
         Commit(s, WriteRuns(t, more))
  PROVE  runRows'[q] = IF q \in DOMAIN more THEN more[q]
                    ELSE IF q \in DOMAIN t.runWrites THEN t.runWrites[q] ELSE runRows[q]
<1>1. WriteRuns(t, more).runWrites = Merged(t.runWrites, more)
  BY DEF WriteRuns, IsTx
<1>. QED
  BY <1>1 DEF Commit, Over, Merged

\* What commits leaves a run where it was or moves it along an edge, except
\* that the sweep may expire a run in any state.
LEMMA RunsMove ==
  ASSUME PoolInv, PoolNext, NEW q \in PgRunIds
  PROVE  Moves(runRows[q].state, runRows'[q].state)
<1>0. /\ runRows \in [PgRunIds -> RunRow] /\ runRows[q] \in RunRow /\ jobRows[q] \in JobRow
      /\ RowOK(runRows[q], jobRows[q], claims[q])
  BY DEF PoolInv, Rows
<1>1. CASE runRows' = runRows
  BY <1>1, CommittedMoves
<1>2. ASSUME NEW r \in PgRunIds, PgCreateRunAndEnqueue(r)
      PROVE  Moves(runRows[q].state, runRows'[q].state)
  <2>1. /\ runRows[r].state = "absent" /\ runRows' = [runRows EXCEPT ![r] = RunRowIn("QUEUED")]
        /\ RunRowIn("QUEUED").state = "QUEUED"
    BY <1>2 DEF PgCreateRunAndEnqueue, RunRowIn
  <2>. QED
    BY <1>0, <2>1, CommittedMoves
<1>3. ASSUME NEW s \in Sessions, NEW r \in PgRunIds, ClaimRun(s, r)
      PROVE  Moves(runRows[q].state, runRows'[q].state)
  <2>. DEFINE t      == tx[s]
              starts == {p \in {r} : RunsOf(s)[p].state \in {"QUEUED", "RESUMING"}}
              more   == [p \in starts |-> RunRowIn("RUNNING")]
  <2>0. IsTx(t) /\ Claiming(t, jobRows) /\ r \notin DOMAIN t.runWrites
    BY <1>3, SessionFacts DEF ClaimRun, At, SessionOK, Progress, ClaimEnds
  <2>1. runRows'[q] = IF q \in DOMAIN more THEN more[q]
                   ELSE IF q \in DOMAIN t.runWrites THEN t.runWrites[q] ELSE runRows[q]
    <3>1. Commit(s, WriteRuns(t, more))
      BY <1>3 DEF ClaimRun
    <3>. HIDE DEF more
    <3>. QED
      BY <1>0, <2>0, <3>1, CommittedRuns
  <2>2. CASE q \in starts
    <3>1. q = r /\ RunsOf(s)[q].state \in {"QUEUED", "RESUMING"}
      BY <2>2
    <3>2. RunsOf(s)[q] = runRows[q]
      BY <1>0, <2>0, <3>1 DEF RunsOf, Over
    <3>3. more[q] = RunRowIn("RUNNING") /\ q \in DOMAIN more
      BY <2>2
    <3>4. runRows'[q].state = "RUNNING"
      BY <2>1, <3>3 DEF RunRowIn
    <3>. QED
      BY <3>1, <3>2, <3>4, CommittedMoves
  <2>3. CASE q \notin starts /\ q \in DOMAIN t.runWrites
    <3>1. runRows'[q].state = "CANCELED" /\ jobRows[q].state = "running"
      BY <2>0, <2>1, <2>3 DEF Claiming
    <3>2. runRows[q].state = "RUNNING"
      BY <1>0, <3>1 DEF RowOK
    <3>. QED
      BY <3>1, <3>2, CommittedMoves
  <2>4. CASE q \notin starts /\ q \notin DOMAIN t.runWrites
    BY <2>1, <2>4, CommittedMoves
  <2>. QED
    BY <2>2, <2>3, <2>4
<1>4. ASSUME NEW s \in Sessions, CommitTx(s)
      PROVE  Moves(runRows[q].state, runRows'[q].state)
  <2>0. Committing(tx[s], jobRows, runRows) /\ Commit(s, tx[s])
    BY <1>4, SessionFacts DEF CommitTx, At, SessionOK, Progress
  <2>1. runRows'[q] = IF q \in DOMAIN tx[s].runWrites THEN tx[s].runWrites[q] ELSE runRows[q]
    BY <1>0, <2>0 DEF Commit, Over
  <2>. QED
    BY <2>0, <2>1, CommittedMoves DEF Committing
<1>5. ASSUME NEW s \in Sessions, NEW r \in PgRunIds, CancelJobWrite(s, r)
      PROVE  Moves(runRows[q].state, runRows'[q].state)
  <2>. DEFINE t    == tx[s]
              new  == IF jobRows[r].state = "running" THEN AskedToStop(jobRows[r])
                                                   ELSE PgCanceledJob(jobRows[r])
              more == [p \in {r} |-> new]
              u    == WriteJobs(t, more)
              gone == [p \in {r} |-> RunRowIn("CANCELED")]
  <2>0. IsTx(t) /\ DOMAIN t.runWrites = {} /\ RowOK(runRows[r], jobRows[r], claims[r])
    BY <1>5, SessionFacts DEF CancelJobWrite, At, SessionOK, Progress, CancelingJob
  <2>1. \/ Commit(s, u)
        \/ jobRows[r].state = "queued" /\ Commit(s, WriteRuns(u, gone))
    BY <1>5 DEF CancelJobWrite, AskedToStop
  <2>2. DOMAIN gone = {r} /\ gone[r] = RunRowIn("CANCELED") /\ RunRowIn("CANCELED").state = "CANCELED"
    BY DEF RunRowIn
  <2>. HIDE DEF more, gone
  <2>3. IsTx(u) /\ u.runWrites = t.runWrites
    BY <2>0 DEF IsTx, WriteJobs
  <2>. HIDE DEF u
  <2>5. CASE Commit(s, u)
    BY <1>0, <2>0, <2>3, <2>5, CommittedMoves DEF Commit, Over
  <2>6. CASE jobRows[r].state = "queued" /\ Commit(s, WriteRuns(u, gone))
    <3>1. runRows'[q] = IF q = r THEN RunRowIn("CANCELED") ELSE runRows[q]
      BY <1>0, <2>0, <2>2, <2>3, <2>6, CommittedRuns
    <3>2. runRows[r].state \in PgActiveStates
      BY <2>0, <2>6 DEF RowOK, RowActive
    <3>. QED
      BY <2>2, <3>1, <3>2, CommittedMoves
  <2>. QED
    BY <2>1, <2>5, <2>6
<1>6. ASSUME NEW s \in Sessions, NEW r \in PgRunIds, CancelJobRun(s, r)
      PROVE  Moves(runRows[q].state, runRows'[q].state)
  <2>. DEFINE t == tx[s]
              u == [t EXCEPT !.runLocks = {r}]
  <2>0. IsTx(t) /\ DOMAIN t.runWrites = {}
    BY <1>6, SessionFacts DEF CancelJobRun, At, SessionOK, Progress, CancelingJob
  <2>1. u.runWrites = t.runWrites
    BY <2>0 DEF IsTx
  <2>2. Commit(s, u) \/ runRows' = runRows
    BY <1>6 DEF CancelJobRun, Continue
  <2>. HIDE DEF u
  <2>3. runRows' = runRows
    BY <1>0, <2>0, <2>1, <2>2 DEF Commit, Over
  <2>. QED
    BY <1>1, <2>3
<1>7. ASSUME NEW s \in Sessions, ExpireRuns(s)
      PROVE  Moves(runRows[q].state, runRows'[q].state)
  <2>. DEFINE t    == tx[s]
              more == [r \in t.stuck |-> RunRowIn("EXPIRED")]
  <2>0. IsTx(t) /\ DOMAIN t.runWrites = {}
    BY <1>7, SessionFacts DEF ExpireRuns, At, SessionOK, Progress, ExpiringRuns
  <2>1. Commit(s, WriteRuns(t, more))
    BY <1>7 DEF ExpireRuns
  <2>2. /\ DOMAIN more = t.stuck /\ \A r \in t.stuck : more[r] = RunRowIn("EXPIRED")
        /\ RunRowIn("EXPIRED").state = "EXPIRED"
    BY DEF RunRowIn
  <2>. HIDE DEF more
  <2>3. runRows'[q] = IF q \in t.stuck THEN RunRowIn("EXPIRED") ELSE runRows[q]
    BY <1>0, <2>0, <2>1, <2>2, CommittedRuns
  <2>. QED
    BY <2>2, <2>3, CommittedMoves
<1>8. CASE Time
  <2>. PICK r \in PgRunIds : LeaseRunsOut(r) \/ JobGrowsStale(r) \/ RunGrowsStale(r)
    BY <1>8 DEF Time
  <2>1. CASE LeaseRunsOut(r) \/ JobGrowsStale(r)
    BY <1>1, <2>1 DEF LeaseRunsOut, JobGrowsStale
  <2>2. CASE RunGrowsStale(r)
    <3>1. runRows[r] \in RunRow
      BY <1>0
    <3>2. [runRows[r] EXCEPT !.stale = TRUE].state = runRows[r].state
      BY <3>1 DEF RunRow
    <3>3. runRows'[q].state = runRows[q].state
      BY <1>0, <2>2, <3>2 DEF RunGrowsStale
    <3>. QED
      BY <3>3, CommittedMoves
  <2>. QED
    BY <2>1, <2>2
<1>9. ASSUME NEW s \in Sessions, Begin(s) \/ Resume(s) \/ Rollback(s)
      PROVE  Moves(runRows[q].state, runRows'[q].state)
  <2>1. CASE Begin(s) \/ Rollback(s)
    BY <1>1, <2>1 DEF Begin, Rollback, ClaimCanceled, PgCancelJob, PgCancelRun, PgHeartbeatJob,
                      CompleteJob, ExpireSelect, Continue
  <2>2. CASE BumpQueueSnapshot(s) \/ ClaimRequeue(s) \/ ClaimNothing(s) \/ ExpireJobs(s)
    BY <1>1, <2>2 DEF BumpQueueSnapshot, ClaimRequeue, ClaimNothing, ExpireJobs, Continue
  <2>3. ASSUME NEW r \in PgRunIds,
               \/ ClaimCanceledRuns(s, r) \/ ClaimSelect(s, r) \/ CompleteRun(s, r)
               \/ CancelRunJobs(s, r)
        PROVE  Moves(runRows[q].state, runRows'[q].state)
    BY <1>1, <2>3 DEF ClaimCanceledRuns, ClaimSelect, CompleteRun, CancelRunJobs, Continue
  <2>. QED
    BY <1>3, <1>4, <1>5, <1>6, <1>7, <1>9, <2>1, <2>2, <2>3 DEF Resume
<1>. QED
  BY <1>2, <1>8, <1>9 DEF PoolNext, AbortDeadlocked

\* Overlapping transactions never take a run off the published lifecycle; only
\* the sweep, which names runs by identifier, may expire one in any state.
THEOREM PoolFollowsLifecycle == SafetySpec => PgFollowsLifecycle
<1>. DEFINE A == \A r \in PgRunIds :
                   \/ runRows'[r].state \in {runRows[r].state, "EXPIRED"}
                   \/ <<runRows[r].state, runRows'[r].state>> \in PgLifecycle!Edges
<1>1. PoolInv /\ PoolNext => A
  BY RunsMove DEF Moves
<1>2. PoolInv /\ [PoolNext]_poolVars => [A]_poolVars
  BY <1>1
<1>. QED
  BY <1>2, PoolInvHolds, PTL DEF SafetySpec, PgFollowsLifecycle
=============================================================================
