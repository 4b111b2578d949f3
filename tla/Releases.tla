------------------------------ MODULE Releases ------------------------------
(***************************************************************************)
(* One Git source and the app it provides: synchronization of revisions,   *)
(* publication of releases, rollback, and the operation lease by which the *)
(* replicas of the control plane exclude each other.                       *)
(*                                                                         *)
(* A synchronization or a deployment is a handler of several steps under   *)
(* the lease of the source; a goroutine renews the lease and cancels the   *)
(* handler when it cannot.  Nothing fences the writes themselves: a        *)
(* replica that stalls outlives its lease.  Rollback does not take the     *)
(* lease.  The catalog is that of LocalStore, whose updates are atomic,    *)
(* the lease that of PostgresStore; the contents of a revision, its bundle *)
(* and the audit are left out.  The event a publication or a rollback puts *)
(* into the outbox is an event of WebhookOutbox.                           *)
(*                                                                         *)
(* The date of a candidate is the clock of the replica that synchronized   *)
(* it.  Here dates grow in the order in which candidates are saved, as they *)
(* do while the clocks of the replicas differ by less than two successive  *)
(* synchronizations are apart.                                             *)
(***************************************************************************)
EXTENDS Integers, Sequences, FiniteSets

CONSTANTS
  Commits,       \* revisions the remote branch may point to
  Asked,         \* what requests expect: commits, or "none"
  Replicas,      \* replicas of the control plane
  SourceTicks,   \* sourceOperationLeaseTTL
  MaxReleases    \* bound on the history

ASSUME ReleasesAssumption ==
  /\ IsFiniteSet(Commits) /\ Asked \subseteq Commits \cup {"none"}
  /\ SourceTicks \in Nat \ {0} /\ MaxReleases \in Nat

VARIABLES
  candidates,    \* when each commit was first synchronized, 0: never
  history,       \* the commits of the releases, oldest first
  activeId,      \* index of the active release, 0: none
  sourceMarker,  \* the commit of the source that was released last
  sourceLease,   \* holder and time left
  operation,     \* the handler in progress on each replica
  rollback,      \* the release a rollback on each replica has validated, 0: none
  outlived,      \* history: a handler outlived its lease
  lastSynced     \* history: the commit of the latest synchronization, once it is done

catalogVars == <<candidates, history, activeId, sourceMarker>>
releaseVars == <<catalogVars, sourceLease, operation, rollback, outlived, lastSynced>>

-----------------------------------------------------------------------------
NoCommit == "none"
NoReplica == "none"
NoOperation == [step |-> "none", expected |-> NoCommit, commit |-> NoCommit]

ReleasesInit ==
  /\ candidates = [c \in Commits |-> 0]
  /\ history = <<>>
  /\ activeId = 0
  /\ sourceMarker = NoCommit
  /\ sourceLease = [holder |-> NoReplica, left |-> 0]
  /\ operation = [r \in Replicas |-> NoOperation]
  /\ rollback = [r \in Replicas |-> 0]
  /\ outlived = FALSE
  /\ lastSynced = NoCommit

Synchronized == {c \in Commits : candidates[c] > 0}

\* GetLatestReleaseCandidate: by the time of the first synchronization.
IsLatest(c) ==
  c \in Synchronized /\ \A d \in Synchronized : candidates[d] <= candidates[c]

-----------------------------------------------------------------------------
(* The lease of the source *)

\* Mutant: the lease of another holder is taken before it has run out.
LeaseOpen == sourceLease.left <= 1

\* AcquireSourceOperationLease
LeaseFree == sourceLease.left = 0

\* acquireGitSourceOperation: one operation of a replica, then one of all.
Begin(r, step, expected) ==
  /\ operation[r] = NoOperation
  /\ LeaseFree
  /\ sourceLease' = [holder |-> r, left |-> SourceTicks]
  /\ operation' = [operation EXCEPT ![r] =
       [NoOperation EXCEPT !.step = step, !.expected = expected]]
  /\ UNCHANGED <<catalogVars, rollback, outlived, lastSynced>>

HasLease(r) == sourceLease.holder = r /\ sourceLease.left > 0

\* The renewing goroutine: only a lease that has not run out is renewed, else
\* the context of the handler is canceled; an error of the store also cancels it.
RenewSourceOperationLease(r) ==
  /\ operation[r].step \notin {"none", "canceled"}
  /\ \/ /\ HasLease(r)
        /\ sourceLease' = [sourceLease EXCEPT !.left = SourceTicks]
        /\ UNCHANGED operation
     \/ /\ operation' = [operation EXCEPT ![r] = [NoOperation EXCEPT !.step = "canceled"]]
        /\ UNCHANGED sourceLease
  /\ UNCHANGED <<catalogVars, rollback, outlived, lastSynced>>

\* The lease as the end of an operation leaves it.
ReleasedLease(r) ==
  IF sourceLease.holder = r THEN [holder |-> NoReplica, left |-> 0] ELSE sourceLease

\* The handler ends: done, refused, failed or canceled.
Finish(r) ==
  /\ operation' = [operation EXCEPT ![r] = NoOperation]
  /\ sourceLease' = ReleasedLease(r)

Abort(r) ==
  /\ operation[r] # NoOperation
  /\ Finish(r)
  /\ UNCHANGED <<catalogVars, rollback, outlived, lastSynced>>

CrashReplica(r) ==
  /\ operation[r] # NoOperation
  /\ operation' = [operation EXCEPT ![r] = NoOperation]
  /\ UNCHANGED <<catalogVars, sourceLease, rollback, outlived, lastSynced>>

SourceTick ==
  /\ sourceLease.left > 0
  /\ sourceLease' = [sourceLease EXCEPT !.left = @ - 1]
  /\ outlived' = (outlived \/ (sourceLease.left = 1 /\ operation[sourceLease.holder] # NoOperation))
  /\ UNCHANGED <<catalogVars, operation, rollback, lastSynced>>

-----------------------------------------------------------------------------
(* Synchronization *)

\* A call of the store or of Git under a context that is still alive: a canceled
\* handler only ends.
AtStep(r, step) == operation[r].step = step

\* Sync resolves the branch, which anybody may push to or reset at any time,
\* clones, validates and materializes that commit; a commit other than the
\* expected one is refused.
ResolveBranchCommit(r, c) ==
  /\ AtStep(r, "resolve")
  /\ operation[r].expected \in {NoCommit, c}
  /\ operation' = [operation EXCEPT ![r] = [@ EXCEPT !.step = "save", !.commit = c]]
  /\ UNCHANGED <<catalogVars, sourceLease, rollback, outlived, lastSynced>>

\* Mutant: every synchronization dates the candidate anew.
SavedAgain(c) == [candidates EXCEPT ![c] = 1 + Cardinality(Synchronized)]

\* A candidate that exists is kept as it is.
Saved(c) ==
  IF c \in Synchronized THEN candidates
  ELSE [candidates EXCEPT ![c] = 1 + Cardinality(Synchronized)]

SaveReleaseCandidate(r) ==
  /\ AtStep(r, "save")
  /\ candidates' = Saved(operation[r].commit)
  /\ operation' = [operation EXCEPT ![r].step = "mark"]
  /\ lastSynced' = NoCommit
  /\ UNCHANGED <<history, activeId, sourceMarker, sourceLease, rollback, outlived>>

\* What it writes on the source is shown and read by none of the operations here.
MarkSynced(r) ==
  /\ AtStep(r, "mark")
  /\ Finish(r)
  /\ lastSynced' = operation[r].commit
  /\ UNCHANGED <<catalogVars, rollback, outlived>>

-----------------------------------------------------------------------------
(* Publication *)

\* ValidateReleaseCandidate
ExpectedCandidate(r, c) == operation[r].expected \in {NoCommit, c}

\* The latest candidate is read, compared and checked against the policies.
GetLatestReleaseCandidate(r) ==
  /\ AtStep(r, "latest")
  /\ \E c \in Commits :
       /\ IsLatest(c)
       /\ ExpectedCandidate(r, c)
       /\ operation' = [operation EXCEPT ![r] = [@ EXCEPT !.step = "build", !.commit = c]]
  /\ UNCHANGED <<catalogVars, sourceLease, rollback, outlived, lastSynced>>

\* BuildExecutionBundle and ValidateExecutionBundle take their time.
BuildExecutionBundle(r) ==
  /\ AtStep(r, "build")
  /\ operation' = [operation EXCEPT ![r].step = "publish"]
  /\ UNCHANGED <<catalogVars, sourceLease, rollback, outlived, lastSynced>>

PublishRelease(r) ==
  /\ AtStep(r, "publish")
  /\ Len(history) < MaxReleases
  /\ history' = Append(history, operation[r].commit)
  /\ activeId' = Len(history) + 1
  /\ sourceMarker' = operation[r].commit
  /\ Finish(r)
  /\ UNCHANGED <<candidates, rollback, outlived, lastSynced>>

-----------------------------------------------------------------------------
(* Rollback *)

\* handleCanonicalReleaseRollback reads the catalog and validates the bundle...
ValidateRollback(r, i) ==
  /\ rollback[r] = 0
  /\ i # activeId
  /\ rollback' = [rollback EXCEPT ![r] = i]
  /\ UNCHANGED <<catalogVars, sourceLease, operation, outlived, lastSynced>>

\* ... and the store applies it, or finds the release active meanwhile.
ApplyReleaseRollback(r) ==
  /\ rollback[r] # 0
  /\ rollback' = [rollback EXCEPT ![r] = 0]
  /\ IF rollback[r] = activeId THEN UNCHANGED <<activeId, sourceMarker>>
     ELSE activeId' = rollback[r] /\ sourceMarker' = history[rollback[r]]
  /\ UNCHANGED <<candidates, history, sourceLease, operation, outlived, lastSynced>>

ReleasesNext ==
  \/ SourceTick
  \/ \E r \in Replicas :
       \/ \E expected \in Asked :
            Begin(r, "resolve", expected) \/ Begin(r, "latest", expected)
       \/ \E i \in 1..Len(history) : ValidateRollback(r, i)
       \/ ApplyReleaseRollback(r)
       \/ RenewSourceOperationLease(r) \/ Abort(r) \/ CrashReplica(r)
       \/ \E c \in Commits : ResolveBranchCommit(r, c)
       \/ SaveReleaseCandidate(r) \/ MarkSynced(r)
       \/ GetLatestReleaseCandidate(r) \/ BuildExecutionBundle(r) \/ PublishRelease(r)

ReleasesSpec == ReleasesInit /\ [][ReleasesNext]_releaseVars

-----------------------------------------------------------------------------
\* Type correctness of the catalog, the lease and the handlers.
ReleasesTypeOK ==
  /\ candidates \in [Commits -> 0..Cardinality(Commits)]
  /\ sourceMarker \in Commits \cup {NoCommit}
  /\ history \in Seq(Commits) /\ Len(history) <= MaxReleases
  /\ activeId \in 0..Len(history) /\ rollback \in [Replicas -> 0..Len(history)]
  /\ sourceLease \in [holder : Replicas \cup {NoReplica}, left : 0..SourceTicks]
  /\ operation \in [Replicas ->
       [step : {"none", "resolve", "save", "mark", "latest", "build", "publish", "canceled"},
        expected : Commits \cup {NoCommit}, commit : Commits \cup {NoCommit}]]
  /\ outlived \in BOOLEAN
  /\ lastSynced \in Commits \cup {NoCommit}

\* A release that enters the history is the commit its deployment was asked for;
\* and as long as no handler outlived its lease, it is still the newest
\* candidate of the catalog at the moment it is published, though it was read
\* before the bundle was built: no synchronization, of this or of another
\* replica, crashed or not, came between.  The newest is the one whose first
\* synchronization is the latest; see DeploysLatestSync for the others.
PublishesWhatWasAsked ==
  [][\A r \in Replicas : history' = Append(history, operation[r].commit) /\
                         operation[r].step = "publish" /\ operation'[r] = NoOperation =>
       /\ operation[r].expected \in {NoCommit, operation[r].commit}
       /\ outlived \/ IsLatest(operation[r].commit)]_releaseVars

\* README.md of the repository: every synchronization records its revision as
\* the latest, and a deployment pins the latest synchronized revision.  The
\* code keeps the date of a commit's first synchronization
\* (SaveReleaseCandidate), so a branch that is reset to an earlier commit and
\* synchronized again is deployed as it was before the reset.
DeploysLatestSync ==
  \A r \in Replicas :
    operation[r].step = "publish" /\ ~outlived /\ lastSynced # NoCommit =>
      operation[r].commit = lastSynced
=============================================================================
