--------------------------- MODULE OpaqueIngress ---------------------------
(***************************************************************************)
(* The opaque HTTP ingress of one route: the projections an operator       *)
(* prepares (credential snapshots, publication revisions, activations) and *)
(* the invocations that are resolved against them and admitted.            *)
(*                                                                         *)
(* A projection operation is one update of LocalStore and resolution is    *)
(* one read of it.  Admission comes after, in steps of its own: the run of *)
(* the delivery, the active release and the enqueue are separate calls, so *)
(* releases, activations, revocations and the retry of the same delivery   *)
(* may come between.  The key of a delivery holds the route generation and *)
(* the credential; one delivery identifier is enough here.                 *)
(*                                                                         *)
(* Digests, HTTP metadata and replays of recorded operations are left out, *)
(* and time to whether a projection is past its notAfter.  Retention and   *)
(* aborted admissions of runs are RunQueue's, promotion is Releases'.      *)
(***************************************************************************)
EXTENDS Integers, Sequences, FiniteSets

CONSTANTS
  ReleaseIds,       \* releases of the app
  Snapshots,        \* credential snapshots
  Revisions,        \* publication revisions
  ReleasePin,       \* the release each revision pins
  CredentialRefs,   \* the snapshots each revision refers to
  Invocations,      \* invocations served at once
  MaxGenerations    \* bound on the activations

ASSUME OpaqueIngressAssumption ==
  /\ ReleasePin \in [Revisions -> ReleaseIds]
  /\ CredentialRefs \in [Revisions -> SUBSET Snapshots]
  /\ MaxGenerations \in Nat

VARIABLES
  liveRelease,   \* the active release of the app
  snapshot,      \* OpaqueIngressCredentials and their revocations
  revision,      \* OpaqueIngressPublications
  activations,   \* OpaqueIngressActivations; the last one is the head
  ingressRun,    \* the run of each delivery key, by its release
  invocation     \* the handler of each invocation

projectionVars == <<snapshot, revision, activations>>
ingressVars == <<liveRelease, projectionVars, ingressRun, invocation>>

-----------------------------------------------------------------------------
NoRelease == "none"

\* RouteGeneration and CredentialRef of a trusted ingress context.
DeliveryKeys == (1..MaxGenerations) \X Snapshots

NoInvocation == [step |-> "none", key |-> <<0, "none">>, pin |-> NoRelease, release |-> NoRelease]

IngressInit ==
  /\ liveRelease \in ReleaseIds
  /\ snapshot = [k \in Snapshots |-> "none"]
  /\ revision = [p \in Revisions |-> "none"]
  /\ activations = <<>>
  /\ ingressRun = [d \in DeliveryKeys |-> NoRelease]
  /\ invocation = [q \in Invocations |-> NoInvocation]

\* PublishRelease or RollbackRelease of the app.
ChangeRelease(r) ==
  /\ liveRelease # r
  /\ liveRelease' = r
  /\ UNCHANGED <<projectionVars, ingressRun, invocation>>

-----------------------------------------------------------------------------
(* The projections *)

PutCredentialSnapshot(k) ==
  /\ snapshot[k] = "none"
  /\ snapshot' = [snapshot EXCEPT ![k] = "fresh"]
  /\ UNCHANGED <<liveRelease, revision, activations, ingressRun, invocation>>

RevokeCredentialSnapshot(k) ==
  /\ snapshot[k] \in {"fresh", "expired"}
  /\ snapshot' = [snapshot EXCEPT ![k] = "revoked"]
  /\ UNCHANGED <<liveRelease, revision, activations, ingressRun, invocation>>

\* The snapshots it refers to exist and are not revoked; their freshness is not asked.
PutPublicationRevision(p) ==
  /\ revision[p] = "none"
  /\ \A k \in CredentialRefs[p] : snapshot[k] \in {"fresh", "expired"}
  /\ revision' = [revision EXCEPT ![p] = "fresh"]
  /\ UNCHANGED <<liveRelease, snapshot, activations, ingressRun, invocation>>

\* Time passes the notAfter of a projection.
Expire ==
  /\ \/ \E k \in Snapshots : /\ snapshot[k] = "fresh"
                             /\ snapshot' = [snapshot EXCEPT ![k] = "expired"]
                             /\ UNCHANGED revision
     \/ \E p \in Revisions : /\ revision[p] = "fresh"
                             /\ revision' = [revision EXCEPT ![p] = "expired"]
                             /\ UNCHANGED snapshot
  /\ UNCHANGED <<liveRelease, activations, ingressRun, invocation>>

\* validateLocalOpaqueIngressPublication
ValidPublication(p) ==
  /\ liveRelease = ReleasePin[p]
  /\ revision[p] = "fresh"
  /\ \A k \in CredentialRefs[p] : snapshot[k] = "fresh"

\* Activation of a revision, by a promotion or, on an existing head, by a
\* rollback: both append a generation.
ActivatePublication(p) ==
  /\ Len(activations) < MaxGenerations
  /\ ValidPublication(p)
  /\ activations' = Append(activations, [revision |-> p, state |-> "active"])
  /\ UNCHANGED <<liveRelease, snapshot, revision, ingressRun, invocation>>

\* A revocation appends a generation that closes the head.
RevokePublication ==
  /\ Len(activations) \in 1..(MaxGenerations - 1)
  /\ LET head == activations[Len(activations)].revision IN
       /\ revision[head] # "none"
       /\ activations' = Append(activations, [revision |-> head, state |-> "revoked"])
  /\ UNCHANGED <<liveRelease, snapshot, revision, ingressRun, invocation>>

\* Mutant: only what the head serves is retained.
HeadRevision ==
  {activations[g].revision : g \in {g \in DOMAIN activations : g = Len(activations)}}

\* The revisions of the whole activation history.
ActivatedRevisions == {activations[g].revision : g \in DOMAIN activations}

\* Retention deletes revisions that are expired and were never activated, then
\* snapshots that are expired, not revoked, and not referred to by what is
\* left; the cutoff and the limit of the request choose among them.
PruneProjectionHistory ==
  /\ \E gone \in SUBSET {p \in Revisions : revision[p] = "expired" /\ p \notin ActivatedRevisions} :
       LET referenced == UNION {CredentialRefs[p] : p \in {p \in Revisions \ gone : revision[p] # "none"}}
       IN \E dropped \in SUBSET {k \in Snapshots : snapshot[k] = "expired" /\ k \notin referenced} :
            /\ gone # {} \/ dropped # {}
            /\ revision' = [p \in Revisions |-> IF p \in gone THEN "none" ELSE revision[p]]
            /\ snapshot' = [k \in Snapshots |-> IF k \in dropped THEN "none" ELSE snapshot[k]]
  /\ UNCHANGED <<liveRelease, activations, ingressRun, invocation>>

-----------------------------------------------------------------------------
(* The invocations *)

\* ResolveOpaqueIngressProjection for generation g and credential k.
Resolved(g, k) ==
  /\ g = Len(activations)
  /\ activations[g].state = "active"
  /\ LET p == activations[g].revision IN
       /\ revision[p] = "fresh"
       /\ k \in CredentialRefs[p]
       /\ snapshot[k] = "fresh"
       /\ liveRelease = ReleasePin[p]

\* A request that is not resolved is refused and leaves no trace.
ResolveInvocation(q, g, k) ==
  /\ invocation[q].step \in {"none", "answered"}
  /\ g \in DOMAIN activations
  /\ Resolved(g, k)
  /\ invocation' = [invocation EXCEPT ![q] =
       [step |-> "lookup", key |-> <<g, k>>, pin |-> ReleasePin[activations[g].revision],
        release |-> NoRelease]]
  /\ UNCHANGED <<liveRelease, projectionVars, ingressRun>>

\* ActiveReleasePrecondition.matches
Matches(q, release) == release = invocation[q].pin

\* Mutant: admission takes whatever release is active.
AnyRelease(q, release) == TRUE

\* The precondition on the release that a new run is made from.
ActiveReleaseMatches(q, release) == Matches(q, release)

\* The invocation is answered with the run of its key, or refused.
Answer(q, release) ==
  invocation' = [invocation EXCEPT ![q] =
    IF Matches(q, release) THEN [@ EXCEPT !.step = "answered", !.release = release]
    ELSE NoInvocation]

\* CreateRun looks for the run of the delivery first.
LookupRun(q) ==
  /\ invocation[q].step = "lookup"
  /\ LET found == ingressRun[invocation[q].key] IN
       IF found # NoRelease THEN Answer(q, found)
       ELSE invocation' = [invocation EXCEPT ![q].step = "deployment"]
  /\ UNCHANGED <<liveRelease, projectionVars, ingressRun>>

\* lookupDeployment, and the precondition; the input is validated against the
\* schemas of this deployment.
LookupDeployment(q) ==
  /\ invocation[q].step = "deployment"
  /\ invocation' = [invocation EXCEPT ![q] =
       IF ActiveReleaseMatches(q, liveRelease)
       THEN [@ EXCEPT !.step = "enqueue", !.release = liveRelease] ELSE NoInvocation]
  /\ UNCHANGED <<liveRelease, projectionVars, ingressRun>>

\* CreateRunAndEnqueue; on a conflict the run that got there first is the answer.
EnqueueRun(q) ==
  /\ invocation[q].step = "enqueue"
  /\ LET key == invocation[q].key IN
       IF ingressRun[key] = NoRelease
       THEN /\ ingressRun' = [ingressRun EXCEPT ![key] = invocation[q].release]
            /\ invocation' = [invocation EXCEPT ![q].step = "answered"]
       ELSE Answer(q, ingressRun[key]) /\ UNCHANGED ingressRun
  /\ UNCHANGED <<liveRelease, projectionVars>>

\* The caller goes away, its deadline passes, or a step fails: the run stays.
GiveUp(q) ==
  /\ invocation[q].step # "none"
  /\ invocation' = [invocation EXCEPT ![q] = NoInvocation]
  /\ UNCHANGED <<liveRelease, projectionVars, ingressRun>>

IngressNext ==
  \/ \E r \in ReleaseIds : ChangeRelease(r)
  \/ \E k \in Snapshots : PutCredentialSnapshot(k) \/ RevokeCredentialSnapshot(k)
  \/ \E p \in Revisions : PutPublicationRevision(p) \/ ActivatePublication(p)
  \/ Expire \/ RevokePublication \/ PruneProjectionHistory
  \/ \E q \in Invocations :
       \/ \E g \in 1..MaxGenerations, k \in Snapshots : ResolveInvocation(q, g, k)
       \/ LookupRun(q) \/ LookupDeployment(q) \/ EnqueueRun(q) \/ GiveUp(q)

IngressSpec == IngressInit /\ [][IngressNext]_ingressVars

-----------------------------------------------------------------------------
\* Type correctness of the projections and the invocations.
IngressTypeOK ==
  /\ liveRelease \in ReleaseIds
  /\ snapshot \in [Snapshots -> {"none", "fresh", "expired", "revoked"}]
  /\ revision \in [Revisions -> {"none", "fresh", "expired"}]
  /\ activations \in Seq([revision : Revisions, state : {"active", "revoked"}])
  /\ Len(activations) <= MaxGenerations
  /\ ingressRun \in [DeliveryKeys -> ReleaseIds \cup {NoRelease}]
  /\ invocation \in [Invocations ->
       [step : {"none", "lookup", "deployment", "enqueue", "answered"},
        key : DeliveryKeys \cup {<<0, "none">>},
        pin : ReleaseIds \cup {NoRelease}, release : ReleaseIds \cup {NoRelease}]]

\* The run of a delivery is of the release that the revision of its route
\* generation pins, whatever release was promoted or rolled back between the
\* resolution, the look-up and the enqueue; and an invocation is answered with
\* that run, also when a retry of the delivery admitted it.
AdmittedReleaseIsPinned ==
  /\ \A g \in DOMAIN activations, k \in Snapshots :
       ingressRun[<<g, k>>] \in {NoRelease, ReleasePin[activations[g].revision]}
  /\ \A q \in Invocations : invocation[q].step = "answered" =>
       ingressRun[invocation[q].key] = invocation[q].release

\* Whatever retention deletes, every revision of the activation history and
\* every credential snapshot it refers to is still there, so that a generation
\* can be audited; and a rollback that comes while the revision is fresh
\* activates one whose credentials exist.
ActivatedHistoryIsKept ==
  \A g \in DOMAIN activations : LET p == activations[g].revision IN
    revision[p] # "none" /\ \A k \in CredentialRefs[p] : snapshot[k] # "none"
=============================================================================
