---------------------------- MODULE IngressProofs ----------------------------
(***************************************************************************)
(* Proofs about the public side of the control plane: OpaqueIngress, for   *)
(* every number of releases, projections and invocations, and              *)
(* RouteBindings, for every number of bindings, triggers and providers.    *)
(***************************************************************************)
EXTENDS OpaqueIngress, RouteBindings, TLAPS

-----------------------------------------------------------------------------
(* OpaqueIngress: the inductive invariant *)

Activation == [revision : Revisions, state : {"active", "revoked"}]

InvocationRecord ==
  [step : {"none", "lookup", "deployment", "enqueue", "answered"},
   key : DeliveryKeys \cup {<<0, "none">>},
   pin : ReleaseIds \cup {NoRelease}, release : ReleaseIds \cup {NoRelease}]

\* The release that the generation of a delivery key stands for.
PinOf(acts, d) == ReleasePin[acts[d[1]].revision]

\* What an invocation carries from one call to the next stays true of its
\* generation, which no later step can change.
InvocationOK(v, acts, rs) ==
  v.step # "none" =>
    /\ v.key \in DeliveryKeys /\ v.key[1] \in DOMAIN acts
    /\ v.pin = PinOf(acts, v.key)
    /\ v.step \in {"enqueue", "answered"} => v.release = v.pin
    /\ v.step = "answered" => rs[v.key] = v.release

\* A delivery key of a generation that does not exist yet has no run.
RunsArePinned(acts, rs) ==
  \A d \in DeliveryKeys :
    rs[d] # NoRelease => d[1] \in DOMAIN acts /\ rs[d] = PinOf(acts, d)

\* The snapshots of a revision are there as long as the revision.
ReferencesKept ==
  \A p \in Revisions : revision[p] # "none" =>
    \A k \in CredentialRefs[p] : snapshot[k] # "none"

ActivatedKept == \A g \in DOMAIN activations : revision[activations[g].revision] # "none"

IngressInv ==
  /\ IngressTypeOK
  /\ \A q \in Invocations : InvocationOK(invocation[q], activations, ingressRun)
  /\ RunsArePinned(activations, ingressRun)
  /\ ReferencesKept
  /\ ActivatedKept

(* What the type invariant says of each variable, element by element. *)
LEMMA IngressTypes ==
  ASSUME IngressTypeOK
  PROVE  /\ liveRelease \in ReleaseIds
         /\ snapshot \in [Snapshots -> {"none", "fresh", "expired", "revoked"}]
         /\ revision \in [Revisions -> {"none", "fresh", "expired"}]
         /\ activations \in Seq(Activation) /\ Len(activations) \in 0..MaxGenerations
         /\ DOMAIN activations = 1..Len(activations)
         /\ \A g \in DOMAIN activations : activations[g] \in Activation
         /\ \A g \in DOMAIN activations : activations[g].revision \in Revisions
         /\ ingressRun \in [DeliveryKeys -> ReleaseIds \cup {NoRelease}]
         /\ invocation \in [Invocations -> InvocationRecord]
         /\ \A q \in Invocations : invocation[q] \in InvocationRecord
<1>1. activations \in Seq(Activation) /\ Len(activations) <= MaxGenerations
  BY DEF IngressTypeOK, Activation
<1>2. Len(activations) \in 0..MaxGenerations /\ DOMAIN activations = 1..Len(activations)
      /\ \A g \in DOMAIN activations : activations[g] \in Activation
  BY <1>1, OpaqueIngressAssumption
<1>3. \A g \in DOMAIN activations : activations[g].revision \in Revisions
  BY <1>2 DEF Activation
<1>. QED
  BY <1>1, <1>2, <1>3 DEF IngressTypeOK, InvocationRecord

\* The snapshots of a revision are snapshots.
LEMMA RefsAreSnapshots ==
  ASSUME NEW p \in Revisions, NEW k, k \in CredentialRefs[p]
  PROVE  k \in Snapshots
<1>1. CredentialRefs[p] \in SUBSET Snapshots
  BY OpaqueIngressAssumption
<1>. QED
  BY <1>1

(* A delivery key is a generation and a credential snapshot. *)
LEMMA KeyOfGeneration ==
  ASSUME NEW d \in DeliveryKeys
  PROVE  d[1] \in 1..MaxGenerations /\ d[2] \in Snapshots
BY DEF DeliveryKeys

\* A new generation leaves the earlier ones as they are.
LEMMA NewGeneration ==
  ASSUME IngressTypeOK, NEW a \in Activation, Len(activations) < MaxGenerations,
         activations' = Append(activations, a)
  PROVE  /\ activations' \in Seq(Activation) /\ Len(activations') = Len(activations) + 1
         /\ DOMAIN activations' = DOMAIN activations \cup {Len(activations) + 1}
         /\ \A g \in DOMAIN activations : activations'[g] = activations[g]
         /\ activations'[Len(activations) + 1] = a
         /\ Len(activations) + 1 \notin DOMAIN activations
<1>1. activations \in Seq(Activation) /\ Len(activations) \in 0..MaxGenerations
      /\ DOMAIN activations = 1..Len(activations)
  BY IngressTypes
<1>2. Len(activations) \in Nat
  BY <1>1, OpaqueIngressAssumption
<1>3. activations' \in Seq(Activation) /\ Len(activations') = Len(activations) + 1
      /\ DOMAIN activations' = 1..Len(activations')
      /\ activations'[Len(activations) + 1] = a
  BY <1>1
<1>4. \A g \in 1..Len(activations) : activations'[g] = activations[g]
  BY <1>1
<1>5. 1..(Len(activations) + 1) = 1..Len(activations) \cup {Len(activations) + 1}
      /\ Len(activations) + 1 \notin 1..Len(activations)
  BY <1>2
<1>. QED
  BY <1>1, <1>3, <1>4, <1>5

(* Nothing is projected, activated or admitted at the start. *)
LEMMA IngressInvInit ==
  ASSUME IngressInit
  PROVE  IngressInv
<1>1. DOMAIN activations = {} /\ activations \in Seq(Activation) /\ Len(activations) = 0
  BY DEF IngressInit
<1>2. NoInvocation \in InvocationRecord /\ NoInvocation.step = "none"
  BY DEF NoInvocation, InvocationRecord, NoRelease
<1>3. IngressTypeOK
  BY <1>1, <1>2, OpaqueIngressAssumption DEF IngressInit, IngressTypeOK, InvocationRecord, Activation
<1>. QED
  BY <1>1, <1>2, <1>3
     DEF IngressInit, IngressInv, InvocationOK, RunsArePinned, ReferencesKept, ActivatedKept

-----------------------------------------------------------------------------
(* Every step keeps it *)

\* Releases change behind the back of the invocations.
LEMMA ReleaseChanges ==
  ASSUME IngressInv, NEW r \in ReleaseIds, ChangeRelease(r)
  PROVE  IngressInv'
<1>1. liveRelease' \in ReleaseIds
      /\ UNCHANGED <<snapshot, revision, activations, ingressRun, invocation>>
  BY DEF ChangeRelease, projectionVars
<1>2. IngressTypeOK'
  BY <1>1 DEF IngressInv, IngressTypeOK
<1>3. ReferencesKept' /\ ActivatedKept'
  BY <1>1 DEF IngressInv, ReferencesKept, ActivatedKept
<1>. QED
  BY <1>1, <1>2, <1>3 DEF IngressInv

\* A step of the projections that keeps the history of activations.
LEMMA ProjectionMoves ==
  ASSUME IngressInv,
         UNCHANGED <<liveRelease, activations, ingressRun, invocation>>,
         snapshot' \in [Snapshots -> {"none", "fresh", "expired", "revoked"}],
         revision' \in [Revisions -> {"none", "fresh", "expired"}],
         ReferencesKept', ActivatedKept'
  PROVE  IngressInv'
<1>1. IngressTypeOK'
  BY DEF IngressInv, IngressTypeOK
<1>. QED
  BY <1>1 DEF IngressInv

(* Putting, revoking or expiring what the projection holds touches no activation
   and no invocation that resolved before. *)
LEMMA Projections ==
  ASSUME IngressInv,
         \/ \E k \in Snapshots : PutCredentialSnapshot(k) \/ RevokeCredentialSnapshot(k)
         \/ \E p \in Revisions : PutPublicationRevision(p)
         \/ Expire
  PROVE  IngressInv'
<1>1. UNCHANGED <<liveRelease, activations, ingressRun, invocation>>
  BY DEF PutCredentialSnapshot, RevokeCredentialSnapshot, PutPublicationRevision, Expire
<1>2. /\ snapshot \in [Snapshots -> {"none", "fresh", "expired", "revoked"}]
      /\ revision \in [Revisions -> {"none", "fresh", "expired"}]
      /\ \A g \in DOMAIN activations : activations[g].revision \in Revisions
      /\ ReferencesKept /\ ActivatedKept
  BY IngressTypes DEF IngressInv
<1>. DEFINE Goal == /\ snapshot' \in [Snapshots -> {"none", "fresh", "expired", "revoked"}]
                    /\ revision' \in [Revisions -> {"none", "fresh", "expired"}]
                    /\ \A k \in Snapshots : snapshot[k] # "none" => snapshot'[k] # "none"
                    /\ \A p \in Revisions : revision[p] # "none" => revision'[p] # "none"
                    /\ \A p \in Revisions : revision'[p] # "none" =>
                         \/ revision[p] # "none"
                         \/ \A k \in CredentialRefs[p] : snapshot'[k] # "none"
<1>3. ASSUME NEW k \in Snapshots, PutCredentialSnapshot(k) \/ RevokeCredentialSnapshot(k)
      PROVE  Goal
  BY <1>2, <1>3 DEF PutCredentialSnapshot, RevokeCredentialSnapshot
<1>4. ASSUME NEW p \in Revisions, PutPublicationRevision(p)
      PROVE  Goal
  BY <1>2, <1>4 DEF PutPublicationRevision
<1>5. ASSUME Expire
      PROVE  Goal
  <2>1. ASSUME NEW k \in Snapshots, snapshot[k] = "fresh",
               snapshot' = [snapshot EXCEPT ![k] = "expired"], UNCHANGED revision
        PROVE  Goal
    BY <1>2, <2>1
  <2>2. ASSUME NEW p \in Revisions, revision[p] = "fresh",
               revision' = [revision EXCEPT ![p] = "expired"], UNCHANGED snapshot
        PROVE  Goal
    BY <1>2, <2>2
  <2>. HIDE DEF Goal
  <2>. QED
    BY <1>5, <2>1, <2>2 DEF Expire
<1>6. Goal
  <2>. HIDE DEF Goal
  <2>. QED
    BY <1>3, <1>4, <1>5
<1>7. ReferencesKept'
  <2>1. ASSUME NEW p \in Revisions, revision'[p] # "none", NEW k, k \in CredentialRefs[p]
        PROVE  snapshot'[k] # "none"
    <3>1. k \in CredentialRefs[p] /\ k \in Snapshots
      BY <2>1, RefsAreSnapshots
    <3>2. CASE revision[p] # "none"
      <4>1. snapshot[k] # "none"
        BY <1>2, <3>1, <3>2 DEF ReferencesKept
      <4>. QED
        BY <4>1, <3>1, <1>6
    <3>3. CASE revision[p] = "none"
      BY <2>1, <3>1, <3>3, <1>6
    <3>. QED
      BY <3>2, <3>3
  <2>. QED
    BY <2>1 DEF ReferencesKept
<1>8. ActivatedKept'
  BY <1>1, <1>2, <1>6 DEF ActivatedKept
<1>. QED
  BY <1>1, <1>6, <1>7, <1>8, ProjectionMoves

\* Retention spares the history and what it refers to.
LEMMA ProjectionRetention ==
  ASSUME IngressInv, PruneProjectionHistory
  PROVE  IngressInv'
<1>1. UNCHANGED <<liveRelease, activations, ingressRun, invocation>>
  BY DEF PruneProjectionHistory
<1>2. PICK gone \in SUBSET {p \in Revisions : revision[p] = "expired" /\ p \notin ActivatedRevisions} :
        \E dropped \in SUBSET Snapshots :
          /\ \A p \in Revisions \ gone : revision[p] # "none" =>
               \A k \in CredentialRefs[p] : k \notin dropped
          /\ revision' = [p \in Revisions |-> IF p \in gone THEN "none" ELSE revision[p]]
          /\ snapshot' = [k \in Snapshots |-> IF k \in dropped THEN "none" ELSE snapshot[k]]
  BY DEF PruneProjectionHistory
<1>3. PICK dropped \in SUBSET Snapshots :
          /\ \A p \in Revisions \ gone : revision[p] # "none" =>
               \A k \in CredentialRefs[p] : k \notin dropped
          /\ revision' = [p \in Revisions |-> IF p \in gone THEN "none" ELSE revision[p]]
          /\ snapshot' = [k \in Snapshots |-> IF k \in dropped THEN "none" ELSE snapshot[k]]
  BY <1>2
<1>4. /\ snapshot \in [Snapshots -> {"none", "fresh", "expired", "revoked"}]
      /\ revision \in [Revisions -> {"none", "fresh", "expired"}]
      /\ \A g \in DOMAIN activations : activations[g].revision \in Revisions
      /\ ReferencesKept /\ ActivatedKept
  BY IngressTypes DEF IngressInv
<1>5. ASSUME NEW p \in Revisions, revision'[p] # "none", NEW k, k \in CredentialRefs[p]
      PROVE  snapshot'[k] # "none"
  <2>1. p \notin gone /\ revision[p] # "none" /\ k \in CredentialRefs[p] /\ k \in Snapshots
    <3>1. p \notin gone /\ revision[p] # "none"
      BY <1>3, <1>5
    <3>2. k \in CredentialRefs[p] /\ k \in Snapshots
      BY <1>5, RefsAreSnapshots
    <3>. QED
      BY <3>1, <3>2
  <2>2. snapshot[k] # "none"
    BY <1>4, <2>1 DEF ReferencesKept
  <2>3. k \notin dropped
    BY <1>3, <2>1, <1>5
  <2>. QED
    BY <1>3, <2>1, <2>2, <2>3
<1>6. ASSUME NEW g \in DOMAIN activations
      PROVE  revision'[activations[g].revision] # "none"
  <2>1. activations[g].revision \in ActivatedRevisions
    BY <1>6 DEF ActivatedRevisions
  <2>2. activations[g].revision \notin gone
    BY <2>1, <1>3
  <2>. QED
    BY <2>2, <1>3, <1>4 DEF ActivatedKept
<1>7. snapshot' \in [Snapshots -> {"none", "fresh", "expired", "revoked"}]
      /\ revision' \in [Revisions -> {"none", "fresh", "expired"}]
  BY <1>3, <1>4
<1>8. ReferencesKept' /\ ActivatedKept'
  BY <1>1, <1>5, <1>6 DEF ReferencesKept, ActivatedKept
<1>. QED
  BY <1>1, <1>7, <1>8, ProjectionMoves

\* An activation, a rollback or a revocation appends a generation.
LEMMA Activations ==
  ASSUME IngressInv,
         (\E p \in Revisions : ActivatePublication(p)) \/ RevokePublication
  PROVE  IngressInv'
<1>1. IngressTypeOK
  BY DEF IngressInv
<1>2. PICK a \in Activation : /\ Len(activations) < MaxGenerations
                              /\ activations' = Append(activations, a)
                              /\ revision[a.revision] # "none"
                              /\ UNCHANGED <<liveRelease, snapshot, revision, ingressRun, invocation>>
  <2>1. ASSUME NEW p \in Revisions, ActivatePublication(p)
        PROVE  \E a \in Activation : /\ Len(activations) < MaxGenerations
                              /\ activations' = Append(activations, a)
                              /\ revision[a.revision] # "none"
                              /\ UNCHANGED <<liveRelease, snapshot, revision, ingressRun, invocation>>
    <3>. DEFINE a == [revision |-> p, state |-> "active"]
    <3>1. a \in Activation /\ a.revision = p
      BY DEF Activation
    <3>2. /\ Len(activations) < MaxGenerations /\ activations' = Append(activations, a)
          /\ revision[p] # "none"
          /\ UNCHANGED <<liveRelease, snapshot, revision, ingressRun, invocation>>
      BY <2>1 DEF ActivatePublication, ValidPublication
    <3>. HIDE DEF a
    <3>. QED
      BY <3>1, <3>2
  <2>2. ASSUME RevokePublication
        PROVE  \E a \in Activation : /\ Len(activations) < MaxGenerations
                              /\ activations' = Append(activations, a)
                              /\ revision[a.revision] # "none"
                              /\ UNCHANGED <<liveRelease, snapshot, revision, ingressRun, invocation>>
    <3>. DEFINE h == activations[Len(activations)].revision
                a == [revision |-> h, state |-> "revoked"]
    <3>1. Len(activations) \in 1..(MaxGenerations - 1)
      BY <2>2 DEF RevokePublication
    <3>2. Len(activations) \in DOMAIN activations /\ Len(activations) < MaxGenerations
      BY <1>1, <3>1, IngressTypes, OpaqueIngressAssumption
    <3>3. h \in Revisions
      BY <1>1, <3>2, IngressTypes
    <3>4. /\ activations' = Append(activations, a) /\ revision[h] # "none"
          /\ UNCHANGED <<liveRelease, snapshot, revision, ingressRun, invocation>>
      BY <2>2 DEF RevokePublication
    <3>. HIDE DEF h
    <3>5. a \in Activation /\ a.revision = h
      BY <3>3 DEF Activation
    <3>. HIDE DEF a
    <3>. QED
      BY <3>2, <3>4, <3>5
  <2>. QED
    BY <2>1, <2>2
<1>3. /\ activations' \in Seq(Activation) /\ Len(activations') = Len(activations) + 1
      /\ DOMAIN activations' = DOMAIN activations \cup {Len(activations) + 1}
      /\ \A g \in DOMAIN activations : activations'[g] = activations[g]
      /\ activations'[Len(activations) + 1] = a
      /\ Len(activations) + 1 \notin DOMAIN activations
  BY <1>1, <1>2, NewGeneration
<1>4. IngressTypeOK'
  <2>1. Len(activations') <= MaxGenerations
    BY <1>1, <1>2, <1>3, IngressTypes, OpaqueIngressAssumption
  <2>. QED
    BY <1>1, <1>2, <1>3, <2>1 DEF IngressTypeOK, Activation
<1>5. \A d \in DeliveryKeys : d[1] \in DOMAIN activations =>
        d[1] \in DOMAIN activations' /\ PinOf(activations', d) = PinOf(activations, d)
  BY <1>3 DEF PinOf
<1>6. ASSUME NEW q \in Invocations
      PROVE  InvocationOK(invocation[q], activations', ingressRun)
  <2>1. InvocationOK(invocation[q], activations, ingressRun)
    BY DEF IngressInv
  <2>. QED
    BY <2>1, <1>5 DEF InvocationOK
<1>7. RunsArePinned(activations', ingressRun)
  BY <1>5 DEF IngressInv, RunsArePinned
<1>8. ActivatedKept'
  BY <1>2, <1>3 DEF IngressInv, ActivatedKept
<1>9. ReferencesKept'
  BY <1>2 DEF IngressInv, ReferencesKept
<1>. QED
  BY <1>2, <1>4, <1>6, <1>7, <1>8, <1>9 DEF IngressInv

\* A step of one invocation, and of the run of its delivery.
LEMMA OneInvocationMoves ==
  ASSUME IngressInv, NEW q \in Invocations, NEW v \in InvocationRecord,
         invocation' = [invocation EXCEPT ![q] = v],
         ingressRun' \in [DeliveryKeys -> ReleaseIds \cup {NoRelease}],
         RunsArePinned(activations, ingressRun'),
         InvocationOK(v, activations, ingressRun'),
         \A u \in Invocations : InvocationOK(invocation[u], activations, ingressRun'),
         UNCHANGED <<liveRelease, snapshot, revision, activations>>
  PROVE  IngressInv'
<1>1. invocation' \in [Invocations -> InvocationRecord]
      /\ \A u \in Invocations : invocation'[u] = IF u = q THEN v ELSE invocation[u]
  BY IngressTypes DEF IngressInv
<1>2. IngressTypeOK'
  BY <1>1 DEF IngressInv, IngressTypeOK, InvocationRecord
<1>3. \A u \in Invocations : InvocationOK(invocation'[u], activations, ingressRun')
  BY <1>1
<1>4. ReferencesKept' /\ ActivatedKept'
  BY DEF IngressInv, ReferencesKept, ActivatedKept
<1>. QED
  BY <1>2, <1>3, <1>4 DEF IngressInv
\* A step that gives no delivery a run.
LEMMA InvocationWithoutRun ==
  ASSUME IngressInv, NEW q \in Invocations, NEW v \in InvocationRecord,
         invocation' = [invocation EXCEPT ![q] = v],
         InvocationOK(v, activations, ingressRun),
         UNCHANGED <<liveRelease, snapshot, revision, activations, ingressRun>>
  PROVE  IngressInv'
<1>1. /\ ingressRun' \in [DeliveryKeys -> ReleaseIds \cup {NoRelease}]
      /\ RunsArePinned(activations, ingressRun')
      /\ InvocationOK(v, activations, ingressRun')
      /\ \A u \in Invocations : InvocationOK(invocation[u], activations, ingressRun')
  BY IngressTypes DEF IngressInv
<1>. QED
  BY <1>1, OneInvocationMoves

\* The facts every step of an invocation starts from.
LEMMA InvocationFacts ==
  ASSUME IngressInv, NEW q \in Invocations, invocation[q].step # "none"
  PROVE  /\ invocation[q] \in InvocationRecord
         /\ invocation[q].key \in DeliveryKeys /\ invocation[q].key[1] \in DOMAIN activations
         /\ invocation[q].pin = PinOf(activations, invocation[q].key)
         /\ invocation[q].step \in {"enqueue", "answered"} => invocation[q].release = invocation[q].pin
         /\ invocation[q].pin \in ReleaseIds
<1>1. invocation[q] \in InvocationRecord /\ InvocationOK(invocation[q], activations, ingressRun)
  BY IngressTypes DEF IngressInv
<1>2. invocation[q].key[1] \in DOMAIN activations
  BY <1>1 DEF InvocationOK
<1>3. activations[invocation[q].key[1]].revision \in Revisions
  BY <1>2, IngressTypes DEF IngressInv
<1>4. PinOf(activations, invocation[q].key) \in ReleaseIds
  BY <1>3, OpaqueIngressAssumption DEF PinOf
<1>. QED
  BY <1>1, <1>4 DEF InvocationOK

(* An invocation that is not under way has nothing to agree with. *)
LEMMA NoInvocationIsOK ==
  /\ NoInvocation \in InvocationRecord
  /\ \A acts, rs : InvocationOK(NoInvocation, acts, rs)
BY DEF NoInvocation, InvocationRecord, NoRelease, InvocationOK

(* Resolving an invocation pins the release of the generation it named. *)
LEMMA Resolutions ==
  ASSUME IngressInv, NEW q \in Invocations, NEW g \in 1..MaxGenerations, NEW k \in Snapshots,
         ResolveInvocation(q, g, k)
  PROVE  IngressInv'
<1>. DEFINE d == <<g, k>>
            pin == ReleasePin[activations[g].revision]
            v == [step |-> "lookup", key |-> d, pin |-> pin, release |-> NoRelease]
<1>1. g \in DOMAIN activations /\ UNCHANGED <<liveRelease, snapshot, revision, activations, ingressRun>>
      /\ invocation' = [invocation EXCEPT ![q] = v]
  BY DEF ResolveInvocation, projectionVars
<1>2. activations[g].revision \in Revisions
  BY <1>1, IngressTypes DEF IngressInv
<1>3. pin \in ReleaseIds
  BY <1>2, OpaqueIngressAssumption
<1>4. d \in DeliveryKeys /\ d[1] = g /\ pin = PinOf(activations, d)
  BY DEF DeliveryKeys, PinOf
<1>. HIDE DEF d, pin
<1>5. v \in InvocationRecord /\ v.step = "lookup" /\ v.key = d /\ v.pin = pin
  BY <1>3, <1>4 DEF InvocationRecord
<1>. HIDE DEF v
<1>6. InvocationOK(v, activations, ingressRun)
  BY <1>1, <1>4, <1>5 DEF InvocationOK
<1>. QED
  BY <1>1, <1>5, <1>6, InvocationWithoutRun

\* The answer is the run of the delivery, and of the pinned release.
LEMMA Answers ==
  ASSUME IngressInv, NEW q \in Invocations, invocation[q].step \in {"lookup", "enqueue"},
         ingressRun[invocation[q].key] # NoRelease,
         Answer(q, ingressRun[invocation[q].key]),
         UNCHANGED <<liveRelease, snapshot, revision, activations, ingressRun>>
  PROVE  IngressInv'
<1>. DEFINE old == invocation[q]
            found == ingressRun[old.key]
            v == [old EXCEPT !.step = "answered", !.release = found]
<1>1. /\ old \in InvocationRecord /\ old.key \in DeliveryKeys /\ old.key[1] \in DOMAIN activations
      /\ old.pin = PinOf(activations, old.key) /\ old.pin \in ReleaseIds
  BY InvocationFacts
<1>2. found = old.pin
  BY <1>1 DEF IngressInv, RunsArePinned
<1>3. invocation' = [invocation EXCEPT ![q] = v]
  BY <1>2 DEF Answer, Matches
<1>. HIDE DEF old, found
<1>4. /\ v \in InvocationRecord /\ v.step = "answered" /\ v.key = old.key
      /\ v.pin = old.pin /\ v.release = found
  BY <1>1, <1>2 DEF InvocationRecord
<1>. HIDE DEF v
<1>5. InvocationOK(v, activations, ingressRun)
  BY <1>1, <1>2, <1>4 DEF InvocationOK, found
<1>. QED
  BY <1>3, <1>4, <1>5, InvocationWithoutRun

(* Looking for an earlier run of the delivery key leaves the pin alone. *)
LEMMA Lookups ==
  ASSUME IngressInv, NEW q \in Invocations, LookupRun(q)
  PROVE  IngressInv'
<1>1. invocation[q].step = "lookup"
      /\ UNCHANGED <<liveRelease, snapshot, revision, activations, ingressRun>>
  BY DEF LookupRun, projectionVars
<1>2. CASE ingressRun[invocation[q].key] # NoRelease
  BY <1>1, <1>2, Answers DEF LookupRun
<1>3. CASE ingressRun[invocation[q].key] = NoRelease
  <2>. DEFINE old == invocation[q]
              v == [old EXCEPT !.step = "deployment"]
  <2>1. /\ old \in InvocationRecord /\ old.key \in DeliveryKeys /\ old.key[1] \in DOMAIN activations
        /\ old.pin = PinOf(activations, old.key)
    BY <1>1, InvocationFacts
  <2>2. invocation' = [invocation EXCEPT ![q] = v]
    BY <1>3, IngressTypes DEF LookupRun, IngressInv
  <2>. HIDE DEF old
  <2>3. /\ v \in InvocationRecord /\ v.step = "deployment" /\ v.key = old.key /\ v.pin = old.pin
    BY <2>1 DEF InvocationRecord
  <2>. HIDE DEF v
  <2>4. InvocationOK(v, activations, ingressRun)
    BY <2>1, <2>3 DEF InvocationOK
  <2>. QED
    BY <1>1, <2>2, <2>3, <2>4, InvocationWithoutRun
<1>. QED
  BY <1>2, <1>3

\* The deployment is taken only when it is of the pinned release.
LEMMA DeploymentLookups ==
  ASSUME IngressInv, NEW q \in Invocations, LookupDeployment(q)
  PROVE  IngressInv'
<1>1. invocation[q].step = "deployment"
      /\ UNCHANGED <<liveRelease, snapshot, revision, activations, ingressRun>>
  BY DEF LookupDeployment, projectionVars
<1>2. CASE liveRelease # invocation[q].pin
  <2>1. invocation' = [invocation EXCEPT ![q] = NoInvocation]
    BY <1>2 DEF LookupDeployment, ActiveReleaseMatches, Matches
  <2>. QED
    BY <1>1, <2>1, NoInvocationIsOK, InvocationWithoutRun
<1>3. CASE liveRelease = invocation[q].pin
  <2>. DEFINE old == invocation[q]
              v == [old EXCEPT !.step = "enqueue", !.release = liveRelease]
  <2>1. /\ old \in InvocationRecord /\ old.key \in DeliveryKeys /\ old.key[1] \in DOMAIN activations
        /\ old.pin = PinOf(activations, old.key) /\ old.pin \in ReleaseIds /\ liveRelease = old.pin
    BY <1>1, <1>3, InvocationFacts
  <2>2. invocation' = [invocation EXCEPT ![q] = v]
    BY <1>3 DEF LookupDeployment, ActiveReleaseMatches, Matches
  <2>. HIDE DEF old
  <2>3. /\ v \in InvocationRecord /\ v.step = "enqueue" /\ v.key = old.key /\ v.pin = old.pin
        /\ v.release = old.pin
    BY <2>1 DEF InvocationRecord
  <2>. HIDE DEF v
  <2>4. InvocationOK(v, activations, ingressRun)
    BY <2>1, <2>3 DEF InvocationOK
  <2>. QED
    BY <1>1, <2>2, <2>3, <2>4, InvocationWithoutRun
<1>. QED
  BY <1>2, <1>3

\* The first enqueue of a delivery gives it its run; what other invocations of
\* the delivery were answered with was that run.
LEMMA Enqueues ==
  ASSUME IngressInv, NEW q \in Invocations, EnqueueRun(q)
  PROVE  IngressInv'
<1>1. invocation[q].step = "enqueue" /\ UNCHANGED <<liveRelease, snapshot, revision, activations>>
  BY DEF EnqueueRun, projectionVars
<1>2. CASE ingressRun[invocation[q].key] # NoRelease
  BY <1>1, <1>2, Answers DEF EnqueueRun
<1>3. CASE ingressRun[invocation[q].key] = NoRelease
  <2>. DEFINE old == invocation[q]
              d == old.key
              v == [old EXCEPT !.step = "answered"]
  <2>1. /\ old \in InvocationRecord /\ d \in DeliveryKeys /\ d[1] \in DOMAIN activations
        /\ old.pin = PinOf(activations, d) /\ old.pin \in ReleaseIds /\ old.release = old.pin
    BY <1>1, InvocationFacts
  <2>2. ingressRun' = [ingressRun EXCEPT ![d] = old.release]
        /\ invocation' = [invocation EXCEPT ![q] = v]
    BY <1>3, IngressTypes DEF EnqueueRun, IngressInv
  <2>3. ingressRun \in [DeliveryKeys -> ReleaseIds \cup {NoRelease}]
    BY IngressTypes DEF IngressInv
  <2>. HIDE DEF old
  <2>4. /\ v \in InvocationRecord /\ v.step = "answered" /\ v.key = old.key /\ v.pin = old.pin
        /\ v.release = old.release
    BY <2>1 DEF InvocationRecord
  <2>. HIDE DEF v
  <2>5. /\ ingressRun' \in [DeliveryKeys -> ReleaseIds \cup {NoRelease}]
        /\ \A e \in DeliveryKeys : ingressRun'[e] = IF e = d THEN PinOf(activations, d) ELSE ingressRun[e]
    BY <2>1, <2>2, <2>3
  <2>6. RunsArePinned(activations, ingressRun')
    BY <2>1, <2>5 DEF IngressInv, RunsArePinned
  <2>7. InvocationOK(v, activations, ingressRun')
    BY <2>1, <2>4, <2>5 DEF InvocationOK
  <2>8. ASSUME NEW u \in Invocations
        PROVE  InvocationOK(invocation[u], activations, ingressRun')
    <3>1. InvocationOK(invocation[u], activations, ingressRun)
      BY DEF IngressInv
    <3>2. CASE invocation[u].step # "answered" \/ invocation[u].key # d
      BY <3>1, <3>2, <2>5 DEF InvocationOK
    <3>3. CASE invocation[u].step = "answered" /\ invocation[u].key = d
      <4>1. invocation[u].release = PinOf(activations, d)
        BY <3>1, <3>3 DEF InvocationOK
      <4>. QED
        BY <3>1, <3>3, <4>1, <2>1, <2>5 DEF InvocationOK
    <3>. QED
      BY <3>2, <3>3
  <2>. QED
    BY <1>1, <2>2, <2>4, <2>5, <2>6, <2>7, <2>8, OneInvocationMoves
<1>. QED
  BY <1>2, <1>3

(* An invocation that is given up forgets what it resolved. *)
LEMMA GivingUp ==
  ASSUME IngressInv, NEW q \in Invocations, GiveUp(q)
  PROVE  IngressInv'
<1>1. invocation' = [invocation EXCEPT ![q] = NoInvocation]
      /\ UNCHANGED <<liveRelease, snapshot, revision, activations, ingressRun>>
  BY DEF GiveUp, projectionVars
<1>. QED
  BY <1>1, NoInvocationIsOK, InvocationWithoutRun

\* The inductive invariant of the ingress.
THEOREM IngressInvHolds == IngressSpec => []IngressInv
<1>1. ASSUME IngressInv, IngressNext
      PROVE  IngressInv'
  <2>1. ASSUME NEW r \in ReleaseIds, ChangeRelease(r)
        PROVE  IngressInv'
    BY <1>1, <2>1, ReleaseChanges
  <2>2. CASE \/ \E k \in Snapshots : PutCredentialSnapshot(k) \/ RevokeCredentialSnapshot(k)
             \/ \E p \in Revisions : PutPublicationRevision(p)
             \/ Expire
    BY <1>1, <2>2, Projections
  <2>3. CASE (\E p \in Revisions : ActivatePublication(p)) \/ RevokePublication
    BY <1>1, <2>3, Activations
  <2>4. CASE PruneProjectionHistory
    BY <1>1, <2>4, ProjectionRetention
  <2>5. ASSUME NEW q \in Invocations,
               \/ \E g \in 1..MaxGenerations, k \in Snapshots : ResolveInvocation(q, g, k)
               \/ LookupRun(q) \/ LookupDeployment(q) \/ EnqueueRun(q) \/ GiveUp(q)
        PROVE  IngressInv'
    BY <1>1, <2>5, Resolutions, Lookups, DeploymentLookups, Enqueues, GivingUp
  <2>. QED
    BY <1>1, <2>1, <2>2, <2>3, <2>4, <2>5 DEF IngressNext
<1>2. IngressInv /\ UNCHANGED ingressVars => IngressInv'
  <2>1. ASSUME IngressInv, UNCHANGED ingressVars
        PROVE  IngressInv'
    <3>1. UNCHANGED <<liveRelease, snapshot, revision, activations, ingressRun, invocation>>
      BY <2>1 DEF ingressVars, projectionVars
    <3>. QED
      BY <2>1, <3>1 DEF IngressInv, IngressTypeOK, ReferencesKept, ActivatedKept
  <2>. QED
    BY <2>1
<1>. QED
  BY <1>1, <1>2, IngressInvInit, PTL DEF IngressSpec

\* The run of a delivery is of the release its route generation pins, and an
\* invocation is answered with that run, whatever is promoted in between.
THEOREM AdmittedReleaseIsPinnedHolds == IngressSpec => []AdmittedReleaseIsPinned
<1>1. ASSUME IngressInv
      PROVE  AdmittedReleaseIsPinned
  <2>1. ASSUME NEW g \in DOMAIN activations, NEW k \in Snapshots
        PROVE  ingressRun[<<g, k>>] \in {NoRelease, ReleasePin[activations[g].revision]}
    <3>1. g \in 1..MaxGenerations
      BY <1>1, IngressTypes, OpaqueIngressAssumption DEF IngressInv
    <3>2. <<g, k>> \in DeliveryKeys /\ PinOf(activations, <<g, k>>) = ReleasePin[activations[g].revision]
      BY <3>1 DEF DeliveryKeys, PinOf
    <3>. QED
      BY <1>1, <3>2 DEF IngressInv, RunsArePinned
  <2>2. ASSUME NEW q \in Invocations, invocation[q].step = "answered"
        PROVE  ingressRun[invocation[q].key] = invocation[q].release
    BY <1>1, <2>2 DEF IngressInv, InvocationOK
  <2>. QED
    BY <2>1, <2>2 DEF AdmittedReleaseIsPinned
<1>. QED
  BY <1>1, IngressInvHolds, PTL

\* Retention never deletes a revision of the activation history or a snapshot
\* it refers to.
THEOREM ActivatedHistoryIsKeptHolds == IngressSpec => []ActivatedHistoryIsKept
<1>1. ASSUME IngressInv
      PROVE  ActivatedHistoryIsKept
  <2>1. \A g \in DOMAIN activations : activations[g].revision \in Revisions
    BY <1>1, IngressTypes DEF IngressInv
  <2>. QED
    BY <1>1, <2>1 DEF IngressInv, ActivatedKept, ReferencesKept, ActivatedHistoryIsKept
<1>. QED
  BY <1>1, IngressInvHolds, PTL
-----------------------------------------------------------------------------
(* RouteBindings: the inductive invariant *)

BindingRecord ==
  [state : {"pending", "ready", "error", "deleting", "deleted"},
   trigger : RouteTriggers, wish : Wishes, generation : Nat, observed : Nat,
   deleteRequested : BOOLEAN]

ListedRecord == [id : Bindings, wish : Wishes, generation : Nat, deleteRequested : BOOLEAN]

Alive(r) == r.state \notin {"absent", "deleted"}

RouteTypes ==
  /\ routeTrigger \in [RouteTriggers -> {"live", "deleted"}]
  /\ binding = [b \in Bindings |-> binding[b]]
  /\ \A b \in Bindings : binding[b] = NoBinding \/ binding[b] \in BindingRecord
  /\ router \in [Routers -> SUBSET ListedRecord]
  /\ served = [b \in Bindings |-> served[b]]

\* A binding that is not to go has its trigger, and one that is said to be
\* ready is not to go and is served as it is wanted.
BindingOK(r, trs, w) ==
  /\ Alive(r) /\ ~r.deleteRequested => trs[r.trigger] = "live"
  /\ r.state = "ready" => ~r.deleteRequested /\ w = r.wish

\* What a provider listed of the present generation is the present wish.
ListedOK(l, r) ==
  /\ r # NoBinding /\ l.generation <= r.generation
  /\ l.generation = r.generation =>
       l.wish = r.wish /\ (r.deleteRequested => l.deleteRequested)

AddressesDiffer(bs) ==
  \A b, c \in Bindings : b # c /\ Alive(bs[b]) /\ Alive(bs[c]) =>
    bs[b].wish.address # bs[c].wish.address

RoutesInv ==
  /\ RouteTypes
  /\ \A b \in Bindings : BindingOK(binding[b], routeTrigger, served[b])
  /\ \A p \in Routers : \A l \in router[p] : ListedOK(l, binding[l.id])
  /\ AddressesDiffer(binding)

\* NoBinding is the record of no binding.
LEMMA NoBindingFacts ==
  /\ NoBinding.state = "absent" /\ NoBinding \notin BindingRecord
  /\ ~Alive(NoBinding)
BY DEF NoBinding, BindingRecord, Alive

(* There is no binding, and no provider has listed one, at the start. *)
LEMMA RoutesInvInit ==
  ASSUME RoutesInit
  PROVE  RoutesInv
<1>1. \A b \in Bindings : binding[b] = NoBinding
  BY DEF RoutesInit
<1>2. \A b \in Bindings : BindingOK(binding[b], routeTrigger, served[b])
  BY <1>1, NoBindingFacts DEF BindingOK
<1>3. AddressesDiffer(binding)
  BY <1>1, NoBindingFacts DEF AddressesDiffer
<1>4. \A p \in Routers : \A l \in router[p] : ListedOK(l, binding[l.id])
  BY DEF RoutesInit
<1>5. RouteTypes
  BY <1>1 DEF RoutesInit, RouteTypes
<1>. QED
  BY <1>2, <1>3, <1>4, <1>5 DEF RoutesInv

-----------------------------------------------------------------------------
(* Every step keeps it *)

\* A step on one binding keeps the invariant when it starts a new generation or
\* keeps the wish of the present one.
LEMMA OneBindingMoves ==
  ASSUME RoutesInv, NEW b \in Bindings, NEW r \in BindingRecord,
         binding' = [binding EXCEPT ![b] = r],
         \/ binding[b] = NoBinding
         \/ r.generation > binding[b].generation
         \/ /\ r.generation = binding[b].generation /\ r.wish = binding[b].wish
            /\ r.deleteRequested => binding[b].deleteRequested,
         Alive(r) => \A c \in Bindings \ {b} : Alive(binding[c]) =>
                       binding[c].wish.address # r.wish.address,
         served' = [c \in Bindings |-> served'[c]],
         \A c \in Bindings \ {b} : served'[c] = served[c],
         BindingOK(r, routeTrigger, served'[b]),
         router' \in [Routers -> SUBSET ListedRecord],
         \A p \in Routers : router'[p] \subseteq router[p],
         UNCHANGED routeTrigger
  PROVE  RoutesInv'
<1>1. /\ binding' = [c \in Bindings |-> binding'[c]]
      /\ \A c \in Bindings : binding'[c] = IF c = b THEN r ELSE binding[c]
  BY DEF RoutesInv, RouteTypes
<1>2. RouteTypes'
  BY <1>1 DEF RoutesInv, RouteTypes
<1>3. ASSUME NEW c \in Bindings
      PROVE  BindingOK(binding'[c], routeTrigger, served'[c])
  BY <1>1 DEF RoutesInv
<1>4. ASSUME NEW p \in Routers, NEW l, l \in router'[p]
      PROVE  ListedOK(l, binding'[l.id])
  <2>1. l \in ListedRecord /\ ListedOK(l, binding[l.id])
    BY <1>4 DEF RoutesInv
  <2>2. l.id \in Bindings /\ l.generation \in Nat
    BY <2>1 DEF ListedRecord
  <2>3. CASE l.id # b
    BY <2>1, <2>2, <2>3, <1>1
  <2>4. CASE l.id = b
    <3>1. binding'[l.id] = r /\ r # NoBinding
      BY <2>4, <1>1, NoBindingFacts
    <3>2. binding[b] # NoBinding /\ binding[b] \in BindingRecord
      BY <2>1, <2>4 DEF ListedOK, RoutesInv, RouteTypes
    <3>3. r.generation \in Nat /\ binding[b].generation \in Nat
      BY <3>2 DEF BindingRecord
    <3>. QED
      BY <2>1, <2>2, <2>4, <3>1, <3>2, <3>3 DEF ListedOK
  <2>. QED
    BY <2>3, <2>4
<1>5. AddressesDiffer(binding')
  <2>1. ASSUME NEW c \in Bindings, NEW d \in Bindings, c # d,
               Alive(binding'[c]), Alive(binding'[d])
        PROVE  binding'[c].wish.address # binding'[d].wish.address
    <3>1. CASE c # b /\ d # b
      BY <2>1, <3>1, <1>1 DEF RoutesInv, AddressesDiffer
    <3>2. CASE c = b
      BY <2>1, <3>2, <1>1
    <3>3. CASE d = b
      BY <2>1, <3>3, <1>1
    <3>. QED
      BY <3>1, <3>2, <3>3
  <2>. QED
    BY <2>1 DEF AddressesDiffer
<1>. QED
  BY <1>2, <1>3, <1>4, <1>5 DEF RoutesInv

\* What is left alone by operators.
LEMMA RouteSpectators ==
  ASSUME RoutesInv, UNCHANGED <<routeTrigger, router, served>>
  PROVE  /\ served' = [c \in Bindings |-> served'[c]]
         /\ router' \in [Routers -> SUBSET ListedRecord]
         /\ \A c \in Bindings : served'[c] = served[c]
         /\ \A p \in Routers : router'[p] \subseteq router[p]
BY DEF RoutesInv, RouteTypes

(* A new binding is pending, in a first generation nobody has listed. *)
LEMMA Creations ==
  ASSUME RoutesInv, NEW b \in Bindings, NEW t \in RouteTriggers, NEW w \in Wishes,
         CreateHTTPRouteBinding(b, t, w)
  PROVE  RoutesInv'
<1>. DEFINE r == [state |-> "pending", trigger |-> t, wish |-> w,
                  generation |-> 1, observed |-> 0, deleteRequested |-> FALSE]
<1>1. binding' = [binding EXCEPT ![b] = r] /\ UNCHANGED <<routeTrigger, router, served>>
  BY DEF CreateHTTPRouteBinding
<1>2. binding[b] = NoBinding
  BY DEF CreateHTTPRouteBinding, RoutesInv, RouteTypes, BindingRecord
<1>3. r \in BindingRecord /\ r.wish = w
  BY DEF BindingRecord
<1>4. BindingOK(r, routeTrigger, served'[b])
  BY DEF BindingOK, CreateHTTPRouteBinding
<1>. HIDE DEF r
<1>5. \A c \in Bindings \ {b} : Alive(binding[c]) => binding[c].wish.address # r.wish.address
  BY <1>3 DEF CreateHTTPRouteBinding, httpRouteBindingAddressExists, Kept, Alive
<1>. QED
  BY <1>1, <1>2, <1>3, <1>4, <1>5, RouteSpectators, OneBindingMoves

(* An edit begins a new generation, so what was listed is of an older one. *)
LEMMA BindingEdits ==
  ASSUME RoutesInv, NEW b \in Bindings, NEW w \in Wishes, UpdateHTTPRouteBinding(b, w)
  PROVE  RoutesInv'
<1>. DEFINE old == binding[b]
            r == [old EXCEPT !.wish = w, !.state = "pending", !.generation = @ + 1]
<1>1. old \in BindingRecord
  <2>1. old # NoBinding
    BY NoBindingFacts DEF UpdateHTTPRouteBinding, Kept
  <2>. QED
    BY <2>1 DEF RoutesInv, RouteTypes
<1>2. binding' = [binding EXCEPT ![b] = r] /\ UNCHANGED <<routeTrigger, router, served>>
  BY <1>1 DEF UpdateHTTPRouteBinding, RoutesInv, RouteTypes
<1>3. BindingOK(old, routeTrigger, served[b]) /\ Alive(old) /\ ~old.deleteRequested
  BY DEF RoutesInv, UpdateHTTPRouteBinding, Kept, Alive
<1>4. \A c \in Bindings \ {b} : Alive(binding[c]) => binding[c].wish.address # w.address
  BY DEF UpdateHTTPRouteBinding, httpRouteBindingAddressExists, Kept, Alive
<1>. HIDE DEF old
<1>5. /\ r \in BindingRecord /\ r.wish = w /\ r.state = "pending" /\ r.trigger = old.trigger
      /\ r.generation > old.generation /\ ~r.deleteRequested
  <2>1. old.generation \in Nat /\ old.generation + 1 \in Nat
        /\ old.generation + 1 > old.generation
    BY <1>1 DEF BindingRecord
  <2>2. r \in BindingRecord
    BY <1>1, <2>1 DEF BindingRecord
  <2>3. r.wish = w /\ r.state = "pending" /\ r.trigger = old.trigger
        /\ r.generation = old.generation + 1
    BY <1>1 DEF BindingRecord
  <2>4. r.deleteRequested = old.deleteRequested
    BY <1>1 DEF BindingRecord
  <2>. QED
    BY <1>3, <2>1, <2>2, <2>3, <2>4
<1>. HIDE DEF r
<1>6. BindingOK(r, routeTrigger, served'[b])
  BY <1>3, <1>5 DEF BindingOK
<1>7. r.generation > binding[b].generation
  BY <1>5 DEF old
<1>. QED
  BY <1>2, <1>4, <1>5, <1>6, <1>7, RouteSpectators, OneBindingMoves

\* The record of a binding that is to go.
LEMMA DeletingRecord ==
  ASSUME NEW r \in BindingRecord
  PROVE  /\ Deleting(r) \in BindingRecord /\ Deleting(r).state = "deleting"
         /\ Deleting(r).deleteRequested /\ Deleting(r).generation > r.generation
         /\ Deleting(r).wish = r.wish /\ Deleting(r).trigger = r.trigger
<1>1. r.generation \in Nat /\ r.generation + 1 \in Nat /\ r.generation + 1 > r.generation
  BY DEF BindingRecord
<1>2. Deleting(r) \in BindingRecord
  BY <1>1 DEF Deleting, BindingRecord
<1>3. /\ Deleting(r).state = "deleting" /\ Deleting(r).generation = r.generation + 1
      /\ Deleting(r).wish = r.wish /\ Deleting(r).trigger = r.trigger
  BY DEF Deleting, BindingRecord
<1>4. Deleting(r).deleteRequested
  BY DEF Deleting, BindingRecord
<1>. QED
  BY <1>1, <1>2, <1>3, <1>4

(* A request to delete begins a new generation whose wish is no address. *)
LEMMA DeletionRequests ==
  ASSUME RoutesInv, NEW b \in Bindings, RequestDeleteHTTPRouteBinding(b)
  PROVE  RoutesInv'
<1>1. binding[b] \in BindingRecord /\ Alive(binding[b])
  <2>1. binding[b] # NoBinding
    BY NoBindingFacts DEF RequestDeleteHTTPRouteBinding, Kept
  <2>. QED
    BY <2>1 DEF RoutesInv, RouteTypes, RequestDeleteHTTPRouteBinding, Kept, Alive
<1>. DEFINE r == Deleting(binding[b])
<1>2. binding' = [binding EXCEPT ![b] = r] /\ UNCHANGED <<routeTrigger, router, served>>
  BY DEF RequestDeleteHTTPRouteBinding
<1>3. /\ r \in BindingRecord /\ r.state = "deleting" /\ r.deleteRequested
      /\ r.generation > binding[b].generation /\ r.wish = binding[b].wish
  BY <1>1, DeletingRecord
<1>. HIDE DEF r
<1>4. BindingOK(r, routeTrigger, served'[b])
  BY <1>3 DEF BindingOK
<1>5. \A c \in Bindings \ {b} : Alive(binding[c]) => binding[c].wish.address # r.wish.address
  BY <1>1, <1>3 DEF RoutesInv, AddressesDiffer
<1>. QED
  BY <1>2, <1>3, <1>4, <1>5, RouteSpectators, OneBindingMoves

\* A trigger goes with all its bindings.
LEMMA TriggerDeletions ==
  ASSUME RoutesInv, NEW t \in RouteTriggers, DeleteRoutedTrigger(t)
  PROVE  RoutesInv'
<1>. DEFINE hit(b) == Alive(binding[b]) /\ binding[b].trigger = t /\ ~binding[b].deleteRequested
<1>1. /\ routeTrigger' = [routeTrigger EXCEPT ![t] = "deleted"]
      /\ UNCHANGED <<router, served>>
      /\ binding' = [b \in Bindings |-> binding'[b]]
      /\ \A b \in Bindings : binding'[b] = IF hit(b) THEN Deleting(binding[b]) ELSE binding[b]
  BY DEF DeleteRoutedTrigger, BindingsWithout, Kept, Alive
<1>2. ASSUME NEW b \in Bindings, hit(b)
      PROVE  /\ binding[b] \in BindingRecord /\ binding'[b] \in BindingRecord
             /\ binding'[b].state = "deleting" /\ binding'[b].deleteRequested
             /\ binding'[b].generation > binding[b].generation
             /\ binding'[b].wish = binding[b].wish /\ binding'[b].trigger = binding[b].trigger
  <2>1. binding[b] \in BindingRecord
    BY <1>2, NoBindingFacts DEF RoutesInv, RouteTypes
  <2>2. binding'[b] = Deleting(binding[b])
    BY <1>1, <1>2
  <2>. QED
    BY <2>1, <2>2, DeletingRecord
<1>3. ASSUME NEW b \in Bindings, ~hit(b)
      PROVE  binding'[b] = binding[b]
  BY <1>1, <1>3
<1>4. ASSUME NEW b \in Bindings
      PROVE  BindingOK(binding'[b], routeTrigger', served[b])
  <2>1. CASE hit(b)
    BY <2>1, <1>2 DEF BindingOK
  <2>2. CASE ~hit(b)
    <3>1. BindingOK(binding[b], routeTrigger, served[b]) /\ binding'[b] = binding[b]
      BY <2>2, <1>3 DEF RoutesInv
    <3>2. CASE Alive(binding[b]) /\ ~binding[b].deleteRequested
      <4>1. binding[b] \in BindingRecord
        BY <3>2, NoBindingFacts DEF RoutesInv, RouteTypes
      <4>2. binding[b].trigger \in RouteTriggers /\ binding[b].trigger # t
        BY <4>1, <2>2, <3>2 DEF BindingRecord
      <4>3. routeTrigger'[binding[b].trigger] = routeTrigger[binding[b].trigger]
        BY <4>2, <1>1 DEF RoutesInv, RouteTypes
      <4>. QED
        BY <3>1, <4>3 DEF BindingOK
    <3>3. CASE ~(Alive(binding[b]) /\ ~binding[b].deleteRequested)
      BY <3>1, <3>3 DEF BindingOK
    <3>. QED
      BY <3>2, <3>3
  <2>. QED
    BY <2>1, <2>2
<1>5. ASSUME NEW p \in Routers, NEW l, l \in router[p]
      PROVE  ListedOK(l, binding'[l.id])
  <2>1. l \in ListedRecord /\ ListedOK(l, binding[l.id])
    BY <1>5 DEF RoutesInv, RouteTypes
  <2>2. l.id \in Bindings /\ l.generation \in Nat
    BY <2>1 DEF ListedRecord
  <2>3. CASE ~hit(l.id)
    BY <2>1, <2>2, <2>3, <1>3
  <2>4. CASE hit(l.id)
    <3>1. /\ binding[l.id] \in BindingRecord /\ binding'[l.id] \in BindingRecord
          /\ binding'[l.id].generation > binding[l.id].generation
      BY <2>2, <2>4, <1>2
    <3>2. binding'[l.id] # NoBinding /\ binding[l.id].generation \in Nat
          /\ binding'[l.id].generation \in Nat
      BY <3>1, NoBindingFacts DEF BindingRecord
    <3>. QED
      BY <2>1, <2>2, <3>1, <3>2 DEF ListedOK
  <2>. QED
    BY <2>3, <2>4
<1>6. ASSUME NEW b \in Bindings
      PROVE  /\ binding'[b] = NoBinding \/ binding'[b] \in BindingRecord
             /\ Alive(binding'[b]) => Alive(binding[b]) /\ binding'[b].wish = binding[b].wish
  <2>1. CASE hit(b)
    BY <2>1, <1>2
  <2>2. CASE ~hit(b)
    BY <2>2, <1>3 DEF RoutesInv, RouteTypes
  <2>. QED
    BY <2>1, <2>2
<1>. HIDE DEF hit
<1>7. AddressesDiffer(binding')
  BY <1>6 DEF RoutesInv, AddressesDiffer
<1>8. routeTrigger' \in [RouteTriggers -> {"live", "deleted"}]
  BY <1>1 DEF RoutesInv, RouteTypes
<1>9. RouteTypes'
  BY <1>1, <1>6, <1>8 DEF RoutesInv, RouteTypes
<1>. QED
  BY <1>1, <1>4, <1>5, <1>7, <1>9 DEF RoutesInv

\* A listing is true when it is made.
LEMMA Listings ==
  ASSUME RoutesInv, NEW p \in Routers, ListHTTPRouteBindings(p)
  PROVE  RoutesInv'
<1>1. UNCHANGED <<routeTrigger, binding, served>>
  BY DEF ListHTTPRouteBindings
<1>. DEFINE seen == {Listed(b) : b \in {o \in Bindings : Kept(o) /\ binding[o].wish.provider \in {p, AutoProvider}}}
<1>2. router' = [router EXCEPT ![p] = seen]
  BY DEF ListHTTPRouteBindings
<1>3. ASSUME NEW l, l \in seen
      PROVE  l \in ListedRecord /\ ListedOK(l, binding[l.id])
  <2>1. PICK b \in Bindings : Kept(b) /\ l = Listed(b)
    BY <1>3
  <2>2. binding[b] # NoBinding /\ binding[b] \in BindingRecord
    BY <2>1, NoBindingFacts DEF Kept, RoutesInv, RouteTypes
  <2>3. /\ l.id = b /\ l.wish = binding[b].wish /\ l.generation = binding[b].generation
        /\ binding[b].deleteRequested => l.deleteRequested
    BY <2>1, <2>2 DEF Listed, BindingRecord
  <2>4. l \in ListedRecord
    BY <2>1, <2>2 DEF Listed, ListedRecord, BindingRecord
  <2>5. l.generation \in Nat
    BY <2>4 DEF ListedRecord
  <2>. QED
    BY <2>2, <2>3, <2>4, <2>5 DEF ListedOK
<1>. HIDE DEF seen
<1>4. seen \subseteq ListedRecord
  BY <1>3
<1>5. router' \in [Routers -> SUBSET ListedRecord]
      /\ \A o \in Routers : router'[o] = IF o = p THEN seen ELSE router[o]
  BY <1>2, <1>4 DEF RoutesInv, RouteTypes
<1>6. \A o \in Routers : \A l \in router'[o] : ListedOK(l, binding[l.id])
  BY <1>3, <1>5 DEF RoutesInv
<1>. QED
  BY <1>1, <1>5, <1>6 DEF RoutesInv, RouteTypes

\* A report is taken for the generation it is about.
LEMMA StatusReports ==
  ASSUME RoutesInv, NEW p \in Routers, NEW l, l \in router[p], UpdateHTTPRouteBindingStatus(p, l)
  PROVE  RoutesInv'
<1>1. PICK s \in Reports(l) :
        /\ StatusAccepted(l.id, s, l.generation)
        /\ binding' = [binding EXCEPT ![l.id].state = s, ![l.id].observed = l.generation]
        /\ served' = [served EXCEPT ![l.id] = l.wish]
        /\ router' = [router EXCEPT ![p] = @ \ {l}]
        /\ UNCHANGED routeTrigger
  BY DEF UpdateHTTPRouteBindingStatus
<1>2. l \in ListedRecord /\ ListedOK(l, binding[l.id])
  BY DEF RoutesInv, RouteTypes
<1>3. l.id \in Bindings /\ l.generation \in Nat
  BY <1>2 DEF ListedRecord
<1>. DEFINE b == l.id
            old == binding[b]
            r == [old EXCEPT !.state = s, !.observed = l.generation]
<1>4. /\ old \in BindingRecord /\ Alive(old) /\ BindingOK(old, routeTrigger, served[b])
      /\ s = "ready" => l.generation = old.generation
  <2>1. old # NoBinding /\ Alive(old)
    BY <1>1, <1>3, NoBindingFacts DEF StatusAccepted, Kept, Alive
  <2>. QED
    BY <1>1, <1>3, <2>1 DEF RoutesInv, RouteTypes, StatusAccepted
<1>5. /\ s \in {"pending", "error", "deleted", "ready"}
      /\ s = "ready" => ~l.deleteRequested
  BY <1>1 DEF Reports
<1>6. binding' = [binding EXCEPT ![b] = r]
  BY <1>1, <1>3, <1>4 DEF RoutesInv, RouteTypes
<1>7. AddressesDiffer(binding)
  BY DEF RoutesInv
<1>8. old = binding[b] /\ b = l.id
  OBVIOUS
<1>. HIDE DEF old, b
<1>9. /\ r \in BindingRecord /\ r.state = s /\ r.wish = old.wish /\ r.generation = old.generation
      /\ r.trigger = old.trigger /\ r.deleteRequested = old.deleteRequested
  <2>1. r \in BindingRecord
    BY <1>3, <1>4, <1>5 DEF BindingRecord
  <2>2. r.state = s /\ r.wish = old.wish /\ r.generation = old.generation
        /\ r.trigger = old.trigger
    BY <1>4 DEF BindingRecord
  <2>3. r.deleteRequested = old.deleteRequested
    BY <1>4 DEF BindingRecord
  <2>. QED
    BY <2>1, <2>2, <2>3
<1>. HIDE DEF r
<1>10. served' = [c \in Bindings |-> served'[c]] /\ served'[b] = l.wish
       /\ \A c \in Bindings \ {b} : served'[c] = served[c]
  BY <1>1, <1>3, <1>8 DEF RoutesInv, RouteTypes
<1>11. BindingOK(r, routeTrigger, served'[b])
  <2>1. r.state = "ready" => ~r.deleteRequested /\ l.wish = r.wish
    BY <1>2, <1>4, <1>5, <1>8, <1>9 DEF ListedOK
  <2>2. Alive(r) /\ ~r.deleteRequested => routeTrigger[r.trigger] = "live"
    BY <1>4, <1>9 DEF BindingOK
  <2>. QED
    BY <2>1, <2>2, <1>10 DEF BindingOK
<1>12. \A c \in Bindings \ {b} : Alive(binding[c]) => binding[c].wish.address # r.wish.address
  BY <1>3, <1>4, <1>7, <1>8, <1>9 DEF AddressesDiffer
<1>13. router' \in [Routers -> SUBSET ListedRecord] /\ \A o \in Routers : router'[o] \subseteq router[o]
  BY <1>1 DEF RoutesInv, RouteTypes
<1>14. /\ r.generation = binding[b].generation /\ r.wish = binding[b].wish
       /\ r.deleteRequested => binding[b].deleteRequested
  BY <1>8, <1>9
<1>. QED
  BY <1>1, <1>3, <1>6, <1>8, <1>9, <1>10, <1>11, <1>12, <1>13, <1>14, OneBindingMoves

(* A report that is not stored changes no binding. *)
LEMMA LostReports ==
  ASSUME RoutesInv, NEW p \in Routers, NEW l, StatusNotStored(p, l)
  PROVE  RoutesInv'
<1>1. UNCHANGED <<routeTrigger, binding, served>>
  BY DEF StatusNotStored
<1>2. router' \in [Routers -> SUBSET ListedRecord] /\ \A o \in Routers : router'[o] \subseteq router[o]
  BY DEF StatusNotStored, RoutesInv, RouteTypes
<1>. QED
  BY <1>1, <1>2 DEF RoutesInv, RouteTypes

\* The inductive invariant of the route bindings.
THEOREM RoutesInvHolds == RoutesSpec => []RoutesInv
<1>1. ASSUME RoutesInv, RoutesNext
      PROVE  RoutesInv'
  <2>1. ASSUME NEW b \in Bindings, NEW t \in RouteTriggers, NEW w \in Wishes,
               CreateHTTPRouteBinding(b, t, w)
        PROVE  RoutesInv'
    BY <1>1, <2>1, Creations
  <2>2. ASSUME NEW b \in Bindings, NEW w \in Wishes, UpdateHTTPRouteBinding(b, w)
        PROVE  RoutesInv'
    BY <1>1, <2>2, BindingEdits
  <2>3. ASSUME NEW b \in Bindings, RequestDeleteHTTPRouteBinding(b)
        PROVE  RoutesInv'
    BY <1>1, <2>3, DeletionRequests
  <2>4. ASSUME NEW t \in RouteTriggers, DeleteRoutedTrigger(t)
        PROVE  RoutesInv'
    BY <1>1, <2>4, TriggerDeletions
  <2>5. ASSUME NEW p \in Routers, ListHTTPRouteBindings(p)
        PROVE  RoutesInv'
    BY <1>1, <2>5, Listings
  <2>6. ASSUME NEW p \in Routers, NEW l, l \in router[p],
               UpdateHTTPRouteBindingStatus(p, l) \/ StatusNotStored(p, l)
        PROVE  RoutesInv'
    BY <1>1, <2>6, StatusReports, LostReports
  <2>. QED
    BY <1>1, <2>1, <2>2, <2>3, <2>4, <2>5, <2>6 DEF RoutesNext
<1>2. RoutesInv /\ UNCHANGED routeVars => RoutesInv'
  BY DEF RoutesInv, RouteTypes, routeVars
<1>. QED
  BY <1>1, <1>2, RoutesInvInit, PTL DEF RoutesSpec

\* A binding that says "ready" stands for a route that is wanted, however
\* reports cross edits and deletions.
THEOREM ReadyRouteIsWantedHolds == RoutesSpec => []ReadyRouteIsWanted
<1>1. ASSUME RoutesInv
      PROVE  ReadyRouteIsWanted
  <2>1. ASSUME NEW b \in Bindings, binding[b].state = "ready"
        PROVE  /\ served[b] = binding[b].wish
               /\ ~binding[b].deleteRequested
               /\ routeTrigger[binding[b].trigger] = "live"
               /\ ~httpRouteBindingAddressExists(binding[b].wish.address, {b})
    <3>1. Alive(binding[b]) /\ BindingOK(binding[b], routeTrigger, served[b])
      BY <1>1, <2>1 DEF Alive, RoutesInv
    <3>2. ~httpRouteBindingAddressExists(binding[b].wish.address, {b})
      BY <1>1, <3>1 DEF httpRouteBindingAddressExists, RoutesInv, AddressesDiffer, Kept, Alive
    <3>. QED
      BY <2>1, <3>1, <3>2 DEF BindingOK
  <2>. QED
    BY <2>1 DEF ReadyRouteIsWanted
<1>. QED
  BY <1>1, RoutesInvHolds, PTL
-----------------------------------------------------------------------------
(* The types of both parts *)

\* Type correctness of the opaque ingress projection: its revisions, activations,
\* credential snapshots, runs and invocations in progress.
THEOREM IngressTypesHold == IngressSpec => []IngressTypeOK
<1>1. IngressInv => IngressTypeOK
  BY DEF IngressInv
<1>. QED
  BY <1>1, IngressInvHolds, PTL

\* An edit stays below the bound on generations, and only a deletion, which is
\* the last step of a binding's wish, goes one beyond it.
WithinBound(r) ==
  /\ r.generation >= 1 /\ r.generation <= MaxRouteGeneration + 1
  /\ ~r.deleteRequested => r.generation <= MaxRouteGeneration
  /\ r.observed <= r.generation

RouteBounds ==
  /\ \A b \in Bindings : binding[b] \in BindingRecord => WithinBound(binding[b])
  /\ \A p \in Routers : \A l \in router[p] : l.generation >= 1
  /\ served \in [Bindings -> Wishes \cup {NoWish}]

\* A deletion is asked for once, so it takes one generation beyond the edits.
LEMMA DeletingBound ==
  ASSUME NEW r \in BindingRecord, WithinBound(r), ~r.deleteRequested
  PROVE  WithinBound(Deleting(r))
<1>. DEFINE d == Deleting(r)
<1>1. r.generation \in Nat /\ r.observed \in Nat
  BY DEF BindingRecord
<1>2. d.generation = r.generation + 1 /\ d.observed = r.observed /\ d.deleteRequested
  BY DEF Deleting, BindingRecord
<1>. HIDE DEF d
<1>3. WithinBound(d)
  BY <1>1, <1>2, RouteAssumption DEF WithinBound
<1>. QED
  BY <1>3 DEF d

\* A step of an operator keeps the bounds; providers keep what they listed.
LEMMA OperatorBounds ==
  ASSUME RoutesInv, RouteBounds,
         \/ \E b \in Bindings, t \in RouteTriggers, w \in Wishes : CreateHTTPRouteBinding(b, t, w)
         \/ \E b \in Bindings, w \in Wishes : UpdateHTTPRouteBinding(b, w)
         \/ \E b \in Bindings : RequestDeleteHTTPRouteBinding(b)
         \/ \E t \in RouteTriggers : DeleteRoutedTrigger(t)
  PROVE  RouteBounds'
<1>. USE DEF RoutesInv, RouteTypes
<1>1. UNCHANGED <<router, served>>
  BY DEF CreateHTTPRouteBinding, UpdateHTTPRouteBinding, RequestDeleteHTTPRouteBinding,
         DeleteRoutedTrigger
<1>2. ASSUME NEW b \in Bindings, NEW t \in RouteTriggers, NEW w \in Wishes,
             CreateHTTPRouteBinding(b, t, w), NEW c \in Bindings, binding'[c] \in BindingRecord
      PROVE  WithinBound(binding'[c])
  <2>1. CASE c = b
    <3>1. /\ binding'[b].generation = 1 /\ binding'[b].observed = 0
          /\ binding'[b].deleteRequested = FALSE
      BY <1>2 DEF CreateHTTPRouteBinding
    <3>. QED
      BY <2>1, <3>1, RouteAssumption DEF WithinBound
  <2>2. CASE c # b
    BY <1>2, <2>2 DEF CreateHTTPRouteBinding, RouteBounds
  <2>. QED
    BY <2>1, <2>2
<1>3. ASSUME NEW b \in Bindings, NEW w \in Wishes, UpdateHTTPRouteBinding(b, w),
             NEW c \in Bindings, binding'[c] \in BindingRecord
      PROVE  WithinBound(binding'[c])
  <2>1. CASE c = b
    <3>1. binding[b] \in BindingRecord
      BY <1>3, NoBindingFacts DEF UpdateHTTPRouteBinding, Kept
    <3>2. /\ binding'[b].generation = binding[b].generation + 1
          /\ binding'[b].observed = binding[b].observed
          /\ binding[b].generation < MaxRouteGeneration
      BY <1>3, <3>1 DEF UpdateHTTPRouteBinding, BindingRecord
    <3>3. binding[b].generation \in Nat /\ binding[b].observed \in Nat
      BY <3>1 DEF BindingRecord
    <3>4. WithinBound(binding[b])
      BY <3>1 DEF RouteBounds
    <3>5. /\ binding[b].generation + 1 >= 1 /\ binding[b].generation + 1 <= MaxRouteGeneration
          /\ binding[b].observed <= binding[b].generation + 1
          /\ binding[b].generation + 1 <= MaxRouteGeneration + 1
      BY <3>2, <3>3, <3>4, RouteAssumption DEF WithinBound
    <3>. QED
      BY <2>1, <3>2, <3>5 DEF WithinBound
  <2>2. CASE c # b
    BY <1>3, <2>2 DEF UpdateHTTPRouteBinding, RouteBounds
  <2>. QED
    BY <2>1, <2>2
<1>4. ASSUME NEW b \in Bindings, RequestDeleteHTTPRouteBinding(b),
             NEW c \in Bindings, binding'[c] \in BindingRecord
      PROVE  WithinBound(binding'[c])
  <2>1. CASE c = b
    <3>1. binding[b] \in BindingRecord /\ ~binding[b].deleteRequested
      BY <1>4, NoBindingFacts DEF RequestDeleteHTTPRouteBinding, Kept
    <3>2. binding'[b] = Deleting(binding[b])
      BY <1>4 DEF RequestDeleteHTTPRouteBinding
    <3>. QED
      BY <2>1, <3>1, <3>2, DeletingBound DEF RouteBounds
  <2>2. CASE c # b
    BY <1>4, <2>2 DEF RequestDeleteHTTPRouteBinding, RouteBounds
  <2>. QED
    BY <2>1, <2>2
<1>5. ASSUME NEW t \in RouteTriggers, DeleteRoutedTrigger(t),
             NEW c \in Bindings, binding'[c] \in BindingRecord
      PROVE  WithinBound(binding'[c])
  <2>1. \/ binding'[c] = binding[c]
        \/ Kept(c) /\ ~binding[c].deleteRequested /\ binding'[c] = Deleting(binding[c])
    BY <1>5 DEF DeleteRoutedTrigger, BindingsWithout
  <2>2. CASE binding'[c] = binding[c]
    BY <1>5, <2>2 DEF RouteBounds
  <2>3. CASE Kept(c) /\ ~binding[c].deleteRequested /\ binding'[c] = Deleting(binding[c])
    BY <2>3, NoBindingFacts, DeletingBound DEF RouteBounds, Kept
  <2>. QED
    BY <2>1, <2>2, <2>3
<1>6. ASSUME NEW c \in Bindings, binding'[c] \in BindingRecord
      PROVE  WithinBound(binding'[c])
  BY <1>2, <1>3, <1>4, <1>5, <1>6
<1>. QED
  BY <1>1, <1>6 DEF RouteBounds

\* A provider lists generations there are and reports on ones it listed.
LEMMA ProviderBounds ==
  ASSUME RoutesInv, RouteBounds, NEW p \in Routers,
         \/ ListHTTPRouteBindings(p)
         \/ \E l \in router[p] : UpdateHTTPRouteBindingStatus(p, l)
         \/ \E l \in router[p] : StatusNotStored(p, l)
  PROVE  RouteBounds'
<1>. USE DEF RoutesInv, RouteTypes
<1>1. ASSUME ListHTTPRouteBindings(p)
      PROVE  RouteBounds'
  <2>1. UNCHANGED <<binding, served>>
    BY <1>1 DEF ListHTTPRouteBindings
  <2>2. ASSUME NEW o \in Routers, NEW l, l \in router'[o]
        PROVE  l.generation >= 1
    <3>1. CASE o = p
      <4>1. PICK b \in Bindings : Kept(b) /\ l = Listed(b)
        BY <1>1, <2>2, <3>1 DEF ListHTTPRouteBindings
      <4>2. binding[b] \in BindingRecord
        BY <4>1, NoBindingFacts DEF Kept
      <4>. QED
        BY <4>1, <4>2 DEF Listed, RouteBounds, WithinBound
    <3>2. CASE o # p
      BY <1>1, <2>2, <3>2 DEF ListHTTPRouteBindings, RouteBounds
    <3>. QED
      BY <3>1, <3>2
  <2>. QED
    BY <2>1, <2>2 DEF RouteBounds
<1>2. ASSUME NEW l \in router[p], UpdateHTTPRouteBindingStatus(p, l)
      PROVE  RouteBounds'
  <2>1. PICK s \in Reports(l) :
          /\ StatusAccepted(l.id, s, l.generation)
          /\ binding' = [binding EXCEPT ![l.id].state = s, ![l.id].observed = l.generation]
          /\ served' = [served EXCEPT ![l.id] = l.wish]
          /\ router' = [router EXCEPT ![p] = @ \ {l}]
    BY <1>2 DEF UpdateHTTPRouteBindingStatus
  <2>2. l.id \in Bindings /\ l.generation \in Nat /\ l.wish \in Wishes
    BY DEF ListedRecord
  <2>3. served' \in [Bindings -> Wishes \cup {NoWish}]
    BY <2>1, <2>2 DEF RouteBounds
  <2>4. \A o \in Routers : router'[o] \subseteq router[o]
    BY <2>1
  <2>5. ASSUME NEW c \in Bindings, binding'[c] \in BindingRecord
        PROVE  WithinBound(binding'[c])
    <3>1. CASE c = l.id
      <4>1. binding[c] \in BindingRecord /\ l.generation <= binding[c].generation
        BY <2>1, <2>2, <3>1, NoBindingFacts DEF StatusAccepted, Kept
      <4>2. /\ binding'[c].generation = binding[c].generation
            /\ binding'[c].observed = l.generation
            /\ binding'[c].deleteRequested = binding[c].deleteRequested
        <5>1. binding'[c] = [binding[c] EXCEPT !.state = s, !.observed = l.generation]
          BY <2>1, <2>2, <3>1
        <5>2. /\ binding'[c].generation = binding[c].generation
              /\ binding'[c].observed = l.generation
          BY <4>1, <5>1 DEF BindingRecord
        <5>3. binding'[c].deleteRequested = binding[c].deleteRequested
          BY <4>1, <5>1 DEF BindingRecord
        <5>. QED
          BY <5>2, <5>3
      <4>3. WithinBound(binding[c])
        BY <4>1 DEF RouteBounds
      <4>. QED
        BY <4>1, <4>2, <4>3 DEF WithinBound
    <3>2. CASE c # l.id
      BY <2>1, <2>5, <3>2 DEF RouteBounds
    <3>. QED
      BY <3>1, <3>2
  <2>. QED
    BY <2>3, <2>4, <2>5 DEF RouteBounds
<1>3. ASSUME NEW l \in router[p], StatusNotStored(p, l)
      PROVE  RouteBounds'
  <2>1. UNCHANGED <<binding, served>> /\ \A o \in Routers : router'[o] \subseteq router[o]
    BY <1>3 DEF StatusNotStored
  <2>. QED
    BY <2>1 DEF RouteBounds
<1>. QED
  BY <1>1, <1>2, <1>3

\* Type correctness of the route bindings: no binding passes the bound on
\* generations by more than its deletion, and a provider holds and reports only
\* generations that there have been.
THEOREM RoutesTypesHold == RoutesSpec => []RoutesTypeOK
<1>1. RoutesInit => RouteBounds
  BY NoBindingFacts DEF RoutesInit, RouteBounds
<1>2. RoutesInv /\ RouteBounds /\ [RoutesNext]_routeVars => RouteBounds'
  <2>1. ASSUME RoutesInv, RouteBounds, RoutesNext
        PROVE  RouteBounds'
    BY <2>1, OperatorBounds, ProviderBounds DEF RoutesNext
  <2>2. RouteBounds /\ UNCHANGED routeVars => RouteBounds'
    BY DEF RouteBounds, routeVars
  <2>. QED
    BY <2>1, <2>2
<1>3. ASSUME RoutesInv, RouteBounds
      PROVE  RoutesTypeOK
  <2>. DEFINE G == 1..(MaxRouteGeneration + 1)
  <2>1. ASSUME NEW b \in Bindings, binding[b] \in BindingRecord
        PROVE  binding[b].generation \in G /\ binding[b].observed \in {0} \cup G
    <3>1. binding[b].generation \in Nat /\ binding[b].observed \in Nat
      BY <2>1 DEF BindingRecord
    <3>. QED
      BY <1>3, <2>1, <3>1, RouteAssumption DEF RouteBounds, WithinBound
  <2>2. ASSUME NEW p \in Routers, NEW l \in router[p]
        PROVE  l \in [id : Bindings, wish : Wishes, generation : G, deleteRequested : BOOLEAN]
    <3>1. l \in ListedRecord /\ ListedOK(l, binding[l.id])
      BY <1>3 DEF RoutesInv, RouteTypes
    <3>2. l.id \in Bindings /\ l.generation \in Nat
      BY <3>1 DEF ListedRecord
    <3>3. binding[l.id] \in BindingRecord /\ l.generation <= binding[l.id].generation
      BY <1>3, <3>1, <3>2 DEF ListedOK, RoutesInv, RouteTypes
    <3>4. l.generation \in G
      BY <1>3, <2>1, <3>2, <3>3, RouteAssumption DEF RouteBounds
    <3>. HIDE DEF G
    <3>. QED
      BY <3>1, <3>4 DEF ListedRecord
  <2>3. ASSUME NEW b \in Bindings
        PROVE  \/ binding[b] = NoBinding
               \/ binding[b] \in
                    [state : {"pending", "ready", "error", "deleting", "deleted"},
                     trigger : RouteTriggers, wish : Wishes, generation : G,
                     observed : {0} \cup G, deleteRequested : BOOLEAN]
    <3>1. binding[b] = NoBinding \/ binding[b] \in BindingRecord
      BY <1>3 DEF RoutesInv, RouteTypes
    <3>. HIDE DEF G
    <3>. QED
      BY <2>1, <3>1 DEF BindingRecord
  <2>4. router \in [Routers -> SUBSET [id : Bindings, wish : Wishes, generation : G,
                                       deleteRequested : BOOLEAN]]
    <3>. HIDE DEF G
    <3>. QED
      BY <1>3, <2>2 DEF RoutesInv, RouteTypes
  <2>. QED
    BY <1>3, <2>3, <2>4 DEF RoutesTypeOK, RoutesInv, RouteTypes, RouteBounds
<1>. QED
  BY <1>1, <1>2, <1>3, RoutesInvHolds, PTL DEF RoutesSpec
=============================================================================
