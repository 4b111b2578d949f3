--------------------------- MODULE MCControlPlane ---------------------------
(* The parts of the control plane beside the run queue, in one instance for TLC. The       *)
(* modules share no variable and no action, so an interleaving of two of them shows        *)
(* nothing that each alone does not: a behaviour first picks the part it explores (focus)  *)
(* and leaves the others in their initial states.                                          *)
EXTENDS MCClaimLimits, AppRuntime, MCPostgresClaims, WorkerFleet, WebhookOutbox, Triggers,
        SecretCandidates, WorkerProcess, Releases, OpaqueIngress,
        RouteBindings

VARIABLE focus

-----------------------------------------------------------------------------
\* Constants of WorkerFleet: any request crosses one that changes the registry.
MCTraffic ==
  [q \in FleetRequests |->
     IF q = "q1" THEN Kinds ELSE {"register", "deregister"}]

\* Constants of OpaqueIngress: two publications of one snapshot, one for each release.
MCReleasePin == [p \in Revisions |-> IF p = "p1" THEN "r1" ELSE "r2"]
MCCredentialRefs == [p \in Revisions |-> {"k1"}]

-----------------------------------------------------------------------------
Parts == {"limits", "apps", "claims", "fleet", "webhooks",
          "triggers", "secrets", "worker", "releases", "ingress", "routes"}

parts ==
  <<limitsVars, appVars, pgVars, fleetVars, webhookVars, triggerVars, secretVars, workerVars,
    releaseVars, ingressVars, routeVars>>

Init ==
  /\ focus = "open"
  /\ LimitsInit /\ AppRuntimeInit /\ PgClaimsInit /\ FleetInit /\ WebhookInit
  /\ TriggersInit /\ SecretsInit /\ WorkerInit /\ ReleasesInit /\ IngressInit
  /\ RoutesInit

\* The choice of the part, then its steps.
Next ==
  \/ focus = "open" /\ focus' \in Parts /\ UNCHANGED parts
  \/ /\ focus = "limits" /\ LimitsNext
     /\ UNCHANGED <<focus, appVars, pgVars, fleetVars, webhookVars,
                   triggerVars, secretVars, workerVars, releaseVars, ingressVars, routeVars>>
  \/ /\ focus = "apps" /\ AppRuntimeNext
     /\ UNCHANGED <<focus, limitsVars, pgVars, fleetVars, webhookVars,
                   triggerVars, secretVars, workerVars, releaseVars, ingressVars, routeVars>>
  \/ /\ focus = "claims" /\ PgClaimsNext
     /\ UNCHANGED <<focus, limitsVars, appVars, fleetVars, webhookVars,
                   triggerVars, secretVars, workerVars, releaseVars, ingressVars, routeVars>>
  \/ /\ focus = "fleet" /\ FleetNext
     /\ UNCHANGED <<focus, limitsVars, appVars, pgVars, webhookVars,
                   triggerVars, secretVars, workerVars, releaseVars, ingressVars, routeVars>>
  \/ /\ focus = "webhooks" /\ WebhookNext
     /\ UNCHANGED <<focus, limitsVars, appVars, pgVars, fleetVars,
                   triggerVars, secretVars, workerVars, releaseVars, ingressVars, routeVars>>
  \/ /\ focus = "triggers" /\ TriggersNext
     /\ UNCHANGED <<focus, limitsVars, appVars, pgVars, fleetVars,
                   webhookVars, secretVars, workerVars, releaseVars, ingressVars, routeVars>>
  \/ /\ focus = "secrets" /\ SecretsNext
     /\ UNCHANGED <<focus, limitsVars, appVars, pgVars, fleetVars,
                   webhookVars, triggerVars, workerVars, releaseVars, ingressVars, routeVars>>
  \/ /\ focus = "worker" /\ WorkerNext
     /\ UNCHANGED <<focus, limitsVars, appVars, pgVars, fleetVars,
                   webhookVars, triggerVars, secretVars, releaseVars, ingressVars, routeVars>>
  \/ /\ focus = "releases" /\ ReleasesNext
     /\ UNCHANGED <<focus, limitsVars, appVars, pgVars, fleetVars,
                   webhookVars, triggerVars, secretVars, workerVars, ingressVars, routeVars>>
  \/ /\ focus = "ingress" /\ IngressNext
     /\ UNCHANGED <<focus, limitsVars, appVars, pgVars, fleetVars,
                   webhookVars, triggerVars, secretVars, workerVars, releaseVars, routeVars>>
  \/ /\ focus = "routes" /\ RoutesNext
     /\ UNCHANGED <<focus, limitsVars, appVars, pgVars, fleetVars, webhookVars,
                   triggerVars, secretVars, workerVars, releaseVars, ingressVars>>

Spec == Init /\ [][Next]_<<focus, parts>>

-----------------------------------------------------------------------------
(* What tells two reachable states apart: of the part in focus, as the others do not move, *)
(* what a step or a property of this run may still look at.                                *)

\* What the members of a set of interchangeable processes hold, whichever holds it.
Unordered(f) ==
  [v \in {f[x] : x \in DOMAIN f} |-> Cardinality({x \in DOMAIN f : f[x] = v})]

\* Of a job that is done nothing is looked at, nor are the ceilings of an earlier claim while
\* it is not running, or what was spent in a window that has ended: the next claim
\* overwrites them.
LimitsView ==
  <<[j \in QueueJobs |->
       CASE queue[j].state = "done" -> <<"done">>
         [] queue[j].state = "queued" -> <<queue[j]>>
         [] queue[j].state = "running" -> <<queue[j], ceilings[j]>>],
    [k \in RateKeys |->
       <<IF buckets[k].window = rateWindow(clock) THEN <<buckets[k]>> ELSE <<>>,
         IF spent[k].window = rateWindow(clock) THEN <<spent[k]>> ELSE <<>> >>],
    policies, retired, clock, applied>>

\* Of the operations of an attempt only how many there are, as any is as good as another.
AppsView ==
  <<appJob, app, objects, appClock, readers,
    [j \in AppJobs |-> [n \in 1..MaxAppAttempts |-> runtimeConfigAttemptWriteCount(j, n)]]>>

\* The history pgSpent is left out: no step reads it.
ClaimsView ==
  <<[j \in PgJobs |->
       CASE pgJobs[j].state = "done" -> <<"done">>
         [] pgJobs[j].state = "queued" -> <<pgJobs[j]>>
         [] pgJobs[j].state = "running" -> <<pgJobs[j], pgCeilings[j]>>],
    pgBuckets, pgAllowance, pgRetired, Unordered(pgTx), pgClock>>

TriggersView ==
  <<trigger, Unordered([v \in Servers |-> <<adapter[v], consumer[v]>>]), source, triggerRun,
    record, answerer, refused, losses>>

\* Of a request that holds no candidate nothing is looked at.
SecretsView ==
  <<candidate, published, recorded, sweep, secretClock,
    Unordered([r \in SecretRequests |->
                 IF publisher[r].op = {} THEN <<>> ELSE <<publisher[r]>>])>>

\* A lease has time left while its job runs; the outcome of the runner is passed on and not
\* looked at.
WorkerView ==
  <<workJob.state, workJob.attempt, workJob.canceled,
    IF workJob.state = "running" THEN workJob.left ELSE 0,
    verdict = NoVerdict, verdict.cause, verdict.attempt, lostCalls,
    Unordered([w \in Processes |->
                 <<[process[w] EXCEPT !.outcome = "none"], workJob.owner = w,
                   {<<b.attempt, b.answer>> : b \in {b \in beats : b.worker = w}},
                   {pair[2] : pair \in {pair \in ranOut : pair[1] = w}}>>])>>

\* The history lastSynced is left out: no step reads it, and here only its type is checked.
ReleasesView ==
  <<catalogVars, outlived, sourceLease.left,
    Unordered([r \in Replicas |-> <<operation[r], rollback[r], HasLease(r)>>])>>

FocusView ==
  <<focus, CASE focus = "open" -> parts
             [] focus = "limits" -> LimitsView
             [] focus = "apps" -> AppsView
             [] focus = "claims" -> ClaimsView
             [] focus = "fleet" -> fleetVars
             [] focus = "webhooks" -> webhookVars
             [] focus = "triggers" -> TriggersView
             [] focus = "secrets" -> SecretsView
             [] focus = "worker" -> WorkerView
             [] focus = "releases" -> ReleasesView
             [] focus = "ingress" -> ingressVars
             [] focus = "routes" -> routeVars>>

-----------------------------------------------------------------------------
\* Type correctness of the part in focus: what its stores, processes and requests hold.
ControlPlaneTypeOK ==
  /\ focus \in Parts \cup {"open"}
  /\ focus = "limits" => LimitsTypeOK
  /\ focus = "apps" => AppRuntimeTypeOK
  /\ focus = "claims" => PgClaimsTypeOK
  /\ focus = "fleet" => FleetTypeOK
  /\ focus = "webhooks" => WebhookTypeOK
  /\ focus = "triggers" => TriggersTypeOK
  /\ focus = "secrets" => SecretsTypeOK
  /\ focus = "worker" => WorkerTypeOK
  /\ focus = "releases" => ReleasesTypeOK
  /\ focus = "ingress" => IngressTypeOK
  /\ focus = "routes" => RoutesTypeOK

\* The demand a selector is told is what its claims would be given (the snapshot of
\* queue_demand.go against repeated claims), where the limits are what is explored and
\* every candidate of the selector is of an active app and pinned with shapes.
DemandMatchesClaims == focus = "limits" => DemandIsWhatClaimsHandOut
=============================================================================
