------------------------- MODULE ControlPlaneProofs -------------------------
(***************************************************************************)
(* Proofs about the composition that MCControlPlane checks.  A behaviour   *)
(* of it is a behaviour of each of its parts, so what is proved of a part  *)
(* by itself, for every value of its constants, holds in the composition.  *)
(***************************************************************************)
EXTENDS MCControlPlane, DemandProofs, RuntimeProofs, OutboxProofs, IngressProofs

-----------------------------------------------------------------------------
(* The composition implements each part *)

(* Every behaviour is one of claims under limits and policies. *)
LEMMA LimitsPart == Spec => LimitsSpec
<1>1. Init => LimitsInit
  BY DEF Init
<1>2. [Next]_<<focus, parts>> => [LimitsNext]_limitsVars
  BY DEF Next, parts
<1>. QED
  BY <1>1, <1>2, PTL DEF Spec, LimitsSpec

(* Every behaviour is one of the app runtime. *)
LEMMA AppsPart == Spec => AppRuntimeSpec
<1>1. Init => AppRuntimeInit
  BY DEF Init
<1>2. [Next]_<<focus, parts>> => [AppRuntimeNext]_appVars
  BY DEF Next, parts
<1>. QED
  BY <1>1, <1>2, PTL DEF Spec, AppRuntimeSpec

(* Every behaviour is one of claims on PostgreSQL. *)
LEMMA PgClaimsPart == Spec => PgClaimsSpec
<1>1. Init => PgClaimsInit
  BY DEF Init
<1>2. [Next]_<<focus, parts>> => [PgClaimsNext]_pgVars
  BY DEF Next, parts
<1>. QED
  BY <1>1, <1>2, PTL DEF Spec, PgClaimsSpec

(* Every behaviour is one of the worker group. *)
LEMMA FleetPart == Spec => FleetSpec
<1>1. Init => FleetInit
  BY DEF Init
<1>2. [Next]_<<focus, parts>> => [FleetNext]_fleetVars
  BY DEF Next, parts
<1>. QED
  BY <1>1, <1>2, PTL DEF Spec, FleetSpec

(* Every behaviour is one of the webhook outbox. *)
LEMMA WebhookPart == Spec => WebhookSpec
<1>1. Init => WebhookInit
  BY DEF Init
<1>2. [Next]_<<focus, parts>> => [WebhookNext]_webhookVars
  BY DEF Next, parts
<1>. QED
  BY <1>1, <1>2, PTL DEF Spec, WebhookSpec

(* Every behaviour is one of the triggers. *)
LEMMA TriggersPart == Spec => TriggersSpec
<1>1. Init => TriggersInit
  BY DEF Init
<1>2. [Next]_<<focus, parts>> => [TriggersNext]_triggerVars
  BY DEF Next, parts
<1>. QED
  BY <1>1, <1>2, PTL DEF Spec, TriggersSpec

(* Every behaviour is one of the secret variables. *)
LEMMA SecretsPart == Spec => SecretsSpec
<1>1. Init => SecretsInit
  BY DEF Init
<1>2. [Next]_<<focus, parts>> => [SecretsNext]_secretVars
  BY DEF Next, parts
<1>. QED
  BY <1>1, <1>2, PTL DEF Spec, SecretsSpec

(* Every behaviour is one of the worker processes. *)
LEMMA WorkerPart == Spec => WorkerSpec
<1>1. Init => WorkerInit
  BY DEF Init
<1>2. [Next]_<<focus, parts>> => [WorkerNext]_workerVars
  BY DEF Next, parts
<1>. QED
  BY <1>1, <1>2, PTL DEF Spec, WorkerSpec

(* Every behaviour is one of the release catalog. *)
LEMMA ReleasesPart == Spec => ReleasesSpec
<1>1. Init => ReleasesInit
  BY DEF Init
<1>2. [Next]_<<focus, parts>> => [ReleasesNext]_releaseVars
  BY DEF Next, parts
<1>. QED
  BY <1>1, <1>2, PTL DEF Spec, ReleasesSpec

(* Every behaviour is one of the ingress projection. *)
LEMMA IngressPart == Spec => IngressSpec
<1>1. Init => IngressInit
  BY DEF Init
<1>2. [Next]_<<focus, parts>> => [IngressNext]_ingressVars
  BY DEF Next, parts
<1>. QED
  BY <1>1, <1>2, PTL DEF Spec, IngressSpec

(* Every behaviour is one of the route bindings. *)
LEMMA RoutesPart == Spec => RoutesSpec
<1>1. Init => RoutesInit
  BY DEF Init
<1>2. [Next]_<<focus, parts>> => [RoutesNext]_routeVars
  BY DEF Next, parts
<1>. QED
  BY <1>1, <1>2, PTL DEF Spec, RoutesSpec

-----------------------------------------------------------------------------
(* What holds of the composition *)

(* The part in focus is one of the parts, once it is chosen. *)
LEMMA FocusOnAPart == Spec => [](focus \in Parts \cup {"open"})
<1>1. Init => focus \in Parts \cup {"open"}
  BY DEF Init
<1>2. focus \in Parts \cup {"open"} /\ [Next]_<<focus, parts>>
        => (focus \in Parts \cup {"open"})'
  BY DEF Next
<1>. QED
  BY <1>1, <1>2, PTL DEF Spec

\* Type correctness of every part in the composition, for any number of nodes, jobs,
\* requests and messages and any bounds: what its stores, processes and requests hold.
THEOREM ControlPlaneTypesHold == Spec => []ControlPlaneTypeOK
<1>1. /\ focus \in Parts \cup {"open"}
      /\ LimitsTypeOK /\ AppRuntimeTypeOK /\ PgClaimsTypeOK /\ FleetTypeOK /\ WebhookTypeOK
      /\ TriggersTypeOK /\ SecretsTypeOK /\ WorkerTypeOK /\ ReleasesTypeOK /\ IngressTypeOK
      /\ RoutesTypeOK
      => ControlPlaneTypeOK
  BY DEF ControlPlaneTypeOK
<1>. QED
  BY <1>1, FocusOnAPart, LimitsPart, LimitsTypesHold, AppsPart, AppRuntimeTypesHold,
     PgClaimsPart, PgClaimsTypesHold, FleetPart, FleetTypesHold, WebhookPart, WebhookTypesHold,
     TriggersPart, TriggersTypesHold, SecretsPart, SecretsTypesHold, WorkerPart,
     WorkerTypesHold, ReleasesPart, ReleasesTypesHold, IngressPart, IngressTypesHold,
     RoutesPart, RoutesTypesHold, PTL

\* As long as every candidate of a selector is of an active app and its concurrency pins
\* have shapes (SameTestApplies), the demand the selector is told is what its claims would
\* be given: the snapshot of queue_demand.go chooses the jobs that repeated claims of the
\* same scope would take.  It does not hold for the other candidates: of a retired app no
\* claim takes a job, and the snapshot counts it (EligibleIsWhatClaimsAcquire).
THEOREM DemandMatchesClaimsHolds == Spec => []DemandMatchesClaims
<1>1. DemandIsWhatClaimsHandOut => DemandMatchesClaims
  BY DEF DemandMatchesClaims
<1>. QED
  BY <1>1, LimitsPart, DemandIsWhatClaimsHandOutAlways, PTL

\* Every invariant that the control plane is checked for holds in the composition, for
\* every value of the constants: ceilings and rates of claims in both stores, the demand
\* under the hypotheses DemandMatchesClaims has for a selector's candidates, retired apps,
\* webhook deliveries, trigger messages, secrets, causes of failure, ingress and routes.
THEOREM ControlPlaneSafe ==
  Spec => [](/\ CeilingsHold /\ RateWindowHolds /\ MutationAppliedOnce /\ DemandMatchesClaims
             /\ PgCeilingsHold /\ RetiredAppLetsGo /\ PublishedSecretResolves
             /\ DeletedSubscriptionLetsGo /\ NoEventLost /\ RecordedCauseIsTrue
             /\ AdmittedReleaseIsPinned /\ ActivatedHistoryIsKept /\ ReadyRouteIsWanted)
<1>1. Spec => [](/\ CeilingsHold /\ RateWindowHolds /\ MutationAppliedOnce
                 /\ DemandMatchesClaims /\ PgCeilingsHold)
  BY LimitsPart, CeilingsHoldHolds, RateWindowHoldsAlways, MutationAppliedOnceHolds,
     DemandMatchesClaimsHolds, PgClaimsPart, PgCeilingsHoldHolds, PTL
<1>2. Spec => [](/\ RetiredAppLetsGo /\ PublishedSecretResolves
                 /\ DeletedSubscriptionLetsGo /\ NoEventLost)
  BY AppsPart, RetiredAppLetsGoHolds, SecretsPart, PublishedSecretResolvesHolds,
     WebhookPart, DeletedSubscriptionLetsGoHolds, TriggersPart, NoEventLostHolds, PTL
<1>3. Spec => [](/\ RecordedCauseIsTrue /\ AdmittedReleaseIsPinned /\ ActivatedHistoryIsKept
                 /\ ReadyRouteIsWanted)
  BY WorkerPart, RecordedCauseIsTrueHolds, IngressPart, AdmittedReleaseIsPinnedHolds,
     ActivatedHistoryIsKeptHolds, RoutesPart, ReadyRouteIsWantedHolds, PTL
<1>. QED
  BY <1>1, <1>2, <1>3, PTL

\* So does every action property: attempts write in order, a worker's record keeps its
\* credential, a settled completion stays, and a publication releases what was asked for.
THEOREM ControlPlaneStepsSafe ==
  Spec => /\ AttemptsWriteInOrder /\ RecordKeepsItsCredential /\ SettledCompletionIsFinal
          /\ PublishesWhatWasAsked
BY AppsPart, AttemptsWriteInOrderHolds, FleetPart, RecordKeepsItsCredentialHolds,
   TriggersPart, SettledCompletionIsFinalHolds, ReleasesPart, PublishesWhatWasAskedHolds, PTL
=============================================================================
