---------------------------- MODULE RouteBindings ----------------------------
(***************************************************************************)
(* HTTP route bindings: the public addresses of webhook triggers.  The     *)
(* store keeps for each binding what is wanted (address, provider, and     *)
(* whether it is to go) with a generation, and what was last reported with *)
(* the generation the report is about.  An external provider lists the     *)
(* bindings, arranges its routes and reports, each in a call of its own,   *)
(* while operators edit and delete bindings and triggers.                  *)
(*                                                                         *)
(* All triggers are webhooks, as their kind cannot be edited and others    *)
(* take no binding.  The two stores agree: on PostgreSQL an operation is a *)
(* transaction that locks its one row first, and creation also locks the   *)
(* trigger against its deletion.                                           *)
(***************************************************************************)
EXTENDS Integers, FiniteSets

CONSTANTS
  Bindings,             \* identifiers of bindings
  RouteTriggers,        \* identifiers of webhook triggers
  Addresses,            \* pairs of a host name and a path
  Routers,              \* provider names, each with one reconciling process
  AutoProvider,         \* the provider name that any provider may serve
  MaxRouteGeneration    \* bound on the generations of a binding

ASSUME RouteAssumption == AutoProvider \notin Routers /\ MaxRouteGeneration \in Nat \ {0}

VARIABLES
  routeTrigger,   \* per trigger: "live" or "deleted"
  binding,        \* HTTPRouteBindings
  router,         \* per provider process: the bindings it listed and has not reported on
  served          \* history: the wish that the last accepted report was about

routeVars == <<routeTrigger, binding, router, served>>

-----------------------------------------------------------------------------
NoBinding == [state |-> "absent"]

\* The desired fields.
Wishes == [address : Addresses, provider : Routers \cup {AutoProvider}]

\* A record is kept for ever: DeletedAt is set with the state "deleted" and never reset.
Kept(b) == binding[b].state \notin {"absent", "deleted"}

NoWish == [address |-> "none", provider |-> "none"]

RoutesInit ==
  /\ routeTrigger = [t \in RouteTriggers |-> "live"]
  /\ binding = [b \in Bindings |-> NoBinding]
  /\ router = [p \in Routers |-> {}]
  /\ served = [b \in Bindings |-> NoWish]

-----------------------------------------------------------------------------
(* Operators *)

\* Another binding, of any trigger, has the address; the provider does not count.
httpRouteBindingAddressExists(address, except) ==
  \E o \in Bindings \ except : Kept(o) /\ binding[o].wish.address = address

CreateHTTPRouteBinding(b, t, w) ==
  /\ binding[b].state = "absent"
  /\ routeTrigger[t] = "live"
  /\ ~httpRouteBindingAddressExists(w.address, {})
  /\ binding' = [binding EXCEPT ![b] =
       [state |-> "pending", trigger |-> t, wish |-> w,
        generation |-> 1, observed |-> 0, deleteRequested |-> FALSE]]
  /\ UNCHANGED <<routeTrigger, router, served>>

\* An edit that changes nothing is answered with the record as it is.
UpdateHTTPRouteBinding(b, w) ==
  /\ Kept(b) /\ ~binding[b].deleteRequested
  /\ ~httpRouteBindingAddressExists(w.address, {b})
  /\ w # binding[b].wish
  /\ binding[b].generation < MaxRouteGeneration
  /\ binding' = [binding EXCEPT ![b].wish = w, ![b].state = "pending", ![b].generation = @ + 1]
  /\ UNCHANGED <<routeTrigger, router, served>>

\* The record that asks for the removal of the route.
Deleting(r) ==
  [r EXCEPT !.state = "deleting", !.generation = @ + 1, !.deleteRequested = TRUE]

RequestDeleteHTTPRouteBinding(b) ==
  /\ Kept(b) /\ ~binding[b].deleteRequested
  /\ binding' = [binding EXCEPT ![b] = Deleting(@)]
  /\ UNCHANGED <<routeTrigger, router, served>>

\* The bindings of a trigger after requestHTTPRouteBindingsForTrigger.
BindingsWithout(t) ==
  [b \in Bindings |->
     IF Kept(b) /\ binding[b].trigger = t /\ ~binding[b].deleteRequested
     THEN Deleting(binding[b])
     ELSE binding[b]]

\* The trigger and its bindings go in one transaction.
DeleteRoutedTrigger(t) ==
  /\ routeTrigger[t] = "live"
  /\ routeTrigger' = [routeTrigger EXCEPT ![t] = "deleted"]
  /\ binding' = BindingsWithout(t)
  /\ UNCHANGED <<router, served>>

-----------------------------------------------------------------------------
(* The provider *)

\* What a provider is told of a binding; state, URL and error do not steer it.
Listed(b) ==
  [id |-> b, wish |-> binding[b].wish, generation |-> binding[b].generation,
   deleteRequested |-> binding[b].deleteRequested]

\* A provider asks for the bindings under its name or under no name.
ListHTTPRouteBindings(p) ==
  /\ router[p] = {}
  /\ router' = [router EXCEPT ![p] =
       {Listed(b) : b \in {o \in Bindings : Kept(o) /\ binding[o].wish.provider \in {p, AutoProvider}}}]
  /\ router'[p] # {}
  /\ UNCHANGED <<routeTrigger, binding, served>>

\* External: what a provider reports of a binding it has worked on.  That it does
\* not call ready what it was listed to take down is assumed of it: the store
\* would accept such a report about the current generation.
Reports(l) ==
  {"pending", "error"} \cup IF l.deleteRequested THEN {"deleted"} ELSE {"ready"}

\* Mutant: a report of an earlier generation may be taken for the current one.
AnyGenerationAccepted(b, s, g) ==
  /\ Kept(b)
  /\ binding[b].observed <= g /\ g <= binding[b].generation
  /\ s = "deleted" => binding[b].deleteRequested

\* The tests of UpdateHTTPRouteBindingStatus on a report of state s about generation g.
StatusAccepted(b, s, g) ==
  /\ Kept(b)
  /\ binding[b].observed <= g /\ g <= binding[b].generation
  /\ s = "ready" => g = binding[b].generation
  /\ s = "deleted" => binding[b].deleteRequested

UpdateHTTPRouteBindingStatus(p, l) ==
  \E s \in Reports(l) :
    /\ l \in router[p]
    /\ StatusAccepted(l.id, s, l.generation)
    /\ binding' = [binding EXCEPT ![l.id].state = s, ![l.id].observed = l.generation]
    /\ served' = [served EXCEPT ![l.id] = l.wish]
    /\ router' = [router EXCEPT ![p] = @ \ {l}]
    /\ UNCHANGED routeTrigger

\* The report is refused, or it is lost with the provider that had it.
StatusNotStored(p, l) ==
  /\ l \in router[p]
  /\ router' = [router EXCEPT ![p] = @ \ {l}]
  /\ UNCHANGED <<routeTrigger, binding, served>>

-----------------------------------------------------------------------------
RoutesNext ==
  \/ \E b \in Bindings, t \in RouteTriggers, w \in Wishes : CreateHTTPRouteBinding(b, t, w)
  \/ \E b \in Bindings, w \in Wishes : UpdateHTTPRouteBinding(b, w)
  \/ \E b \in Bindings : RequestDeleteHTTPRouteBinding(b)
  \/ \E t \in RouteTriggers : DeleteRoutedTrigger(t)
  \/ \E p \in Routers : ListHTTPRouteBindings(p)
  \/ \E p \in Routers : \E l \in router[p] : UpdateHTTPRouteBindingStatus(p, l)
  \/ \E p \in Routers : \E l \in router[p] : StatusNotStored(p, l)

RoutesSpec == RoutesInit /\ [][RoutesNext]_routeVars

-----------------------------------------------------------------------------
\* Type correctness; a deletion may take one generation beyond the last edit.
RoutesTypeOK ==
  LET Generations == 1..(MaxRouteGeneration + 1) IN
  /\ routeTrigger \in [RouteTriggers -> {"live", "deleted"}]
  /\ \A b \in Bindings :
       \/ binding[b] = NoBinding
       \/ binding[b] \in
            [state : {"pending", "ready", "error", "deleting", "deleted"},
             trigger : RouteTriggers, wish : Wishes, generation : Generations,
             observed : {0} \cup Generations, deleteRequested : BOOLEAN]
  /\ router \in [Routers -> SUBSET [id : Bindings, wish : Wishes, generation : Generations,
                                    deleteRequested : BOOLEAN]]
  /\ served \in [Bindings -> Wishes \cup {NoWish}]

\* A binding that says "ready" stands for a route that is wanted: the provider that said so
\* had seen the present address and provider, the binding is not to go, its trigger exists
\* and no other binding has the address, however reports cross edits and deletions
\* (UpdateHTTPRouteBindingStatus, requestHTTPRouteBindingsForTrigger).
ReadyRouteIsWanted ==
  \A b \in Bindings : binding[b].state = "ready" =>
    /\ served[b] = binding[b].wish
    /\ ~binding[b].deleteRequested
    /\ routeTrigger[binding[b].trigger] = "live"
    /\ ~httpRouteBindingAddressExists(binding[b].wish.address, {b})
=============================================================================
