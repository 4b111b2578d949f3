---------------------------- MODULE MCClaimLimits ----------------------------
(* An instance of ClaimLimits for TLC. *)
EXTENDS ClaimLimits

\* Two releases of one app with different ceilings, one job of another app that shares
\* their key, one job that only a worker with a GPU may run, and an operator who tightens
\* and forgets a policy.
MCPin(policy, shape, key, ceiling) ==
  [policy |-> policy, shape |-> shape, key |-> key, ceiling |-> ceiling]
MCJob(app, labels, priority, created, max, concurrency, rate) ==
  [workspace |-> "w", app |-> app, tag |-> "t", labels |-> labels, priority |-> priority,
   created |-> created, maxConcurrent |-> max, concurrency |-> concurrency, rate |-> rate]
MCJobs == 1..3
MCPayload ==
  << MCJob("a", {}, 1, 0, 2, {MCPin("k", "s", "x", 2)}, {MCPin("r", "s", "x", 2)}),
     MCJob("a", {"gpu"}, 1, 0, 1, {MCPin("k", "s", "x", 1)}, {MCPin("r", "s", "x", 2)}),
     MCJob("b", {}, 0, 1, 0, {MCPin("k", "s", "x", 1)}, {}) >>
MCScopes ==
  {[workspaces |-> {"w"}, tags |-> {}, labels |-> {"gpu"}],
   [workspaces |-> {"w"}, tags |-> {"t"}, labels |-> {}]}
MCPolicy(kind, policy) == [workspace |-> "w", app |-> "a", kind |-> kind, policy |-> policy]
MCPolicyKeys == {MCPolicy("concurrency", "app"), MCPolicy("rate", "r")}
MCMutation(key, op, exp, shape, allowance, delete) ==
  [key |-> key, operation |-> op, expected |-> exp, shape |-> shape,
   allowance |-> allowance, delete |-> delete]
MCMutations ==
  {MCMutation(MCPolicy("concurrency", "app"), 1, 0, "app", 1, FALSE),
   MCMutation(MCPolicy("rate", "r"), 1, 0, "s", 1, FALSE),
   MCMutation(MCPolicy("rate", "r"), 2, 1, "s", 1, TRUE)}
=============================================================================
