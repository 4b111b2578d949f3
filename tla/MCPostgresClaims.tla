-------------------------- MODULE MCPostgresClaims --------------------------
(* Instances of PostgresClaims for TLC. *)
EXTENDS PostgresClaims

\* The limits of a job; its locks are the sorted ones of the app, of the policy
\* that may tighten it, and of its rate key.
MCPgLimit(app, ceiling, rate, attempts) ==
  [app |-> app, ceiling |-> ceiling, rateKey |-> rate, attempts |-> attempts,
   locks |-> <<<<"app", app>>, <<"policy", app>>>> \o
             SetToSeq({<<"rate", k>> : k \in rate})]

\* One attempt per window, and jobs enough to exceed it.
MCPgRateLimits == [j \in PgJobs |-> MCPgLimit("a", 0, {"r"}, 1)]

\* An app with two ceilings, pinned by two releases, one of them with a rate.
MCPgCeilings ==
  << MCPgLimit("a", 2, {}, 0), MCPgLimit("a", 1, {"r"}, 1), MCPgLimit("a", 2, {}, 0) >>
=============================================================================
