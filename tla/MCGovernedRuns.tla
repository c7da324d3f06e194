--------------------------- MODULE MCGovernedRuns ---------------------------
(* Two runs of one process share a write tool.                               *)
EXTENDS GovernedRuns, TLC

CONSTANTS r1, r2, t1, k1, a1

MCDefinition ==
  t1 :> [kind |-> "write", needsKey |-> FALSE, retryable |-> FALSE, policy |-> TRUE,
         attempts |-> 2, hasTimeout |-> TRUE]

Call(t, k, a) == [tool |-> t, key |-> k, args |-> a, valid |-> TRUE]

MCPlans ==
  r1 :> { << Call(t1, k1, a1) >>, <<>> }
  @@ r2 :> { << Call(t1, k1, a1) >>, << Call(t1, NoKey, a1) >> }

MCProviderAttempts == r1 :> 2 @@ r2 :> 1
=============================================================================
