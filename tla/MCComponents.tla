----------------------------- MODULE MCComponents -----------------------------
(***************************************************************************)
(* The parts of the system that remember or decide on their own, each under *)
(* any calls that it can get: leases, event records, states with their      *)
(* clients, approvals, the authority of one call, the safety policy and the *)
(* composer.  They share nothing here, so a behaviour uses one of them.     *)
(***************************************************************************)
EXTENDS LeaseStore, DedupStore, StateClients, ApprovalBroker, Authority, SafetyPolicy,
        Delegation, TLC

CONSTANTS c1, c2, c3, k1, k2, alice, bob,
          MaxTime,     \* bound of the clock of the leases
          MaxExpiry,   \* bound of the clock of the broker
          MaxLease     \* bound of the lease versions, stored and claimed

VARIABLE part

-----------------------------------------------------------------------------
(* Leases and event records                                                  *)

LeaseCall ==
  /\ LeaseNext
  /\ now' <= MaxTime
  /\ \A k \in Keys : leases'[k] # NoLease => leases'[k].version <= MaxLease

DedupCall == DedupNext(0 .. MaxLease, {0})

-----------------------------------------------------------------------------
(* State clients and approvals                                               *)

\* The third client is another principal of the same tenant and session.
TwoOwners == [c \in Clients |-> IF c = c3 THEN bob ELSE alice]

History == SUBSET (Clients \X (1 .. MaxVersion))

Symmetric ==
  UNION {Permutations(S) : S \in {Clients \ {c3}, RequestIds, Keys, Holders}}

-----------------------------------------------------------------------------
(* Authority: calls of one tool in two environments, and the configurations   *)
(* that tell its rules apart.                                                *)

Proposed(risk, environment, resource, action) ==
  [a \in {"tool", "agent", "principal", "tenant", "environment", "risk", "resource_type",
          "resource_id", "action", "kind"} |->
     IF a = "risk" THEN risk
     ELSE IF a = "environment" THEN environment
     ELSE IF a \in {"resource_type", "resource_id"} THEN resource
     ELSE IF a = "action" THEN action ELSE "it"]

\* At most one thing is wrong with a call, but for its risk and its permissions.
MCCalls ==
  {c \in [at : {Proposed(0, "dev", "doc", "act"), Proposed(1, "dev", "doc", "act"),
                Proposed(0, "prod", Unset, "act"), Proposed(1, "prod", Unset, "act")},
          samePrincipal : BOOLEAN, active : BOOLEAN, authorized : BOOLEAN,
          environmentAllowed : BOOLEAN, requiresApproval : BOOLEAN,
          required : SUBSET {"write"}, granted : SUBSET {"write"}, maxRisk : 0 .. 1] :
     \A f, g \in {"samePrincipal", "active", "authorized", "environmentAllowed"} : c[f] \/ c[g] \/ f = g}

AnyCall == [a \in {"tool", "agent", "principal", "tenant", "environment", "risk",
                   "resource_type", "resource_id"} |-> {}]

Rule(attribute, values, permissions, effect, approval) ==
  [selects |-> [AnyCall EXCEPT ![attribute] = values], permissions |-> permissions,
   effect |-> effect, approval |-> approval]

Policy(active, default, rules) == [active |-> active, default |-> default, rules |-> rules]

Plain ==
  [policies |-> {}, principalTools |-> Unset, agentTools |-> Unset, principalPermissions |-> Unset,
   constraints |-> <<>>, environmentTools |-> Unset, environmentRisk |-> Unset]

MCEngines ==
  {Plain,
   [Plain EXCEPT !.principalTools = {}],
   [Plain EXCEPT !.agentTools = {"it"}, !.principalPermissions = {}, !.environmentRisk = 0],
   [Plain EXCEPT !.constraints = [e \in {"prod"} |-> [tools |-> {"it"}, risk |-> 0]],
                 !.environmentTools = {"it"}],
   [Plain EXCEPT !.policies = {Policy(TRUE, "deny", {Rule("environment", {"dev"}, {}, "allow", "waived")}),
                               Policy(TRUE, "allow", {Rule("resource_type", {"doc"}, {}, "deny", "unset")})}],
   [Plain EXCEPT !.policies = {Policy(TRUE, "allow", {Rule("risk", {1}, {}, "allow", "required"),
                                                      Rule("tool", {"it"}, {"write"}, "allow", "unset")})}],
   [Plain EXCEPT !.policies = {Policy(FALSE, "allow", {})}]}

ApprovalRule(attribute, values, requires) ==
  [requires |-> requires,
   selects |-> [a \in {"tool", "action", "kind", "risk", "environment"} |->
                  IF a = attribute THEN values ELSE {}]]

MCApprovalPolicies ==
  {{}, {[active |-> TRUE, default |-> FALSE, rules |-> {ApprovalRule("risk", {1}, TRUE)}],
        [active |-> FALSE, default |-> TRUE, rules |-> {}]},
   {[active |-> TRUE, default |-> TRUE, rules |-> {ApprovalRule("action", {"act"}, FALSE)}]}}

-----------------------------------------------------------------------------
(* Composition: three agents, of which one uses another version of a tool.   *)

Root ==
  [agent |-> "a", parent |-> 0, delegation |-> Unstated, tools |-> {"t@1", "u@1"}, ids |-> {"t", "u"},
   permissions |-> {"write"}, risk |-> 1, steps |-> 2, depth |-> 0, path |-> <<>>,
   status |-> "running"]

MCManifest == [a |-> {"t@1", "u@1"}, b |-> {"t@1", "t@2", "u@1"}, c |-> {"t@2", "u@1"}]

MCToolOf == "t@1" :> "t" @@ "t@2" :> "t" @@ "u@1" :> "u"

MCNeeds == "t@1" :> {"write"} @@ "t@2" :> {"write"} @@ "u@1" :> {}

MCCompositions ==
  {[pattern |-> "sequential", steps |-> <<"b", "c">>], [pattern |-> "supervisor", steps |-> <<"b", "c">>],
   [pattern |-> "router", steps |-> <<"b", "c">>]}

Asked(child, tools, permissions, risk) ==
  [child |-> child, tools |-> tools, permissions |-> permissions, risk |-> risk, id |-> <<"given", 1>>]

MCRequests ==
  {Asked("b", {"t"}, {}, 1), Asked("c", {"u"}, {"write"}, 0),
   Asked("c", {}, {}, Unstated), Asked("a", {}, {}, Unstated)}

MCAgents == {"a", "b", "c"}
MCAgentRisk == [a |-> 1, b |-> 1, c |-> 0]
MCAgentSteps == [a |-> 2, b |-> 3, c |-> 1]

MCRoots == {Root, [Root EXCEPT !.tools = {}], [Root EXCEPT !.permissions = {}, !.risk = 0]}

-----------------------------------------------------------------------------
storeVars == <<leaseVars, records>>

vars == <<part, storeVars, clientVars, brokerVars, authorityVars, safetyVars, delegationVars>>

Init ==
  /\ part \in {"leases", "records", "states", "approvals", "authority", "safety", "composer"}
  /\ LeaseInit
  /\ DedupInit
  /\ ClientInit
  /\ BrokerInit
  /\ SafetyInit
  /\ IF part = "authority" THEN AuthorityInit
     ELSE /\ call = Unset /\ engine = Unset /\ gates = Unset
          /\ approved = Unset /\ permission = Unset /\ stage = Unset
  /\ IF part = "composer" THEN DelegationInit
     ELSE /\ usable = {} /\ executions = <<>> /\ used = {} /\ counter = 0
          /\ delegating = [t \in Threads |-> NoCall]

StoreStep ==
  \/ part = "leases" /\ LeaseCall /\ UNCHANGED <<records, clientVars, brokerVars>>
  \/ part = "records" /\ DedupCall /\ UNCHANGED <<leaseVars, clientVars, brokerVars>>
  \/ part = "states" /\ ClientNext /\ UNCHANGED <<storeVars, brokerVars>>
  \/ part = "approvals" /\ BrokerNext(1 .. MaxExpiry) /\ UNCHANGED <<storeVars, clientVars>>

DecisionStep ==
  \/ part = "authority" /\ AuthorityNext /\ UNCHANGED <<safetyVars, delegationVars>>
  \/ part = "safety" /\ SafetyNext /\ UNCHANGED <<authorityVars, delegationVars>>
  \/ part = "composer" /\ DelegationNext /\ UNCHANGED <<authorityVars, safetyVars>>

Next ==
  /\ UNCHANGED part
  /\ \/ StoreStep /\ UNCHANGED <<authorityVars, safetyVars, delegationVars>>
     \/ DecisionStep /\ UNCHANGED <<storeVars, clientVars, brokerVars>>

Spec == Init /\ [][Next]_vars
=============================================================================
