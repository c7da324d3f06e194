------------------------------ MODULE Authority ------------------------------
(***************************************************************************)
(* What lets the handler of one plan step run: the policy engine and the    *)
(* default permission broker (governance/permissions.py), the approval      *)
(* policies (governance/approvals.py) and the ceiling that the runtime puts *)
(* on whatever broker the application installs (runtime/execution.py).      *)
(* Reason codes are left out: a decision is whether the call is allowed and *)
(* whether approval would help.                                             *)
(***************************************************************************)
EXTENDS Naturals, Sequences

CONSTANTS Calls,           \* the proposed calls, with what their execution carries
          Engines,         \* the configurations of the policy engine
          ApprovalPolicies,\* the configurations of the approval policies (sets)
          Unset            \* a mapping, limit or selector that is not configured

\* What policy rules select on.  A call without a resource has Unset there.
Attributes ==
  {"tool", "agent", "principal", "tenant", "environment", "risk", "resource_type", "resource_id"}

\* What approval rules select on.
ApprovalAttributes == {"tool", "action", "kind", "risk", "environment"}

\* Risk levels are ordered, and every tool and execution has one.
ASSUME CallAssumption == \A c \in Calls : c.at["risk"] \in Nat /\ c.maxRisk \in Nat

VARIABLES call,            \* the step under decision
          engine,          \* the configured policy engine; Unset: a custom broker
          gates,           \* the approval policies
          approved,        \* the action's digest is among the approved ones
          permission,      \* the runtime's decision on the call
          stage

authorityVars == <<call, engine, gates, approved, permission, stage>>

PermissionDecision == [allowed : BOOLEAN, approval : BOOLEAN]

Denied == [allowed |-> FALSE, approval |-> FALSE]
NeedsApproval == [allowed |-> FALSE, approval |-> TRUE]
Allowed == [allowed |-> TRUE, approval |-> FALSE]

Stages == {"authorize", "gate", "request", "again", "decide", "ran", "denied", "paused"}

AuthorityTypeOK ==
  /\ call \in Calls /\ engine \in Engines \union {Unset} /\ gates \in ApprovalPolicies
  /\ approved \in BOOLEAN /\ permission \in PermissionDecision /\ stage \in Stages

\* A digest that is approved from the start comes with a resumed or signed request.
AuthorityInit ==
  /\ call \in Calls
  /\ engine \in Engines \union {Unset}
  /\ gates \in ApprovalPolicies
  /\ approved \in BOOLEAN
  /\ permission = Denied
  /\ stage = "authorize"

-----------------------------------------------------------------------------
(* The policy engine.                                                        *)

RiskExceeds(actual, maximum) == actual > maximum

\* A mapping that is configured denies what it does not list, and the identities
\* that it does not know.
MappingDenies(mapping, tool) == mapping # Unset /\ tool \notin mapping

PrincipalPermissionDenies(c, e) ==
  e.principalPermissions # Unset /\ ~ (c.required \subseteq e.principalPermissions)

EnvironmentDenies(c, e) ==
  LET env == c.at["environment"]
      constraint == e.constraints[env]
  IN  \/ /\ DOMAIN e.constraints # {}
         /\ env \in DOMAIN e.constraints =>
              \/ MappingDenies(constraint.tools, c.at["tool"])
              \/ RiskExceeds(c.at["risk"], constraint.risk)
      \/ MappingDenies(e.environmentTools, c.at["tool"])
      \/ e.environmentRisk # Unset /\ RiskExceeds(c.at["risk"], e.environmentRisk)

\* A rule applies when each selector that it has holds the call's value; one that
\* waives approval never applies to a tool that requires it.
RuleMatches(rule, c) ==
  /\ \A a \in Attributes : rule.selects[a] = {} \/ c.at[a] \in rule.selects[a]
  /\ rule.permissions \subseteq c.granted
  /\ ~ (rule.approval = "waived" /\ c.requiresApproval)

Matching(policy, c) == {rule \in policy.rules : RuleMatches(rule, c)}

\* Every policy has its say: the rules that match, or else its default.
Effects(policy, c) ==
  IF Matching(policy, c) = {} THEN {policy.default} ELSE {rule.effect : rule \in Matching(policy, c)}

EvaluateDefinitions(c, e) ==
  LET denies == \E p \in e.policies : ~ p.active \/ "deny" \in Effects(p, c)
      asks   == \E p \in e.policies : \E rule \in Matching(p, c) : rule.approval = "required"
  IN  IF denies THEN Denied ELSE [allowed |-> TRUE, approval |-> c.requiresApproval \/ asks]

\* Hooks are the application's: the first that raises or denies decides.
HooksDeny(answers) == \E i \in DOMAIN answers : answers[i] \in {"error", "deny"}

HooksAsk(answers) == \E i \in DOMAIN answers : answers[i] = "approval"

\* DeclarativePolicyEngine.evaluate: everything may deny, nothing may add.
Evaluate(c, e, answers) ==
  IF \/ ~ c.samePrincipal \/ ~ c.active \/ ~ c.authorized \/ ~ c.environmentAllowed
     \/ MappingDenies(e.principalTools, c.at["tool"]) \/ MappingDenies(e.agentTools, c.at["tool"])
     \/ PrincipalPermissionDenies(c, e) \/ EnvironmentDenies(c, e)
     \/ RiskExceeds(c.at["risk"], c.maxRisk) \/ ~ (c.required \subseteq c.granted)
     \/ ~ EvaluateDefinitions(c, e).allowed \/ HooksDeny(answers)
  THEN Denied
  ELSE [allowed |-> TRUE, approval |-> EvaluateDefinitions(c, e).approval \/ HooksAsk(answers)]

\* AgentFactory._approval_rule_covers_tool: a rule that gates the tool in every run of
\* the agent.  A rule that looks at what the caller or the call supplies does not.
CoversTool(rule, c) ==
  /\ rule.effect = "allow" /\ rule.approval = "required" /\ rule.permissions = {}
  /\ \A a \in {"tool", "agent", "risk"} : rule.selects[a] = {} \/ c.at[a] \in rule.selects[a]
  /\ \A a \in Attributes \ {"tool", "agent", "risk"} : rule.selects[a] = {}

\* DefaultPermissionBroker.authorize, with the record it attaches.
DefaultBroker(answers) ==
  LET policy == Evaluate(call, engine, answers) IN
  [decision |-> IF ~ policy.allowed THEN Denied
                ELSE IF policy.approval /\ ~ approved THEN NeedsApproval ELSE Allowed,
   policy |-> policy, aboutThisCall |-> TRUE]

-----------------------------------------------------------------------------
(* The runtime.                                                              *)

\* external: what a broker of the application's own may answer.
CustomBroker ==
  [decision : PermissionDecision, policy : PermissionDecision \union {Unset}, aboutThisCall : BOOLEAN]

WithinExecution(c) ==
  /\ c.authorized /\ c.required \subseteq c.granted
  /\ c.environmentAllowed /\ ~ RiskExceeds(c.at["risk"], c.maxRisk)

\* Mutation: an exact approval is taken before the ceiling is looked at.
CeilingApprovedFirst(answer) ==
  IF ~ answer.aboutThisCall THEN Denied
  ELSE IF answer.policy # Unset /\ ~ answer.policy.allowed THEN Denied
  ELSE IF ~ answer.decision.allowed THEN answer.decision
  ELSE IF approved THEN Allowed
  ELSE IF ~ WithinExecution(call) THEN Denied
  ELSE IF answer.decision.approval \/ call.requiresApproval
            \/ (answer.policy # Unset /\ answer.policy.approval)
  THEN NeedsApproval ELSE Allowed

\* _authorize: no answer of a broker exceeds what the execution carries, and only
\* an exact approval satisfies a tool or a policy that asks for one.
Ceiling(answer) ==
  IF ~ answer.aboutThisCall THEN Denied
  ELSE IF answer.policy # Unset /\ ~ answer.policy.allowed THEN Denied
  ELSE IF ~ answer.decision.allowed THEN answer.decision
  ELSE IF ~ WithinExecution(call) THEN Denied
  ELSE IF /\ ~ approved
          /\ \/ answer.decision.approval \/ call.requiresApproval
             \/ answer.policy # Unset /\ answer.policy.approval
  THEN NeedsApproval ELSE Allowed

HookAnswers == {<<>>} \union {<<a>> : a \in {"error", "deny", "allow", "approval"}}

\* Both calls of _authorize: for the proposal and after an approval.
Authorize ==
  /\ stage \in {"authorize", "again"}
  /\ IF engine = Unset
     THEN \E answer \in CustomBroker : permission' = Ceiling(answer)
     ELSE \E answers \in HookAnswers : permission' = Ceiling(DefaultBroker(answers))
  /\ stage' = IF stage = "authorize" THEN "gate" ELSE "decide"
  /\ UNCHANGED <<call, engine, gates, approved>>

\* DeclarativeApprovalPolicyEngine.evaluate: the most restrictive active policy.
ApprovalRequired ==
  \E p \in gates :
    /\ p.active
    /\ \/ p.default
       \/ \E rule \in p.rules :
            /\ rule.requires
            /\ \A a \in ApprovalAttributes :
                 rule.selects[a] = {} \/ call.at[a] \in rule.selects[a]

ApplyApprovalPolicy ==
  /\ stage = "gate"
  /\ permission' = IF permission.allowed /\ ApprovalRequired /\ ~ approved
                   THEN NeedsApproval ELSE permission
  /\ stage' = IF permission'.approval THEN "request" ELSE "decide"
  /\ UNCHANGED <<call, engine, gates, approved>>

\* The approval broker answers at once, or the run pauses and nothing runs.  An
\* approval adds the digest and is followed by a second look at the authority.
RequestApproval ==
  /\ stage = "request"
  /\ \/ stage' = "paused" /\ UNCHANGED approved
     \/ stage' = "decide" /\ UNCHANGED approved
     \/ stage' = "again" /\ approved' = TRUE
  /\ UNCHANGED <<call, engine, gates, permission>>

Conclude ==
  /\ stage = "decide"
  /\ stage' = IF permission.allowed THEN "ran" ELSE "denied"
  /\ UNCHANGED <<call, engine, gates, approved, permission>>

AuthorityNext == Authorize \/ ApplyApprovalPolicy \/ RequestApproval \/ Conclude

AuthoritySpec == AuthorityInit /\ [][AuthorityNext]_authorityVars

-----------------------------------------------------------------------------

\* Whatever broker is installed, and also after an approval, a handler runs only
\* for a call inside the execution's tools, permissions, environments and risk, and
\* with an exact approval when the tool or an approval policy wants one; with the
\* policy engine, no rule that applies denies the call, and what the factory takes for
\* an approval gate is one.
HandlerWithinAuthority ==
  stage = "ran" =>
    /\ call.authorized /\ call.environmentAllowed
    /\ call.required \subseteq call.granted
    /\ call.at["risk"] <= call.maxRisk
    /\ call.requiresApproval \/ ApprovalRequired => approved
    /\ engine # Unset =>
         /\ call.active /\ call.samePrincipal
         /\ \A p \in engine.policies : \A rule \in p.rules :
              rule.effect = "deny" =>
                \/ \E a \in Attributes : rule.selects[a] # {} /\ call.at[a] \notin rule.selects[a]
                \/ ~ (rule.permissions \subseteq call.granted)
                \/ rule.approval = "waived" /\ call.requiresApproval
         /\ (\E p \in engine.policies : \E rule \in p.rules : CoversTool(rule, call)) => approved
=============================================================================
