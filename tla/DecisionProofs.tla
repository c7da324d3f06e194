--------------------------- MODULE DecisionProofs ---------------------------
(***************************************************************************)
(* What lets a handler run and what lets a run complete, for every call,    *)
(* policy engine, broker, approval policy, tool result and proposal.        *)
(***************************************************************************)
EXTENDS Authority, SafetyPolicy, TLAPS

-----------------------------------------------------------------------------
(* The policy engine                                                         *)

\* No policy that applies to the call denies it, and all that ask for approval got it.
NothingDenies(c, e) ==
  /\ c.active /\ c.samePrincipal
  /\ \A p \in e.policies : \A rule \in p.rules : RuleMatches(rule, c) => rule.effect # "deny"

\* What the engine allows, no rule that matches denies.
LEMMA AllowedIsUndenied ==
  ASSUME NEW c, NEW e, NEW answers, Evaluate(c, e, answers).allowed
  PROVE  NothingDenies(c, e)
<1>1. /\ c.samePrincipal /\ c.active /\ EvaluateDefinitions(c, e).allowed
  BY DEF Evaluate, Denied
<1>2. \A p \in e.policies : "deny" \notin Effects(p, c)
  BY <1>1 DEF EvaluateDefinitions, Denied
<1>3. ASSUME NEW p \in e.policies, NEW rule \in p.rules, RuleMatches(rule, c)
      PROVE  rule.effect # "deny"
  <2>1. rule \in Matching(p, c)
    BY <1>3 DEF Matching
  <2>2. Effects(p, c) = {r.effect : r \in Matching(p, c)}
    BY <2>1 DEF Effects
  <2>3. rule.effect \in Effects(p, c)
    BY <2>1, <2>2
  <2> QED BY <1>2, <2>3
<1> QED BY <1>1, <1>3 DEF NothingDenies

\* What the factory takes for a gate matches every call of the tool.
LEMMA CoveringMatches ==
  ASSUME NEW rule, NEW c, CoversTool(rule, c)
  PROVE  RuleMatches(rule, c)
BY DEF CoversTool, RuleMatches

\* A rule that gates the tool makes the engine ask for approval, whatever else it says.
LEMMA CoveredNeedsApproval ==
  ASSUME NEW c, NEW e, NEW answers, Evaluate(c, e, answers).allowed,
         NEW p \in e.policies, NEW rule \in p.rules, CoversTool(rule, c)
  PROVE  Evaluate(c, e, answers).approval
<1>1. rule \in Matching(p, c) /\ rule.approval = "required"
  BY CoveringMatches DEF Matching, CoversTool
<1>2. EvaluateDefinitions(c, e).allowed
  BY DEF Evaluate, Denied
<1>3. EvaluateDefinitions(c, e).approval
  BY <1>1, <1>2 DEF EvaluateDefinitions, Denied
<1> QED BY <1>3 DEF Evaluate, Denied

\* The definitions of f are the definitions of e and more, and nothing else differs.
Extends(f, e) ==
  /\ e.policies \subseteq f.policies
  /\ f.principalTools = e.principalTools /\ f.agentTools = e.agentTools
  /\ f.principalPermissions = e.principalPermissions /\ f.constraints = e.constraints
  /\ f.environmentTools = e.environmentTools /\ f.environmentRisk = e.environmentRisk

\* DeclarativePolicyEngine: a further policy definition can take away and can ask for
\* approval; it allows nothing that was denied and waives no approval.
THEOREM PoliciesOnlyRestrict ==
  ASSUME NEW c, NEW e, NEW f, NEW answers, Extends(f, e), Evaluate(c, f, answers).allowed
  PROVE  /\ Evaluate(c, e, answers).allowed
         /\ Evaluate(c, e, answers).approval => Evaluate(c, f, answers).approval
<1>1. EvaluateDefinitions(c, f).allowed
  BY DEF Evaluate, Denied
<1>2. /\ EvaluateDefinitions(c, e).allowed
      /\ EvaluateDefinitions(c, e).approval => EvaluateDefinitions(c, f).approval
  BY <1>1 DEF EvaluateDefinitions, Denied, Extends
<1>3. PrincipalPermissionDenies(c, e) = PrincipalPermissionDenies(c, f)
      /\ EnvironmentDenies(c, e) = EnvironmentDenies(c, f)
  BY DEF PrincipalPermissionDenies, EnvironmentDenies, Extends
<1>4. Evaluate(c, e, answers).allowed
  BY <1>2, <1>3 DEF Evaluate, Denied, Extends
<1> QED BY <1>1, <1>2, <1>4 DEF Evaluate, Denied

-----------------------------------------------------------------------------
(* The runtime's ceiling                                                     *)

\* What a broker's answer gets to run is inside the execution, and approved if the
\* tool, the broker or its policy asks for that.
LEMMA CeilingHolds ==
  ASSUME NEW answer, Ceiling(answer).allowed
  PROVE  /\ Ceiling(answer) = Allowed
         /\ WithinExecution(call)
         /\ answer.decision.allowed
         /\ answer.policy # Unset => answer.policy.allowed
         /\ call.requiresApproval => approved
         /\ answer.policy # Unset /\ answer.policy.approval => approved
BY DEF Ceiling, Denied, NeedsApproval

\* What the engine allowed, as far as the call is concerned.
EngineHolds ==
  engine # Unset =>
    /\ NothingDenies(call, engine)
    /\ (\E p \in engine.policies : \E rule \in p.rules : CoversTool(rule, call)) => approved

\* A permission, from the moment it is given.
Permitted ==
  permission.allowed =>
    /\ permission = Allowed
    /\ WithinExecution(call)
    /\ call.requiresApproval => approved
    /\ EngineHolds

\* The approval policies have had their say when the run gets to the decision, and a
\* second look is only taken after an approval.
Gated ==
  /\ stage \in {"decide", "ran"} /\ permission.allowed /\ ApprovalRequired => approved
  /\ stage = "again" => approved
  /\ stage = "request" => permission.approval
  /\ stage = "ran" => permission.allowed

AuthorityInv == AuthorityTypeOK /\ Permitted /\ Gated

\* Decisions are allowed or not, with approval or not.
LEMMA DecisionsTyped ==
  /\ Denied \in PermissionDecision /\ NeedsApproval \in PermissionDecision /\ Allowed \in PermissionDecision
  /\ ~ Denied.allowed /\ ~ NeedsApproval.allowed /\ NeedsApproval.approval
  /\ Allowed.allowed /\ ~ Allowed.approval
BY DEF Denied, NeedsApproval, Allowed, PermissionDecision

\* The decision starts from a denial.
LEMMA AuthorityInitInv == AuthorityInit => AuthorityInv
BY DecisionsTyped
DEF AuthorityInit, AuthorityInv, AuthorityTypeOK, Permitted, Gated, Stages

\* The ceiling answers with a decision.
LEMMA CeilingTyped ==
  ASSUME NEW answer, answer.decision \in PermissionDecision
  PROVE  Ceiling(answer) \in PermissionDecision
BY DecisionsTyped DEF Ceiling

\* Whoever is asked, for the first time or after an approval, what is permitted then is
\* within the execution, and as approved as it has to be.
LEMMA AuthorizeKeeps ==
  ASSUME AuthorityInv, Authorize
  PROVE  AuthorityInv'
<1>1. UNCHANGED <<call, engine, gates, approved>> /\ stage \in {"authorize", "again"}
      /\ stage' = IF stage = "authorize" THEN "gate" ELSE "decide"
  BY DEF Authorize
<1>2. PICK answer : /\ permission' = Ceiling(answer) /\ answer.decision \in PermissionDecision
                    /\ engine = Unset \/ \E answers \in HookAnswers : answer = DefaultBroker(answers)
  <2>1. CASE engine = Unset
    BY <2>1 DEF Authorize, CustomBroker
  <2>2. CASE engine # Unset
    <3>1. PICK answers \in HookAnswers : permission' = Ceiling(DefaultBroker(answers))
      BY <2>2 DEF Authorize
    <3>2. DefaultBroker(answers).decision \in PermissionDecision
      BY DecisionsTyped DEF DefaultBroker
    <3> QED BY <3>1, <3>2
  <2> QED BY <2>1, <2>2
<1>3. permission' \in PermissionDecision
  BY <1>2, CeilingTyped
<1>4. ASSUME permission'.allowed, engine # Unset
      PROVE  EngineHolds
  <2>1. PICK answers \in HookAnswers : answer = DefaultBroker(answers)
    BY <1>2, <1>4
  <2> DEFINE policy == Evaluate(call, engine, answers)
  <2>2. answer.policy = policy /\ (answer.decision.allowed => policy.allowed /\ (policy.approval => approved))
    BY <2>1 DEF DefaultBroker, Denied, NeedsApproval
  <2>3. answer.decision.allowed
    BY <1>2, <1>4, CeilingHolds
  <2>4. policy.allowed /\ (policy.approval => approved)
    BY <2>2, <2>3
  <2>5. NothingDenies(call, engine)
    BY <2>4, AllowedIsUndenied
  <2>6. ASSUME NEW p \in engine.policies, NEW rule \in p.rules, CoversTool(rule, call)
        PROVE  approved
    BY <2>4, <2>6, CoveredNeedsApproval
  <2> QED BY <2>5, <2>6 DEF EngineHolds
<1>5. permission'.allowed =>
        permission' = Allowed /\ WithinExecution(call) /\ (call.requiresApproval => approved)
  BY <1>2, CeilingHolds
<1>6. EngineHolds' = EngineHolds
  BY <1>1 DEF EngineHolds
<1>7. Permitted'
  BY <1>1, <1>4, <1>5, <1>6 DEF Permitted, EngineHolds
<1>8. Gated'
  BY <1>1 DEF Gated, AuthorityInv
<1>9. AuthorityTypeOK'
  BY <1>1, <1>3 DEF AuthorityInv, AuthorityTypeOK, Stages
<1> QED BY <1>7, <1>8, <1>9 DEF AuthorityInv

\* An approval policy may take a permission back until there is an approval.
LEMMA GateKeeps ==
  ASSUME AuthorityInv, ApplyApprovalPolicy
  PROVE  AuthorityInv'
<1>1. /\ UNCHANGED <<call, engine, gates, approved>>
      /\ stage' = IF permission'.approval THEN "request" ELSE "decide"
      /\ permission' = IF permission.allowed /\ ApprovalRequired /\ ~ approved
                       THEN NeedsApproval ELSE permission
  BY DEF ApplyApprovalPolicy
<1>2. ApprovalRequired' = ApprovalRequired
  BY <1>1 DEF ApprovalRequired
<1>3. permission' \in PermissionDecision
  BY <1>1, DecisionsTyped DEF AuthorityInv, AuthorityTypeOK
<1>4. permission'.allowed => permission' = permission /\ (ApprovalRequired => approved)
  BY <1>1, DecisionsTyped
<1>5. Permitted'
  BY <1>1, <1>4 DEF AuthorityInv, Permitted, EngineHolds
<1>6. Gated'
  BY <1>1, <1>2, <1>4 DEF Gated
<1>7. AuthorityTypeOK'
  BY <1>1, <1>3 DEF AuthorityInv, AuthorityTypeOK, Stages
<1> QED BY <1>5, <1>6, <1>7 DEF AuthorityInv

\* Nothing is permitted while an approval is asked for.
LEMMA RequestKeeps ==
  ASSUME AuthorityInv, RequestApproval
  PROVE  AuthorityInv'
<1>1. /\ UNCHANGED <<call, engine, gates, permission>> /\ stage = "request"
      /\ \/ stage' \in {"paused", "decide"} /\ approved' = approved
         \/ stage' = "again" /\ approved' = TRUE
  BY DEF RequestApproval
<1>2. ~ permission.allowed
  BY <1>1, DecisionsTyped DEF AuthorityInv, Permitted, Gated
<1>3. Permitted'
  BY <1>1, <1>2 DEF Permitted
<1>4. Gated'
  BY <1>1, <1>2 DEF Gated
<1>5. AuthorityTypeOK'
  BY <1>1 DEF AuthorityInv, AuthorityTypeOK, Stages
<1> QED BY <1>3, <1>4, <1>5 DEF AuthorityInv

\* The handler runs, or the call is denied.
LEMMA ConcludeKeeps ==
  ASSUME AuthorityInv, Conclude
  PROVE  AuthorityInv'
<1>1. /\ UNCHANGED <<call, engine, gates, approved, permission>> /\ stage = "decide"
      /\ stage' = IF permission.allowed THEN "ran" ELSE "denied"
  BY DEF Conclude
<1>2. ApprovalRequired' = ApprovalRequired
  BY <1>1 DEF ApprovalRequired
<1>3. Permitted' /\ Gated'
  BY <1>1, <1>2 DEF AuthorityInv, Permitted, EngineHolds, Gated
<1>4. AuthorityTypeOK'
  BY <1>1 DEF AuthorityInv, AuthorityTypeOK, Stages
<1> QED BY <1>3, <1>4 DEF AuthorityInv

\* Every step of a decision keeps it.
LEMMA AuthorityStep == AuthorityInv /\ [AuthorityNext]_authorityVars => AuthorityInv'
<1> SUFFICES ASSUME AuthorityInv, [AuthorityNext]_authorityVars PROVE AuthorityInv'
  OBVIOUS
<1>1. CASE UNCHANGED authorityVars
  BY <1>1 DEF authorityVars, AuthorityInv, AuthorityTypeOK, Permitted, EngineHolds, Gated, ApprovalRequired
<1>2. CASE AuthorityNext
  BY <1>2, AuthorizeKeeps, GateKeeps, RequestKeeps, ConcludeKeeps DEF AuthorityNext
<1> QED BY <1>1, <1>2

\* The inductive invariant.
LEMMA AuthorityHolds == AuthoritySpec => []AuthorityInv
  BY AuthorityInitInv, AuthorityStep, PTL DEF AuthoritySpec

\* AgentRuntime._authorize: no broker, policy, hook or approval gets a handler to run
\* outside what the execution carries.
THEOREM NoHandlerBeyondAuthority == AuthoritySpec => []HandlerWithinAuthority
<1>1. AuthorityInv => HandlerWithinAuthority
  <2> SUFFICES ASSUME AuthorityInv, stage = "ran" PROVE HandlerWithinAuthority
    BY DEF HandlerWithinAuthority
  <2>1. permission.allowed
    BY DEF AuthorityInv, Gated
  <2>2. WithinExecution(call) /\ (call.requiresApproval \/ ApprovalRequired => approved) /\ EngineHolds
    BY <2>1 DEF AuthorityInv, Permitted, Gated
  <2>3. call.at["risk"] <= call.maxRisk
    <3>1. call.at["risk"] \in Nat /\ call.maxRisk \in Nat
      BY CallAssumption DEF AuthorityInv, AuthorityTypeOK
    <3> QED BY <2>2, <3>1 DEF WithinExecution, RiskExceeds
  <2>4. ASSUME engine # Unset, NEW p \in engine.policies, NEW rule \in p.rules, rule.effect = "deny"
        PROVE  \/ \E a \in Attributes : rule.selects[a] # {} /\ call.at[a] \notin rule.selects[a]
               \/ ~ (rule.permissions \subseteq call.granted)
               \/ rule.approval = "waived" /\ call.requiresApproval
    <3>1. ~ RuleMatches(rule, call)
      BY <2>2, <2>4 DEF EngineHolds, NothingDenies
    <3> QED BY <3>1 DEF RuleMatches
  <2> QED BY <2>2, <2>3, <2>4 DEF HandlerWithinAuthority, WithinExecution, EngineHolds, NothingDenies
<1> QED BY <1>1, AuthorityHolds, PTL

-----------------------------------------------------------------------------
(* The safety policy                                                         *)

Proposals == [evidence : SUBSET Evidence, confidence : 0 .. MaxConfidence]

\* A verdict is a refusal of the input, or what decide says of the proposal and of the
\* results that there are; nothing returns after it.
Grounded ==
  \/ verdict = Undecided
  \/ verdict = [status |-> "refused", review |-> FALSE]
  \/ verdict = DecideOutcome(proposal)

SafetyInv == SafetyTypeOK /\ Grounded

\* Nothing is decided at first.
LEMMA SafetyInitInv == SafetyInit => SafetyInv
<1> SUFFICES ASSUME SafetyInit PROVE SafetyInv
  OBVIOUS
<1>1. <<>> \in Seq(Result)
  OBVIOUS
<1> QED BY <1>1, ConfidenceAssumption
  DEF SafetyInit, SafetyInv, SafetyTypeOK, Grounded, NoProposal, RiskLevels

\* Every step keeps it.
LEMMA SafetyStep == SafetyInv /\ [SafetyNext]_safetyVars => SafetyInv'
<1> SUFFICES ASSUME SafetyInv, [SafetyNext]_safetyVars PROVE SafetyInv'
  OBVIOUS
<1>1. ASSUME UNCHANGED <<results, highestRisk>>
      PROVE  DecideOutcome(proposal)' = DecideOutcome(proposal')
  BY <1>1
  DEF DecideOutcome, Restricted, Conflicts, Injected, Failed, Succeeded, Returned, InvalidEvidence
<1>2. CASE UNCHANGED safetyVars
  <2>1. DecideOutcome(proposal)' = DecideOutcome(proposal)
    BY <1>1, <1>2 DEF safetyVars
  <2> QED BY <1>2, <2>1 DEF safetyVars, SafetyInv, SafetyTypeOK, Grounded
<1>3. CASE InspectInput
  BY <1>3 DEF InspectInput, SafetyInv, SafetyTypeOK, Grounded
<1>4. ASSUME NEW result \in Result, NEW risk \in RiskLevels, ToolReturns(result, risk)
      PROVE  SafetyInv'
  <2>1. verdict' = Undecided
    BY <1>4 DEF ToolReturns
  <2>2. results' \in Seq(Result) /\ highestRisk' \in RiskLevels /\ proposal' = proposal
    BY <1>4 DEF ToolReturns, HigherRisk, SafetyInv, SafetyTypeOK
  <2> QED BY <2>1, <2>2 DEF SafetyInv, SafetyTypeOK, Grounded
<1>5. ASSUME NEW p \in Proposals, ComposeOutcome(p)
      PROVE  SafetyInv'
  <2>1. proposal' = p /\ verdict' = DecideOutcome(p) /\ UNCHANGED <<results, highestRisk>>
    BY <1>5 DEF ComposeOutcome
  <2>2. verdict' = DecideOutcome(proposal)'
    BY <1>1, <2>1
  <2> QED BY <2>1, <2>2 DEF SafetyInv, SafetyTypeOK, Grounded, Proposals
<1> QED BY <1>2, <1>3, <1>4, <1>5 DEF SafetyNext, Proposals

\* The inductive invariant.
LEMMA SafetyHolds == SafetySpec => []SafetyInv
  BY SafetyInitInv, SafetyStep, PTL DEF SafetySpec

\* What decide completes is clean, and what it holds back a person reviews.
LEMMA DecidedClean ==
  ASSUME SafetyTypeOK, NEW v, v = DecideOutcome(proposal)
  PROVE  /\ v.status = "completed" =>
              /\ Succeeded /\ ~ Failed /\ ~ Restricted /\ ~ Conflicts /\ ~ Injected
              /\ InvalidEvidence(proposal) = {}
              /\ ~ (proposal.confidence < HighConfidence)
         /\ v.status \in {"partial", "escalated"} => v.review
         /\ highestRisk \in HighRisk /\ Succeeded /\ ~ v.review
              => v.status \in {"none", "refused", "completed"}
BY DEF DecideOutcome, As

\* SafetyPolicy.decide after verify_outcome: a run completes on clean results alone, and
\* a person sees the rest.
THEOREM CompletesOnlyClean == SafetySpec => []CompletedIsClean
<1>1. SafetyInv => CompletedIsClean
  <2> SUFFICES ASSUME SafetyInv PROVE CompletedIsClean
    OBVIOUS
  <2>1. CASE verdict \in {Undecided, [status |-> "refused", review |-> FALSE]}
    BY <2>1 DEF CompletedIsClean, Undecided
  <2>2. CASE verdict = DecideOutcome(proposal)
    <3>1. /\ verdict.status = "completed" =>
               /\ Succeeded /\ ~ Failed /\ ~ Restricted /\ ~ Conflicts /\ ~ Injected
               /\ InvalidEvidence(proposal) = {}
               /\ ~ (proposal.confidence < HighConfidence)
          /\ verdict.status \in {"partial", "escalated"} => verdict.review
          /\ highestRisk \in HighRisk /\ Succeeded /\ ~ verdict.review
               => verdict.status \in {"none", "refused", "completed"}
      BY <2>2, DecidedClean DEF SafetyInv
    <3>2. ASSUME verdict.status = "completed"
          PROVE  /\ \A r \in Returned :
                      /\ r.status \in {"succeeded", "empty", "other"}
                      /\ ~ r.restricted /\ ~ r.conflicts /\ ~ r.injected
                 /\ proposal.evidence \subseteq UNION {r.evidence : r \in Returned}
                 /\ proposal.confidence >= HighConfidence
      <4>1. Returned \subseteq Result
        BY DEF Returned, SafetyInv, SafetyTypeOK
      <4>2. \A r \in Returned :
              /\ r.status \in {"succeeded", "empty", "other"}
              /\ ~ r.restricted /\ ~ r.conflicts /\ ~ r.injected
        BY <3>1, <3>2, <4>1 DEF Result, Failed, Restricted, Conflicts, Injected
      <4>3. proposal.evidence \subseteq UNION {r.evidence : r \in Returned}
        BY <3>1, <3>2 DEF InvalidEvidence
      <4>4. proposal.confidence >= HighConfidence
        BY <3>1, <3>2, ConfidenceAssumption DEF SafetyInv, SafetyTypeOK
      <4> QED BY <4>2, <4>3, <4>4
    <3> QED BY <3>1, <3>2 DEF CompletedIsClean
  <2> QED BY <2>1, <2>2 DEF SafetyInv, Grounded
<1> QED BY <1>1, SafetyHolds, PTL

=============================================================================
