----------------------------- MODULE SafetyPolicy -----------------------------
(***************************************************************************)
(* How a run that has executed its plan ends: the tool results it gathered, *)
(* the outcome its provider proposes, verify_outcome                        *)
(* (verification/outcomes.py) and SafetyPolicy (governance/safety.py).      *)
(* Texts, flags and reasons are left out; confidence is a small number.     *)
(***************************************************************************)
EXTENDS Naturals, Sequences, FiniteSets

CONSTANTS Evidence,        \* evidence ids
          MaxResults,      \* bound: results of one run
          MaxConfidence,   \* bound: the top of the confidence scale
          MinimumConfidence, HighConfidence   \* minimum_ and high_confidence_threshold

ASSUME ConfidenceAssumption ==
  MaxConfidence \in Nat /\ MinimumConfidence \in Nat /\ HighConfidence \in Nat

RiskLevels == 0 .. 3      \* low, medium, high, critical
HighRisk == {2, 3}

\* "failed" also stands for invalid arguments, "other" for the statuses that are
\* neither success, failure nor restriction.
Result ==
  [status : {"succeeded", "failed", "restricted", "empty", "other"},
   restricted : BOOLEAN, conflicts : BOOLEAN, injected : BOOLEAN, evidence : SUBSET Evidence]

VARIABLES results,         \* what the plan's tools returned
          highestRisk,     \* of the tools the plan used
          proposal,        \* what the provider composed
          verdict          \* the safety decision

safetyVars == <<results, highestRisk, proposal, verdict>>

Undecided == [status |-> "none", review |-> FALSE]
NoProposal == [evidence |-> {}, confidence |-> 0]

SafetyTypeOK ==
  /\ results \in Seq(Result)
  /\ highestRisk \in RiskLevels
  /\ proposal \in [evidence : SUBSET Evidence, confidence : 0 .. MaxConfidence]

SafetyInit ==
  /\ results = <<>>
  /\ highestRisk = 0
  /\ proposal = NoProposal
  /\ verdict = Undecided

HigherRisk(a, b) == IF a > b THEN a ELSE b

\* inspect_input: the text is refused before anything runs.
InspectInput ==
  /\ verdict = Undecided /\ results = <<>>
  /\ verdict' = [status |-> "refused", review |-> FALSE]
  /\ UNCHANGED <<results, highestRisk, proposal>>

\* _detect_indirect_injection marks what a tool returned; it is not removed.
ToolReturns(result, risk) ==
  /\ verdict = Undecided
  /\ Len(results) < MaxResults
  /\ results' = Append(results, result)
  /\ highestRisk' = HigherRisk(highestRisk, risk)
  /\ UNCHANGED <<proposal, verdict>>

Returned == {results[i] : i \in DOMAIN results}

\* verify_outcome
InvalidEvidence(p) == p.evidence \ UNION {r.evidence : r \in Returned}

Restricted == \E r \in Returned : r.restricted \/ r.status = "restricted"
Conflicts == \E r \in Returned : r.conflicts
Injected == \E r \in Returned : r.injected
Failed == \E r \in Returned : r.status = "failed"
Succeeded == \E r \in Returned : r.status = "succeeded"

As(status, review) == [status |-> status, review |-> review]

\* Mutation: a confident proposal completes whatever some of the tools did.
DecideOnConfidence(p) ==
  IF Restricted THEN As("refused", FALSE)
  ELSE IF InvalidEvidence(p) # {}
  THEN As(IF highestRisk \in HighRisk THEN "escalated" ELSE "needs_input", TRUE)
  ELSE IF ~ Succeeded /\ ~ Failed THEN As("needs_input", FALSE)
  ELSE IF ~ Succeeded THEN As("failed", FALSE)
  ELSE IF p.confidence >= HighConfidence THEN As("completed", FALSE)
  ELSE As("partial", TRUE)

\* decide: the first rule that applies.
DecideOutcome(p) ==
  IF Restricted THEN As("refused", FALSE)
  ELSE IF InvalidEvidence(p) # {}
  THEN As(IF highestRisk \in HighRisk THEN "escalated" ELSE "needs_input", TRUE)
  ELSE IF ~ Succeeded /\ ~ Failed THEN As("needs_input", FALSE)
  ELSE IF ~ Succeeded THEN As("failed", FALSE)
  ELSE IF highestRisk \in HighRisk /\ (Conflicts \/ Injected) THEN As("escalated", TRUE)
  ELSE IF Conflicts \/ Injected \/ Failed THEN As("partial", TRUE)
  ELSE IF p.confidence < MinimumConfidence
  THEN IF highestRisk \in HighRisk THEN As("escalated", TRUE) ELSE As("needs_input", FALSE)
  ELSE IF p.confidence < HighConfidence THEN As("partial", TRUE)
  ELSE As("completed", FALSE)

ComposeOutcome(p) ==
  /\ verdict = Undecided
  /\ proposal' = p
  /\ verdict' = DecideOutcome(p)
  /\ UNCHANGED <<results, highestRisk>>

SafetyNext ==
  \/ InspectInput
  \/ \E result \in Result, risk \in RiskLevels : ToolReturns(result, risk)
  \/ \E p \in [evidence : SUBSET Evidence, confidence : 0 .. MaxConfidence] : ComposeOutcome(p)

SafetySpec == SafetyInit /\ [][SafetyNext]_safetyVars

-----------------------------------------------------------------------------

\* A run completes only on clean results: something succeeded, nothing failed, was
\* restricted, contradictory or instruction-like, all evidence was returned by a
\* tool and the provider is confident.  What is short of that and still reports
\* work of a high-risk tool goes to a person.
CompletedIsClean ==
  /\ verdict.status = "completed" =>
       /\ Succeeded
       /\ \A r \in Returned :
            /\ r.status \in {"succeeded", "empty", "other"}
            /\ ~ r.restricted /\ ~ r.conflicts /\ ~ r.injected
       /\ proposal.evidence \subseteq UNION {r.evidence : r \in Returned}
       /\ proposal.confidence >= HighConfidence
  /\ verdict.status \in {"partial", "escalated"} => verdict.review
  /\ highestRisk \in HighRisk /\ Succeeded /\ ~ verdict.review
       => verdict.status \in {"none", "refused", "completed"}
=============================================================================
