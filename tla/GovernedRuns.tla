---------------------------- MODULE GovernedRuns ----------------------------
(***************************************************************************)
(* AgentRuntime._execute (runtime/execution.py) seen from its controls:     *)
(* plan, check the plan, run its steps through the shared tool registry,    *)
(* compose, while callers cancel, deadlines pass and tools change.  What    *)
(* decides a step (permission, approval) is Authority's and ApprovalGate's; *)
(* here every step of a plan is permitted.                                  *)
(***************************************************************************)
EXTENDS ToolRegistry, ProviderCalls, Sequences, FiniteSets

CONSTANTS MaxSteps,        \* max_plan_steps
          Plans,           \* what the provider of each run may propose
          Usage,           \* what one provider call may use
          OperatorMoves    \* bound: the statuses operators move tools to

ASSUME PlanAssumption == MaxSteps \in Nat /\ Plans \in [Runs -> SUBSET Seq(Step)] /\ Usage \subseteq Nat /\ OperatorMoves \subseteq Lifecycle

VARIABLES phase,           \* what each run is doing
          plan, position,  \* the plan it follows and the step it is at
          outcome,         \* how it has ended
          started          \* how many attempts each run has begun, calls and retries apart

runVars == <<phase, plan, position, outcome, started>>
governedVars == <<controlVars, toolVars, provider, runVars>>

Outcomes ==
  {"none", "answered", "refused", "needs_input", "failed", "budget", "cancelled", "timed_out", "raised"}

GovernedTypeOK ==
  /\ ControlTypeOK /\ ToolTypeOK /\ ProviderTypeOK
  /\ phase \in [Runs -> {"plan", "validate", "step", "fetch", "tool", "compose", "closing", "ended"}]
  /\ \A r \in Runs : position[r] \in 1 .. Len(plan[r]) + 1
  /\ outcome \in [Runs -> Outcomes]
  /\ \A r \in Runs : outcome[r] # "none" <=> phase[r] \in {"closing", "ended"}

GovernedInit ==
  /\ ControlInit /\ ToolInit /\ ProviderInit
  /\ phase = [r \in Runs |-> "plan"]
  /\ plan = [r \in Runs |-> <<>>]
  /\ position = [r \in Runs |-> 1]
  /\ outcome = [r \in Runs |-> "none"]
  /\ started = [r \in Runs |-> [calls |-> 0, attempts |-> 0]]

StepOf(r) == plan[r][position[r]]

Go(r, to, at) ==
  /\ phase' = [phase EXCEPT ![r] = to]
  /\ position' = [position EXCEPT ![r] = at]
  /\ UNCHANGED outcome

End(r, o) ==
  /\ phase' = [phase EXCEPT ![r] = "closing"]
  /\ outcome' = [outcome EXCEPT ![r] = o]
  /\ UNCHANGED position

BeginsCall(r) == started' = [started EXCEPT ![r] = [calls |-> @.calls + 1, attempts |-> @.attempts + 1]]

BeginsAttempt(r) == started' = [started EXCEPT ![r].attempts = @ + 1]

-----------------------------------------------------------------------------
(* Provider calls: planning and composing.                                   *)

AskProvider(r) ==
  /\ phase[r] \in {"plan", "compose"}
  /\ provider[r].at = "idle"
  /\ Stopped(r) = "no"
  /\ StartCall(r)
  /\ BeginsCall(r)
  /\ UNCHANGED <<toolVars, phase, position, outcome, plan>>

WaitForProvider(r) ==
  /\ phase[r] \in {"plan", "compose"}
  /\ ProviderStep(r)
  /\ IF provider'[r].attempts > provider[r].attempts THEN BeginsAttempt(r) ELSE UNCHANGED started
  /\ UNCHANGED <<toolVars, phase, position, outcome, plan>>

\* The response is checked against the controls and counted before it is used.
UseResponse(r) ==
  /\ provider[r].at = "answered"
  /\ provider' = [provider EXCEPT ![r] = ProviderIdle]
  /\ IF Stopped(r) # "no"
     THEN End(r, Stopped(r)) /\ UNCHANGED controlVars
     ELSE \E n \in Usage :
            /\ CountTokens(r, n)
            /\ IF Exceeds(tokens'[r], MaxTokens) THEN End(r, "budget")
               ELSE IF phase[r] = "compose" THEN End(r, "answered")
               ELSE Go(r, "validate", 1)
  /\ IF phase'[r] = "validate"
     THEN \E p \in Plans[r] : plan' = [plan EXCEPT ![r] = p]
     ELSE UNCHANGED plan
  /\ UNCHANGED <<toolVars, started>>

\* _provider_failure: an outcome, unless a control stopped the call.
ProviderFailure(r) ==
  /\ provider[r].at \in {"error", "cancelled", "timed_out"}
  /\ End(r, IF provider[r].at = "error" THEN "failed" ELSE provider[r].at)
  /\ provider' = [provider EXCEPT ![r] = ProviderIdle]
  /\ UNCHANGED <<controlVars, toolVars, started, plan>>

-----------------------------------------------------------------------------
(* The plan.                                                                 *)

\* _validate_plan: the plan is short enough, and every tool is looked up, one at a
\* time.
ValidateStep(r) ==
  /\ phase[r] = "validate"
  /\ position[r] <= Len(plan[r])
  /\ lock = Free
  /\ IF Len(plan[r]) <= MaxSteps /\ IsActive(StepOf(r).tool)
     THEN Go(r, "validate", position[r] + 1) ELSE End(r, "refused")
  /\ UNCHANGED <<controlVars, toolVars, provider, started, plan>>

AcceptPlan(r) ==
  /\ phase[r] = "validate"
  /\ position[r] > Len(plan[r])
  /\ IF plan[r] = <<>> THEN End(r, "needs_input") ELSE Go(r, "step", 1)
  /\ UNCHANGED <<controlVars, toolVars, provider, started, plan>>

\* A step is counted before it is compared with the budget.
BeginStep(r) ==
  /\ phase[r] = "step"
  /\ position[r] <= Len(plan[r])
  /\ IF Stopped(r) # "no"
     THEN End(r, Stopped(r)) /\ UNCHANGED controlVars
     ELSE /\ CountToolCall(r)
          /\ IF Exceeds(toolCalls'[r], MaxCalls)
             THEN End(r, "budget") ELSE Go(r, "fetch", position[r])
  /\ UNCHANGED <<toolVars, provider, started, plan>>

\* The second look at the tool.  Nothing in execute catches the error of a tool
\* that is no longer active: the call raises, without outcome, trace or state.
FetchTool(r) ==
  /\ phase[r] = "fetch"
  /\ lock = Free
  /\ IF ~ IsActive(StepOf(r).tool)
     THEN End(r, "raised") /\ UNCHANGED toolVars
     ELSE IF Definition[StepOf(r).tool].needsKey /\ StepOf(r).key = NoKey
     THEN End(r, "refused") /\ UNCHANGED toolVars
     ELSE IF ~ StepOf(r).valid
     THEN Go(r, "step", position[r] + 1) /\ UNCHANGED toolVars
     ELSE Invoke(r, StepOf(r)) /\ Go(r, "tool", position[r])
  /\ UNCHANGED <<controlVars, provider, started, plan>>

WaitForTool(r) ==
  /\ phase[r] = "tool"
  /\ InvokeStep(r)
  /\ IF invocation'[r].attempts = invocation[r].attempts THEN UNCHANGED started
     ELSE IF invocation'[r].attempts = 1 THEN BeginsCall(r) ELSE BeginsAttempt(r)
  /\ UNCHANGED <<provider, phase, position, outcome, plan>>

\* Every answer but a control's becomes a result of the step, failures too.
RecordResult(r) ==
  /\ phase[r] = "tool"
  /\ invocation[r].at = "done"
  /\ IF invocation[r].answer \in {"cancelled", "timed_out"} THEN End(r, invocation[r].answer)
     ELSE IF Stopped(r) # "no" THEN End(r, Stopped(r))
     ELSE Go(r, "step", position[r] + 1)
  /\ invocation' = [invocation EXCEPT ![r] = [Idle EXCEPT !.call = invocation[r].call]]
  /\ ended' = [ended EXCEPT ![r] = None]
  /\ UNCHANGED <<controlVars, tools, lock, kept, handlers, answers, provider, started, plan>>

ExhaustPlan(r) ==
  /\ phase[r] = "step"
  /\ position[r] > Len(plan[r])
  /\ Go(r, "compose", position[r])
  /\ UNCHANGED <<controlVars, toolVars, provider, started, plan>>

StopBeforeCall(r) ==
  /\ phase[r] \in {"plan", "compose"}
  /\ provider[r].at = "idle"
  /\ Stopped(r) # "no"
  /\ End(r, Stopped(r))
  /\ UNCHANGED <<controlVars, toolVars, provider, started, plan>>

\* The finally of execute: the run is no longer active and its control is gone.
Close(r) ==
  /\ phase[r] = "closing"
  /\ phase' = [phase EXCEPT ![r] = "ended"]
  /\ plan' = [plan EXCEPT ![r] = <<>>]
  /\ position' = [position EXCEPT ![r] = 1]
  /\ Discard(r)
  /\ started' = [started EXCEPT ![r] = [calls |-> 0, attempts |-> 0]]
  /\ invocation' = [invocation EXCEPT ![r] = Idle]
  /\ UNCHANGED <<tools, lock, kept, handlers, ended, answers, provider, outcome>>

RunStep(r) ==
  \/ AskProvider(r) \/ WaitForProvider(r) \/ UseResponse(r) \/ ProviderFailure(r)
  \/ ValidateStep(r) \/ AcceptPlan(r) \/ BeginStep(r) \/ FetchTool(r) \/ WaitForTool(r)
  \/ RecordResult(r) \/ ExhaustPlan(r) \/ StopBeforeCall(r) \/ Close(r)

Environment ==
  /\ \/ /\ \E r \in Runs : phase[r] \notin {"closing", "ended"} /\ (Cancel(r) \/ DeadlinePasses(r))
        /\ UNCHANGED toolVars
     \/ /\ \/ \E t \in Tools, s \in OperatorMoves : SetLifecycle(t, s)
           \/ ClearIdempotency
           \/ \E h \in handlers, e \in HandlerEnd : HandlerEnds(h, e)
        /\ UNCHANGED controlVars
  /\ UNCHANGED <<provider, runVars>>

GovernedNext == (\E r \in Runs : RunStep(r)) \/ Environment

GovernedSpec == GovernedInit /\ [][GovernedNext]_governedVars

\* Every run has a thread of its own, which goes on.  Nothing is assumed of
\* handlers, of cancellation or of deadlines.
GovernedFairSpec ==
  /\ GovernedSpec
  /\ \A r \in Runs : WF_governedVars(RunStep(r))

-----------------------------------------------------------------------------
(* Properties                                                                *)

\* The registry's lock keeps handlers apart: two run at once only when one of them
\* was abandoned by its caller (timeout, deadline or cancellation) and cannot be
\* stopped.
OverlapOnlyAbandoned ==
  \A g, h \in handlers : g # h => g.abandoned \/ h.abandoned

\* All the calls of a tool under one idempotency key, of whatever run and after
\* whatever retries, are answered with the result of one and the same attempt, until
\* the kept results are cleared.
OneKeyOneAnswer ==
  \A a, b \in answers : KeyOf(a.step) = KeyOf(b.step) => a = b

\* Provider calls and tool calls draw on one budget: a run begins no more attempts
\* than it makes calls and has retries, and repeats no write that has no key.
RetriesWithinBudget ==
  /\ \A r \in Runs : ~ Exceeds(started[r].attempts - started[r].calls, MaxRetries)
  /\ \A h \in handlers :
       h.attempt.number > 1 => Definition[h.attempt.step.tool].kind = "read" \/ h.attempt.step.key # NoKey

\* With a timeout on every tool each run ends, though handlers may hang forever and
\* runs wait for each other's lock.
RunsEnd == \A r \in Runs : <>(phase[r] = "ended")

\* A run that is started closes with an outcome: the runtime never raises.
RunsCloseWithAnOutcome == \A r \in Runs : outcome[r] # "raised"
=============================================================================
