---------------------------- MODULE ProviderCalls ----------------------------
(***************************************************************************)
(* providers/invocation.py: one provider call with its timeout, its retries *)
(* and the run's controls.  The policy is the application's; the runtime    *)
(* lets it retry only within the run's budget.  The worker of an abandoned  *)
(* call shares nothing with the harness and is left out.                    *)
(***************************************************************************)
EXTENDS ExecutionControl

CONSTANTS ProviderAttempts,   \* max_attempts of each run's provider policy
          ProviderDelay       \* the policy waits between attempts

ASSUME ProviderAssumption == ProviderAttempts \in [Runs -> Nat \ {0}] /\ ProviderDelay \in BOOLEAN

VARIABLE provider             \* where each run is in its provider call

ProviderIdle == [at |-> "idle", attempts |-> 0]

ProviderInit == provider = [r \in Runs |-> ProviderIdle]

ProviderTypeOK ==
  \A r \in Runs :
    provider[r] \in
      [at : {"idle", "waiting", "failed", "backoff", "answered", "error", "cancelled", "timed_out"},
       attempts : 0 .. ProviderAttempts[r]]

Move(r, to) == provider' = [provider EXCEPT ![r].at = to]

StartCall(r) ==
  /\ provider' = [provider EXCEPT ![r] = [at |-> "waiting", attempts |-> 1]]
  /\ UNCHANGED controlVars

\* _run_with_timeout: control first, also when the value is at hand; then the value
\* or the error of the call, of which its own timeout (retryable) is one.
StopCall(r) ==
  /\ provider[r].at = "waiting"
  /\ Stopped(r) # "no"
  /\ Move(r, Stopped(r))
  /\ UNCHANGED controlVars

CallReturns(r) ==
  /\ provider[r].at = "waiting"
  /\ Stopped(r) = "no"
  /\ Move(r, "answered")
  /\ UNCHANGED controlVars

\* The error of a call is raised whatever the controls say, and is wrapped in a
\* ProviderError unless the policy may retry it.
CallFails(r, retryable) ==
  /\ provider[r].at = "waiting"
  /\ Move(r, IF retryable /\ provider[r].attempts < ProviderAttempts[r] THEN "failed" ELSE "error")
  /\ UNCHANGED controlVars

\* _ControlledProviderCallPolicy.should_retry: the run's budget is asked last.
AskProviderRetry(r) ==
  /\ provider[r].at = "failed"
  /\ \/ Stopped(r) # "no" /\ Move(r, Stopped(r)) /\ UNCHANGED controlVars
     \/ Stopped(r) = "no" /\ ~ MayRetry(r) /\ Move(r, "error") /\ UNCHANGED controlVars
     \/ Stopped(r) = "no" /\ SpendRetry(r) /\ Move(r, "backoff")

\* A policy without a delay submits the next attempt before it looks at the controls.
ProviderBackoff(r) ==
  /\ provider[r].at = "backoff"
  /\ IF ProviderDelay /\ Stopped(r) # "no"
     THEN Move(r, Stopped(r))
     ELSE provider' = [provider EXCEPT ![r] = [at |-> "waiting", attempts |-> @.attempts + 1]]
  /\ UNCHANGED controlVars

ProviderStep(r) ==
  \/ StopCall(r) \/ CallReturns(r)
  \/ \E retryable \in BOOLEAN : CallFails(r, retryable)
  \/ AskProviderRetry(r) \/ ProviderBackoff(r)
=============================================================================
