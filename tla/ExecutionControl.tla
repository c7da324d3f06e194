-------------------------- MODULE ExecutionControl --------------------------
(***************************************************************************)
(* runtime/control.py: what bounds one run.  A run is cancelled by its      *)
(* caller, late once its deadline is over, and has a budget of retries, of  *)
(* tool calls and of provider usage (tokens; cost is counted the same way). *)
(* Time is abstracted to the moment a deadline passes.                      *)
(***************************************************************************)
EXTENDS Naturals

CONSTANTS Runs,
          Timed,           \* the runs that have a deadline
          Cancellable,     \* the runs whose caller may cancel
          MaxRetries,      \* max_retries; each of the three may be NoLimit
          MaxTokens,       \* max_total_tokens
          MaxCalls,        \* max_tool_invocations
          NoLimit          \* None: the budget is not limited

ASSUME ControlAssumption ==
  /\ Timed \subseteq Runs
  /\ Cancellable \subseteq Runs
  /\ NoLimit \notin Nat
  /\ MaxRetries \in Nat \union {NoLimit}
  /\ MaxTokens \in (Nat \ {0}) \union {NoLimit}
  /\ MaxCalls \in (Nat \ {0}) \union {NoLimit}

VARIABLES cancelled,       \* the runs whose signal is set
          late,            \* the runs past their deadline
          retriesLeft, tokens, toolCalls

controlVars == <<cancelled, late, retriesLeft, tokens, toolCalls>>

ControlTypeOK ==
  /\ cancelled \subseteq Cancellable
  /\ late \subseteq Timed
  /\ retriesLeft \in [Runs -> Nat \union {NoLimit}]
  /\ tokens \in [Runs -> Nat]
  /\ toolCalls \in [Runs -> Nat]

ControlInit ==
  /\ cancelled = {}
  /\ late = {}
  /\ retriesLeft = [r \in Runs |-> MaxRetries]
  /\ tokens = [r \in Runs |-> 0]
  /\ toolCalls = [r \in Runs |-> 0]

\* The control of a run that is over is dropped.
Discard(r) ==
  /\ cancelled' = cancelled \ {r}
  /\ late' = late \ {r}
  /\ retriesLeft' = [retriesLeft EXCEPT ![r] = MaxRetries]
  /\ tokens' = [tokens EXCEPT ![r] = 0]
  /\ toolCalls' = [toolCalls EXCEPT ![r] = 0]

Cancel(r) ==
  /\ r \in Cancellable \ cancelled
  /\ cancelled' = cancelled \union {r}
  /\ UNCHANGED <<late, retriesLeft, tokens, toolCalls>>

DeadlinePasses(r) ==
  /\ r \in Timed \ late
  /\ late' = late \union {r}
  /\ UNCHANGED <<cancelled, retriesLeft, tokens, toolCalls>>

\* check: the error the run stops with.  A cancelled run that is late as well was
\* cancelled.
Stopped(r) ==
  IF r \in cancelled THEN "cancelled" ELSE IF r \in late THEN "timed_out" ELSE "no"

Exceeds(n, max) == max # NoLimit /\ n > max

MayRetry(r) == retriesLeft[r] = NoLimit \/ retriesLeft[r] > 0

\* admit_retry, once check has passed.
SpendRetry(r) ==
  /\ MayRetry(r)
  /\ retriesLeft' = [retriesLeft EXCEPT ![r] = IF @ \in {0, NoLimit} THEN @ ELSE @ - 1]
  /\ UNCHANGED <<cancelled, late, tokens, toolCalls>>

\* record_provider_usage: the usage is added before it is compared.
CountTokens(r, n) ==
  /\ tokens' = [tokens EXCEPT ![r] = @ + n]
  /\ UNCHANGED <<cancelled, late, retriesLeft, toolCalls>>

\* record_tool_invocation, likewise.
CountToolCall(r) ==
  /\ toolCalls' = [toolCalls EXCEPT ![r] = @ + 1]
  /\ UNCHANGED <<cancelled, late, retriesLeft, tokens>>
=============================================================================
