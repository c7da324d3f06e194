---------------------------- MODULE ToolRegistry ----------------------------
(***************************************************************************)
(* tools/registry.py, as the runs of a process share it: tool lifecycles,   *)
(* the results kept under an idempotency key, and invoke.  invoke holds the *)
(* registry's lock from the look at the kept results to its answer, so also *)
(* while a handler runs and while it backs off; every other method waits.   *)
(* A handler runs in a thread of its own that nothing can stop: on timeout, *)
(* deadline or cancellation it is abandoned and ends, or not, on its own.   *)
(***************************************************************************)
EXTENDS ExecutionControl, Lifecycle

CONSTANTS Tools, IdempotencyKeys, Arguments,
          Definition,      \* what each tool declares
          NoKey,           \* the call has no idempotency key
          None, Free       \* no entry, no answer; nobody holds the lock

ToolDefinition ==
  [kind        : {"read", "write"},
   needsKey    : BOOLEAN,            \* idempotency_required
   retryable   : BOOLEAN,
   policy      : BOOLEAN,            \* attempts come from a retry policy
   attempts    : Nat \ {0},
   hasTimeout  : BOOLEAN]

\* A proposed call, one attempt of it (the identity of a result), and the result
\* kept under a key.
Step == [tool : Tools, key : IdempotencyKeys \union {NoKey}, args : Arguments, valid : BOOLEAN]

Attempt == [run : Runs, step : Step, call : Nat, number : Nat]

Kept == [args : Arguments, result : Attempt]

\* How tool.invoke may end: an output that validates, a failure, a failure that
\* is marked retryable, or one that no policy retries (an invalid output, a
\* restricted result).
HandlerEnd == {"ok", "failed", "transient", "final"}

ASSUME ToolAssumption ==
  /\ Definition \in [Tools -> ToolDefinition]
  /\ NoKey \notin IdempotencyKeys
  /\ Free \notin Runs
  /\ None \notin Kept
  /\ None \notin HandlerEnd

VARIABLES tools,           \* the lifecycle of each tool
          lock,            \* the run that holds the registry's lock, or Free
          kept,            \* _idempotency: tool and key to arguments and result
          handlers,        \* the handler threads that run: attempt and abandoned or not
          ended,           \* how the awaited handler of each run has ended
          invocation,      \* where each run is in invoke
          answers          \* the results that calls with a key have been given

toolVars == <<tools, lock, kept, handlers, ended, invocation, answers>>

KeyOf(s) == <<s.tool, s.key>>

CacheKeys == Tools \X IdempotencyKeys

Idle == [at |-> "idle", step |-> None, call |-> 0, attempts |-> 0, error |-> "no", answer |-> "none"]

ToolTypeOK ==
  /\ tools \in [Tools -> Lifecycle]
  /\ lock \in Runs \union {Free}
  /\ \A k \in CacheKeys :
       kept[k] # None => kept[k].args \in Arguments /\ kept[k].result \in Attempt
  /\ \A h \in handlers : h.attempt \in Attempt /\ h.abandoned \in BOOLEAN
  /\ ended \in [Runs -> HandlerEnd \union {None}]
  /\ \A r \in Runs :
       invocation[r].at \in {"idle", "lookup", "locking", "waiting", "failed", "backoff", "done"}

ToolInit ==
  /\ tools = [t \in Tools |-> "active"]
  /\ lock = Free
  /\ kept = [k \in CacheKeys |-> None]
  /\ handlers = {}
  /\ ended = [r \in Runs |-> None]
  /\ invocation = [r \in Runs |-> Idle]
  /\ answers = {}

IsActive(t) == tools[t] = "active"

-----------------------------------------------------------------------------
(* Lifecycle changes.  They need the lock, so they wait for a running call.  *)

SetLifecycle(t, s) ==
  /\ lock = Free
  /\ s # tools[t]
  /\ s \in ToolTargets[tools[t]]
  /\ tools' = [tools EXCEPT ![t] = s]
  /\ UNCHANGED <<lock, kept, handlers, ended, invocation, answers>>

ClearIdempotency ==
  /\ lock = Free
  /\ \E k \in CacheKeys : kept[k] # None
  /\ kept' = [k \in CacheKeys |-> None]
  /\ answers' = {}
  /\ UNCHANGED <<tools, lock, handlers, ended, invocation>>

-----------------------------------------------------------------------------
(* invoke                                                                    *)

Invoke(r, s) ==
  /\ invocation' = [invocation EXCEPT ![r] =
       [Idle EXCEPT !.at = "lookup", !.step = s, !.call = invocation[r].call + 1]]
  /\ UNCHANGED <<tools, lock, kept, handlers, ended, answers>>

\* The call of run r ends, with a result or with why there is none.
Answered(r, a) == [invocation EXCEPT ![r].at = "done", ![r].answer = a]

Refuses(s) == ~ s.valid \/ (Definition[s.tool].needsKey /\ s.key = NoKey)

\* get, and the refusals that need no lock.
Lookup(r) ==
  LET s == invocation[r].step IN
  /\ invocation[r].at = "lookup"
  /\ lock = Free
  /\ invocation' =
       IF ~ IsActive(s.tool) THEN Answered(r, "unavailable")
       ELSE IF Refuses(s) THEN Answered(r, "refused")
       ELSE [invocation EXCEPT ![r].at = "locking"]
  /\ UNCHANGED <<tools, lock, kept, handlers, ended, answers>>

Current(r) ==
  [run |-> r, step |-> invocation[r].step, call |-> invocation[r].call,
   number |-> invocation[r].attempts]

\* The next attempt of run r starts its handler.
Started(r) == [invocation EXCEPT ![r].at = "waiting", ![r].attempts = @ + 1]

StartHandler(r) ==
  /\ invocation' = Started(r)
  /\ handlers' = handlers \union
       {[attempt |-> [Current(r) EXCEPT !.number = @ + 1], abandoned |-> FALSE]}
  /\ ended' = [ended EXCEPT ![r] = None]

\* An earlier success under the key is answered again; other arguments under the
\* key are refused.
Replay(r) ==
  LET s == invocation[r].step IN
  /\ invocation[r].at = "locking"
  /\ lock = Free
  /\ s.key # NoKey /\ kept[KeyOf(s)] # None
  /\ IF kept[KeyOf(s)].args = s.args
     THEN /\ invocation' = Answered(r, "result")
          /\ answers' = answers \union {kept[KeyOf(s)].result}
     ELSE /\ invocation' = Answered(r, "key_reused")
          /\ UNCHANGED answers
  /\ UNCHANGED <<tools, lock, kept, handlers, ended>>

\* Mutation: the lock is not held while the handler runs.
FirstAttemptUnlocked(r) ==
  LET s == invocation[r].step IN
  /\ invocation[r].at = "locking"
  /\ lock = Free
  /\ s.key # NoKey => kept[KeyOf(s)] = None
  /\ StartHandler(r)
  /\ UNCHANGED <<tools, lock, kept, answers>>

FirstAttempt(r) ==
  LET s == invocation[r].step IN
  /\ invocation[r].at = "locking"
  /\ lock = Free
  /\ s.key # NoKey => kept[KeyOf(s)] = None
  /\ lock' = r
  /\ StartHandler(r)
  /\ UNCHANGED <<tools, kept, answers>>

\* external: a handler ends.  An abandoned one has had its effect and nobody looks.
HandlerEnds(h, e) ==
  /\ h \in handlers
  /\ handlers' = handlers \ {h}
  /\ ended' = IF h.abandoned THEN ended ELSE [ended EXCEPT ![h.attempt.run] = e]
  /\ UNCHANGED <<tools, lock, kept, invocation, answers>>

\* Nobody waits for the handler of run r any more.  future.cancel removes the one
\* that its thread has not started.
Abandoned(r) ==
  {h \in handlers : h.attempt.run # r \/ h.abandoned}
    \union {[h EXCEPT !.abandoned = TRUE] : h \in {h \in handlers : h.attempt.run = r}}

Withdrawn(r) == {h \in handlers : h.attempt.run # r \/ h.abandoned}

\* Mutation: a write without a key is retried as well.
ShouldRetryAnyWrite(r, e) ==
  LET d == Definition[invocation[r].step.tool] IN
  /\ d.retryable \/ (d.policy /\ d.attempts > 1)
  /\ invocation[r].attempts < d.attempts
  /\ e # "final"
  /\ d.retryable \/ e = "transient"

\* _should_retry and _should_retry_result.
ShouldRetry(r, e) ==
  LET s == invocation[r].step
      d == Definition[s.tool]
  IN  /\ d.retryable \/ (d.policy /\ d.attempts > 1)
      /\ d.kind = "read" \/ s.key # NoKey
      /\ invocation[r].attempts < d.attempts
      /\ e # "final"
      /\ d.retryable \/ e = "transient"

\* Mutation: the lock is not released when a call fails.
FailAttemptLocked(r, e) ==
  /\ invocation' = IF ShouldRetry(r, e)
                   THEN [invocation EXCEPT ![r].at = "failed", ![r].error = e]
                   ELSE Answered(r, e)
  /\ UNCHANGED lock

\* The wait is over without a result: r goes on to a retry, or answers.
FailAttempt(r, e) ==
  IF ShouldRetry(r, e)
  THEN /\ invocation' = [invocation EXCEPT ![r].at = "failed", ![r].error = e]
       /\ UNCHANGED lock
  ELSE /\ invocation' = Answered(r, e)
       /\ lock' = Free

\* Cancellation and the run's deadline end the wait, also with a result at hand.
StopWaiting(r) ==
  /\ invocation[r].at = "waiting"
  /\ Stopped(r) # "no"
  /\ handlers' \in {Abandoned(r), Withdrawn(r)}
  /\ invocation' = Answered(r, Stopped(r))
  /\ lock' = Free
  /\ UNCHANGED <<tools, kept, ended, answers>>

\* The tool's own timeout.  A cancellation that comes during the wait is only seen
\* at its next turn.
HandlerTimesOut(r) ==
  /\ invocation[r].at = "waiting"
  /\ r \notin late
  /\ Definition[invocation[r].step.tool].hasTimeout
  /\ handlers' \in {Abandoned(r), Withdrawn(r)}
  /\ FailAttempt(r, "transient")
  /\ UNCHANGED <<tools, kept, ended, answers>>

\* Mutation: only calls that were not retried keep their result.
KeepFirst(r) ==
  IF invocation[r].step.key = NoKey \/ invocation[r].attempts > 1 THEN kept
  ELSE [kept EXCEPT ![KeyOf(invocation[r].step)] =
          [args |-> invocation[r].step.args, result |-> Current(r)]]

Keep(r) ==
  IF invocation[r].step.key = NoKey THEN kept
  ELSE [kept EXCEPT ![KeyOf(invocation[r].step)] =
          [args |-> invocation[r].step.args, result |-> Current(r)]]

TakeResult(r) ==
  /\ invocation[r].at = "waiting"
  /\ ended[r] = "ok"
  /\ Stopped(r) = "no"
  /\ kept' = Keep(r)
  /\ answers' = IF invocation[r].step.key = NoKey THEN answers ELSE answers \union {Current(r)}
  /\ invocation' = Answered(r, "result")
  /\ lock' = Free
  /\ UNCHANGED <<tools, handlers, ended>>

\* The error of a handler is raised whatever the controls say.
TakeFailure(r) ==
  /\ invocation[r].at = "waiting"
  /\ ended[r] \notin {None, "ok"}
  /\ FailAttempt(r, ended[r])
  /\ UNCHANGED <<tools, kept, handlers, ended, answers>>

\* admit_retry raises, refuses or spends one retry of the run.
AskRetry(r) ==
  /\ invocation[r].at = "failed"
  /\ \/ /\ Stopped(r) # "no"
        /\ invocation' = Answered(r, Stopped(r))
        /\ lock' = Free
        /\ UNCHANGED controlVars
     \/ /\ Stopped(r) = "no" /\ ~ MayRetry(r)
        /\ invocation' = Answered(r, invocation[r].error)
        /\ lock' = Free
        /\ UNCHANGED controlVars
     \/ /\ Stopped(r) = "no"
        /\ SpendRetry(r)
        /\ invocation' = [invocation EXCEPT ![r].at = "backoff"]
        /\ UNCHANGED lock
  /\ UNCHANGED <<tools, kept, handlers, ended, answers>>

Backoff(r) ==
  /\ invocation[r].at = "backoff"
  /\ IF Stopped(r) = "no"
     THEN StartHandler(r) /\ UNCHANGED lock
     ELSE /\ invocation' = Answered(r, Stopped(r))
          /\ lock' = Free
          /\ UNCHANGED <<handlers, ended>>
  /\ UNCHANGED <<tools, kept, answers>>

\* The steps of invoke that touch the run's budget, and the ones that do not.
InvokeStep(r) ==
  \/ AskRetry(r)
  \/ /\ \/ Lookup(r) \/ Replay(r) \/ FirstAttempt(r) \/ StopWaiting(r)
        \/ HandlerTimesOut(r) \/ TakeResult(r) \/ TakeFailure(r) \/ Backoff(r)
     /\ UNCHANGED controlVars
=============================================================================
