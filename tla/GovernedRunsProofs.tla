------------------------- MODULE GovernedRunsProofs -------------------------
(***************************************************************************)
(* The controls of GovernedRuns, for any number of runs, tools, keys and    *)
(* plans and for every budget: the registry's lock keeps handlers apart,    *)
(* the calls under one idempotency key share one attempt's result, and the  *)
(* attempts of a run stay within its retries.                               *)
(***************************************************************************)
EXTENDS GovernedRuns, TLAPS

-----------------------------------------------------------------------------
(* Types.  The parts of GovernedTypeOK, with what each phase of a run says  *)
(* of the calls it makes.                                                   *)

Phases == {"plan", "validate", "step", "fetch", "tool", "compose", "closing", "ended"}

\* How a call may end; its last error is one of these as well.
Endings == HandlerEnd \union {"no", "none", "result", "unavailable", "refused", "key_reused",
                              "cancelled", "timed_out"}

Invocation ==
  [at       : {"idle", "lookup", "locking", "waiting", "failed", "backoff", "done"},
   step     : Step \union {None},
   call     : Nat,
   attempts : Nat,
   error    : HandlerEnd \union {"no"},
   answer   : Endings]

ProviderCall ==
  [at : {"idle", "waiting", "failed", "backoff", "answered", "error", "cancelled", "timed_out"},
   attempts : Nat]

Handler == [attempt : Attempt, abandoned : BOOLEAN]

ToolTypes ==
  /\ tools \in [Tools -> Lifecycle]
  /\ lock \in Runs \union {Free}
  /\ kept \in [CacheKeys -> Kept \union {None}]
  /\ handlers \subseteq Handler
  /\ ended \in [Runs -> HandlerEnd \union {None}]
  /\ invocation \in [Runs -> Invocation]
  /\ answers \subseteq Attempt

RunTypes ==
  /\ phase \in [Runs -> Phases]
  /\ plan \in [Runs -> Seq(Step)]
  /\ position \in [Runs -> Nat \ {0}]
  /\ outcome \in [Runs -> Outcomes]
  /\ started \in [Runs -> [calls : Nat, attempts : Nat]]

\* The provider is called to plan and to compose, a tool to do a step.
ProviderPlace(r) ==
  /\ phase[r] \notin {"plan", "compose"} => provider[r].at = "idle"
  /\ provider[r].attempts <= ProviderAttempts[r]
  /\ provider[r].at \in {"failed", "backoff"} => provider[r].attempts < ProviderAttempts[r]

ToolPlace(r) ==
  /\ phase[r] = "tool" <=> invocation[r].at # "idle"
  /\ phase[r] = "tool" => invocation[r].step \in Step

PlanPlace(r) ==
  /\ position[r] <= Len(plan[r]) + 1
  /\ phase[r] \in {"fetch", "tool"} => position[r] <= Len(plan[r])
  /\ outcome[r] # "none" <=> phase[r] \in {"closing", "ended"}

TypeInv ==
  /\ ControlTypeOK /\ ToolTypes /\ RunTypes
  /\ provider \in [Runs -> ProviderCall]
  /\ \A r \in Runs : ProviderPlace(r) /\ ToolPlace(r) /\ PlanPlace(r)

-----------------------------------------------------------------------------
(* The lock.                                                                *)

\* The part of invoke between its look at the kept results and its answer.
Locked == {"waiting", "failed", "backoff"}

\* The run that is in it, and no other, holds the lock.
LockHeld(r) == lock = r <=> invocation[r].at \in Locked

\* A handler somebody waits for is that of the current attempt, and still runs.
Awaited(h) ==
  ~ h.abandoned =>
    LET r == h.attempt.run IN
    /\ invocation[r].at = "waiting"
    /\ h.attempt = Current(r)
    /\ ended[r] = None

LockInv ==
  /\ \A r \in Runs : LockHeld(r)
  /\ \A h \in handlers : Awaited(h)

-----------------------------------------------------------------------------
(* The idempotency keys.                                                    *)

\* A result is kept under its own key.
KeptUnderItsKey(k) == kept[k] # None => KeyOf(kept[k].result.step) = k

\* A call that may still succeed under a key has found nothing kept there.
NothingKept(r) ==
  LET s == invocation[r].step IN
  invocation[r].at \in Locked /\ s.key # NoKey => kept[KeyOf(s)] = None

\* What was answered under a key is what is kept there.
AnswerKept(a) ==
  /\ KeyOf(a.step) \in CacheKeys
  /\ kept[KeyOf(a.step)] # None
  /\ kept[KeyOf(a.step)].result = a

KeyInv ==
  /\ \A k \in CacheKeys : KeptUnderItsKey(k)
  /\ \A r \in Runs : NothingKept(r)
  /\ \A a \in answers : AnswerKept(a)

-----------------------------------------------------------------------------
(* The budget of retries.                                                   *)

\* A retry that is paid for and has not begun.
Due(at) == IF at = "backoff" THEN 1 ELSE 0

\* What a run has left, has begun and is about to begin never exceeds its budget.
PaidFor(r) ==
  MaxRetries # NoLimit =>
    /\ retriesLeft[r] \in Nat
    /\ started[r].attempts + retriesLeft[r] + Due(provider[r].at) + Due(invocation[r].at)
         <= started[r].calls + MaxRetries

MayRepeat(s) == Definition[s.tool].kind = "read" \/ s.key # NoKey

\* Attempts are counted from the first, and only a repeatable call gets a second.
Counted(r) ==
  /\ invocation[r].at \in {"lookup", "locking"} => invocation[r].attempts = 0
  /\ invocation[r].at \in Locked => invocation[r].attempts >= 1
  /\ invocation[r].at \in {"failed", "backoff"} => MayRepeat(invocation[r].step)

CountInv ==
  /\ \A r \in Runs : Counted(r)
  /\ \A h \in handlers : h.attempt.number > 1 => MayRepeat(h.attempt.step)

BudgetInv == \A r \in Runs : PaidFor(r)

-----------------------------------------------------------------------------
(* How the operators of one step move an invocation.                        *)

\* Run r is the only one whose invocation moves, and it stays in its call.
MovesTo(r, at, attempts) ==
  /\ invocation' \in [Runs -> Invocation]
  /\ invocation'[r].at = at
  /\ invocation'[r].attempts = attempts
  /\ invocation'[r].step = invocation[r].step
  /\ invocation'[r].call = invocation[r].call
  /\ \A q \in Runs : q # r => invocation'[q] = invocation[q]

\* A run is stopped as cancelled or timed out, or goes on.
LEMMA StoppedAs == \A r : Stopped(r) \in {"no", "cancelled", "timed_out"}
  BY DEF Stopped

\* The fields of a tool call.
LEMMA InvocationFields ==
  ASSUME ToolTypes, NEW r \in Runs
  PROVE  /\ invocation[r].at \in {"idle", "lookup", "locking", "waiting", "failed", "backoff",
                                  "done"}
         /\ invocation[r].step \in Step \union {None}
         /\ invocation[r].call \in Nat
         /\ invocation[r].attempts \in Nat
         /\ invocation[r].error \in HandlerEnd \union {"no"}
         /\ invocation[r].answer \in Endings
  BY DEF ToolTypes, Invocation, Endings

\* Answering ends the tool call.
LEMMA AnswerMoves ==
  ASSUME ToolTypes, NEW r \in Runs, NEW a \in Endings, invocation' = Answered(r, a)
  PROVE  MovesTo(r, "done", invocation[r].attempts)
<1>1. invocation' = [invocation EXCEPT ![r] = [@ EXCEPT !.at = "done", !.answer = a]]
  BY DEF Answered
<1> DEFINE i == [invocation[r] EXCEPT !.at = "done", !.answer = a]
<1>2. /\ i \in Invocation
      /\ i.at = "done"
      /\ i.attempts = invocation[r].attempts
      /\ i.step = invocation[r].step
      /\ i.call = invocation[r].call
  BY DEF ToolTypes, Invocation, Endings
<1>3. invocation' = [invocation EXCEPT ![r] = i]
  BY <1>1
<1> HIDE DEF i
<1> QED
  BY <1>2, <1>3 DEF MovesTo, ToolTypes, Invocation

\* A failed attempt waits for the decision whether it is repeated.
LEMMA FailureMoves ==
  ASSUME ToolTypes, NEW r \in Runs, NEW e \in HandlerEnd,
         invocation' = [invocation EXCEPT ![r].at = "failed", ![r].error = e]
  PROVE  MovesTo(r, "failed", invocation[r].attempts)
<1>1. invocation' = [invocation EXCEPT ![r] = [@ EXCEPT !.at = "failed", !.error = e]]
  OBVIOUS
<1>2. [invocation[r] EXCEPT !.at = "failed", !.error = e] \in Invocation
  BY DEF ToolTypes, Invocation
<1> QED
  BY <1>1, <1>2 DEF MovesTo, ToolTypes, Invocation

\* The call goes on to the lock or to its backoff.
LEMMA PlaceMoves ==
  ASSUME ToolTypes, NEW r \in Runs, NEW to \in {"locking", "backoff"},
         invocation' = [invocation EXCEPT ![r].at = to]
  PROVE  MovesTo(r, to, invocation[r].attempts)
<1>1. [invocation[r] EXCEPT !.at = to] \in Invocation
  BY DEF ToolTypes, Invocation
<1> QED
  BY <1>1 DEF MovesTo, ToolTypes, Invocation

\* A started attempt is counted.
LEMMA StartMoves ==
  ASSUME ToolTypes, NEW r \in Runs, invocation' = Started(r)
  PROVE  MovesTo(r, "waiting", invocation[r].attempts + 1)
<1> DEFINE n == invocation[r].attempts + 1
           i == [invocation[r] EXCEPT !.at = "waiting", !.attempts = n]
<1>1. invocation' = [invocation EXCEPT ![r] = i]
  BY DEF Started
<1>2. /\ i \in Invocation
      /\ i.at = "waiting"
      /\ i.attempts = n
      /\ i.step = invocation[r].step
      /\ i.call = invocation[r].call
  <2>1. invocation[r] \in Invocation /\ n \in Nat
    BY DEF ToolTypes, Invocation
  <2> HIDE DEF n
  <2> QED
    BY <2>1 DEF Invocation
<1> HIDE DEF i
<1> QED
  BY <1>1, <1>2 DEF MovesTo, ToolTypes, Invocation

\* The handlers of the others are left alone; those of r are abandoned or gone.
GivenUp(r) ==
  \A h \in handlers' :
    \/ h \in handlers /\ (h.attempt.run # r \/ h.abandoned)
    \/ h.abandoned /\ \E g \in handlers : h.attempt = g.attempt

\* Giving up leaves the handler running, or takes it off the queue.
LEMMA HandlersGivenUp ==
  ASSUME ToolTypes, NEW r \in Runs, handlers' \in {Abandoned(r), Withdrawn(r)}
  PROVE  GivenUp(r) /\ handlers' \subseteq Handler
<1>1. \A h \in Handler : /\ [h EXCEPT !.abandoned = TRUE] \in Handler
                         /\ [h EXCEPT !.abandoned = TRUE].abandoned
                         /\ [h EXCEPT !.abandoned = TRUE].attempt = h.attempt
  BY DEF Handler
<1>2. handlers \subseteq Handler
  BY DEF ToolTypes
<1>3. CASE handlers' = Withdrawn(r)
  BY <1>2, <1>3 DEF Withdrawn, GivenUp
<1>4. CASE handlers' = Abandoned(r)
  <2>1. ASSUME NEW h \in handlers'
        PROVE  \/ h \in handlers /\ (h.attempt.run # r \/ h.abandoned)
               \/ \E g \in handlers : h = [g EXCEPT !.abandoned = TRUE]
    BY <1>4, <2>1 DEF Abandoned
  <2>2. ASSUME NEW h \in handlers', NEW g \in handlers, h = [g EXCEPT !.abandoned = TRUE]
        PROVE  h.abandoned /\ h.attempt = g.attempt /\ h \in Handler
    <3>1. g \in Handler
      BY <1>2
    <3> QED
      BY <1>1, <2>2, <3>1
  <2>3. GivenUp(r)
    BY <2>1, <2>2 DEF GivenUp
  <2>4. handlers' \subseteq Handler
    BY <1>2, <2>1, <2>2
  <2> QED
    BY <2>3, <2>4
<1> QED
  BY <1>3, <1>4

\* The attempt that run r is at, and the one it starts next.
LEMMA CurrentTyped ==
  ASSUME ToolTypes, NEW r \in Runs, invocation[r].step \in Step
  PROVE  /\ Current(r) \in Attempt
         /\ Current(r).run = r
         /\ Current(r).step = invocation[r].step
         /\ Current(r).call = invocation[r].call
         /\ Current(r).number = invocation[r].attempts
  BY InvocationFields DEF Current, Attempt

\* A handler that is started is the one of the counted attempt.
LEMMA HandlerStarts ==
  ASSUME ToolTypes, NEW r \in Runs, invocation[r].step \in Step, StartHandler(r)
  PROVE  /\ MovesTo(r, "waiting", invocation[r].attempts + 1)
         /\ ended' = [ended EXCEPT ![r] = None]
         /\ [attempt |-> Current(r)', abandoned |-> FALSE] \in Handler
         /\ handlers' = handlers \union {[attempt |-> Current(r)', abandoned |-> FALSE]}
         /\ handlers' \subseteq Handler
         /\ Current(r)'.step = invocation[r].step
         /\ Current(r)'.number = invocation[r].attempts + 1
<1>1. MovesTo(r, "waiting", invocation[r].attempts + 1) /\ ended' = [ended EXCEPT ![r] = None]
  BY StartMoves DEF StartHandler
<1>2. [Current(r) EXCEPT !.number = @ + 1] = Current(r)'
  BY <1>1 DEF Current, MovesTo
<1>3. Current(r)' \in Attempt
  BY <1>1, InvocationFields DEF Current, Attempt, MovesTo
<1>4. /\ Current(r)'.step = invocation[r].step
      /\ Current(r)'.number = invocation[r].attempts + 1
  BY <1>1 DEF Current, MovesTo
<1>5. handlers' = handlers \union {[attempt |-> Current(r)', abandoned |-> FALSE]}
  BY <1>2 DEF StartHandler
<1>6. [attempt |-> Current(r)', abandoned |-> FALSE] \in Handler
  BY <1>3 DEF Handler
<1> QED
  BY <1>1, <1>4, <1>5, <1>6 DEF ToolTypes

-----------------------------------------------------------------------------
(* The steps of invoke by what they do to what the runs share.              *)

Attempts(r) == invocation[r].attempts

\* The tool is there: the call goes for the lock.
Finds(r) ==
  /\ invocation[r].at = "lookup"
  /\ MovesTo(r, "locking", Attempts(r))
  /\ UNCHANGED <<lock, kept, handlers, ended, answers, controlVars>>

\* The call is answered without an attempt, perhaps with what is kept.
AnswersEarly(r) ==
  LET s == invocation[r].step IN
  /\ invocation[r].at \in {"lookup", "locking"}
  /\ MovesTo(r, "done", Attempts(r))
  /\ \/ UNCHANGED answers
     \/ /\ s.key # NoKey /\ kept[KeyOf(s)] # None
        /\ answers' = answers \union {kept[KeyOf(s)].result}
  /\ UNCHANGED <<lock, kept, handlers, ended, controlVars>>

\* The first attempt takes the lock, the next ones have it.
Starts(r) ==
  LET s == invocation[r].step IN
  /\ \/ /\ invocation[r].at = "locking"
        /\ lock = Free /\ lock' = r
        /\ s.key # NoKey => kept[KeyOf(s)] = None
     \/ invocation[r].at = "backoff" /\ UNCHANGED lock
  /\ StartHandler(r)
  /\ UNCHANGED <<kept, answers, controlVars>>

\* An attempt, or the wish for another one, is over without a result.
GivesUp(r) ==
  /\ invocation[r].at \in Locked
  /\ \/ UNCHANGED handlers /\ (invocation[r].at = "waiting" => ended[r] # None)
     \/ GivenUp(r) /\ handlers' \subseteq Handler
  /\ \/ MovesTo(r, "done", Attempts(r)) /\ lock' = Free /\ UNCHANGED controlVars
     \/ /\ MovesTo(r, "failed", Attempts(r))
        /\ MayRepeat(invocation[r].step)
        /\ UNCHANGED <<lock, controlVars>>
     \/ /\ MovesTo(r, "backoff", Attempts(r))
        /\ invocation[r].at = "failed"
        /\ SpendRetry(r)
        /\ UNCHANGED lock
  /\ UNCHANGED <<kept, ended, answers>>

\* The awaited result is kept and answered.
Takes(r) ==
  LET s == invocation[r].step IN
  /\ invocation[r].at = "waiting"
  /\ ended[r] = "ok"
  /\ kept' = Keep(r)
  /\ answers' = IF s.key = NoKey THEN answers ELSE answers \union {Current(r)}
  /\ MovesTo(r, "done", Attempts(r))
  /\ lock' = Free
  /\ UNCHANGED <<handlers, ended, controlVars>>

\* A failed attempt ends the call, or is held for a repetition.
LEMMA FailedAttempts ==
  ASSUME ToolTypes, NEW r \in Runs, NEW e \in HandlerEnd, FailAttempt(r, e)
  PROVE  \/ MovesTo(r, "done", Attempts(r)) /\ lock' = Free
         \/ /\ MovesTo(r, "failed", Attempts(r))
            /\ MayRepeat(invocation[r].step)
            /\ UNCHANGED lock
<1>1. CASE ShouldRetry(r, e)
  BY <1>1, FailureMoves DEF FailAttempt, ShouldRetry, MayRepeat, Attempts
<1>2. CASE ~ ShouldRetry(r, e)
  BY <1>2, AnswerMoves DEF FailAttempt, Endings, Attempts
<1> QED
  BY <1>1, <1>2

\* Each step of invoke is one of five kinds.
LEMMA InvokeKinds ==
  ASSUME ToolTypes, NEW r \in Runs, InvokeStep(r)
  PROVE  /\ Finds(r) \/ AnswersEarly(r) \/ Starts(r) \/ GivesUp(r) \/ Takes(r)
         /\ UNCHANGED tools
<1>1. CASE Lookup(r)
  <2>1. \/ \E a \in Endings : invocation' = Answered(r, a)
        \/ invocation' = [invocation EXCEPT ![r].at = "locking"]
    BY <1>1 DEF Lookup, Endings
  <2>2. MovesTo(r, "done", Attempts(r)) \/ MovesTo(r, "locking", Attempts(r))
    BY <2>1, AnswerMoves, PlaceMoves DEF Attempts
  <2>3. CASE UNCHANGED controlVars
    BY <1>1, <2>2, <2>3 DEF Lookup, Finds, AnswersEarly
  <2> QED
    BY <1>1, <2>3 DEF InvokeStep, Lookup, AskRetry
<1>2. CASE Replay(r) /\ UNCHANGED controlVars
  <2>1. \E a \in Endings : invocation' = Answered(r, a)
    BY <1>2 DEF Replay, Endings
  <2>2. MovesTo(r, "done", Attempts(r))
    BY <2>1, AnswerMoves DEF Attempts
  <2> QED
    BY <1>2, <2>2 DEF Replay, AnswersEarly
<1>3. CASE FirstAttempt(r) /\ UNCHANGED controlVars
  BY <1>3 DEF FirstAttempt, Starts
<1>4. CASE StopWaiting(r) /\ UNCHANGED controlVars
  <2>1. MovesTo(r, "done", Attempts(r))
    BY <1>4, StoppedAs, AnswerMoves DEF StopWaiting, Endings, Attempts
  <2> QED
    BY <1>4, <2>1, HandlersGivenUp DEF StopWaiting, GivesUp, Locked
<1>5. CASE HandlerTimesOut(r) /\ UNCHANGED controlVars
  BY <1>5, FailedAttempts, HandlersGivenUp DEF HandlerTimesOut, GivesUp, Locked, HandlerEnd
<1>6. CASE TakeResult(r) /\ UNCHANGED controlVars
  <2>1. MovesTo(r, "done", Attempts(r))
    BY <1>6, AnswerMoves DEF TakeResult, Endings, Attempts
  <2> QED
    BY <1>6, <2>1 DEF TakeResult, Takes
<1>7. CASE TakeFailure(r) /\ UNCHANGED controlVars
  <2>1. ended[r] \in HandlerEnd
    BY <1>7 DEF TakeFailure, ToolTypes
  <2> QED
    BY <1>7, <2>1, FailedAttempts DEF TakeFailure, GivesUp, Locked
<1>8. CASE AskRetry(r)
  <2>1. \/ /\ \E a \in Endings : invocation' = Answered(r, a)
           /\ lock' = Free
           /\ UNCHANGED controlVars
        \/ /\ invocation' = [invocation EXCEPT ![r].at = "backoff"]
           /\ SpendRetry(r)
           /\ UNCHANGED lock
    <3>1. CASE Stopped(r) # "no"
      BY <1>8, <3>1, StoppedAs DEF AskRetry, Endings
    <3>2. CASE Stopped(r) = "no"
      <4>1. invocation[r].error \in HandlerEnd \/ invocation[r].error = "no"
        BY InvocationFields
      <4>2. invocation[r].error \in Endings
        BY <1>8, <4>1 DEF Endings, AskRetry
      <4> QED
        BY <1>8, <3>2, <4>2 DEF AskRetry
    <3> QED
      BY <3>1, <3>2
  <2>2. \/ MovesTo(r, "done", Attempts(r)) /\ lock' = Free /\ UNCHANGED controlVars
        \/ MovesTo(r, "backoff", Attempts(r)) /\ SpendRetry(r) /\ UNCHANGED lock
    BY <2>1, AnswerMoves, PlaceMoves DEF Attempts
  <2> QED
    BY <1>8, <2>2 DEF AskRetry, GivesUp, Locked
<1>9. CASE Backoff(r) /\ UNCHANGED controlVars
  <2>1. CASE Stopped(r) = "no"
    BY <1>9, <2>1 DEF Backoff, Starts
  <2>2. CASE Stopped(r) # "no"
    <3>1. MovesTo(r, "done", Attempts(r))
      BY <1>9, <2>2, StoppedAs, AnswerMoves DEF Backoff, Endings, Attempts
    <3> QED
      BY <1>9, <2>2, <3>1 DEF Backoff, GivesUp, Locked
  <2> QED
    BY <2>1, <2>2
<1>10. UNCHANGED tools
  BY DEF InvokeStep, Lookup, Replay, FirstAttempt, StopWaiting, HandlerTimesOut, TakeResult,
         TakeFailure, AskRetry, Backoff
<1> QED
  BY <1>1, <1>2, <1>3, <1>4, <1>5, <1>6, <1>7, <1>8, <1>9, <1>10 DEF InvokeStep

-----------------------------------------------------------------------------
(* Type correctness.                                                        *)

\* The limits of a run stay typed whatever is spent or stopped.
LEMMA ControlTypes ==
  ASSUME ControlTypeOK, NEW r \in Runs,
         \/ UNCHANGED controlVars \/ Discard(r) \/ SpendRetry(r) \/ Cancel(r)
         \/ DeadlinePasses(r) \/ CountToolCall(r) \/ \E n \in Nat : CountTokens(r, n)
  PROVE  /\ ControlTypeOK'
         /\ \A q \in Runs : q # r => retriesLeft'[q] = retriesLeft[q]
<1>1. CASE UNCHANGED controlVars
  BY <1>1 DEF controlVars, ControlTypeOK
<1>2. CASE Discard(r)
  BY <1>2, ControlAssumption DEF Discard, ControlTypeOK
<1>3. CASE SpendRetry(r)
  BY <1>3, ControlAssumption DEF SpendRetry, MayRetry, ControlTypeOK
<1>4. CASE Cancel(r) \/ DeadlinePasses(r)
  BY <1>4 DEF Cancel, DeadlinePasses, ControlTypeOK
<1>5. CASE CountToolCall(r)
  BY <1>5 DEF CountToolCall, ControlTypeOK
<1>6. CASE \E n \in Nat : CountTokens(r, n)
  BY <1>6 DEF CountTokens, ControlTypeOK
<1> QED
  BY <1>1, <1>2, <1>3, <1>4, <1>5, <1>6

\* A step of invoke stays within its call.
LEMMA InvokeTypes ==
  ASSUME ToolTypes, ControlTypeOK, NEW r \in Runs, invocation[r].step \in Step, InvokeStep(r)
  PROVE  /\ ToolTypes' /\ ControlTypeOK'
         /\ invocation'[r].at # "idle"
         /\ invocation'[r].step = invocation[r].step
         /\ \A q \in Runs : q # r => /\ invocation'[q] = invocation[q]
                                     /\ retriesLeft'[q] = retriesLeft[q]
<1> DEFINE s == invocation[r].step
<1>1. \A k \in CacheKeys : kept[k] # None => kept[k].result \in Attempt
  BY DEF ToolTypes, Kept
<1>2. s.key # NoKey => KeyOf(s) \in CacheKeys
  BY DEF Step, KeyOf, CacheKeys
<1>3. CASE Finds(r)
  BY <1>3, InvokeKinds, ControlTypes DEF Finds, MovesTo, ToolTypes
<1>4. CASE AnswersEarly(r)
  BY <1>1, <1>2, <1>4, InvokeKinds, ControlTypes DEF AnswersEarly, MovesTo, ToolTypes
<1>5. CASE Starts(r)
  BY <1>5, InvokeKinds, HandlerStarts, ControlTypes DEF Starts, MovesTo, ToolTypes
<1>6. CASE GivesUp(r)
  BY <1>6, InvokeKinds, ControlTypes DEF GivesUp, MovesTo, ToolTypes
<1>7. CASE Takes(r)
  <2>1. Current(r) \in Attempt
    BY CurrentTyped
  <2>2. kept' \in [CacheKeys -> Kept \union {None}]
    <3>1. [args |-> s.args, result |-> Current(r)] \in Kept
      BY <2>1 DEF Kept, Step
    <3> QED
      BY <1>7, <3>1 DEF Takes, Keep, ToolTypes
  <2> QED
    BY <1>7, <2>1, <2>2, InvokeKinds, ControlTypes DEF Takes, MovesTo, ToolTypes
<1> QED
  BY <1>3, <1>4, <1>5, <1>6, <1>7, InvokeKinds

\* Going on to another phase moves this run alone.
LEMMA GoMoves ==
  ASSUME RunTypes, NEW r \in Runs, NEW to \in Phases, NEW at \in Nat \ {0}, Go(r, to, at)
  PROVE  /\ phase' \in [Runs -> Phases] /\ phase'[r] = to
         /\ position' \in [Runs -> Nat \ {0}] /\ position'[r] = at
         /\ outcome' = outcome
         /\ \A q \in Runs : q # r => UNCHANGED <<phase[q], position[q], outcome[q]>>
  BY DEF Go, RunTypes

\* So does ending it.
LEMMA EndMoves ==
  ASSUME RunTypes, NEW r \in Runs, NEW o \in Outcomes, End(r, o)
  PROVE  /\ phase' \in [Runs -> Phases] /\ phase'[r] = "closing"
         /\ outcome' \in [Runs -> Outcomes] /\ outcome'[r] = o
         /\ position' = position
         /\ \A q \in Runs : q # r => UNCHANGED <<phase[q], position[q], outcome[q]>>
  BY DEF End, RunTypes, Phases

\* What the state holds of one run.
View(q) ==
  <<phase[q], plan[q], position[q], outcome[q], started[q], provider[q], invocation[q],
    retriesLeft[q]>>

PlacesOf(q) == ProviderPlace(q) /\ ToolPlace(q) /\ PlanPlace(q)

\* A run that does not move keeps its places.
LEMMA PlacesStay ==
  ASSUME TypeInv, NEW q \in Runs, View(q)' = View(q)
  PROVE  PlacesOf(q)'
  BY DEF TypeInv, View, PlacesOf, ProviderPlace, ToolPlace, PlanPlace

\* Enough for a step of run r to keep the types.
LEMMA RunStepTypes ==
  ASSUME TypeInv, NEW r \in Runs, ControlTypeOK', ToolTypes', RunTypes',
         provider' \in [Runs -> ProviderCall], PlacesOf(r)',
         \A q \in Runs : q # r => View(q)' = View(q)
  PROVE  TypeInv'
  BY PlacesStay DEF TypeInv, PlacesOf

\* One step of a provider call: at a retry that is paid for, or neither before nor
\* after it.
ProviderMoves(r) ==
  /\ provider' \in [Runs -> ProviderCall]
  /\ \A q \in Runs : q # r => provider'[q] = provider[q] /\ retriesLeft'[q] = retriesLeft[q]
  /\ provider'[r].attempts <= ProviderAttempts[r]
  /\ provider'[r].at \in {"failed", "backoff"} => provider'[r].attempts < ProviderAttempts[r]
  /\ \/ /\ UNCHANGED controlVars
        /\ provider[r].at # "backoff" /\ provider'[r].at # "backoff"
        /\ provider'[r].attempts = provider[r].attempts
     \/ /\ SpendRetry(r)
        /\ provider[r].at # "backoff" /\ provider'[r].at = "backoff"
        /\ provider'[r].attempts = provider[r].attempts
     \/ /\ UNCHANGED controlVars
        /\ provider[r].at = "backoff" /\ provider'[r].at # "backoff"
        /\ provider'[r].attempts \in {provider[r].attempts, provider[r].attempts + 1}

\* A step of the provider call moves its run alone.
LEMMA ProviderSteps ==
  ASSUME TypeInv, NEW r \in Runs, ProviderStep(r)
  PROVE  ProviderMoves(r) /\ ControlTypeOK'
<1>1. /\ provider \in [Runs -> ProviderCall]
      /\ provider[r].attempts \in Nat
      /\ provider[r].attempts <= ProviderAttempts[r]
      /\ provider[r].at \in {"failed", "backoff"} => provider[r].attempts < ProviderAttempts[r]
      /\ ProviderAttempts[r] \in Nat \ {0}
  BY ProviderAssumption DEF TypeInv, ProviderPlace, ProviderCall
<1>2. ControlTypeOK' /\ \A q \in Runs : q # r => retriesLeft'[q] = retriesLeft[q]
  BY ControlTypes
  DEF TypeInv, ProviderStep, StopCall, CallReturns, CallFails, AskProviderRetry, ProviderBackoff
<1>3. ASSUME NEW to \in {"answered", "error", "cancelled", "timed_out", "failed", "backoff"},
             Move(r, to)
      PROVE  /\ provider' \in [Runs -> ProviderCall]
             /\ \A q \in Runs : q # r => provider'[q] = provider[q]
             /\ provider'[r].at = to /\ provider'[r].attempts = provider[r].attempts
  BY <1>1, <1>3 DEF Move, ProviderCall
<1>4. CASE StopCall(r) \/ CallReturns(r)
  <2>1. PICK to \in {"answered", "cancelled", "timed_out"} : Move(r, to)
    BY <1>4, StoppedAs DEF StopCall, CallReturns
  <2> QED
    BY <1>1, <1>2, <1>3, <1>4, <2>1 DEF ProviderMoves, StopCall, CallReturns
<1>5. CASE \E retryable \in BOOLEAN : CallFails(r, retryable)
  <2>1. PICK to \in {"failed", "error"} :
          /\ Move(r, to)
          /\ to = "failed" => provider[r].attempts < ProviderAttempts[r]
    BY <1>5 DEF CallFails
  <2> QED
    BY <1>1, <1>2, <1>3, <1>5, <2>1 DEF ProviderMoves, CallFails
<1>6. CASE AskProviderRetry(r)
  <2>1. PICK to \in {"error", "cancelled", "timed_out", "backoff"} :
          /\ Move(r, to)
          /\ IF to = "backoff" THEN SpendRetry(r) ELSE UNCHANGED controlVars
    BY <1>6, StoppedAs DEF AskProviderRetry
  <2> QED
    BY <1>1, <1>2, <1>3, <1>6, <2>1 DEF ProviderMoves, AskProviderRetry
<1>7. CASE ProviderBackoff(r)
  <2>1. CASE ProviderDelay /\ Stopped(r) # "no"
    BY <1>1, <1>2, <1>3, <1>7, <2>1, StoppedAs DEF ProviderMoves, ProviderBackoff
  <2>2. CASE ~ (ProviderDelay /\ Stopped(r) # "no")
    <3> DEFINE n == provider[r].attempts + 1
    <3>1. provider' = [provider EXCEPT ![r] = [at |-> "waiting", attempts |-> n]]
      BY <1>7, <2>2 DEF ProviderBackoff
    <3>2. [at |-> "waiting", attempts |-> n] \in ProviderCall
      BY <1>1 DEF ProviderCall
    <3> QED
      BY <1>1, <1>2, <1>7, <3>1, <3>2 DEF ProviderMoves, ProviderBackoff
  <2> QED
    BY <2>1, <2>2
<1> QED
  BY <1>4, <1>5, <1>6, <1>7 DEF ProviderStep

\* The calls and attempts a run has begun only grow, for that run.
LEMMA Begins ==
  ASSUME RunTypes, NEW r \in Runs, BeginsCall(r) \/ BeginsAttempt(r) \/ UNCHANGED started
  PROVE  /\ started' \in [Runs -> [calls : Nat, attempts : Nat]]
         /\ \A q \in Runs : q # r => started'[q] = started[q]
         /\ BeginsCall(r) => /\ started'[r].calls = started[r].calls + 1
                             /\ started'[r].attempts = started[r].attempts + 1
         /\ BeginsAttempt(r) => /\ started'[r].calls = started[r].calls
                                /\ started'[r].attempts = started[r].attempts + 1
<1> DEFINE n == started[r].attempts + 1
           one == [started[r] EXCEPT !.attempts = n]
<1>1. started \in [Runs -> [calls : Nat, attempts : Nat]]
  BY DEF RunTypes
<1>2. started[r] \in [calls : Nat, attempts : Nat] /\ n \in Nat /\ started[r].calls + 1 \in Nat
  BY <1>1
<1>3. one \in [calls : Nat, attempts : Nat] /\ one.calls = started[r].calls /\ one.attempts = n
  <2> HIDE DEF n
  <2> QED
    BY <1>2
<1>4. BeginsAttempt(r) => started' = [started EXCEPT ![r] = one]
  BY DEF BeginsAttempt
<1>5. BeginsCall(r) => started' = [started EXCEPT ![r] = [calls |-> started[r].calls + 1,
                                                          attempts |-> n]]
  BY DEF BeginsCall
<1> HIDE DEF one
<1>6. CASE BeginsAttempt(r) /\ ~ BeginsCall(r)
  BY <1>1, <1>3, <1>4, <1>6
<1>7. CASE BeginsCall(r) /\ ~ BeginsAttempt(r)
  BY <1>1, <1>2, <1>5, <1>7
<1>8. ~ (BeginsCall(r) /\ BeginsAttempt(r))
  BY <1>1, <1>2, <1>3, <1>4, <1>5
<1> QED
  BY <1>1, <1>6, <1>7, <1>8

\* Tools that nobody touches stay typed.
LEMMA SameTools == ToolTypes /\ UNCHANGED toolVars => ToolTypes'
  BY DEF toolVars, ToolTypes

\* The steps of a run around its provider calls keep its places.
LEMMA ProviderRunTypes ==
  ASSUME TypeInv, NEW r \in Runs,
         AskProvider(r) \/ WaitForProvider(r) \/ UseResponse(r) \/ ProviderFailure(r)
           \/ StopBeforeCall(r)
  PROVE  TypeInv' /\ \A q \in Runs : q # r => View(q)' = View(q)
<1>1. /\ ToolTypes /\ RunTypes /\ ControlTypeOK
      /\ ProviderPlace(r) /\ ToolPlace(r) /\ PlanPlace(r)
      /\ ProviderAttempts[r] \in Nat \ {0}
      /\ provider \in [Runs -> ProviderCall]
  BY ProviderAssumption DEF TypeInv
<1>2. UNCHANGED toolVars /\ ToolTypes'
  BY <1>1, SameTools
  DEF AskProvider, WaitForProvider, UseResponse, ProviderFailure, StopBeforeCall
<1>3. CASE AskProvider(r)
  <2>1. /\ provider' = [provider EXCEPT ![r] = [at |-> "waiting", attempts |-> 1]]
        /\ UNCHANGED controlVars
        /\ started' = [started EXCEPT ![r] = [calls |-> @.calls + 1, attempts |-> @.attempts + 1]]
        /\ UNCHANGED <<phase, position, outcome, plan>>
    BY <1>3 DEF AskProvider, StartCall, BeginsCall
  <2>2. RunTypes'
    BY <1>1, <2>1 DEF RunTypes
  <2>3. /\ provider' \in [Runs -> ProviderCall]
        /\ \A q \in Runs : q # r => View(q)' = View(q)
    BY <1>1, <1>2, <2>1 DEF RunTypes, ProviderCall, View, toolVars, controlVars
  <2>4. ControlTypeOK'
    BY <1>1, <2>1, ControlTypes
  <2>5. PlacesOf(r)'
    BY <1>1, <1>2, <1>3, <2>1
    DEF AskProvider, PlacesOf, ProviderPlace, ToolPlace, PlanPlace, toolVars
  <2> QED
    BY <1>2, <2>2, <2>3, <2>4, <2>5, RunStepTypes
<1>4. CASE WaitForProvider(r)
  <2>1. ProviderMoves(r) /\ ControlTypeOK'
    BY <1>4, ProviderSteps DEF WaitForProvider
  <2>2. /\ started' \in [Runs -> [calls : Nat, attempts : Nat]]
        /\ \A q \in Runs : q # r => started'[q] = started[q]
    BY <1>1, <1>4, Begins DEF WaitForProvider
  <2>3. RunTypes' /\ \A q \in Runs : q # r => View(q)' = View(q)
    BY <1>1, <1>2, <1>4, <2>1, <2>2 DEF RunTypes, WaitForProvider, View, ProviderMoves, toolVars
  <2>4. PlacesOf(r)'
    BY <1>1, <1>2, <1>4, <2>1
    DEF WaitForProvider, ProviderMoves, PlacesOf, ProviderPlace, ToolPlace, PlanPlace, toolVars
  <2>5. provider' \in [Runs -> ProviderCall]
    BY <2>1 DEF ProviderMoves
  <2> QED
    BY <1>2, <2>1, <2>3, <2>4, <2>5, RunStepTypes
<1>5. ASSUME provider' = [provider EXCEPT ![r] = ProviderIdle] \/ (UNCHANGED provider /\ provider[r].at = "idle"),
             UNCHANGED controlVars \/ \E n \in Nat : CountTokens(r, n),
             UNCHANGED started,
             \/ \E o \in Outcomes \ {"none"} : End(r, o) /\ UNCHANGED plan
             \/ Go(r, "validate", 1) /\ \E p \in Plans[r] : plan' = [plan EXCEPT ![r] = p],
             phase[r] \in {"plan", "compose"}
      PROVE  TypeInv' /\ \A q \in Runs : q # r => View(q)' = View(q)
  <2>1. /\ provider' \in [Runs -> ProviderCall]
        /\ provider'[r].at = "idle"
        /\ provider'[r].attempts <= ProviderAttempts[r]
        /\ \A q \in Runs : q # r => provider'[q] = provider[q]
    BY <1>1, <1>5 DEF ProviderCall, ProviderIdle, ProviderPlace
  <2>2. ControlTypeOK' /\ \A q \in Runs : q # r => retriesLeft'[q] = retriesLeft[q]
    BY <1>1, <1>5, ControlTypes
  <2>3. CASE \E o \in Outcomes \ {"none"} : End(r, o) /\ UNCHANGED plan
    <3>1. PICK o \in Outcomes \ {"none"} : End(r, o) /\ UNCHANGED plan
      BY <2>3
    <3>2. RunTypes' /\ \A q \in Runs : q # r => View(q)' = View(q)
      BY <1>1, <1>2, <1>5, <2>1, <2>2, <3>1, EndMoves DEF RunTypes, View, toolVars
    <3>3. PlacesOf(r)'
      BY <1>1, <1>2, <1>5, <2>1, <3>1, EndMoves
      DEF PlacesOf, ProviderPlace, ToolPlace, PlanPlace, toolVars
    <3> QED
      BY <1>2, <2>1, <2>2, <3>2, <3>3, RunStepTypes
  <2>4. CASE Go(r, "validate", 1) /\ \E p \in Plans[r] : plan' = [plan EXCEPT ![r] = p]
    <3>1. PICK p \in Plans[r] : Go(r, "validate", 1) /\ plan' = [plan EXCEPT ![r] = p]
      BY <2>4
    <3>2. p \in Seq(Step)
      BY PlanAssumption
    <3>3. RunTypes' /\ \A q \in Runs : q # r => View(q)' = View(q)
      <4>1. "validate" \in Phases /\ 1 \in Nat \ {0}
        BY DEF Phases
      <4> QED
        BY <1>1, <1>2, <1>5, <2>1, <2>2, <3>1, <3>2, <4>1, GoMoves DEF RunTypes, View, toolVars
    <3>4. PlacesOf(r)'
      <4>1. plan'[r] = p /\ Len(p) \in Nat
        BY <1>1, <3>1, <3>2 DEF RunTypes
      <4>2. phase'[r] = "validate" /\ position'[r] = 1 /\ outcome'[r] = outcome[r]
        BY <1>1, <3>1, GoMoves DEF Phases
      <4> QED
        BY <1>1, <1>2, <1>5, <2>1, <4>1, <4>2
        DEF PlacesOf, ProviderPlace, ToolPlace, PlanPlace, toolVars
    <3> QED
      BY <1>2, <2>1, <2>2, <3>3, <3>4, RunStepTypes
  <2> QED
    BY <1>5, <2>3, <2>4
<1>6. CASE UseResponse(r)
  <2>1. phase[r] \in {"plan", "compose"}
    BY <1>1, <1>6 DEF UseResponse, ProviderPlace
  <2>2. \/ \E o \in Outcomes \ {"none"} : End(r, o) /\ phase'[r] # "validate"
        \/ Go(r, "validate", 1) /\ phase'[r] = "validate"
    BY <1>1, <1>6, StoppedAs DEF UseResponse, End, Go, RunTypes, Outcomes
  <2>3. UNCHANGED controlVars \/ \E n \in Nat : CountTokens(r, n)
    BY <1>6, PlanAssumption DEF UseResponse
  <2> QED
    BY <1>5, <1>6, <2>1, <2>2, <2>3 DEF UseResponse
<1>7. CASE ProviderFailure(r)
  <2>1. phase[r] \in {"plan", "compose"}
    BY <1>1, <1>7 DEF ProviderFailure, ProviderPlace
  <2>2. \E o \in Outcomes \ {"none"} : End(r, o)
    BY <1>7 DEF ProviderFailure, Outcomes
  <2> QED
    BY <1>5, <1>7, <2>1, <2>2 DEF ProviderFailure
<1>8. CASE StopBeforeCall(r)
  <2>1. \E o \in Outcomes \ {"none"} : End(r, o)
    BY <1>8, StoppedAs DEF StopBeforeCall, Outcomes
  <2> QED
    BY <1>5, <1>8, <2>1 DEF StopBeforeCall
<1> QED
  BY <1>3, <1>4, <1>6, <1>7, <1>8

\* The steps between two calls move the run and perhaps count against its budget.
LEMMA PlanRunTypes ==
  ASSUME TypeInv, NEW r \in Runs,
         ValidateStep(r) \/ AcceptPlan(r) \/ BeginStep(r) \/ ExhaustPlan(r)
  PROVE  TypeInv' /\ \A q \in Runs : q # r => View(q)' = View(q)
<1>1. /\ ToolTypes /\ RunTypes /\ ControlTypeOK
      /\ ProviderPlace(r) /\ ToolPlace(r) /\ PlanPlace(r)
      /\ provider \in [Runs -> ProviderCall]
  BY DEF TypeInv
<1>2. /\ UNCHANGED <<toolVars, provider, started, plan>> /\ ToolTypes'
      /\ phase[r] \in {"validate", "step"}
  BY <1>1, SameTools DEF ValidateStep, AcceptPlan, BeginStep, ExhaustPlan
<1>3. ControlTypeOK' /\ \A q \in Runs : q # r => retriesLeft'[q] = retriesLeft[q]
  BY <1>1, ControlTypes DEF ValidateStep, AcceptPlan, BeginStep, ExhaustPlan
<1>4. \/ \E o \in Outcomes \ {"none"} : End(r, o)
      \/ \E to \in {"validate", "step", "fetch", "compose"}, at \in Nat \ {0} :
           /\ Go(r, to, at)
           /\ at <= Len(plan[r]) + 1
           /\ to = "fetch" => at <= Len(plan[r])
  <2>1. /\ position[r] \in Nat \ {0}
        /\ position[r] <= Len(plan[r]) + 1
        /\ Len(plan[r]) \in Nat
        /\ 1 \in Nat \ {0}
        /\ position[r] <= Len(plan[r]) => position[r] + 1 \in Nat \ {0} /\ position[r] + 1 <= Len(plan[r]) + 1
    BY <1>1 DEF RunTypes, PlanPlace
  <2>2. 1 <= Len(plan[r]) + 1
    BY <2>1
  <2>3. CASE ValidateStep(r)
    BY <2>1, <2>3 DEF ValidateStep, Outcomes
  <2>4. CASE AcceptPlan(r)
    BY <2>1, <2>2, <2>4 DEF AcceptPlan, Outcomes
  <2>5. CASE BeginStep(r)
    BY <2>1, <2>5, StoppedAs DEF BeginStep, Outcomes
  <2>6. CASE ExhaustPlan(r)
    BY <2>1, <2>6 DEF ExhaustPlan
  <2> QED
    BY <2>3, <2>4, <2>5, <2>6
<1>5. CASE \E o \in Outcomes \ {"none"} : End(r, o)
  <2>1. PICK o \in Outcomes \ {"none"} : End(r, o)
    BY <1>5
  <2>2. RunTypes' /\ \A q \in Runs : q # r => View(q)' = View(q)
    BY <1>1, <1>2, <1>3, <2>1, EndMoves DEF RunTypes, View, toolVars
  <2>3. PlacesOf(r)'
    BY <1>1, <1>2, <2>1, EndMoves DEF PlacesOf, ProviderPlace, ToolPlace, PlanPlace, toolVars
  <2> QED
    BY <1>1, <1>2, <1>3, <2>2, <2>3, RunStepTypes
<1>6. CASE \E to \in {"validate", "step", "fetch", "compose"}, at \in Nat \ {0} :
             /\ Go(r, to, at)
             /\ at <= Len(plan[r]) + 1
             /\ to = "fetch" => at <= Len(plan[r])
  <2>1. PICK to \in {"validate", "step", "fetch", "compose"}, at \in Nat \ {0} :
          /\ Go(r, to, at)
          /\ at <= Len(plan[r]) + 1
          /\ to = "fetch" => at <= Len(plan[r])
    BY <1>6
  <2>2. to \in Phases
    BY DEF Phases
  <2>3. RunTypes' /\ \A q \in Runs : q # r => View(q)' = View(q)
    BY <1>1, <1>2, <1>3, <2>1, <2>2, GoMoves DEF RunTypes, View, toolVars
  <2>4. PlacesOf(r)'
    BY <1>1, <1>2, <2>1, <2>2, GoMoves
    DEF PlacesOf, ProviderPlace, ToolPlace, PlanPlace, toolVars
  <2> QED
    BY <1>1, <1>2, <1>3, <2>3, <2>4, RunStepTypes
<1> QED
  BY <1>4, <1>5, <1>6

\* A new call, at its first look at the tool.
Calls(r) ==
  /\ invocation[r].at = "idle"
  /\ invocation' \in [Runs -> Invocation]
  /\ invocation'[r].at = "lookup"
  /\ invocation'[r].attempts = 0
  /\ invocation'[r].step \in Step
  /\ \A q \in Runs : q # r => invocation'[q] = invocation[q]
  /\ UNCHANGED <<tools, lock, kept, handlers, ended, answers>>

\* Once the tool of a step is found usable its tool call begins.
LEMMA FetchCalls ==
  ASSUME TypeInv, NEW r \in Runs, phase[r] = "fetch", Invoke(r, StepOf(r))
  PROVE  Calls(r)
<1>1. StepOf(r) \in Step
  <2>1. plan[r] \in Seq(Step) /\ position[r] \in 1 .. Len(plan[r])
    BY DEF TypeInv, RunTypes, PlanPlace
  <2> QED
    BY <2>1 DEF StepOf
<1> DEFINE i == [Idle EXCEPT !.at = "lookup", !.step = StepOf(r), !.call = invocation[r].call + 1]
<1>2. /\ i \in Invocation
      /\ i.at = "lookup" /\ i.attempts = 0 /\ i.step = StepOf(r)
  <2>1. invocation[r].call + 1 \in Nat
    BY InvocationFields DEF TypeInv
  <2> QED
    BY <1>1, <2>1 DEF Idle, Invocation, Endings
<1>3. invocation' = [invocation EXCEPT ![r] = i] /\ invocation \in [Runs -> Invocation]
  BY DEF Invoke, TypeInv, ToolTypes
<1> HIDE DEF i
<1> QED
  BY <1>1, <1>2, <1>3 DEF Calls, Invoke, TypeInv, ToolPlace

\* Fetching a tool keeps the types and, of the other runs, everything.
LEMMA FetchTypes ==
  ASSUME TypeInv, NEW r \in Runs, FetchTool(r)
  PROVE  /\ TypeInv' /\ \A q \in Runs : q # r => View(q)' = View(q)
         /\ UNCHANGED toolVars \/ Calls(r)
<1>1. /\ ToolTypes /\ RunTypes /\ ControlTypeOK
      /\ ProviderPlace(r) /\ ToolPlace(r) /\ PlanPlace(r)
      /\ provider \in [Runs -> ProviderCall]
      /\ phase[r] = "fetch"
      /\ UNCHANGED <<controlVars, provider, started, plan>>
  BY DEF TypeInv, FetchTool
<1>2. ControlTypeOK' /\ \A q \in Runs : q # r => retriesLeft'[q] = retriesLeft[q]
  BY <1>1, ControlTypes
<1>3. CASE \E o \in Outcomes \ {"none"} : End(r, o) /\ UNCHANGED toolVars
  <2>1. PICK o \in Outcomes \ {"none"} : End(r, o) /\ UNCHANGED toolVars
    BY <1>3
  <2>2. RunTypes' /\ \A q \in Runs : q # r => View(q)' = View(q)
    BY <1>1, <1>2, <2>1, EndMoves DEF RunTypes, View, toolVars
  <2>3. PlacesOf(r)'
    BY <1>1, <2>1, EndMoves DEF PlacesOf, ProviderPlace, ToolPlace, PlanPlace, toolVars
  <2> QED
    BY <1>1, <1>2, <2>1, <2>2, <2>3, SameTools, RunStepTypes
<1>4. CASE Go(r, "step", position[r] + 1) /\ UNCHANGED toolVars
  <2>1. position[r] + 1 \in Nat \ {0} /\ "step" \in Phases /\ position[r] \in Nat /\ Len(plan[r]) \in Nat
    BY <1>1 DEF RunTypes, Phases
  <2>2. RunTypes' /\ \A q \in Runs : q # r => View(q)' = View(q)
    BY <1>1, <1>2, <1>4, <2>1, GoMoves DEF RunTypes, View, toolVars
  <2>3. PlacesOf(r)'
    BY <1>1, <1>4, <2>1, GoMoves DEF PlacesOf, ProviderPlace, ToolPlace, PlanPlace, toolVars
  <2> QED
    BY <1>1, <1>2, <1>4, <2>2, <2>3, SameTools, RunStepTypes
<1>5. CASE Invoke(r, StepOf(r)) /\ Go(r, "tool", position[r])
  <2>1. Calls(r) /\ "tool" \in Phases /\ position[r] \in Nat \ {0}
    BY <1>1, <1>5, FetchCalls DEF RunTypes, Phases
  <2>2. RunTypes' /\ \A q \in Runs : q # r => View(q)' = View(q)
    BY <1>1, <1>2, <1>5, <2>1, GoMoves DEF RunTypes, View, Calls
  <2>3. PlacesOf(r)'
    BY <1>1, <1>5, <2>1, GoMoves DEF PlacesOf, ProviderPlace, ToolPlace, PlanPlace, Calls
  <2>4. ToolTypes'
    BY <1>1, <2>1 DEF Calls, ToolTypes
  <2> QED
    BY <1>1, <1>2, <2>1, <2>2, <2>3, <2>4, RunStepTypes
<1> QED
  BY <1>3, <1>4, <1>5 DEF FetchTool, Outcomes

\* So does a step of the tool call, ...
LEMMA WaitForToolTypes ==
  ASSUME TypeInv, NEW r \in Runs, WaitForTool(r)
  PROVE  TypeInv' /\ \A q \in Runs : q # r => View(q)' = View(q)
<1>1. /\ ToolTypes /\ RunTypes /\ ControlTypeOK
      /\ ProviderPlace(r) /\ ToolPlace(r) /\ PlanPlace(r)
      /\ provider \in [Runs -> ProviderCall]
      /\ phase[r] = "tool" /\ InvokeStep(r)
      /\ UNCHANGED <<provider, phase, position, outcome, plan>>
  BY DEF TypeInv, WaitForTool
<1>2. invocation[r].step \in Step
  BY <1>1 DEF ToolPlace
<1>3. /\ ToolTypes' /\ ControlTypeOK'
      /\ invocation'[r].at # "idle"
      /\ invocation'[r].step = invocation[r].step
      /\ \A q \in Runs : q # r => /\ invocation'[q] = invocation[q]
                                  /\ retriesLeft'[q] = retriesLeft[q]
  BY <1>1, <1>2, InvokeTypes
<1>4. /\ started' \in [Runs -> [calls : Nat, attempts : Nat]]
      /\ \A q \in Runs : q # r => started'[q] = started[q]
  BY <1>1, Begins DEF WaitForTool
<1>5. RunTypes' /\ \A q \in Runs : q # r => View(q)' = View(q)
  BY <1>1, <1>3, <1>4 DEF RunTypes, View
<1>6. PlacesOf(r)'
  BY <1>1, <1>2, <1>3 DEF PlacesOf, ProviderPlace, ToolPlace, PlanPlace
<1> QED
  BY <1>1, <1>3, <1>5, <1>6, RunStepTypes

\* The call is over, and the invocation idle again.
Resets(r) ==
  /\ invocation[r].at \in {"idle", "done"}
  /\ invocation' \in [Runs -> Invocation]
  /\ invocation'[r].at = "idle"
  /\ ended' = ended \/ ended' = [ended EXCEPT ![r] = None]
  /\ \A q \in Runs : q # r => invocation'[q] = invocation[q]
  /\ UNCHANGED <<tools, lock, kept, handlers, answers>>

\* ... the recording of its result, ...
LEMMA RecordTypes ==
  ASSUME TypeInv, NEW r \in Runs, RecordResult(r)
  PROVE  /\ TypeInv' /\ \A q \in Runs : q # r => View(q)' = View(q)
         /\ Resets(r)
<1>1. /\ ToolTypes /\ RunTypes /\ ControlTypeOK
      /\ ProviderPlace(r) /\ ToolPlace(r) /\ PlanPlace(r)
      /\ provider \in [Runs -> ProviderCall]
      /\ phase[r] = "tool"
      /\ UNCHANGED <<controlVars, provider, started, plan>>
  BY DEF TypeInv, RecordResult
<1>2. ControlTypeOK' /\ \A q \in Runs : q # r => retriesLeft'[q] = retriesLeft[q]
  BY <1>1, ControlTypes
<1>3. Resets(r)
  <2> DEFINE i == [Idle EXCEPT !.call = invocation[r].call]
  <2>1. i \in Invocation /\ i.at = "idle"
    BY <1>1, InvocationFields DEF Idle, Invocation, Endings
  <2>2. invocation' = [invocation EXCEPT ![r] = i] /\ invocation \in [Runs -> Invocation]
    BY <1>1 DEF RecordResult, ToolTypes
  <2> HIDE DEF i
  <2> QED
    BY <2>1, <2>2 DEF Resets, RecordResult
<1>4. ToolTypes'
  BY <1>1, <1>3 DEF Resets, ToolTypes
<1>5. CASE \E o \in Outcomes \ {"none"} : End(r, o)
  <2>1. PICK o \in Outcomes \ {"none"} : End(r, o)
    BY <1>5
  <2>2. RunTypes' /\ \A q \in Runs : q # r => View(q)' = View(q)
    BY <1>1, <1>2, <1>3, <2>1, EndMoves DEF RunTypes, View, Resets
  <2>3. PlacesOf(r)'
    BY <1>1, <1>3, <2>1, EndMoves DEF PlacesOf, ProviderPlace, ToolPlace, PlanPlace, Resets
  <2> QED
    BY <1>1, <1>2, <1>3, <1>4, <2>2, <2>3, RunStepTypes
<1>6. CASE Go(r, "step", position[r] + 1)
  <2>1. position[r] + 1 \in Nat \ {0} /\ "step" \in Phases /\ position[r] \in Nat /\ Len(plan[r]) \in Nat
    BY <1>1 DEF RunTypes, Phases
  <2>2. RunTypes' /\ \A q \in Runs : q # r => View(q)' = View(q)
    BY <1>1, <1>2, <1>3, <1>6, <2>1, GoMoves DEF RunTypes, View, Resets
  <2>3. PlacesOf(r)'
    BY <1>1, <1>3, <1>6, <2>1, GoMoves DEF PlacesOf, ProviderPlace, ToolPlace, PlanPlace, Resets
  <2> QED
    BY <1>1, <1>2, <1>3, <1>4, <2>2, <2>3, RunStepTypes
<1> QED
  BY <1>5, <1>6, StoppedAs DEF RecordResult, Outcomes

\* ... and the end of the run.
LEMMA CloseTypes ==
  ASSUME TypeInv, NEW r \in Runs, Close(r)
  PROVE  /\ TypeInv' /\ \A q \in Runs : q # r => View(q)' = View(q)
         /\ Resets(r)
<1>1. /\ ToolTypes /\ RunTypes /\ ControlTypeOK
      /\ ProviderPlace(r) /\ ToolPlace(r) /\ PlanPlace(r)
      /\ provider \in [Runs -> ProviderCall]
      /\ phase[r] = "closing" /\ Discard(r)
      /\ UNCHANGED <<provider, outcome>>
  BY DEF TypeInv, Close
<1>2. ControlTypeOK' /\ \A q \in Runs : q # r => retriesLeft'[q] = retriesLeft[q]
  BY <1>1, ControlTypes
<1>3. Idle \in Invocation /\ Idle.at = "idle"
  BY DEF Idle, Invocation, Endings
<1>4. Resets(r)
  BY <1>1, <1>3 DEF Close, Resets, ToolTypes, ToolPlace
<1>5. ToolTypes'
  BY <1>1, <1>4 DEF Resets, ToolTypes
<1>6. RunTypes' /\ \A q \in Runs : q # r => View(q)' = View(q)
  <2>1. <<>> \in Seq(Step) /\ 1 \in Nat \ {0} /\ "ended" \in Phases
    BY DEF Phases
  <2>2. [calls |-> 0, attempts |-> 0] \in [calls : Nat, attempts : Nat]
    OBVIOUS
  <2> QED
    BY <1>1, <1>2, <1>4, <2>1, <2>2 DEF Close, RunTypes, View, Resets
<1>7. PlacesOf(r)'
  <2>1. phase'[r] = "ended" /\ plan'[r] = <<>> /\ position'[r] = 1
    BY <1>1 DEF Close, RunTypes
  <2>2. Len(<<>>) = 0
    OBVIOUS
  <2> QED
    BY <1>1, <1>4, <2>1, <2>2 DEF PlacesOf, ProviderPlace, ToolPlace, PlanPlace, Resets
<1> QED
  BY <1>1, <1>2, <1>4, <1>5, <1>6, <1>7, RunStepTypes

\* Runs that have not begun are in their places.
LEMMA GovernedInitTypes == GovernedInit => TypeInv
<1> SUFFICES ASSUME GovernedInit PROVE TypeInv
  OBVIOUS
<1>1. ControlTypeOK
  BY ControlAssumption DEF GovernedInit, ControlInit, ControlTypeOK
<1>2. ToolTypes
  <2>1. Idle \in Invocation /\ "active" \in Lifecycle
    BY DEF Idle, Invocation, Endings, Lifecycle
  <2> QED
    BY <2>1 DEF GovernedInit, ToolInit, ToolTypes
<1>3. RunTypes
  BY DEF GovernedInit, RunTypes, Phases, Outcomes
<1>4. provider \in [Runs -> ProviderCall]
  BY DEF GovernedInit, ProviderInit, ProviderIdle, ProviderCall
<1>5. ASSUME NEW r \in Runs PROVE ProviderPlace(r) /\ ToolPlace(r) /\ PlanPlace(r)
  <2>1. ProviderAttempts[r] \in Nat /\ Len(<<>>) = 0
    BY ProviderAssumption
  <2> QED
    BY <2>1
    DEF GovernedInit, ProviderInit, ProviderIdle, ToolInit, Idle, ProviderPlace, ToolPlace,
        PlanPlace
<1> QED
  BY <1>1, <1>2, <1>3, <1>4, <1>5 DEF TypeInv

\* What happens around the runs moves none of them.
LEMMA EnvironmentTypes ==
  ASSUME TypeInv, Environment
  PROVE  TypeInv' /\ \A q \in Runs : View(q)' = View(q)
<1>1. UNCHANGED <<provider, phase, plan, position, outcome, started, invocation, retriesLeft>>
  BY DEF Environment, runVars, toolVars, controlVars, Cancel, DeadlinePasses, SetLifecycle,
         ClearIdempotency, HandlerEnds
<1>2. ToolTypes'
  <2>1. CASE UNCHANGED toolVars
    BY <2>1, SameTools DEF TypeInv
  <2>2. CASE \E t \in Tools, s \in OperatorMoves : SetLifecycle(t, s)
    BY <2>2, PlanAssumption DEF SetLifecycle, TypeInv, ToolTypes
  <2>3. CASE ClearIdempotency
    BY <2>3 DEF ClearIdempotency, TypeInv, ToolTypes
  <2>4. CASE \E h \in handlers, e \in HandlerEnd : HandlerEnds(h, e)
    <3>1. PICK h \in handlers, e \in HandlerEnd : HandlerEnds(h, e)
      BY <2>4
    <3>2. h.attempt.run \in Runs
      BY DEF TypeInv, ToolTypes, Handler, Attempt
    <3> QED
      BY <3>1, <3>2 DEF HandlerEnds, TypeInv, ToolTypes
  <2> QED
    BY <2>1, <2>2, <2>3, <2>4 DEF Environment
<1>3. ControlTypeOK'
  BY ControlTypes DEF Environment, TypeInv, controlVars, ControlTypeOK
<1>4. \A q \in Runs : View(q)' = View(q)
  BY <1>1 DEF View
<1>5. RunTypes' /\ provider' \in [Runs -> ProviderCall]
  BY <1>1 DEF TypeInv, RunTypes
<1> QED
  BY <1>2, <1>3, <1>4, <1>5, PlacesStay DEF TypeInv, PlacesOf

\* Every step of a run keeps the places, and moves that run alone.
LEMMA RunTypesStep ==
  ASSUME TypeInv, NEW r \in Runs, RunStep(r)
  PROVE  TypeInv' /\ \A q \in Runs : q # r => View(q)' = View(q)
  BY ProviderRunTypes, PlanRunTypes, FetchTypes, WaitForToolTypes, RecordTypes, CloseTypes
  DEF RunStep

\* So does every step of the system, ...
LEMMA GovernedTypeStep == TypeInv /\ [GovernedNext]_governedVars => TypeInv'
<1> SUFFICES ASSUME TypeInv, [GovernedNext]_governedVars PROVE TypeInv'
  OBVIOUS
<1>1. CASE UNCHANGED governedVars
  <2>1. UNCHANGED <<toolVars, controlVars, provider, phase, plan, position, outcome, started>>
    BY <1>1 DEF governedVars, runVars
  <2>2. ToolTypes' /\ ControlTypeOK' /\ RunTypes' /\ provider' \in [Runs -> ProviderCall]
    BY <2>1, SameTools DEF TypeInv, controlVars, ControlTypeOK, RunTypes
  <2>3. \A q \in Runs : View(q)' = View(q)
    BY <2>1 DEF View, toolVars, controlVars
  <2> QED
    BY <2>2, <2>3, PlacesStay DEF TypeInv, PlacesOf
<1> QED
  BY <1>1, RunTypesStep, EnvironmentTypes DEF GovernedNext

\* ... so they are always kept.
LEMMA GovernedTypeInvariant == GovernedSpec => []TypeInv
  BY GovernedInitTypes, GovernedTypeStep, PTL DEF GovernedSpec

\* Every run keeps its place: it is at a step of its plan, has an outcome once it
\* ends, and its provider calls stay within the attempts of its policy.
THEOREM GovernedTypes == GovernedSpec => []GovernedTypeOK
<1>1. TypeInv => GovernedTypeOK
  <2> SUFFICES ASSUME TypeInv PROVE GovernedTypeOK
    OBVIOUS
  <2>1. ToolTypeOK
    BY DEF TypeInv, ToolTypes, ToolTypeOK, Kept, Handler, Invocation
  <2>2. ProviderTypeOK
    <3> SUFFICES ASSUME NEW r \in Runs
                 PROVE  provider[r] \in
                          [at : {"idle", "waiting", "failed", "backoff", "answered", "error",
                                 "cancelled", "timed_out"},
                           attempts : 0 .. ProviderAttempts[r]]
      BY DEF ProviderTypeOK
    <3>1. provider[r] \in ProviderCall /\ provider[r].attempts \in 0 .. ProviderAttempts[r]
      BY ProviderAssumption DEF TypeInv, ProviderPlace, ProviderCall
    <3> QED
      BY <3>1 DEF ProviderCall
  <2>3. \A r \in Runs : position[r] \in 1 .. Len(plan[r]) + 1
    <3> SUFFICES ASSUME NEW r \in Runs PROVE position[r] \in 1 .. Len(plan[r]) + 1
      OBVIOUS
    <3>1. /\ position[r] \in Nat \ {0} /\ Len(plan[r]) \in Nat
          /\ position[r] <= Len(plan[r]) + 1
      BY DEF TypeInv, RunTypes, PlanPlace
    <3> QED
      BY <3>1
  <2> QED
    BY <2>1, <2>2, <2>3 DEF TypeInv, RunTypes, Phases, PlanPlace, GovernedTypeOK
<1> QED
  BY <1>1, GovernedTypeInvariant, PTL

-----------------------------------------------------------------------------
(* The lock keeps handlers apart.                                           *)

\* What a step may do to what the runs share.
InvokeKind(r) == Finds(r) \/ AnswersEarly(r) \/ Starts(r) \/ GivesUp(r) \/ Takes(r)

NothingShared == UNCHANGED <<lock, kept, handlers, ended, invocation, answers>>

\* What a step of the system may do to the tools.
LEMMA ToolKinds ==
  ASSUME TypeInv, [GovernedNext]_governedVars
  PROVE  \/ NothingShared
         \/ \E r \in Runs : \/ invocation[r].step \in Step /\ InvokeKind(r)
                            \/ Calls(r) \/ Resets(r)
         \/ ClearIdempotency
         \/ \E h \in handlers, e \in HandlerEnd : HandlerEnds(h, e)
<1>1. CASE UNCHANGED governedVars
  BY <1>1 DEF governedVars, toolVars, NothingShared
<1>2. CASE Environment
  BY <1>2 DEF Environment, toolVars, NothingShared, SetLifecycle
<1>3. ASSUME NEW r \in Runs, RunStep(r)
      PROVE  \/ NothingShared
             \/ invocation[r].step \in Step /\ InvokeKind(r)
             \/ Calls(r) \/ Resets(r)
  <2>1. CASE UNCHANGED toolVars
    BY <2>1 DEF toolVars, NothingShared
  <2>2. CASE FetchTool(r)
    BY <2>1, <2>2, FetchTypes
  <2>3. CASE WaitForTool(r)
    BY <2>3, InvokeKinds DEF WaitForTool, InvokeKind, TypeInv, ToolPlace
  <2>4. CASE RecordResult(r) \/ Close(r)
    BY <2>4, RecordTypes, CloseTypes
  <2> QED
    BY <1>3, <2>1, <2>2, <2>3, <2>4
    DEF RunStep, AskProvider, WaitForProvider, UseResponse, ProviderFailure, ValidateStep,
        AcceptPlan, BeginStep, ExhaustPlan, StopBeforeCall
<1> QED
  BY <1>1, <1>2, <1>3 DEF GovernedNext

\* At first the lock is free and no handler runs.
LEMMA LockInit == GovernedInit => LockInv
  BY ToolAssumption DEF GovernedInit, ToolInit, Idle, LockInv, LockHeld, Locked

\* A run whose call has not changed goes on holding the lock, or not.
LEMMA BystandersLock ==
  ASSUME TypeInv, LockInv, NEW q \in Runs, invocation'[q] = invocation[q],
         \/ UNCHANGED lock
         \/ \E r \in Runs : /\ r # q /\ lock' \in {r, Free}
                            /\ lock = Free \/ lock = r
  PROVE  LockHeld(q)'
  BY ToolAssumption DEF LockInv, LockHeld

\* A handler of another run is awaited as before.
LEMMA BystandersHandler ==
  ASSUME TypeInv, LockInv, NEW r \in Runs, NEW h \in handlers,
         ~ h.abandoned => h.attempt.run # r,
         \A q \in Runs : q # r => invocation'[q] = invocation[q] /\ ended'[q] = ended[q]
  PROVE  Awaited(h)'
  BY DEF LockInv, Awaited, Current, TypeInv, ToolTypes, Handler, Attempt

\* A step of invoke hands the lock over with its handler.
LEMMA InvokeLock ==
  ASSUME TypeInv, LockInv, NEW r \in Runs, invocation[r].step \in Step, InvokeKind(r)
  PROVE  LockInv'
<1>1. /\ ToolTypes
      /\ lock = r <=> invocation[r].at \in Locked
      /\ \A q \in Runs : lock = q <=> invocation[q].at \in Locked
      /\ Free \notin Runs /\ None \notin HandlerEnd
  BY ToolAssumption DEF TypeInv, LockInv, LockHeld
<1>2. \A q \in Runs : q # r => invocation'[q] = invocation[q]
  BY <1>1, HandlerStarts DEF InvokeKind, Finds, AnswersEarly, Starts, GivesUp, Takes, MovesTo
<1>3. CASE Finds(r) \/ AnswersEarly(r)
  <2>1. /\ invocation[r].at \in {"lookup", "locking"} /\ invocation'[r].at \in {"locking", "done"}
        /\ UNCHANGED <<lock, handlers, ended>>
    BY <1>3 DEF Finds, AnswersEarly, MovesTo
  <2>2. \A q \in Runs : LockHeld(q)'
    BY <1>1, <1>2, <2>1, BystandersLock DEF LockHeld, Locked
  <2>3. \A h \in handlers : ~ h.abandoned => h.attempt.run # r
    BY <2>1 DEF LockInv, Awaited
  <2>4. \A h \in handlers : Awaited(h)'
    BY <1>2, <2>1, <2>3, BystandersHandler
  <2> QED
    BY <2>1, <2>2, <2>4 DEF LockInv
<1>4. CASE Starts(r)
  <2>1. /\ MovesTo(r, "waiting", invocation[r].attempts + 1)
        /\ ended' = [ended EXCEPT ![r] = None]
        /\ [attempt |-> Current(r)', abandoned |-> FALSE] \in Handler
        /\ handlers' = handlers \union {[attempt |-> Current(r)', abandoned |-> FALSE]}
        /\ invocation[r].at \in {"locking", "backoff"}
        /\ lock' = r /\ lock \in {r, Free}
    BY <1>1, <1>4, HandlerStarts DEF Starts, Locked
  <2>2. \A q \in Runs : LockHeld(q)'
    BY <1>1, <1>2, <2>1, BystandersLock DEF LockHeld, Locked, MovesTo
  <2>3. \A h \in handlers : ~ h.abandoned => h.attempt.run # r
    BY <2>1 DEF LockInv, Awaited
  <2>4. \A q \in Runs : q # r => ended'[q] = ended[q]
    BY <1>1, <2>1 DEF ToolTypes
  <2>5. \A h \in handlers : Awaited(h)'
    BY <1>2, <2>3, <2>4, BystandersHandler
  <2> DEFINE new == [attempt |-> Current(r)', abandoned |-> FALSE]
  <2>6. new.attempt = Current(r)' /\ new.attempt.run = r /\ ended'[r] = None /\ invocation'[r].at = "waiting"
    BY <1>1, <2>1 DEF Current, ToolTypes, MovesTo
  <2>7. \A h \in handlers' : h \in handlers \/ h = new
    BY <2>1
  <2>8. \A h : h = new => Awaited(h)'
    BY <2>6 DEF Awaited
  <2> QED
    BY <2>2, <2>5, <2>7, <2>8 DEF LockInv
<1>5. CASE GivesUp(r) \/ Takes(r)
  <2>1. /\ invocation[r].at \in Locked /\ lock = r
        /\ \/ invocation'[r].at = "done" /\ lock' = Free
           \/ invocation'[r].at \in {"failed", "backoff"} /\ lock' = lock
        /\ UNCHANGED ended
    BY <1>1, <1>5 DEF GivesUp, Takes, MovesTo, Locked
  <2>2. \A q \in Runs : LockHeld(q)'
    BY <1>1, <1>2, <2>1, BystandersLock DEF LockHeld, Locked
  <2>3. ASSUME NEW h \in handlers', ~ h.abandoned
        PROVE  h \in handlers /\ h.attempt.run # r
    <3>1. CASE handlers' = handlers /\ (invocation[r].at = "waiting" => ended[r] # None)
      BY <2>3, <3>1 DEF LockInv, Awaited
    <3>2. CASE GivenUp(r)
      BY <2>3, <3>2 DEF GivenUp
    <3>3. Takes(r) => ended[r] # None
      BY <1>1 DEF Takes, HandlerEnd
    <3> QED
      BY <1>5, <3>1, <3>2, <3>3 DEF GivesUp, Takes
  <2>4. \A h \in handlers' : Awaited(h)'
    <3>1. ASSUME NEW h \in handlers' PROVE Awaited(h)'
      BY <1>2, <2>1, <2>3, BystandersHandler DEF Awaited
    <3> QED
      BY <3>1
  <2> QED
    BY <2>2, <2>4 DEF LockInv
<1> QED
  BY <1>3, <1>4, <1>5 DEF InvokeKind

\* Two handlers that are awaited by one run are the same.
LEMMA OneAwaited ==
  ASSUME TypeInv, LockInv, NEW g \in handlers, NEW h \in handlers,
         ~ g.abandoned, ~ h.abandoned
  PROVE  g = h
<1>1. /\ g.attempt.run \in Runs /\ h.attempt.run \in Runs
      /\ g \in Handler /\ h \in Handler
  BY DEF TypeInv, ToolTypes, Handler, Attempt
<1>2. lock = g.attempt.run /\ lock = h.attempt.run
  BY <1>1 DEF LockInv, Awaited, LockHeld, Locked
<1>3. g.attempt = h.attempt
  BY <1>2 DEF LockInv, Awaited
<1> QED
  BY <1>1, <1>3 DEF Handler

\* The lock and the awaited handler stay with one call, ...
LEMMA LockStep == TypeInv /\ LockInv /\ [GovernedNext]_governedVars => LockInv'
<1> SUFFICES ASSUME TypeInv, LockInv, [GovernedNext]_governedVars PROVE LockInv'
  OBVIOUS
<1>1. CASE NothingShared
  BY <1>1 DEF NothingShared, LockInv, LockHeld, Awaited, Current
<1>2. ASSUME NEW r \in Runs, invocation[r].step \in Step, InvokeKind(r) PROVE LockInv'
  BY <1>2, InvokeLock
<1>3. ASSUME NEW r \in Runs, Calls(r) \/ Resets(r) PROVE LockInv'
  <2>1. /\ invocation[r].at \in {"idle", "done"} /\ invocation'[r].at \in {"idle", "lookup"}
        /\ UNCHANGED <<lock, handlers>>
        /\ \A q \in Runs : q # r => invocation'[q] = invocation[q] /\ ended'[q] = ended[q]
    BY <1>3 DEF Calls, Resets, TypeInv, ToolTypes
  <2>2. \A q \in Runs : LockHeld(q)'
    BY <2>1, BystandersLock DEF LockInv, LockHeld, Locked
  <2>3. \A h \in handlers : ~ h.abandoned => h.attempt.run # r
    BY <2>1 DEF LockInv, Awaited
  <2>4. \A h \in handlers : Awaited(h)'
    BY <2>1, <2>3, BystandersHandler
  <2> QED
    BY <2>1, <2>2, <2>4 DEF LockInv
<1>4. CASE ClearIdempotency
  BY <1>4 DEF ClearIdempotency, LockInv, LockHeld, Awaited, Current
<1>5. ASSUME NEW h \in handlers, NEW e \in HandlerEnd, HandlerEnds(h, e) PROVE LockInv'
  <2>1. \A q \in Runs : LockHeld(q)'
    BY <1>5 DEF HandlerEnds, LockInv, LockHeld
  <2>2. ASSUME NEW g \in handlers', ~ g.abandoned PROVE Awaited(g)'
    <3>1. g \in handlers /\ g # h /\ UNCHANGED invocation
      BY <1>5, <2>2 DEF HandlerEnds
    <3>2. h.abandoned
      BY <2>2, <3>1, OneAwaited
    <3>3. ended' = ended
      BY <1>5, <3>2 DEF HandlerEnds
    <3> QED
      BY <3>1, <3>3 DEF LockInv, Awaited, Current
  <2>3. \A g \in handlers' : Awaited(g)'
    BY <2>2 DEF Awaited
  <2> QED
    BY <2>1, <2>3 DEF LockInv
<1> QED
  BY <1>1, <1>2, <1>3, <1>4, <1>5, ToolKinds

\* ... always.
LEMMA LockInvariant == GovernedSpec => []LockInv
  BY LockInit, LockStep, GovernedTypeInvariant, PTL DEF GovernedSpec

\* Two handlers run at once only if a caller stopped waiting for one of them:
\* invoke holds the registry's lock from the start of a handler to its end.
THEOREM HandlersAreApart == GovernedSpec => []OverlapOnlyAbandoned
<1>1. TypeInv /\ LockInv => OverlapOnlyAbandoned
  BY OneAwaited DEF OverlapOnlyAbandoned
<1> QED
  BY <1>1, LockInvariant, GovernedTypeInvariant, PTL

-----------------------------------------------------------------------------
(* One key, one answer.                                                     *)

\* At first no result is kept.
LEMMA KeyInit == GovernedInit => KeyInv
  BY DEF GovernedInit, ToolInit, Idle, KeyInv, KeptUnderItsKey, NothingKept, Locked

\* The key of a keyed call is one the registry keeps results under.
LEMMA KeyedCalls ==
  ASSUME NEW s \in Step, s.key # NoKey
  PROVE  KeyOf(s) \in CacheKeys
  BY DEF Step, KeyOf, CacheKeys

\* Whoever holds the lock is in a tool call.
LEMMA LockedStep ==
  ASSUME TypeInv, NEW r \in Runs, invocation[r].at \in Locked
  PROVE  invocation[r].step \in Step
  BY DEF TypeInv, ToolPlace, Locked

\* Only the run that takes a result writes one.
LEMMA TakenKey ==
  ASSUME TypeInv, LockInv, KeyInv, NEW r \in Runs, invocation[r].step \in Step, Takes(r)
  PROVE  KeyInv'
<1> DEFINE s == invocation[r].step
<1>1. /\ kept \in [CacheKeys -> Kept \union {None}]
      /\ None \notin Kept
      /\ Current(r) \in Attempt /\ Current(r).step = s
      /\ invocation[r].at \in Locked
      /\ \A q \in Runs : q # r => invocation[q].at \notin Locked
      /\ \A q \in Runs : q # r => invocation'[q] = invocation[q]
      /\ invocation'[r].at = "done"
  BY CurrentTyped, ToolAssumption
  DEF TypeInv, ToolTypes, LockInv, LockHeld, Locked, Takes, MovesTo
<1>2. \A q \in Runs : NothingKept(q)'
  BY <1>1 DEF NothingKept, Locked
<1>3. CASE s.key = NoKey
  <2>1. UNCHANGED <<kept, answers>>
    BY <1>3 DEF Takes, Keep
  <2> QED
    BY <1>2, <2>1 DEF KeyInv, KeptUnderItsKey, AnswerKept
<1>4. CASE s.key # NoKey
  <2>1. PICK k \in CacheKeys : k = KeyOf(s) /\ kept[k] = None
    BY <1>1, <1>4, KeyedCalls DEF KeyInv, NothingKept
  <2> DEFINE e == [args |-> s.args, result |-> Current(r)]
  <2>2. e \in Kept /\ e # None /\ e.result = Current(r)
    BY <1>1 DEF Kept, Step
  <2>3. kept' = [kept EXCEPT ![k] = e] /\ answers' = answers \union {Current(r)}
    BY <1>4, <2>1 DEF Takes, Keep
  <2>4. KeyOf(Current(r).step) = k
    BY <1>1, <2>1
  <2> HIDE DEF e
  <2>5. kept'[k] = e /\ \A j \in CacheKeys : j # k => kept'[j] = kept[j]
    BY <1>1, <2>1, <2>3
  <2>6. \A j \in CacheKeys : KeptUnderItsKey(j)'
    <3>1. KeptUnderItsKey(k)'
      BY <2>2, <2>4, <2>5 DEF KeptUnderItsKey
    <3>2. ASSUME NEW j \in CacheKeys, j # k PROVE KeptUnderItsKey(j)'
      BY <2>5, <3>2 DEF KeyInv, KeptUnderItsKey
    <3> QED
      BY <3>1, <3>2
  <2>7. ASSUME NEW a \in answers PROVE AnswerKept(a)'
    BY <2>1, <2>5 DEF KeyInv, AnswerKept
  <2>8. \A a : a = Current(r) => AnswerKept(a)'
    BY <2>1, <2>2, <2>4, <2>5 DEF AnswerKept
  <2> QED
    BY <1>2, <2>3, <2>6, <2>7, <2>8 DEF KeyInv
<1> QED
  BY <1>3, <1>4

\* What is kept under a key is what its calls have been answered, ...
LEMMA KeyStep == TypeInv /\ LockInv /\ KeyInv /\ [GovernedNext]_governedVars => KeyInv'
<1> SUFFICES ASSUME TypeInv, LockInv, KeyInv, [GovernedNext]_governedVars PROVE KeyInv'
  OBVIOUS
<1>1. CASE NothingShared \/ \E h \in handlers, e \in HandlerEnd : HandlerEnds(h, e)
  BY <1>1 DEF NothingShared, HandlerEnds, KeyInv, KeptUnderItsKey, NothingKept, AnswerKept
<1>2. ASSUME NEW r \in Runs, Calls(r) \/ Resets(r) PROVE KeyInv'
  <2>1. /\ invocation'[r].at \notin Locked
        /\ \A q \in Runs : q # r => invocation'[q] = invocation[q]
        /\ UNCHANGED <<kept, answers>>
    BY <1>2 DEF Calls, Resets, Locked
  <2> QED
    BY <2>1 DEF KeyInv, KeptUnderItsKey, NothingKept, AnswerKept
<1>3. CASE ClearIdempotency
  <2>1. UNCHANGED invocation /\ answers' = {} /\ \A k \in CacheKeys : kept'[k] = None
    BY <1>3 DEF ClearIdempotency
  <2>2. \A r \in Runs : NothingKept(r)'
    BY <2>1, LockedStep, KeyedCalls DEF NothingKept
  <2> QED
    BY <2>1, <2>2 DEF KeyInv, KeptUnderItsKey
<1>4. ASSUME NEW r \in Runs, invocation[r].step \in Step, InvokeKind(r) PROVE KeyInv'
  <2>1. CASE Finds(r) \/ GivesUp(r)
    <3>1. /\ invocation'[r].at \in Locked => invocation[r].at \in Locked
          /\ invocation'[r].step = invocation[r].step
          /\ \A q \in Runs : q # r => invocation'[q] = invocation[q]
          /\ UNCHANGED <<kept, answers>>
      BY <2>1 DEF Finds, GivesUp, MovesTo, Locked
    <3> QED
      BY <3>1 DEF KeyInv, KeptUnderItsKey, NothingKept, AnswerKept
  <2>2. CASE Starts(r)
    <3>1. /\ invocation'[r].step = invocation[r].step
          /\ \A q \in Runs : q # r => invocation'[q] = invocation[q]
          /\ UNCHANGED <<kept, answers>>
      BY <1>4, <2>2, HandlerStarts DEF Starts, TypeInv, MovesTo
    <3>2. NothingKept(r)'
      BY <2>2, <3>1 DEF Starts, KeyInv, NothingKept, Locked
    <3> QED
      BY <3>1, <3>2 DEF KeyInv, KeptUnderItsKey, NothingKept, AnswerKept
  <2>3. CASE AnswersEarly(r)
    <3> DEFINE k == KeyOf(invocation[r].step)
    <3>1. /\ invocation'[r].at \notin Locked
          /\ \A q \in Runs : q # r => invocation'[q] = invocation[q]
          /\ UNCHANGED kept
          /\ \/ UNCHANGED answers
             \/ k \in CacheKeys /\ kept[k] # None /\ answers' = answers \union {kept[k].result}
      BY <1>4, <2>3, KeyedCalls DEF AnswersEarly, MovesTo, Locked
    <3> HIDE DEF k
    <3>2. \A a \in answers' : AnswerKept(a)'
      BY <3>1 DEF KeyInv, KeptUnderItsKey, AnswerKept
    <3> QED
      BY <3>1, <3>2 DEF KeyInv, KeptUnderItsKey, NothingKept
  <2> QED
    BY <1>4, <2>1, <2>2, <2>3, TakenKey DEF InvokeKind
<1> QED
  BY <1>1, <1>2, <1>3, <1>4, ToolKinds

\* ... always.
LEMMA KeyInvariant == GovernedSpec => []KeyInv
  BY KeyInit, KeyStep, LockInvariant, GovernedTypeInvariant, PTL DEF GovernedSpec

\* All calls under one key are answered with one attempt's result: the look at the
\* kept results and the keeping of a new one are under the same lock.
THEOREM OneAnswerPerKey == GovernedSpec => []OneKeyOneAnswer
<1>1. KeyInv => OneKeyOneAnswer
  BY DEF KeyInv, AnswerKept, OneKeyOneAnswer
<1> QED
  BY <1>1, KeyInvariant, PTL

-----------------------------------------------------------------------------
(* The budget of retries.                                                   *)

\* At first no attempt is counted.
LEMMA CountInit == GovernedInit => CountInv
  BY DEF GovernedInit, ToolInit, Idle, CountInv, Counted, Locked

\* A call has made the attempts its place says, ...
LEMMA CountStep == TypeInv /\ CountInv /\ [GovernedNext]_governedVars => CountInv'
<1> SUFFICES ASSUME TypeInv, CountInv, [GovernedNext]_governedVars PROVE CountInv'
  OBVIOUS
<1>1. CASE \/ NothingShared \/ ClearIdempotency
           \/ \E h \in handlers, e \in HandlerEnd : HandlerEnds(h, e)
  BY <1>1 DEF NothingShared, ClearIdempotency, HandlerEnds, CountInv, Counted
<1>2. ASSUME NEW r \in Runs, Calls(r) \/ Resets(r) PROVE CountInv'
  BY <1>2 DEF Calls, Resets, CountInv, Counted, Locked
<1>3. ASSUME NEW r \in Runs, invocation[r].step \in Step, InvokeKind(r) PROVE CountInv'
  <2>1. CASE Finds(r) \/ AnswersEarly(r) \/ Takes(r)
    BY <2>1 DEF Finds, AnswersEarly, Takes, MovesTo, Attempts, CountInv, Counted, Locked
  <2>2. CASE GivesUp(r)
    <3>1. \A h \in handlers' : h.attempt.number > 1 => MayRepeat(h.attempt.step)
      BY <2>2 DEF GivesUp, GivenUp, CountInv
    <3>2. /\ \A q \in Runs : q # r => invocation'[q] = invocation[q]
          /\ Counted(r)'
      BY <2>2 DEF GivesUp, MovesTo, Attempts, CountInv, Counted, Locked
    <3> QED
      BY <3>1, <3>2 DEF CountInv, Counted
  <2>3. CASE Starts(r)
    <3> DEFINE new == [attempt |-> Current(r)', abandoned |-> FALSE]
    <3>1. /\ MovesTo(r, "waiting", invocation[r].attempts + 1)
          /\ handlers' = handlers \union {new}
          /\ Current(r)'.step = invocation[r].step
          /\ Current(r)'.number = invocation[r].attempts + 1
          /\ invocation[r].attempts \in Nat
          /\ invocation[r].at \in {"locking", "backoff"}
      BY <1>3, <2>3, HandlerStarts, InvocationFields DEF Starts, TypeInv
    <3>2. new.attempt = Current(r)'
      OBVIOUS
    <3>3. invocation[r].attempts + 1 > 1 => MayRepeat(invocation[r].step)
      BY <3>1 DEF CountInv, Counted
    <3>4. \A h \in handlers' : h.attempt.number > 1 => MayRepeat(h.attempt.step)
      <4> HIDE DEF new
      <4> QED
        BY <3>1, <3>2, <3>3 DEF CountInv
    <3>5. \A q \in Runs : Counted(q)'
      BY <3>1 DEF CountInv, Counted, MovesTo, Locked
    <3> QED
      BY <3>4, <3>5 DEF CountInv
  <2> QED
    BY <1>3, <2>1, <2>2, <2>3 DEF InvokeKind
<1> QED
  BY <1>1, <1>2, <1>3, ToolKinds

\* ... always.
LEMMA CountInvariant == GovernedSpec => []CountInv
  BY CountInit, CountStep, GovernedTypeInvariant, PTL DEF GovernedSpec

\* At first the retry budget is whole.
LEMMA BudgetInit == GovernedInit => BudgetInv
<1> SUFFICES ASSUME GovernedInit, NEW r \in Runs, MaxRetries # NoLimit
             PROVE  /\ retriesLeft[r] \in Nat
                    /\ started[r].attempts + retriesLeft[r] + Due(provider[r].at)
                         + Due(invocation[r].at) <= started[r].calls + MaxRetries
  BY DEF BudgetInv, PaidFor
<1>1. retriesLeft[r] = MaxRetries /\ MaxRetries \in Nat
  BY ControlAssumption DEF GovernedInit, ControlInit
<1>2. Due(provider[r].at) = 0 /\ Due(invocation[r].at) = 0
  BY DEF GovernedInit, ProviderInit, ProviderIdle, ToolInit, Idle, Due
<1>3. started[r].attempts = 0 /\ started[r].calls = 0
  BY DEF GovernedInit
<1> QED
  BY <1>1, <1>2, <1>3

\* What the budget counts, and what a step may do to it.
Retried(r) == started[r].attempts + Due(provider[r].at) + Due(invocation[r].at)

\* The numbers the budget is about.
LEMMA PaidTypes ==
  ASSUME TypeInv, NEW r \in Runs
  PROVE  /\ started[r].attempts \in Nat /\ started[r].calls \in Nat
         /\ Due(provider[r].at) \in 0 .. 1 /\ Due(invocation[r].at) \in 0 .. 1
  BY DEF TypeInv, RunTypes, Due

\* A step that begins no retry, or a call with its first attempt, costs nothing.
LEMMA FreeSteps ==
  ASSUME TypeInv, TypeInv', BudgetInv, NEW r \in Runs, retriesLeft'[r] = retriesLeft[r],
         \/ Retried(r)' <= Retried(r) /\ started'[r].calls = started[r].calls
         \/ Retried(r)' <= Retried(r) + 1 /\ started'[r].calls = started[r].calls + 1
  PROVE  PaidFor(r)'
<1>1. CASE MaxRetries = NoLimit
  BY <1>1 DEF PaidFor
<1>2. CASE MaxRetries # NoLimit
  <2>1. /\ started'[r].attempts \in Nat /\ started'[r].calls \in Nat
        /\ Due(provider'[r].at) \in 0 .. 1 /\ Due(invocation'[r].at) \in 0 .. 1
    BY DEF TypeInv, RunTypes, Due
  <2>2. /\ MaxRetries \in Nat /\ retriesLeft[r] \in Nat
        /\ started[r].attempts + retriesLeft[r] + Due(provider[r].at) + Due(invocation[r].at)
             <= started[r].calls + MaxRetries
    BY <1>2, ControlAssumption DEF BudgetInv, PaidFor
  <2>3. /\ Retried(r) = started[r].attempts + Due(provider[r].at) + Due(invocation[r].at)
        /\ Retried(r)' = started'[r].attempts + Due(provider'[r].at) + Due(invocation'[r].at)
    BY DEF Retried, Due
  <2>4. started'[r].attempts + retriesLeft[r] + Due(provider'[r].at) + Due(invocation'[r].at)
             <= started'[r].calls + MaxRetries
    BY <2>1, <2>2, <2>3, PaidTypes
  <2> QED
    BY <2>2, <2>4 DEF PaidFor, Due
<1> QED
  BY <1>1, <1>2

\* A retry is spent before it is due.
LEMMA PaidRetries ==
  ASSUME TypeInv, BudgetInv, NEW r \in Runs, SpendRetry(r),
         Retried(r)' = Retried(r) + 1, UNCHANGED started, TypeInv'
  PROVE  PaidFor(r)'
<1>1. CASE MaxRetries = NoLimit
  BY <1>1 DEF PaidFor
<1>2. CASE MaxRetries # NoLimit
  <2>1. /\ started'[r].attempts \in Nat /\ started'[r].calls = started[r].calls
        /\ Due(provider'[r].at) \in 0 .. 1 /\ Due(invocation'[r].at) \in 0 .. 1
    BY DEF TypeInv, RunTypes, Due
  <2>2. /\ MaxRetries \in Nat /\ retriesLeft[r] \in Nat
        /\ started[r].attempts + retriesLeft[r] + Due(provider[r].at) + Due(invocation[r].at)
             <= started[r].calls + MaxRetries
    BY <1>2, ControlAssumption DEF BudgetInv, PaidFor
  <2>3. /\ Retried(r) = started[r].attempts + Due(provider[r].at) + Due(invocation[r].at)
        /\ Retried(r)' = started'[r].attempts + Due(provider'[r].at) + Due(invocation'[r].at)
    BY DEF Retried, Due
  <2>4. retriesLeft[r] > 0 /\ retriesLeft'[r] = retriesLeft[r] - 1
    BY <2>2, ControlAssumption DEF SpendRetry, MayRetry, TypeInv, ControlTypeOK
  <2>5. started'[r].attempts + retriesLeft'[r] + Due(provider'[r].at) + Due(invocation'[r].at)
             <= started'[r].calls + MaxRetries
    BY <2>1, <2>2, <2>3, <2>4, PaidTypes
  <2> QED
    BY <2>2, <2>4, <2>5 DEF PaidFor, Due
<1> QED
  BY <1>1, <1>2

\* The provider calls of a run are paid for, ...
LEMMA ProviderPaid ==
  ASSUME TypeInv, TypeInv', BudgetInv, NEW r \in Runs,
         AskProvider(r) \/ WaitForProvider(r) \/ UseResponse(r) \/ ProviderFailure(r)
           \/ StopBeforeCall(r)
  PROVE  PaidFor(r)'
<1>1. /\ invocation' = invocation
      /\ RunTypes
      /\ provider \in [Runs -> ProviderCall]
      /\ started[r].attempts \in Nat
      /\ Due(invocation[r].at) \in 0 .. 1
  BY PaidTypes
  DEF AskProvider, WaitForProvider, UseResponse, ProviderFailure, StopBeforeCall, toolVars,
      TypeInv
<1>2. CASE AskProvider(r)
  <2>1. /\ provider[r].at = "idle" /\ provider'[r].at = "waiting"
        /\ retriesLeft' = retriesLeft
        /\ BeginsCall(r)
    BY <1>1, <1>2 DEF AskProvider, StartCall, controlVars
  <2>2. Due(provider[r].at) = 0 /\ Due(provider'[r].at) = 0
    BY <2>1 DEF Due
  <2>3. Retried(r)' = Retried(r) + 1 /\ started'[r].calls = started[r].calls + 1
    BY <1>1, <2>1, <2>2, Begins DEF Retried, Due
  <2> QED
    BY <1>1, <2>1, <2>2, <2>3, FreeSteps DEF Retried
<1>3. CASE WaitForProvider(r)
  <2>1. ProviderMoves(r)
    BY <1>3, ProviderSteps DEF WaitForProvider
  <2>2. /\ provider[r].attempts \in Nat
        /\ IF provider'[r].attempts > provider[r].attempts THEN BeginsAttempt(r) ELSE UNCHANGED started
    BY <1>1, <1>3 DEF WaitForProvider, ProviderCall
  <2>3. CASE /\ UNCHANGED controlVars
             /\ provider[r].at # "backoff" /\ provider'[r].at # "backoff"
             /\ provider'[r].attempts = provider[r].attempts
    <3>1. UNCHANGED started /\ Due(provider[r].at) = 0 /\ Due(provider'[r].at) = 0
      BY <2>2, <2>3 DEF Due
    <3>2. Retried(r)' <= Retried(r)
      BY <1>1, <3>1 DEF Retried, Due
    <3> QED
      BY <2>3, <3>1, <3>2, FreeSteps DEF controlVars
  <2>4. CASE /\ SpendRetry(r)
             /\ provider[r].at # "backoff" /\ provider'[r].at = "backoff"
             /\ provider'[r].attempts = provider[r].attempts
    <3>1. UNCHANGED started /\ Due(provider[r].at) = 0 /\ Due(provider'[r].at) = 1
      BY <2>2, <2>4 DEF Due
    <3>2. Retried(r)' = Retried(r) + 1
      BY <1>1, <3>1 DEF Retried, Due
    <3> QED
      BY <2>4, <3>1, <3>2, PaidRetries
  <2>5. CASE /\ UNCHANGED controlVars
             /\ provider[r].at = "backoff" /\ provider'[r].at # "backoff"
             /\ provider'[r].attempts \in {provider[r].attempts, provider[r].attempts + 1}
    <3>1. Due(provider[r].at) = 1 /\ Due(provider'[r].at) = 0
      BY <2>5 DEF Due
    <3>2. /\ started'[r].calls = started[r].calls
          /\ started'[r].attempts \in {started[r].attempts, started[r].attempts + 1}
      BY <1>1, <2>2, Begins
    <3>3. Retried(r)' <= Retried(r)
      BY <1>1, <3>1, <3>2 DEF Retried, Due
    <3> QED
      BY <2>5, <3>2, <3>3, FreeSteps DEF controlVars
  <2> QED
    BY <2>1, <2>3, <2>4, <2>5 DEF ProviderMoves
<1>4. CASE UseResponse(r) \/ ProviderFailure(r) \/ StopBeforeCall(r)
  <2>1. /\ provider'[r].at = "idle"
        /\ UNCHANGED <<retriesLeft, started>>
    BY <1>1, <1>4
    DEF UseResponse, ProviderFailure, StopBeforeCall, CountTokens, controlVars, ProviderIdle
  <2>2. Retried(r)' <= Retried(r)
    BY <1>1, <2>1 DEF Retried, Due
  <2> QED
    BY <2>1, <2>2, FreeSteps
<1> QED
  BY <1>2, <1>3, <1>4

\* ... its tool calls are ...
LEMMA InvokePaid ==
  ASSUME TypeInv, TypeInv', CountInv, BudgetInv, NEW r \in Runs, WaitForTool(r)
  PROVE  PaidFor(r)'
<1>1. /\ UNCHANGED provider
      /\ invocation[r].step \in Step
      /\ InvokeKind(r)
      /\ RunTypes /\ ToolTypes
      /\ started[r].attempts \in Nat
      /\ Due(provider[r].at) \in 0 .. 1 /\ Due(invocation[r].at) \in 0 .. 1
      /\ invocation[r].attempts \in Nat
  BY InvokeKinds, PaidTypes, InvocationFields
  DEF WaitForTool, InvokeKind, TypeInv, ToolPlace
<1>2. ASSUME invocation'[r].attempts = invocation[r].attempts, invocation'[r].at # "backoff",
             UNCHANGED controlVars
      PROVE  PaidFor(r)'
  <2>1. UNCHANGED <<started, retriesLeft>>
    BY <1>2 DEF WaitForTool, controlVars
  <2>2. Retried(r)' <= Retried(r)
    BY <1>1, <1>2, <2>1 DEF Retried, Due
  <2> QED
    BY <2>1, <2>2, FreeSteps
<1>3. CASE Finds(r) \/ AnswersEarly(r) \/ Takes(r)
  BY <1>2, <1>3 DEF Finds, AnswersEarly, Takes, MovesTo, Attempts
<1>4. CASE GivesUp(r)
  <2>1. CASE MovesTo(r, "backoff", Attempts(r)) /\ invocation[r].at = "failed" /\ SpendRetry(r)
    <3>1. UNCHANGED started
      BY <2>1 DEF WaitForTool, MovesTo, Attempts
    <3>2. Retried(r)' = Retried(r) + 1
      BY <1>1, <2>1, <3>1 DEF Retried, Due, MovesTo
    <3> QED
      BY <2>1, <3>1, <3>2, PaidRetries
  <2> QED
    BY <1>2, <1>4, <2>1 DEF GivesUp, MovesTo, Attempts
<1>5. CASE Starts(r)
  <2>1. /\ invocation'[r].at = "waiting"
        /\ invocation'[r].attempts = invocation[r].attempts + 1
        /\ UNCHANGED retriesLeft
    BY <1>1, <1>5, HandlerStarts DEF Starts, MovesTo, controlVars
  <2>2. CASE invocation[r].at = "locking"
    <3>1. BeginsCall(r)
      BY <1>1, <2>1, <2>2 DEF WaitForTool, CountInv, Counted
    <3>2. Retried(r)' <= Retried(r) + 1 /\ started'[r].calls = started[r].calls + 1
      BY <1>1, <2>1, <3>1, Begins DEF Retried, Due
    <3> QED
      BY <2>1, <3>2, FreeSteps
  <2>3. CASE invocation[r].at = "backoff"
    <3>1. BeginsAttempt(r)
      BY <1>1, <2>1, <2>3 DEF WaitForTool, CountInv, Counted, Locked
    <3>2. Retried(r)' <= Retried(r) /\ started'[r].calls = started[r].calls
      BY <1>1, <2>1, <2>3, <3>1, Begins DEF Retried, Due
    <3> QED
      BY <2>1, <3>2, FreeSteps
  <2> QED
    BY <1>5, <2>2, <2>3 DEF Starts
<1> QED
  BY <1>1, <1>3, <1>4, <1>5 DEF InvokeKind

\* ... and the other steps begin no attempt.
LEMMA OtherPaid ==
  ASSUME TypeInv, TypeInv', BudgetInv, NEW r \in Runs,
         ValidateStep(r) \/ AcceptPlan(r) \/ BeginStep(r) \/ ExhaustPlan(r) \/ FetchTool(r)
           \/ RecordResult(r)
  PROVE  PaidFor(r)'
<1>1. UNCHANGED <<provider, started, retriesLeft>>
  BY DEF ValidateStep, AcceptPlan, BeginStep, ExhaustPlan, FetchTool, RecordResult, CountToolCall,
         controlVars
<1>2. invocation'[r] = invocation[r] \/ invocation'[r].at # "backoff"
  BY FetchTypes, RecordTypes
  DEF ValidateStep, AcceptPlan, BeginStep, ExhaustPlan, toolVars, Calls, Resets
<1>3. Retried(r)' <= Retried(r)
  BY <1>1, <1>2, PaidTypes DEF Retried, Due
<1> QED
  BY <1>1, <1>3, FreeSteps

\* A run that closes gives its budget back.
LEMMA ClosePaid ==
  ASSUME TypeInv, NEW r \in Runs, Close(r)
  PROVE  PaidFor(r)'
<1>1. started'[r].attempts = 0 /\ started'[r].calls = 0
  BY DEF Close, TypeInv, RunTypes
<1>2. retriesLeft'[r] = MaxRetries
  BY DEF Close, Discard, TypeInv, ControlTypeOK
<1>3. provider'[r].at = "idle" /\ invocation'[r].at = "idle"
  BY DEF Close, Idle, TypeInv, ProviderPlace, ToolTypes
<1>4. Due(provider'[r].at) = 0 /\ Due(invocation'[r].at) = 0
  BY <1>3 DEF Due
<1> QED
  BY <1>1, <1>2, <1>3, <1>4, ControlAssumption DEF PaidFor, Due

\* Every attempt beyond the first of its call is paid for at once, ...
LEMMA BudgetStep ==
  TypeInv /\ TypeInv' /\ CountInv /\ BudgetInv /\ [GovernedNext]_governedVars => BudgetInv'
<1> SUFFICES ASSUME TypeInv, TypeInv', CountInv, BudgetInv, [GovernedNext]_governedVars
             PROVE  BudgetInv'
  OBVIOUS
<1>1. ASSUME NEW q \in Runs, View(q)' = View(q) PROVE PaidFor(q)'
  BY <1>1 DEF BudgetInv, PaidFor, View
<1>2. CASE UNCHANGED governedVars
  <2>1. \A q \in Runs : View(q)' = View(q)
    BY <1>2 DEF governedVars, runVars, toolVars, controlVars, View
  <2> QED
    BY <1>1, <2>1 DEF BudgetInv
<1>3. CASE Environment
  BY <1>1, <1>3, EnvironmentTypes DEF BudgetInv
<1>4. ASSUME NEW r \in Runs, RunStep(r) PROVE BudgetInv'
  <2>1. PaidFor(r)'
    BY <1>4, ProviderPaid, InvokePaid, OtherPaid, ClosePaid DEF RunStep
  <2> QED
    BY <1>1, <1>4, <2>1, RunTypesStep DEF BudgetInv
<1> QED
  BY <1>2, <1>3, <1>4 DEF GovernedNext

\* ... so all of them always are.
LEMMA BudgetInvariant == GovernedSpec => []BudgetInv
  BY BudgetInit, BudgetStep, CountInvariant, GovernedTypeInvariant, PTL DEF GovernedSpec

\* Provider calls and tool calls share one budget: a retry is taken from it before
\* it begins, and a write without a key gets none.
THEOREM RetriesArePaid == GovernedSpec => []RetriesWithinBudget
<1>1. TypeInv /\ CountInv /\ BudgetInv => RetriesWithinBudget
  <2> SUFFICES ASSUME TypeInv, CountInv, BudgetInv PROVE RetriesWithinBudget
    OBVIOUS
  <2>1. ASSUME NEW r \in Runs PROVE ~ Exceeds(started[r].attempts - started[r].calls, MaxRetries)
    <3>1. CASE MaxRetries = NoLimit
      BY <3>1 DEF Exceeds
    <3>2. CASE MaxRetries # NoLimit
      <4>1. MaxRetries \in Nat
        BY <3>2, ControlAssumption
      <4> QED
        BY <3>2, <4>1, PaidTypes DEF Exceeds, BudgetInv, PaidFor
    <3> QED
      BY <3>1, <3>2
  <2> QED
    BY <2>1 DEF CountInv, MayRepeat, RetriesWithinBudget
<1> QED
  BY <1>1, CountInvariant, BudgetInvariant, GovernedTypeInvariant, PTL

=============================================================================
