---------------------------- MODULE AgentRuntime ----------------------------
(***************************************************************************)
(* runtime/execution.py, AgentRuntime: calls of execute and resume over one *)
(* state store and one approval broker.  A call is a process; a step of it  *)
(* is the code between two calls of the store, the broker or a handler, or  *)
(* between two uses of the runtime's own locked tables.                     *)
(*                                                                          *)
(* A plan is a sequence of actions; an action stands for the exact digest   *)
(* of a tool call, and the gated ones need an approval.  What the provider, *)
(* the policies and the tools answer is left to chance: a run may end early *)
(* in any of EarlyOutcomes, a finished plan in any of Finals.  Faults names *)
(* what else may happen: "overlap" (several calls for one execution at the  *)
(* same time), "interrupt" (cancellation, deadline or budget), "withdraw"   *)
(* (a tool is suspended between the validation of a plan and its step),     *)
(* "crash" (the process restarts; store and broker are durable).            *)
(***************************************************************************)
EXTENDS Naturals, Sequences

CONSTANTS Executions, StateKeys, Actions,
          ExecuteCalls, ResumeCalls,
          ExecutionOf,     \* the execution id of each call
          StateOf,         \* the state key of each execution
          Plan,            \* the provider's plan for each execution
          Gated,           \* the actions that require approval
          Evidence,        \* where resumes may take their decision from
          Reviews,         \* what reviewers may decide
          EarlyOutcomes, Finals, Faults,
          ApprovalExpiry,  \* approval_expiry_seconds, or None
          MaxTime,         \* bound of the clock
          None,            \* Python's None
          Raised           \* the result of a call that an exception left

Calls == ExecuteCalls \union ResumeCalls

\* OutcomeStatus; "conflict" is FAILED with the error code state_conflict.
Outcomes == {"completed", "partial", "needs_input", "refused", "escalated", "failed",
             "timed_out", "cancelled", "conflict"}

ASSUME RuntimeAssumption ==
  /\ ExecuteCalls \intersect ResumeCalls = {}
  /\ ExecutionOf \in [Calls -> Executions]
  /\ StateOf \in [Executions -> StateKeys]
  /\ Plan \in [Executions -> Seq(Actions)]
  /\ Gated \subseteq Actions
  /\ Evidence \subseteq {"broker", "approved", "stale"}
  /\ Reviews \subseteq {"approved", "rejected", "request_changes", "expired"}
  /\ EarlyOutcomes \union Finals \subseteq Outcomes
  /\ Faults \subseteq {"overlap", "interrupt", "withdraw", "crash"}
  /\ ApprovalExpiry \in (Nat \ {0}) \union {None}
  /\ MaxTime \in Nat

\* A request id: the call that asked and the step it asked for.
Requests == {<<c, i>> : c \in Calls, i \in UNION {1 .. Len(Plan[x]) : x \in Executions}}

\* _PendingApproval and ExecutionCheckpoint: what a resume needs to go on.
Pending ==
  [request  : Requests,
   at       : Nat \ {0},       \* the step the run paused at
   approved : SUBSET Actions,  \* approved_action_digests so far
   outcome  : Outcomes]        \* what the pausing call was told

VARIABLES
  states,                             \* StateStore
  requests, decisions, consumed, now, \* ApprovalBroker
  pending,   \* _pending_approvals
  used,      \* _consumed_approval_requests
  traces,    \* executions with a finished trace, _traces
  active,    \* _active: the call that registered last for an execution
  pc,        \* where each call is
  at,        \* its next step
  approved,  \* its approved_action_digests
  outcome,   \* the outcome it has decided on
  pausing,   \* whether it stopped at a gate
  copy,      \* the state it has read
  held,      \* the pending approval a resume works on
  merged,    \* the next one, whose checkpoint it rewrites
  called,    \* when each resume was called, and with which evidence
  handled,   \* history: the handler calls of each execution, as <<call, step>>
  result     \* what each call has returned

brokerVars == <<requests, decisions, consumed, now>>
tableVars  == <<pending, used, traces, active>>
localVars  == <<at, approved, outcome, pausing, copy, held, merged, called>>
vars == <<states, brokerVars, tableVars, localVars, pc, handled, result>>

Principal == "principal"

Store == INSTANCE StateStore
           WITH Owners <- {Principal}, AgentVersions <- {"1"},
                Data <- Pending \union {None}, NewData <- None,
                NoState <- None, NoExecution <- None, NoVersion <- None

Broker == INSTANCE ApprovalBroker WITH RequestIds <- Requests, clock <- now

\* None and Raised are no values of the program's data.
ASSUME NoneAssumption ==
  /\ None \notin Store!State \union Pending \union Calls \union Executions \union Outcomes
  /\ None \notin [time : Nat, evidence : Evidence]
  /\ Raised \notin Outcomes
  /\ Broker!BrokerAssumption

-----------------------------------------------------------------------------

Execution(c) == ExecutionOf[c]
StateKey(c)  == StateOf[ExecutionOf[c]]

\* The row find_execution returns for the execution of c, if there is one.
Row(c) == states[StateKey(c)]
HasRow(c) == Store!Newest(Principal, Execution(c)) # {}

InFlight(c) == pc[c] \notin {"idle", "done", "crashed"}

\* Unless calls may overlap, the application makes one at a time per execution.
MayStart(c) ==
  /\ pc[c] = "idle"
  /\ "overlap" \in Faults \/ \A d \in Calls : Execution(d) = Execution(c) => ~ InFlight(d)

Goto(c, to) == pc' = [pc EXCEPT ![c] = to]

Answer(c, r) == Goto(c, "done") /\ result' = [result EXCEPT ![c] = r]

\* The run ends with outcome o; _finish comes next.
Decided(c, o) ==
  /\ Goto(c, "finish")
  /\ outcome' = [outcome EXCEPT ![c] = o]

\* An exception leaves _execute: a resume puts its pending approval back,
\* whatever another call has put there meanwhile.
Rearmed(c) ==
  IF c \in ResumeCalls THEN [pending EXCEPT ![Execution(c)] = held[c]] ELSE pending

Unregistered(c) == [active EXCEPT ![Execution(c)] = None]

-----------------------------------------------------------------------------
(* execute: the way in *)

\* An execution id cannot be reused: first the traces ...
CheckTraces(c) ==
  /\ c \in ExecuteCalls
  /\ MayStart(c)
  /\ IF Execution(c) \in traces
     THEN Answer(c, Raised)
     ELSE Goto(c, "lookup") /\ UNCHANGED result
  /\ UNCHANGED <<states, brokerVars, tableVars, localVars, handled>>

\* ... then the store.
CheckStore(c) ==
  /\ pc[c] = "lookup"
  /\ IF HasRow(c)
     THEN Answer(c, Raised)
     ELSE Goto(c, "open") /\ UNCHANGED result
  /\ UNCHANGED <<states, brokerVars, tableVars, localVars, handled>>

OpenState(c, to) ==
  /\ Store!GetOrCreate(StateKey(c), Principal, "1")
  /\ copy' = [copy EXCEPT ![c] = Store!Opened(StateKey(c), Principal, "1")]
  /\ Goto(c, to)
  /\ UNCHANGED <<brokerVars, tableVars, at, approved, outcome, pausing, held, merged, called,
                 handled, result>>

Open(c) == pc[c] = "open" /\ OpenState(c, "admit")

\* A pending approval is only resumed, never executed; else the call registers.
Admit(c) ==
  /\ pc[c] = "admit"
  /\ IF pending[Execution(c)] # None
     THEN Answer(c, Raised) /\ pending' = Rearmed(c) /\ UNCHANGED active
     ELSE /\ Goto(c, "plan")
          /\ active' = [active EXCEPT ![Execution(c)] = c]
          /\ UNCHANGED <<pending, result>>
  /\ UNCHANGED <<states, brokerVars, used, traces, localVars, handled>>

\* The provider's plan, or the stored one of a resume, passes _validate_plan.
AcceptPlan(c) ==
  /\ pc[c] = "plan"
  /\ Goto(c, "step")
  /\ UNCHANGED <<states, brokerVars, tableVars, localVars, handled, result>>

\* The safety policy refuses the input of a new execution; no state is saved.
RefuseInput(c) ==
  /\ pc[c] = "plan"
  /\ c \in ExecuteCalls
  /\ "refused" \in EarlyOutcomes
  /\ outcome' = [outcome EXCEPT ![c] = "refused"]
  /\ traces' = traces \union {Execution(c)}
  /\ Goto(c, "leave")
  /\ UNCHANGED <<states, brokerVars, pending, used, active, at, approved, pausing, copy, held,
                 merged, called, handled, result>>

\* The rest of a run that ends early in outcome o: no further step runs.
EndsAs(c, o) ==
  /\ Decided(c, o)
  /\ UNCHANGED <<states, brokerVars, tableVars, at, approved, pausing, copy, held, merged,
                 called, handled, result>>

\* _provider_failure: a new execution asks for a plan, every run for a composition.
ProviderFails(c) ==
  /\ pc[c] = "compose" \/ (pc[c] = "plan" /\ c \in ExecuteCalls)
  /\ \E o \in EarlyOutcomes \intersect {"timed_out", "failed"} : EndsAs(c, o)

\* The plan is refused, or has no step.
RefusePlan(c) ==
  /\ pc[c] = "plan"
  /\ \E o \in EarlyOutcomes \intersect {"refused", "needs_input"} : EndsAs(c, o)

\* control.check or a budget stops the run.  _control_failure closes whatever
\* call is registered for the execution, with that call's state, ...
Interrupt(c) ==
  /\ "interrupt" \in Faults
  /\ pc[c] \in {"plan", "step", "compose"}
  /\ active[Execution(c)] # None
  /\ \E o \in {"timed_out", "cancelled", "failed"} : Decided(c, o)
  /\ copy' = [copy EXCEPT ![c] = copy[active[Execution(c)]]]
  /\ UNCHANGED <<states, brokerVars, tableVars, at, approved, pausing, held, merged, called,
                 handled, result>>

\* ... and with none registered any more the error leaves execute.
InterruptEscapes(c) ==
  /\ "interrupt" \in Faults
  /\ pc[c] \in {"plan", "step", "compose"}
  /\ active[Execution(c)] = None
  /\ Answer(c, Raised)
  /\ pending' = Rearmed(c)
  /\ UNCHANGED <<states, brokerVars, used, traces, active, localVars, handled>>

-----------------------------------------------------------------------------
(* The steps of the plan *)

Action(c) == Plan[Execution(c)][at[c]]

HasStep(c) == pc[c] = "step" /\ at[c] <= Len(Plan[Execution(c)])

\* Each step looks its tool up once more.  The error of a tool withdrawn since
\* the validation of the plan leaves execute, whatever has run before.
StepRaises(c) ==
  /\ "withdraw" \in Faults
  /\ HasStep(c)
  /\ Answer(c, Raised)
  /\ pending' = Rearmed(c)
  /\ active' = Unregistered(c)
  /\ UNCHANGED <<states, brokerVars, used, traces, localVars, handled>>

\* Mutation: any approval of the execution opens the gate.
OpenOnceApproved(c) == Action(c) \in Gated => approved[c] # {}

\* has_exact_approval, and the same test in _authorize.
Permitted(c) == Action(c) \in Gated => Action(c) \in approved[c]

\* The handler runs.  Its result is recorded and, success or not, the plan goes on.
Handle(c) ==
  /\ HasStep(c)
  /\ Permitted(c)
  /\ handled' = [handled EXCEPT ![Execution(c)] = Append(@, <<c, at[c]>>)]
  /\ at' = [at EXCEPT ![c] = @ + 1]
  /\ UNCHANGED <<states, brokerVars, tableVars, approved, outcome, pausing, copy, held, merged,
                 called, pc, result>>

\* A permission is denied, or an idempotency key is missing.
Deny(c) ==
  /\ HasStep(c)
  /\ "refused" \in EarlyOutcomes
  /\ EndsAs(c, "refused")

RequestExpiry == IF ApprovalExpiry = None THEN None ELSE now + ApprovalExpiry

\* The gate: a new request for the exact action; the run ends, for now.
Gate(c) ==
  /\ HasStep(c)
  /\ ~ Permitted(c)
  /\ Broker!Submit(<<c, at[c]>>, [action |-> Action(c), expires_at |-> RequestExpiry])
  /\ Decided(c, "escalated")
  /\ pausing' = [pausing EXCEPT ![c] = TRUE]
  /\ UNCHANGED <<states, tableVars, at, approved, copy, held, merged, called, handled, result>>

FinishPlan(c) ==
  /\ pc[c] = "step"
  /\ at[c] > Len(Plan[Execution(c)])
  /\ Goto(c, "compose")
  /\ UNCHANGED <<states, brokerVars, tableVars, localVars, handled, result>>

\* Composition, verification and the safety decision choose the outcome.
Compose(c) ==
  /\ pc[c] = "compose"
  /\ \E o \in Finals : Decided(c, o)
  /\ UNCHANGED <<states, brokerVars, tableVars, at, approved, pausing, copy, held, merged,
                 called, handled, result>>

-----------------------------------------------------------------------------
(* execute: the way out *)

StateStatusOf(o) ==
  CASE o = "completed"                             -> "completed"
    [] o = "refused"                               -> "refused"
    [] o = "escalated"                             -> "escalated"
    [] o \in {"partial", "needs_input", "cancelled"} -> "paused"
    [] OTHER                                       -> "failed"

\* Mutation: the checkpoint outlives the run.
FinishedKeepsData(c) ==
  [copy[c] EXCEPT !.execution_id = Execution(c),
                  !.status = StateStatusOf(outcome[c]),
                  !.version = copy[c].version + 1]

\* The row _finish writes: its data replaces the old data, a checkpoint included.
FinishedState(c) ==
  [copy[c] EXCEPT !.execution_id = Execution(c),
                  !.status = StateStatusOf(outcome[c]),
                  !.version = copy[c].version + 1,
                  !.data = None]

\* _finish: save over the version the run has read, or fail with a conflict.
SaveFinished(c) ==
  \/ /\ Store!Save(StateKey(c), FinishedState(c), copy[c].version)
     /\ UNCHANGED outcome
  \/ /\ ~ Store!MaySave(StateKey(c), FinishedState(c), copy[c].version)
     /\ outcome' = [outcome EXCEPT ![c] = "conflict"]
     /\ UNCHANGED states

Finish(c) ==
  /\ pc[c] = "finish"
  /\ SaveFinished(c)
  /\ traces' = traces \union {Execution(c)}
  /\ Goto(c, IF pausing[c] THEN "remember" ELSE "leave")
  /\ UNCHANGED <<brokerVars, pending, used, active, at, approved, pausing, copy, held, merged,
                 called, handled, result>>

\* The continuation of a paused run: the step it stopped at and what it had.
Continuation(c) ==
  [request |-> <<c, at[c]>>, at |-> at[c], approved |-> approved[c], outcome |-> outcome[c]]

\* Mutation: the continuation is kept in memory only.
RememberOnly(c) ==
  /\ pc[c] = "remember"
  /\ pending' = [pending EXCEPT ![Execution(c)] = Continuation(c)]
  /\ Goto(c, "leave")
  /\ UNCHANGED <<states, brokerVars, used, traces, active, localVars, handled, result>>

\* _remember_pending_approval: first in memory, after the outcome was saved ...
Remember(c) ==
  /\ pc[c] = "remember"
  /\ pending' = [pending EXCEPT ![Execution(c)] = Continuation(c)]
  /\ Goto(c, "checkpoint")
  /\ UNCHANGED <<states, brokerVars, used, traces, active, localVars, handled, result>>

Resumable(c) == HasRow(c) /\ Row(c).status \in {"escalated", "paused"}

\* ... then _persist_pending_checkpoint: find the execution's row and save it
\* with the checkpoint.  It raises when the row has gone to another execution.
FindRow(c, to) ==
  /\ Resumable(c)
  /\ copy' = [copy EXCEPT ![c] = Row(c)]
  /\ Goto(c, to)

SaveCheckpoint(c, checkpoint) ==
  Store!Save(StateKey(c),
             [copy[c] EXCEPT !.status = "paused",
                             !.version = copy[c].version + 1,
                             !.data = checkpoint],
             copy[c].version)

CheckpointRefused(c) ==
  \/ pc[c] \in {"checkpoint", "recheck"} /\ ~ Resumable(c)
  \/ /\ pc[c] \in {"persist", "repersist"}
     /\ ~ Store!MaySave(StateKey(c), copy[c], copy[c].version)

Checkpoint(c) ==
  /\ pc[c] = "checkpoint"
  /\ FindRow(c, "persist")
  /\ UNCHANGED <<states, brokerVars, tableVars, at, approved, outcome, pausing, held, merged,
                 called, handled, result>>

Persist(c) ==
  /\ pc[c] = "persist"
  /\ SaveCheckpoint(c, Continuation(c))
  /\ Goto(c, "leave")
  /\ UNCHANGED <<brokerVars, tableVars, localVars, handled, result>>

CheckpointRaises(c) ==
  /\ pc[c] \in {"checkpoint", "persist"}
  /\ CheckpointRefused(c)
  /\ Answer(c, Raised)
  /\ pending' = Rearmed(c)
  /\ active' = Unregistered(c)
  /\ UNCHANGED <<states, brokerVars, used, traces, localVars, handled>>

\* execute returns; a resume goes on with its consumption.
Leave(c) ==
  /\ pc[c] = "leave"
  /\ IF c \in ExecuteCalls
     THEN Answer(c, outcome[c])
     ELSE Goto(c, "consume") /\ UNCHANGED result
  /\ active' = Unregistered(c)
  /\ UNCHANGED <<states, brokerVars, pending, used, traces, localVars, handled>>

-----------------------------------------------------------------------------
(* resume: the way in *)

\* The pending approval in memory, else the checkpoint in the store.
Fetch(c) ==
  /\ c \in ResumeCalls
  /\ MayStart(c)
  /\ held' = [held EXCEPT ![c] = pending[Execution(c)]]
  /\ \E e \in Evidence : called' = [called EXCEPT ![c] = [time |-> now, evidence |-> e]]
  /\ Goto(c, IF pending[Execution(c)] # None THEN "decide" ELSE "restore")
  /\ UNCHANGED <<states, brokerVars, tableVars, at, approved, outcome, pausing, copy, merged,
                 handled, result>>

HasCheckpoint(c) == HasRow(c) /\ Row(c).status = "paused" /\ Row(c).data # None

\* _restore_pending_approval reads the store ...
Restore(c) ==
  /\ pc[c] = "restore"
  /\ IF HasCheckpoint(c)
     THEN Goto(c, "adopt") /\ held' = [held EXCEPT ![c] = Row(c).data] /\ UNCHANGED result
     ELSE Answer(c, Raised) /\ UNCHANGED held
  /\ UNCHANGED <<states, brokerVars, tableVars, at, approved, outcome, pausing, copy, merged,
                 called, handled>>

\* ... and fills the memory, unless another resume has filled it meanwhile.
Adopt(c) ==
  /\ pc[c] = "adopt"
  /\ IF pending[Execution(c)] # None
     THEN held' = [held EXCEPT ![c] = pending[Execution(c)]] /\ UNCHANGED pending
     ELSE pending' = [pending EXCEPT ![Execution(c)] = held[c]] /\ UNCHANGED held
  /\ Goto(c, "decide")
  /\ UNCHANGED <<states, brokerVars, used, traces, active, at, approved, outcome, pausing, copy,
                 merged, called, handled, result>>

HeldRequest(c) == held[c].request

\* Mutation: the decision's own status is taken for good.
TakenAtItsWord(c, d) == d.status

\* _validate_approval_decision: an approval is worth nothing once its own expiry
\* or its request's has passed.
Validated(c, d) ==
  IF d.status = "approved"
     /\ (Broker!Expired(requests[HeldRequest(c)].expires_at) \/ Broker!Expired(d.expires_at))
  THEN "stale"
  ELSE d.status

\* The outcome of every decision that is no valid approval.
ClosedAs(status) ==
  CASE status = "request_changes" -> "needs_input"
    [] status = "expired"         -> "escalated"
    [] OTHER                      -> "refused"

\* A resume of a request nobody has decided answers with the paused outcome.
StillWaiting(c) ==
  /\ pc[c] = "decide"
  /\ called[c].evidence = "broker"
  /\ Broker!Current(HeldRequest(c)) = None
  /\ Answer(c, held[c].outcome)
  /\ UNCHANGED <<states, brokerVars, tableVars, localVars, handled>>

\* Mutation: only a reviewer's refusal closes.
ActUnlessRefused(c, status) ==
  IF status \in {"approved", "stale"}
  THEN Goto(c, "take") /\ UNCHANGED outcome
  ELSE Goto(c, "close") /\ outcome' = [outcome EXCEPT ![c] = ClosedAs(status)]

Act(c, status) ==
  IF status = "approved"
  THEN Goto(c, "take") /\ UNCHANGED outcome
  ELSE Goto(c, "close") /\ outcome' = [outcome EXCEPT ![c] = ClosedAs(status)]

\* The broker's decision, ...
DecideFromBroker(c) ==
  LET d == Broker!Current(HeldRequest(c)) IN
  /\ pc[c] = "decide"
  /\ called[c].evidence = "broker"
  /\ d # None
  /\ Broker!GetDecision(HeldRequest(c))
  /\ Act(c, Validated(c, d))
  /\ UNCHANGED <<states, tableVars, at, approved, pausing, copy, held, merged, called, handled,
                 result>>

\* ... or one the application hands over: an exact approval, or evidence for
\* another request or another action.
DecideFromCaller(c) ==
  /\ pc[c] = "decide"
  /\ called[c].evidence # "broker"
  /\ Act(c, IF called[c].evidence = "stale"
            THEN "stale"
            ELSE Validated(c, [status |-> "approved", expires_at |-> None, decided_at |-> now]))
  /\ UNCHANGED <<states, brokerVars, tableVars, at, approved, pausing, copy, held, merged,
                 called, handled, result>>

-----------------------------------------------------------------------------
(* resume: an approved request *)

\* Mutation: the resume starts at the first step.
TakeFromStart(c) ==
  /\ pc[c] = "take"
  /\ pending' = [pending EXCEPT ![Execution(c)] = None]
  /\ approved' = [approved EXCEPT
       ![c] = held[c].approved \union {requests[HeldRequest(c)].action}]
  /\ at' = [at EXCEPT ![c] = 1]
  /\ Goto(c, "open")
  /\ UNCHANGED <<states, brokerVars, used, traces, active, outcome, pausing, copy, held, merged,
                 called, handled, result>>

\* Take the pending approval out, whichever it is by now, and execute the rest of
\* the plan with the approved action.
Take(c) ==
  /\ pc[c] = "take"
  /\ pending' = [pending EXCEPT ![Execution(c)] = None]
  /\ approved' = [approved EXCEPT
       ![c] = held[c].approved \union {requests[HeldRequest(c)].action}]
  /\ at' = [at EXCEPT ![c] = held[c].at]
  /\ Goto(c, "open")
  /\ UNCHANGED <<states, brokerVars, used, traces, active, outcome, pausing, copy, held, merged,
                 called, handled, result>>

\* Mutation: consuming twice is taken for a repeated call.
ConsumeIdempotently(c) ==
  /\ pc[c] = "consume"
  /\ Goto(c, IF HeldRequest(c) \in used THEN "merge" ELSE "consume_broker")
  /\ used' = used \union {HeldRequest(c)}
  /\ UNCHANGED <<states, brokerVars, pending, traces, active, localVars, handled, result>>

\* After the run the runtime marks the request as consumed ...
Consume(c) ==
  /\ pc[c] = "consume"
  /\ IF HeldRequest(c) \in used
     THEN Answer(c, Raised) /\ UNCHANGED used
     ELSE Goto(c, "consume_broker") /\ used' = used \union {HeldRequest(c)} /\ UNCHANGED result
  /\ UNCHANGED <<states, brokerVars, pending, traces, active, localVars, handled>>

\* ... and tells the broker, which refuses an undecided or consumed request.
ConsumeInBroker(c) ==
  /\ pc[c] = "consume_broker"
  /\ \/ Broker!Consume(HeldRequest(c)) /\ Goto(c, "merge") /\ UNCHANGED result
     \/ Broker!ConsumeRaises(HeldRequest(c)) /\ Answer(c, Raised)
  /\ UNCHANGED <<states, tableVars, localVars, handled>>

\* _merge_resumed_trace: a run that paused again has its checkpoint rewritten
\* with the merged trace.
Merge(c) ==
  /\ pc[c] = "merge"
  /\ IF pending[Execution(c)] = None
     THEN Answer(c, outcome[c]) /\ UNCHANGED merged
     ELSE /\ Goto(c, "recheck")
          /\ merged' = [merged EXCEPT ![c] = pending[Execution(c)]]
          /\ UNCHANGED result
  /\ UNCHANGED <<states, brokerVars, tableVars, at, approved, outcome, pausing, copy, held,
                 called, handled>>

Recheck(c) ==
  /\ pc[c] = "recheck"
  /\ FindRow(c, "repersist")
  /\ UNCHANGED <<states, brokerVars, tableVars, at, approved, outcome, pausing, held, merged,
                 called, handled, result>>

Repersist(c) ==
  /\ pc[c] = "repersist"
  /\ SaveCheckpoint(c, merged[c])
  /\ Answer(c, outcome[c])
  /\ UNCHANGED <<brokerVars, tableVars, localVars, handled>>

RepersistRaises(c) ==
  /\ pc[c] \in {"recheck", "repersist"}
  /\ CheckpointRefused(c)
  /\ Answer(c, Raised)
  /\ UNCHANGED <<states, brokerVars, tableVars, localVars, handled>>

-----------------------------------------------------------------------------
(* resume: every other decision closes the pending approval *)

Close(c) == pc[c] = "close" /\ OpenState(c, "close_finish")

CloseFinish(c) ==
  /\ pc[c] = "close_finish"
  /\ SaveFinished(c)
  /\ traces' = traces \union {Execution(c)}
  /\ Goto(c, "close_pop")
  /\ UNCHANGED <<brokerVars, pending, used, active, at, approved, pausing, copy, held, merged,
                 called, handled, result>>

\* Mutation: the pending approval outlives its closing.
CloseKeeps(c) ==
  /\ pc[c] = "close_pop"
  /\ Answer(c, outcome[c])
  /\ UNCHANGED <<states, brokerVars, tableVars, localVars, handled>>

ClosePop(c) ==
  /\ pc[c] = "close_pop"
  /\ pending' = [pending EXCEPT ![Execution(c)] = None]
  /\ Answer(c, outcome[c])
  /\ UNCHANGED <<states, brokerVars, used, traces, active, localVars, handled>>

-----------------------------------------------------------------------------
(* Reviewers, the clock and the process *)

Review ==
  /\ \E r \in Requests, status \in Reviews : Broker!Decide(r, status, None)
  /\ UNCHANGED <<states, tableVars, localVars, pc, handled, result>>

Tick ==
  /\ now < MaxTime
  /\ Broker!TimePasses
  /\ UNCHANGED <<states, tableVars, localVars, pc, handled, result>>

NoExecutions == [x \in Executions |-> None]

\* The process restarts: the tables and the calls in flight are gone.
Crash ==
  /\ "crash" \in Faults
  /\ pc' = [c \in Calls |-> IF InFlight(c) THEN "crashed" ELSE pc[c]]
  /\ pending' = NoExecutions
  /\ used' = {}
  /\ traces' = {}
  /\ active' = NoExecutions
  /\ UNCHANGED <<states, brokerVars, localVars, handled, result>>

Init ==
  /\ Store!StateInit
  /\ Broker!BrokerInit
  /\ pending = NoExecutions
  /\ used = {}
  /\ traces = {}
  /\ active = NoExecutions
  /\ pc = [c \in Calls |-> "idle"]
  /\ at = [c \in Calls |-> 1]
  /\ approved = [c \in Calls |-> {}]
  /\ outcome = [c \in Calls |-> None]
  /\ pausing = [c \in Calls |-> FALSE]
  /\ copy = [c \in Calls |-> None]
  /\ held = [c \in Calls |-> None]
  /\ merged = [c \in Calls |-> None]
  /\ called = [c \in Calls |-> None]
  /\ handled = [x \in Executions |-> <<>>]
  /\ result = [c \in Calls |-> None]

Execute(c) ==
  \/ CheckTraces(c) \/ CheckStore(c) \/ Open(c) \/ Admit(c) \/ AcceptPlan(c) \/ RefuseInput(c)
  \/ ProviderFails(c) \/ RefusePlan(c) \/ Interrupt(c) \/ InterruptEscapes(c)
  \/ StepRaises(c) \/ Deny(c) \/ Handle(c) \/ Gate(c) \/ FinishPlan(c) \/ Compose(c)
  \/ Finish(c) \/ Remember(c) \/ Checkpoint(c) \/ Persist(c) \/ CheckpointRaises(c) \/ Leave(c)

Resume(c) ==
  \/ Fetch(c) \/ Restore(c) \/ Adopt(c)
  \/ StillWaiting(c) \/ DecideFromBroker(c) \/ DecideFromCaller(c) \/ Take(c)
  \/ Consume(c) \/ ConsumeInBroker(c) \/ Merge(c)
  \/ Recheck(c) \/ Repersist(c) \/ RepersistRaises(c)
  \/ Close(c) \/ CloseFinish(c) \/ ClosePop(c)

Next ==
  \/ \E c \in Calls : Execute(c) \/ Resume(c)
  \/ Review
  \/ Tick
  \/ Crash

Spec == Init /\ [][Next]_vars

-----------------------------------------------------------------------------
(* Properties *)

PcStates ==
  {"idle", "lookup", "open", "admit", "plan", "step", "compose", "finish", "remember",
   "checkpoint", "persist", "leave", "restore", "adopt", "decide", "take", "consume",
   "consume_broker", "merge", "recheck", "repersist", "close", "close_finish", "close_pop",
   "done", "crashed"}

\* The shape of the state.
TypeOK ==
  /\ Store!StateTypeOK
  /\ Broker!BrokerTypeOK
  /\ pending \in [Executions -> Pending \union {None}]
  /\ used \subseteq Requests
  /\ traces \subseteq Executions
  /\ active \in [Executions -> Calls \union {None}]
  /\ pc \in [Calls -> PcStates]
  /\ at \in [Calls -> Nat \ {0}]
  /\ approved \in [Calls -> SUBSET Actions]
  /\ outcome \in [Calls -> Outcomes \union {None}]
  /\ pausing \in [Calls -> BOOLEAN]
  /\ copy \in [Calls -> Store!State \union {None}]
  /\ held \in [Calls -> Pending \union {None}]
  /\ merged \in [Calls -> Pending \union {None}]
  /\ called \in [Calls -> [time : Nat, evidence : Evidence] \union {None}]
  /\ handled \in [Executions -> Seq(Calls \X (Nat \ {0}))]
  /\ result \in [Calls -> Outcomes \union {None, Raised}]

RequestOf(r, x, a) ==
  ExecutionOf[r[1]] = x /\ requests[r] # None /\ requests[r].action = a

ApprovedInTime(r) ==
  /\ decisions[r] # None
  /\ decisions[r].status = "approved"
  /\ requests[r].expires_at # None => decisions[r].decided_at < requests[r].expires_at

\* Every gated handler call had a request for this very action in this execution,
\* approved in time by a reviewer, or by the evidence handed to a resume of that
\* request (architecture.md: "the handler runs only after a valid, unexpired
\* decision for that digest").
ApprovedByCaller(r) ==
  \E d \in ResumeCalls :
    /\ approved[d] # {}
    /\ HeldRequest(d) = r
    /\ called[d].evidence = "approved"

HandlersRunApproved ==
  \A x \in Executions : \A i \in 1 .. Len(handled[x]) :
    LET a == Plan[x][handled[x][i][2]] IN
    a \in Gated =>
      \E r \in Requests : RequestOf(r, x, a) /\ (ApprovedInTime(r) \/ ApprovedByCaller(r))

\* A resume that is called at or after the expiry of its request runs nothing that
\* waits for it, however its evidence was obtained (ADR 0006: "expired or stale: no
\* handler call").
LateResumesRunNothing ==
  \A x \in Executions : \A i \in 1 .. Len(handled[x]) :
    LET c == handled[x][i][1] IN
    c \in ResumeCalls =>
      LET e == requests[HeldRequest(c)].expires_at IN
      e # None => called[c].time < e

\* No handler runs for a request that has been consumed (ADR 0006: "A consumed
\* request cannot run again").
LastCaller(h) == h[Len(h)][1]

ConsumedNeverRuns ==
  [][\A x \in Executions :
       handled'[x] # handled[x] =>
         LET c == LastCaller(handled'[x]) IN
         c \in ResumeCalls => HeldRequest(c) \notin consumed]_vars

\* No step of an execution runs twice (ADR 0006: resume "does not re-run earlier
\* tool steps").
StepsNotReplayed ==
  \A x \in Executions : \A i, j \in 1 .. Len(handled[x]) :
    handled[x][i][2] = handled[x][j][2] => i = j

\* Not even after restarts does a step run again that lies before a pause the
\* caller has been told of.
ToldPaused(c) == pausing[c] /\ result[c] = "escalated"

PassedStepsNotReplayed ==
  [][\A x \in Executions :
       handled'[x] # handled[x] =>
         LET n == handled'[x][Len(handled'[x])][2] IN
         \A c \in Calls : Execution(c) = x /\ ToldPaused(c) => at[c] <= n]_vars

\* A caller that was told its run waits for an approval can have it resumed, in
\* this process or after a restart, until a resume has begun to act on it (ADR
\* 0007: "preserve enough trusted continuation data to resume the exact reviewed
\* workflow").
ActedOn(r) ==
  \/ r \in consumed
  \/ \E c \in ResumeCalls :
       /\ held[c] # None
       /\ HeldRequest(c) = r
       /\ approved[c] # {} \/ outcome[c] # None

CanResume(x, r) ==
  \/ pending[x] # None /\ pending[x].request = r
  \/ LET row == states[StateOf[x]] IN
     /\ row # None
     /\ row.execution_id = x
     /\ row.status = "paused"
     /\ row.data # None
     /\ row.data.request = r

PausedIsResumable ==
  \A c \in Calls :
    ToldPaused(c) /\ ~ ActedOn(<<c, at[c]>>) => CanResume(Execution(c), <<c, at[c]>>)

\* Between calls the continuation in memory is the one in the store, so a restart
\* changes nothing for the execution.
PendingIsCheckpointed ==
  \A x \in Executions :
    pending[x] # None /\ (\A c \in Calls : Execution(c) = x => ~ InFlight(c))
      => /\ states[StateOf[x]] # None
         /\ states[StateOf[x]].execution_id = x
         /\ states[StateOf[x]].status = "paused"
         /\ states[StateOf[x]].data = pending[x]

\* However many resumes act on one request, at most one of them returns an outcome;
\* the others raise, even after a restart (the consumed set of AgentRuntime.resume
\* and the broker's).
ActsOnApproval(c) == held[c] # None /\ approved[c] # {}

OneResumeAnswers ==
  \A c, d \in ResumeCalls :
    (/\ ActsOnApproval(c) /\ result[c] \in Outcomes
     /\ ActsOnApproval(d) /\ result[d] \in Outcomes
     /\ HeldRequest(c) = HeldRequest(d))
      => c = d

\* Of calls made one at a time, at most one is told that the execution completed
\* (a completed execution has nothing pending in AgentRuntime.resume).
CompletedOnce ==
  \A c, d \in Calls :
    Execution(c) = Execution(d) /\ result[c] = "completed" /\ result[d] = "completed"
      => c = d

-----------------------------------------------------------------------------
(* The runtime implements ApprovalGate when its calls do not overlap. *)

StepsRun(x) == [i \in 1 .. Len(handled[x]) |-> handled[x][i][2]]

ActionsGranted(x) ==
  {a \in Actions : \E r \in Requests : RequestOf(r, x, a) /\ ApprovedInTime(r)}

\* The execution has paused or ended before: its row names it.
StateRow(x) == states[StateOf[x]]

Known(x) == StateRow(x) # None /\ StateRow(x).execution_id = x

\* Where a further run of the execution would begin: at the stored checkpoint, at
\* the first step if no row names the execution yet, else after all that has run.
NextStep(x) == IF handled[x] = <<>> THEN 1 ELSE handled[x][Len(handled[x])][2] + 1

Mark(x) ==
  IF ~ Known(x) THEN 1
  ELSE IF StateRow(x).data # None THEN StateRow(x).data.at ELSE NextStep(x)

\* A call that had begun at that very place was cut off by a restart, or an
\* exception left it.
CutOff(c) == pc[c] = "crashed" \/ (pc[c] = "done" /\ result[c] = Raised)

Lost(x) ==
  \E c \in Calls :
    /\ Execution(c) = x
    /\ CutOff(c)
    /\ IF Known(x)
       THEN ActsOnApproval(c) /\ held[c] = StateRow(x).data
       ELSE c \in ExecuteCalls /\ copy[c] # None

PlanGate == INSTANCE ApprovalGate
          WITH ran     <- [x \in Executions |-> StepsRun(x)],
               granted <- [x \in Executions |-> ActionsGranted(x)],
               mark    <- [x \in Executions |-> Mark(x)],
               lost    <- {x \in Executions : Lost(x)}

\* Every plan runs in order, no gated step before its exact action was approved.
\* Each step runs once, unless an exception (a tool withdrawn in the middle of the
\* plan) or a restart has cut off a call of the execution; then a later call may
\* run again what follows the last stored pause, but nothing before it.  ADR 0006
\* says of a resume that it "does not re-run earlier tool steps", without exception.
ImplementsGate == PlanGate!GateSpec
=============================================================================
