# Verification of the enterprise agent harness

This directory holds TLA+ models of `enterprise_agent_harness`, the TLC runs that
check them on small instances and the TLAPS proofs of what matters most for every
instance.  Paths below are relative to `src/enterprise_agent_harness/` unless they
start with `docs/` or `tests/`.

## Inventory

| Component | State | Operations | Hard part | What makes it correct |
| --- | --- | --- | --- | --- |
| `background/leases.py` | one lease per event key | acquire, renew, release | expiry, takeover, versions | two owners never hold a key at once |
| `background/deduplication.py` | one record per event | mark in progress / pending / terminal, put | stale claims | a settled event keeps its status |
| `background/runner.py` | calls in flight, dead letters | `run`, `resolve_pending` | stale workers, retries, partial failures, crashes | one fate per event, one completion, answers that match it |
| `runtime/execution.py` | active executions, pending approvals, traces | `execute`, `resume` | the approval pause, its checkpoint, resumes at the same time | an approved action runs once, under the request that was approved |
| `runtime/control.py` | budgets used, cancellation, deadline | check, record, admit a retry | limits met in the middle of a plan | no budget is ever exceeded |
| `state/store.py` | versioned states | get_or_create, save, purge | lost updates | versions only grow, a stale save is refused |
| `governance/approvals.py` | requests, decisions, consumed set | submit, decide, expire, consume | late decisions, double consumption | one decision per request, consumed once |
| `tools/registry.py` | tools, lifecycle, idempotency cache | register, transitions, invoke | retries, timeouts that leave a handler running | one effect per idempotency key |
| `registries.py` | prompts, skills, agents with a lifecycle and a revision | register, validate, activate, suspend, deprecate, retire, snapshot | dependencies that are retired later | nothing active is resolved over an inactive dependency |
| `factory.py` | resolved components, manifest | build, guard of every execution | components that change after the build | what runs is what the manifest says |
| `composition.py` | delegation envelopes | delegate, compose | ceilings that must shrink, cycles | a child never has more authority than its parent |
| `governance/permissions.py` | decision log | authorize, evaluate | order of rules and hooks | deny wins, no rule means no access |
| `governance/safety.py`, `verification/outcomes.py` | none | decide | precedence of checks | no unsafe outcome is called completed |
| `providers/invocation.py` | one call | call with retry and timeout | late answers | bounded attempts, control checked in between |
| `observability/` | append-only records | record | sinks that fail | evidence only: nothing reads it back |
| `memory/`, `evaluation/`, `runtime/context.py`, `providers/` adapters and normalization | none or a bounded list | pure functions | - | not modelled |

How they interact: an event reaches `BackgroundJobRunner.run`, which takes a lease,
claims the event in the deduplication store and calls the application's handler; the
handler calls `AgentRuntime.execute_event`.  The runtime reads and saves a versioned
state, asks the policy engine and the approval broker, invokes tools under the tool
registry's lock and returns an outcome; an escalated outcome parks the event until
`AgentRuntime.resume` has run and `resolve_pending` commits its outcome.  All shared
state sits behind locks of the stores; nothing spans two of them, so every property
that relates two stores is at stake between two calls.

## The background component

`LeaseStore`, `DedupStore` and `BackgroundRunner` model `background/`.  The bodies of
the stores' methods run under one lock and are one action each.  A call of `run` or
`resolve_pending` is a process, and one of its steps is the code between two calls of
a store, the handler or the sink:

| `pc` | code | action |
| --- | --- | --- |
| `idle` | first look at the record (runner.py 179) | `Lookup` |
| `acquire` | `lease_store.acquire` (191) | `AcquireLease` |
| `claim` | first `mark_in_progress` (203) | `Claim` |
| `reread` | the refused claim reads the record (212) | `Reread` |
| `input` | extractor and first handler call (229, 268) | `CallHandler`, `InputRaises` |
| `handling` | the handler runs | `HandlerReturns`, `HandlerRaises`, `HandlerAborts` |
| `retry` | `mark_in_progress` of a later attempt (246) | `Retry` |
| `commit` | `mark_terminal` of a success (309) | `Commit` |
| `settle` | park (358) or `mark_terminal` of a failure (369) | `Park`, `SettleFailure` |
| `evidence` | dead-letter sink (390, 471) | `RecordDeadLetter`, `ResolveDeadLetter` |
| `release` | the finally clause (415) | `ReleaseLease` |
| `resolving` | second half of `resolve_pending` (445) | `ResolveEscalated`, `ResolveSettled` |

`result` holds what each call answered, `Raised` when an exception left it.  The
lease store keeps, besides the leases, the copy each owner was handed (`granted`):
that copy is all a worker knows.  The clock is read just before the store's lock is
taken; the model reads it under the lock.

Left out: audit records (their failures are reported, never raised), correlation
identities, the checks of `resolve_pending` that its outcome belongs to the parked
execution and principal (the model passes only such outcomes), and the argument
checks of the stores.  `Faults` adds what the environment may do.  A crash stands for
durable stores behind the same protocols (`docs/production-extension-points.md`, line
16): with the in-memory stores nothing survives one.

`EventLedger` is the abstract specification: an event is open, parked for one
execution, or settled once; one call is told that it completed the event and any
other final answer repeats the ledger.  `BackgroundRunner` implements it under the
mapping `LedgerEntry` / `FinalAnswer` (a claimed event is still open).

### Runs

| Run | Instance | Question |
| --- | --- | --- |
| `components`, parts "leases" and "records" | 3 owners of 2 leases, TTL 2, clock to 4, versions to 3; 2 records, 2 executions, 1 outcome | exclusion and versions under any calls, renewals included; can any sequence of calls, `put` included, reopen a settled event |
| `runner_takeover` | 3 deliveries and 1 resolver of one event, 2 attempts, TTL 1, clock to 3, outcomes completed, failed and escalated, retryable and other errors, crashes, a sink that raises | stale workers, takeovers, recovery, answers, evidence, the retry bound |
| `runner_approval` | 2 deliveries, 2 resolvers, 2 attempts, clock to 2, cancelled and over-budget handlers, inputs that raise, handlers that abort | concurrent resumes; refinement of the ledger; calls end and evidence is written |
| `runner_abandoned` | 2 deliveries, an extractor that raises | finding 1 |

Why the bounds are enough to be interesting: a TTL of 1 lets a lease expire before any
step; three deliveries give a stale worker, its successor and a newcomer; two attempts
give a retry after an expiry; two resolvers read the same parked record.  Deadlock
checking is off where all calls may simply have returned.

Fairness (`runner_approval`): weak fairness of each started call.  No step of a call waits
for another call, locks are held for one method body, and the handler is assumed to
return or raise.  Deliveries need not arrive and the clock need not advance.
`DeadLettersAreRecorded` is asked where no worker crashes and no sink raises.  With either a
settled record may stay without its evidence, as nothing writes it later; what the sink then
holds is still of the record (`EvidenceMatchesRecord`, in `runner_takeover`).

### Findings

1. `runner_abandoned`: when the extractor raises, the claim stays and the lease is
   deleted, so the next lease starts at version 0 again and is refused against the old
   claim: no redelivery can ever handle the event.  After a crash or an expiry the
   lease is still there, versions go on and the event recovers (`runner_takeover`).

A limit of the design that no run states: the event is claimed once and neither the
lease nor the record is looked at again before the first handler call (runner.py 268).
A worker whose lease expires while it extracts the input therefore starts the handler
although another delivery may have completed the event in between, which
`docs/architecture-diagrams.md` line 94 reads as ruled out.  What holds is that its
commit is refused (`SettledIsFinal`, `LiveWorkerOwnsRecord`, `OneCompletion`).

### Proofs

`StoreProofs` proves exclusion (`LeasesExclude`) and growing versions (`VersionsGrow`)
of leases.  Exclusion needs the invariant that every unexpired copy is the stored lease
and carries its holder's name.  It also proves, for event records under any calls, `put`
included, that a settled event keeps its status (`SettledStaySettled`): every method
writes one record, which for a settled event has the status it had (`WritesOneRecord`).
With `put` the rest of a settled record may change; the runner never calls it, and
`SettledForGood` below states that its settled records are final altogether.

`BackgroundRunnerProofs` proves, for every number of deliveries, resolvers and keys,
every retry bound, TTL, outcome set and fault:

- `TypeCorrect`: types alone are not inductive, as a step reads fields of the call's own
  lease copy and snapshot; the invariant adds where a call must have them (`TypeInv`).
- `SettledForGood`: no step changes a settled record.  Each write of the store is shown
  to spare settled records.
- `LiveWorkersOwnTheirRecords`: while its lease is unexpired, a delivery past its claim
  owns the record.  `ClaimInv` is inductive; it says why a lease deleted at version n
  cannot come back to overtake a live claim: a delivery that could still claim has a
  version no larger than the stored lease's (`NewestIsLeased`), and past a claim the
  record carries that version (`ClaimIsRecorded`).  `Forward` shows that versions in a
  record never fall; `LiveWorkerRefusesOthers` is the core of the argument.

`BackgroundLedgerProofs` proves what callers and the dead-letter sink are told.  All of
it rests on one reduction (`StepKinds`): every step of the runner works on an event
without settling it, repeats what the record says, parks, completes, fails or reports
it, or does none of these.

- `RetriesAreUsedUp` needs only what a call knows of its own last attempt (`CallInv`).
- `AnswersAgreeWithRecords`, `CompletedByOne` and `EvidenceIsOfTheRecord` are inductive
  together only (`AnswerInv`): an answer stays true because settled records do not
  change, and a call that still owes the sink a record is the only one that does, has
  settled the event itself and finds no evidence there (`OwesEvidence`).
- `RunnerImplementsLedger`: under these invariants each kind of step is a step of
  `EventLedger` or a stutter.
- `LeaseHoldersClaim` holds when no extractor raises and no handler aborts; with either it
  is false (finding 1).  `LeaseInv` is the reason it holds otherwise: a claim's lease, or a
  newer one, is still stored, so versions never restart below a claim.

The proofs assume only `RunnerAssumption`, `NoneAssumption`, `LeaseAssumption` and
`NoLeaseAssumption`, which TLC evaluates on every instance.  Liveness stays with TLC.

## State stores

`StateStore` gives the operators of `state/store.py`: what `get_or_create`, `save`,
`find_execution` and `purge_expired` do to one map from keys to versioned rows, and
when they raise.  Both stores run a method under one lock (SQLite in one write
transaction as well), so a method is one step.  `StateClients` runs them under the
only protocol the harness uses: open a row, work on the copy, save it one version up
with the version that was read.  The data of a row is the set of updates it is built
on, so a lost update is visible.

The part "states" of `components` has 3 clients of 2 principals over 2 agent versions,
versions to 2 and two rows: one that is kept and one that retention can purge (`Purgeable`).  It asks
whether a save can lose an update and whether a principal can reach another's state.

`StoreProofs` proves, for any constants: types; `NeverAhead` and
`UpdatesSurvive` (no lost update) for the rows that are not purged;
`CopiesKeepToTheirOwner` and `RowsStayOwned` for all rows.  `NoLostUpdate` rests on the
invariant `CopiesAreBehind`: a copy is never ahead of its row, and a copy at the row's
version is the row.  A purge breaks exactly this: `save` compares only the version
number, versions restart after a purge, and a writer that read version v before it passes
the check once the new row has reached v.  `docs/adr/0007` line 49 says "stale workers
fail closed instead of overwriting a newer continuation", which holds of kept rows only.

## Approval broker

`ApprovalBroker` models `InMemoryApprovalBroker`: each method is one step, and every
look at an undecided request at or after its expiry writes the decision "expired"
(`Current`).  The part "approvals" of `components` (2 requests, 2 actions, a clock to 1)
lets any caller submit, decide, record evidence, look and consume.
`StoreProofs` proves `FirstDecisionStands`, `NoLateApproval` and
`OnlyDecidedConsumed` for any requests, actions and set of expiries, the clock
unbounded.  All steps are reduced to one fact (`StepWrites`): a step writes one
decision at most, only where there was none, and an approval only before the expiry.

## The governed runtime

`AgentRuntime` models `execute` and `resume` of `runtime/execution.py` over one store
and one broker (instances `Store` and `Broker`).  A call is a process; a step is the
code between two calls of the store, the broker or a handler, or between two uses of
the tables the runtime guards with locks.

| `pc` | code (execution.py) | action |
| --- | --- | --- |
| `idle` | reuse check in `_traces` (645), first look of `resume` (478) | `CheckTraces`, `Fetch` |
| `lookup`, `open`, `admit` | `find_execution` (649), `get_or_create` (651), pending check and registration (657-721) | `CheckStore`, `Open`, `Admit` |
| `plan` | input check, provider, `_validate_plan` (759-973) | `AcceptPlan`, `RefuseInput`, `RefusePlan`, `ProviderFails` |
| `step` | one iteration of the plan (975-1513); `tools.get` raises (983) | `Handle`, `Gate`, `Deny`, `FinishPlan`; `StepRaises` |
| `compose` | composition, verification, safety (1515-1637) | `Compose`, `ProviderFails` |
| any of these three | `control.check`, `_control_failure` (401-410, 1943) | `Interrupt`, `InterruptEscapes` |
| `finish` | `_finish` (2579) | `Finish` |
| `remember`, `checkpoint`, `persist` | `_remember_pending_approval`, `_persist_pending_checkpoint` (2165, 2267) | `Remember`, `Checkpoint`, `Persist`, `CheckpointRaises` |
| `leave` | the finally clause of `execute` (407) | `Leave` |
| `restore`, `adopt` | `_restore_pending_approval` (2201) | `Restore`, `Adopt` |
| `decide`, `take` | the decision and its validation (493-543) | `StillWaiting`, `DecideFromBroker`, `DecideFromCaller`, `Take` |
| `consume`, `consume_broker` | consumption (592-598) | `Consume`, `ConsumeInBroker` |
| `merge`, `recheck`, `repersist` | `_merge_resumed_trace` (2384) | `Merge`, `Recheck`, `Repersist`, `RepersistRaises` |
| `close`, `close_finish`, `close_pop` | `_close_pending_approval` (2312) | `Close`, `CloseFinish`, `ClosePop` |

A plan is a sequence of actions (exact digests); a resume continues at the step its
checkpoint names; `merged` is the pause that `_merge_resumed_trace` read under the table's
lock and writes back two steps later.  `handled` and `called` are history variables.  `ApprovalGate` is the
abstract specification: the steps of a plan run in order, a gated one only after its exact
action was granted, and each once unless a call was cut off (by an exception that left it,
or by a restart).  Its `mark` is where a later call would begin: the stored checkpoint, the
first step where no row names the execution, else behind all that has run.  `Settle` is a
run, or the closing of one, saved at its end: the mark moves behind what has run, and losses
before it count no more.  Once an execution is `lost` a later call may run again from the
mark, never from before it.  In the code that is a call cut off after it had begun there: a
resume acting on the very checkpoint that is stored, or an execute that had opened its row.

Left out: the idempotency cache of the tool registry (a step stands for
`tools.invoke`; without an idempotency key, which is optional, it calls the handler; the
cache is `ToolRegistry`'s), the permission decision (`Authority`'s),
principal checks of `resume` (one principal; it is always given, so a lost pending approval can be restored), brokers that decide during `submit` other
than by expiry, the time between the creation of a request and its submission, trace
contents, exceptions of the stores, brokers and extensions that the code does not expect
(that of `tools.get` inside the step loop, where a tool was withdrawn after the plan had been
validated, is `StepRaises`; finding 4 reaches it in `GovernedRuns`), and the
`approved_action_digests` an application may hand to `execute` itself (execution.py 323,
614): approval then is the application's word, and nothing here is about it.

| Run | Instance | Question |
| --- | --- | --- |
| `runtime_pause` | plan gate, free, gate; 3 resumes one at a time; interruptions, withdrawn tools, restarts at any step; no expiry | refinement of the gate; memory and store agree |
| `runtime_crash` | the same plan and resumes; withdrawn tools, restarts at any step; expiry 1, clock to 2 | what an exception or a restart may lose or repeat |
| `runtime_overlap` | 1 gate, 2 resumes at any time with the broker's decision, exact or mismatched evidence, expiry and clock 1, interruptions, withdrawn tools | approval, expiry and answers under overlap |
| `runtime_consumed`, `runtime_replay` | 2 resumes at once; 2 executions of one session | findings 2 and 3 |

Three resumes are what a plan with two gates needs to be approved, approved and asked
once more.  The clock, with an expiry that falls between any two steps, is in
`runtime_crash` and `runtime_overlap`; in `runtime_pause` reviewers reject and expire a
request at any point instead (the gate and the row see the decision, not the time), which
leaves room for every kind of fault at once.  Without "overlap" the application
makes one call at a time per execution, as `tests/` do; two executions may always
overlap.  Nothing is said under fairness here: the properties are safety properties.

### Findings

2. `runtime_consumed`: `resume` looks at the consumed set only after the plan has run, so
   of two overlapping resumes the second runs the action of a consumed request and
   raises afterwards.  `docs/adr/0006` line 41: "A consumed request cannot run again."
   Still true (`runtime_overlap`): every handler call was approved, and of the resumes
   that act on one request one at most returns an outcome, the others raise
   (`OneResumeAnswers`).  Resumes of different requests of one execution may each return
   one: of two overlapping resumes of a plan with two gates both may be told that it
   completed.
3. `runtime_replay`: two executions of one session share a row (the default state id is
   the session id).  When the second displaces the row, the checkpoint of a resume that
   has already run its step raises, and `resume` puts the old pending approval back: the
   next resume runs the step again.  `docs/adr/0006` line 45.  Another execution is not
   needed for it: a tool withdrawn in the middle of a resumed plan makes `tools.get` raise
   (execution.py 983), the same clause puts the old pending approval back (590), and the
   steps that have run since run again.  `runtime_pause` has that case; `ImplementsGate`
   bounds it: from the stored pause on, nothing before it.

Both reach the handler only for steps without an idempotency key or tools whose result
was not cached.  Sharing a row also limits `PausedIsResumable`: an execution that ends
in a session writes over the checkpoint of another that is still paused there, which
cannot be resumed after a restart (execution.py 2595; `docs/adr/0007` line 13).
`runtime_crash` checks it for a session with one execution.

### Proofs

`AgentRuntimeProofs` has two parts.  The first assumes nothing beyond `RuntimeAssumption`
and `NoneAssumption`: any calls, plans, evidence, overlaps, interruptions, withdrawn tools
and crashes.

- `GatedHandlersApproved` (`HandlersRunApproved`): a step whose action is gated has run
  only if a request of its execution for that exact action was approved, by a decision
  the broker recorded before the request's expiry or by one a caller passed to `resume`
  (`ApprovedByCaller`).
- `LateResumesAreRefused` (`LateResumesRunNothing`): a resume that is called once its request
  has expired runs nothing, whatever it finds out later.
- `ResumesAnswerOnce` (`OneResumeAnswers`): of the resumes that act on one request one at most
  returns an outcome.  `SpendInv`: a resume that may still answer has its request among the
  consumed ones of the broker, and is the only one that has (`OneConsumes`).

The first two follow from `GeneralInv`, the third needs it.  Its core: whatever is pending, checkpointed, held or to be
written back is `Genuine`, a pause at a step of its own execution with a request the broker
has for that step's action; a resume that works under approved actions has a decision for the request
it holds (`Cleared`); approved actions were granted to its execution (`Granted`).  The
broker keeps requests and decisions (`BrokerRemembers`), so all of it stays true.

The second part is about calls made one at a time (`OneAtATime`) by executions that do not
share a state (`OwnStates`), through any exceptions and restarts.  Both are up to
the application, and the code does not enforce them: the default state id is the session
id, and `resume` holds nothing while it runs.  Without them the properties are false or
weaker: `runtime_consumed` and `runtime_replay` are counterexamples, and of two overlapping
resumes of a plan with two gates both may be told that it completed.

| Theorem | Property | Invariant |
| --- | --- | --- |
| `RestartsLoseNoPause` | `PendingIsCheckpointed` | `SyncInv`: one call is in flight (`Alone`); at each place of it memory, store and its own copy of the row agree as `PendingAt` and `RowAt` say; a checkpoint's row is paused |
| `SpentRequestsRunNothing` | `ConsumedNeverRuns` | `SpentInv`: a request stands for the pause of the call that asked, and no pause that is pending, stored or being made has a consumed request |
| `PausesCanBeResumed`, `PassedStepsStayPassed` | `PausedIsResumable`, `PassedStepsNotReplayed` | `ToldInv`: a pause a caller was told of stays checkpointed until a resume acts on its request, and the execution goes on at its step or later (`Beyond`) |
| `CompletionsAreTold` | `CompletedOnce` (stated here only, no run checks it) | `CompletedInv`: a completed execution has nothing pending or stored, so every later call is refused |
| `RuntimeImplementsGate` | `ImplementsGate` | `GateInv`: a call stands at the step after the last that ran, or at the mark of a lost execution (`Stands`); between runs the mark is behind all that ran, or a run was lost (`Rests`); what may start over at its first step has no gate there (`StartsFree`), and a resume has the approval of the step it starts at (`Opens`), so that no run stops at a gate of a step that had run before (`GateAtNext`) |

`SyncInv` is proved locally: a call leaves what other executions see alone (`OwnStates`), so
each step is checked against the view one call has of its execution (`Synced`).

The refinement has one hypothesis more, `BrokerDecides`: the abstract gate's grants are
mapped to decisions the broker recorded, and a decision a caller brings along is recorded
nowhere.  Exceptions and restarts are no hypothesis but part of the gate (`Lose`).  A step
settles the execution exactly when it saves a run at its end (`FinishStores`, `SavesSettle`);
in every other step what was lost stays lost and the mark stays (`LostLasts`, `MarkStays`).
The run `runtime_pause` has the same hypotheses.

## Budgets, tools and provider calls

`ExecutionControl` is `runtime/control.py`, `ToolRegistry` the shared registry with
`invoke`, `ProviderCalls` is `providers/invocation.py`.  `GovernedRuns` composes them: the
same `_execute` as above, seen from what bounds it.

| Code | Definition |
| --- | --- |
| `ExecutionControl.check`, `admit_retry`, `record_provider_usage`, `record_tool_invocation` | `Stopped`, `SpendRetry`, `CountTokens`, `CountToolCall` |
| `invoke`: `get` and the refusals; the look at the kept results; an attempt | `Lookup`; `Replay`; `FirstAttempt` |
| `_run_with_timeout` of tools: result, error, the tool's timeout, cancellation or deadline | `TakeResult`, `TakeFailure`, `HandlerTimesOut`, `StopWaiting` |
| the loop of `_invoke_locked`: admission of a retry, backoff | `AskRetry`, `Backoff` |
| `activate_tool`, `suspend`, ...; `clear_idempotency` | `SetLifecycle`; `ClearIdempotency` |
| a handler's thread | `HandlerEnds` |
| `invoke_provider_call`, the controlled retry policy | `StartCall`, `StopCall`, `CallReturns`, `CallFails`, `AskProviderRetry`, `ProviderBackoff` |
| planning, composing, `_validate_plan`, the loop over the steps, the finally clause | `AskProvider` to `ProviderFailure`, `ValidateStep`, `AcceptPlan`, `BeginStep` to `ExhaustPlan`, `Close` |

`invoke` holds the registry's lock while a handler runs, so every other call waits for
it; a handler that is abandoned (timeout, deadline, cancellation) runs on in its thread
and nobody looks at its end.  `handlers` are these threads, `answers` and `started` history
variables.

Run `tool_calls`: two runs with the same idempotency key, or one without; one has a
deadline, the other can be cancelled; one write tool with two attempts and a timeout that
operators suspend; one retry, one tool call and 2 tokens per run; a provider with up to
two attempts.  The two runs are what sharing a key, a lock and a kept result needs; one
retry makes the provider and the tool compete for it.

- `OverlapOnlyAbandoned`: of two handlers that run at once one was abandoned.
- `OneKeyOneAnswer`: all calls under one key get the result of one attempt.
- `RetriesWithinBudget`: provider and tool retries together stay within the run's budget,
  and no write without a key is repeated.
- `RunsEnd` (liveness): every run ends, though handlers hang and runs wait for the lock.

Fairness: weak fairness of each run's own steps, as each has a thread.  Nothing is assumed
of handlers, deadlines or cancellation.  A waiting run always has a step because the tool
declares a timeout and the provider call returns or fails by the policy's; without a
tool timeout a hung handler would keep the lock forever.

Finding 4, `run_escapes`: each step looks its tool up a second time (execution.py 983), and
nothing catches the error of a tool that was suspended since the validation of the plan:
`execute` raises, without outcome, trace or saved state.  `docs/adr/0005` line 9: "The
runtime must close every run with a deterministic outcome."

### Proofs

`GovernedRunsProofs` proves the three safety properties for any runs, tools, keys, plans,
budgets and policies.  `TypeInv` adds to the types what each phase of a run says of its
provider call, tool call and plan.

- `HandlersAreApart`: `LockInv` ties the registry's lock to the one call inside it, and every
  handler that is not abandoned to the current attempt of that call.
- `OneAnswerPerKey`: `KeyInv`: a call that may still succeed under a key has found nothing kept
  under it, and what was answered is what is kept.  It holds because the lock is kept from
  the look at the kept results to the answer, and it uses `LockInv`.
- `RetriesArePaid`: `BudgetInv` is an account: the attempts begun, the retries left and the
  retries admitted but not begun never exceed the calls begun plus the budget.
  `CountInv` says which calls may have a second attempt at all.

`RunsEnd` stays with TLC.

Left out: the optional interpretation call (the same path as planning), cost (counted like
tokens), permission and approval (every step is permitted here), execution records.

## Registries and factory

`Registries` models the prompt, skill, agent and tool registries of one process.  A
component stands for one exact version.  Prompt and tool operations are one step each; a
validation of a skill or an agent keeps its own registry's lock (`holder`) and reads one
dependency per step (`ReadNext`) in the order of the code's walk, optional tools last and
transitive dependencies once per root (`visited`), before its change (`Finish`).  A
snapshot reads lists, then revisions, under no lock in between (`ReadPart`).

`AgentFactory` adds `build` (`Build` to `Assemble`: look-ups, `check_compatibility`, template
and strategies, the snapshot, registration, activation, the runtime; nothing is undone
when a later call raises) and `BuiltAgent.execute` / `resume` with their guards
(`Execute`, `EntryPassed`, `Guard`, `Resume`, `Run`).

Run `agents`: an agent over a prompt, a skill, a tool, and a tool that this tool depends on
and the skill may use; three catalogs at the start (everything active with a client that
calls the registries; the prompt, skill, agent and inner tool not registered; the agent
not registered and two clients that build it).  Between them at most 2, 2 and 1 lifecycle
events happen before no further change starts: one change in the middle of a walk and one
of its consequences are what the properties tell apart.

- `PassedWasUsable`: a validation never passes if some required component, at any depth,
  was unusable from its start to its end.  Nothing stronger holds: what was read may
  change before the walk ends.
- `RunsAreGuarded`: the same for every run or resume under way, whatever was built when.
- `OneRegisteringBuild`: of concurrent builds of one version at most one at a time is past
  its registration, under way or with its runtime built.  A build that registers and then
  fails to activate is not counted any more; the version stays registered.
- `SnapshotsReplay`: the contents of a snapshot are those of a revision up to the one it
  names.

### Proofs

`AgentFactoryProofs` proves all four for any catalog, cycles included, and any number of
clients.

- `ValidationsReadTheCatalog`: a walk has looked at a set E of components, none of them
  unusable since the walk began, and everything E requires is in E or still to be read
  (`Walked`).  When nothing is left E is closed, so it contains `Required`, the least closed
  set; no induction over the depth is needed.  `Sees` says that what counts as unusable
  throughout is usable at no moment of the walk.
- `SnapshotsHaveRevisions`: each registry's log has one change per revision and ends in its
  state (`Logged`); a list that was read is the state after some prefix of the log with
  no more changes than the revision read after it (`Replayed`).  Prefixes are compared
  by counting, with least and greatest elements (`LeastNatural`, `MaxBounded`) where one
  would expect an induction.
- `GuardsComeFirst`: a run begins with the validation its guard waited for (`Waits`).
- `VersionsAreBuiltOnce`: a version that a build owns is registered and not built, and has
  one owner (`Owned`).

Left out: audit records; the manifest's digest, as what it covers is the snapshot; selector
syntax.

## Decisions: authority, safety, delegation

`Authority` decides one plan step: the policy engine (`Evaluate`, with rules, mappings,
constraints and hooks), the default or a custom permission broker, the runtime's ceiling
on its answer (`Ceiling`), the approval policies, the pause and the second look after an
approval.  `HandlerWithinAuthority`: a handler runs only within the execution's tools,
permissions, environments and risk, with an exact approval where one is wanted, whatever
broker is installed; no deny rule that applies is overridden; and what the factory accepts
as an approval gate (`CoversTool`) does gate.  Instance: calls of one tool with at most one
identity or scope error, 7 engine configurations or a custom broker that may answer
anything, 3 sets of approval policies.

`SafetyPolicy` decides how a run ends: input refusal, marking of indirect injection,
`verify_outcome`, and the first rule that applies.  `CompletedIsClean` states from the
outside what "completed" promises, and that a person reviews what falls short.  Instance:
every combination of up to 2 results, 4 risks and 3 levels of confidence.

`Delegation` is `AgentComposer`: `delegate` (`Ask`, `Resolve`, `Admit`, `Start`, `End`) and
`compose` (`Compose`, `NextStep`), by several threads, children delegating in turn, agents
suspended meanwhile.  `DelegationNarrows` relates every execution to its parent.  Instance:
2 threads, 3 agents of which two use another version of a tool, 3 root contexts, up to 3
executions and 2 composition steps, depth 2.

They are pure or share nothing with the stores, so the run `components` (`MCComponents`,
which extends the modules of all seven parts) starts in one part and stays in it: a
behaviour is one of a single component, and the run is the union of seven.

### Proofs

`DecisionProofs` proves, for every call, policy engine, approval policy and answer of a
custom broker or a hook:

- `NoHandlerBeyondAuthority`.  The invariant relates a permission to the call, the engine
  and the approval from the moment it is given (`Permitted`), and says at which stages the
  approval policies have been heard (`Gated`).  The argument is about the engine: what it
  allows no matching rule denies (`AllowedIsUndenied`), and a rule that the factory takes
  for a gate makes it ask for approval whatever the other rules say
  (`CoveredNeedsApproval`).
- `PoliciesOnlyRestrict`, which no run states: with a further policy definition the engine
  allows no call that it denied and waives no approval that it asked for.  It is a fact of
  one decision, for engines that agree in all but their definitions (`Extends`).
- `CompletesOnlyClean`.  A verdict that is not a refusal of the input is what `DecideOutcome`
  makes of the results as they are now, as nothing is added after it (`Grounded`).

`DelegationProofs` proves, for every number of threads, agents, requests and compositions:

- `DelegationTypes` and `ChildrenAreNarrower`.  The checks of `delegate` run before its
  lock, so the invariant keeps what they established until the child is admitted
  (`CallsHold`): the parent exists, its context is unchanged and still accepts the
  request.  `Lineages` adds that parents come before children and that the id of every
  child is spent, which is why two children of one parent cannot share one.
- `ContextsStayFixed`: no step changes the context an execution was given, which is what
  makes the check before the lock sound.
- `NothingBeyondTheRoot`: by the two before it, a descendant of any generation stays within
  the tools, permissions, risk and steps of the execution that nobody delegated.  No
  induction over chains is needed, as a child is compared with the root when it is admitted.

They assume that risk levels and confidences are numbers (`CallAssumption`,
`ConfidenceAssumption`: both are ordered scales in the code), that requests and
compositions name agents and risks (`AgentAssumption`, `RequestAssumption`: the types of
`DelegationRequest` and `CompositionDefinition`), and that a root context is an execution
context without parent whose path repeats no agent (`RootAssumption`: the validator of
`ExecutionContext`, contracts.py 241-260).

## What is stated, proved, checked

Modules with state of their own state a type invariant; the runner's `TypeOK` is the one
a run names, and those of leases, records, broker, state clients, runner, runtime,
governed runs, factory, authority, safety and delegation are proved, most of them as
conjuncts of the inductive invariants.  No run names an inductive invariant.

| | Proved for every instance | Only model-checked |
| --- | --- | --- |
| leases, state, broker | all properties | - |
| records | `SettledKeepsStatus` under any calls; `SettledForGood`, as the runner uses them | - |
| runner | types, every safety property, the refinement of the ledger; `LeaseHolderClaims` without extractors that raise and handlers that abort | liveness |
| runtime, any calls | types, `HandlersRunApproved`, `LateResumesRunNothing`, `OneResumeAnswers` | - |
| runtime, serialized calls on separate states | every property, the refinement of the gate, `CompletedOnce` | - |
| tools, providers, budgets | every safety property | liveness |
| registries, factory | all properties | - |
| authority, safety | all properties; policy definitions only restrict | - |
| delegation | types, `DelegationNarrows`, fixed contexts, nothing beyond the root | - |

Three things are beyond TLAPS here: liveness under fairness, `ENABLED`, and what a
recursive definition computes.  No module declares a RECURSIVE operator.

## Plan

What the project could still say, in this order:

1. The runner composed with the runtime: parked events whose approval expires.
2. Context budgets and provider normalization as operators against reference definitions.

## Not modelled

Provider adapters and the normalization of their payloads, prompt context, redaction,
metrics, traces and audit records, evaluation exports and memory: I/O, formatting or pure
data without shared state.  Schema migration and row encoding of the SQLite store.  The
Python data types are modelled as far as decisions read their fields.
