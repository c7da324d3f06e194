-------------------------- MODULE BackgroundRunner --------------------------
(***************************************************************************)
(* background/runner.py, BackgroundJobRunner: concurrent calls of run (the  *)
(* deliveries of an event; several may carry the same deduplication key)    *)
(* and of resolve_pending (the commits of approval resumes), over the lease *)
(* and deduplication stores.  A call is one process; a step of it is the    *)
(* code between two calls of a store, the handler or the dead-letter sink.  *)
(*                                                                          *)
(* The handler and the input extractor are the application's.  The handler  *)
(* returns any outcome of Outcomes or raises any error of Errors, after any *)
(* delay.  Faults names what else the environment may do: "input" (the      *)
(* extractor raises), "abort" (the handler raises a BaseException, which    *)
(* run does not catch), "sink" (the dead-letter sink raises), "crash" (the  *)
(* worker stops between two steps and its finally never runs, the stores    *)
(* being durable ones behind the same protocols).                           *)
(***************************************************************************)
EXTENDS Naturals, Sequences

CONSTANTS Keys,         \* deduplication keys
          Deliveries,   \* calls of run; each is its own lease owner
          Resolvers,    \* calls of resolve_pending
          KeyOf,        \* the key of the event of each call
          Outcomes,     \* what the handler may return
          Errors,       \* what the handler may raise
          Faults,
          MaxAttempts,  \* BackgroundRetryPolicy.max_attempts
          TTL,          \* lease_ttl_seconds
          MaxTime,      \* bound of the clock
          None,         \* Python's None: no lease, record, outcome or result
          Raised        \* the result of a call that an exception left

Callers == Deliveries \union Resolvers

SuccessOutcomes == {"completed", "partial"}

\* OutcomeStatus; "failed_budget" is FAILED with the budget_exhausted flag.
OutcomeKinds == SuccessOutcomes \union
  {"escalated", "cancelled", "failed", "failed_budget", "needs_input", "refused",
   "timed_out"}

\* An exception by its code attribute, else by its retryable attribute.
ErrorKinds == {"execution_cancelled", "budget_exhausted", "retryable", "other"}

ASSUME RunnerAssumption ==
  /\ Deliveries \intersect Resolvers = {}
  /\ KeyOf \in [Callers -> Keys]
  /\ Outcomes \subseteq OutcomeKinds
  /\ Errors \subseteq ErrorKinds
  /\ Faults \subseteq {"input", "abort", "sink", "crash"}
  /\ MaxAttempts \in Nat \ {0}
  /\ TTL \in Nat \ {0}
  /\ MaxTime \in Nat

VARIABLES
  leases, granted, now,   \* LeaseStore
  records,                \* DedupStore
  deadLetters,            \* ListDeadLetterSink.records
  pc,                     \* where each call is
  attempt,                \* the loop counter of each delivery
  last,                   \* last_outcome and last_category of each call
  snapshot,               \* the record each resolver has read
  result                  \* the JobResult of each call, or Raised

leaseVars == <<leases, granted, now>>
vars == <<leases, granted, now, records, deadLetters, pc, attempt, last, snapshot, result>>

Executions == Deliveries \X (1 .. MaxAttempts)

Leases == INSTANCE LeaseStore WITH Holders <- Deliveries, NoLease <- None
Dedup  == INSTANCE DedupStore WITH Events <- Keys, Claimants <- Deliveries,
            EventExecutions <- Executions, NoRecord <- None, NoOutcome <- None

-----------------------------------------------------------------------------
(* Classification of what the handler did. *)

Categories == {"retryable_transient", "permanent", "cancelled", "budget_exhausted",
               "approval_required", "lease_lost"}

ClassifyOutcome(o) ==
  CASE o = "cancelled"     -> "cancelled"
    [] o = "escalated"     -> "approval_required"
    [] o = "failed_budget" -> "budget_exhausted"
    [] o = "failed"        -> "retryable_transient"
    [] OTHER               -> "permanent"

ClassifyException(e) ==
  CASE e = "execution_cancelled" -> "cancelled"
    [] e = "budget_exhausted"    -> "budget_exhausted"
    [] e = "retryable"           -> "retryable_transient"
    [] OTHER                     -> "permanent"

Dispositions == {"completed", "duplicate", "failed", "dead_lettered", "cancelled",
                 "pending_approval", "lease_conflict"}

FinalDisposition(category) ==
  CASE category = "cancelled"         -> "cancelled"
    [] category = "budget_exhausted"  -> "failed"
    [] category = "approval_required" -> "pending_approval"
    [] OTHER                          -> "dead_lettered"

NoCategory == "none"

JobResult ==
  [disposition      : Dispositions,
   execution_id     : Executions \union {None},
   attempt          : Nat,
   outcome          : OutcomeKinds \union {None},
   failure_category : Categories \union {NoCategory}]

LeaseConflictResult ==
  [disposition |-> "lease_conflict", execution_id |-> None, attempt |-> 0,
   outcome |-> None, failure_category |-> "lease_lost"]

\* _stored_result, with _duplicate_result and _pending_result: the answer of a
\* delivery that finds the event parked or settled.
StoredDisposition(status) ==
  CASE status = "completed"        -> "duplicate"
    [] status = "pending_approval" -> "pending_approval"
    [] status = "failed"           -> "failed"
    [] OTHER                       -> "dead_lettered"

StoredCategory(record) ==
  CASE record.status = "completed"        -> NoCategory
    [] record.status = "pending_approval" -> "approval_required"
    [] record.outcome = None         -> "permanent"
    [] OTHER                              -> ClassifyOutcome(record.outcome)

StoredResult(record) ==
  [disposition      |-> StoredDisposition(record.status),
   execution_id     |-> record.execution_id,
   attempt          |-> record.attempt,
   outcome          |-> record.outcome,
   failure_category |-> StoredCategory(record)]

\* Python's None is none of the values it stands in for.
ASSUME NoneAssumption ==
  /\ None \notin Leases!Lease
  /\ None \notin Dedup!DedupRecord
  /\ None \notin OutcomeKinds
  /\ None \notin JobResult
  /\ Raised \notin JobResult \union {None}

-----------------------------------------------------------------------------
(* One call's view of the stores. *)

Key(c)       == KeyOf[c]
Execution(d) == <<d, attempt[d]>>
Version(d)   == granted[Key(d)][d].version

Parked(k)  == Dedup!HasStatus(k, {"pending_approval"} \union Dedup!TerminalStatus)

Goto(c, to) == pc' = [pc EXCEPT ![c] = to]

\* The call has its answer; a delivery that holds a lease still releases it.
Answer(c, to, r) == Goto(c, to) /\ result' = [result EXCEPT ![c] = r]

Conflict(d) == Answer(d, "release", LeaseConflictResult)

FreshResult(d, disposition, category) ==
  [disposition |-> disposition, execution_id |-> Execution(d), attempt |-> attempt[d],
   outcome |-> last[d].outcome, failure_category |-> category]

-----------------------------------------------------------------------------
(* run *)

\* The first look at the record, before any lease.
Lookup(d) ==
  /\ pc[d] = "idle"
  /\ \/ Parked(Key(d)) /\ Answer(d, "done", StoredResult(records[Key(d)]))
     \/ ~ Parked(Key(d)) /\ Goto(d, "acquire") /\ UNCHANGED result
  /\ UNCHANGED <<leaseVars, records, deadLetters, attempt, last, snapshot>>

AcquireLease(d) ==
  /\ pc[d] = "acquire"
  /\ \/ /\ Leases!Acquire(Key(d), d)
        /\ Goto(d, "claim")
        /\ UNCHANGED result
     \/ /\ Leases!HeldByOther(Key(d), d)
        /\ Answer(d, "done", LeaseConflictResult)
        /\ UNCHANGED leaseVars
  /\ UNCHANGED <<records, deadLetters, attempt, last, snapshot>>

Claim(d) ==
  /\ pc[d] = "claim"
  /\ \/ Dedup!MarkInProgress(Key(d), <<d, 1>>, 0, d, Version(d)) /\ Goto(d, "input")
     \/ /\ Dedup!ClaimRefused(Key(d), d, Version(d))
        /\ Goto(d, "reread")
        /\ UNCHANGED records
  /\ UNCHANGED <<leaseVars, deadLetters, attempt, last, snapshot, result>>

\* The claim was refused: a parked or settled record answers, any other record
\* is a conflict.
Reread(d) ==
  /\ pc[d] = "reread"
  /\ \/ Parked(Key(d)) /\ Answer(d, "release", StoredResult(records[Key(d)]))
     \/ ~ Parked(Key(d)) /\ Conflict(d)
  /\ UNCHANGED <<leaseVars, records, deadLetters, attempt, last, snapshot>>

\* Extract the input and call the handler for the first time.  Nothing looks at
\* the record or the lease again on the way.
CallHandler(d) ==
  /\ pc[d] = "input"
  /\ Goto(d, "handling")
  /\ attempt' = [attempt EXCEPT ![d] = 1]
  /\ UNCHANGED <<leaseVars, records, deadLetters, last, snapshot, result>>

InputRaises(d) ==
  /\ pc[d] = "input"
  /\ "input" \in Faults
  /\ Answer(d, "release", Raised)
  /\ UNCHANGED <<leaseVars, records, deadLetters, attempt, last, snapshot>>

\* Mutations of the retry bound: one attempt too many, one too few.
OneMoreAttempt(d, o, category) ==
  CASE o \in SuccessOutcomes -> "commit"
    [] o \notin SuccessOutcomes /\ category = "retryable_transient"
         /\ attempt[d] <= MaxAttempts -> "retry"
    [] OTHER -> "settle"

OneAttemptLess(d, o, category) ==
  CASE o \in SuccessOutcomes -> "commit"
    [] o \notin SuccessOutcomes /\ category = "retryable_transient"
         /\ attempt[d] + 1 < MaxAttempts -> "retry"
    [] OTHER -> "settle"

\* Where the loop goes after an attempt: commit a success, retry a transient
\* failure while attempts remain, else settle the event with the last failure.
AfterAttempt(d, o, category) ==
  CASE o \in SuccessOutcomes -> "commit"
    [] o \notin SuccessOutcomes /\ category = "retryable_transient"
         /\ attempt[d] < MaxAttempts -> "retry"
    [] OTHER -> "settle"

EndAttempt(d, o, category) ==
  /\ pc[d] = "handling"
  /\ Goto(d, AfterAttempt(d, o, category))
  /\ last' = [last EXCEPT ![d] = [outcome |-> o, category |-> category]]
  /\ UNCHANGED <<leaseVars, records, deadLetters, attempt, snapshot, result>>

HandlerReturns(d) == \E o \in Outcomes : EndAttempt(d, o, ClassifyOutcome(o))

HandlerRaises(d) == \E e \in Errors : EndAttempt(d, None, ClassifyException(e))

HandlerAborts(d) ==
  /\ pc[d] = "handling"
  /\ "abort" \in Faults
  /\ Answer(d, "release", Raised)
  /\ UNCHANGED <<leaseVars, records, deadLetters, attempt, last, snapshot>>

\* Mutation: a retry does not count as an attempt.
RetryForFree(d) ==
  /\ pc[d] = "retry"
  /\ Dedup!MarkInProgress(Key(d), Execution(d), attempt[d], d, Version(d))
  /\ Goto(d, "handling")
  /\ UNCHANGED <<leaseVars, deadLetters, attempt, last, snapshot, result>>

\* A retry renews the claim under a new execution id, with the first lease.
Retry(d) ==
  LET next == attempt[d] + 1 IN
  /\ pc[d] = "retry"
  /\ attempt' = [attempt EXCEPT ![d] = next]
  /\ \/ /\ Dedup!MarkInProgress(Key(d), <<d, next>>, attempt[d], d, Version(d))
        /\ Goto(d, "handling")
        /\ UNCHANGED result
     \/ /\ Dedup!ClaimRefused(Key(d), d, Version(d))
        /\ Conflict(d)
        /\ UNCHANGED records
  /\ UNCHANGED <<leaseVars, deadLetters, last, snapshot>>

Commit(d) ==
  /\ pc[d] = "commit"
  /\ \/ /\ Dedup!MarkTerminal(Key(d), Execution(d), d, Version(d), "completed", last[d].outcome)
        /\ Answer(d, "release", FreshResult(d, "completed", NoCategory))
     \/ /\ ~ Dedup!CanSettle(Key(d), Execution(d), d, Version(d))
        /\ Conflict(d)
        /\ UNCHANGED records
  /\ UNCHANGED <<leaseVars, deadLetters, attempt, last, snapshot>>

\* The last attempt escalated: park the event until resolve_pending.
Park(d) ==
  /\ pc[d] = "settle"
  /\ FinalDisposition(last[d].category) = "pending_approval"
  /\ \/ /\ Dedup!MarkPendingApproval(Key(d), Execution(d), d, Version(d), last[d].outcome)
        /\ Answer(d, "release",
                  FreshResult(d, "pending_approval", last[d].category))
     \/ /\ ~ Dedup!CanPark(Key(d), Execution(d), d, Version(d))
        /\ Conflict(d)
        /\ UNCHANGED records
  /\ UNCHANGED <<leaseVars, deadLetters, attempt, last, snapshot>>

\* Mutations: evidence for a record this delivery could not settle, or none for
\* one it did.
SettleRegardless(d) ==
  /\ pc[d] = "settle"
  /\ FinalDisposition(last[d].category) # "pending_approval"
  /\ \/ Dedup!MarkTerminal(Key(d), Execution(d), d, Version(d), "dead_lettered",
                           last[d].outcome)
     \/ /\ ~ Dedup!CanSettle(Key(d), Execution(d), d, Version(d))
        /\ UNCHANGED records
  /\ Goto(d, "evidence")
  /\ UNCHANGED <<leaseVars, deadLetters, attempt, last, snapshot, result>>

SettleSilently(d) ==
  /\ pc[d] = "settle"
  /\ Dedup!MarkTerminal(Key(d), Execution(d), d, Version(d), "dead_lettered",
                        last[d].outcome)
  /\ Answer(d, "release",
            FreshResult(d, FinalDisposition(last[d].category), last[d].category))
  /\ UNCHANGED <<leaseVars, deadLetters, attempt, last, snapshot>>

\* Every other last attempt settles the record as dead-lettered, whatever
\* disposition its own caller is about to be given.
SettleFailure(d) ==
  /\ pc[d] = "settle"
  /\ FinalDisposition(last[d].category) # "pending_approval"
  /\ \/ /\ Dedup!MarkTerminal(Key(d), Execution(d), d, Version(d), "dead_lettered",
                              last[d].outcome)
        /\ Goto(d, "evidence")
        /\ UNCHANGED result
     \/ /\ ~ Dedup!CanSettle(Key(d), Execution(d), d, Version(d))
        /\ Conflict(d)
        /\ UNCHANGED records
  /\ UNCHANGED <<leaseVars, deadLetters, attempt, last, snapshot>>

DeadLetterRecord ==
  [key : Keys, execution_id : Executions, failure_category : Categories,
   final_disposition : Dispositions]

DeadLetter(c, x, disposition) ==
  [key |-> Key(c), execution_id |-> x, failure_category |-> last[c].category,
   final_disposition |-> disposition]

\* The evidence follows the settled record in a separate call.
RecordDeadLetter(d) ==
  LET disposition == FinalDisposition(last[d].category) IN
  /\ pc[d] = "evidence"
  /\ \/ /\ deadLetters' = Append(deadLetters, DeadLetter(d, Execution(d), disposition))
        /\ Answer(d, "release", FreshResult(d, disposition, last[d].category))
     \/ /\ "sink" \in Faults
        /\ Answer(d, "release", Raised)
        /\ UNCHANGED deadLetters
  /\ UNCHANGED <<leaseVars, records, attempt, last, snapshot>>

\* The finally clause; a lease that went to another owner is left alone.
ReleaseLease(d) ==
  /\ pc[d] = "release"
  /\ Goto(d, "done")
  /\ \/ Leases!Release(Key(d), d)
     \/ Leases!ReleaseRefused(Key(d), d) /\ UNCHANGED leaseVars
  /\ UNCHANGED <<records, deadLetters, attempt, last, snapshot, result>>

HoldsLease(d) ==
  pc[d] \in {"claim", "reread", "input", "handling", "retry", "commit", "settle",
             "evidence", "release"}

Crash(d) ==
  /\ "crash" \in Faults
  /\ HoldsLease(d)
  /\ pc' = [pc EXCEPT ![d] = "crashed"]
  /\ UNCHANGED <<leaseVars, records, deadLetters, attempt, last, snapshot, result>>

-----------------------------------------------------------------------------
(* resolve_pending *)

\* Every other record raises ValueError.  The outcome is that of the resumed
\* execution, so its execution id is the record's.
ReadPending(r) ==
  /\ pc[r] = "idle"
  /\ Dedup!HasStatus(Key(r), {"pending_approval"})
  /\ Goto(r, "resolving")
  /\ snapshot' = [snapshot EXCEPT ![r] = records[Key(r)]]
  /\ \E o \in Outcomes :
       last' = [last EXCEPT ![r] = [outcome |-> o, category |-> ClassifyOutcome(o)]]
  /\ UNCHANGED <<leaseVars, records, deadLetters, attempt, result>>

ResolvedResult(r, disposition, n, category) ==
  [disposition |-> disposition, execution_id |-> snapshot[r].execution_id, attempt |-> n,
   outcome |-> last[r].outcome, failure_category |-> category]

\* The resume escalated again: the event stays parked with the new outcome.
ResolveEscalated(r) ==
  LET s == snapshot[r] IN
  /\ pc[r] = "resolving"
  /\ last[r].outcome = "escalated"
  /\ \/ /\ Dedup!MarkPendingApproval(Key(r), s.execution_id, s.lease_owner, s.lease_version,
                                     last[r].outcome)
        /\ Answer(r, "done",
                  ResolvedResult(r, "pending_approval", s.attempt, "approval_required"))
     \/ /\ ~ Dedup!CanPark(Key(r), s.execution_id, s.lease_owner, s.lease_version)
        /\ Answer(r, "done", Raised)
        /\ UNCHANGED records
  /\ UNCHANGED <<leaseVars, deadLetters, attempt, last, snapshot>>

ResolveSettled(r) ==
  LET s == snapshot[r]
      success == last[r].outcome \in SuccessOutcomes
      status == IF success THEN "completed" ELSE "dead_lettered"
  IN
  /\ pc[r] = "resolving"
  /\ last[r].outcome # "escalated"
  /\ \/ /\ Dedup!MarkTerminal(Key(r), s.execution_id, s.lease_owner, s.lease_version,
                              status, last[r].outcome)
        /\ IF success
           THEN Answer(r, "done",
                       ResolvedResult(r, "completed", s.attempt + 1, NoCategory))
           ELSE Goto(r, "evidence") /\ UNCHANGED result
     \/ /\ ~ Dedup!CanSettle(Key(r), s.execution_id, s.lease_owner, s.lease_version)
        /\ Answer(r, "done", Raised)
        /\ UNCHANGED records
  /\ UNCHANGED <<leaseVars, deadLetters, attempt, last, snapshot>>

ResolveDeadLetter(r) ==
  LET s == snapshot[r] IN
  /\ pc[r] = "evidence"
  /\ \/ /\ deadLetters' = Append(deadLetters, DeadLetter(r, s.execution_id, "dead_lettered"))
        /\ Answer(r, "done",
                  ResolvedResult(r, "dead_lettered", s.attempt + 1, last[r].category))
     \/ /\ "sink" \in Faults
        /\ Answer(r, "done", Raised)
        /\ UNCHANGED deadLetters
  /\ UNCHANGED <<leaseVars, records, attempt, last, snapshot>>

-----------------------------------------------------------------------------

Init ==
  /\ Leases!LeaseInit
  /\ Dedup!DedupInit
  /\ deadLetters = <<>>
  /\ pc = [c \in Callers |-> "idle"]
  /\ attempt = [d \in Deliveries |-> 0]
  /\ last = [c \in Callers |-> [outcome |-> None, category |-> "permanent"]]
  /\ snapshot = [r \in Resolvers |-> None]
  /\ result = [c \in Callers |-> None]

\* What a delivery does once it has started.
Run(d) ==
  \/ AcquireLease(d) \/ Claim(d) \/ Reread(d) \/ CallHandler(d) \/ InputRaises(d)
  \/ HandlerReturns(d) \/ HandlerRaises(d) \/ HandlerAborts(d) \/ Retry(d)
  \/ Commit(d) \/ Park(d) \/ SettleFailure(d) \/ RecordDeadLetter(d) \/ ReleaseLease(d)

\* What a resolver does once it has read its record.
Resolve(r) == ResolveEscalated(r) \/ ResolveSettled(r) \/ ResolveDeadLetter(r)

Tick ==
  /\ now < MaxTime
  /\ Leases!Tick
  /\ UNCHANGED <<records, deadLetters, pc, attempt, last, snapshot, result>>

Next ==
  \/ \E d \in Deliveries : Lookup(d) \/ Run(d) \/ Crash(d)
  \/ \E r \in Resolvers : ReadPending(r) \/ Resolve(r)
  \/ Tick

Spec == Init /\ [][Next]_vars

\* A started call keeps running: no step of it waits for another call, and the
\* handler returns or raises in the end.  Deliveries and the clock owe nothing.
FairSpec ==
  /\ Spec
  /\ \A d \in Deliveries : WF_vars(Run(d))
  /\ \A r \in Resolvers : WF_vars(Resolve(r))

-----------------------------------------------------------------------------
(* Properties *)

PcStates == {"idle", "acquire", "claim", "reread", "input", "handling", "retry", "commit",
             "settle", "evidence", "release", "done", "crashed", "resolving"}

\* The shape of the state.
TypeOK ==
  /\ Leases!LeaseTypeOK
  /\ Dedup!DedupTypeOK
  /\ deadLetters \in Seq(DeadLetterRecord)
  /\ pc \in [Callers -> PcStates]
  /\ attempt \in [Deliveries -> 0 .. MaxAttempts]
  /\ last \in [Callers -> [outcome : Outcomes \union {None}, category : Categories]]
  /\ snapshot \in [Resolvers -> Dedup!DedupRecord \union {None}]
  /\ result \in [Callers -> JobResult \union {None, Raised}]

\* A settled event is final: no later delivery, stale worker or late resolver
\* changes its status, execution or outcome (ADR 0011: "a stale worker cannot
\* overwrite a newer result").
SettledIsFinal ==
  [][\A k \in Keys : Dedup!IsTerminal(k) => records'[k] = records[k]]_vars

\* While a delivery that passed its claim still has an unexpired lease, the
\* record is its own claim: no other delivery, however late or early its lease,
\* has taken the event from it, and its own attempt has not been settled.
Working == {"input", "handling", "retry", "commit", "settle"}

LiveWorkerOwnsRecord ==
  \A d \in Deliveries :
    pc[d] \in Working /\ Leases!Unexpired(granted[Key(d)][d])
      => /\ Dedup!HasStatus(Key(d), {"in_progress"})
         /\ records[Key(d)].lease_owner = d

\* A delivery whose lease is the stored one is never refused the claim of an
\* event that is neither parked nor settled: after an expiry the next lease has
\* a larger version than any claim left behind.
LeaseHolderClaims ==
  \A d \in Deliveries :
    pc[d] = "claim" /\ leases[Key(d)] = granted[Key(d)][d] /\ ~ Parked(Key(d))
      => ~ Dedup!ClaimRefused(Key(d), d, Version(d))

\* Why that holds.  The lease of a key is its owner's copy, and an unexpired copy
\* is the lease.  A delivery at its claim that could still take the event has a
\* version no larger than the lease's, and only the lease's owner has that one;
\* past its claim, the record carries its version or a larger one.
PastClaim == Working \union {"reread", "evidence", "release"}

CopiesAgree ==
  \A k \in Keys :
    /\ leases[k] # None => leases[k] = granted[k][leases[k].owner] /\ Key(leases[k].owner) = k
    /\ \A d \in Deliveries :
         /\ granted[k][d] # None => granted[k][d].owner = d
         /\ Leases!Unexpired(granted[k][d]) => leases[k] = granted[k][d]

CanSupersede(d) ==
  /\ pc[d] = "claim"
  /\ ~ Parked(Key(d))
  /\ records[Key(d)] = None \/ records[Key(d)].lease_version < Version(d)

NewestIsLeased(d) ==
  CanSupersede(d)
    => /\ leases[Key(d)] # None
       /\ Version(d) <= leases[Key(d)].version
       /\ Version(d) = leases[Key(d)].version => leases[Key(d)].owner = d

ClaimIsRecorded(d) ==
  pc[d] \in PastClaim
    => \/ Parked(Key(d))
       \/ records[Key(d)] # None /\ records[Key(d)].lease_version >= Version(d)

LiveClaim(d) ==
  pc[d] \in Working /\ Leases!Unexpired(granted[Key(d)][d])
    => /\ Dedup!HasStatus(Key(d), {"in_progress"})
       /\ records[Key(d)].lease_owner = d
       /\ records[Key(d)].lease_version = Version(d)

ClaimInv ==
  /\ CopiesAgree
  /\ \A d \in Deliveries : NewestIsLeased(d) /\ ClaimIsRecorded(d) /\ LiveClaim(d)
  /\ \A r \in Resolvers : pc[r] = "resolving" => Parked(Key(r))

Answered(c) == result[c] \notin {None, Raised}

AnsweredAs(c, dispositions) == Answered(c) /\ result[c].disposition \in dispositions

\* Every caller told a final disposition was told the one of the record: same
\* execution, same outcome, success for success.  It stays true after the answer.
AnswersMatchRecord ==
  \A c \in Callers :
    LET r == records[Key(c)] IN
    /\ AnsweredAs(c, {"completed", "duplicate"})
         => Dedup!HasStatus(Key(c), {"completed"})
    /\ AnsweredAs(c, {"dead_lettered", "failed", "cancelled"})
         => Dedup!HasStatus(Key(c), {"dead_lettered"})
    /\ AnsweredAs(c, Dispositions \ {"lease_conflict", "pending_approval"})
         => r.execution_id = result[c].execution_id /\ r.outcome = result[c].outcome

\* At most one call for an event is told that it completed it.
OneCompletion ==
  \A c, e \in Callers :
    Key(c) = Key(e) /\ AnsweredAs(c, {"completed"}) /\ AnsweredAs(e, {"completed"})
      => c = e

\* The sink holds at most one record per event, for the execution and the
\* failure that settled it.
EvidenceMatchesRecord ==
  \A i \in 1 .. Len(deadLetters) :
    LET e == deadLetters[i] IN
    /\ Dedup!HasStatus(e.key, {"dead_lettered"})
    /\ records[e.key].execution_id = e.execution_id
    /\ \A j \in 1 .. Len(deadLetters) : deadLetters[j].key = e.key => j = i

\* A delivery gives an event up for a transient failure only after its last
\* attempt (ADR 0011: "retries are bounded and only retryable transient failures").
TransientFailuresExhaustRetries ==
  \A d \in Deliveries :
    pc[d] = "evidence" /\ last[d].category = "retryable_transient"
      => attempt[d] = MaxAttempts

HasEvidence(k) == \E i \in 1 .. Len(deadLetters) : deadLetters[i].key = k

\* Every started call ends: it answers or raises, unless its worker crashes.
StartedCallsReturn ==
  \A c \in Callers : (pc[c] # "idle") ~> (pc[c] \in {"done", "crashed"})

\* A dead-lettered event has its evidence in the end (when the sink accepts it).
DeadLettersAreRecorded ==
  \A k \in Keys : Dedup!HasStatus(k, {"dead_lettered"}) ~> HasEvidence(k)

-----------------------------------------------------------------------------
(* The runner implements EventLedger. *)

LedgerStatus(status) ==
  CASE status = "in_progress"      -> "open"
    [] status = "pending_approval" -> "parked"
    [] OTHER                       -> status

\* A claimed event is still open: a claim can be lost, a fate cannot.
LedgerEntry(k) ==
  IF ~ Parked(k)
  THEN [status |-> "open", execution_id |-> None, outcome |-> None]
  ELSE [status |-> LedgerStatus(records[k].status),
        execution_id |-> records[k].execution_id, outcome |-> records[k].outcome]

FinalAnswer(c) ==
  IF ~ AnsweredAs(c, Dispositions \ {"lease_conflict", "pending_approval"})
  THEN None
  ELSE [status |-> result[c].disposition, execution_id |-> result[c].execution_id,
        outcome |-> result[c].outcome]

Ledger == INSTANCE EventLedger
            WITH ledger <- [k \in Keys |-> LedgerEntry(k)],
                 told   <- [c \in Callers |-> FinalAnswer(c)]

\* Every behaviour of the runner, with the stores' states and the answers seen
\* through the mapping above, is one the ledger allows.
ImplementsLedger == Ledger!LedgerSpec
=============================================================================
