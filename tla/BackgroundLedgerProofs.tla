----------------------- MODULE BackgroundLedgerProofs -----------------------
(***************************************************************************)
(* What BackgroundRunner tells its callers, for every value of its          *)
(* constants: every answer agrees with the stored record, one call at most  *)
(* completes an event, the dead-letter sink has one record per event, the   *)
(* retries are used up before a transient failure settles an event, the     *)
(* runner implements EventLedger; and, when nothing leaves run by raising,  *)
(* the holder of the stored lease is never refused its claim.               *)
(***************************************************************************)
EXTENDS BackgroundRunnerProofs

-----------------------------------------------------------------------------
(* Steps by what they do to an event.  All four properties and the          *)
(* refinement need only this much of the actions.                           *)

FinalDispositions == {"completed", "duplicate", "failed", "dead_lettered", "cancelled"}

Final(c) == AnsweredAs(c, FinalDispositions)

\* The execution a call is about to settle its event with.
WorkedOn(c) == IF c \in Deliveries THEN Execution(c) ELSE snapshot[c].execution_id

\* A step of one call.
Acts(c) ==
  \/ c \in Deliveries /\ (Lookup(c) \/ Run(c) \/ Crash(c))
  \/ c \in Resolvers /\ (ReadPending(c) \/ Resolve(c))

\* All that the state holds about one call, its lease aside.
Progress(c) == IF c \in Deliveries THEN attempt[c] ELSE snapshot[c]

View(c) == <<pc[c], last[c], result[c], Progress(c)>>

\* Nobody but c moves, and no event but its own is written.
OnlyMoves(c) ==
  /\ \A e \in Callers : e # c => View(e)' = View(e)
  /\ \A k \in Keys : k # Key(c) => records'[k] = records[k]

Unanswered(c) == result[c] = None /\ pc[c] \notin {"release", "done", "crashed"}

GivesNoFinalAnswer(c) ==
  \/ result'[c] = result[c]
  \/ Unanswered(c) /\ ~ Final(c)' /\ pc'[c] \in {"release", "done"}

\* The event stays open, or nothing about it changes.
WorksOn(c) ==
  /\ OnlyMoves(c)
  /\ records'[Key(c)] = records[Key(c)] \/ (~ Parked(Key(c)) /\ ~ Parked(Key(c))')
  /\ pc'[c] # "evidence"
  /\ deadLetters' = deadLetters
  /\ GivesNoFinalAnswer(c)

\* The answer repeats a parked or settled record.
Repeats(c) ==
  /\ OnlyMoves(c)
  /\ records' = records
  /\ Parked(Key(c))
  /\ Unanswered(c)
  /\ pc'[c] \in {"release", "done"}
  /\ deadLetters' = deadLetters
  /\ result'[c] = StoredResult(records[Key(c)])

\* Only an open event, or the parked one of the same execution, is written.
Writes(c, status) ==
  /\ OnlyMoves(c)
  /\ Unanswered(c)
  /\ ~ Dedup!IsTerminal(Key(c))
  /\ records[Key(c)] # None
  /\ records[Key(c)].execution_id = WorkedOn(c)
  /\ WorkedOn(c) \in Executions
  /\ Dedup!HasStatus(Key(c), {status})'
  /\ records'[Key(c)].execution_id = WorkedOn(c)
  /\ records'[Key(c)].outcome = last[c].outcome
  /\ deadLetters' = deadLetters

Parks(c) ==
  /\ Writes(c, "pending_approval")
  /\ last[c].outcome \in Outcomes
  /\ pc'[c] \in {"release", "done"}
  /\ ~ Final(c)'

Completes(c) ==
  /\ Writes(c, "completed")
  /\ last[c].outcome \in Outcomes \intersect SuccessOutcomes
  /\ pc'[c] \in {"release", "done"}
  /\ AnsweredAs(c, {"completed"})'
  /\ result'[c].execution_id = WorkedOn(c)
  /\ result'[c].outcome = last[c].outcome

Fails(c) ==
  /\ Writes(c, "dead_lettered")
  /\ pc'[c] = "evidence"
  /\ last'[c] = last[c]
  /\ Progress(c)' = Progress(c)
  /\ result'[c] = result[c]

\* The evidence is recorded or lost, and the call answers or raises.
FailureDispositions == {"dead_lettered", "failed", "cancelled"}

Reports(c) ==
  /\ OnlyMoves(c)
  /\ pc[c] = "evidence"
  /\ result[c] = None
  /\ pc'[c] \in {"release", "done"}
  /\ records' = records
  /\ \/ deadLetters' = deadLetters
     \/ \E disposition \in Dispositions :
          deadLetters' = Append(deadLetters, DeadLetter(c, WorkedOn(c), disposition))
  /\ \/ result'[c] = Raised
     \/ /\ AnsweredAs(c, FailureDispositions)'
        /\ result'[c].execution_id = WorkedOn(c)
        /\ result'[c].outcome = last[c].outcome

\* No call moves and no event is touched: the clock, or a stuttering step.
Waits ==
  /\ \A c \in Callers : View(c)' = View(c)
  /\ UNCHANGED <<records, deadLetters>>

StepKind(c) ==
  WorksOn(c) \/ Repeats(c) \/ Parks(c) \/ Completes(c) \/ Fails(c) \/ Reports(c)

-----------------------------------------------------------------------------
(* What a call knows: how its last attempt was judged, and that an answer   *)
(* is the last thing it gives.                                              *)

Judged(d) ==
  /\ pc[d] = "commit" => last[d].outcome \in SuccessOutcomes
  /\ pc[d] \in {"settle", "evidence"} =>
       /\ last[d].category = "approval_required" => last[d].outcome # None
       /\ last[d].category = "retryable_transient" => attempt[d] = MaxAttempts
  /\ pc[d] = "evidence" => FinalDisposition(last[d].category) # "pending_approval"

AnswersLast(c) == pc[c] \in {"release", "done", "crashed"} \/ result[c] = None

CallInv ==
  /\ \A d \in Deliveries : Judged(d)
  /\ \A c \in Callers : AnswersLast(c)

\* Nobody has called yet.
LEMMA CallInit == Init => CallInv
<1> SUFFICES ASSUME Init PROVE CallInv
  OBVIOUS
<1>1. \A c \in Callers : pc[c] = "idle" /\ result[c] = None
  BY DEF Init
<1> QED
  BY <1>1, CallerKeys DEF CallInv, Judged, AnswersLast

\* A delivery that stays where it is keeps what it was told of its attempt.
LEMMA JudgedStays ==
  ASSUME CallInv, NEW d \in Deliveries, UNCHANGED <<pc[d], last[d], attempt[d]>>
  PROVE  Judged(d)'
  BY DEF CallInv, Judged

\* Only the end of an attempt leads to a commit or to the settling of a failure.
LEMMA JudgedMoves ==
  ASSUME TypeInv, CallInv, NEW d \in Deliveries, Lookup(d) \/ Run(d) \/ Crash(d)
  PROVE  Judged(d)'
<1>1. pc \in [Callers -> PcStates] /\ d \in Callers
  BY CallerKeys DEF TypeInv, TypeOK
<1>2. \A to : Goto(d, to) => pc'[d] = to
  BY <1>1 DEF Goto
<1>3. ASSUME HandlerReturns(d) \/ HandlerRaises(d) PROVE Judged(d)'
  <2>1. PICK o, category :
          /\ EndAttempt(d, o, category)
          /\ category = "approval_required" => o # None
    <3>1. \A e : ClassifyException(e) # "approval_required"
      BY DEF ClassifyException
    <3>2. \A o \in Outcomes : o # None
      BY RunnerAssumption, NoneAssumption
    <3> QED
      BY <1>3, <3>1, <3>2 DEF HandlerReturns, HandlerRaises
  <2>2. pc'[d] = AfterAttempt(d, o, category)
    BY <1>2, <2>1 DEF EndAttempt
  <2>3. /\ last'[d].outcome = o
        /\ last'[d].category = category
        /\ attempt'[d] = attempt[d]
    BY <1>1, <2>1 DEF EndAttempt, TypeInv, TypeOK
  <2>4. attempt[d] \in 0 .. MaxAttempts /\ MaxAttempts \in Nat
    BY RunnerAssumption DEF TypeInv, TypeOK
  <2> QED
    BY <2>1, <2>2, <2>3, <2>4 DEF Judged, AfterAttempt
<1>4. ASSUME SettleFailure(d) PROVE Judged(d)'
  BY <1>2, <1>4 DEF SettleFailure, Answer, Conflict, CallInv, Judged
<1>5. ASSUME pc'[d] \notin {"commit", "settle", "evidence"} PROVE Judged(d)'
  BY <1>5 DEF Judged
<1>6. CASE Crash(d)
  BY <1>1, <1>5, <1>6 DEF Crash
<1> QED
  BY <1>2, <1>3, <1>4, <1>5, <1>6
  DEF Run, Lookup, AcquireLease, Claim, Reread, CallHandler, InputRaises, HandlerAborts,
      Retry, Commit, Park, RecordDeadLetter, ReleaseLease, Answer, Conflict

\* A caller is answered by its own last step only.
LEMMA AnswersLastMoves ==
  ASSUME TypeInv, CallInv, NEW c \in Callers, Acts(c)
  PROVE  AnswersLast(c)'
<1>1. pc \in [Callers -> PcStates] /\ result \in [Callers -> JobResult \union {None, Raised}]
  BY DEF TypeInv, TypeOK
<1>2. \A to : Goto(c, to) => pc'[c] = to
  BY <1>1 DEF Goto
<1>3. CASE c \in Deliveries /\ (Lookup(c) \/ Run(c) \/ Crash(c))
  <2>1. CASE Crash(c)
    BY <1>1, <2>1 DEF Crash, AnswersLast
  <2>2. CASE Lookup(c)
    BY <1>2, <2>2 DEF Lookup, Answer, CallInv, AnswersLast
  <2>3. CASE AcquireLease(c) \/ Claim(c) \/ Reread(c) \/ CallHandler(c) \/ InputRaises(c)
    BY <1>2, <2>3 DEF AcquireLease, Claim, Reread, CallHandler, InputRaises, Answer, Conflict,
                      CallInv, AnswersLast
  <2>4. CASE HandlerReturns(c) \/ HandlerRaises(c) \/ HandlerAborts(c) \/ Retry(c)
    BY <1>2, <2>4 DEF HandlerReturns, HandlerRaises, EndAttempt, HandlerAborts, Retry, Answer,
                      Conflict, CallInv, AnswersLast
  <2>5. CASE Commit(c) \/ Park(c) \/ SettleFailure(c) \/ RecordDeadLetter(c) \/ ReleaseLease(c)
    BY <1>2, <2>5 DEF Commit, Park, SettleFailure, RecordDeadLetter, ReleaseLease, Answer,
                      Conflict, CallInv, AnswersLast
  <2> QED
    BY <1>3, <2>1, <2>2, <2>3, <2>4, <2>5 DEF Run
<1>4. CASE c \in Resolvers /\ (ReadPending(c) \/ Resolve(c))
  BY <1>2, <1>4 DEF ReadPending, Resolve, ResolveEscalated, ResolveSettled, ResolveDeadLetter,
                    Answer, CallInv, AnswersLast
<1> QED
  BY <1>3, <1>4 DEF Acts

\* A step of one call leaves the fields of every other alone.
LEMMA OneMover ==
  ASSUME TypeInv, NEW c \in Callers, NEW e \in Callers, e # c, Acts(c)
  PROVE  /\ UNCHANGED <<pc[e], last[e], result[e]>>
         /\ e \in Deliveries => attempt'[e] = attempt[e]
         /\ e \in Resolvers => snapshot'[e] = snapshot[e]
<1>1. \A to : Goto(c, to) => pc'[e] = pc[e]
  BY DEF Goto, TypeInv, TypeOK
<1>2. \A to, r : Answer(c, to, r) => pc'[e] = pc[e] /\ result'[e] = result[e]
  BY <1>1 DEF Answer, TypeInv, TypeOK
<1>3. CASE c \in Deliveries /\ (Lookup(c) \/ Run(c) \/ Crash(c))
  <2>1. CASE Crash(c)
    BY <2>1 DEF Crash, TypeInv, TypeOK
  <2>2. CASE Lookup(c) \/ AcquireLease(c) \/ Claim(c) \/ Reread(c)
    BY <1>1, <1>2, <2>2 DEF Lookup, AcquireLease, Claim, Reread, Conflict
  <2>3. CASE CallHandler(c) \/ InputRaises(c) \/ HandlerAborts(c) \/ Retry(c)
    BY <1>1, <1>2, <2>3 DEF CallHandler, InputRaises, HandlerAborts, Retry, Conflict, TypeInv,
                            TypeOK
  <2>4. CASE HandlerReturns(c) \/ HandlerRaises(c)
    BY <1>1, <2>4 DEF HandlerReturns, HandlerRaises, EndAttempt, TypeInv, TypeOK
  <2>5. CASE Commit(c) \/ Park(c) \/ SettleFailure(c) \/ RecordDeadLetter(c) \/ ReleaseLease(c)
    BY <1>1, <1>2, <2>5 DEF Commit, Park, SettleFailure, RecordDeadLetter, ReleaseLease, Conflict
  <2> QED
    BY <1>3, <2>1, <2>2, <2>3, <2>4, <2>5 DEF Run
<1>4. CASE c \in Resolvers /\ (ReadPending(c) \/ Resolve(c))
  BY <1>1, <1>2, <1>4 DEF ReadPending, Resolve, ResolveEscalated, ResolveSettled,
                          ResolveDeadLetter, TypeInv, TypeOK
<1> QED
  BY <1>3, <1>4 DEF Acts

\* Each step keeps what a caller's place says of its attempts and answer, ...
LEMMA CallStep == TypeInv /\ CallInv /\ [Next]_vars => CallInv'
<1> SUFFICES ASSUME TypeInv, CallInv, [Next]_vars PROVE CallInv'
  OBVIOUS
<1>1. ASSUME NEW c \in Callers, Acts(c)
      PROVE  CallInv'
  <2>1. \A d \in Deliveries : Judged(d)'
    BY <1>1, OneMover, JudgedStays, JudgedMoves, CallerKeys DEF Acts
  <2>2. \A e \in Callers : AnswersLast(e)'
    BY <1>1, OneMover, AnswersLastMoves DEF CallInv, AnswersLast
  <2> QED
    BY <2>1, <2>2 DEF CallInv
<1>2. CASE Tick \/ UNCHANGED vars
  BY <1>2 DEF Tick, vars, CallInv, Judged, AnswersLast
<1> QED
  BY <1>1, <1>2, CallerKeys DEF Next, Acts

\* ... so it is always true.
LEMMA CallInvariant == Spec => []CallInv
  BY CallInit, CallStep, TypeInvariant, PTL DEF Spec

\* A delivery gives an event up for a transient failure only after its last
\* attempt: the retry condition of run compares the attempt with max_attempts.
THEOREM RetriesAreUsedUp == Spec => []TransientFailuresExhaustRetries
<1>1. CallInv => TransientFailuresExhaustRetries
  BY DEF CallInv, Judged, TransientFailuresExhaustRetries
<1> QED
  BY <1>1, CallInvariant, PTL

-----------------------------------------------------------------------------
(* Every step is of one of the kinds above. *)

\* The record of an unsettled event keeps its execution and gets another status.
Rewritten(k, x, outcome, status) ==
  /\ ~ Dedup!IsTerminal(k)
  /\ records[k] # None
  /\ records[k].execution_id = x
  /\ records'[k] # None
  /\ records'[k].status = status
  /\ records'[k].execution_id = x
  /\ records'[k].outcome = outcome

\* This is what parking an event does, ...
LEMMA ParkingWrites ==
  ASSUME TypeOK, NEW k \in Keys, NEW x, NEW o, NEW v, NEW outcome \in Outcomes \union {None},
         Dedup!MarkPendingApproval(k, x, o, v, outcome)
  PROVE  Rewritten(k, x, outcome, "pending_approval")
<1>1. /\ records[k] \in Dedup!DedupRecord
      /\ records[k] # None
      /\ records[k].execution_id = x
      /\ ~ Dedup!IsTerminal(k)
  BY StoreTypes
  DEF Dedup!MarkPendingApproval, Dedup!CanPark, Dedup!ClaimMatches, Dedup!IsTerminal,
      Dedup!HasStatus, Dedup!OpenStatus, Dedup!TerminalStatus
<1> DEFINE r == [records[k] EXCEPT !.status = "pending_approval", !.outcome = outcome]
<1>2. /\ r \in Dedup!DedupRecord
      /\ r.status = "pending_approval" /\ r.execution_id = x /\ r.outcome = outcome
  BY <1>1 DEF Dedup!DedupRecord, Dedup!OpenStatus
<1>3. records'[k] = r
  BY <1>1, StoreTypes DEF Dedup!MarkPendingApproval
<1> QED
  BY <1>1, <1>2, <1>3, NoneAssumption DEF Rewritten

\* ... and settling it.
LEMMA SettlingWrites ==
  ASSUME TypeOK, NEW k \in Keys, NEW x, NEW o, NEW v, NEW outcome \in Outcomes \union {None},
         NEW status, Dedup!MarkTerminal(k, x, o, v, status, outcome)
  PROVE  Rewritten(k, x, outcome, status)
<1>1. /\ records[k] \in Dedup!DedupRecord
      /\ records[k] # None
      /\ records[k].execution_id = x
      /\ ~ Dedup!IsTerminal(k)
      /\ status \in Dedup!TerminalStatus
  BY StoreTypes DEF Dedup!MarkTerminal, Dedup!CanSettle, Dedup!ClaimMatches
<1> DEFINE r == [records[k] EXCEPT !.status = status, !.outcome = outcome]
<1>2. /\ r \in Dedup!DedupRecord
      /\ r.status = status /\ r.execution_id = x /\ r.outcome = outcome
  BY <1>1 DEF Dedup!DedupRecord
<1>3. records'[k] = r
  BY <1>1, StoreTypes DEF Dedup!MarkTerminal
<1> QED
  BY <1>1, <1>2, <1>3, NoneAssumption DEF Rewritten

\* A caller's step moves that caller alone.
LEMMA ActorOnlyMoves ==
  ASSUME TypeInv, NEW c \in Callers, Acts(c)
  PROVE  OnlyMoves(c)
<1>1. \A e \in Callers : e # c => View(e)' = View(e)
  BY OneMover DEF View, Progress, Callers
<1>2. ASSUME NEW k \in Keys, k # Key(c) PROVE records'[k] = records[k]
  <2> USE WritesAreLocal, CallerKeys, <1>2 DEF TypeInv
  <2>1. CASE c \in Deliveries /\ (Lookup(c) \/ Run(c) \/ Crash(c))
    BY <2>1
    DEF Run, Lookup, AcquireLease, Claim, Reread, CallHandler, InputRaises, HandlerReturns,
        HandlerRaises, EndAttempt, HandlerAborts, Retry, Commit, Park, SettleFailure,
        RecordDeadLetter, ReleaseLease, Crash
  <2>2. CASE c \in Resolvers /\ (ReadPending(c) \/ Resolve(c))
    BY <2>2 DEF Resolve, ReadPending, ResolveEscalated, ResolveSettled, ResolveDeadLetter
  <2> QED
    BY <2>1, <2>2 DEF Acts
<1> QED
  BY <1>1, <1>2 DEF OnlyMoves

\* How a call moves without an answer, and how it answers.
LEMMA MovesOnly ==
  ASSUME TypeInv, NEW c \in Callers, NEW to
  PROVE  /\ Goto(c, to) => pc'[c] = to
         /\ \A r : Answer(c, to, r) => pc'[c] = to /\ result'[c] = r
  BY DEF Goto, Answer, TypeInv, TypeOK

\* Whoever is still at work has not been answered.
LEMMA UnansweredAt ==
  ASSUME CallInv, NEW c \in Callers, pc[c] \notin {"release", "done", "crashed"}
  PROVE  Unanswered(c)
  BY DEF CallInv, AnswersLast, Unanswered

\* A lost lease is no final answer, and neither is an exception.
LEMMA ConflictIsNotFinal ==
  /\ LeaseConflictResult.disposition \notin FinalDispositions
  /\ \A c : result'[c] \in {Raised, LeaseConflictResult} => ~ Final(c)'
<1>1. LeaseConflictResult.disposition \notin FinalDispositions
  BY DEF LeaseConflictResult, FinalDispositions
<1> QED
  BY <1>1 DEF Final, AnsweredAs, Answered

\* A step that writes no record and answers with a conflict, an exception or
\* nothing.
LEMMA QuietKind ==
  ASSUME TypeInv, CallInv, NEW c \in Callers, OnlyMoves(c),
         UNCHANGED <<records, deadLetters>>,
         \/ \E to : to # "evidence" /\ Goto(c, to) /\ UNCHANGED result
         \/ /\ pc[c] \notin {"release", "done", "crashed"}
            /\ \E to \in {"release", "done"}, r \in {Raised, LeaseConflictResult} : Answer(c, to, r)
  PROVE  StepKind(c)
<1>1. CASE \E to : to # "evidence" /\ Goto(c, to) /\ UNCHANGED result
  BY <1>1, MovesOnly DEF StepKind, WorksOn, GivesNoFinalAnswer
<1>2. CASE /\ pc[c] \notin {"release", "done", "crashed"}
           /\ \E to \in {"release", "done"}, r \in {Raised, LeaseConflictResult} : Answer(c, to, r)
  <2>1. pc'[c] \in {"release", "done"} /\ result'[c] \in {Raised, LeaseConflictResult}
    BY <1>2, MovesOnly
  <2>2. Unanswered(c) /\ ~ Final(c)'
    BY <1>2, <2>1, UnansweredAt, ConflictIsNotFinal
  <2> QED
    BY <2>1, <2>2 DEF StepKind, WorksOn, GivesNoFinalAnswer
<1> QED
  BY <1>1, <1>2

\* The steps of run up to the first handler call, and the last ones.
LEMMA EarlyKinds ==
  ASSUME TypeInv, CallInv, NEW d \in Deliveries, OnlyMoves(d),
         Lookup(d) \/ AcquireLease(d) \/ Claim(d) \/ Reread(d) \/ CallHandler(d)
           \/ InputRaises(d) \/ HandlerAborts(d) \/ ReleaseLease(d) \/ Crash(d)
  PROVE  StepKind(d)
<1> USE CallerKeys, MovesOnly, UnansweredAt, ConflictIsNotFinal
<1>1. CASE Lookup(d) \/ Reread(d)
  <2>1. CASE Parked(Key(d))
    BY <1>1, <2>1 DEF Lookup, Reread, Answer, StepKind, Repeats
  <2>2. CASE ~ Parked(Key(d))
    BY <1>1, <2>2, QuietKind DEF Lookup, Reread, Conflict
  <2> QED
    BY <2>1, <2>2
<1>2. CASE AcquireLease(d) \/ CallHandler(d) \/ InputRaises(d) \/ HandlerAborts(d)
             \/ ReleaseLease(d)
  BY <1>2, QuietKind DEF AcquireLease, CallHandler, InputRaises, HandlerAborts, ReleaseLease
<1>3. CASE Claim(d)
  <2>1. <<d, 1>> \in Executions /\ Version(d) \in Nat
    BY <1>3, VersionType, RunnerAssumption DEF Executions, Claim, HoldsLease
  <2>2. records' = records \/ (~ Parked(Key(d)) /\ ~ Parked(Key(d))')
    BY <1>3, <2>1, Written
    DEF Claim, TypeInv, Parked, Dedup!HasStatus, Dedup!TerminalStatus, Key
  <2> QED
    BY <1>3, <2>2 DEF Claim, StepKind, WorksOn, GivesNoFinalAnswer
<1>4. CASE Crash(d)
  <2>1. pc'[d] = "crashed" /\ UNCHANGED <<records, deadLetters, result>>
    BY <1>4 DEF Crash, TypeInv, TypeOK
  <2> QED
    BY <2>1 DEF StepKind, WorksOn, GivesNoFinalAnswer
<1> QED
  BY <1>1, <1>2, <1>3, <1>4

\* The end of an attempt writes nothing; a retry claims the open event again.
LEMMA AttemptKinds ==
  ASSUME TypeInv, CallInv, NEW d \in Deliveries, OnlyMoves(d),
         HandlerReturns(d) \/ HandlerRaises(d) \/ Retry(d)
  PROVE  StepKind(d)
<1> USE CallerKeys
<1>1. CASE HandlerReturns(d) \/ HandlerRaises(d)
  <2>1. PICK o, category : EndAttempt(d, o, category)
    BY <1>1 DEF HandlerReturns, HandlerRaises
  <2>2. AfterAttempt(d, o, category) # "evidence"
    BY DEF AfterAttempt
  <2> QED
    BY <2>1, <2>2, QuietKind DEF EndAttempt
<1>2. CASE Retry(d)
  <2>1. /\ <<d, attempt[d] + 1>> \in Executions /\ attempt[d] \in Nat
        /\ Version(d) \in Nat /\ Key(d) \in Keys
    BY <1>2, VersionType, RunnerAssumption
    DEF Executions, Retry, HoldsLease, TypeInv, DeliveryInv, TypeOK, Attempting
  <2>2. CASE /\ Dedup!MarkInProgress(Key(d), <<d, attempt[d] + 1>>, attempt[d], d, Version(d))
             /\ Goto(d, "handling")
             /\ UNCHANGED result
    <3>1. ~ Parked(Key(d)) /\ ~ Parked(Key(d))'
      BY <2>1, <2>2, Written DEF TypeInv, Parked, Dedup!HasStatus, Dedup!TerminalStatus, Key
    <3>2. pc'[d] = "handling" /\ UNCHANGED <<result, deadLetters>>
      BY <1>2, <2>2, MovesOnly DEF Retry
    <3> QED
      BY <3>1, <3>2 DEF StepKind, WorksOn, GivesNoFinalAnswer
  <2>3. CASE Conflict(d) /\ UNCHANGED records
    BY <1>2, <2>3, QuietKind DEF Retry, Conflict
  <2> QED
    BY <1>2, <2>2, <2>3 DEF Retry
<1> QED
  BY <1>1, <1>2

\* A success commits, an escalation parks and any other failure settles.
LEMMA SettlingKinds ==
  ASSUME TypeInv, CallInv, NEW d \in Deliveries, OnlyMoves(d),
         Commit(d) \/ Park(d) \/ SettleFailure(d)
  PROVE  StepKind(d)
<1>1. /\ d \in Callers
      /\ Key(d) \in Keys
      /\ Unanswered(d)
      /\ UNCHANGED <<deadLetters, last, attempt>>
      /\ last[d].outcome \in Outcomes \union {None}
      /\ WorkedOn(d) = Execution(d)
      /\ Execution(d) \in Executions
      /\ Progress(d)' = Progress(d)
  <2>1. pc[d] \in {"commit", "settle"} /\ UNCHANGED <<deadLetters, last, attempt>>
    BY DEF Commit, Park, SettleFailure
  <2>2. Execution(d) \in Executions
    BY <2>1, FreshResultType DEF Dispositions, Attempting, NoCategory
  <2> QED
    BY <2>1, <2>2, CallerKeys, UnansweredAt DEF TypeInv, TypeOK, WorkedOn, Progress
<1>2. ASSUME UNCHANGED records, Conflict(d), pc[d] \notin {"release", "done", "crashed"}
      PROVE  StepKind(d)
  BY <1>1, <1>2, QuietKind DEF Conflict
<1>3. ASSUME NEW status,
             \/ Dedup!MarkTerminal(Key(d), Execution(d), d, Version(d), status, last[d].outcome)
             \/ /\ status = "pending_approval"
                /\ Dedup!MarkPendingApproval(Key(d), Execution(d), d, Version(d),
                                             last[d].outcome)
      PROVE  Writes(d, status)
  <2>1. TypeOK
    BY DEF TypeInv
  <2>2. Rewritten(Key(d), Execution(d), last[d].outcome, status)
    <3>1. CASE status = "pending_approval"
               /\ Dedup!MarkPendingApproval(Key(d), Execution(d), d, Version(d), last[d].outcome)
      BY <1>1, <2>1, <3>1, ParkingWrites
    <3>2. CASE Dedup!MarkTerminal(Key(d), Execution(d), d, Version(d), status, last[d].outcome)
      BY <1>1, <2>1, <3>2, SettlingWrites
    <3> QED
      BY <1>3, <3>1, <3>2
  <2> QED
    BY <1>1, <2>2 DEF Writes, Rewritten, Dedup!HasStatus, Key
<1>4. CASE Commit(d)
  <2>1. last[d].outcome \in Outcomes \intersect SuccessOutcomes
    <3>1. None \notin SuccessOutcomes
      BY NoneAssumption DEF OutcomeKinds
    <3> QED
      BY <1>1, <1>4, <3>1 DEF Commit, CallInv, Judged
  <2>2. CASE /\ Dedup!MarkTerminal(Key(d), Execution(d), d, Version(d), "completed",
                                   last[d].outcome)
             /\ Answer(d, "release", FreshResult(d, "completed", NoCategory))
    <3>1. Writes(d, "completed")
      BY <1>3, <2>2
    <3>2. pc'[d] = "release" /\ result'[d] = FreshResult(d, "completed", NoCategory)
      BY <1>1, <2>2, MovesOnly
    <3>3. FreshResult(d, "completed", NoCategory) \in JobResult
      BY <1>4, FreshResultType DEF Dispositions, Commit, Attempting
    <3>4. /\ AnsweredAs(d, {"completed"})'
          /\ result'[d].execution_id = WorkedOn(d)
          /\ result'[d].outcome = last[d].outcome
      BY <1>1, <3>2, <3>3, NoneAssumption DEF AnsweredAs, Answered, FreshResult
    <3> QED
      BY <2>1, <3>1, <3>2, <3>4 DEF StepKind, Completes
  <2> QED
    BY <1>2, <1>4, <2>2 DEF Commit
<1>5. CASE Park(d)
  <2>1. last[d].outcome \in Outcomes
    <3>1. last[d].category = "approval_required"
      BY <1>5, CallerKeys DEF Park, FinalDisposition, TypeInv, TypeOK, Categories
    <3> QED
      BY <1>1, <1>5, <3>1 DEF Park, CallInv, Judged
  <2>2. CASE /\ Dedup!MarkPendingApproval(Key(d), Execution(d), d, Version(d), last[d].outcome)
             /\ Answer(d, "release", FreshResult(d, "pending_approval", last[d].category))
    <3>1. Writes(d, "pending_approval")
      BY <1>3, <2>2
    <3>2. /\ pc'[d] = "release"
          /\ result'[d] = FreshResult(d, "pending_approval", last[d].category)
      BY <1>1, <2>2, MovesOnly
    <3>3. ~ Final(d)'
      BY <3>2 DEF Final, AnsweredAs, FinalDispositions, FreshResult
    <3> QED
      BY <2>1, <3>1, <3>2, <3>3 DEF StepKind, Parks
  <2> QED
    BY <1>2, <1>5, <2>2 DEF Park
<1>6. CASE SettleFailure(d)
  <2>1. CASE /\ Dedup!MarkTerminal(Key(d), Execution(d), d, Version(d), "dead_lettered",
                                   last[d].outcome)
             /\ Goto(d, "evidence")
             /\ UNCHANGED result
    <3>1. Writes(d, "dead_lettered")
      BY <1>3, <2>1
    <3>2. pc'[d] = "evidence"
      BY <1>1, <2>1, MovesOnly
    <3> QED
      BY <1>1, <2>1, <3>1, <3>2 DEF StepKind, Fails
  <2> QED
    BY <1>2, <1>6, <2>1 DEF SettleFailure
<1> QED
  BY <1>4, <1>5, <1>6

\* A delivery that records its dead letter adds evidence of its own record.
LEMMA EvidenceKinds ==
  ASSUME TypeInv, CallInv, NEW d \in Deliveries, OnlyMoves(d), RecordDeadLetter(d)
  PROVE  StepKind(d)
<1> DEFINE disposition == FinalDisposition(last[d].category)
           answer == FreshResult(d, disposition, last[d].category)
<1>1. /\ d \in Callers
      /\ pc[d] = "evidence"
      /\ result[d] = None
      /\ records' = records
      /\ WorkedOn(d) = Execution(d)
  BY CallerKeys DEF RecordDeadLetter, WorkedOn, CallInv, AnswersLast
<1>2. disposition \in FailureDispositions /\ disposition \in Dispositions
  BY <1>1 DEF CallInv, Judged, FinalDisposition, FailureDispositions, Dispositions
<1>3. answer \in JobResult
  BY <1>1, <1>2, FreshResultType DEF Attempting, TypeInv, TypeOK
<1>4. /\ pc'[d] = "release"
      /\ result'[d] \in {answer, Raised}
  BY <1>1, MovesOnly DEF RecordDeadLetter
<1>5. /\ answer.execution_id = WorkedOn(d)
      /\ answer.outcome = last[d].outcome
      /\ answer.disposition = disposition
  BY <1>1 DEF FreshResult
<1>6. \/ deadLetters' = deadLetters
      \/ deadLetters' = Append(deadLetters, DeadLetter(d, WorkedOn(d), disposition))
  BY <1>1 DEF RecordDeadLetter
<1> HIDE DEF disposition, answer
<1>7. \/ result'[d] = Raised
      \/ /\ AnsweredAs(d, FailureDispositions)'
         /\ result'[d].execution_id = WorkedOn(d)
         /\ result'[d].outcome = last[d].outcome
  BY <1>2, <1>3, <1>4, <1>5, NoneAssumption DEF AnsweredAs, Answered
<1> QED
  BY <1>1, <1>2, <1>4, <1>6, <1>7 DEF StepKind, Reports

\* The commits of approval resumes.
LEMMA ResolverKinds ==
  ASSUME TypeInv, CallInv, NEW r \in Resolvers, OnlyMoves(r), ReadPending(r) \/ Resolve(r)
  PROVE  StepKind(r)
<1>1. /\ r \in Callers
      /\ r \notin Deliveries
      /\ Key(r) \in Keys
      /\ WorkedOn(r) = snapshot[r].execution_id
      /\ last[r].outcome \in Outcomes \union {None}
  BY CallerKeys DEF WorkedOn, TypeInv, TypeOK
<1>2. CASE ReadPending(r)
  BY <1>1, <1>2, QuietKind DEF ReadPending
<1>3. CASE ResolveDeadLetter(r)
  <2> DEFINE answer == ResolvedResult(r, "dead_lettered", snapshot[r].attempt + 1,
                                      last[r].category)
  <2>1. /\ pc[r] = "evidence"
        /\ result[r] = None
        /\ records' = records
    BY <1>1, <1>3 DEF ResolveDeadLetter, CallInv, AnswersLast
  <2>2. /\ "dead_lettered" \in FailureDispositions
        /\ "dead_lettered" \in Dispositions
    BY DEF FailureDispositions, Dispositions
  <2>3. answer \in JobResult
    <3>1. snapshot[r] # None /\ last[r].category \in Categories
      BY <1>1, <2>1 DEF TypeInv, ResolverInv, TypeOK
    <3>2. snapshot[r].attempt \in Nat
      BY <2>2, <3>1, ResolvedResultType
    <3> QED
      BY <2>2, <3>1, <3>2, ResolvedResultType
  <2>4. pc'[r] = "done" /\ result'[r] \in {answer, Raised}
    BY <1>1, <1>3, MovesOnly DEF ResolveDeadLetter
  <2>5. /\ answer.execution_id = WorkedOn(r)
        /\ answer.outcome = last[r].outcome
        /\ answer.disposition = "dead_lettered"
    BY <1>1 DEF ResolvedResult
  <2>6. \/ deadLetters' = deadLetters
        \/ deadLetters' = Append(deadLetters, DeadLetter(r, WorkedOn(r), "dead_lettered"))
    BY <1>1, <1>3 DEF ResolveDeadLetter
  <2> HIDE DEF answer
  <2>7. \/ result'[r] = Raised
        \/ /\ AnsweredAs(r, FailureDispositions)'
           /\ result'[r].execution_id = WorkedOn(r)
           /\ result'[r].outcome = last[r].outcome
    BY <2>2, <2>3, <2>4, <2>5, NoneAssumption DEF AnsweredAs, Answered
  <2> QED
    BY <2>1, <2>2, <2>4, <2>6, <2>7 DEF StepKind, Reports
<1>4. ASSUME pc[r] = "resolving"
      PROVE  /\ Unanswered(r)
             /\ snapshot[r] # None
             /\ WorkedOn(r) \in Executions
  BY <1>1, <1>4, UnansweredAt, ResolvedResultType
  DEF TypeInv, ResolverInv, Dispositions, Categories
<1>5. ASSUME NEW status, NEW o, NEW v, pc[r] = "resolving",
             UNCHANGED <<deadLetters, last, snapshot>>,
             \/ Dedup!MarkTerminal(Key(r), WorkedOn(r), o, v, status, last[r].outcome)
             \/ /\ status = "pending_approval"
                /\ Dedup!MarkPendingApproval(Key(r), WorkedOn(r), o, v, last[r].outcome)
      PROVE  Writes(r, status)
  <2>1. TypeOK
    BY DEF TypeInv
  <2>2. Rewritten(Key(r), WorkedOn(r), last[r].outcome, status)
    <3>1. CASE status = "pending_approval"
               /\ Dedup!MarkPendingApproval(Key(r), WorkedOn(r), o, v, last[r].outcome)
      BY <1>1, <2>1, <3>1, ParkingWrites
    <3>2. CASE Dedup!MarkTerminal(Key(r), WorkedOn(r), o, v, status, last[r].outcome)
      BY <1>1, <2>1, <3>2, SettlingWrites
    <3> QED
      BY <1>5, <3>1, <3>2
  <2> QED
    BY <1>4, <1>5, <2>2 DEF Writes, Rewritten, Dedup!HasStatus, Key
<1>6. CASE ResolveEscalated(r)
  <2>1. CASE /\ Dedup!MarkPendingApproval(Key(r), WorkedOn(r), snapshot[r].lease_owner,
                                          snapshot[r].lease_version, last[r].outcome)
             /\ Answer(r, "done", ResolvedResult(r, "pending_approval", snapshot[r].attempt,
                                                 "approval_required"))
    <3>1. Writes(r, "pending_approval")
      BY <1>5, <1>6, <2>1 DEF ResolveEscalated
    <3>2. /\ pc'[r] = "done"
          /\ result'[r] = ResolvedResult(r, "pending_approval", snapshot[r].attempt,
                                         "approval_required")
      BY <1>1, <2>1, MovesOnly
    <3>3. ~ Final(r)'
      BY <3>2 DEF Final, AnsweredAs, FinalDispositions, ResolvedResult
    <3>4. last[r].outcome \in Outcomes
      BY <1>1, <1>6, NoneAssumption DEF ResolveEscalated, OutcomeKinds
    <3> QED
      BY <3>1, <3>2, <3>3, <3>4 DEF StepKind, Parks
  <2>2. CASE Answer(r, "done", Raised) /\ UNCHANGED records
    BY <1>1, <1>6, <2>2, QuietKind DEF ResolveEscalated
  <2> QED
    BY <1>1, <1>6, <2>1, <2>2 DEF ResolveEscalated
<1>7. CASE ResolveSettled(r)
  <2> DEFINE answer == ResolvedResult(r, "completed", snapshot[r].attempt + 1, NoCategory)
  <2>1. CASE /\ last[r].outcome \in SuccessOutcomes
             /\ Dedup!MarkTerminal(Key(r), WorkedOn(r), snapshot[r].lease_owner,
                                   snapshot[r].lease_version, "completed", last[r].outcome)
             /\ Answer(r, "done", answer)
    <3>1. Writes(r, "completed")
      BY <1>5, <1>7, <2>1 DEF ResolveSettled
    <3>2. answer \in JobResult
      <4>1. snapshot[r] # None
        BY <1>4, <1>7 DEF ResolveSettled
      <4>2. "completed" \in Dispositions
        BY DEF Dispositions
      <4>3. snapshot[r].attempt \in Nat
        BY <4>1, <4>2, ResolvedResultType
      <4> QED
        BY <4>1, <4>2, <4>3, ResolvedResultType
    <3>3. /\ answer.execution_id = WorkedOn(r)
          /\ answer.outcome = last[r].outcome
          /\ answer.disposition = "completed"
      BY <1>1 DEF ResolvedResult
    <3>4. pc'[r] = "done" /\ result'[r] = answer
      BY <1>1, <2>1, MovesOnly
    <3> HIDE DEF answer
    <3>5. /\ AnsweredAs(r, {"completed"})'
          /\ result'[r].execution_id = WorkedOn(r)
          /\ result'[r].outcome = last[r].outcome
      BY <3>2, <3>3, <3>4, NoneAssumption DEF AnsweredAs, Answered
    <3>6. last[r].outcome \in Outcomes \intersect SuccessOutcomes
      BY <1>1, <2>1, NoneAssumption DEF OutcomeKinds
    <3> QED
      BY <3>1, <3>4, <3>5, <3>6 DEF StepKind, Completes
  <2>2. CASE /\ Dedup!MarkTerminal(Key(r), WorkedOn(r), snapshot[r].lease_owner,
                                   snapshot[r].lease_version, "dead_lettered", last[r].outcome)
             /\ Goto(r, "evidence")
             /\ UNCHANGED result
    <3>1. Writes(r, "dead_lettered")
      BY <1>5, <1>7, <2>2 DEF ResolveSettled
    <3>2. pc'[r] = "evidence" /\ Progress(r)' = Progress(r) /\ last'[r] = last[r]
      BY <1>1, <1>7, <2>2, MovesOnly DEF ResolveSettled, Progress
    <3> QED
      BY <2>2, <3>1, <3>2 DEF StepKind, Fails
  <2>3. CASE Answer(r, "done", Raised) /\ UNCHANGED records
    BY <1>1, <1>7, <2>3, QuietKind DEF ResolveSettled
  <2> QED
    BY <1>1, <1>7, <2>1, <2>2, <2>3 DEF ResolveSettled
<1> QED
  BY <1>2, <1>3, <1>6, <1>7 DEF Resolve

\* The runner's steps as the rest of this module sees them.
LEMMA StepKinds ==
  ASSUME TypeInv, CallInv, [Next]_vars
  PROVE  Waits \/ \E c \in Callers : StepKind(c)
<1>1. ASSUME NEW c \in Callers, Acts(c) PROVE StepKind(c)
  BY <1>1, ActorOnlyMoves, EarlyKinds, AttemptKinds, SettlingKinds, EvidenceKinds, ResolverKinds
  DEF Acts, Run
<1>2. CASE Tick \/ UNCHANGED vars
  BY <1>2 DEF Tick, vars, Waits, View, Progress
<1> QED
  BY <1>1, <1>2, CallerKeys DEF Next, Acts

-----------------------------------------------------------------------------
(* Answers and evidence: the invariant.                                     *)

NoneFailed == \A k \in Keys : ~ Dedup!HasStatus(k, {"failed"})

\* A call about to report a failure has settled the event with it, alone.
OwesEvidence(c) ==
  pc[c] = "evidence" =>
    /\ Dedup!HasStatus(Key(c), {"dead_lettered"})
    /\ records[Key(c)].execution_id = WorkedOn(c)
    /\ records[Key(c)].outcome = last[c].outcome
    /\ ~ HasEvidence(Key(c))
    /\ \A e \in Callers : pc[e] = "evidence" /\ Key(e) = Key(c) => e = c

AnswerMatches(c) ==
  /\ AnsweredAs(c, {"completed", "duplicate"}) => Dedup!HasStatus(Key(c), {"completed"})
  /\ AnsweredAs(c, FailureDispositions) => Dedup!HasStatus(Key(c), {"dead_lettered"})
  /\ Final(c) => /\ records[Key(c)].execution_id = result[c].execution_id
                 /\ records[Key(c)].outcome = result[c].outcome

AnswerInv ==
  /\ NoneFailed
  /\ \A c \in Callers : OwesEvidence(c) /\ AnswerMatches(c)
  /\ OneCompletion
  /\ EvidenceMatchesRecord

\* AnswersMatchRecord, caller by caller.
LEMMA AnswersAreMatches == AnswersMatchRecord <=> \A c \in Callers : AnswerMatches(c)
<1>1. /\ FailureDispositions = {"dead_lettered", "failed", "cancelled"}
      /\ FinalDispositions = Dispositions \ {"lease_conflict", "pending_approval"}
  BY DEF FailureDispositions, FinalDispositions, Dispositions
<1> QED
  BY <1>1 DEF AnswersMatchRecord, AnswerMatches, Final

\* Before any call no answer is out and no record is settled.
LEMMA AnswerInit == Init => AnswerInv
<1> SUFFICES ASSUME Init PROVE AnswerInv
  OBVIOUS
<1>1. /\ \A k \in Keys : records[k] = None
      /\ \A c \in Callers : pc[c] = "idle" /\ result[c] = None
      /\ Len(deadLetters) = 0
  BY DEF Init, Dedup!DedupInit
<1>2. NoneFailed
  BY <1>1 DEF NoneFailed, Dedup!HasStatus
<1>3. \A c \in Callers : OwesEvidence(c) /\ AnswerMatches(c)
  BY <1>1 DEF OwesEvidence, AnswerMatches, Final, AnsweredAs, Answered
<1>4. OneCompletion /\ EvidenceMatchesRecord
  BY <1>1 DEF OneCompletion, EvidenceMatchesRecord, AnsweredAs, Answered
<1> QED
  BY <1>2, <1>3, <1>4 DEF AnswerInv

\* What a settled event looks like to a step that leaves it alone.
LEMMA SettledKeeps ==
  ASSUME TypeInv, [Next]_vars, NEW k \in Keys,
         NEW status \in {"completed", "dead_lettered"}, Dedup!HasStatus(k, {status})
  PROVE  /\ records'[k] = records[k]
         /\ Dedup!IsTerminal(k)
         /\ Dedup!HasStatus(k, {status})'
<1>1. Dedup!IsTerminal(k)
  BY DEF Dedup!IsTerminal, Dedup!HasStatus, Dedup!TerminalStatus
<1>2. records'[k] = records[k]
  BY <1>1, SettledStep
<1> QED
  BY <1>1, <1>2 DEF Dedup!HasStatus

\* No record is ever stored as failed.
LEMMA NoneFailedStep ==
  ASSUME TypeInv, AnswerInv, Waits \/ \E c \in Callers : StepKind(c)
  PROVE  NoneFailed'
<1>1. CASE Waits
  BY <1>1 DEF Waits, AnswerInv, NoneFailed, Dedup!HasStatus
<1>2. ASSUME NEW c \in Callers, StepKind(c), NEW k \in Keys
      PROVE  ~ Dedup!HasStatus(k, {"failed"})'
  <2>1. CASE records'[k] = records[k]
    BY <2>1 DEF AnswerInv, NoneFailed, Dedup!HasStatus
  <2>2. CASE k = Key(c) /\ ~ Parked(Key(c))'
    BY <2>2 DEF Parked, Dedup!HasStatus, Dedup!TerminalStatus, Key
  <2>3. CASE k = Key(c) /\ (Parks(c) \/ Completes(c) \/ Fails(c))
    BY <2>3 DEF Parks, Completes, Fails, Writes, Dedup!HasStatus, Key
  <2> QED
    BY <1>2, <2>1, <2>2, <2>3
    DEF StepKind, WorksOn, Repeats, Parks, Completes, Fails, Reports, Writes, OnlyMoves
<1> QED
  BY <1>1, <1>2 DEF NoneFailed

\* A call that is not the one moving keeps its answer's match.
LEMMA MatchKeeps ==
  ASSUME TypeInv, AnswerInv, [Next]_vars, NEW c \in Callers, result'[c] = result[c]
  PROVE  AnswerMatches(c)'
<1>1. /\ Key(c) \in Keys
      /\ AnswerMatches(c)
      /\ \A s : AnsweredAs(c, s)' <=> AnsweredAs(c, s)
  BY CallerKeys DEF AnswerInv, AnsweredAs, Answered
<1>2. Final(c) => \/ AnsweredAs(c, {"completed", "duplicate"})
                  \/ AnsweredAs(c, FailureDispositions)
  BY DEF Final, FinalDispositions, FailureDispositions, AnsweredAs
<1>3. AnsweredAs(c, {"completed", "duplicate"})
        => records'[Key(c)] = records[Key(c)] /\ Dedup!HasStatus(Key(c), {"completed"})'
  BY <1>1, SettledKeeps DEF AnswerMatches, Key
<1>4. AnsweredAs(c, FailureDispositions)
        => records'[Key(c)] = records[Key(c)] /\ Dedup!HasStatus(Key(c), {"dead_lettered"})'
  BY <1>1, SettledKeeps DEF AnswerMatches, Key
<1>5. Final(c)' <=> Final(c)
  BY <1>1 DEF Final
<1> QED
  BY <1>1, <1>2, <1>3, <1>4, <1>5 DEF AnswerMatches, Key, FailureDispositions

\* Every final answer goes on agreeing with the record of its key.
LEMMA MatchStep ==
  ASSUME TypeInv, AnswerInv, [Next]_vars, Waits \/ \E c \in Callers : StepKind(c)
  PROVE  \A e \in Callers : AnswerMatches(e)'
<1>1. CASE Waits
  BY <1>1, MatchKeeps DEF Waits, View
<1>2. ASSUME NEW c \in Callers, StepKind(c), NEW e \in Callers
      PROVE  AnswerMatches(e)'
  <2>1. CASE result'[e] = result[e]
    BY <2>1, MatchKeeps
  <2>2. CASE ~ Final(e)'
    BY <2>2 DEF AnswerMatches, Final, AnsweredAs, FinalDispositions, FailureDispositions
  <2>3. e # c => result'[e] = result[e]
    BY <1>2 DEF StepKind, WorksOn, Repeats, Parks, Completes, Fails, Reports, Writes, OnlyMoves,
                View
  <2>4. CASE e = c /\ Repeats(c)
    <3> DEFINE k == Key(c)
    <3>1. /\ records'[k] = records[k]
          /\ records[k] # None
          /\ records[k].status \in {"pending_approval", "completed", "dead_lettered"}
      BY <2>4, CallerKeys
      DEF Repeats, Parked, Dedup!HasStatus, Dedup!TerminalStatus, AnswerInv, NoneFailed
    <3>2. /\ result'[c].disposition = StoredDisposition(records[k].status)
          /\ result'[c].execution_id = records[k].execution_id
          /\ result'[c].outcome = records[k].outcome
      BY <2>4 DEF Repeats, StoredResult
    <3> QED
      BY <2>4, <3>1, <3>2
      DEF AnswerMatches, Final, AnsweredAs, StoredDisposition, FinalDispositions,
          FailureDispositions, Dedup!HasStatus, Key
  <2>5. CASE e = c /\ Completes(c)
    <3>1. Dedup!HasStatus(Key(c), {"completed"})' /\ result'[c].disposition = "completed"
      BY <2>5 DEF Completes, Writes, AnsweredAs
    <3> QED
      BY <2>5, <3>1 DEF AnswerMatches, Completes, Writes, AnsweredAs, FailureDispositions, Key
  <2>6. CASE e = c /\ Reports(c) /\ result'[c] # Raised
    <3>1. /\ Dedup!HasStatus(Key(c), {"dead_lettered"})
          /\ records[Key(c)].execution_id = WorkedOn(c)
          /\ records[Key(c)].outcome = last[c].outcome
      BY <2>6 DEF AnswerInv, OwesEvidence, Reports
    <3>2. /\ records' = records
          /\ result'[c].disposition \in FailureDispositions
          /\ result'[c].execution_id = WorkedOn(c)
          /\ result'[c].outcome = last[c].outcome
      BY <2>6 DEF Reports, AnsweredAs
    <3> QED
      BY <2>6, <3>1, <3>2
      DEF AnswerMatches, AnsweredAs, FailureDispositions, Dedup!HasStatus, Key
  <2>7. result'[c] = Raised => ~ Final(c)'
    BY DEF Final, AnsweredAs, Answered
  <2> QED
    BY <1>2, <2>1, <2>2, <2>3, <2>4, <2>5, <2>6, <2>7
    DEF StepKind, WorksOn, GivesNoFinalAnswer, Parks, Fails
<1> QED
  BY <1>1, <1>2

\* A completion needs an event that is not settled, and leaves one that is.
LEMMA CompletionStep ==
  ASSUME TypeInv, AnswerInv, Waits \/ \E c \in Callers : StepKind(c)
  PROVE  OneCompletion'
<1>1. CASE Waits
  BY <1>1 DEF Waits, View, AnswerInv, OneCompletion, AnsweredAs, Answered, Key
<1>2. ASSUME NEW c \in Callers, StepKind(c)
      PROVE  OneCompletion'
  <2>1. ASSUME NEW e \in Callers, e # c
        PROVE  AnsweredAs(e, {"completed"})' <=> AnsweredAs(e, {"completed"})
    <3>1. result'[e] = result[e]
      BY <1>2, <2>1 DEF StepKind, WorksOn, Repeats, Parks, Completes, Fails, Reports, Writes,
                        OnlyMoves, View
    <3> QED
      BY <3>1 DEF AnsweredAs, Answered
  <2>2. CASE AnsweredAs(c, {"completed"})' => AnsweredAs(c, {"completed"})
    BY <2>1, <2>2 DEF AnswerInv, OneCompletion, Key
  <2>3. CASE Completes(c)
    <3>1. ASSUME NEW e \in Callers, e # c, Key(e) = Key(c)
          PROVE  ~ AnsweredAs(e, {"completed"})
      <4>1. ~ Dedup!HasStatus(Key(e), {"completed"})
        BY <2>3, <3>1
        DEF Completes, Writes, Dedup!IsTerminal, Dedup!HasStatus, Dedup!TerminalStatus
      <4> QED
        BY <4>1 DEF AnswerInv, AnswerMatches, AnsweredAs
    <3> QED
      BY <2>1, <3>1 DEF AnswerInv, OneCompletion, Key
  <2>4. CASE ~ AnsweredAs(c, {"completed"})'
    BY <2>2, <2>4
  <2>5. CASE Repeats(c)
    <3>1. StoredDisposition(records[Key(c)].status) # "completed"
      BY DEF StoredDisposition
    <3> QED
      BY <2>4, <2>5, <3>1 DEF Repeats, StoredResult, AnsweredAs
  <2>6. Final(c)' \/ ~ AnsweredAs(c, {"completed"})'
    BY DEF Final, AnsweredAs, FinalDispositions
  <2>7. CASE result'[c] = result[c]
    BY <2>2, <2>7 DEF AnsweredAs, Answered
  <2>8. CASE Reports(c)
    BY <2>4, <2>8 DEF Reports, AnsweredAs, Answered, FailureDispositions
  <2> QED
    BY <1>2, <2>3, <2>4, <2>5, <2>6, <2>7, <2>8
    DEF StepKind, WorksOn, GivesNoFinalAnswer, Parks, Fails
<1> QED
  BY <1>1, <1>2

\* Evidence is owed by the one call that settled the event, until it reports.
LEMMA OwesStep ==
  ASSUME TypeInv, AnswerInv, [Next]_vars, Waits \/ \E c \in Callers : StepKind(c)
  PROVE  \A e \in Callers : OwesEvidence(e)'
<1>1. ASSUME NEW e \in Callers, View(e)' = View(e), pc[e] = "evidence"
      PROVE  /\ pc'[e] = "evidence"
             /\ Dedup!HasStatus(Key(e), {"dead_lettered"})'
             /\ records'[Key(e)].execution_id = WorkedOn(e)'
             /\ records'[Key(e)].outcome = last'[e].outcome
  <2>1. /\ Dedup!HasStatus(Key(e), {"dead_lettered"})
        /\ records[Key(e)].execution_id = WorkedOn(e)
        /\ records[Key(e)].outcome = last[e].outcome
        /\ Key(e) \in Keys
    BY <1>1, CallerKeys DEF AnswerInv, OwesEvidence
  <2>2. /\ records'[Key(e)] = records[Key(e)]
        /\ Dedup!HasStatus(Key(e), {"dead_lettered"})'
    BY <2>1, SettledKeeps DEF Key
  <2>3. /\ pc'[e] = "evidence"
        /\ last'[e] = last[e]
        /\ WorkedOn(e)' = WorkedOn(e)
    BY <1>1 DEF View, WorkedOn, Progress, Execution
  <2> QED
    BY <2>1, <2>2, <2>3
<1>2. CASE Waits
  <2>1. \A e \in Callers : View(e)' = View(e) /\ pc'[e] = pc[e]
    BY <1>2 DEF Waits, View
  <2>2. \A k \in Keys : HasEvidence(k)' <=> HasEvidence(k)
    BY <1>2 DEF Waits, HasEvidence
  <2> QED
    BY <1>1, <2>1, <2>2, CallerKeys DEF AnswerInv, OwesEvidence, Key
<1>3. ASSUME NEW c \in Callers, StepKind(c), NEW e \in Callers, pc'[e] = "evidence"
      PROVE  OwesEvidence(e)'
  <2>1. \A f \in Callers : f # c => View(f)' = View(f) /\ pc'[f] = pc[f]
    BY <1>3 DEF StepKind, WorksOn, Repeats, Parks, Completes, Fails, Reports, Writes, OnlyMoves,
                View
  <2>2. CASE Fails(c)
    <3>1. ASSUME NEW f \in Callers, f # c, pc[f] = "evidence" PROVE Key(f) # Key(c)
      BY <2>2, <3>1
      DEF AnswerInv, OwesEvidence, Fails, Writes, Dedup!IsTerminal, Dedup!HasStatus,
          Dedup!TerminalStatus
    <3>2. deadLetters' = deadLetters /\ \A k \in Keys : HasEvidence(k)' <=> HasEvidence(k)
      BY <2>2 DEF Fails, Writes, HasEvidence
    <3>3. CASE e = c
      <4>1. ~ HasEvidence(Key(c))
        BY <2>2 DEF HasEvidence, AnswerInv, EvidenceMatchesRecord, Fails, Writes,
                    Dedup!IsTerminal, Dedup!HasStatus, Dedup!TerminalStatus
      <4>2. WorkedOn(c)' = WorkedOn(c)
        BY <2>2 DEF Fails, Progress, WorkedOn, Execution
      <4>3. /\ Dedup!HasStatus(Key(c), {"dead_lettered"})'
            /\ records'[Key(c)].execution_id = WorkedOn(c)'
            /\ records'[Key(c)].outcome = last'[c].outcome
        BY <2>2, <4>2 DEF Fails, Writes
      <4> QED
        BY <2>1, <3>1, <3>2, <3>3, <4>1, <4>3, CallerKeys DEF OwesEvidence, Key
    <3>4. CASE e # c
      BY <1>1, <1>3, <2>1, <3>1, <3>2, <3>4, CallerKeys DEF AnswerInv, OwesEvidence, Key
    <3> QED
      BY <3>3, <3>4
  <2>3. CASE pc'[c] # "evidence"
    <3>1. e # c /\ pc[e] = "evidence"
      BY <1>3, <2>1, <2>3
    <3>2. ~ HasEvidence(Key(e))
      BY <3>1 DEF AnswerInv, OwesEvidence
    <3>3. ~ HasEvidence(Key(e))'
      <4>1. CASE deadLetters' = deadLetters
        BY <3>2, <4>1 DEF HasEvidence, Key
      <4>2. CASE Reports(c)
        <5>1. Key(c) # Key(e)
          BY <3>1, <4>2 DEF AnswerInv, OwesEvidence, Reports
        <5>2. CASE \E disposition \in Dispositions :
                     deadLetters' = Append(deadLetters, DeadLetter(c, WorkedOn(c), disposition))
          <6>1. PICK letter : letter.key = Key(c) /\ deadLetters' = Append(deadLetters, letter)
            BY <5>2 DEF DeadLetter
          <6>2. /\ Len(deadLetters') = Len(deadLetters) + 1
                /\ Len(deadLetters) \in Nat
                /\ deadLetters'[Len(deadLetters) + 1] = letter
                /\ \A i \in 1 .. Len(deadLetters) : deadLetters'[i] = deadLetters[i]
            BY <6>1 DEF TypeInv, TypeOK
          <6>3. ASSUME NEW i \in 1 .. Len(deadLetters') PROVE deadLetters'[i].key # Key(e)
            <7>1. i \in 1 .. Len(deadLetters) \/ i = Len(deadLetters) + 1
              BY <6>2, <6>3
            <7> QED
              BY <3>2, <5>1, <6>1, <6>2, <7>1 DEF HasEvidence
          <6> QED
            BY <6>3 DEF HasEvidence, Key
        <5> QED
          BY <4>1, <4>2, <5>2 DEF Reports
      <4> QED
        BY <1>3, <4>1, <4>2
        DEF StepKind, WorksOn, Repeats, Parks, Completes, Fails, Writes
    <3> QED
      BY <1>1, <2>1, <2>3, <3>1, <3>3 DEF AnswerInv, OwesEvidence, Key
  <2> QED
    BY <1>3, <2>2, <2>3 DEF StepKind, WorksOn, Repeats, Parks, Completes, Reports
<1> QED
  BY <1>2, <1>3 DEF OwesEvidence

\* Evidence goes on agreeing with the record it is about.
LEMMA EvidenceStep ==
  ASSUME TypeInv, AnswerInv, [Next]_vars, Waits \/ \E c \in Callers : StepKind(c)
  PROVE  EvidenceMatchesRecord'
<1>1. ASSUME NEW i \in 1 .. Len(deadLetters)
      PROVE  /\ records'[deadLetters[i].key] = records[deadLetters[i].key]
             /\ Dedup!HasStatus(deadLetters[i].key, {"dead_lettered"})
             /\ records[deadLetters[i].key].execution_id = deadLetters[i].execution_id
  <2>1. deadLetters[i].key \in Keys
    <3>1. deadLetters[i] \in DeadLetterRecord
      BY DEF TypeInv, TypeOK
    <3> QED
      BY <3>1 DEF DeadLetterRecord
  <2> QED
    BY <2>1, SettledKeeps DEF AnswerInv, EvidenceMatchesRecord
<1>2. CASE deadLetters' = deadLetters
  BY <1>1, <1>2 DEF AnswerInv, EvidenceMatchesRecord, Dedup!HasStatus
<1>3. ASSUME NEW c \in Callers, Reports(c), deadLetters' # deadLetters
      PROVE  EvidenceMatchesRecord'
  <2>1. PICK letter : /\ letter.key = Key(c)
                      /\ letter.execution_id = WorkedOn(c)
                      /\ deadLetters' = Append(deadLetters, letter)
    BY <1>3 DEF Reports, DeadLetter
  <2> DEFINE n == Len(deadLetters)
  <2>2. /\ n \in Nat
        /\ Len(deadLetters') = n + 1
        /\ deadLetters'[n + 1] = letter
        /\ \A i \in 1 .. n : deadLetters'[i] = deadLetters[i]
    BY <2>1 DEF TypeInv, TypeOK
  <2>3. /\ records' = records
        /\ Dedup!HasStatus(letter.key, {"dead_lettered"})
        /\ records[letter.key].execution_id = letter.execution_id
        /\ \A i \in 1 .. n : deadLetters[i].key # letter.key
    BY <1>3, <2>1 DEF Reports, AnswerInv, OwesEvidence, HasEvidence
  <2> HIDE DEF n
  <2>4. ASSUME NEW i \in 1 .. n + 1
        PROVE  LET e == deadLetters'[i] IN
               /\ records'[e.key] # None /\ records'[e.key].status = "dead_lettered"
               /\ records'[e.key].execution_id = e.execution_id
               /\ \A j \in 1 .. n + 1 : deadLetters'[j].key = e.key => j = i
    <3>1. CASE i = n + 1
      BY <2>2, <2>3, <3>1 DEF Dedup!HasStatus
    <3>2. CASE i \in 1 .. n
      <4>1. /\ deadLetters'[i] = deadLetters[i]
            /\ records'[deadLetters[i].key] = records[deadLetters[i].key]
            /\ Dedup!HasStatus(deadLetters[i].key, {"dead_lettered"})
            /\ records[deadLetters[i].key].execution_id = deadLetters[i].execution_id
            /\ \A j \in 1 .. n : deadLetters[j].key = deadLetters[i].key => j = i
        BY <1>1, <2>2, <3>2 DEF AnswerInv, EvidenceMatchesRecord, n
      <4>2. deadLetters'[n + 1].key # deadLetters[i].key
        BY <2>2, <2>3, <3>2
      <4>3. \A j \in 1 .. n + 1 : deadLetters'[j].key = deadLetters[i].key => j = i
        BY <2>2, <4>1, <4>2
      <4> QED
        BY <4>1, <4>3 DEF Dedup!HasStatus
    <3> QED
      BY <2>2, <3>1, <3>2
  <2> QED
    BY <2>2, <2>4 DEF EvidenceMatchesRecord, Dedup!HasStatus
<1> QED
  BY <1>2, <1>3
  DEF Waits, StepKind, WorksOn, Repeats, Parks, Completes, Fails, Writes

\* Answers, records and evidence stay in agreement at every step, ...
LEMMA AnswerStep == TypeInv /\ CallInv /\ AnswerInv /\ [Next]_vars => AnswerInv'
  BY StepKinds, NoneFailedStep, MatchStep, CompletionStep, OwesStep, EvidenceStep
  DEF AnswerInv

\* ... so they always agree.
LEMMA AnswerInvariant == Spec => []AnswerInv
  BY AnswerInit, AnswerStep, TypeInvariant, CallInvariant, PTL DEF Spec

\* No caller is told a final disposition that differs from the stored one, then
\* or later: runner.py writes the record before it answers and never after.
THEOREM AnswersAgreeWithRecords == Spec => []AnswersMatchRecord
<1>1. AnswerInv => AnswersMatchRecord
  BY AnswersAreMatches DEF AnswerInv
<1> QED
  BY <1>1, AnswerInvariant, PTL

\* Redeliveries, retries, takeovers and approval resumes together complete an
\* event at most once: mark_terminal refuses a record that is settled.
THEOREM CompletedByOne == Spec => []OneCompletion
<1>1. AnswerInv => OneCompletion
  BY DEF AnswerInv
<1> QED
  BY <1>1, AnswerInvariant, PTL

\* The sink's records describe the settled ones, one for each event at most: the
\* call that settles an event as dead-lettered is the one that reports it.
THEOREM EvidenceIsOfTheRecord == Spec => []EvidenceMatchesRecord
<1>1. AnswerInv => EvidenceMatchesRecord
  BY DEF AnswerInv
<1> QED
  BY <1>1, AnswerInvariant, PTL

-----------------------------------------------------------------------------
(* The runner implements EventLedger: every kind of step is a step of the   *)
(* ledger, or changes neither an event's fate nor a final answer.           *)

\* At first the ledger is empty.
LEMMA LedgerInitially == Init => Ledger!LedgerInit
<1> SUFFICES ASSUME Init PROVE Ledger!LedgerInit
  OBVIOUS
<1>1. \A k \in Keys : ~ Parked(k)
  BY DEF Init, Dedup!DedupInit, Parked, Dedup!HasStatus
<1>2. \A c \in Callers : ~ AnsweredAs(c, Dispositions \ {"lease_conflict", "pending_approval"})
  BY DEF Init, AnsweredAs, Answered
<1>3. [k \in Keys |-> LedgerEntry(k)] = [k \in Keys |-> Ledger!Open]
  BY <1>1 DEF LedgerEntry, Ledger!Open
<1>4. [c \in Callers |-> FinalAnswer(c)] = [c \in Callers |-> None]
  BY <1>2 DEF FinalAnswer
<1> QED
  BY <1>3, <1>4 DEF Ledger!LedgerInit

\* An event that is not written, or that stays open, keeps its entry; a call
\* that is given no final answer is still told nothing.
LEMMA EntryKeeps ==
  ASSUME NEW k \in Keys, records'[k] = records[k] \/ (~ Parked(k) /\ ~ Parked(k)')
  PROVE  LedgerEntry(k)' = LedgerEntry(k)
<1>1. CASE records'[k] = records[k]
  BY <1>1 DEF LedgerEntry, Parked, Dedup!HasStatus
<1>2. CASE ~ Parked(k) /\ ~ Parked(k)'
  BY <1>2 DEF LedgerEntry
<1> QED
  BY <1>1, <1>2

\* The answer the ledger sees is a final one.
LEMMA FinalAnswers ==
  ASSUME NEW c
  PROVE  /\ Final(c) <=> AnsweredAs(c, Dispositions \ {"lease_conflict", "pending_approval"})
         /\ ~ Final(c) => FinalAnswer(c) = None
         /\ ~ Final(c)' => FinalAnswer(c)' = None
         /\ Final(c)' => FinalAnswer(c)' = Ledger!Entry(result'[c].disposition,
                                             result'[c].execution_id, result'[c].outcome)
<1>1. FinalDispositions = Dispositions \ {"lease_conflict", "pending_approval"}
  BY DEF FinalDispositions, Dispositions
<1> QED
  BY <1>1 DEF Final, FinalAnswer, Ledger!Entry

\* An answer that does not change is the same to the ledger.
LEMMA ToldKeeps ==
  ASSUME NEW c, result'[c] = result[c]
  PROVE  FinalAnswer(c)' = FinalAnswer(c)
  BY DEF FinalAnswer, AnsweredAs, Answered

\* A step of call c shows in the ledger at its own event and its own answer only.
LEMMA LedgerChanges ==
  ASSUME NEW c \in Callers, OnlyMoves(c)
  PROVE  /\ Key(c) \in Keys
         /\ [k \in Keys |-> LedgerEntry(k)]'
              = [[k \in Keys |-> LedgerEntry(k)] EXCEPT ![Key(c)] = LedgerEntry(Key(c))']
         /\ [e \in Callers |-> FinalAnswer(e)]'
              = [[e \in Callers |-> FinalAnswer(e)] EXCEPT ![c] = FinalAnswer(c)']
<1>1. Key(c) \in Keys
  BY CallerKeys
<1>2. \A k \in Keys : k # Key(c) => LedgerEntry(k)' = LedgerEntry(k)
  BY EntryKeeps DEF OnlyMoves
<1>3. \A e \in Callers : e # c => FinalAnswer(e)' = FinalAnswer(e)
  BY ToldKeeps DEF OnlyMoves, View
<1> QED
  BY <1>1, <1>2, <1>3 DEF Key

\* A record is written over an unsettled one only.
LEMMA WritesUnsettled ==
  ASSUME TypeInv, AnswerInv, NEW c \in Callers, NEW status, Writes(c, status)
  PROVE  /\ Ledger!Unsettled(Key(c), WorkedOn(c))
         /\ status \in {"completed", "dead_lettered"}
              => LedgerEntry(Key(c))' = Ledger!Entry(status, WorkedOn(c), last[c].outcome)
         /\ status = "pending_approval"
              => LedgerEntry(Key(c))' = Ledger!Entry("parked", WorkedOn(c), last[c].outcome)
<1>1. /\ Key(c) \in Keys
      /\ ~ Dedup!IsTerminal(Key(c))
      /\ records[Key(c)].execution_id = WorkedOn(c)
      /\ Dedup!HasStatus(Key(c), {status})'
      /\ records'[Key(c)].execution_id = WorkedOn(c)
      /\ records'[Key(c)].outcome = last[c].outcome
  BY CallerKeys DEF Writes
<1>2. Ledger!Unsettled(Key(c), WorkedOn(c))
  <2>1. [k \in Keys |-> LedgerEntry(k)][Key(c)] = LedgerEntry(Key(c))
    BY <1>1
  <2>2. CASE ~ Parked(Key(c))
    <3>1. LedgerEntry(Key(c)).status = "open"
      BY <2>2 DEF LedgerEntry
    <3> QED
      BY <2>1, <3>1 DEF Ledger!Unsettled
  <2>3. CASE Parked(Key(c))
    <3>1. records[Key(c)].status = "pending_approval"
      BY <1>1, <2>3 DEF Parked, Dedup!IsTerminal, Dedup!HasStatus
    <3>2. /\ LedgerEntry(Key(c)).status = "parked"
          /\ LedgerEntry(Key(c)).execution_id = WorkedOn(c)
      BY <1>1, <2>3, <3>1 DEF LedgerEntry, LedgerStatus
    <3> QED
      BY <2>1, <3>2 DEF Ledger!Unsettled
  <2> QED
    BY <2>2, <2>3
<1>3. ASSUME NEW s, status = s,
             s \in {"completed", "dead_lettered", "pending_approval"}
      PROVE  LedgerEntry(Key(c))' = Ledger!Entry(LedgerStatus(s), WorkedOn(c), last[c].outcome)
  <2>1. /\ Parked(Key(c))'
        /\ records'[Key(c)].status = s
    BY <1>1, <1>3 DEF Parked, Dedup!HasStatus, Dedup!TerminalStatus, Key
  <2> QED
    BY <1>1, <2>1 DEF LedgerEntry, Ledger!Entry, Key
<1>4. /\ LedgerStatus("completed") = "completed"
      /\ LedgerStatus("dead_lettered") = "dead_lettered"
      /\ LedgerStatus("pending_approval") = "parked"
  BY DEF LedgerStatus
<1> QED
  BY <1>2, <1>3, <1>4

\* Every step of the runner is a step of the ledger, or none.
LEMMA LedgerStep ==
  ASSUME TypeInv, AnswerInv, Waits \/ \E c \in Callers : StepKind(c)
  PROVE  [Ledger!LedgerNext]_(Ledger!ledgerVars)
<1> DEFINE L == [k \in Keys |-> LedgerEntry(k)]
           T == [c \in Callers |-> FinalAnswer(c)]
<1>1. ASSUME L' = L, T' = T PROVE [Ledger!LedgerNext]_(Ledger!ledgerVars)
  BY <1>1 DEF Ledger!ledgerVars
<1>2. CASE Waits
  <2>1. \A k \in Keys : LedgerEntry(k)' = LedgerEntry(k)
    BY <1>2, EntryKeeps DEF Waits
  <2>2. \A c \in Callers : FinalAnswer(c)' = FinalAnswer(c)
    BY <1>2, ToldKeeps DEF Waits, View
  <2> QED
    BY <1>1, <2>1, <2>2
<1>3. ASSUME NEW c \in Callers, StepKind(c) PROVE [Ledger!LedgerNext]_(Ledger!ledgerVars)
  <2> DEFINE k == Key(c)
  <2>1. OnlyMoves(c)
    BY <1>3 DEF StepKind, WorksOn, Repeats, Parks, Completes, Fails, Reports, Writes
  <2>2. /\ k \in Keys
        /\ L' = [L EXCEPT ![k] = LedgerEntry(k)']
        /\ T' = [T EXCEPT ![c] = FinalAnswer(c)']
    BY <2>1, LedgerChanges
  <2>3. L[k] = LedgerEntry(k) /\ T[c] = FinalAnswer(c)
    BY <2>2
  <2>4. L = [L EXCEPT ![k] = L[k]] /\ T = [T EXCEPT ![c] = T[c]]
    BY <2>2
  <2> HIDE DEF L, T
  <2>5. FinalAnswer(c)' = None /\ FinalAnswer(c) = None => T' = T
    BY <2>2, <2>3, <2>4
  <2>6. LedgerEntry(k)' = LedgerEntry(k) => L' = L
    BY <2>2, <2>3, <2>4
  <2>7. ASSUME Unanswered(c) PROVE FinalAnswer(c) = None
    BY <2>7, FinalAnswers DEF Unanswered, Final, AnsweredAs, Answered
  <2>8. ~ Final(c)' => FinalAnswer(c)' = None
    BY FinalAnswers
  <2>9. result'[c] = result[c] => T' = T
    BY <2>2, <2>3, <2>4, ToldKeeps
  <2>10. CASE WorksOn(c)
    <3>1. LedgerEntry(k)' = LedgerEntry(k)
      BY <2>2, <2>10, EntryKeeps DEF WorksOn
    <3>2. T' = T
      BY <2>5, <2>7, <2>8, <2>9, <2>10 DEF WorksOn, GivesNoFinalAnswer
    <3> QED
      BY <1>1, <2>6, <3>1, <3>2
  <2>11. ASSUME NEW status, Writes(c, status) PROVE /\ Ledger!Unsettled(k, WorkedOn(c))
                                                   /\ WorkedOn(c) \in Executions
                                                   /\ FinalAnswer(c) = None
    BY <2>7, <2>11, WritesUnsettled DEF Writes
  <2>12. CASE Parks(c)
    <3>1. LedgerEntry(k)' = Ledger!Entry("parked", WorkedOn(c), last[c].outcome)
      BY <2>12, WritesUnsettled DEF Parks
    <3>2. T' = T
      BY <2>5, <2>8, <2>11, <2>12 DEF Parks
    <3>3. Ledger!ParkEvent(k, WorkedOn(c), last[c].outcome)
      BY <2>2, <2>11, <2>12, <3>1, <3>2 DEF Parks, Ledger!ParkEvent, L, T
    <3> QED
      BY <2>2, <2>11, <2>12, <3>3 DEF Parks, Ledger!LedgerNext
  <2>13. CASE Fails(c)
    <3>1. LedgerEntry(k)' = Ledger!Entry("dead_lettered", WorkedOn(c), last[c].outcome)
      BY <2>13, WritesUnsettled DEF Fails
    <3>2. T' = T
      BY <2>9, <2>13 DEF Fails
    <3>3. Ledger!FailEvent(k, WorkedOn(c), last[c].outcome)
      BY <2>2, <2>11, <2>13, <3>1, <3>2 DEF Fails, Ledger!FailEvent, L, T
    <3>4. last[c].outcome \in Outcomes \union {None}
      BY DEF TypeInv, TypeOK
    <3> QED
      BY <2>2, <2>11, <2>13, <3>3, <3>4 DEF Fails, Ledger!LedgerNext
  <2>14. CASE Completes(c)
    <3>1. LedgerEntry(k)' = Ledger!Entry("completed", WorkedOn(c), last[c].outcome)
      BY <2>14, WritesUnsettled DEF Completes
    <3>2. Final(c)' /\ result'[c].disposition = "completed"
      BY <2>14 DEF Completes, Final, AnsweredAs, FinalDispositions
    <3>3. FinalAnswer(c)' = Ledger!Entry("completed", WorkedOn(c), last[c].outcome)
      BY <2>14, <3>2, FinalAnswers DEF Completes
    <3>4. Ledger!CompleteEvent(c, WorkedOn(c), last[c].outcome)
      BY <2>2, <2>11, <2>14, <3>1, <3>3 DEF Completes, Ledger!CompleteEvent, Key, L, T
    <3> QED
      BY <2>11, <2>14, <3>4 DEF Completes, Ledger!LedgerNext
  <2>15. ASSUME NEW status \in FailureDispositions \union {"duplicate"},
                FinalAnswer(c) = None, records' = records,
                Dedup!HasStatus(k, {IF status = "duplicate" THEN "completed"
                                                            ELSE "dead_lettered"}),
                FinalAnswer(c)' = Ledger!Entry(status, records[k].execution_id,
                                               records[k].outcome)
         PROVE  [Ledger!LedgerNext]_(Ledger!ledgerVars)
    <3>1. /\ L[k].status = IF status = "duplicate" THEN "completed" ELSE "dead_lettered"
          /\ L[k].execution_id = records[k].execution_id
          /\ L[k].outcome = records[k].outcome
      BY <2>3, <2>15
      DEF LedgerEntry, LedgerStatus, Parked, Dedup!HasStatus, Dedup!TerminalStatus
    <3>2. L' = L
      BY <2>2, <2>6, <2>15, EntryKeeps
    <3>3. T[c] = None /\ T' = [T EXCEPT ![c] = Ledger!Entry(status, L[k].execution_id,
                                                            L[k].outcome)]
      BY <2>2, <2>3, <2>15, <3>1
    <3>4. Ledger!Tell(c)
      BY <2>15, <3>1, <3>2, <3>3
      DEF Ledger!Tell, Ledger!FailureAnswers, FailureDispositions, Key, L, T
    <3> QED
      BY <3>4 DEF Ledger!LedgerNext
  <2>16. CASE Repeats(c)
    <3>1. /\ records[k].status \in {"pending_approval", "completed", "dead_lettered"}
          /\ records[k] # None
          /\ FinalAnswer(c) = None
      BY <2>2, <2>7, <2>16
      DEF Repeats, Parked, Dedup!HasStatus, Dedup!TerminalStatus, AnswerInv, NoneFailed
    <3>2. /\ result'[c].disposition = StoredDisposition(records[k].status)
          /\ result'[c].execution_id = records[k].execution_id
          /\ result'[c].outcome = records[k].outcome
      BY <2>16 DEF Repeats, StoredResult
    <3>3. CASE Final(c)'
      <4> DEFINE status == StoredDisposition(records[k].status)
      <4>1. records[k].status # "pending_approval"
        BY <3>2, <3>3 DEF Final, AnsweredAs, FinalDispositions, StoredDisposition
      <4>2. /\ status \in FailureDispositions \union {"duplicate"}
            /\ Dedup!HasStatus(k, {IF status = "duplicate" THEN "completed"
                                                           ELSE "dead_lettered"})
        BY <3>1, <4>1 DEF StoredDisposition, FailureDispositions, Dedup!HasStatus
      <4>3. FinalAnswer(c)' = Ledger!Entry(status, records[k].execution_id, records[k].outcome)
        BY <3>2, <3>3, FinalAnswers
      <4> QED
        BY <2>15, <2>16, <3>1, <4>2, <4>3 DEF Repeats
    <3>4. CASE ~ Final(c)'
      <4>1. T' = T
        BY <2>5, <2>8, <3>1, <3>4
      <4>2. L' = L
        BY <2>2, <2>6, <2>16, EntryKeeps DEF Repeats
      <4> QED
        BY <1>1, <4>1, <4>2 DEF L, T
    <3> QED
      BY <3>3, <3>4
  <2>17. CASE Reports(c)
    <3>1. /\ Dedup!HasStatus(k, {"dead_lettered"})
          /\ records[k].execution_id = WorkedOn(c)
          /\ records[k].outcome = last[c].outcome
          /\ records' = records
      BY <2>17 DEF Reports, AnswerInv, OwesEvidence
    <3>2. FinalAnswer(c) = None
      BY <2>17, FinalAnswers DEF Reports, Final, AnsweredAs, Answered
    <3>3. CASE result'[c] = Raised
      <4>1. ~ Final(c)'
        BY <3>3 DEF Final, AnsweredAs, Answered
      <4>2. T' = T
        BY <2>5, <2>8, <3>2, <4>1
      <4>3. L' = L
        BY <2>2, <2>6, <3>1, EntryKeeps
      <4> QED
        BY <1>1, <4>2, <4>3 DEF L, T
    <3>4. CASE /\ AnsweredAs(c, FailureDispositions)'
               /\ result'[c].execution_id = WorkedOn(c)
               /\ result'[c].outcome = last[c].outcome
      <4> DEFINE status == result'[c].disposition
      <4>1. status \in FailureDispositions /\ Final(c)'
        BY <3>4 DEF AnsweredAs, Final, FailureDispositions, FinalDispositions
      <4>2. FinalAnswer(c)' = Ledger!Entry(status, records[k].execution_id, records[k].outcome)
        BY <3>1, <3>4, <4>1, FinalAnswers
      <4>3. status # "duplicate"
        BY <4>1 DEF FailureDispositions
      <4> HIDE DEF status
      <4> QED
        BY <2>15, <3>1, <3>2, <4>1, <4>2, <4>3
    <3> QED
      BY <2>17, <3>3, <3>4 DEF Reports
  <2> QED
    BY <1>3, <2>10, <2>12, <2>13, <2>14, <2>16, <2>17 DEF StepKind
<1> QED
  BY <1>2, <1>3

\* Every behaviour of the runner is one of the ledger: leases, claims, attempts
\* and crashes never show in an event's fate or in the final answers given.
THEOREM RunnerImplementsLedger == Spec => ImplementsLedger
<1>1. TypeInv /\ CallInv /\ AnswerInv /\ [Next]_vars => [Ledger!LedgerNext]_(Ledger!ledgerVars)
  BY StepKinds, LedgerStep
<1> QED
  BY <1>1, LedgerInitially, TypeInvariant, CallInvariant, AnswerInvariant, PTL
  DEF Spec, ImplementsLedger, Ledger!LedgerSpec

-----------------------------------------------------------------------------
(* The holder of the stored lease is not refused its claim, as long as no   *)
(* call leaves its claim behind: input extractors and handlers that raise   *)
(* through run do (the "input" and "abort" faults).                         *)

Claimed(k) == Dedup!HasStatus(k, {"in_progress"})

\* A claim's lease is still stored, or a newer one is.
RecordLeased(k) ==
  Claimed(k) =>
    /\ leases[k] # None
    /\ leases[k].version >= records[k].lease_version
    /\ leases[k].version = records[k].lease_version => leases[k].owner = records[k].lease_owner

\* A call that gives up an open event has lost its lease, which is why its
\* finally clause leaves the stored one alone.
GaveUp(d) ==
  pc[d] \in {"reread", "release"} /\ Claimed(Key(d)) => leases[Key(d)].owner # d

\* A claim of this delivery carries the execution it is working on.
OwnExecution(d) ==
  Claimed(Key(d)) /\ records[Key(d)].lease_owner = d
    => /\ pc[d] = "input" => records[Key(d)].execution_id = <<d, 1>>
       /\ pc[d] \in {"handling", "retry", "commit", "settle"}
            => records[Key(d)].execution_id = Execution(d)

LeaseInv ==
  /\ \A k \in Keys : RecordLeased(k)
  /\ \A d \in Deliveries : GaveUp(d) /\ OwnExecution(d)

\* At first nobody holds a lease or a claim.
LEMMA LeaseInvInit == Init => LeaseInv
<1> SUFFICES ASSUME Init PROVE LeaseInv
  OBVIOUS
<1>1. \A k \in Keys : ~ Claimed(k)
  BY DEF Init, Dedup!DedupInit, Claimed, Dedup!HasStatus
<1> QED
  BY <1>1, CallerKeys DEF LeaseInv, RecordLeased, GaveUp, OwnExecution

\* A claimed record is there and not parked.
LEMMA ClaimedIsOpen ==
  ASSUME NEW k
  PROVE  /\ Claimed(k) => ~ Parked(k) /\ records[k] # None
         /\ Claimed(k)' => ~ Parked(k)' /\ records'[k] # None
  BY DEF Claimed, Parked, Dedup!HasStatus, Dedup!TerminalStatus

\* A working delivery that still owns the stored lease finds its own claim.
LEMMA OwnersFindTheirClaim ==
  ASSUME TypeInv, ClaimInv, LeaseInv, NEW d \in Deliveries,
         pc[d] \in {"retry", "commit", "settle"},
         Claimed(Key(d)), leases[Key(d)].owner = d
  PROVE  /\ records[Key(d)].lease_version = Version(d)
         /\ records[Key(d)].lease_owner = d
         /\ records[Key(d)].execution_id = Execution(d)
<1> DEFINE k == Key(d)
<1>1. k \in Keys /\ leases[k] # None /\ leases[k].version = Version(d)
  BY CallerKeys DEF ClaimInv, CopiesAgree, LeaseInv, RecordLeased, Version
<1>2. /\ leases[k].version >= records[k].lease_version
      /\ leases[k].version = records[k].lease_version => leases[k].owner = records[k].lease_owner
  BY <1>1 DEF LeaseInv, RecordLeased
<1>3. records[k].lease_version >= Version(d)
  BY ClaimedIsOpen DEF ClaimInv, ClaimIsRecorded, PastClaim, Working
<1>4. Version(d) \in Nat /\ records[k].lease_version \in Nat
  BY <1>1, VersionType, StoreTypes, ClaimedIsOpen DEF HoldsLease, TypeInv, Dedup!DedupRecord
<1>5. records[k].lease_version = Version(d) /\ records[k].lease_owner = d
  BY <1>1, <1>2, <1>3, <1>4
<1> QED
  BY <1>5 DEF LeaseInv, OwnExecution

\* The same at the first claim: this is LeaseHolderClaims.
LEMMA OwnersAreNotRefused ==
  ASSUME TypeInv, ClaimInv, LeaseInv, NEW d \in Deliveries, pc[d] = "claim",
         ~ Parked(Key(d)), leases[Key(d)] # None, leases[Key(d)].owner = d
  PROVE  ~ Dedup!ClaimRefused(Key(d), d, Version(d))
<1> DEFINE k == Key(d)
<1>1. k \in Keys /\ leases[k].version = Version(d)
  BY CallerKeys DEF ClaimInv, CopiesAgree, Version
<1>2. Claimed(k) => /\ leases[k].version >= records[k].lease_version
                    /\ leases[k].version = records[k].lease_version
                         => leases[k].owner = records[k].lease_owner
  BY <1>1 DEF LeaseInv, RecordLeased
<1>3. Version(d) \in Nat /\ (Claimed(k) => records[k].lease_version \in Nat)
  BY <1>1, VersionType, StoreTypes, ClaimedIsOpen DEF HoldsLease, TypeInv, Dedup!DedupRecord
<1> QED
  BY <1>1, <1>2, <1>3 DEF Dedup!ClaimRefused, Claimed, Parked

\* A step that makes no claim and leaves the leases alone.
LEMMA NoClaimStep ==
  ASSUME TypeInv, LeaseInv, NEW c \in Callers, Acts(c), UNCHANGED leaseVars,
         \A k \in Keys : Claimed(k)' => records'[k] = records[k],
         c \in Deliveries =>
           /\ pc'[c] \in {"reread", "release"} /\ Claimed(Key(c))' => leases[Key(c)].owner # c
           /\ OwnExecution(c)'
  PROVE  LeaseInv'
<1>1. \A k \in Keys : Claimed(k)' => Claimed(k) /\ records'[k] = records[k]
  BY DEF Claimed, Dedup!HasStatus
<1>2. \A k \in Keys : RecordLeased(k)'
  BY <1>1 DEF LeaseInv, RecordLeased, leaseVars
<1>3. ASSUME NEW d \in Deliveries, d # c PROVE GaveUp(d)' /\ OwnExecution(d)'
  <2>1. pc'[d] = pc[d] /\ Execution(d)' = Execution(d) /\ Key(d) \in Keys
    BY <1>3, OneMover, CallerKeys DEF Execution
  <2> QED
    BY <1>1, <2>1 DEF LeaseInv, GaveUp, OwnExecution, leaseVars, Key
<1>4. c \in Deliveries => GaveUp(c)' /\ OwnExecution(c)'
  BY DEF GaveUp, leaseVars, Key
<1> QED
  BY <1>2, <1>3, <1>4 DEF LeaseInv

\* The steps of a delivery that write no record.
LEMMA ReadingSteps ==
  ASSUME TypeInv, ClaimInv, LeaseInv, AnswerInv, Faults \intersect {"input", "abort"} = {},
         NEW d \in Deliveries, UNCHANGED leaseVars, UNCHANGED records,
         \/ Lookup(d) \/ AcquireLease(d) \/ Claim(d) \/ Reread(d) \/ CallHandler(d)
         \/ InputRaises(d) \/ HandlerReturns(d) \/ HandlerRaises(d) \/ HandlerAborts(d)
         \/ Retry(d) \/ Commit(d) \/ Park(d) \/ SettleFailure(d) \/ RecordDeadLetter(d)
         \/ ReleaseLease(d) \/ Crash(d)
  PROVE  LeaseInv'
<1> DEFINE k == Key(d)
<1>1. /\ d \in Callers
      /\ k \in Keys
      /\ Acts(d)
      /\ \A j : Claimed(j)' <=> Claimed(j)
      /\ pc[d] \in PcStates /\ attempt \in [Deliveries -> 0 .. MaxAttempts]
  BY CallerKeys DEF Acts, Run, Claimed, Dedup!HasStatus, TypeInv, TypeOK
<1>2. \A to : Goto(d, to) => pc'[d] = to
  BY <1>1, MovesOnly
<1>3. SUFFICES /\ pc'[d] \in {"reread", "release"} /\ Claimed(k) => leases[k].owner # d
               /\ OwnExecution(d)'
  BY <1>1, NoClaimStep DEF Key
<1>4. CASE Lookup(d) \/ AcquireLease(d) \/ ReleaseLease(d) \/ Crash(d)
  <2>1. pc'[d] \in {"done", "acquire", "claim", "crashed"}
    <3>1. CASE Crash(d)
      BY <1>1, <3>1 DEF Crash, TypeInv, TypeOK
    <3> QED
      BY <1>2, <1>4, <3>1 DEF Lookup, AcquireLease, ReleaseLease, Answer
  <2> QED
    BY <2>1 DEF OwnExecution
<1>5. CASE Claim(d)
  <2>1. CASE Dedup!ClaimRefused(k, d, Version(d)) /\ Goto(d, "reread")
    BY <1>2, <1>1, <1>5, <2>1, OwnersAreNotRefused, ClaimedIsOpen
    DEF OwnExecution, LeaseInv, RecordLeased, Claim
  <2>2. CASE Dedup!MarkInProgress(k, <<d, 1>>, 0, d, Version(d)) /\ Goto(d, "input")
    <3>1. <<d, 1>> \in Executions /\ Version(d) \in Nat
      BY <1>5, VersionType, RunnerAssumption DEF Executions, Claim, HoldsLease
    <3>2. records'[k].execution_id = <<d, 1>>
      BY <1>1, <2>2, StoreTypes DEF Dedup!MarkInProgress, TypeInv
    <3> QED
      BY <1>2, <2>2, <3>2 DEF OwnExecution, Key
  <2> QED
    BY <1>5, <2>1, <2>2 DEF Claim
<1>6. CASE Reread(d)
  BY <1>1, <1>2, <1>6, ClaimedIsOpen DEF Reread, Answer, Conflict, LeaseInv, GaveUp, OwnExecution
<1>7. CASE CallHandler(d)
  <2>1. pc'[d] = "handling" /\ pc[d] = "input" /\ Execution(d)' = <<d, 1>>
    BY <1>1, <1>2, <1>7 DEF CallHandler, Execution
  <2> QED
    BY <1>1, <2>1 DEF LeaseInv, OwnExecution, Key
<1>8. CASE InputRaises(d) \/ HandlerAborts(d)
  BY <1>8 DEF InputRaises, HandlerAborts
<1>9. CASE HandlerReturns(d) \/ HandlerRaises(d)
  <2>1. PICK o, category : EndAttempt(d, o, category)
    BY <1>9 DEF HandlerReturns, HandlerRaises
  <2>2. /\ pc'[d] \in {"commit", "retry", "settle"}
        /\ pc[d] = "handling"
        /\ Execution(d)' = Execution(d)
    BY <1>2, <2>1 DEF EndAttempt, AfterAttempt, Execution
  <2> QED
    BY <1>1, <2>2 DEF LeaseInv, OwnExecution, Key
<1>10. ASSUME pc[d] \in {"retry", "commit", "settle"}, Conflict(d),
              \/ Dedup!ClaimRefused(k, d, Version(d))
              \/ ~ Dedup!CanSettle(k, Execution(d), d, Version(d))
              \/ ~ Dedup!CanPark(k, Execution(d), d, Version(d))
       PROVE  /\ pc'[d] \in {"reread", "release"} /\ Claimed(k) => leases[k].owner # d
              /\ OwnExecution(d)'
  <2>1. pc'[d] = "release"
    BY <1>2, <1>10 DEF Conflict, Answer
  <2>2. ASSUME Claimed(k), leases[k].owner = d PROVE FALSE
    <3>1. /\ records[k].lease_version = Version(d)
          /\ records[k].lease_owner = d
          /\ records[k].execution_id = Execution(d)
      BY <1>10, <2>2, OwnersFindTheirClaim
    <3>2. Version(d) \in Nat
      BY <1>10, VersionType DEF HoldsLease
    <3> QED
      BY <1>10, <2>2, <3>1, <3>2
      DEF Claimed, Dedup!ClaimRefused, Dedup!CanSettle, Dedup!CanPark, Dedup!ClaimMatches,
          Dedup!IsTerminal, Dedup!HasStatus, Dedup!TerminalStatus, Dedup!OpenStatus
  <2> QED
    BY <2>1, <2>2 DEF OwnExecution
<1>11. CASE Commit(d)
  <2>1. ~ Dedup!MarkTerminal(k, Execution(d), d, Version(d), "completed", last[d].outcome)
          \/ ~ Claimed(k)
    <3>1. k \in Keys /\ last[d].outcome \in Outcomes \union {None} /\ TypeOK
      BY <1>1 DEF TypeInv, TypeOK
    <3> HIDE DEF k
    <3>2. Dedup!MarkTerminal(k, Execution(d), d, Version(d), "completed", last[d].outcome)
            => Rewritten(k, Execution(d), last[d].outcome, "completed")
      BY <3>1, SettlingWrites
    <3> QED
      BY <3>2 DEF Rewritten, Claimed, Dedup!HasStatus
  <2> QED
    BY <1>2, <1>10, <1>11, <2>1 DEF Commit, Answer, OwnExecution
<1>12. CASE Park(d)
  <2>1. ~ Dedup!MarkPendingApproval(k, Execution(d), d, Version(d), last[d].outcome)
          \/ ~ Claimed(k)
    <3>1. k \in Keys /\ last[d].outcome \in Outcomes \union {None} /\ TypeOK
      BY <1>1 DEF TypeInv, TypeOK
    <3> HIDE DEF k
    <3>2. Dedup!MarkPendingApproval(k, Execution(d), d, Version(d), last[d].outcome)
            => Rewritten(k, Execution(d), last[d].outcome, "pending_approval")
      BY <3>1, ParkingWrites
    <3> QED
      BY <3>2 DEF Rewritten, Claimed, Dedup!HasStatus
  <2> QED
    BY <1>2, <1>10, <1>12, <2>1 DEF Park, Answer, OwnExecution
<1>13. CASE SettleFailure(d)
  BY <1>2, <1>10, <1>13 DEF SettleFailure, OwnExecution
<1>14. CASE RecordDeadLetter(d)
  <2>1. ~ Claimed(k) /\ pc'[d] = "release"
    BY <1>1, <1>2, <1>14
    DEF RecordDeadLetter, Answer, AnswerInv, OwesEvidence, Claimed, Dedup!HasStatus
  <2> QED
    BY <2>1 DEF OwnExecution
<1>15. CASE Retry(d) /\ Dedup!ClaimRefused(k, d, Version(d))
  BY <1>10, <1>15 DEF Retry, Dedup!MarkInProgress
<1>16. CASE Retry(d) /\ ~ Dedup!ClaimRefused(k, d, Version(d))
  <2>1. /\ attempt'[d] = attempt[d] + 1
        /\ Dedup!MarkInProgress(k, <<d, attempt[d] + 1>>, attempt[d], d, Version(d))
        /\ pc'[d] = "handling"
    BY <1>1, <1>2, <1>16 DEF Retry
  <2>2. records'[k].execution_id = <<d, attempt[d] + 1>>
    BY <1>1, <2>1, StoreTypes DEF Dedup!MarkInProgress, TypeInv
  <2> QED
    BY <2>1, <2>2 DEF OwnExecution, Execution, Key
<1> QED
  BY <1>4, <1>5, <1>6, <1>7, <1>8, <1>9, <1>11, <1>12, <1>13, <1>14, <1>15, <1>16

\* A claim is made under the newest lease, or renews the one there is.
LEMMA ClaimingSteps ==
  ASSUME TypeInv, ClaimInv, LeaseInv, NEW d \in Deliveries, Claim(d) \/ Retry(d),
         NEW x \in Executions, NEW n \in Nat,
         Dedup!MarkInProgress(Key(d), x, n, d, Version(d)),
         \/ pc'[d] = "input" /\ x = <<d, 1>>
         \/ pc'[d] = "handling" /\ x = Execution(d)'
  PROVE  LeaseInv'
<1> DEFINE k == Key(d)
<1>1. /\ d \in Callers
      /\ k \in Keys
      /\ Acts(d)
      /\ UNCHANGED leaseVars
      /\ Version(d) \in Nat
  BY CallerKeys, VersionType DEF Acts, Run, Claim, Retry, HoldsLease
<1>2. /\ ~ Parked(k)
      /\ records'[k].lease_version = Version(d)
      /\ records'[k].lease_owner = d
      /\ records'[k].execution_id = x
      /\ \A j \in Keys : j # k => records'[j] = records[j]
  BY <1>1, StoreTypes, Written DEF Dedup!MarkInProgress, TypeInv
<1>3. /\ leases[k] # None
      /\ leases[k].version >= Version(d)
      /\ leases[k].version = Version(d) => leases[k].owner = d
  <2>1. leases[k] # None => leases[k].version \in Nat
    BY <1>1, LeaseTypes
  <2>2. CASE CanSupersede(d)
    BY <1>1, <2>1, <2>2 DEF ClaimInv, NewestIsLeased
  <2>3. CASE ~ CanSupersede(d)
    <3>1. records[k] # None /\ records[k].lease_version >= Version(d)
      <4>1. records[k] # None => records[k].lease_version \in Nat
        BY <1>1, StoreTypes DEF TypeInv, Dedup!DedupRecord
      <4>2. CASE pc[d] = "claim"
        BY <1>1, <1>2, <2>3, <4>1, <4>2 DEF CanSupersede
      <4>3. CASE pc[d] = "retry"
        BY <1>2, <4>3 DEF ClaimInv, ClaimIsRecorded, PastClaim, Working
      <4> QED
        BY <4>2, <4>3 DEF Claim, Retry
    <3>2. Claimed(k)
      BY <1>1, <1>2, <3>1, StoreTypes
      DEF Claimed, Parked, Dedup!HasStatus, Dedup!DedupRecord, Dedup!OpenStatus,
          Dedup!TerminalStatus, TypeInv
    <3>3. records[k].lease_version = Version(d) /\ records[k].lease_owner = d
      <4>1. records[k].lease_version \in Nat
        BY <1>1, <3>1, StoreTypes DEF TypeInv, Dedup!DedupRecord
      <4> QED
        BY <1>1, <3>1, <3>2, <4>1 DEF Dedup!MarkInProgress, Dedup!ClaimRefused, Claimed
    <3> QED
      BY <1>1, <3>2, <3>3 DEF LeaseInv, RecordLeased
  <2> QED
    BY <2>2, <2>3
<1>4. \A j \in Keys : RecordLeased(j)'
  <2>1. RecordLeased(k)'
    BY <1>1, <1>2, <1>3 DEF RecordLeased, leaseVars
  <2>2. ASSUME NEW j \in Keys, j # k PROVE RecordLeased(j)'
    BY <1>1, <1>2, <2>2 DEF LeaseInv, RecordLeased, leaseVars, Claimed, Dedup!HasStatus
  <2> QED
    BY <2>1, <2>2
<1>5. ASSUME NEW e \in Deliveries, e # d PROVE GaveUp(e)' /\ OwnExecution(e)'
  <2>1. pc'[e] = pc[e] /\ Execution(e)' = Execution(e) /\ Key(e) \in Keys
    BY <1>1, <1>5, OneMover, CallerKeys DEF Execution
  <2>2. CASE Key(e) # k
    BY <1>1, <1>2, <2>1, <2>2
    DEF LeaseInv, GaveUp, OwnExecution, Claimed, Dedup!HasStatus, leaseVars, Key
  <2>3. CASE Key(e) = k
    <3>1. pc[e] \in {"reread", "release"} => Claimed(k)
      BY <1>1, <1>2, <2>3, StoreTypes
      DEF ClaimInv, ClaimIsRecorded, PastClaim, Claimed, Parked, Dedup!HasStatus,
          Dedup!DedupRecord, Dedup!OpenStatus, Dedup!TerminalStatus, TypeInv
    <3>2. GaveUp(e)'
      BY <1>1, <2>1, <2>3, <3>1 DEF LeaseInv, GaveUp, leaseVars, Key
    <3>3. OwnExecution(e)'
      BY <1>2, <1>5, <2>3 DEF OwnExecution, Key
    <3> QED
      BY <3>2, <3>3
  <2> QED
    BY <2>2, <2>3
<1>6. GaveUp(d)'
  BY DEF GaveUp
<1>7. OwnExecution(d)'
  BY <1>2 DEF OwnExecution, Key
<1> QED
  BY <1>4, <1>5, <1>6, <1>7 DEF LeaseInv

\* Settling and parking end the claim.
LEMMA SettlingSteps ==
  ASSUME TypeInv, LeaseInv, NEW c \in Callers, Acts(c), UNCHANGED leaseVars,
         \A k \in Keys : k # Key(c) => records'[k] = records[k], Parked(Key(c))'
  PROVE  LeaseInv'
<1>1. ~ Claimed(Key(c))'
  BY ClaimedIsOpen DEF Key
<1> QED
  BY <1>1, NoClaimStep DEF OwnExecution, Key

\* A delivery that gets the lease finds the claims as they were.
LEMMA AcquiringStep ==
  ASSUME TypeInv, LeaseInv, NEW d \in Deliveries, AcquireLease(d), Leases!Acquire(Key(d), d),
         pc'[d] = "claim"
  PROVE  LeaseInv'
<1> DEFINE k == Key(d)
<1>1. /\ d \in Callers
      /\ k \in Keys
      /\ Acts(d)
      /\ UNCHANGED records
  BY CallerKeys DEF Acts, Run, AcquireLease
<1>2. /\ leases'[k] = [owner |-> d, expires_at |-> now + TTL,
                       version |-> Leases!NextVersion(k)]
      /\ \A j \in Keys : j # k => leases'[j] = leases[j]
  BY <1>1, StoreTypes DEF Leases!Acquire, Leases!Grant, TypeInv
<1>3. /\ leases'[k].owner = d
      /\ leases'[k].version = Leases!NextVersion(k)
      /\ leases'[k] # None
  <2>1. [owner |-> d, expires_at |-> now + TTL, version |-> Leases!NextVersion(k)]
          \in Leases!Lease
    BY <1>1, LeaseTypes, StoreTypes, RunnerAssumption DEF Leases!Lease, TypeInv
  <2> QED
    BY <1>2, <2>1, NoneAssumption
<1>4. Claimed(k) => /\ leases'[k].version > records[k].lease_version
                    /\ records[k].lease_version \in Nat
  <2>1. leases[k] # None => leases[k].version \in Nat /\ leases'[k].version = leases[k].version + 1
    BY <1>1, <1>3, LeaseTypes
  <2>2. Claimed(k) => records[k].lease_version \in Nat
    BY <1>1, StoreTypes, ClaimedIsOpen DEF Dedup!DedupRecord, TypeInv
  <2> QED
    BY <1>1, <2>1, <2>2 DEF LeaseInv, RecordLeased
<1>5. \A j \in Keys : RecordLeased(j)'
  <2>1. RecordLeased(k)'
    <3>1. Claimed(k)' => Claimed(k) /\ records'[k] = records[k]
      BY <1>1 DEF Claimed, Dedup!HasStatus
    <3>2. Claimed(k) => /\ leases'[k].version >= records[k].lease_version
                        /\ leases'[k].version # records[k].lease_version
      <4>1. leases'[k].version \in Nat
        BY <1>1, <1>3, LeaseTypes
      <4> QED
        BY <1>4, <4>1
    <3> QED
      BY <1>3, <3>1, <3>2 DEF RecordLeased
  <2>2. ASSUME NEW j \in Keys, j # k PROVE RecordLeased(j)'
    BY <1>1, <1>2, <2>2 DEF LeaseInv, RecordLeased, Claimed, Dedup!HasStatus
  <2> QED
    BY <2>1, <2>2
<1>6. ASSUME NEW e \in Deliveries, e # d PROVE GaveUp(e)' /\ OwnExecution(e)'
  <2>1. pc'[e] = pc[e] /\ Execution(e)' = Execution(e) /\ Key(e) \in Keys
    BY <1>1, <1>6, OneMover, CallerKeys DEF Execution
  <2>2. OwnExecution(e)'
    BY <1>1, <2>1 DEF LeaseInv, OwnExecution, Claimed, Dedup!HasStatus, Key
  <2>3. leases'[Key(e)] = leases[Key(e)] \/ leases'[Key(e)].owner = d
    BY <1>2, <1>3, <2>1
  <2>4. GaveUp(e)'
    BY <1>1, <1>6, <2>1, <2>3 DEF LeaseInv, GaveUp, Claimed, Dedup!HasStatus, Key
  <2> QED
    BY <2>2, <2>4
<1>7. GaveUp(d)' /\ OwnExecution(d)'
  BY DEF GaveUp, OwnExecution
<1> QED
  BY <1>5, <1>6, <1>7 DEF LeaseInv

\* A lease is deleted only once its event is parked or settled.
LEMMA ReleasingStep ==
  ASSUME TypeInv, LeaseInv, NEW d \in Deliveries, ReleaseLease(d), Leases!Release(Key(d), d)
  PROVE  LeaseInv'
<1> DEFINE k == Key(d)
<1>1. /\ d \in Callers
      /\ k \in Keys
      /\ Acts(d)
      /\ UNCHANGED records
      /\ pc'[d] = "done"
  BY CallerKeys, MovesOnly DEF Acts, Run, ReleaseLease
<1>2. \A j \in Keys : j # k => leases'[j] = leases[j]
  BY <1>1, StoreTypes DEF Leases!Release, TypeInv
<1>3. ~ Claimed(k)
  BY <1>1
  DEF ReleaseLease, Leases!Release, Leases!ReleaseRefused, LeaseInv, GaveUp, RecordLeased
<1>4. \A j \in Keys : Claimed(j)' => j # k /\ Claimed(j) /\ records'[j] = records[j]
  BY <1>1, <1>3 DEF Claimed, Dedup!HasStatus
<1>5. \A j \in Keys : RecordLeased(j)'
  BY <1>2, <1>4 DEF LeaseInv, RecordLeased
<1>6. ASSUME NEW e \in Deliveries, e # d PROVE GaveUp(e)' /\ OwnExecution(e)'
  <2>1. pc'[e] = pc[e] /\ Execution(e)' = Execution(e) /\ Key(e) \in Keys
    BY <1>1, <1>6, OneMover, CallerKeys DEF Execution
  <2> QED
    BY <1>2, <1>4, <2>1 DEF LeaseInv, GaveUp, OwnExecution, Key
<1>7. GaveUp(d)' /\ OwnExecution(d)'
  BY <1>1 DEF GaveUp, OwnExecution
<1> QED
  BY <1>5, <1>6, <1>7 DEF LeaseInv

\* The steps that settle or park an event.
LEMMA DeliverySettles ==
  ASSUME TypeInv, LeaseInv, NEW d \in Deliveries, UNCHANGED leaseVars,
         Commit(d) \/ Park(d) \/ SettleFailure(d), records' # records
  PROVE  LeaseInv'
<1> DEFINE k == Key(d)
           o == last[d].outcome
<1>1. d \in Callers /\ k \in Keys /\ Acts(d) /\ o \in Outcomes \union {None} /\ TypeOK
  BY CallerKeys DEF Acts, Run, TypeInv, TypeOK
<1>2. \/ Dedup!MarkPendingApproval(k, Execution(d), d, Version(d), o)
      \/ \E status : Dedup!MarkTerminal(k, Execution(d), d, Version(d), status, o)
  BY DEF Commit, Park, SettleFailure
<1> HIDE DEF k, o
<1>3. Parked(k)'
  BY <1>1, <1>2, Written
<1>4. \A j \in Keys : j # k => records'[j] = records[j]
  BY <1>1, <1>2, WritesAreLocal
<1> QED
  BY <1>1, <1>3, <1>4, SettlingSteps DEF k, Key

\* The claim of a later attempt goes to its owner: LeaseInv survives a retry.
LEMMA LeaseRetries ==
  ASSUME TypeInv, ClaimInv, LeaseInv, AnswerInv, Faults \intersect {"input", "abort"} = {},
         NEW d \in Deliveries, Retry(d)
  PROVE  LeaseInv'
<1> DEFINE k == Key(d)
           next == attempt[d] + 1
<1>1. /\ d \in Callers
      /\ k \in Keys
      /\ next \in 1 .. MaxAttempts
      /\ attempt[d] \in Nat
      /\ attempt'[d] = next
      /\ UNCHANGED leaseVars
  BY CallerKeys, RunnerAssumption DEF Retry, TypeInv, TypeOK, DeliveryInv
<1>2. CASE Dedup!MarkInProgress(k, <<d, next>>, attempt[d], d, Version(d)) /\ Goto(d, "handling")
  <2>1. <<d, next>> \in Executions /\ pc'[d] = "handling" /\ <<d, next>> = Execution(d)'
    BY <1>1, <1>2, MovesOnly DEF Executions, Execution
  <2> HIDE DEF next
  <2> QED
    BY <1>1, <1>2, <2>1, ClaimingSteps
<1>3. CASE UNCHANGED records
  BY <1>1, <1>3, ReadingSteps
<1> QED
  BY <1>2, <1>3 DEF Retry

\* A delivery's step keeps every claim with a holder of the lease.
LEMMA LeaseDeliveries ==
  ASSUME TypeInv, ClaimInv, LeaseInv, AnswerInv, Faults \intersect {"input", "abort"} = {},
         NEW d \in Deliveries, Lookup(d) \/ Run(d) \/ Crash(d)
  PROVE  LeaseInv'
<1>1. CASE AcquireLease(d)
  <2>1. CASE Leases!Acquire(Key(d), d) /\ Goto(d, "claim")
    BY <1>1, <2>1, AcquiringStep, CallerKeys, MovesOnly
  <2>2. CASE UNCHANGED leaseVars
    BY <1>1, <2>2, ReadingSteps DEF AcquireLease
  <2> QED
    BY <1>1, <2>1, <2>2 DEF AcquireLease
<1>2. CASE Claim(d)
  <2>1. CASE Dedup!MarkInProgress(Key(d), <<d, 1>>, 0, d, Version(d)) /\ Goto(d, "input")
    <3>1. <<d, 1>> \in Executions /\ pc'[d] = "input" /\ 0 \in Nat
      BY <2>1, CallerKeys, MovesOnly, RunnerAssumption DEF Executions
    <3> QED
      BY <1>2, <2>1, <3>1, ClaimingSteps
  <2>2. CASE UNCHANGED records
    BY <1>2, <2>2, ReadingSteps DEF Claim
  <2> QED
    BY <1>2, <2>1, <2>2 DEF Claim
<1>3. CASE Retry(d)
  BY <1>3, LeaseRetries
<1>4. CASE Commit(d) \/ Park(d) \/ SettleFailure(d)
  <2>1. UNCHANGED leaseVars
    BY <1>4 DEF Commit, Park, SettleFailure
  <2> QED
    BY <1>4, <2>1, DeliverySettles, ReadingSteps
<1>5. CASE ReleaseLease(d)
  <2>1. CASE Leases!Release(Key(d), d)
    BY <1>5, <2>1, ReleasingStep
  <2>2. CASE UNCHANGED leaseVars
    BY <1>5, <2>2, ReadingSteps DEF ReleaseLease
  <2> QED
    BY <1>5, <2>1, <2>2 DEF ReleaseLease
<1>6. CASE \/ Lookup(d) \/ Reread(d) \/ CallHandler(d) \/ InputRaises(d) \/ HandlerReturns(d)
           \/ HandlerRaises(d) \/ HandlerAborts(d) \/ RecordDeadLetter(d) \/ Crash(d)
  <2>1. UNCHANGED leaseVars /\ UNCHANGED records
    BY <1>6 DEF Lookup, Reread, CallHandler, InputRaises, HandlerReturns, HandlerRaises,
                EndAttempt, HandlerAborts, RecordDeadLetter, Crash
  <2> QED
    BY <1>6, <2>1, ReadingSteps
<1> QED
  BY <1>1, <1>2, <1>3, <1>4, <1>5, <1>6 DEF Run

\* A resolver takes no claim.
LEMMA LeaseResolvers ==
  ASSUME TypeInv, LeaseInv, NEW r \in Resolvers, ReadPending(r) \/ Resolve(r)
  PROVE  LeaseInv'
<1> DEFINE k == Key(r)
           s == snapshot[r]
           o == last[r].outcome
<1>1. /\ r \in Callers
      /\ r \notin Deliveries
      /\ k \in Keys
      /\ Acts(r)
      /\ o \in Outcomes \union {None}
      /\ TypeOK
      /\ UNCHANGED leaseVars
  BY CallerKeys
  DEF Acts, TypeInv, TypeOK, ReadPending, Resolve, ResolveEscalated, ResolveSettled,
      ResolveDeadLetter
<1>2. CASE UNCHANGED records
  BY <1>1, <1>2, NoClaimStep
<1>3. CASE \/ Dedup!MarkPendingApproval(k, s.execution_id, s.lease_owner, s.lease_version, o)
           \/ \E status : Dedup!MarkTerminal(k, s.execution_id, s.lease_owner,
                                             s.lease_version, status, o)
  <2> HIDE DEF k, s, o
  <2>1. Parked(k)'
    BY <1>1, <1>3, Written
  <2>2. \A j \in Keys : j # k => records'[j] = records[j]
    BY <1>1, <1>3, WritesAreLocal
  <2> QED
    BY <1>1, <2>1, <2>2, SettlingSteps DEF k, Key
<1> QED
  BY <1>2, <1>3 DEF ReadPending, Resolve, ResolveEscalated, ResolveSettled, ResolveDeadLetter

\* When no input and no attempt aborts, claims stay with the lease, ...
LEMMA LeaseInvStep ==
  ASSUME Faults \intersect {"input", "abort"} = {}
  PROVE  TypeInv /\ ClaimInv /\ AnswerInv /\ LeaseInv /\ [Next]_vars => LeaseInv'
<1> SUFFICES ASSUME TypeInv, ClaimInv, AnswerInv, LeaseInv, [Next]_vars PROVE LeaseInv'
  OBVIOUS
<1>1. CASE UNCHANGED vars
  BY <1>1 DEF vars, LeaseInv, RecordLeased, GaveUp, OwnExecution, Claimed, Dedup!HasStatus,
              Execution, Key
<1>2. CASE Tick
  <2>1. UNCHANGED <<leases, granted, records, pc, attempt>>
    BY <1>2 DEF Tick, Leases!Tick
  <2> QED
    BY <2>1 DEF LeaseInv, RecordLeased, GaveUp, OwnExecution, Claimed, Dedup!HasStatus,
                Execution, Key
<1> QED
  BY <1>1, <1>2, LeaseDeliveries, LeaseResolvers DEF Next

\* ... always.
LEMMA LeaseInvariant ==
  ASSUME Faults \intersect {"input", "abort"} = {}
  PROVE  Spec => []LeaseInv
  BY LeaseInvInit, LeaseInvStep, TypeInvariant, ClaimInvariant, AnswerInvariant, PTL DEF Spec

\* A delivery that holds the stored lease gets its claim: after an expiry the
\* next lease has a larger version than any claim left behind.  An input
\* extractor that raises and a handler that raises a BaseException leave run
\* through its finally clause, which deletes the lease and with it the version
\* the claim was made under; the theorem is about runs without either.
THEOREM LeaseHoldersClaim ==
  ASSUME Faults \intersect {"input", "abort"} = {}
  PROVE  Spec => []LeaseHolderClaims
<1>1. TypeInv /\ ClaimInv /\ LeaseInv => LeaseHolderClaims
  <2> SUFFICES ASSUME TypeInv, ClaimInv, LeaseInv, NEW d \in Deliveries, pc[d] = "claim",
                      leases[Key(d)] = granted[Key(d)][d], ~ Parked(Key(d))
               PROVE  ~ Dedup!ClaimRefused(Key(d), d, Version(d))
    BY DEF LeaseHolderClaims
  <2>1. granted[Key(d)][d] # None
    BY DEF TypeInv, DeliveryInv, HoldsLease
  <2>2. leases[Key(d)].owner = d
    BY <2>1, CallerKeys DEF ClaimInv, CopiesAgree
  <2> QED
    BY <2>1, <2>2, OwnersAreNotRefused
<1> QED
  BY <1>1, LeaseInvariant, TypeInvariant, ClaimInvariant, PTL

=============================================================================
