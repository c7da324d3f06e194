----------------------- MODULE BackgroundRunnerProofs -----------------------
(***************************************************************************)
(* Safety of BackgroundRunner for every value of its constants: its types,  *)
(* a settled event is final, and a delivery whose lease has not expired     *)
(* owns the record it is working for.                                       *)
(***************************************************************************)
EXTENDS BackgroundRunner, TLAPS

-----------------------------------------------------------------------------
(* Type correctness.  A call reads fields of its own lease copy and of its  *)
(* snapshot, so types alone are not inductive: a working delivery has a     *)
(* lease and has started an attempt, a resolver has read a record.          *)

Attempting == {"handling", "retry", "commit", "settle", "evidence"}

DeliveryInv(d) ==
  /\ HoldsLease(d) => granted[Key(d)][d] # None
  /\ pc[d] \in Attempting => attempt[d] >= 1
  /\ pc[d] = "retry" => attempt[d] < MaxAttempts

ResolverInv(r) ==
  /\ pc[r] \in {"resolving", "evidence"} => snapshot[r] # None
  /\ pc[r] \in {"idle", "resolving", "evidence", "done"}

TypeInv ==
  /\ TypeOK
  /\ \A d \in Deliveries : DeliveryInv(d)
  /\ \A r \in Resolvers : ResolverInv(r)

\* The two stores' types, unfolded once.
LEMMA StoreTypes ==
  ASSUME TypeOK
  PROVE  /\ leases \in [Keys -> Leases!Lease \union {None}]
         /\ granted \in [Keys -> [Deliveries -> Leases!Lease \union {None}]]
         /\ now \in Nat
         /\ records \in [Keys -> Dedup!DedupRecord \union {None}]
  BY DEF TypeOK, Leases!LeaseTypeOK, Dedup!DedupTypeOK

\* Every call has a key, and a delivery's executions are its own.
LEMMA CallerKeys ==
  /\ \A c \in Callers : Key(c) \in Keys
  /\ Deliveries \subseteq Callers
  /\ Resolvers \subseteq Callers
  /\ Deliveries \intersect Resolvers = {}
  BY RunnerAssumption DEF Key, Callers

\* What the classifications return.
LEMMA ClassifyTypes ==
  /\ \A o : ClassifyOutcome(o) \in Categories
  /\ \A e : ClassifyException(e) \in Categories
  /\ \A category : FinalDisposition(category) \in Dispositions
  BY DEF ClassifyOutcome, ClassifyException, FinalDisposition, Categories, Dispositions

\* A stored record is answered with a well-formed result.
LEMMA StoredResultType ==
  ASSUME NEW record \in Dedup!DedupRecord
  PROVE  StoredResult(record) \in JobResult
<1>1. StoredDisposition(record.status) \in Dispositions
  BY DEF StoredDisposition, Dispositions
<1>2. StoredCategory(record) \in Categories \union {NoCategory}
  BY ClassifyTypes DEF StoredCategory, Categories, NoCategory
<1>3. record.outcome \in OutcomeKinds \union {None}
  BY RunnerAssumption DEF Dedup!DedupRecord
<1> QED
  BY <1>1, <1>2, <1>3 DEF StoredResult, JobResult, Dedup!DedupRecord

\* The empty stores and the idle callers are typed.
LEMMA InitType == Init => TypeInv
<1> SUFFICES ASSUME Init PROVE TypeInv
  OBVIOUS
<1>1. TypeOK
  BY RunnerAssumption
  DEF Init, TypeOK, Leases!LeaseInit, Leases!LeaseTypeOK, Dedup!DedupInit, Dedup!DedupTypeOK,
      PcStates, Categories
<1>2. \A c \in Callers : pc[c] = "idle"
  BY DEF Init
<1> QED
  BY <1>1, <1>2, CallerKeys DEF TypeInv, DeliveryInv, ResolverInv, HoldsLease, Attempting

\* What one call's move means for the places and answers of all.
LEMMA Moved ==
  ASSUME TypeOK, NEW c \in Callers, NEW to \in PcStates, Goto(c, to)
  PROVE  /\ pc' \in [Callers -> PcStates]
         /\ pc'[c] = to
         /\ \A e \in Callers : e # c => pc'[e] = pc[e]
  BY DEF TypeOK, Goto

\* An answer leaves the results typed.
LEMMA AnsweredType ==
  ASSUME TypeOK, NEW c \in Callers, NEW to, NEW r \in JobResult \union {None, Raised},
         Answer(c, to, r)
  PROVE  /\ Goto(c, to)
         /\ result' \in [Callers -> JobResult \union {None, Raised}]
  BY DEF TypeOK, Answer

\* The answer to a lost lease is a result.
LEMMA ConflictType == LeaseConflictResult \in JobResult
  BY DEF LeaseConflictResult, JobResult, Dispositions, Categories

\* A delivery's step concerns nobody else: with the new state typed, only its
\* own part of the invariant is left to show.
LEMMA DeliveryStep ==
  ASSUME TypeInv, TypeOK', NEW d \in Deliveries, NEW to \in PcStates, Goto(d, to),
         \A e \in Deliveries \ {d} : /\ granted'[Key(e)][e] = granted[Key(e)][e]
                                    /\ attempt'[e] = attempt[e],
         snapshot' = snapshot,
         DeliveryInv(d)'
  PROVE  TypeInv'
<1>1. \A e \in Callers : e # d => pc'[e] = pc[e]
  BY Moved, CallerKeys DEF TypeInv
<1>2. \A e \in Deliveries : DeliveryInv(e)'
  BY <1>1, CallerKeys DEF TypeInv, DeliveryInv, HoldsLease
<1>3. \A r \in Resolvers : ResolverInv(r)'
  BY <1>1, CallerKeys DEF TypeInv, ResolverInv
<1> QED
  BY <1>2, <1>3 DEF TypeInv

\* The places the steps below go to.
LEMMA Places ==
  /\ "acquire" \in PcStates /\ "claim" \in PcStates /\ "reread" \in PcStates
  /\ "input" \in PcStates /\ "handling" \in PcStates /\ "retry" \in PcStates
  /\ "commit" \in PcStates /\ "settle" \in PcStates /\ "evidence" \in PcStates
  /\ "release" \in PcStates /\ "done" \in PcStates /\ "crashed" \in PcStates
  /\ "resolving" \in PcStates
  BY DEF PcStates

\* Steps of run up to the first handler call.
LEMMA LookupType ==
  ASSUME TypeInv, NEW d \in Deliveries, Lookup(d) PROVE TypeInv'
<1>1. Parked(Key(d)) => StoredResult(records[Key(d)]) \in JobResult
  BY StoredResultType, StoreTypes, CallerKeys DEF Parked, Dedup!HasStatus, TypeInv
<1>2. \E to \in {"done", "acquire"} :
        Goto(d, to) /\ result' \in [Callers -> JobResult \union {None, Raised}]
  BY <1>1, AnsweredType, CallerKeys DEF Lookup, TypeInv, TypeOK
<1>3. PICK to \in {"done", "acquire"} :
        Goto(d, to) /\ result' \in [Callers -> JobResult \union {None, Raised}]
  BY <1>2
<1>4. to \in PcStates
  BY Places
<1>5. TypeOK'
  BY <1>3, <1>4, Moved, CallerKeys
  DEF Lookup, TypeInv, TypeOK, leaseVars, Leases!LeaseTypeOK, Dedup!DedupTypeOK
<1>6. DeliveryInv(d)'
  BY <1>3, <1>4, Moved, CallerKeys DEF DeliveryInv, TypeInv, HoldsLease, Attempting
<1> QED
  BY <1>3, <1>4, <1>5, <1>6, DeliveryStep DEF Lookup, leaseVars

\* The delivery asks for the lease of its key.
LEMMA AcquireType ==
  ASSUME TypeInv, NEW d \in Deliveries, AcquireLease(d) PROVE TypeInv'
<1>1. CASE Leases!Acquire(Key(d), d) /\ Goto(d, "claim") /\ UNCHANGED result
  <2> DEFINE lease == [owner |-> d, expires_at |-> now + TTL,
                       version |-> Leases!NextVersion(Key(d))]
  <2>1. lease \in Leases!Lease
    BY StoreTypes, CallerKeys, RunnerAssumption DEF Leases!NextVersion, Leases!Lease, TypeInv
  <2>2. /\ leases' = [leases EXCEPT ![Key(d)] = lease]
        /\ granted' = [granted EXCEPT ![Key(d)][d] = lease]
        /\ now' = now
    BY <1>1 DEF Leases!Acquire, Leases!Grant
  <2>3. Leases!LeaseTypeOK'
    BY <2>1, <2>2, StoreTypes, CallerKeys DEF Leases!LeaseTypeOK, TypeInv
  <2>4. TypeOK'
    BY <1>1, <2>3, Moved, Places, CallerKeys
    DEF AcquireLease, TypeInv, TypeOK, Dedup!DedupTypeOK
  <2>5. /\ granted'[Key(d)][d] # None
        /\ \A e \in Deliveries \ {d} : granted'[Key(e)][e] = granted[Key(e)][e]
    BY <2>1, <2>2, StoreTypes, CallerKeys, NoneAssumption DEF TypeInv
  <2>6. DeliveryInv(d)'
    BY <1>1, <2>5, Moved, Places, CallerKeys DEF DeliveryInv, TypeInv, Attempting
  <2> QED
    BY <1>1, <2>4, <2>5, <2>6, Places, DeliveryStep DEF AcquireLease
<1>2. CASE Answer(d, "done", LeaseConflictResult) /\ UNCHANGED leaseVars
  <2>1. /\ Goto(d, "done")
        /\ result' \in [Callers -> JobResult \union {None, Raised}]
    BY <1>2, AnsweredType, ConflictType, CallerKeys DEF TypeInv
  <2>2. TypeOK'
    BY <1>2, <2>1, Moved, Places, CallerKeys
    DEF AcquireLease, TypeInv, TypeOK, leaseVars, Leases!LeaseTypeOK, Dedup!DedupTypeOK
  <2>3. DeliveryInv(d)'
    BY <2>1, Moved, Places, CallerKeys DEF DeliveryInv, TypeInv, HoldsLease, Attempting
  <2> QED
    BY <1>2, <2>1, <2>2, <2>3, Places, DeliveryStep DEF AcquireLease, leaseVars
<1> QED
  BY <1>1, <1>2 DEF AcquireLease

\* A delivery past its acquire reads the version of its own lease copy.
LEMMA VersionType ==
  ASSUME TypeInv, NEW d \in Deliveries, HoldsLease(d)
  PROVE  Version(d) \in Nat
  BY StoreTypes, CallerKeys DEF TypeInv, DeliveryInv, Version, Leases!Lease

\* The three writes of the deduplication store keep its type.
LEMMA MarkInProgressType ==
  ASSUME TypeOK, NEW k \in Keys, NEW x \in Executions, NEW n \in Nat, NEW o \in Deliveries,
         NEW v \in Nat, Dedup!MarkInProgress(k, x, n, o, v)
  PROVE  Dedup!DedupTypeOK'
<1>1. [status |-> "in_progress", execution_id |-> x, attempt |-> n, outcome |-> None,
       lease_owner |-> o, lease_version |-> v] \in Dedup!DedupRecord
  BY DEF Dedup!DedupRecord, Dedup!OpenStatus
<1> QED
  BY <1>1, StoreTypes DEF Dedup!MarkInProgress, Dedup!DedupTypeOK

\* A record marked as pending approval is a record.
LEMMA MarkPendingType ==
  ASSUME TypeOK, NEW k \in Keys, NEW x, NEW o, NEW v, NEW outcome \in Outcomes \union {None},
         Dedup!MarkPendingApproval(k, x, o, v, outcome)
  PROVE  Dedup!DedupTypeOK'
<1>1. records[k] \in Dedup!DedupRecord
  BY StoreTypes DEF Dedup!MarkPendingApproval, Dedup!CanPark, Dedup!ClaimMatches
<1>2. [records[k] EXCEPT !.status = "pending_approval", !.outcome = outcome]
        \in Dedup!DedupRecord
  BY <1>1 DEF Dedup!DedupRecord, Dedup!OpenStatus
<1> QED
  BY <1>1, <1>2, StoreTypes DEF Dedup!MarkPendingApproval, Dedup!DedupTypeOK

\* A record marked as settled is a record.
LEMMA MarkTerminalType ==
  ASSUME TypeOK, NEW k \in Keys, NEW x, NEW o, NEW v, NEW status,
         NEW outcome \in Outcomes \union {None},
         Dedup!MarkTerminal(k, x, o, v, status, outcome)
  PROVE  Dedup!DedupTypeOK'
<1>1. records[k] \in Dedup!DedupRecord
  BY StoreTypes DEF Dedup!MarkTerminal, Dedup!CanSettle, Dedup!ClaimMatches
<1>2. [records[k] EXCEPT !.status = status, !.outcome = outcome] \in Dedup!DedupRecord
  BY <1>1 DEF Dedup!DedupRecord, Dedup!MarkTerminal
<1> QED
  BY <1>1, <1>2, StoreTypes DEF Dedup!MarkTerminal, Dedup!DedupTypeOK

\* The delivery claims the record, or finds that it cannot.
LEMMA ClaimType ==
  ASSUME TypeInv, NEW d \in Deliveries, Claim(d) PROVE TypeInv'
<1>1. PICK to \in {"input", "reread"} : Goto(d, to)
  BY DEF Claim
<1>2. Dedup!DedupTypeOK'
  <2>1. <<d, 1>> \in Executions
    BY RunnerAssumption DEF Executions
  <2> QED
    BY <2>1, VersionType, MarkInProgressType, CallerKeys
    DEF Claim, HoldsLease, TypeInv, TypeOK, Dedup!DedupTypeOK
<1>3. TypeOK'
  BY <1>1, <1>2, Moved, Places, CallerKeys
  DEF Claim, TypeInv, TypeOK, leaseVars, Leases!LeaseTypeOK
<1>4. DeliveryInv(d)'
  BY <1>1, Moved, Places, CallerKeys
  DEF Claim, DeliveryInv, TypeInv, HoldsLease, Attempting, leaseVars
<1> QED
  BY <1>1, <1>3, <1>4, Places, DeliveryStep DEF Claim, leaseVars

\* The steps that leave both stores and the sink alone.
LEMMA QuietStep ==
  ASSUME TypeInv, NEW d \in Deliveries, NEW to \in PcStates \ {"idle", "resolving"},
         Goto(d, to),
         result' \in [Callers -> JobResult \union {None, Raised}],
         attempt' \in [Deliveries -> 0 .. MaxAttempts],
         \A e \in Deliveries \ {d} : attempt'[e] = attempt[e],
         last' \in [Callers -> [outcome : Outcomes \union {None}, category : Categories]],
         UNCHANGED <<leaseVars, records, deadLetters, snapshot>>,
         HoldsLease(d),
         to \in Attempting => attempt'[d] >= 1,
         to = "retry" => attempt'[d] < MaxAttempts
  PROVE  TypeInv'
<1>1. TypeOK'
  BY Moved, CallerKeys
  DEF TypeInv, TypeOK, leaseVars, Leases!LeaseTypeOK, Dedup!DedupTypeOK
<1>2. DeliveryInv(d)'
  BY Moved, CallerKeys DEF DeliveryInv, TypeInv, leaseVars
<1> QED
  BY <1>1, <1>2, DeliveryStep DEF leaseVars

\* The refused delivery reads the record again and answers from it.
LEMMA RereadType ==
  ASSUME TypeInv, NEW d \in Deliveries, Reread(d) PROVE TypeInv'
<1>1. Parked(Key(d)) => StoredResult(records[Key(d)]) \in JobResult
  BY StoredResultType, StoreTypes, CallerKeys DEF Parked, Dedup!HasStatus, TypeInv
<1>2. /\ Goto(d, "release")
      /\ result' \in [Callers -> JobResult \union {None, Raised}]
  BY <1>1, ConflictType, AnsweredType, CallerKeys DEF Reread, Conflict, TypeInv
<1> QED
  BY <1>2, QuietStep, Places DEF Reread, TypeInv, TypeOK, HoldsLease, Attempting

\* The handler is called, returns or raises.
LEMMA CallHandlerType ==
  ASSUME TypeInv, NEW d \in Deliveries, CallHandler(d) PROVE TypeInv'
<1>1. /\ attempt' \in [Deliveries -> 0 .. MaxAttempts]
      /\ attempt'[d] = 1
      /\ \A e \in Deliveries \ {d} : attempt'[e] = attempt[e]
  BY RunnerAssumption DEF CallHandler, TypeInv, TypeOK
<1> QED
  BY <1>1, QuietStep, Places DEF CallHandler, TypeInv, TypeOK, HoldsLease

\* An input or an attempt that raises ends the delivery.
LEMMA RaisedType ==
  ASSUME TypeInv, NEW d \in Deliveries, InputRaises(d) \/ HandlerAborts(d) PROVE TypeInv'
<1>1. /\ Goto(d, "release")
      /\ result' \in [Callers -> JobResult \union {None, Raised}]
  BY AnsweredType, CallerKeys DEF InputRaises, HandlerAborts, TypeInv
<1> QED
  BY <1>1, QuietStep, Places
  DEF InputRaises, HandlerAborts, TypeInv, TypeOK, HoldsLease, Attempting

\* The handler returns or raises, and the attempt is classified.
LEMMA EndAttemptType ==
  ASSUME TypeInv, NEW d \in Deliveries, HandlerReturns(d) \/ HandlerRaises(d) PROVE TypeInv'
<1>1. PICK o \in Outcomes \union {None}, c \in Categories : EndAttempt(d, o, c)
  BY ClassifyTypes DEF HandlerReturns, HandlerRaises
<1> DEFINE to == AfterAttempt(d, o, c)
<1>2. to \in {"commit", "retry", "settle"} /\ (to = "retry" => attempt[d] < MaxAttempts)
  BY DEF AfterAttempt
<1>3. attempt[d] >= 1
  BY <1>1 DEF EndAttempt, TypeInv, DeliveryInv, Attempting
<1>4. last' \in [Callers -> [outcome : Outcomes \union {None}, category : Categories]]
  BY <1>1, CallerKeys DEF EndAttempt, TypeInv, TypeOK
<1>5. Goto(d, to) /\ HoldsLease(d)
  BY <1>1 DEF EndAttempt, HoldsLease
<1> HIDE DEF to
<1>6. to \in PcStates \ {"idle", "resolving"}
  BY <1>2, Places
<1> QED
  BY <1>1, <1>2, <1>3, <1>4, <1>5, <1>6, QuietStep DEF EndAttempt, TypeInv, TypeOK

\* A transient failure is tried again.
LEMMA RetryType ==
  ASSUME TypeInv, NEW d \in Deliveries, Retry(d) PROVE TypeInv'
<1>1. /\ attempt[d] \in Nat /\ attempt[d] >= 1 /\ attempt[d] + 1 \in 1 .. MaxAttempts
      /\ attempt' = [attempt EXCEPT ![d] = attempt[d] + 1]
      /\ UNCHANGED <<leaseVars, deadLetters, last, snapshot>>
  BY RunnerAssumption DEF Retry, TypeInv, TypeOK, DeliveryInv, Attempting
<1>2. /\ attempt' \in [Deliveries -> 0 .. MaxAttempts]
      /\ attempt'[d] = attempt[d] + 1
      /\ \A e \in Deliveries \ {d} : attempt'[e] = attempt[e]
  BY <1>1, RunnerAssumption DEF TypeInv, TypeOK
<1>3. HoldsLease(d)
  BY DEF Retry, HoldsLease
<1>4. CASE /\ Dedup!MarkInProgress(Key(d), <<d, attempt[d] + 1>>, attempt[d], d, Version(d))
           /\ Goto(d, "handling")
           /\ UNCHANGED result
  <2>1. <<d, attempt[d] + 1>> \in Executions
    BY <1>1 DEF Executions
  <2>2. Dedup!DedupTypeOK'
    BY <1>1, <1>3, <1>4, <2>1, VersionType, MarkInProgressType, CallerKeys DEF TypeInv
  <2>3. TypeOK'
    BY <1>1, <1>2, <1>4, <2>2, Moved, Places, CallerKeys
    DEF TypeInv, TypeOK, leaseVars, Leases!LeaseTypeOK
  <2>4. DeliveryInv(d)'
    BY <1>1, <1>2, <1>3, <1>4, Moved, Places, CallerKeys DEF DeliveryInv, TypeInv, leaseVars
  <2> QED
    BY <1>1, <1>2, <1>4, <2>3, <2>4, Places, DeliveryStep DEF leaseVars
<1>5. CASE Conflict(d) /\ UNCHANGED records
  <2>1. /\ Goto(d, "release")
        /\ result' \in [Callers -> JobResult \union {None, Raised}]
    BY <1>5, ConflictType, AnsweredType, CallerKeys DEF Conflict, TypeInv
  <2> QED
    BY <1>1, <1>2, <1>3, <1>5, <2>1, QuietStep, Places DEF TypeInv, TypeOK, Attempting
<1> QED
  BY <1>4, <1>5 DEF Retry

\* The steps of an attempting delivery that may write the record or the sink.
LEMMA SettlingStep ==
  ASSUME TypeInv, NEW d \in Deliveries, pc[d] \in Attempting,
         NEW to \in {"release", "evidence"}, Goto(d, to),
         result' \in [Callers -> JobResult \union {None, Raised}],
         Dedup!DedupTypeOK',
         deadLetters' \in Seq(DeadLetterRecord),
         UNCHANGED <<leaseVars, attempt, last, snapshot>>
  PROVE  TypeInv'
<1>1. to \in PcStates
  BY Places
<1>2. TypeOK'
  BY <1>1, Moved, CallerKeys DEF TypeInv, TypeOK, leaseVars, Leases!LeaseTypeOK
<1>3. DeliveryInv(d)'
  BY <1>1, Moved, CallerKeys DEF DeliveryInv, TypeInv, leaseVars, HoldsLease, Attempting
<1> QED
  BY <1>1, <1>2, <1>3, DeliveryStep DEF leaseVars

\* The answers an attempting delivery gives about its own execution.
LEMMA FreshResultType ==
  ASSUME TypeInv, NEW d \in Deliveries, pc[d] \in Attempting,
         NEW disposition \in Dispositions, NEW category \in Categories \union {NoCategory}
  PROVE  /\ FreshResult(d, disposition, category) \in JobResult
         /\ Execution(d) \in Executions
<1>1. attempt[d] \in 1 .. MaxAttempts
  BY RunnerAssumption DEF TypeInv, TypeOK, DeliveryInv
<1>2. last[d].outcome \in OutcomeKinds \union {None}
  BY CallerKeys, RunnerAssumption DEF TypeInv, TypeOK
<1>3. Execution(d) \in Executions
  BY <1>1 DEF Execution, Executions
<1> QED
  BY <1>1, <1>2, <1>3 DEF FreshResult, JobResult

\* A success is stored.
LEMMA CommitType ==
  ASSUME TypeInv, NEW d \in Deliveries, Commit(d) PROVE TypeInv'
<1>1. pc[d] \in Attempting /\ UNCHANGED <<leaseVars, deadLetters, attempt, last, snapshot>>
  BY DEF Commit, Attempting
<1>2. FreshResult(d, "completed", NoCategory) \in JobResult
  BY <1>1, FreshResultType DEF Dispositions
<1>3. /\ Goto(d, "release")
      /\ result' \in [Callers -> JobResult \union {None, Raised}]
  BY <1>2, ConflictType, AnsweredType, CallerKeys DEF Commit, Conflict, TypeInv
<1>4. Dedup!DedupTypeOK'
  BY MarkTerminalType, CallerKeys DEF Commit, TypeInv, TypeOK, Dedup!DedupTypeOK
<1> QED
  BY <1>1, <1>3, <1>4, SettlingStep DEF TypeInv, TypeOK

\* An escalated run is parked for approval.
LEMMA ParkType ==
  ASSUME TypeInv, NEW d \in Deliveries, Park(d) PROVE TypeInv'
<1>1. pc[d] \in Attempting /\ UNCHANGED <<leaseVars, deadLetters, attempt, last, snapshot>>
  BY DEF Park, Attempting
<1>2. FreshResult(d, "pending_approval", last[d].category) \in JobResult
  BY <1>1, FreshResultType, CallerKeys DEF Dispositions, TypeInv, TypeOK
<1>3. /\ Goto(d, "release")
      /\ result' \in [Callers -> JobResult \union {None, Raised}]
  BY <1>2, ConflictType, AnsweredType, CallerKeys DEF Park, Conflict, TypeInv
<1>4. Dedup!DedupTypeOK'
  BY MarkPendingType, CallerKeys DEF Park, TypeInv, TypeOK, Dedup!DedupTypeOK
<1> QED
  BY <1>1, <1>3, <1>4, SettlingStep DEF TypeInv, TypeOK

\* A failure is stored.
LEMMA SettleFailureType ==
  ASSUME TypeInv, NEW d \in Deliveries, SettleFailure(d) PROVE TypeInv'
<1>1. pc[d] \in Attempting /\ UNCHANGED <<leaseVars, deadLetters, attempt, last, snapshot>>
  BY DEF SettleFailure, Attempting
<1>2. \E to \in {"release", "evidence"} :
        Goto(d, to) /\ result' \in [Callers -> JobResult \union {None, Raised}]
  BY ConflictType, AnsweredType, CallerKeys DEF SettleFailure, Conflict, TypeInv, TypeOK
<1>3. Dedup!DedupTypeOK'
  BY MarkTerminalType, CallerKeys DEF SettleFailure, TypeInv, TypeOK, Dedup!DedupTypeOK
<1> QED
  BY <1>1, <1>2, <1>3, SettlingStep DEF TypeInv, TypeOK

\* A sequence grows by a record of its kind, or not at all.
LEMMA AppendTyped ==
  ASSUME NEW S, NEW q \in Seq(S), NEW e \in S, NEW p, p = Append(q, e) \/ p = q
  PROVE  p \in Seq(S)
OBVIOUS

\* The evidence of a failure goes to the sink.
LEMMA RecordDeadLetterType ==
  ASSUME TypeInv, NEW d \in Deliveries, RecordDeadLetter(d) PROVE TypeInv'
<1> DEFINE disposition == FinalDisposition(last[d].category)
<1>1. pc[d] \in Attempting /\ UNCHANGED <<leaseVars, records, attempt, last, snapshot>>
  BY DEF RecordDeadLetter, Attempting
<1>2. disposition \in Dispositions /\ last[d].category \in Categories
  BY ClassifyTypes, CallerKeys DEF TypeInv, TypeOK
<1>3. FreshResult(d, disposition, last[d].category) \in JobResult /\ Execution(d) \in Executions
  BY <1>1, <1>2, FreshResultType
<1>4. /\ Goto(d, "release")
      /\ result' \in [Callers -> JobResult \union {None, Raised}]
  BY <1>3, AnsweredType, CallerKeys DEF RecordDeadLetter, TypeInv
<1> DEFINE letter == DeadLetter(d, Execution(d), disposition)
<1>5. letter \in DeadLetterRecord
  BY <1>2, <1>3, CallerKeys DEF DeadLetter, DeadLetterRecord
<1>6. deadLetters' = Append(deadLetters, letter) \/ deadLetters' = deadLetters
  BY DEF RecordDeadLetter
<1> HIDE DEF letter
<1>7. deadLetters' \in Seq(DeadLetterRecord)
  <2>1. deadLetters \in Seq(DeadLetterRecord)
    BY DEF TypeInv, TypeOK
  <2> QED
    BY ONLY <1>5, <1>6, <2>1, AppendTyped
<1> QED
  BY <1>1, <1>4, <1>7, SettlingStep DEF TypeInv, TypeOK, Dedup!DedupTypeOK

\* The delivery gives its lease back.
LEMMA ReleaseType ==
  ASSUME TypeInv, NEW d \in Deliveries, ReleaseLease(d) PROVE TypeInv'
<1>1. Leases!LeaseTypeOK'
  BY StoreTypes, CallerKeys
  DEF ReleaseLease, Leases!Release, Leases!LeaseTypeOK, leaseVars, TypeInv
<1>2. TypeOK'
  BY <1>1, Moved, Places, CallerKeys DEF ReleaseLease, TypeInv, TypeOK, Dedup!DedupTypeOK
<1>3. \A e \in Deliveries \ {d} : granted'[Key(e)][e] = granted[Key(e)][e]
  BY StoreTypes, CallerKeys DEF ReleaseLease, Leases!Release, leaseVars, TypeInv
<1>4. DeliveryInv(d)'
  BY Moved, Places, CallerKeys DEF ReleaseLease, DeliveryInv, TypeInv, HoldsLease, Attempting
<1> QED
  BY <1>2, <1>3, <1>4, Places, DeliveryStep DEF ReleaseLease

\* A delivery may be lost at any place.
LEMMA CrashType ==
  ASSUME TypeInv, NEW d \in Deliveries, Crash(d) PROVE TypeInv'
<1>1. Goto(d, "crashed")
  BY DEF Crash, Goto
<1> QED
  BY <1>1, QuietStep, Places DEF Crash, TypeInv, TypeOK, Attempting

\* A resolver's step, likewise.
LEMMA ResolverStep ==
  ASSUME TypeInv, NEW r \in Resolvers, NEW to \in {"resolving", "evidence", "done"},
         Goto(r, to),
         result' \in [Callers -> JobResult \union {None, Raised}],
         Dedup!DedupTypeOK',
         deadLetters' \in Seq(DeadLetterRecord),
         last' \in [Callers -> [outcome : Outcomes \union {None}, category : Categories]],
         snapshot' \in [Resolvers -> Dedup!DedupRecord \union {None}],
         \A q \in Resolvers \ {r} : snapshot'[q] = snapshot[q],
         snapshot'[r] # None,
         UNCHANGED <<leaseVars, attempt>>
  PROVE  TypeInv'
<1>1. to \in PcStates
  BY Places
<1>2. TypeOK'
  BY <1>1, Moved, CallerKeys DEF TypeInv, TypeOK, leaseVars, Leases!LeaseTypeOK
<1>3. /\ pc'[r] = to
      /\ \A e \in Callers : e # r => pc'[e] = pc[e]
  BY <1>1, Moved, CallerKeys DEF TypeInv
<1>4. \A d \in Deliveries : DeliveryInv(d)'
  BY <1>3, CallerKeys DEF TypeInv, DeliveryInv, HoldsLease, leaseVars
<1>5. \A q \in Resolvers : ResolverInv(q)'
  BY <1>3, CallerKeys DEF TypeInv, ResolverInv
<1> QED
  BY <1>2, <1>4, <1>5 DEF TypeInv

\* A resolver reads the record it wants to settle.
LEMMA ReadPendingType ==
  ASSUME TypeInv, NEW r \in Resolvers, ReadPending(r) PROVE TypeInv'
<1>1. PICK o \in Outcomes :
        last' = [last EXCEPT ![r] = [outcome |-> o, category |-> ClassifyOutcome(o)]]
  BY DEF ReadPending
<1>2. last' \in [Callers -> [outcome : Outcomes \union {None}, category : Categories]]
  BY <1>1, ClassifyTypes, CallerKeys DEF TypeInv, TypeOK
<1>3. records[Key(r)] \in Dedup!DedupRecord /\ records[Key(r)] # None
  BY StoreTypes, CallerKeys DEF ReadPending, Dedup!HasStatus, TypeInv
<1>4. /\ snapshot' \in [Resolvers -> Dedup!DedupRecord \union {None}]
      /\ snapshot'[r] # None
      /\ \A q \in Resolvers \ {r} : snapshot'[q] = snapshot[q]
  BY <1>3 DEF ReadPending, TypeInv, TypeOK
<1> QED
  BY <1>2, <1>4, ResolverStep DEF ReadPending, TypeInv, TypeOK, Dedup!DedupTypeOK

\* The answers a resolver gives about the execution it has read.
LEMMA ResolvedResultType ==
  ASSUME TypeInv, NEW r \in Resolvers, snapshot[r] # None, NEW n \in Nat,
         NEW disposition \in Dispositions, NEW category \in Categories \union {NoCategory}
  PROVE  /\ ResolvedResult(r, disposition, n, category) \in JobResult
         /\ snapshot[r].execution_id \in Executions
         /\ snapshot[r].attempt \in Nat
<1>1. snapshot[r] \in Dedup!DedupRecord
  BY DEF TypeInv, TypeOK
<1>2. last[r].outcome \in OutcomeKinds \union {None}
  BY CallerKeys, RunnerAssumption DEF TypeInv, TypeOK
<1> QED
  BY <1>1, <1>2 DEF ResolvedResult, JobResult, Dedup!DedupRecord

\* It parks the record again or settles it.
LEMMA ResolveType ==
  ASSUME TypeInv, NEW r \in Resolvers, ResolveEscalated(r) \/ ResolveSettled(r) PROVE TypeInv'
<1>1. /\ snapshot[r] # None
      /\ UNCHANGED <<leaseVars, deadLetters, attempt, last, snapshot>>
  BY DEF ResolveEscalated, ResolveSettled, TypeInv, ResolverInv
<1>2. snapshot[r].attempt \in Nat
  BY <1>1, ResolvedResultType DEF Dispositions, Categories
<1>3. /\ ResolvedResult(r, "pending_approval", snapshot[r].attempt, "approval_required")
           \in JobResult
      /\ ResolvedResult(r, "completed", snapshot[r].attempt + 1, NoCategory) \in JobResult
  BY <1>1, <1>2, ResolvedResultType DEF Dispositions, Categories
<1>4. PICK to \in {"evidence", "done"} :
        Goto(r, to) /\ result' \in [Callers -> JobResult \union {None, Raised}]
  BY <1>3, AnsweredType, CallerKeys DEF ResolveEscalated, ResolveSettled, TypeInv, TypeOK
<1>5. Dedup!DedupTypeOK'
  BY MarkPendingType, MarkTerminalType, CallerKeys
  DEF ResolveEscalated, ResolveSettled, TypeInv, TypeOK, Dedup!DedupTypeOK
<1> QED
  BY <1>1, <1>4, <1>5, ResolverStep DEF TypeInv, TypeOK

\* It records the dead letter it has settled.
LEMMA ResolveDeadLetterType ==
  ASSUME TypeInv, NEW r \in Resolvers, ResolveDeadLetter(r) PROVE TypeInv'
<1>1. /\ snapshot[r] # None
      /\ UNCHANGED <<leaseVars, records, attempt, last, snapshot>>
  BY DEF ResolveDeadLetter, TypeInv, ResolverInv
<1>2. last[r].category \in Categories /\ "dead_lettered" \in Dispositions
  BY CallerKeys DEF TypeInv, TypeOK, Dispositions
<1>3. snapshot[r].execution_id \in Executions /\ snapshot[r].attempt \in Nat
  BY <1>1, <1>2, ResolvedResultType
<1>4. ResolvedResult(r, "dead_lettered", snapshot[r].attempt + 1, last[r].category) \in JobResult
  BY <1>1, <1>2, <1>3, ResolvedResultType
<1>5. /\ Goto(r, "done")
      /\ result' \in [Callers -> JobResult \union {None, Raised}]
  BY <1>4, AnsweredType, CallerKeys DEF ResolveDeadLetter, TypeInv
<1> DEFINE letter == DeadLetter(r, snapshot[r].execution_id, "dead_lettered")
<1>6. letter \in DeadLetterRecord
  BY <1>2, <1>3, CallerKeys DEF DeadLetter, DeadLetterRecord
<1>7. deadLetters' = Append(deadLetters, letter) \/ deadLetters' = deadLetters
  BY DEF ResolveDeadLetter
<1> HIDE DEF letter
<1>8. deadLetters' \in Seq(DeadLetterRecord)
  <2>1. deadLetters \in Seq(DeadLetterRecord)
    BY DEF TypeInv, TypeOK
  <2> QED
    BY ONLY <1>6, <1>7, <2>1, AppendTyped
<1> QED
  BY <1>1, <1>5, <1>8, ResolverStep DEF TypeInv, TypeOK, Dedup!DedupTypeOK

\* Time passes for the leases only.
LEMMA TickType ==
  ASSUME TypeInv, Tick \/ UNCHANGED vars PROVE TypeInv'
<1>1. /\ UNCHANGED <<leases, granted, records, deadLetters, pc, attempt, last, snapshot, result>>
      /\ now' \in Nat
  BY StoreTypes DEF Tick, Leases!Tick, vars, TypeInv
<1>2. TypeOK'
  BY <1>1 DEF TypeInv, TypeOK, Leases!LeaseTypeOK, Dedup!DedupTypeOK
<1> QED
  BY <1>1, <1>2 DEF TypeInv, DeliveryInv, ResolverInv, HoldsLease

\* TypeInv is inductive: one case per action of Next.
LEMMA TypeStep == TypeInv /\ [Next]_vars => TypeInv'
<1> SUFFICES ASSUME TypeInv, [Next]_vars PROVE TypeInv'
  OBVIOUS
<1>1. CASE \E d \in Deliveries : Lookup(d)
  BY <1>1, LookupType
<1>2. CASE \E d \in Deliveries : Run(d)
  BY <1>2, AcquireType, ClaimType, RereadType, CallHandlerType, RaisedType, EndAttemptType,
     RetryType, CommitType, ParkType, SettleFailureType, RecordDeadLetterType, ReleaseType
  DEF Run
<1>3. CASE \E d \in Deliveries : Crash(d)
  BY <1>3, CrashType
<1>4. CASE \E r \in Resolvers : ReadPending(r)
  BY <1>4, ReadPendingType
<1>5. CASE \E r \in Resolvers : Resolve(r)
  BY <1>5, ResolveType, ResolveDeadLetterType DEF Resolve
<1>6. CASE Tick \/ UNCHANGED vars
  BY <1>6, TickType
<1> QED
  BY <1>1, <1>2, <1>3, <1>4, <1>5, <1>6 DEF Next

\* The runner's state is always typed.
LEMMA TypeInvariant == Spec => []TypeInv
  BY InitType, TypeStep, PTL DEF Spec

\* Every reachable state of the runner, its stores and its sink is well formed.
THEOREM TypeCorrect == Spec => []TypeOK
<1>1. TypeInv => TypeOK
  BY DEF TypeInv
<1> QED
  BY <1>1, TypeInvariant, PTL

-----------------------------------------------------------------------------
(* A settled event is final. *)

\* None of the store's writes is allowed on a settled record.
LEMMA WritesSpareSettled ==
  ASSUME TypeOK, NEW k \in Keys, Dedup!IsTerminal(k), NEW j \in Keys
  PROVE  /\ \A x, n, o, v : Dedup!MarkInProgress(j, x, n, o, v) => records'[k] = records[k]
         /\ \A x, o, v, outcome :
              Dedup!MarkPendingApproval(j, x, o, v, outcome) => records'[k] = records[k]
         /\ \A x, o, v, status, outcome :
              Dedup!MarkTerminal(j, x, o, v, status, outcome) => records'[k] = records[k]
<1>1. ASSUME NEW x, NEW n, NEW o, NEW v, Dedup!MarkInProgress(j, x, n, o, v)
      PROVE  records'[k] = records[k]
  <2>1. j # k
    BY <1>1 DEF Dedup!MarkInProgress, Dedup!ClaimRefused, Dedup!IsTerminal, Dedup!HasStatus,
                Dedup!TerminalStatus
  <2> QED
    BY <1>1, <2>1, StoreTypes DEF Dedup!MarkInProgress
<1>2. ASSUME NEW x, NEW o, NEW v, NEW outcome, Dedup!MarkPendingApproval(j, x, o, v, outcome)
      PROVE  records'[k] = records[k]
  <2>1. j # k
    BY <1>2 DEF Dedup!MarkPendingApproval, Dedup!CanPark, Dedup!IsTerminal, Dedup!HasStatus,
                Dedup!TerminalStatus, Dedup!OpenStatus
  <2> QED
    BY <1>2, <2>1, StoreTypes DEF Dedup!MarkPendingApproval
<1>3. ASSUME NEW x, NEW o, NEW v, NEW status, NEW outcome,
             Dedup!MarkTerminal(j, x, o, v, status, outcome)
      PROVE  records'[k] = records[k]
  BY <1>3, StoreTypes DEF Dedup!MarkTerminal, Dedup!CanSettle
<1> QED
  BY <1>1, <1>2, <1>3

\* A settled record is written by nobody.
LEMMA SettledStep ==
  ASSUME TypeInv, [Next]_vars, NEW k \in Keys, Dedup!IsTerminal(k)
  PROVE  records'[k] = records[k]
<1> USE WritesSpareSettled, CallerKeys DEF TypeInv
<1>1. ASSUME NEW d \in Deliveries, Lookup(d) \/ Run(d) \/ Crash(d)
      PROVE  records'[k] = records[k]
  BY <1>1
  DEF Run, Lookup, AcquireLease, Claim, Reread, CallHandler, InputRaises, HandlerReturns,
      HandlerRaises, EndAttempt, HandlerAborts, Retry, Commit, Park, SettleFailure,
      RecordDeadLetter, ReleaseLease, Crash
<1>2. ASSUME NEW r \in Resolvers, ReadPending(r) \/ Resolve(r)
      PROVE  records'[k] = records[k]
  BY <1>2 DEF Resolve, ReadPending, ResolveEscalated, ResolveSettled, ResolveDeadLetter
<1>3. Tick \/ UNCHANGED vars => records' = records
  BY DEF Tick, vars
<1> QED
  BY <1>1, <1>2, <1>3 DEF Next

\* No stale worker, redelivery or late resolver changes what an event was
\* settled as: the terminal records of deduplication.py are written once.
THEOREM SettledForGood == Spec => SettledIsFinal
<1>1. TypeInv /\ [Next]_vars
        => [\A k \in Keys : Dedup!IsTerminal(k) => records'[k] = records[k]]_vars
  BY SettledStep
<1> QED
  BY <1>1, TypeInvariant, PTL DEF Spec, SettledIsFinal

-----------------------------------------------------------------------------
(* A live worker owns its record: ClaimInv is inductive. *)

\* At first nobody has passed a claim.
LEMMA ClaimInit == Init => ClaimInv
<1> SUFFICES ASSUME Init PROVE ClaimInv
  OBVIOUS
<1>1. \A c \in Callers : pc[c] = "idle"
  BY DEF Init
<1>2. CopiesAgree
  BY DEF Init, CopiesAgree, Leases!LeaseInit, Leases!Unexpired
<1> QED
  BY <1>1, <1>2, CallerKeys
  DEF ClaimInv, NewestIsLeased, CanSupersede, ClaimIsRecorded, LiveClaim, Working, PastClaim

\* An event's record only moves forward: once parked or settled it stays so, and
\* until then its lease version never decreases.
Forward(k) ==
  /\ Parked(k) => Parked(k)'
  /\ ~ Parked(k)' /\ records[k] # None
       => records'[k] # None /\ records'[k].lease_version >= records[k].lease_version

\* A record that stays the same moves forward.
LEMMA ForwardWhenSame ==
  ASSUME TypeOK, NEW k \in Keys, records'[k] = records[k]
  PROVE  Forward(k)
<1>1. records[k] # None => records[k].lease_version \in Nat
  BY StoreTypes DEF Dedup!DedupRecord
<1> QED
  BY <1>1 DEF Forward, Parked, Dedup!HasStatus

\* What each write of the store leaves under the key it writes.
LEMMA Written ==
  ASSUME TypeOK, NEW k \in Keys
  PROVE  /\ \A x \in Executions, n \in Nat, o \in Deliveries, v \in Nat :
              Dedup!MarkInProgress(k, x, n, o, v)
                => /\ ~ Parked(k)
                   /\ Dedup!HasStatus(k, {"in_progress"})'
                   /\ records'[k].lease_version = v
                   /\ records'[k].lease_owner = o
         /\ \A x, o, v : \A outcome \in Outcomes \union {None} :
              Dedup!MarkPendingApproval(k, x, o, v, outcome) => Parked(k)'
         /\ \A x, o, v, status : \A outcome \in Outcomes \union {None} :
              Dedup!MarkTerminal(k, x, o, v, status, outcome) => Parked(k)'
<1>1. ASSUME NEW x \in Executions, NEW n \in Nat, NEW o \in Deliveries, NEW v \in Nat,
             Dedup!MarkInProgress(k, x, n, o, v)
      PROVE  /\ ~ Parked(k)
             /\ Dedup!HasStatus(k, {"in_progress"})'
             /\ records'[k].lease_version = v
             /\ records'[k].lease_owner = o
  <2> DEFINE r == [status |-> "in_progress", execution_id |-> x, attempt |-> n,
                   outcome |-> None, lease_owner |-> o, lease_version |-> v]
  <2>1. r \in Dedup!DedupRecord
    BY DEF Dedup!DedupRecord, Dedup!OpenStatus
  <2>2. records'[k] = r
    BY <1>1, StoreTypes DEF Dedup!MarkInProgress
  <2>3. ~ Parked(k)
    BY <1>1 DEF Dedup!MarkInProgress, Dedup!ClaimRefused, Parked
  <2> QED
    BY <2>1, <2>2, <2>3, NoneAssumption DEF Dedup!HasStatus
<1>2. ASSUME NEW x, NEW o, NEW v, NEW outcome \in Outcomes \union {None},
             Dedup!MarkPendingApproval(k, x, o, v, outcome)
      PROVE  Parked(k)'
  <2>1. records[k] \in Dedup!DedupRecord
    BY <1>2, StoreTypes DEF Dedup!MarkPendingApproval, Dedup!CanPark, Dedup!ClaimMatches
  <2> DEFINE r == [records[k] EXCEPT !.status = "pending_approval", !.outcome = outcome]
  <2>2. r \in Dedup!DedupRecord /\ r.status = "pending_approval"
    BY <2>1 DEF Dedup!DedupRecord, Dedup!OpenStatus
  <2>3. records'[k] = r
    BY <1>2, <2>1, StoreTypes DEF Dedup!MarkPendingApproval
  <2> QED
    BY <2>2, <2>3, NoneAssumption DEF Parked, Dedup!HasStatus
<1>3. ASSUME NEW x, NEW o, NEW v, NEW status, NEW outcome \in Outcomes \union {None},
             Dedup!MarkTerminal(k, x, o, v, status, outcome)
      PROVE  Parked(k)'
  <2>1. records[k] \in Dedup!DedupRecord /\ status \in Dedup!TerminalStatus
    BY <1>3, StoreTypes DEF Dedup!MarkTerminal, Dedup!CanSettle, Dedup!ClaimMatches
  <2> DEFINE r == [records[k] EXCEPT !.status = status, !.outcome = outcome]
  <2>2. r \in Dedup!DedupRecord /\ r.status = status
    BY <2>1 DEF Dedup!DedupRecord
  <2>3. records'[k] = r
    BY <1>3, <2>1, StoreTypes DEF Dedup!MarkTerminal
  <2> QED
    BY <2>1, <2>2, <2>3, NoneAssumption DEF Parked, Dedup!HasStatus
<1> QED
  BY <1>1, <1>2, <1>3

\* A write under one key leaves the others alone.
LEMMA WritesAreLocal ==
  ASSUME TypeOK, NEW k \in Keys, NEW j \in Keys, j # k
  PROVE  /\ \A x, n, o, v : Dedup!MarkInProgress(j, x, n, o, v) => records'[k] = records[k]
         /\ \A x, o, v, outcome :
              Dedup!MarkPendingApproval(j, x, o, v, outcome) => records'[k] = records[k]
         /\ \A x, o, v, status, outcome :
              Dedup!MarkTerminal(j, x, o, v, status, outcome) => records'[k] = records[k]
  BY StoreTypes DEF Dedup!MarkInProgress, Dedup!MarkPendingApproval, Dedup!MarkTerminal

\* So does one that the deduplication store has written.
LEMMA WritesMoveForward ==
  ASSUME TypeOK, NEW k \in Keys, NEW j \in Keys
  PROVE  /\ \A x \in Executions, n \in Nat, o \in Deliveries, v \in Nat :
              Dedup!MarkInProgress(j, x, n, o, v) => Forward(k)
         /\ \A x, o, v : \A outcome \in Outcomes \union {None} :
              Dedup!MarkPendingApproval(j, x, o, v, outcome) => Forward(k)
         /\ \A x, o, v, status : \A outcome \in Outcomes \union {None} :
              Dedup!MarkTerminal(j, x, o, v, status, outcome) => Forward(k)
<1>1. CASE j # k
  BY <1>1, WritesAreLocal, ForwardWhenSame
<1>2. CASE j = k
  <2>1. ASSUME NEW x \in Executions, NEW n \in Nat, NEW o \in Deliveries, NEW v \in Nat,
               Dedup!MarkInProgress(k, x, n, o, v)
        PROVE  Forward(k)
    <3>1. /\ ~ Parked(k)
          /\ records'[k] # None
          /\ records'[k].lease_version = v
      BY <2>1, Written DEF Dedup!HasStatus
    <3>2. records[k] # None => v >= records[k].lease_version
      <4> SUFFICES ASSUME records[k] # None PROVE v >= records[k].lease_version
        OBVIOUS
      <4>1. records[k].lease_version \in Nat /\ Dedup!HasStatus(k, {"in_progress"})
        BY <3>1, StoreTypes
        DEF Dedup!DedupRecord, Dedup!HasStatus, Parked, Dedup!OpenStatus, Dedup!TerminalStatus
      <4> QED
        BY <2>1, <4>1 DEF Dedup!MarkInProgress, Dedup!ClaimRefused
    <3> QED
      BY <3>1, <3>2 DEF Forward
  <2> QED
    BY <1>2, <2>1, Written DEF Forward
<1> QED
  BY <1>1, <1>2

\* A delivery that passed its claim and whose lease is unexpired.
LiveWorker(d) == pc[d] \in Working /\ Leases!Unexpired(granted[Key(d)][d])

\* No other delivery of the event can claim it from a live worker, at its first
\* claim or at a retry, however its own lease was numbered.
LEMMA LiveWorkerRefusesOthers ==
  ASSUME TypeInv, ClaimInv, NEW e \in Deliveries, LiveWorker(e),
         NEW d \in Deliveries, d # e, Key(d) = Key(e), pc[d] \in {"claim", "retry"}
  PROVE  Dedup!ClaimRefused(Key(d), d, Version(d))
<1> DEFINE k == Key(e)
<1>1. /\ k \in Keys
      /\ leases[k] = granted[k][e]
      /\ leases[k].version = Version(e)
      /\ leases[k].owner = e
  BY CallerKeys DEF ClaimInv, CopiesAgree, LiveWorker, Version, Leases!Unexpired
<1>2. /\ Dedup!HasStatus(k, {"in_progress"})
      /\ records[k].lease_owner = e
      /\ records[k].lease_version = Version(e)
  BY DEF ClaimInv, LiveClaim, LiveWorker
<1>3. ~ Parked(k) /\ records[k] # None
  BY <1>2 DEF Parked, Dedup!HasStatus, Dedup!TerminalStatus
<1>4. Version(d) \in Nat /\ Version(e) \in Nat
  BY VersionType DEF HoldsLease, LiveWorker, Working
<1>5. CASE pc[d] = "claim"
  <2>1. ~ CanSupersede(d)
    BY <1>1, <1>3, <1>4, <1>5, <1>2 DEF ClaimInv, NewestIsLeased, CanSupersede
  <2>2. Version(e) >= Version(d)
    BY <1>2, <1>3, <1>4, <1>5, <2>1 DEF CanSupersede
  <2> QED
    BY <1>2, <1>4, <2>2 DEF Dedup!ClaimRefused
<1>6. CASE pc[d] = "retry"
  <2>1. Version(e) >= Version(d)
    BY <1>2, <1>3, <1>6 DEF ClaimInv, ClaimIsRecorded, PastClaim, Working
  <2> QED
    BY <1>2, <1>4, <2>1 DEF Dedup!ClaimRefused
<1> QED
  BY <1>5, <1>6

\* So no step of anybody else touches the record of a live worker.
LEMMA LiveRecordUntouched ==
  ASSUME TypeInv, ClaimInv, [Next]_vars, NEW e \in Deliveries, LiveWorker(e),
         ~ (Lookup(e) \/ Run(e) \/ Crash(e))
  PROVE  records'[Key(e)] = records[Key(e)]
<1> DEFINE k == Key(e)
<1>1. /\ k \in Keys
      /\ Dedup!HasStatus(k, {"in_progress"})
      /\ records[k].lease_owner = e
      /\ ~ Parked(k)
  BY CallerKeys
  DEF ClaimInv, LiveClaim, LiveWorker, Parked, Dedup!HasStatus, Dedup!TerminalStatus
<1>2. ASSUME NEW d \in Deliveries, d # e, Claim(d) \/ Retry(d)
      PROVE  records'[k] = records[k]
  <2>1. CASE Key(d) = k
    BY <1>2, <2>1, LiveWorkerRefusesOthers DEF Claim, Retry, Dedup!MarkInProgress
  <2>2. CASE Key(d) # k
    BY <1>1, <1>2, <2>2, WritesAreLocal, CallerKeys DEF Claim, Retry, TypeInv
  <2> QED
    BY <2>1, <2>2
<1>3. ASSUME NEW d \in Deliveries, d # e, Commit(d) \/ Park(d) \/ SettleFailure(d)
      PROVE  records'[k] = records[k]
  <2>1. CASE Key(d) = k
    BY <1>1, <1>3, <2>1
    DEF Commit, Park, SettleFailure, Dedup!MarkTerminal, Dedup!MarkPendingApproval,
        Dedup!CanSettle, Dedup!CanPark, Dedup!ClaimMatches
  <2>2. CASE Key(d) # k
    BY <1>1, <1>3, <2>2, WritesAreLocal, CallerKeys DEF Commit, Park, SettleFailure, TypeInv
  <2> QED
    BY <2>1, <2>2
<1>4. ASSUME NEW r \in Resolvers, ResolveEscalated(r) \/ ResolveSettled(r)
      PROVE  records'[k] = records[k]
  <2>1. Key(r) # k
    BY <1>1, <1>4 DEF ResolveEscalated, ResolveSettled, ClaimInv
  <2> QED
    BY <1>1, <1>4, <2>1, WritesAreLocal, CallerKeys DEF ResolveEscalated, ResolveSettled, TypeInv
<1>5. ASSUME NEW d \in Deliveries, d # e, Lookup(d) \/ Run(d) \/ Crash(d)
      PROVE  records'[k] = records[k]
  BY <1>2, <1>3, <1>5
  DEF Run, Lookup, AcquireLease, Reread, CallHandler, InputRaises, HandlerReturns,
      HandlerRaises, EndAttempt, HandlerAborts, RecordDeadLetter, ReleaseLease, Crash
<1>6. ASSUME NEW r \in Resolvers, ReadPending(r) \/ Resolve(r)
      PROVE  records'[k] = records[k]
  BY <1>4, <1>6 DEF Resolve, ReadPending, ResolveDeadLetter
<1>7. Tick \/ UNCHANGED vars => records' = records
  BY DEF Tick, vars
<1> QED
  BY <1>5, <1>6, <1>7 DEF Next

\* Every step moves every record forward.
LEMMA StepsMoveForward ==
  ASSUME TypeInv, [Next]_vars, NEW k \in Keys
  PROVE  Forward(k)
<1>1. ASSUME NEW d \in Deliveries, Claim(d) PROVE Forward(k)
  <2>1. <<d, 1>> \in Executions /\ Version(d) \in Nat /\ Key(d) \in Keys
    BY <1>1, VersionType, RunnerAssumption, CallerKeys DEF Executions, Claim, HoldsLease
  <2> QED
    BY <1>1, <2>1, WritesMoveForward, ForwardWhenSame DEF Claim, TypeInv
<1>2. ASSUME NEW d \in Deliveries, Retry(d) PROVE Forward(k)
  <2>1. /\ <<d, attempt[d] + 1>> \in Executions /\ attempt[d] \in Nat
        /\ Version(d) \in Nat /\ Key(d) \in Keys
    BY <1>2, VersionType, RunnerAssumption, CallerKeys
    DEF Executions, Retry, HoldsLease, TypeInv, DeliveryInv, TypeOK, Attempting
  <2> QED
    BY <1>2, <2>1, WritesMoveForward, ForwardWhenSame DEF Retry, TypeInv
<1>3. ASSUME NEW d \in Deliveries, Commit(d) \/ Park(d) \/ SettleFailure(d) PROVE Forward(k)
  <2>1. last[d].outcome \in Outcomes \union {None} /\ Key(d) \in Keys
    BY CallerKeys DEF TypeInv, TypeOK
  <2> QED
    BY <1>3, <2>1, WritesMoveForward, ForwardWhenSame DEF Commit, Park, SettleFailure, TypeInv
<1>4. ASSUME NEW r \in Resolvers, ResolveEscalated(r) \/ ResolveSettled(r) PROVE Forward(k)
  <2>1. last[r].outcome \in Outcomes \union {None} /\ Key(r) \in Keys
    BY CallerKeys DEF TypeInv, TypeOK
  <2> QED
    BY <1>4, <2>1, WritesMoveForward, ForwardWhenSame
    DEF ResolveEscalated, ResolveSettled, TypeInv
<1>5. ASSUME NEW d \in Deliveries, Lookup(d) \/ Run(d) \/ Crash(d) PROVE Forward(k)
  <2>1. CASE records' = records
    BY <2>1, ForwardWhenSame DEF TypeInv
  <2> QED
    BY <1>1, <1>2, <1>3, <1>5, <2>1
    DEF Run, Lookup, AcquireLease, Reread, CallHandler, InputRaises, HandlerReturns,
        HandlerRaises, EndAttempt, HandlerAborts, RecordDeadLetter, ReleaseLease, Crash
<1>6. ASSUME NEW r \in Resolvers, ReadPending(r) \/ Resolve(r) PROVE Forward(k)
  <2>1. CASE records' = records
    BY <2>1, ForwardWhenSame DEF TypeInv
  <2> QED
    BY <1>4, <1>6, <2>1 DEF Resolve, ReadPending, ResolveDeadLetter
<1>7. Tick \/ UNCHANGED vars => Forward(k)
  BY ForwardWhenSame DEF Tick, vars, TypeInv
<1> QED
  BY <1>5, <1>6, <1>7 DEF Next

\* A delivery never takes a step without moving.
LEMMA ActorMoves ==
  ASSUME TypeOK, NEW d \in Deliveries, Lookup(d) \/ Run(d) \/ Crash(d)
  PROVE  pc'[d] # pc[d]
<1>1. pc \in [Callers -> PcStates] /\ d \in Callers
  BY CallerKeys DEF TypeOK
<1>2. \A to : Goto(d, to) => pc'[d] = to
  BY <1>1 DEF Goto
<1>3. ASSUME NEW o, NEW category, EndAttempt(d, o, category) PROVE pc'[d] # pc[d]
  BY <1>2, <1>3 DEF EndAttempt, AfterAttempt
<1>4. CASE Crash(d)
  BY <1>1, <1>4 DEF Crash, HoldsLease
<1> QED
  BY <1>2, <1>3, <1>4
  DEF Run, Lookup, AcquireLease, Claim, Reread, CallHandler, InputRaises, HandlerReturns,
      HandlerRaises, HandlerAborts, Retry, Commit, Park, SettleFailure, RecordDeadLetter,
      ReleaseLease, Answer, Conflict

\* While no lease changes, a delivery that does not move keeps its part.
LEMMA BystanderKeeps ==
  ASSUME TypeInv, ClaimInv, [Next]_vars, UNCHANGED leaseVars,
         NEW e \in Deliveries, pc'[e] = pc[e]
  PROVE  NewestIsLeased(e)' /\ ClaimIsRecorded(e)' /\ LiveClaim(e)'
<1> DEFINE k == Key(e)
<1>1. /\ k \in Keys
      /\ Forward(k)
      /\ Version(e)' = Version(e)
      /\ UNCHANGED <<leases, granted, now>>
  BY CallerKeys, StepsMoveForward DEF Version, leaseVars, Key
<1>2. records[k] # None => records[k].lease_version \in Nat
  BY <1>1, StoreTypes DEF TypeInv, Dedup!DedupRecord
<1>3. HoldsLease(e) => Version(e) \in Nat
  BY VersionType
<1>4. NewestIsLeased(e)'
  <2>1. TypeOK'
    BY TypeStep DEF TypeInv
  <2>2. records'[k] # None => records'[k].lease_version \in Nat
    BY <1>1, <2>1 DEF TypeOK, Dedup!DedupTypeOK, Dedup!DedupRecord
  <2>3. CanSupersede(e)' => CanSupersede(e)
    BY <1>1, <1>2, <1>3, <2>2 DEF CanSupersede, Forward, HoldsLease, Key
  <2> QED
    BY <1>1, <2>3 DEF ClaimInv, NewestIsLeased, Key
<1>5. ClaimIsRecorded(e)'
  <2>1. TypeOK'
    BY TypeStep DEF TypeInv
  <2>2. records'[k] # None => records'[k].lease_version \in Nat
    BY <1>1, <2>1 DEF TypeOK, Dedup!DedupTypeOK, Dedup!DedupRecord
  <2> QED
    BY <1>1, <1>2, <1>3, <2>2
    DEF ClaimInv, ClaimIsRecorded, Forward, PastClaim, Working, HoldsLease, Key
<1>6. LiveClaim(e)'
  <2>1. ~ (Lookup(e) \/ Run(e) \/ Crash(e))
    BY ActorMoves DEF TypeInv
  <2>2. LiveWorker(e) => records'[k] = records[k]
    BY <2>1, LiveRecordUntouched
  <2> QED
    BY <1>1, <2>2
    DEF ClaimInv, LiveClaim, LiveWorker, Leases!Unexpired, Dedup!HasStatus, Key
<1> QED
  BY <1>4, <1>5, <1>6

\* So a step that leaves the leases alone has only its own delivery to answer for.
LEMMA WorkStep ==
  ASSUME TypeInv, ClaimInv, [Next]_vars, UNCHANGED leaseVars,
         NEW d \in Deliveries, \A e \in Callers : e # d => pc'[e] = pc[e],
         NewestIsLeased(d)' /\ ClaimIsRecorded(d)' /\ LiveClaim(d)'
  PROVE  ClaimInv'
<1>1. CopiesAgree'
  BY DEF ClaimInv, CopiesAgree, leaseVars, Leases!Unexpired, Key
<1>2. \A e \in Deliveries : NewestIsLeased(e)' /\ ClaimIsRecorded(e)' /\ LiveClaim(e)'
  BY BystanderKeeps, CallerKeys
<1>3. \A r \in Resolvers : pc'[r] = "resolving" => Parked(Key(r))'
  BY StepsMoveForward, CallerKeys DEF ClaimInv, Forward, Key
<1> QED
  BY <1>1, <1>2, <1>3 DEF ClaimInv, Key

\* A step that claims nothing: past its claim a delivery stays past it, and one
\* that goes on working has left the record alone.
LEMMA UnclaimingStep ==
  ASSUME TypeInv, ClaimInv, [Next]_vars, UNCHANGED leaseVars,
         NEW d \in Deliveries, NEW to \in PcStates, to # "claim", Goto(d, to),
         to \in PastClaim => pc[d] \in PastClaim,
         to \in Working => pc[d] \in Working /\ records' = records
  PROVE  ClaimInv'
<1>1. /\ pc'[d] = to
      /\ \A e \in Callers : e # d => pc'[e] = pc[e]
  BY Moved, CallerKeys DEF TypeInv
<1>2. /\ Forward(Key(d))
      /\ Version(d)' = Version(d)
      /\ UNCHANGED <<leases, granted, now>>
  BY CallerKeys, StepsMoveForward DEF Version, leaseVars, Key
<1>3. NewestIsLeased(d)'
  BY <1>1 DEF NewestIsLeased, CanSupersede
<1>4. ClaimIsRecorded(d)'
  <2>1. TypeOK'
    BY TypeStep DEF TypeInv
  <2>2. /\ records[Key(d)] # None => records[Key(d)].lease_version \in Nat
        /\ records'[Key(d)] # None => records'[Key(d)].lease_version \in Nat
        /\ pc[d] \in PastClaim => Version(d) \in Nat
    BY <1>1, <2>1, StoreTypes, VersionType, CallerKeys
    DEF TypeInv, TypeOK, Dedup!DedupTypeOK, Dedup!DedupRecord, HoldsLease, PastClaim, Working
  <2> QED
    BY <1>1, <1>2, <2>2 DEF ClaimInv, ClaimIsRecorded, Forward, Key
<1>5. LiveClaim(d)'
  BY <1>1, <1>2 DEF ClaimInv, LiveClaim, Leases!Unexpired, Dedup!HasStatus, Key
<1> QED
  BY <1>1, <1>3, <1>4, <1>5, WorkStep

\* The same for a step that writes a fresh claim and goes to work.
LEMMA ClaimedStep ==
  ASSUME TypeInv, ClaimInv, [Next]_vars, UNCHANGED leaseVars,
         NEW d \in Deliveries, NEW to \in Working, Goto(d, to),
         HoldsLease(d),
         Dedup!HasStatus(Key(d), {"in_progress"})',
         records'[Key(d)].lease_version = Version(d),
         records'[Key(d)].lease_owner = d
  PROVE  ClaimInv'
<1>1. /\ pc'[d] = to
      /\ to # "claim"
      /\ \A e \in Callers : e # d => pc'[e] = pc[e]
  BY Moved, CallerKeys DEF TypeInv, Working, PcStates
<1>2. /\ Version(d)' = Version(d)
      /\ Version(d) \in Nat
      /\ records'[Key(d)] # None
  BY VersionType DEF Version, leaseVars, Key, Dedup!HasStatus
<1>3. NewestIsLeased(d)'
  BY <1>1 DEF NewestIsLeased, CanSupersede
<1>4. ClaimIsRecorded(d)'
  BY <1>2 DEF ClaimIsRecorded, Key
<1>5. LiveClaim(d)'
  BY <1>2 DEF LiveClaim, Dedup!HasStatus, Key
<1> QED
  BY <1>1, <1>3, <1>4, <1>5, WorkStep

\* A delivery that claims the record owns it.
LEMMA ClaimClaims ==
  ASSUME TypeInv, ClaimInv, NEW d \in Deliveries, Claim(d) PROVE ClaimInv'
<1>1. /\ [Next]_vars
      /\ UNCHANGED leaseVars
      /\ HoldsLease(d)
      /\ Key(d) \in Keys
  BY CallerKeys DEF Next, Run, Claim, HoldsLease
<1>2. Version(d) \in Nat /\ <<d, 1>> \in Executions
  BY <1>1, VersionType, RunnerAssumption DEF Executions
<1>3. CASE Dedup!MarkInProgress(Key(d), <<d, 1>>, 0, d, Version(d)) /\ Goto(d, "input")
  <2>1. /\ Dedup!HasStatus(Key(d), {"in_progress"})'
        /\ records'[Key(d)].lease_version = Version(d)
        /\ records'[Key(d)].lease_owner = d
    BY <1>1, <1>2, <1>3, Written DEF TypeInv, Key
  <2>2. "input" \in Working
    BY DEF Working
  <2> QED
    BY <1>1, <1>3, <2>1, <2>2, ClaimedStep
<1>4. CASE /\ Dedup!ClaimRefused(Key(d), d, Version(d))
           /\ Goto(d, "reread")
           /\ UNCHANGED records
  <2>1. /\ pc'[d] = "reread"
        /\ \A e \in Callers : e # d => pc'[e] = pc[e]
    BY <1>4, Moved, Places, CallerKeys DEF TypeInv
  <2>2. NewestIsLeased(d)' /\ LiveClaim(d)'
    BY <2>1 DEF NewestIsLeased, CanSupersede, LiveClaim, Working
  <2>3. \/ Parked(Key(d))
        \/ records[Key(d)] # None /\ records[Key(d)].lease_version >= Version(d)
    <3>1. records[Key(d)] # None => records[Key(d)].lease_version \in Nat
      BY <1>1, StoreTypes DEF TypeInv, Dedup!DedupRecord
    <3>2. \/ Parked(Key(d))
          \/ records[Key(d)] # None /\ records[Key(d)].lease_version > Version(d)
          \/ records[Key(d)] # None /\ records[Key(d)].lease_version = Version(d)
      BY <1>4 DEF Dedup!ClaimRefused, Parked, Dedup!HasStatus
    <3> QED
      BY <1>2, <3>1, <3>2
  <2>4. ClaimIsRecorded(d)'
    BY <1>1, <1>4, <2>3 DEF ClaimIsRecorded, Parked, Dedup!HasStatus, Version, leaseVars, Key
  <2> QED
    BY <1>1, <2>1, <2>2, <2>4, WorkStep
<1> QED
  BY <1>3, <1>4 DEF Claim

\* A delivery that claims it again for its next attempt still does.
LEMMA RetryClaims ==
  ASSUME TypeInv, ClaimInv, NEW d \in Deliveries, Retry(d) PROVE ClaimInv'
<1>1. /\ [Next]_vars
      /\ UNCHANGED leaseVars
      /\ HoldsLease(d)
      /\ Key(d) \in Keys
  BY CallerKeys DEF Next, Run, Retry, HoldsLease
<1>2. Version(d) \in Nat /\ <<d, attempt[d] + 1>> \in Executions /\ attempt[d] \in Nat
  BY <1>1, VersionType, RunnerAssumption
  DEF Executions, Retry, TypeInv, DeliveryInv, TypeOK, Attempting
<1>3. CASE /\ Dedup!MarkInProgress(Key(d), <<d, attempt[d] + 1>>, attempt[d], d, Version(d))
           /\ Goto(d, "handling")
  <2>1. /\ Dedup!HasStatus(Key(d), {"in_progress"})'
        /\ records'[Key(d)].lease_version = Version(d)
        /\ records'[Key(d)].lease_owner = d
    BY <1>1, <1>2, <1>3, Written DEF TypeInv, Key
  <2>2. "handling" \in Working
    BY DEF Working
  <2> QED
    BY <1>1, <1>3, <2>1, <2>2, ClaimedStep
<1>4. CASE Conflict(d)
  <2>1. Goto(d, "release") /\ pc[d] \in PastClaim
    BY <1>4 DEF Conflict, Answer, Retry, PastClaim, Working
  <2>2. "release" \in PcStates /\ "release" \notin Working
    BY DEF PcStates, Working
  <2> QED
    BY <1>1, <2>1, <2>2, UnclaimingStep
<1> QED
  BY <1>3, <1>4 DEF Retry

\* The steps of run that neither claim nor touch a lease.
LEMMA UnclaimingSteps ==
  ASSUME TypeInv, ClaimInv, NEW d \in Deliveries,
         \/ Lookup(d) \/ Reread(d) \/ CallHandler(d) \/ InputRaises(d)
         \/ HandlerReturns(d) \/ HandlerRaises(d) \/ HandlerAborts(d)
         \/ Commit(d) \/ Park(d) \/ SettleFailure(d) \/ RecordDeadLetter(d) \/ Crash(d)
  PROVE  ClaimInv'
<1>1. [Next]_vars /\ UNCHANGED leaseVars
  BY DEF Next, Run, Lookup, Reread, CallHandler, InputRaises, HandlerReturns, HandlerRaises,
         EndAttempt, HandlerAborts, Commit, Park, SettleFailure, RecordDeadLetter, Crash
<1>2. \E to \in PcStates :
        /\ to # "claim"
        /\ Goto(d, to)
        /\ to \in PastClaim => pc[d] \in PastClaim
        /\ to \in Working => pc[d] \in Working /\ records' = records
  <2>1. CASE Lookup(d)
    BY <2>1 DEF Lookup, Answer, PcStates, PastClaim, Working
  <2>2. CASE Reread(d) \/ InputRaises(d) \/ HandlerAborts(d) \/ RecordDeadLetter(d)
    BY <2>2 DEF Reread, InputRaises, HandlerAborts, RecordDeadLetter, Answer, Conflict,
                PcStates, PastClaim, Working
  <2>3. CASE CallHandler(d)
    BY <2>3 DEF CallHandler, PcStates, PastClaim, Working
  <2>4. CASE HandlerReturns(d) \/ HandlerRaises(d)
    <3>1. PICK o, category : EndAttempt(d, o, category)
      BY <2>4 DEF HandlerReturns, HandlerRaises
    <3>2. AfterAttempt(d, o, category) \in {"commit", "retry", "settle"}
      BY DEF AfterAttempt
    <3> QED
      BY <3>1, <3>2 DEF EndAttempt, PcStates, PastClaim, Working
  <2>5. CASE Commit(d) \/ Park(d)
    BY <2>5 DEF Commit, Park, Answer, Conflict, PcStates, PastClaim, Working
  <2>6. CASE SettleFailure(d)
    BY <2>6 DEF SettleFailure, Answer, Conflict, PcStates, PastClaim, Working
  <2>7. CASE Crash(d)
    BY <2>7 DEF Crash, Goto, PcStates, PastClaim, Working
  <2> QED
    BY <2>1, <2>2, <2>3, <2>4, <2>5, <2>6, <2>7
<1> QED
  BY <1>1, <1>2, UnclaimingStep

\* A resolver settles what nobody owns.
LEMMA ResolversClaimNothing ==
  ASSUME TypeInv, ClaimInv, NEW r \in Resolvers, ReadPending(r) \/ Resolve(r) PROVE ClaimInv'
<1>1. [Next]_vars /\ UNCHANGED leaseVars
  BY DEF Next, Resolve, ReadPending, ResolveEscalated, ResolveSettled, ResolveDeadLetter
<1>2. \A e \in Callers : e # r => pc'[e] = pc[e]
  BY CallerKeys DEF Resolve, ReadPending, ResolveEscalated, ResolveSettled, ResolveDeadLetter,
                    Answer, Goto, TypeInv, TypeOK
<1>3. CopiesAgree'
  BY <1>1 DEF ClaimInv, CopiesAgree, leaseVars, Leases!Unexpired, Key
<1>4. \A e \in Deliveries : NewestIsLeased(e)' /\ ClaimIsRecorded(e)' /\ LiveClaim(e)'
  BY <1>1, <1>2, BystanderKeeps, CallerKeys
<1>5. pc'[r] = "resolving" => Parked(Key(r))'
  <2>1. pc'[r] = "resolving" => Parked(Key(r))
    <3>1. ReadPending(r) => Parked(Key(r))
      BY DEF ReadPending, Parked, Dedup!HasStatus
    <3>2. Resolve(r) => pc[r] = "resolving" \/ pc'[r] = "done"
      BY CallerKeys DEF Resolve, ResolveEscalated, ResolveSettled, ResolveDeadLetter, Answer,
                        Goto, TypeInv, TypeOK
    <3> QED
      BY <3>1, <3>2 DEF ClaimInv
  <2> QED
    BY <1>1, <2>1, StepsMoveForward, CallerKeys DEF Forward, Key
<1>6. \A e \in Resolvers : pc'[e] = "resolving" => Parked(Key(e))'
  BY <1>1, <1>2, <1>5, StepsMoveForward, CallerKeys DEF ClaimInv, Forward, Key
<1> QED
  BY <1>3, <1>4, <1>6 DEF ClaimInv, Key

\* What a granted or deleted lease leaves alone.
LEMMA LeaseTypes ==
  ASSUME TypeInv
  PROVE  /\ \A k \in Keys : leases[k] # None => leases[k].version \in Nat
         /\ \A k \in Keys, o \in Deliveries :
              /\ Leases!NextVersion(k) \in Nat
              /\ leases[k] # None => Leases!NextVersion(k) = leases[k].version + 1
  BY StoreTypes DEF TypeInv, Leases!Lease, Leases!NextVersion

\* A newly granted lease is newer than every claim.
LEMMA AcquireClaims ==
  ASSUME TypeInv, ClaimInv, NEW d \in Deliveries, Leases!Acquire(Key(d), d), Goto(d, "claim"),
         UNCHANGED records
  PROVE  ClaimInv'
<1> DEFINE k == Key(d)
           new == [owner |-> d, expires_at |-> now + TTL, version |-> Leases!NextVersion(k)]
<1>1. /\ k \in Keys
      /\ pc'[d] = "claim"
      /\ \A e \in Callers : e # d => pc'[e] = pc[e]
  BY Moved, Places, CallerKeys DEF TypeInv
<1>2. /\ leases'[k] = new
      /\ granted'[k][d] = new
      /\ now' = now
      /\ \A j \in Keys : j # k => leases'[j] = leases[j] /\ granted'[j] = granted[j]
      /\ \A e \in Deliveries : e # d => granted'[k][e] = granted[k][e]
  BY <1>1, StoreTypes DEF TypeInv, Leases!Acquire, Leases!Grant
<1>3. /\ new # None
      /\ new.owner = d
      /\ new.version = Leases!NextVersion(k)
      /\ new.version \in Nat
  <2>1. new \in Leases!Lease
    BY <1>1, StoreTypes, LeaseTypes, RunnerAssumption DEF TypeInv, Leases!Lease
  <2> QED
    BY <2>1, NoneAssumption DEF Leases!Lease
<1>4. \A j \in Keys : \A e \in Deliveries :
        e # d \/ j # k => granted'[j][e] = granted[j][e]
  BY <1>2
<1> HIDE DEF new, k
<1>5. CopiesAgree'
  <2>1. ASSUME NEW j \in Keys, j # k
        PROVE  /\ leases'[j] # None
                    => leases'[j] = granted'[j][leases'[j].owner] /\ Key(leases'[j].owner) = j
               /\ \A e \in Deliveries :
                    /\ granted'[j][e] # None => granted'[j][e].owner = e
                    /\ Leases!Unexpired(granted[j][e])' => leases'[j] = granted'[j][e]
    BY <1>2, <2>1 DEF ClaimInv, CopiesAgree, Leases!Unexpired
  <2>2. leases'[k] # None
          => leases'[k] = granted'[k][leases'[k].owner] /\ Key(leases'[k].owner) = k
    BY <1>2, <1>3 DEF k
  <2>3. ASSUME NEW e \in Deliveries
        PROVE  /\ granted'[k][e] # None => granted'[k][e].owner = e
               /\ Leases!Unexpired(granted[k][e])' => leases'[k] = granted'[k][e]
    <3>1. CASE e = d
      BY <1>2, <1>3, <3>1
    <3>2. CASE e # d
      <4>1. /\ granted[k][e] # None => granted[k][e].owner = e
            /\ Leases!Unexpired(granted[k][e]) => leases[k] = granted[k][e]
        BY <1>1 DEF ClaimInv, CopiesAgree
      <4>2. ~ Leases!Unexpired(granted[k][e])
        BY <3>2, <4>1 DEF Leases!Acquire, Leases!HeldByOther, Leases!Unexpired, k
      <4> QED
        BY <1>2, <3>2, <4>1, <4>2 DEF Leases!Unexpired
    <3> QED
      BY <3>1, <3>2
  <2> QED
    BY <2>1, <2>2, <2>3 DEF CopiesAgree, Key
<1>6. ASSUME NEW e \in Deliveries PROVE NewestIsLeased(e)'
  <2>1. CASE e = d
    BY <1>2, <1>3, <2>1 DEF NewestIsLeased, Version, k, Key
  <2>2. CASE e # d /\ Key(e) # k
    BY <1>1, <1>2, <2>2, CallerKeys
    DEF ClaimInv, NewestIsLeased, CanSupersede, Version, Parked, Dedup!HasStatus, Key
  <2>3. CASE e # d /\ Key(e) = k
    <3>1. CanSupersede(e)' => CanSupersede(e) /\ Version(e)' = Version(e)
      BY <1>1, <1>2, <2>3, CallerKeys DEF CanSupersede, Version, Parked, Dedup!HasStatus, Key
    <3>2. CanSupersede(e) => leases[k] # None /\ Version(e) <= leases[k].version
      BY <2>3 DEF ClaimInv, NewestIsLeased
    <3>3. CanSupersede(e) => Version(e) \in Nat
      BY VersionType DEF CanSupersede, HoldsLease
    <3>4. CanSupersede(e) => Version(e) < leases'[k].version
      BY <1>1, <1>2, <1>3, <3>2, <3>3, LeaseTypes DEF k
    <3>5. CanSupersede(e) => Version(e) <= leases'[k].version /\ Version(e) # leases'[k].version
      BY <1>2, <1>3, <3>3, <3>4
    <3> QED
      BY <1>2, <1>3, <2>3, <3>1, <3>5 DEF NewestIsLeased, Key
  <2> QED
    BY <2>1, <2>2, <2>3
<1>7. ASSUME NEW e \in Deliveries PROVE ClaimIsRecorded(e)' /\ LiveClaim(e)'
  <2>1. CASE e = d
    BY <1>1, <2>1 DEF ClaimIsRecorded, LiveClaim, PastClaim, Working
  <2>2. CASE e # d
    BY <1>1, <1>2, <1>4, <2>2, CallerKeys
    DEF ClaimInv, ClaimIsRecorded, LiveClaim, Version, Parked, Dedup!HasStatus,
        Leases!Unexpired, Key
  <2> QED
    BY <2>1, <2>2
<1>8. \A r \in Resolvers : pc'[r] = "resolving" => Parked(Key(r))'
  BY <1>1, CallerKeys DEF ClaimInv, Parked, Dedup!HasStatus, Key
<1> QED
  BY <1>5, <1>6, <1>7, <1>8 DEF ClaimInv, Key

\* Deleting a lease is safe: what the record carries then outlives it.
LEMMA ReleaseClaims ==
  ASSUME TypeInv, ClaimInv, NEW d \in Deliveries, pc[d] = "release",
         Leases!Release(Key(d), d), Goto(d, "done"), UNCHANGED records
  PROVE  ClaimInv'
<1> DEFINE k == Key(d)
<1>1. /\ k \in Keys
      /\ pc'[d] = "done"
      /\ \A e \in Callers : e # d => pc'[e] = pc[e]
  BY Moved, Places, CallerKeys DEF TypeInv
<1>2. /\ leases'[k] = None
      /\ granted'[k][d] = None
      /\ now' = now
      /\ \A j \in Keys : j # k => leases'[j] = leases[j] /\ granted'[j] = granted[j]
      /\ \A e \in Deliveries : e # d => granted'[k][e] = granted[k][e]
  BY <1>1, StoreTypes DEF TypeInv, Leases!Release
<1>3. leases[k] # None => leases[k].owner = d /\ leases[k] = granted[k][d]
  BY <1>1 DEF ClaimInv, CopiesAgree, Leases!Release, Leases!ReleaseRefused
<1> HIDE DEF k
<1>4. CopiesAgree'
  <2>1. ASSUME NEW j \in Keys, j # k
        PROVE  /\ leases'[j] # None
                    => leases'[j] = granted'[j][leases'[j].owner] /\ Key(leases'[j].owner) = j
               /\ \A e \in Deliveries :
                    /\ granted'[j][e] # None => granted'[j][e].owner = e
                    /\ Leases!Unexpired(granted[j][e])' => leases'[j] = granted'[j][e]
    BY <1>2, <2>1 DEF ClaimInv, CopiesAgree, Leases!Unexpired
  <2>2. ASSUME NEW e \in Deliveries
        PROVE  /\ granted'[k][e] # None => granted'[k][e].owner = e
               /\ ~ Leases!Unexpired(granted[k][e])'
    <3>1. CASE e = d
      BY <1>2, <3>1 DEF Leases!Unexpired
    <3>2. CASE e # d
      <4>1. /\ granted[k][e] # None => granted[k][e].owner = e
            /\ Leases!Unexpired(granted[k][e]) => leases[k] = granted[k][e]
        BY <1>1 DEF ClaimInv, CopiesAgree
      <4>2. ~ Leases!Unexpired(granted[k][e])
        BY <1>3, <3>2, <4>1 DEF Leases!Unexpired
      <4> QED
        BY <1>2, <3>2, <4>1, <4>2 DEF Leases!Unexpired
    <3> QED
      BY <3>1, <3>2
  <2> QED
    BY <1>2, <2>1, <2>2 DEF CopiesAgree, Key
<1>5. ASSUME NEW e \in Deliveries PROVE NewestIsLeased(e)'
  <2>1. CASE e = d
    BY <1>1, <2>1 DEF NewestIsLeased, CanSupersede
  <2>2. CASE e # d /\ Key(e) # k
    BY <1>1, <1>2, <2>2, CallerKeys
    DEF ClaimInv, NewestIsLeased, CanSupersede, Version, Parked, Dedup!HasStatus, Key
  <2>3. CASE e # d /\ Key(e) = k
    <3>1. CanSupersede(e)' => CanSupersede(e)
      BY <1>1, <1>2, <2>3, CallerKeys DEF CanSupersede, Version, Parked, Dedup!HasStatus, Key
    <3>2. CanSupersede(e) => leases[k] # None /\ Version(e) <= Version(d)
      BY <1>3, <2>3 DEF ClaimInv, NewestIsLeased, Version, k
    <3>3. Parked(k) \/ (records[k] # None /\ records[k].lease_version >= Version(d))
      BY DEF ClaimInv, ClaimIsRecorded, PastClaim, k
    <3>4. /\ CanSupersede(e) => Version(e) \in Nat
          /\ Version(d) \in Nat
          /\ records[k] # None => records[k].lease_version \in Nat
      BY <1>1, VersionType, StoreTypes
      DEF CanSupersede, HoldsLease, TypeInv, Dedup!DedupRecord
    <3>5. ~ CanSupersede(e)
      <4> SUFFICES ASSUME CanSupersede(e) PROVE FALSE
        OBVIOUS
      <4>1. ~ Parked(k) /\ (records[k] = None \/ records[k].lease_version < Version(e))
        BY <2>3 DEF CanSupersede
      <4> QED
        BY <3>2, <3>3, <3>4, <4>1
    <3> QED
      BY <3>1, <3>5 DEF NewestIsLeased
  <2> QED
    BY <2>1, <2>2, <2>3
<1>6. ASSUME NEW e \in Deliveries PROVE ClaimIsRecorded(e)' /\ LiveClaim(e)'
  <2>1. CASE e = d
    BY <1>1, <2>1 DEF ClaimIsRecorded, LiveClaim, PastClaim, Working
  <2>2. CASE e # d
    <3>1. granted'[Key(e)][e] = granted[Key(e)][e]
      BY <1>2, <2>2, CallerKeys
    <3> QED
      BY <1>1, <1>2, <2>2, <3>1, CallerKeys
      DEF ClaimInv, ClaimIsRecorded, LiveClaim, Version, Parked, Dedup!HasStatus,
          Leases!Unexpired, Key
  <2> QED
    BY <2>1, <2>2
<1>7. \A r \in Resolvers : pc'[r] = "resolving" => Parked(Key(r))'
  BY <1>1, CallerKeys DEF ClaimInv, Parked, Dedup!HasStatus, Key
<1> QED
  BY <1>4, <1>5, <1>6, <1>7 DEF ClaimInv, Key

\* Time only expires leases.
LEMMA TickClaims ==
  ASSUME TypeInv, ClaimInv, Tick PROVE ClaimInv'
<1>1. /\ UNCHANGED <<leases, granted, records, pc>>
      /\ now' = now + 1
  BY DEF Tick, Leases!Tick
<1>2. \A k \in Keys, d \in Deliveries :
        Leases!Unexpired(granted[k][d])' => Leases!Unexpired(granted[k][d])
  BY <1>1, StoreTypes DEF TypeInv, Leases!Unexpired, Leases!Lease
<1>3. CopiesAgree'
  BY <1>1, <1>2 DEF ClaimInv, CopiesAgree, Key
<1>4. ASSUME NEW d \in Deliveries
      PROVE  NewestIsLeased(d)' /\ ClaimIsRecorded(d)' /\ LiveClaim(d)'
  <2>1. Leases!Unexpired(granted[Key(d)][d])' => Leases!Unexpired(granted[Key(d)][d])
    BY <1>2, CallerKeys DEF Key
  <2> QED
    BY <1>1, <2>1
    DEF ClaimInv, NewestIsLeased, CanSupersede, ClaimIsRecorded, LiveClaim, Version, Parked,
        Dedup!HasStatus, Key
<1> QED
  BY <1>1, <1>3, <1>4 DEF ClaimInv, Parked, Dedup!HasStatus, Key

\* Each step leaves the claims with the deliveries whose lease lasts, ...
LEMMA ClaimStep == TypeInv /\ ClaimInv /\ [Next]_vars => ClaimInv'
<1> SUFFICES ASSUME TypeInv, ClaimInv, [Next]_vars PROVE ClaimInv'
  OBVIOUS
<1>1. ASSUME NEW d \in Deliveries, AcquireLease(d) PROVE ClaimInv'
  <2>1. CASE Goto(d, "done") /\ UNCHANGED leaseVars
    <3>1. "done" \in PcStates /\ "done" \notin PastClaim /\ "done" \notin Working
      BY DEF PcStates, PastClaim, Working
    <3> QED
      BY <2>1, <3>1, UnclaimingStep
  <2>2. CASE Leases!Acquire(Key(d), d) /\ Goto(d, "claim")
    BY <1>1, <2>2, AcquireClaims DEF AcquireLease
  <2> QED
    BY <1>1, <2>1, <2>2 DEF AcquireLease, Answer
<1>2. ASSUME NEW d \in Deliveries, ReleaseLease(d) PROVE ClaimInv'
  <2>1. CASE UNCHANGED leaseVars
    <3>1. "done" \in PcStates /\ "done" \notin PastClaim /\ "done" \notin Working
      BY DEF PcStates, PastClaim, Working
    <3> QED
      BY <1>2, <2>1, <3>1, UnclaimingStep DEF ReleaseLease
  <2>2. CASE Leases!Release(Key(d), d)
    BY <1>2, <2>2, ReleaseClaims DEF ReleaseLease
  <2> QED
    BY <1>2, <2>1, <2>2 DEF ReleaseLease
<1>3. ASSUME NEW d \in Deliveries, Lookup(d) \/ Run(d) \/ Crash(d) PROVE ClaimInv'
  BY <1>1, <1>2, <1>3, ClaimClaims, RetryClaims, UnclaimingSteps DEF Run
<1>4. ASSUME UNCHANGED vars PROVE ClaimInv'
  BY <1>4
  DEF vars, ClaimInv, CopiesAgree, NewestIsLeased, CanSupersede, ClaimIsRecorded, LiveClaim,
      Version, Parked, Dedup!HasStatus, Leases!Unexpired, Key
<1> QED
  BY <1>3, <1>4, ResolversClaimNothing, TickClaims DEF Next

\* ... so they always are.
LEMMA ClaimInvariant == Spec => []ClaimInv
<1> QED
  BY ClaimInit, ClaimStep, TypeInvariant, PTL DEF Spec

\* While its lease is unexpired, a delivery that passed its claim owns the record
\* it works for: runner.py commits under the claim of mark_in_progress alone.
THEOREM LiveWorkersOwnTheirRecords == Spec => []LiveWorkerOwnsRecord
<1>1. ClaimInv => LiveWorkerOwnsRecord
  BY DEF ClaimInv, LiveClaim, LiveWorkerOwnsRecord
<1> QED
  BY <1>1, ClaimInvariant, PTL
=============================================================================
