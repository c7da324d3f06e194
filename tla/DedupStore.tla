----------------------------- MODULE DedupStore -----------------------------
(***************************************************************************)
(* background/deduplication.py, InMemoryDeduplicationStore: one record per  *)
(* deduplication key.  Every method body runs under one lock.  A method     *)
(* that raises DeduplicationConflictError changes nothing, so each action   *)
(* below is enabled exactly when the method returns; the runner models the  *)
(* refusal from the negated guard.                                          *)
(***************************************************************************)
EXTENDS Naturals

CONSTANTS Events,      \* deduplication keys
          Claimants,   \* lease owners
          EventExecutions, Outcomes,
          NoRecord,    \* no entry for the key
          NoOutcome    \* the outcome field is None

VARIABLE records

OpenStatus     == {"in_progress", "pending_approval"}
TerminalStatus == {"completed", "failed", "dead_lettered"}

DedupRecord ==
  [status        : OpenStatus \union TerminalStatus,
   execution_id  : EventExecutions,
   attempt       : Nat,
   outcome       : Outcomes \union {NoOutcome},
   lease_owner   : Claimants,
   lease_version : Nat]

ASSUME NoRecordAssumption == NoRecord \notin DedupRecord

DedupTypeOK == records \in [Events -> DedupRecord \union {NoRecord}]

DedupInit == records = [k \in Events |-> NoRecord]

-----------------------------------------------------------------------------

HasStatus(k, statuses) == records[k] # NoRecord /\ records[k].status \in statuses

IsTerminal(k) == HasStatus(k, TerminalStatus)

\* _require_claim: execution, owner and lease version must all match.
ClaimMatches(k, x, o, v) ==
  /\ records[k] # NoRecord
  /\ records[k].execution_id = x
  /\ records[k].lease_owner = o
  /\ records[k].lease_version = v

\* Mutations of mark_in_progress: it forgets one refusal.
ClaimOverNewer(k, o, v) == HasStatus(k, {"pending_approval"} \union TerminalStatus)

ClaimOverDeadLetter(k, o, v) ==
  \/ HasStatus(k, {"pending_approval", "completed", "failed"})
  \/ HasStatus(k, {"in_progress"}) /\ records[k].lease_version > v

ClaimOverCompleted(k, o, v) ==
  \/ HasStatus(k, {"pending_approval", "failed", "dead_lettered"})
  \/ HasStatus(k, {"in_progress"}) /\ records[k].lease_version > v

ClaimOverParked(k, o, v) ==
  \/ HasStatus(k, TerminalStatus)
  \/ HasStatus(k, {"in_progress"}) /\ records[k].lease_version > v

\* The three refusals of mark_in_progress: the event is parked or settled, the
\* record has a newer lease version, or another owner has the same version.
ClaimRefused(k, o, v) ==
  \/ HasStatus(k, {"pending_approval"} \union TerminalStatus)
  \/ HasStatus(k, {"in_progress"}) /\ records[k].lease_version > v
  \/ /\ HasStatus(k, {"in_progress"})
     /\ records[k].lease_version = v
     /\ records[k].lease_owner # o

MarkInProgress(k, x, attempt, o, v) ==
  /\ ~ ClaimRefused(k, o, v)
  /\ records' = [records EXCEPT ![k] =
       [status |-> "in_progress", execution_id |-> x, attempt |-> attempt,
        outcome |-> NoOutcome, lease_owner |-> o, lease_version |-> v]]

\* put replaces the whole record, unless that would change a terminal status.
PutRefused(k, record) == IsTerminal(k) /\ records[k].status # record.status

Put(k, record) ==
  /\ ~ PutRefused(k, record)
  /\ records' = [records EXCEPT ![k] = record]

CanPark(k, x, o, v) ==
  ClaimMatches(k, x, o, v) /\ HasStatus(k, OpenStatus)

MarkPendingApproval(k, x, o, v, outcome) ==
  /\ CanPark(k, x, o, v)
  /\ records' = [records EXCEPT ![k].status = "pending_approval",
                                ![k].outcome = outcome]

\* Mutations of mark_terminal: it settles twice, or forgets whose claim it is.
SettleAgain(k, x, o, v) == ClaimMatches(k, x, o, v)
SettleAnyClaim(k, x, o, v) == HasStatus(k, OpenStatus)

CanSettle(k, x, o, v) ==
  ClaimMatches(k, x, o, v) /\ ~ IsTerminal(k)

MarkTerminal(k, x, o, v, status, outcome) ==
  /\ status \in TerminalStatus
  /\ CanSettle(k, x, o, v)
  /\ records' = [records EXCEPT ![k].status = status, ![k].outcome = outcome]

-----------------------------------------------------------------------------

\* Claims, parks, settlements and puts as callers like, under the lease versions and
\* attempt numbers they have.
DedupStep(k, x, o, v, attempt) ==
  \/ MarkInProgress(k, x, attempt, o, v)
  \/ \E outcome \in Outcomes : MarkPendingApproval(k, x, o, v, outcome)
  \/ \E outcome \in Outcomes \union {NoOutcome} :
       \/ \E status \in TerminalStatus : MarkTerminal(k, x, o, v, status, outcome)
       \/ \E status \in OpenStatus \union TerminalStatus :
            Put(k, [status |-> status, execution_id |-> x, attempt |-> attempt,
                    outcome |-> outcome, lease_owner |-> o, lease_version |-> v])

DedupNext(Versions, Attempts) ==
  \E k \in Events, x \in EventExecutions, o \in Claimants, v \in Versions, attempt \in Attempts :
    DedupStep(k, x, o, v, attempt)

DedupSpec(Versions, Attempts) == DedupInit /\ [][DedupNext(Versions, Attempts)]_records

\* Whatever the callers do, put included, a settled event keeps its status: a
\* completed event is never reopened for a second handling.
SettledKeepsStatus ==
  [][\A k \in Events :
       IsTerminal(k) =>
         records'[k] # NoRecord /\ records'[k].status = records[k].status]_records
=============================================================================
