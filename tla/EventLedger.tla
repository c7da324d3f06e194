---------------------------- MODULE EventLedger ----------------------------
(***************************************************************************)
(* What the background component promises about an event, without leases,   *)
(* claims, attempts or workers: an event is open until it is settled once,  *)
(* possibly after waiting for an approval of one execution; one call may be *)
(* told that it completed the event, every other call only learns what is   *)
(* already in the ledger.                                                   *)
(***************************************************************************)
CONSTANTS Keys, Callers, KeyOf, Executions, Outcomes, SuccessOutcomes, None

VARIABLES ledger,   \* the fate of each event
          told      \* the final answer each call was given

ledgerVars == <<ledger, told>>

Open == [status |-> "open", execution_id |-> None, outcome |-> None]

Entry(status, x, o) == [status |-> status, execution_id |-> x, outcome |-> o]

LedgerInit ==
  /\ ledger = [k \in Keys |-> Open]
  /\ told = [c \in Callers |-> None]

\* Only the execution that asked for an approval can go on from there.
Unsettled(k, x) ==
  \/ ledger[k].status = "open"
  \/ ledger[k].status = "parked" /\ ledger[k].execution_id = x

ParkEvent(k, x, o) ==
  /\ Unsettled(k, x)
  /\ ledger' = [ledger EXCEPT ![k] = Entry("parked", x, o)]
  /\ UNCHANGED told

\* The call that completes an event is told so in the same step.
CompleteEvent(c, x, o) ==
  /\ Unsettled(KeyOf[c], x)
  /\ ledger' = [ledger EXCEPT ![KeyOf[c]] = Entry("completed", x, o)]
  /\ told' = [told EXCEPT ![c] = Entry("completed", x, o)]

FailEvent(k, x, o) ==
  /\ Unsettled(k, x)
  /\ ledger' = [ledger EXCEPT ![k] = Entry("dead_lettered", x, o)]
  /\ UNCHANGED told

FailureAnswers == {"dead_lettered", "failed", "cancelled"}

\* Any other final answer repeats the ledger.
Tell(c) ==
  LET entry == ledger[KeyOf[c]] IN
  /\ told[c] = None
  /\ \E status \in FailureAnswers \union {"duplicate"} :
       /\ entry.status = IF status = "duplicate" THEN "completed" ELSE "dead_lettered"
       /\ told' = [told EXCEPT ![c] = Entry(status, entry.execution_id, entry.outcome)]
  /\ UNCHANGED ledger

LedgerNext ==
  \/ \E c \in Callers :
       \/ Tell(c)
       \/ \E x \in Executions, o \in SuccessOutcomes \intersect Outcomes :
            CompleteEvent(c, x, o)
  \/ \E k \in Keys, x \in Executions :
       \/ \E o \in Outcomes : ParkEvent(k, x, o)
       \/ \E o \in Outcomes \union {None} : FailEvent(k, x, o)

LedgerSpec == LedgerInit /\ [][LedgerNext]_ledgerVars
=============================================================================
