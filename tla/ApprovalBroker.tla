--------------------------- MODULE ApprovalBroker ---------------------------
(***************************************************************************)
(* governance/approvals.py, InMemoryApprovalBroker: the requests of paused  *)
(* executions and the decisions of reviewers.  Every method body runs under *)
(* one lock.  A request nobody has decided is decided "expired" by the first *)
(* call that looks at it at or after its expiry.                            *)
(***************************************************************************)
EXTENDS Naturals

CONSTANTS RequestIds,
          Actions,     \* exact actions, by their digest
          None         \* Python's None

VARIABLES requests, decisions, consumed, clock

brokerVars == <<requests, decisions, consumed, clock>>

Expiry == Nat \union {None}

Request == [action : Actions, expires_at : Expiry]

DecisionStatus == {"approved", "rejected", "request_changes", "expired"}

Decision == [status : DecisionStatus, expires_at : Expiry, decided_at : Nat]

ASSUME BrokerAssumption ==
  /\ None \notin Nat
  /\ None \notin Request
  /\ None \notin Decision

BrokerTypeOK ==
  /\ requests \in [RequestIds -> Request \union {None}]
  /\ decisions \in [RequestIds -> Decision \union {None}]
  /\ consumed \subseteq RequestIds
  /\ clock \in Nat

BrokerInit ==
  /\ requests = [r \in RequestIds |-> None]
  /\ decisions = [r \in RequestIds |-> None]
  /\ consumed = {}
  /\ clock = 0

-----------------------------------------------------------------------------

Expired(e) == e # None /\ clock >= e

ExpiredDecision(r) ==
  [status |-> "expired", expires_at |-> requests[r].expires_at, decided_at |-> clock]

\* Mutation: an unanswered request never expires.
NeverExpires(r) == decisions[r]

\* _decision_locked: the decision of r after this look at it.
Current(r) ==
  IF decisions[r] = None /\ requests[r] # None /\ Expired(requests[r].expires_at)
  THEN ExpiredDecision(r)
  ELSE decisions[r]

Record(r, d) == decisions' = [decisions EXCEPT ![r] = d]

\* get_decision, and the same look of pending_requests at one request.
GetDecision(r) ==
  /\ Record(r, Current(r))
  /\ UNCHANGED <<requests, consumed, clock>>

\* submit stores the request and looks at it in the same step; submitting an id
\* again for the same request is idempotent, for another one it raises.
Submit(r, request) ==
  /\ requests[r] \in {None, request}
  /\ requests' = [requests EXCEPT ![r] = request]
  /\ Record(r, IF decisions[r] = None /\ Expired(request.expires_at)
               THEN [status |-> "expired", expires_at |-> request.expires_at,
                     decided_at |-> clock]
               ELSE decisions[r])
  /\ UNCHANGED <<consumed, clock>>

\* The expiry of a new decision: an approval without one takes the request's.
ResolvedExpiry(r, status, expires_at) ==
  IF status = "approved" /\ expires_at = None
  THEN requests[r].expires_at
  ELSE expires_at

\* decide: the first decision stands, an expired request or an approval that
\* would be expired at once is decided "expired".
Decide(r, status, expires_at) ==
  LET expiry == ResolvedExpiry(r, status, expires_at) IN
  /\ requests[r] # None
  /\ \/ /\ Current(r) # None
        /\ Record(r, Current(r))
     \/ /\ Current(r) = None
        /\ status = "approved" /\ Expired(expiry)
        /\ Record(r, ExpiredDecision(r))
     \/ /\ Current(r) = None
        /\ ~ (status = "approved" /\ Expired(expiry))
        /\ status = "approved" /\ requests[r].expires_at # None
             => expiry # None /\ expiry <= requests[r].expires_at
        /\ Record(r, [status |-> status, expires_at |-> expiry, decided_at |-> clock])
  /\ UNCHANGED <<requests, consumed, clock>>

\* Mutation: evidence recorded later replaces the decision.
RecordAgain(r, d) ==
  /\ requests[r] # None
  /\ d.status = "approved" /\ requests[r].expires_at # None /\ d.expires_at # None
       => d.expires_at <= requests[r].expires_at
  /\ Record(r, IF requests[r].expires_at # None /\ Expired(requests[r].expires_at)
               THEN Current(r) ELSE d)
  /\ UNCHANGED <<requests, consumed, clock>>

\* record_decision: evidence made elsewhere, with its own decision time.
RecordDecision(r, d) ==
  /\ requests[r] # None
  /\ d.status = "approved" /\ requests[r].expires_at # None /\ d.expires_at # None
       => d.expires_at <= requests[r].expires_at
  /\ Record(r, IF Current(r) = None THEN d ELSE Current(r))
  /\ UNCHANGED <<requests, consumed, clock>>

\* Mutation: an undecided request can be consumed.
RefusedOnlyTwice(r) == requests[r] # None /\ r \in consumed

\* consume: nothing for an unknown request; raises for an undecided request and
\* for one that was consumed before.
ConsumeRefused(r) ==
  requests[r] # None /\ (Current(r) = None \/ r \in consumed)

Consume(r) ==
  /\ ~ ConsumeRefused(r)
  /\ IF requests[r] = None
     THEN UNCHANGED <<decisions, consumed>>
     ELSE consumed' = consumed \union {r} /\ Record(r, Current(r))
  /\ UNCHANGED <<requests, clock>>

\* The look at the request that a refused consume still takes.
ConsumeRaises(r) ==
  /\ ConsumeRefused(r)
  /\ Record(r, Current(r))
  /\ UNCHANGED <<requests, consumed, clock>>

TimePasses ==
  /\ clock' = clock + 1
  /\ UNCHANGED <<requests, decisions, consumed>>
-----------------------------------------------------------------------------
(* The broker on its own, under any calls with expiries in Times: evidence from
   elsewhere was decided by the time it is recorded. *)

BrokerStep(r, Times) ==
  \/ GetDecision(r) \/ Consume(r) \/ ConsumeRaises(r)
  \/ \E a \in Actions, e \in Times \union {None} :
       Submit(r, [action |-> a, expires_at |-> e])
  \/ \E status \in DecisionStatus, e \in Times \union {None} :
       \/ Decide(r, status, e)
       \/ \E t \in 0 .. clock :
            RecordDecision(r, [status |-> status, expires_at |-> e, decided_at |-> t])

BrokerNext(Times) ==
  \/ \E r \in RequestIds : BrokerStep(r, Times)
  \/ clock + 1 \in Times /\ TimePasses

BrokerSpec(Times) == BrokerInit /\ [][BrokerNext(Times)]_brokerVars

\* A decision is immutable, whatever expires, is decided again or is recorded
\* later (ADR 0006: "Reviewer decisions are immutable within the in-memory broker").
DecisionsAreFinal ==
  [][\A r \in RequestIds : decisions[r] # None => decisions'[r] = decisions[r]]_brokerVars

\* Every approval was given before its request expired and ends no later than the
\* request does: a late reviewer only gets "expired".
ApprovalsAreTimely ==
  \A r \in RequestIds :
    decisions[r] # None /\ decisions[r].status = "approved" =>
      /\ requests[r] # None
      /\ requests[r].expires_at # None =>
           /\ decisions[r].decided_at < requests[r].expires_at
           /\ decisions[r].expires_at # None
                => decisions[r].expires_at <= requests[r].expires_at

\* Only a decided request is ever consumed.
ConsumedWereDecided == \A r \in consumed : decisions[r] # None
=============================================================================
