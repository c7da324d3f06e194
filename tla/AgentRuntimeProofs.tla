------------------------- MODULE AgentRuntimeProofs -------------------------
(***************************************************************************)
(* The approval cycle of AgentRuntime, for any calls, executions, plans and *)
(* evidence.  The first part assumes nothing of how calls overlap, are      *)
(* interrupted or are lost in a crash; the second is about calls made one   *)
(* at a time.                                                               *)
(***************************************************************************)
EXTENDS AgentRuntime, TLAPS

-----------------------------------------------------------------------------
(* Where a call may be, and what it has there. *)

\* A call runs the steps of its plan, stores their outcome, and, when it is a
\* resume, marks its request as consumed or closes it.
Running == {"open", "admit", "plan", "step", "compose"}
Storing == {"finish", "remember", "checkpoint", "persist", "leave"}
Consuming == {"consume", "consume_broker", "merge", "recheck", "repersist"}
Closing == {"close", "close_finish", "close_pop"}
Ended == {"done", "crashed"}

\* What a resume passes through after its decision was a valid approval.
Approving == Running \union Storing \union Consuming

ExecutePlaces == {"idle", "lookup"} \union Running \union Storing \union Ended
ResumePlaces ==
  {"idle", "restore", "adopt", "decide", "take"} \union Approving \union Closing \union Ended

CallTypes ==
  /\ pc \in [Calls -> PcStates]
  /\ at \in [Calls -> Nat \ {0}]
  /\ approved \in [Calls -> SUBSET Actions]
  /\ outcome \in [Calls -> Outcomes \union {None}]
  /\ pausing \in [Calls -> BOOLEAN]
  /\ copy \in [Calls -> Store!State \union {None}]
  /\ held \in [Calls -> Pending \union {None}]
  /\ merged \in [Calls -> Pending \union {None}]
  /\ called \in [Calls -> [time : Nat, evidence : Evidence] \union {None}]

TableTypes ==
  /\ pending \in [Executions -> Pending \union {None}]
  /\ used \subseteq Requests
  /\ traces \subseteq Executions
  /\ active \in [Executions -> Calls \union {None}]

HistoryTypes ==
  /\ handled \in [Executions -> Seq(Calls \X (Nat \ {0}))]
  /\ result \in [Calls -> Outcomes \union {None, Raised}]

Types == Store!StateTypeOK /\ Broker!BrokerTypeOK /\ TableTypes /\ CallTypes /\ HistoryTypes

Place(c) ==
  /\ c \in ExecuteCalls => pc[c] \in ExecutePlaces /\ approved[c] = {}
  /\ c \in ResumeCalls => pc[c] \in ResumePlaces
  /\ pc[c] \in (Running \ {"open"}) \union Storing \union {"repersist", "close_finish"}
       => copy[c] # None
  /\ pc[c] \in Storing \union Consuming \union Closing => outcome[c] # None
  /\ pc[c] \in {"persist", "repersist"} => copy[c].execution_id = Execution(c)
  /\ pc[c] \in {"recheck", "repersist"} => merged[c] # None
  /\ pc[c] \in {"remember", "checkpoint", "persist"} => pausing[c]
  /\ pausing[c] => pc[c] \in Storing \union Consuming \union Ended
  /\ pausing[c] => at[c] <= Len(Plan[Execution(c)])

\* A resume knows when it was called and, once it has found it, its request; it
\* works under approved actions from its decision on.
ResumePlace(c) ==
  /\ pc[c] # "idle" => called[c] # None /\ called[c].time <= now
  /\ pc[c] \notin {"idle", "restore"} \union Ended => held[c] # None
  /\ pc[c] \in Approving => approved[c] # {}
  /\ approved[c] # {} => pc[c] \in Approving \union Ended

\* Whoever is registered has read the state.
Registered == \A x \in Executions : active[x] # None => copy[active[x]] # None

\* An execution saves under its own key only, and a checkpoint is some execution's.
RowPlace(k) ==
  states[k] # None =>
    /\ states[k].execution_id # None => StateOf[states[k].execution_id] = k
    /\ states[k].data # None => states[k].execution_id # None

Places ==
  /\ \A c \in Calls : Place(c)
  /\ \A c \in ResumeCalls : ResumePlace(c)
  /\ Registered
  /\ \A k \in StateKeys : RowPlace(k)

-----------------------------------------------------------------------------
(* What the gate has seen. *)

\* The action a has been approved for x: a request for it was granted in time.
Granted(x, a) ==
  \E r \in Requests : RequestOf(r, x, a) /\ (ApprovedInTime(r) \/ ApprovedByCaller(r))

\* A call that paused has asked for the step it stopped at.
Asked(c) == pausing[c] => RequestOf(<<c, at[c]>>, Execution(c), Action(c))

\* A pending approval of x is about a request for the step it stopped at, and takes
\* along no action that nobody has approved.
Genuine(x, p) ==
  /\ p.at <= Len(Plan[x])
  /\ RequestOf(p.request, x, Plan[x][p.at])
  /\ \A a \in p.approved : Granted(x, a)

\* A resume that has passed its decision has a valid one for the request it holds.
Cleared(c) ==
  LET r == HeldRequest(c) IN
  /\ held[c] # None
  /\ called[c] # None
  /\ requests[r] # None
  /\ ApprovedInTime(r) \/ called[c].evidence = "approved"
  /\ requests[r].expires_at # None => called[c].time < requests[r].expires_at

\* Only requests are decided, and approved in time only.
BrokerIsTimely ==
  \A r \in Requests :
    decisions[r] # None =>
      /\ requests[r] # None
      /\ decisions[r].status = "approved" => ApprovedInTime(r)

PendingIsGenuine ==
  /\ \A x \in Executions : pending[x] # None => Genuine(x, pending[x])
  /\ \A k \in StateKeys :
       states[k] # None /\ states[k].data # None => Genuine(states[k].execution_id, states[k].data)
  /\ \A c \in Calls :
       /\ held[c] # None => Genuine(Execution(c), held[c])
       /\ merged[c] # None => Genuine(Execution(c), merged[c])

CallsAreCleared ==
  /\ \A c \in Calls : Asked(c)
  /\ \A c \in ResumeCalls : pc[c] = "take" \/ approved[c] # {} => Cleared(c)
  /\ \A c \in Calls : \A a \in approved[c] : Granted(Execution(c), a)

HandledWereGranted ==
  \A x \in Executions : \A i \in 1 .. Len(handled[x]) :
    LET c == handled[x][i][1]
        a == Plan[x][handled[x][i][2]]
    IN  /\ c \in ResumeCalls => approved[c] # {}
        /\ a \in Gated => Granted(x, a)

GeneralInv ==
  Types /\ Places /\ BrokerIsTimely /\ PendingIsGenuine /\ CallsAreCleared /\ HandledWereGranted

-----------------------------------------------------------------------------
(* The store and the broker. *)

\* The state a call opens is one of the store's.
LEMMA OpenedIsState ==
  ASSUME NEW c \in Calls, Types
  PROVE  Store!Opened(StateKey(c), Principal, "1") \in Store!State
<1>1. StateKey(c) \in StateKeys
  BY RuntimeAssumption DEF StateKey
<1>2. Store!FreshState(Principal, "1") \in Store!State
  BY DEF Store!FreshState, Store!State, Store!StateStatus
<1> QED BY <1>1, <1>2 DEF Types, Store!StateTypeOK, Store!Opened

\* The row a call finds is its execution's.
LEMMA RowIsOwn ==
  ASSUME NEW c \in Calls, Types, Places, HasRow(c)
  PROVE  Row(c) \in Store!State /\ Row(c).execution_id = Execution(c)
<1>1. PICK k \in StateKeys : states[k] # None /\ states[k].execution_id = Execution(c)
  BY DEF HasRow, Store!Newest, Store!Found
<1>2. Execution(c) # None
  BY RuntimeAssumption, NoneAssumption DEF Execution
<1>3. k = StateKey(c)
  BY <1>1, <1>2 DEF Places, RowPlace, StateKey, Execution
<1> QED BY <1>1, <1>3 DEF Row, Types, Store!StateTypeOK

\* Opening a row leaves every row well-formed and where it belongs.
LEMMA OpenKeepsRows ==
  ASSUME NEW c \in Calls, Types, Places, Store!GetOrCreate(StateKey(c), Principal, "1")
  PROVE  Store!StateTypeOK' /\ \A k \in StateKeys : RowPlace(k)'
<1>1. StateKey(c) \in StateKeys
  BY RuntimeAssumption DEF StateKey
<1>2. Store!StateTypeOK'
  BY <1>1, OpenedIsState DEF Types, Store!StateTypeOK, Store!GetOrCreate
<1>3. ASSUME NEW k \in StateKeys PROVE RowPlace(k)'
  BY <1>1, NoneAssumption
  DEF Store!GetOrCreate, Store!Opened, Store!FreshState, Types, Store!StateTypeOK, Places,
      RowPlace
<1> QED BY <1>2, <1>3

\* So does saving a state under the key of its execution.
LEMMA SaveKeepsRows ==
  ASSUME NEW c \in Calls, NEW s \in Store!State, NEW v, Types, Places,
         s.execution_id = Execution(c), Store!Save(StateKey(c), s, v)
  PROVE  Store!StateTypeOK' /\ \A k \in StateKeys : RowPlace(k)'
<1>1. StateKey(c) \in StateKeys /\ StateKey(c) = StateOf[Execution(c)]
  BY RuntimeAssumption DEF StateKey, Execution
<1>2. Execution(c) # None
  BY RuntimeAssumption, NoneAssumption DEF Execution
<1>3. states' = [states EXCEPT ![StateKey(c)] = s]
  BY DEF Store!Save
<1>4. Store!StateTypeOK'
  BY <1>1, <1>3 DEF Types, Store!StateTypeOK
<1>5. ASSUME NEW k \in StateKeys PROVE RowPlace(k)'
  BY <1>1, <1>2, <1>3 DEF Types, Store!StateTypeOK, Places, RowPlace
<1> QED BY <1>4, <1>5

\* The row a run ends with is a state of its execution, without a checkpoint.
LEMMA FinishedIsState ==
  ASSUME NEW c \in Calls, Types, copy[c] # None, outcome[c] # None
  PROVE  /\ FinishedState(c) \in Store!State
         /\ FinishedState(c).execution_id = Execution(c)
         /\ FinishedState(c).data = None
<1>1. copy[c] \in Store!State /\ Execution(c) \in Executions
  BY RuntimeAssumption DEF Types, CallTypes, Execution
<1>2. StateStatusOf(outcome[c]) \in Store!StateStatus
  BY DEF StateStatusOf, Store!StateStatus
<1>3. copy[c].version + 1 \in Nat
  BY <1>1 DEF Store!State
<1> QED BY <1>1, <1>2, <1>3 DEF FinishedState, Store!State

\* A checkpoint is saved in a state of the execution that was found.
LEMMA CheckpointIsState ==
  ASSUME NEW c \in Calls, NEW p \in Pending, Types,
         copy[c] # None, copy[c].execution_id = Execution(c)
  PROVE  LET s == [copy[c] EXCEPT !.status = "paused", !.version = copy[c].version + 1, !.data = p]
         IN  s \in Store!State /\ s.execution_id = Execution(c) /\ s.data = p
<1>1. copy[c] \in Store!State
  BY DEF Types, CallTypes
<1>2. copy[c].version + 1 \in Nat
  BY <1>1 DEF Store!State
<1> QED BY <1>1, <1>2 DEF Store!State, Store!StateStatus

\* What stays as it is once it was said: requests and decisions.
BrokerRemembers ==
  /\ \A r \in Requests : requests[r] # None => requests'[r] = requests[r]
  /\ \A r \in Requests : decisions[r] # None => decisions'[r] = decisions[r]
  /\ now <= now'

BrokerKept == Broker!BrokerTypeOK' /\ BrokerIsTimely' /\ BrokerRemembers

\* A look at a request shows what was decided in time, or that it has expired.
LEMMA CurrentIsTimely ==
  ASSUME Types, BrokerIsTimely, NEW r \in Requests, NEW d,
         d = Broker!Current(r), d # None
  PROVE  /\ d \in Broker!Decision
         /\ requests[r] # None
         /\ decisions[r] # None => d = decisions[r]
         /\ d.status = "approved" => d = decisions[r] /\ ApprovedInTime(r)
<1>1. requests[r] # None => requests[r].expires_at \in Broker!Expiry
  BY DEF Types, Broker!BrokerTypeOK, Broker!Request
<1>2. now \in Nat /\ decisions[r] \in Broker!Decision \union {None}
  BY DEF Types, Broker!BrokerTypeOK
<1>3. CASE decisions[r] = None /\ requests[r] # None /\ Broker!Expired(requests[r].expires_at)
  BY <1>1, <1>2, <1>3
  DEF Broker!Current, Broker!ExpiredDecision, Broker!Decision, Broker!DecisionStatus
<1>4. CASE ~ (decisions[r] = None /\ requests[r] # None /\ Broker!Expired(requests[r].expires_at))
  BY <1>2, <1>4 DEF Broker!Current, BrokerIsTimely
<1> QED BY <1>3, <1>4

\* Recording the current decision of a request, or a first and timely one.
LEMMA RecordKeeps ==
  ASSUME Types, BrokerIsTimely, NEW r \in Requests, NEW d \in Broker!Decision \union {None},
         decisions' = [decisions EXCEPT ![r] = d],
         decisions[r] # None => d = decisions[r],
         UNCHANGED <<requests, now>>, consumed' \subseteq Requests,
         d # None => requests[r] # None,
         d # None /\ d.status = "approved" /\ requests[r].expires_at # None
           => d.decided_at < requests[r].expires_at
  PROVE  BrokerKept
<1>1. Broker!BrokerTypeOK'
  BY DEF Types, Broker!BrokerTypeOK
<1>2. BrokerRemembers
  BY DEF BrokerRemembers, Types, Broker!BrokerTypeOK
<1>3. ASSUME NEW q \in Requests, decisions'[q] # None
      PROVE  requests'[q] # None /\ (decisions'[q].status = "approved" => ApprovedInTime(q)')
  <2>1. CASE q = r
    BY <1>3, <2>1 DEF Types, Broker!BrokerTypeOK, ApprovedInTime
  <2>2. CASE q # r
    BY <1>3, <2>2 DEF Types, Broker!BrokerTypeOK, ApprovedInTime, BrokerIsTimely
  <2> QED BY <2>1, <2>2
<1>4. BrokerIsTimely'
  BY <1>3 DEF BrokerIsTimely
<1> QED BY <1>1, <1>2, <1>4 DEF BrokerKept

\* A look at a request.
LEMMA LookKeeps ==
  ASSUME Types, BrokerIsTimely, NEW r \in Requests, Broker!Record(r, Broker!Current(r)),
         UNCHANGED <<requests, now>>, consumed' \subseteq Requests
  PROVE  BrokerKept
<1> DEFINE d == Broker!Current(r)
<1>1. d # None => /\ d \in Broker!Decision
                  /\ requests[r] # None
                  /\ decisions[r] # None => d = decisions[r]
                  /\ d.status = "approved" => d = decisions[r] /\ ApprovedInTime(r)
  BY CurrentIsTimely
<1>2. decisions[r] # None => d = decisions[r]
  BY DEF Broker!Current
<1>3. decisions' = [decisions EXCEPT ![r] = d]
  BY DEF Broker!Record
<1>4. d # None /\ d.status = "approved" /\ requests[r].expires_at # None
        => d.decided_at < requests[r].expires_at
  BY <1>1 DEF ApprovedInTime
<1> HIDE DEF d
<1> QED BY <1>1, <1>2, <1>3, <1>4, RecordKeeps

\* A step that leaves requests and decisions alone keeps the broker.
LEMMA NothingKeeps ==
  ASSUME Types, BrokerIsTimely, UNCHANGED <<requests, decisions, now>>, consumed' \subseteq Requests
  PROVE  BrokerKept
<1>1. Broker!BrokerTypeOK'
  BY DEF Types, Broker!BrokerTypeOK
<1>2. BrokerIsTimely'
  BY DEF BrokerIsTimely, ApprovedInTime
<1>3. BrokerRemembers
  BY DEF BrokerRemembers, Types, Broker!BrokerTypeOK
<1> QED BY <1>1, <1>2, <1>3 DEF BrokerKept

\* So does a new request, ...
LEMMA SubmitKeeps ==
  ASSUME Types, BrokerIsTimely, NEW r \in Requests, NEW q \in Broker!Request, Broker!Submit(r, q)
  PROVE  BrokerKept /\ requests'[r] = q
<1>1. requests' = [requests EXCEPT ![r] = q] /\ requests[r] \in {None, q}
      /\ UNCHANGED <<consumed, now>>
  BY DEF Broker!Submit
<1>2. PICK d : /\ decisions' = [decisions EXCEPT ![r] = d]
               /\ d = decisions[r] \/ (decisions[r] = None /\ d =
                    [status |-> "expired", expires_at |-> q.expires_at, decided_at |-> now])
  BY DEF Broker!Submit, Broker!Record
<1>3. q.expires_at \in Broker!Expiry /\ q # None /\ now \in Nat
  BY NoneAssumption DEF Broker!Request, Broker!BrokerAssumption, Types, Broker!BrokerTypeOK
<1>4. d \in Broker!Decision \union {None}
  BY <1>2, <1>3 DEF Types, Broker!BrokerTypeOK, Broker!Decision, Broker!DecisionStatus
<1>5. Broker!BrokerTypeOK'
  BY <1>1, <1>2, <1>4 DEF Types, Broker!BrokerTypeOK
<1>6. BrokerRemembers /\ requests'[r] = q
  BY <1>1, <1>2 DEF BrokerRemembers, Types, Broker!BrokerTypeOK
<1>7. ASSUME NEW p \in Requests, decisions'[p] # None
      PROVE  requests'[p] # None /\ (decisions'[p].status = "approved" => ApprovedInTime(p)')
  <2>1. CASE p = r
    <3>1. CASE d = decisions[r]
      BY <1>1, <1>2, <1>3, <1>7, <2>1, <3>1
      DEF Types, Broker!BrokerTypeOK, ApprovedInTime, BrokerIsTimely
    <3>2. CASE d # decisions[r]
      BY <1>1, <1>2, <1>3, <1>7, <2>1, <3>2 DEF Types, Broker!BrokerTypeOK
    <3> QED BY <3>1, <3>2
  <2>2. CASE p # r
    BY <1>1, <1>2, <1>7, <2>2 DEF Types, Broker!BrokerTypeOK, ApprovedInTime, BrokerIsTimely
  <2> QED BY <2>1, <2>2
<1>8. BrokerIsTimely'
  BY <1>7 DEF BrokerIsTimely
<1> QED BY <1>5, <1>6, <1>8 DEF BrokerKept

\* ... a consumption, ...
LEMMA ConsumeKeepsBroker ==
  ASSUME Types, BrokerIsTimely, NEW r \in Requests,
         Broker!Consume(r) \/ Broker!ConsumeRaises(r)
  PROVE  BrokerKept
<1>1. consumed' \subseteq Requests /\ UNCHANGED <<requests, now>>
  BY DEF Broker!Consume, Broker!ConsumeRaises, Types, Broker!BrokerTypeOK
<1>2. Broker!Record(r, Broker!Current(r)) \/ UNCHANGED decisions
  BY DEF Broker!Consume, Broker!ConsumeRaises
<1> QED BY <1>1, <1>2, LookKeeps, NothingKeeps

\* ... and a review.
LEMMA DecideKeeps ==
  ASSUME Types, BrokerIsTimely, NEW r \in Requests, NEW status \in Reviews,
         Broker!Decide(r, status, None)
  PROVE  BrokerKept
<1>0. UNCHANGED <<requests, consumed, now>> /\ requests[r] # None
  BY DEF Broker!Decide
<1>1. consumed' \subseteq Requests
  BY <1>0 DEF Types, Broker!BrokerTypeOK
<1>2. CASE Broker!Current(r) # None
  <2>1. Broker!Record(r, Broker!Current(r))
    BY <1>2 DEF Broker!Decide
  <2> QED BY <1>0, <1>1, <2>1, LookKeeps
<1>3. CASE Broker!Current(r) = None
  <2>1. decisions[r] = None
    BY <1>3, NoneAssumption DEF Broker!Current, Broker!BrokerAssumption
  <2>2. requests[r].expires_at \in Broker!Expiry /\ now \in Nat
    BY <1>0 DEF Types, Broker!BrokerTypeOK, Broker!Request
  <2>3. CASE status = "approved" /\ Broker!Expired(requests[r].expires_at)
    <3> DEFINE d == Broker!ExpiredDecision(r)
    <3>1. decisions' = [decisions EXCEPT ![r] = d]
      BY <1>3, <2>3 DEF Broker!Decide, Broker!ResolvedExpiry, Broker!Record
    <3>2. d \in Broker!Decision /\ d.status = "expired"
      BY <2>2 DEF Broker!ExpiredDecision, Broker!Decision, Broker!DecisionStatus
    <3> HIDE DEF d
    <3> QED BY <1>0, <1>1, <2>1, <3>1, <3>2, RecordKeeps
  <2>4. CASE ~ (status = "approved" /\ Broker!Expired(requests[r].expires_at))
    <3> DEFINE e == Broker!ResolvedExpiry(r, status, None)
    <3> DEFINE d == [status |-> status, expires_at |-> e, decided_at |-> now]
    <3>1. decisions' = [decisions EXCEPT ![r] = d]
      BY <1>3, <2>4 DEF Broker!Decide, Broker!ResolvedExpiry, Broker!Record
    <3>2. e \in Broker!Expiry
      BY <2>2 DEF Broker!ResolvedExpiry, Broker!Expiry
    <3>3. d \in Broker!Decision /\ d.status = status /\ d.decided_at = now
      BY <2>2, <3>2, RuntimeAssumption DEF Broker!Decision, Broker!DecisionStatus
    <3>4. status = "approved" /\ requests[r].expires_at # None => now < requests[r].expires_at
      BY <2>2, <2>4 DEF Broker!Expired, Broker!Expiry
    <3> HIDE DEF d
    <3> QED BY <1>0, <1>1, <2>1, <3>1, <3>3, <3>4, RecordKeeps
  <2> QED BY <2>3, <2>4
<1> QED BY <1>2, <1>3

-----------------------------------------------------------------------------
(* A step of one call. *)

\* What a step of another call leaves alone.
Same(d) ==
  /\ pc'[d] = pc[d] /\ at'[d] = at[d] /\ approved'[d] = approved[d]
  /\ outcome'[d] = outcome[d] /\ pausing'[d] = pausing[d] /\ copy'[d] = copy[d]
  /\ held'[d] = held[d] /\ merged'[d] = merged[d] /\ called'[d] = called[d]

\* The places of the calls that a step is not of stay as they are.
LEMMA OthersStay ==
  ASSUME Types, Places, BrokerKept, NEW c \in Calls, \A d \in Calls \ {c} : Same(d),
         Place(c)', c \in ResumeCalls => ResumePlace(c)'
  PROVE  (\A d \in Calls : Place(d)') /\ (\A d \in ResumeCalls : ResumePlace(d)')
<1>1. ASSUME NEW d \in Calls \ {c} PROVE Place(d)'
  BY <1>1 DEF Same, Places, Place, Execution
<1>2. now <= now' /\ now \in Nat /\ now' \in Nat
  BY DEF BrokerKept, BrokerRemembers, Types, Broker!BrokerTypeOK
<1>3. ASSUME NEW d \in ResumeCalls \ {c} PROVE ResumePlace(d)'
  <2>1. Same(d) /\ ResumePlace(d) /\ called[d] \in [time : Nat, evidence : Evidence] \union {None}
    BY <1>3 DEF Places, Calls, Types, CallTypes
  <2> QED BY <1>2, <2>1 DEF Same, ResumePlace
<1> QED BY <1>1, <1>3

\* The places a resume has and no call of execute.
LEMMA ResumeOnly ==
  ASSUME NEW c \in Calls, Place(c),
         pc[c] \in {"restore", "adopt", "decide", "take"} \union Consuming \union Closing
  PROVE  c \in ResumeCalls
BY DEF Place, ExecutePlaces, Running, Storing, Consuming, Closing, Ended, Calls

\* The request a resume works on.
LEMMA HeldIsRequest ==
  ASSUME NEW c \in Calls, Types, Places,
         pc[c] \in {"adopt", "decide", "take"} \union Consuming \union Closing
  PROVE  held[c] \in Pending /\ HeldRequest(c) \in Requests
<1>1. c \in ResumeCalls
  BY ResumeOnly DEF Places
<1>2. held[c] # None
  BY <1>1 DEF Places, ResumePlace, Consuming, Closing, Ended
<1> QED BY <1>2 DEF Types, CallTypes, Pending, HeldRequest

\* The step a call is at is one of its plan, and can be asked for.
LEMMA StepIsRequested ==
  ASSUME NEW c \in Calls, Types, at[c] <= Len(Plan[Execution(c)])
  PROVE  <<c, at[c]>> \in Requests /\ Action(c) \in Actions
<1>1. Execution(c) \in Executions /\ at[c] \in Nat \ {0}
  BY RuntimeAssumption DEF Execution, Types, CallTypes
<1>2. Plan[Execution(c)] \in Seq(Actions)
  BY <1>1, RuntimeAssumption
<1>3. at[c] \in 1 .. Len(Plan[Execution(c)])
  BY <1>1, <1>2
<1> QED BY <1>1, <1>2, <1>3 DEF Requests, Action

\* The continuation of a paused run can be pending.
LEMMA ContinuationIsPending ==
  ASSUME NEW c \in Calls, Types, Place(c), pc[c] \in {"remember", "checkpoint", "persist"}
  PROVE  Continuation(c) \in Pending
<1>1. <<c, at[c]>> \in Requests
  BY StepIsRequested DEF Place
<1>2. outcome[c] \in Outcomes
  BY DEF Place, Storing, Types, CallTypes
<1> QED BY <1>1, <1>2 DEF Continuation, Pending, Types, CallTypes

\* The look at the traces keeps types and places.
LEMMA CheckTracesKeepsPlaces ==
  ASSUME NEW c \in Calls, Types, Places, BrokerIsTimely, CheckTraces(c)
  PROVE  Types' /\ Places' /\ BrokerKept /\ \A d \in Calls \ {c} : Same(d)
<1>1. Place(c) /\ (c \in ResumeCalls => ResumePlace(c)) /\ Execution(c) \in Executions
  BY RuntimeAssumption DEF Places, Execution
<1>2. pc' \in [Calls -> PcStates]
  BY <1>1
  DEF CheckTraces, Execution, MayStart, InFlight, Goto, Answer, brokerVars, tableVars,
      localVars, Types, CallTypes, PcStates
<1>3. CallTypes'
  BY <1>2
  DEF CheckTraces, Execution, MayStart, InFlight, Goto, Answer, brokerVars, tableVars,
      localVars, Types, CallTypes
<1>4. \A d \in Calls \ {c} : Same(d)
  BY DEF CheckTraces, Execution, MayStart, InFlight, Goto, Answer, brokerVars, tableVars,
     localVars, Types, CallTypes, Same
<1>5. Place(c)'
  BY <1>1, RuntimeAssumption, NoneAssumption
  DEF CheckTraces, Execution, MayStart, InFlight, Goto, Answer, brokerVars, tableVars,
      localVars, Types, CallTypes, Place, Storing, Running, Consuming, Closing, Ended,
      Approving, ResumePlace, ExecutePlaces, ResumePlaces, Calls
<1>6. c \in ResumeCalls => ResumePlace(c)'
  BY <1>1, RuntimeAssumption, NoneAssumption
  DEF CheckTraces, Execution, MayStart, InFlight, Goto, Answer, brokerVars, tableVars,
      localVars, Types, CallTypes, Place, Storing, Running, Consuming, Closing, Ended,
      Approving, ResumePlace, ExecutePlaces, Calls
<1>7. BrokerKept
  BY NothingKeeps
  DEF CheckTraces, Execution, MayStart, InFlight, Goto, Answer, brokerVars, tableVars,
      localVars, Types, Broker!BrokerTypeOK
<1>8. HistoryTypes'
  BY <1>1, RuntimeAssumption
  DEF CheckTraces, Execution, MayStart, InFlight, Goto, Answer, brokerVars, tableVars,
      localVars, Types, HistoryTypes, CallTypes, Place, ResumePlace, Storing, Running,
      Consuming, Closing, Pending
<1>9. TableTypes' /\ Registered' /\ Store!StateTypeOK' /\ \A k \in StateKeys : RowPlace(k)'
  BY DEF CheckTraces, Execution, MayStart, InFlight, Goto, Answer, brokerVars, tableVars,
     localVars, Types, TableTypes, HistoryTypes, Registered, Places, RowPlace, Store!StateTypeOK
<1> QED BY <1>2, <1>3, <1>4, <1>5, <1>6, <1>7, <1>8, <1>9, OthersStay
    DEF Types, Places, BrokerKept

\* The look into the store keeps types and places.
LEMMA CheckStoreKeepsPlaces ==
  ASSUME NEW c \in Calls, Types, Places, BrokerIsTimely, CheckStore(c)
  PROVE  Types' /\ Places' /\ BrokerKept /\ \A d \in Calls \ {c} : Same(d)
<1>1. Place(c) /\ (c \in ResumeCalls => ResumePlace(c)) /\ Execution(c) \in Executions
  BY RuntimeAssumption DEF Places, Execution
<1>2. c \notin ResumeCalls
  BY <1>1
  DEF CheckStore, Place, ResumePlaces, Approving, Running, Storing, Consuming, Closing, Ended
<1>3. pc' \in [Calls -> PcStates]
  BY <1>1, <1>2
  DEF CheckStore, HasRow, Execution, Goto, Answer, brokerVars, tableVars, localVars, Types,
      CallTypes, PcStates
<1>4. CallTypes'
  BY <1>3
  DEF CheckStore, HasRow, Execution, Goto, Answer, brokerVars, tableVars, localVars, Types,
      CallTypes
<1>5. \A d \in Calls \ {c} : Same(d)
  BY DEF CheckStore, HasRow, Execution, Goto, Answer, brokerVars, tableVars, localVars, Types,
     CallTypes, Same
<1>6. Place(c)'
  BY <1>1, <1>2, RuntimeAssumption, NoneAssumption
  DEF CheckStore, HasRow, Execution, Goto, Answer, brokerVars, tableVars, localVars, Types,
      CallTypes, Place, Storing, Running, Consuming, Closing, Ended, Approving, ResumePlace,
      ExecutePlaces, ResumePlaces, Calls
<1>7. c \in ResumeCalls => ResumePlace(c)'
  BY <1>1, <1>2
<1>8. BrokerKept
  BY NothingKeeps
  DEF CheckStore, HasRow, Execution, Goto, Answer, brokerVars, tableVars, localVars, Types,
      Broker!BrokerTypeOK
<1>9. HistoryTypes'
  BY <1>1, <1>2, RuntimeAssumption
  DEF CheckStore, HasRow, Execution, Goto, Answer, brokerVars, tableVars, localVars, Types,
      HistoryTypes, CallTypes, Place, ResumePlace, Storing, Running, Consuming, Closing, Pending
<1>10. TableTypes' /\ Registered' /\ Store!StateTypeOK' /\ \A k \in StateKeys : RowPlace(k)'
  BY DEF CheckStore, HasRow, Execution, Goto, Answer, brokerVars, tableVars, localVars, Types,
     TableTypes, HistoryTypes, Registered, Places, RowPlace, Store!StateTypeOK
<1> QED BY <1>2, <1>3, <1>4, <1>5, <1>6, <1>7, <1>8, <1>9, <1>10, OthersStay
    DEF Types, Places, BrokerKept

\* Opening the state keeps types and places.
LEMMA OpenKeepsPlaces ==
  ASSUME NEW c \in Calls, Types, Places, BrokerIsTimely, Open(c)
  PROVE  Types' /\ Places' /\ BrokerKept /\ \A d \in Calls \ {c} : Same(d)
<1>1. Place(c) /\ (c \in ResumeCalls => ResumePlace(c)) /\ Execution(c) \in Executions
  BY RuntimeAssumption DEF Places, Execution
<1>2. /\ pc' = [pc EXCEPT ![c] = "admit"]
      /\ copy' = [copy EXCEPT ![c] = Store!Opened(StateKey(c), Principal, "1")]
      /\ Store!Opened(StateKey(c), Principal, "1") \in Store!State
  BY OpenedIsState DEF OpenState, Goto, Open
<1>3. pc' \in [Calls -> PcStates]
  BY <1>1, <1>2
  DEF Open, OpenState, StateKey, Goto, brokerVars, tableVars, localVars, Types, CallTypes,
      PcStates
<1>4. copy' \in [Calls -> Store!State \union {None}]
  BY <1>1, <1>2 DEF Types, CallTypes
<1>5. CallTypes'
  BY <1>3, <1>4
  DEF Open, OpenState, StateKey, Goto, brokerVars, tableVars, localVars, Types, CallTypes
<1>6. \A d \in Calls \ {c} : Same(d)
  BY DEF Open, OpenState, StateKey, Goto, brokerVars, tableVars, localVars, Types, CallTypes,
     Same
<1>7. Place(c)'
  BY <1>1, <1>2, NoneAssumption
  DEF OpenState, Open, Types, CallTypes, Place, Storing, Running, Consuming, Closing, Ended,
      Approving, ResumePlace, ExecutePlaces, ResumePlaces, Calls
<1>8. c \in ResumeCalls => ResumePlace(c)'
  BY <1>1, <1>2, RuntimeAssumption, NoneAssumption
  DEF Open, OpenState, StateKey, Goto, brokerVars, tableVars, localVars, Types, CallTypes,
      Place, Storing, Running, Consuming, Closing, Ended, Approving, ResumePlace, ExecutePlaces,
      Calls
<1>9. BrokerKept
  BY NothingKeeps
  DEF Open, OpenState, StateKey, Goto, brokerVars, tableVars, localVars, Types,
      Broker!BrokerTypeOK
<1>10. Registered'
  BY <1>1, <1>2, NoneAssumption
  DEF OpenState, Open, tableVars, Types, TableTypes, CallTypes, Registered, Places
<1>11. Store!StateTypeOK' /\ \A k \in StateKeys : RowPlace(k)'
  BY OpenKeepsRows DEF OpenState, Open
<1>12. TableTypes' /\ HistoryTypes'
  BY DEF Open, OpenState, StateKey, Goto, brokerVars, tableVars, localVars, Types, TableTypes,
     HistoryTypes, Registered, Places, RowPlace, Store!StateTypeOK
<1> QED BY <1>2, <1>3, <1>4, <1>5, <1>6, <1>7, <1>8, <1>9, <1>10, <1>11, <1>12, OthersStay
    DEF Types, Places, BrokerKept

\* Registering keeps types and places.
LEMMA AdmitKeepsPlaces ==
  ASSUME NEW c \in Calls, Types, Places, BrokerIsTimely, Admit(c)
  PROVE  Types' /\ Places' /\ BrokerKept /\ \A d \in Calls \ {c} : Same(d)
<1>1. Place(c) /\ (c \in ResumeCalls => ResumePlace(c)) /\ Execution(c) \in Executions
  BY RuntimeAssumption DEF Places, Execution
<1>2. /\ \/ active' = active
         \/ active' = [active EXCEPT ![Execution(c)] = c]
      /\ \/ pending' = pending
         \/ pending' = [pending EXCEPT ![Execution(c)] = held[c]]
      /\ UNCHANGED <<used, traces, copy>> /\ copy[c] # None
  BY <1>1 DEF Admit, Rearmed, localVars, Place, Running
<1>3. pc' \in [Calls -> PcStates]
  BY <1>1, <1>2
  DEF Admit, Execution, Goto, Answer, Rearmed, brokerVars, tableVars, localVars, Types,
      CallTypes, PcStates
<1>4. CallTypes'
  BY <1>3
  DEF Admit, Execution, Goto, Answer, Rearmed, brokerVars, tableVars, localVars, Types,
      CallTypes
<1>5. \A d \in Calls \ {c} : Same(d)
  BY DEF Admit, Execution, Goto, Answer, Rearmed, brokerVars, tableVars, localVars, Types,
     CallTypes, Same
<1>6. Place(c)'
  BY <1>1, <1>2, RuntimeAssumption, NoneAssumption
  DEF Admit, Execution, Goto, Answer, Rearmed, brokerVars, tableVars, localVars, Types,
      CallTypes, Place, Storing, Running, Consuming, Closing, Ended, Approving, ResumePlace,
      ExecutePlaces, ResumePlaces, Calls
<1>7. c \in ResumeCalls => ResumePlace(c)'
  BY <1>1, <1>2, RuntimeAssumption, NoneAssumption
  DEF Admit, Execution, Goto, Answer, Rearmed, brokerVars, tableVars, localVars, Types,
      CallTypes, Place, Storing, Running, Consuming, Closing, Ended, Approving, ResumePlace,
      ExecutePlaces, Calls
<1>8. BrokerKept
  BY NothingKeeps
  DEF Admit, Execution, Goto, Answer, Rearmed, brokerVars, tableVars, localVars, Types,
      Broker!BrokerTypeOK
<1>9. TableTypes'
  BY <1>1, <1>2 DEF Admit, Types, TableTypes, CallTypes
<1>10. HistoryTypes'
  BY <1>1, <1>2, RuntimeAssumption
  DEF Admit, Execution, Goto, Answer, Rearmed, brokerVars, tableVars, localVars, Types,
      HistoryTypes, CallTypes, Place, ResumePlace, Storing, Running, Consuming, Closing, Pending
<1>11. Registered'
  BY <1>1, <1>2 DEF Types, TableTypes, CallTypes, Registered, Places
<1>12. Store!StateTypeOK' /\ \A k \in StateKeys : RowPlace(k)'
  BY DEF Admit, Execution, Goto, Answer, Rearmed, brokerVars, tableVars, localVars, Types,
     TableTypes, HistoryTypes, Registered, Places, RowPlace, Store!StateTypeOK
<1> QED BY <1>2, <1>3, <1>4, <1>5, <1>6, <1>7, <1>8, <1>9, <1>10, <1>11, <1>12, OthersStay
    DEF Types, Places, BrokerKept

\* Accepting the plan keeps types and places.
LEMMA AcceptPlanKeepsPlaces ==
  ASSUME NEW c \in Calls, Types, Places, BrokerIsTimely, AcceptPlan(c)
  PROVE  Types' /\ Places' /\ BrokerKept /\ \A d \in Calls \ {c} : Same(d)
<1>1. Place(c) /\ (c \in ResumeCalls => ResumePlace(c)) /\ Execution(c) \in Executions
  BY RuntimeAssumption DEF Places, Execution
<1>2. pc' \in [Calls -> PcStates]
  BY <1>1 DEF AcceptPlan, Goto, brokerVars, tableVars, localVars, Types, CallTypes, PcStates
<1>3. CallTypes'
  BY <1>2 DEF AcceptPlan, Goto, brokerVars, tableVars, localVars, Types, CallTypes
<1>4. \A d \in Calls \ {c} : Same(d)
  BY DEF AcceptPlan, Goto, brokerVars, tableVars, localVars, Types, CallTypes, Same
<1>5. Place(c)'
  BY <1>1, RuntimeAssumption, NoneAssumption
  DEF AcceptPlan, Goto, brokerVars, tableVars, localVars, Types, CallTypes, Place, Storing,
      Running, Consuming, Closing, Ended, Approving, ResumePlace, ExecutePlaces, ResumePlaces,
      Calls
<1>6. c \in ResumeCalls => ResumePlace(c)'
  BY <1>1, RuntimeAssumption, NoneAssumption
  DEF AcceptPlan, Goto, brokerVars, tableVars, localVars, Types, CallTypes, Place, Storing,
      Running, Consuming, Closing, Ended, Approving, ResumePlace, ExecutePlaces, Calls
<1>7. BrokerKept
  BY NothingKeeps
  DEF AcceptPlan, Goto, brokerVars, tableVars, localVars, Types, Broker!BrokerTypeOK
<1>8. /\ TableTypes' /\ HistoryTypes' /\ Registered' /\ Store!StateTypeOK'
      /\ \A k \in StateKeys : RowPlace(k)'
  BY DEF AcceptPlan, Goto, brokerVars, tableVars, localVars, Types, TableTypes, HistoryTypes,
     Registered, Places, RowPlace, Store!StateTypeOK
<1> QED BY <1>2, <1>3, <1>4, <1>5, <1>6, <1>7, <1>8, OthersStay DEF Types, Places, BrokerKept

\* A refused input keeps types and places.
LEMMA RefuseInputKeepsPlaces ==
  ASSUME NEW c \in Calls, Types, Places, BrokerIsTimely, RefuseInput(c)
  PROVE  Types' /\ Places' /\ BrokerKept /\ \A d \in Calls \ {c} : Same(d)
<1>1. Place(c) /\ (c \in ResumeCalls => ResumePlace(c)) /\ Execution(c) \in Executions
  BY RuntimeAssumption DEF Places, Execution
<1>2. pc' \in [Calls -> PcStates]
  BY <1>1
  DEF RefuseInput, Execution, Goto, brokerVars, tableVars, localVars, Types, CallTypes, PcStates
<1>3. outcome' \in [Calls -> Outcomes \union {None}]
  BY <1>1
  DEF RefuseInput, Execution, Goto, brokerVars, tableVars, localVars, Types, CallTypes, Outcomes
<1>4. CallTypes'
  BY <1>2, <1>3
  DEF RefuseInput, Execution, Goto, brokerVars, tableVars, localVars, Types, CallTypes
<1>5. \A d \in Calls \ {c} : Same(d)
  BY DEF RefuseInput, Execution, Goto, brokerVars, tableVars, localVars, Types, CallTypes, Same
<1>6. Place(c)'
  BY <1>1, RuntimeAssumption, NoneAssumption
  DEF RefuseInput, Execution, Goto, brokerVars, tableVars, localVars, Types, CallTypes, Place,
      Storing, Running, Consuming, Closing, Ended, Approving, ResumePlace, ExecutePlaces,
      ResumePlaces, Calls
<1>7. c \in ResumeCalls => ResumePlace(c)'
  BY <1>1, RuntimeAssumption, NoneAssumption
  DEF RefuseInput, Execution, Goto, brokerVars, tableVars, localVars, Types, CallTypes, Place,
      Storing, Running, Consuming, Closing, Ended, Approving, ResumePlace, ExecutePlaces, Calls
<1>8. BrokerKept
  BY NothingKeeps
  DEF RefuseInput, Execution, Goto, brokerVars, tableVars, localVars, Types, Broker!BrokerTypeOK
<1>9. TableTypes'
  BY <1>1, RuntimeAssumption
  DEF RefuseInput, Execution, Goto, brokerVars, tableVars, localVars, Types, TableTypes,
      CallTypes
<1>10. HistoryTypes' /\ Registered' /\ Store!StateTypeOK' /\ \A k \in StateKeys : RowPlace(k)'
  BY DEF RefuseInput, Execution, Goto, brokerVars, tableVars, localVars, Types, TableTypes,
     HistoryTypes, Registered, Places, RowPlace, Store!StateTypeOK
<1> QED BY <1>2, <1>3, <1>4, <1>5, <1>6, <1>7, <1>8, <1>9, <1>10, OthersStay
    DEF Types, Places, BrokerKept

\* A failing provider keeps types and places.
LEMMA ProviderFailsKeepsPlaces ==
  ASSUME NEW c \in Calls, Types, Places, BrokerIsTimely, ProviderFails(c)
  PROVE  Types' /\ Places' /\ BrokerKept /\ \A d \in Calls \ {c} : Same(d)
<1>1. Place(c) /\ (c \in ResumeCalls => ResumePlace(c)) /\ Execution(c) \in Executions
  BY RuntimeAssumption DEF Places, Execution
<1>2. pc' \in [Calls -> PcStates]
  BY <1>1
  DEF ProviderFails, EndsAs, Decided, Goto, brokerVars, tableVars, localVars, Types, CallTypes,
      PcStates
<1>3. outcome' \in [Calls -> Outcomes \union {None}]
  BY <1>1
  DEF ProviderFails, EndsAs, Decided, Goto, brokerVars, tableVars, localVars, Types, CallTypes,
      Outcomes
<1>4. CallTypes'
  BY <1>2, <1>3
  DEF ProviderFails, EndsAs, Decided, Goto, brokerVars, tableVars, localVars, Types, CallTypes
<1>5. \A d \in Calls \ {c} : Same(d)
  BY DEF ProviderFails, EndsAs, Decided, Goto, brokerVars, tableVars, localVars, Types,
     CallTypes, Same
<1>6. Place(c)'
  BY <1>1, RuntimeAssumption, NoneAssumption
  DEF ProviderFails, EndsAs, Decided, Goto, brokerVars, tableVars, localVars, Types, CallTypes,
      Place, Storing, Running, Consuming, Closing, Ended, Approving, ResumePlace, ExecutePlaces,
      ResumePlaces, Calls
<1>7. c \in ResumeCalls => ResumePlace(c)'
  BY <1>1, RuntimeAssumption, NoneAssumption
  DEF ProviderFails, EndsAs, Decided, Goto, brokerVars, tableVars, localVars, Types, CallTypes,
      Place, Storing, Running, Consuming, Closing, Ended, Approving, ResumePlace, ExecutePlaces,
      Calls
<1>8. BrokerKept
  BY NothingKeeps
  DEF ProviderFails, EndsAs, Decided, Goto, brokerVars, tableVars, localVars, Types,
      Broker!BrokerTypeOK
<1>9. /\ TableTypes' /\ HistoryTypes' /\ Registered' /\ Store!StateTypeOK'
      /\ \A k \in StateKeys : RowPlace(k)'
  BY DEF ProviderFails, EndsAs, Decided, Goto, brokerVars, tableVars, localVars, Types,
     TableTypes, HistoryTypes, Registered, Places, RowPlace, Store!StateTypeOK
<1> QED BY <1>2, <1>3, <1>4, <1>5, <1>6, <1>7, <1>8, <1>9, OthersStay
    DEF Types, Places, BrokerKept

\* A refused plan keeps types and places.
LEMMA RefusePlanKeepsPlaces ==
  ASSUME NEW c \in Calls, Types, Places, BrokerIsTimely, RefusePlan(c)
  PROVE  Types' /\ Places' /\ BrokerKept /\ \A d \in Calls \ {c} : Same(d)
<1>1. Place(c) /\ (c \in ResumeCalls => ResumePlace(c)) /\ Execution(c) \in Executions
  BY RuntimeAssumption DEF Places, Execution
<1>2. pc' \in [Calls -> PcStates]
  BY <1>1
  DEF RefusePlan, EndsAs, Decided, Goto, brokerVars, tableVars, localVars, Types, CallTypes,
      PcStates
<1>3. outcome' \in [Calls -> Outcomes \union {None}]
  BY <1>1
  DEF RefusePlan, EndsAs, Decided, Goto, brokerVars, tableVars, localVars, Types, CallTypes,
      Outcomes
<1>4. CallTypes'
  BY <1>2, <1>3
  DEF RefusePlan, EndsAs, Decided, Goto, brokerVars, tableVars, localVars, Types, CallTypes
<1>5. \A d \in Calls \ {c} : Same(d)
  BY DEF RefusePlan, EndsAs, Decided, Goto, brokerVars, tableVars, localVars, Types, CallTypes,
     Same
<1>6. Place(c)'
  BY <1>1, RuntimeAssumption, NoneAssumption
  DEF RefusePlan, EndsAs, Decided, Goto, brokerVars, tableVars, localVars, Types, CallTypes,
      Place, Storing, Running, Consuming, Closing, Ended, Approving, ResumePlace, ExecutePlaces,
      ResumePlaces, Calls
<1>7. c \in ResumeCalls => ResumePlace(c)'
  BY <1>1, RuntimeAssumption, NoneAssumption
  DEF RefusePlan, EndsAs, Decided, Goto, brokerVars, tableVars, localVars, Types, CallTypes,
      Place, Storing, Running, Consuming, Closing, Ended, Approving, ResumePlace, ExecutePlaces,
      Calls
<1>8. BrokerKept
  BY NothingKeeps
  DEF RefusePlan, EndsAs, Decided, Goto, brokerVars, tableVars, localVars, Types,
      Broker!BrokerTypeOK
<1>9. /\ TableTypes' /\ HistoryTypes' /\ Registered' /\ Store!StateTypeOK'
      /\ \A k \in StateKeys : RowPlace(k)'
  BY DEF RefusePlan, EndsAs, Decided, Goto, brokerVars, tableVars, localVars, Types, TableTypes,
     HistoryTypes, Registered, Places, RowPlace, Store!StateTypeOK
<1> QED BY <1>2, <1>3, <1>4, <1>5, <1>6, <1>7, <1>8, <1>9, OthersStay
    DEF Types, Places, BrokerKept

\* An interrupted run keeps types and places.
LEMMA InterruptKeepsPlaces ==
  ASSUME NEW c \in Calls, Types, Places, BrokerIsTimely, Interrupt(c)
  PROVE  Types' /\ Places' /\ BrokerKept /\ \A d \in Calls \ {c} : Same(d)
<1>1. Place(c) /\ (c \in ResumeCalls => ResumePlace(c)) /\ Execution(c) \in Executions
  BY RuntimeAssumption DEF Places, Execution
<1>2. copy[active[Execution(c)]] \in Store!State
  BY <1>1 DEF Interrupt, Places, Registered, Types, TableTypes, CallTypes
<1>3. pc' \in [Calls -> PcStates]
  BY <1>1, <1>2
  DEF Interrupt, Execution, Decided, Goto, brokerVars, tableVars, localVars, Types, CallTypes,
      PcStates
<1>4. outcome' \in [Calls -> Outcomes \union {None}]
  BY <1>1, <1>2
  DEF Interrupt, Execution, Decided, Goto, brokerVars, tableVars, localVars, Types, CallTypes,
      Outcomes
<1>5. copy' \in [Calls -> Store!State \union {None}]
  BY <1>1, <1>2 DEF Interrupt, Types, CallTypes
<1>6. CallTypes'
  BY <1>3, <1>4, <1>5
  DEF Interrupt, Execution, Decided, Goto, brokerVars, tableVars, localVars, Types, CallTypes
<1>7. \A d \in Calls \ {c} : Same(d)
  BY DEF Interrupt, Execution, Decided, Goto, brokerVars, tableVars, localVars, Types,
     CallTypes, Same
<1>8. Place(c)'
  BY <1>1, <1>2, NoneAssumption
  DEF Interrupt, Decided, Goto, Outcomes, Types, CallTypes, Place, Storing, Running, Consuming,
      Closing, Ended, Approving, ResumePlace, ExecutePlaces, ResumePlaces, Calls
<1>9. c \in ResumeCalls => ResumePlace(c)'
  BY <1>1, <1>2, RuntimeAssumption, NoneAssumption
  DEF Interrupt, Execution, Decided, Goto, brokerVars, tableVars, localVars, Types, CallTypes,
      Place, Storing, Running, Consuming, Closing, Ended, Approving, ResumePlace, ExecutePlaces,
      Calls
<1>10. BrokerKept
  BY NothingKeeps
  DEF Interrupt, Execution, Decided, Goto, brokerVars, tableVars, localVars, Types,
      Broker!BrokerTypeOK
<1>11. Registered'
  BY <1>1, <1>2, RuntimeAssumption, NoneAssumption
  DEF Interrupt, Execution, Decided, Goto, brokerVars, tableVars, localVars, Types, TableTypes,
      CallTypes, Place, Storing, Running, Registered, Places
<1>12. TableTypes' /\ HistoryTypes' /\ Store!StateTypeOK' /\ \A k \in StateKeys : RowPlace(k)'
  BY DEF Interrupt, Execution, Decided, Goto, brokerVars, tableVars, localVars, Types,
     TableTypes, HistoryTypes, Registered, Places, RowPlace, Store!StateTypeOK
<1> QED BY <1>2, <1>3, <1>4, <1>5, <1>6, <1>7, <1>8, <1>9, <1>10, <1>11, <1>12, OthersStay
    DEF Types, Places, BrokerKept

\* An interrupt that escapes keeps types and places.
LEMMA InterruptEscapesKeepsPlaces ==
  ASSUME NEW c \in Calls, Types, Places, BrokerIsTimely, InterruptEscapes(c)
  PROVE  Types' /\ Places' /\ BrokerKept /\ \A d \in Calls \ {c} : Same(d)
<1>1. Place(c) /\ (c \in ResumeCalls => ResumePlace(c)) /\ Execution(c) \in Executions
  BY RuntimeAssumption DEF Places, Execution
<1>2. pc' \in [Calls -> PcStates]
  BY <1>1
  DEF InterruptEscapes, Execution, Answer, Goto, Rearmed, brokerVars, tableVars, localVars,
      Types, CallTypes, PcStates
<1>3. CallTypes'
  BY <1>2
  DEF InterruptEscapes, Execution, Answer, Goto, Rearmed, brokerVars, tableVars, localVars,
      Types, CallTypes
<1>4. \A d \in Calls \ {c} : Same(d)
  BY DEF InterruptEscapes, Execution, Answer, Goto, Rearmed, brokerVars, tableVars, localVars,
     Types, CallTypes, Same
<1>5. Place(c)'
  BY <1>1, RuntimeAssumption, NoneAssumption
  DEF InterruptEscapes, Execution, Answer, Goto, Rearmed, brokerVars, tableVars, localVars,
      Types, CallTypes, Place, Storing, Running, Consuming, Closing, Ended, Approving,
      ResumePlace, ExecutePlaces, ResumePlaces, Calls
<1>6. c \in ResumeCalls => ResumePlace(c)'
  BY <1>1, RuntimeAssumption, NoneAssumption
  DEF InterruptEscapes, Execution, Answer, Goto, Rearmed, brokerVars, tableVars, localVars,
      Types, CallTypes, Place, Storing, Running, Consuming, Closing, Ended, Approving,
      ResumePlace, ExecutePlaces, Calls
<1>7. BrokerKept
  BY NothingKeeps
  DEF InterruptEscapes, Execution, Answer, Goto, Rearmed, brokerVars, tableVars, localVars,
      Types, Broker!BrokerTypeOK
<1>8. TableTypes'
  BY <1>1, RuntimeAssumption
  DEF InterruptEscapes, Execution, Answer, Goto, Rearmed, brokerVars, tableVars, localVars,
      Types, TableTypes, CallTypes
<1>9. HistoryTypes'
  BY <1>1, RuntimeAssumption
  DEF InterruptEscapes, Execution, Answer, Goto, Rearmed, brokerVars, tableVars, localVars,
      Types, HistoryTypes, CallTypes, Place, ResumePlace, Storing, Running, Consuming, Closing,
      Pending
<1>10. Registered' /\ Store!StateTypeOK' /\ \A k \in StateKeys : RowPlace(k)'
  BY DEF InterruptEscapes, Execution, Answer, Goto, Rearmed, brokerVars, tableVars, localVars,
     Types, TableTypes, HistoryTypes, Registered, Places, RowPlace, Store!StateTypeOK
<1> QED BY <1>2, <1>3, <1>4, <1>5, <1>6, <1>7, <1>8, <1>9, <1>10, OthersStay
    DEF Types, Places, BrokerKept

\* A step that raises keeps types and places.
LEMMA StepRaisesKeepsPlaces ==
  ASSUME NEW c \in Calls, Types, Places, BrokerIsTimely, StepRaises(c)
  PROVE  Types' /\ Places' /\ BrokerKept /\ \A d \in Calls \ {c} : Same(d)
<1>1. Place(c) /\ (c \in ResumeCalls => ResumePlace(c)) /\ Execution(c) \in Executions
  BY RuntimeAssumption DEF Places, Execution
<1>2. pc' \in [Calls -> PcStates]
  BY <1>1
  DEF StepRaises, Answer, Goto, Rearmed, Execution, Unregistered, HasStep, brokerVars, tableVars,
      localVars, Types, CallTypes, PcStates
<1>3. CallTypes'
  BY <1>2
  DEF StepRaises, Answer, Goto, Rearmed, Execution, Unregistered, HasStep, brokerVars, tableVars,
      localVars, Types, CallTypes
<1>4. \A d \in Calls \ {c} : Same(d)
  BY DEF StepRaises, Answer, Goto, Rearmed, Execution, Unregistered, HasStep, brokerVars,
         tableVars, localVars, Types, CallTypes, Same
<1>5. Place(c)'
  BY <1>1, RuntimeAssumption, NoneAssumption
  DEF StepRaises, Answer, Goto, Rearmed, Execution, Unregistered, HasStep, brokerVars, tableVars,
      localVars, Types, CallTypes, Place, Storing, Running, Consuming, Closing, Ended, Approving,
      ResumePlace, ExecutePlaces, ResumePlaces, Calls
<1>6. c \in ResumeCalls => ResumePlace(c)'
  BY <1>1, RuntimeAssumption, NoneAssumption
  DEF StepRaises, Answer, Goto, Rearmed, Execution, Unregistered, HasStep, brokerVars, tableVars,
      localVars, Types, CallTypes, Place, Storing, Running, Consuming, Closing, Ended, Approving,
      ResumePlace, ExecutePlaces, Calls
<1>7. BrokerKept
  BY NothingKeeps
  DEF StepRaises, Answer, Goto, Rearmed, Execution, Unregistered, HasStep, brokerVars, tableVars,
      localVars, Types, Broker!BrokerTypeOK
<1>8. TableTypes'
  BY <1>1, RuntimeAssumption
  DEF StepRaises, Answer, Goto, Rearmed, Execution, Unregistered, HasStep, brokerVars, tableVars,
      localVars, Types, TableTypes, CallTypes
<1>9. HistoryTypes'
  BY <1>1, RuntimeAssumption
  DEF StepRaises, Answer, Goto, Rearmed, Execution, Unregistered, HasStep, brokerVars, tableVars,
      localVars, Types, HistoryTypes, CallTypes, Place, ResumePlace, Storing, Running, Consuming,
      Closing, Pending
<1>10. Registered'
  BY <1>1, RuntimeAssumption, NoneAssumption
  DEF StepRaises, Answer, Goto, Rearmed, Execution, Unregistered, HasStep, brokerVars, tableVars,
      localVars, Types, TableTypes, CallTypes, Place, Storing, Running, Registered, Places
<1>11. Store!StateTypeOK' /\ \A k \in StateKeys : RowPlace(k)'
  BY DEF StepRaises, Answer, Goto, Rearmed, Execution, Unregistered, HasStep, brokerVars,
     tableVars, localVars, Types, TableTypes, HistoryTypes, Registered, Places, RowPlace,
     Store!StateTypeOK
<1> QED BY <1>2, <1>3, <1>4, <1>5, <1>6, <1>7, <1>8, <1>9, <1>10, <1>11, OthersStay
    DEF Types, Places, BrokerKept

\* A denied step keeps types and places.
LEMMA DenyKeepsPlaces ==
  ASSUME NEW c \in Calls, Types, Places, BrokerIsTimely, Deny(c)
  PROVE  Types' /\ Places' /\ BrokerKept /\ \A d \in Calls \ {c} : Same(d)
<1>1. Place(c) /\ (c \in ResumeCalls => ResumePlace(c)) /\ Execution(c) \in Executions
  BY RuntimeAssumption DEF Places, Execution
<1>2. pc' \in [Calls -> PcStates]
  BY <1>1
  DEF Deny, EndsAs, Decided, Goto, HasStep, Execution, brokerVars, tableVars, localVars, Types,
      CallTypes, PcStates
<1>3. outcome' \in [Calls -> Outcomes \union {None}]
  BY <1>1
  DEF Deny, EndsAs, Decided, Goto, HasStep, Execution, brokerVars, tableVars, localVars, Types,
      CallTypes, Outcomes
<1>4. CallTypes'
  BY <1>2, <1>3
  DEF Deny, EndsAs, Decided, Goto, HasStep, Execution, brokerVars, tableVars, localVars, Types,
      CallTypes
<1>5. \A d \in Calls \ {c} : Same(d)
  BY DEF Deny, EndsAs, Decided, Goto, HasStep, Execution, brokerVars, tableVars, localVars,
     Types, CallTypes, Same
<1>6. Place(c)'
  BY <1>1, RuntimeAssumption, NoneAssumption
  DEF Deny, EndsAs, Decided, Goto, HasStep, Execution, brokerVars, tableVars, localVars, Types,
      CallTypes, Place, Storing, Running, Consuming, Closing, Ended, Approving, ResumePlace,
      ExecutePlaces, ResumePlaces, Calls
<1>7. c \in ResumeCalls => ResumePlace(c)'
  BY <1>1, RuntimeAssumption, NoneAssumption
  DEF Deny, EndsAs, Decided, Goto, HasStep, Execution, brokerVars, tableVars, localVars, Types,
      CallTypes, Place, Storing, Running, Consuming, Closing, Ended, Approving, ResumePlace,
      ExecutePlaces, Calls
<1>8. BrokerKept
  BY NothingKeeps
  DEF Deny, EndsAs, Decided, Goto, HasStep, Execution, brokerVars, tableVars, localVars, Types,
      Broker!BrokerTypeOK
<1>9. /\ TableTypes' /\ HistoryTypes' /\ Registered' /\ Store!StateTypeOK'
      /\ \A k \in StateKeys : RowPlace(k)'
  BY DEF Deny, EndsAs, Decided, Goto, HasStep, Execution, brokerVars, tableVars, localVars,
     Types, TableTypes, HistoryTypes, Registered, Places, RowPlace, Store!StateTypeOK
<1> QED BY <1>2, <1>3, <1>4, <1>5, <1>6, <1>7, <1>8, <1>9, OthersStay
    DEF Types, Places, BrokerKept

\* A handled step keeps types and places.
LEMMA HandleKeepsPlaces ==
  ASSUME NEW c \in Calls, Types, Places, BrokerIsTimely, Handle(c)
  PROVE  Types' /\ Places' /\ BrokerKept /\ \A d \in Calls \ {c} : Same(d)
<1>1. Place(c) /\ (c \in ResumeCalls => ResumePlace(c)) /\ Execution(c) \in Executions
  BY RuntimeAssumption DEF Places, Execution
<1>2. at' \in [Calls -> Nat \ {0}]
  BY <1>1
  DEF Handle, Execution, HasStep, Permitted, Action, brokerVars, tableVars, localVars, Types,
      CallTypes, Pending
<1>3. CallTypes'
  BY <1>2
  DEF Handle, Execution, HasStep, Permitted, Action, brokerVars, tableVars, localVars, Types,
      CallTypes
<1>4. \A d \in Calls \ {c} : Same(d)
  BY DEF Handle, Execution, HasStep, Permitted, Action, brokerVars, tableVars, localVars, Types,
     CallTypes, Same
<1>5. Place(c)'
  BY <1>1, RuntimeAssumption, NoneAssumption
  DEF Handle, Execution, HasStep, Permitted, Action, brokerVars, tableVars, localVars, Types,
      CallTypes, Place, Storing, Running, Consuming, Closing, Ended, Approving, ResumePlace,
      ExecutePlaces, ResumePlaces, Calls
<1>6. c \in ResumeCalls => ResumePlace(c)'
  BY <1>1, RuntimeAssumption, NoneAssumption
  DEF Handle, Execution, HasStep, Permitted, Action, brokerVars, tableVars, localVars, Types,
      CallTypes, Place, Storing, Running, Consuming, Closing, Ended, Approving, ResumePlace,
      ExecutePlaces, Calls
<1>7. BrokerKept
  BY NothingKeeps
  DEF Handle, Execution, HasStep, Permitted, Action, brokerVars, tableVars, localVars, Types,
      Broker!BrokerTypeOK
<1>8. HistoryTypes'
  BY <1>1, RuntimeAssumption
  DEF Handle, Execution, HasStep, Permitted, Action, brokerVars, tableVars, localVars, Types,
      HistoryTypes, CallTypes, Place, ResumePlace, Storing, Running, Consuming, Closing, Pending
<1>9. TableTypes' /\ Registered' /\ Store!StateTypeOK' /\ \A k \in StateKeys : RowPlace(k)'
  BY DEF Handle, Execution, HasStep, Permitted, Action, brokerVars, tableVars, localVars, Types,
     TableTypes, HistoryTypes, Registered, Places, RowPlace, Store!StateTypeOK
<1> QED BY <1>2, <1>3, <1>4, <1>5, <1>6, <1>7, <1>8, <1>9, OthersStay
    DEF Types, Places, BrokerKept

\* Stopping at the gate keeps types and places.
LEMMA GateKeepsPlaces ==
  ASSUME NEW c \in Calls, Types, Places, BrokerIsTimely, Gate(c)
  PROVE  Types' /\ Places' /\ BrokerKept /\ \A d \in Calls \ {c} : Same(d)
<1>1. Place(c) /\ (c \in ResumeCalls => ResumePlace(c)) /\ Execution(c) \in Executions
  BY RuntimeAssumption DEF Places, Execution
<1>2. pc[c] = "step" /\ at[c] <= Len(Plan[Execution(c)])
  BY DEF Gate, HasStep
<1>3. <<c, at[c]>> \in Requests /\ Action(c) \in Actions
  BY <1>2, StepIsRequested
<1>4. [action |-> Action(c), expires_at |-> RequestExpiry] \in Broker!Request
  BY <1>3, RuntimeAssumption
  DEF RequestExpiry, Broker!Request, Broker!Expiry, Types, Broker!BrokerTypeOK
<1>5. /\ pc' = [pc EXCEPT ![c] = "finish"]
      /\ outcome' = [outcome EXCEPT ![c] = "escalated"]
      /\ pausing' = [pausing EXCEPT ![c] = TRUE]
      /\ UNCHANGED <<at, approved, copy, held, merged, called>>
  BY DEF Gate, Decided, Goto
<1>6. pc' \in [Calls -> PcStates]
  BY <1>1, <1>2, <1>3, <1>4, <1>5
  DEF Gate, Decided, Goto, Action, Execution, HasStep, Permitted, RequestExpiry, brokerVars,
      tableVars, localVars, Types, CallTypes, PcStates
<1>7. outcome' \in [Calls -> Outcomes \union {None}]
  BY <1>1, <1>2, <1>3, <1>4, <1>5
  DEF Gate, Decided, Goto, Action, Execution, HasStep, Permitted, RequestExpiry, brokerVars,
      tableVars, localVars, Types, CallTypes, Outcomes
<1>8. pausing' \in [Calls -> BOOLEAN]
  BY <1>1, <1>2, <1>3, <1>4, <1>5
  DEF Gate, Decided, Goto, Action, Execution, HasStep, Permitted, RequestExpiry, brokerVars,
      tableVars, localVars, Types, CallTypes
<1>9. CallTypes'
  BY <1>6, <1>7, <1>8
  DEF Gate, Decided, Goto, Action, Execution, HasStep, Permitted, RequestExpiry, brokerVars,
      tableVars, localVars, Types, CallTypes
<1>10. \A d \in Calls \ {c} : Same(d)
  BY DEF Gate, Decided, Goto, Action, Execution, HasStep, Permitted, RequestExpiry, brokerVars,
     tableVars, localVars, Types, CallTypes, Same
<1>11. Place(c)'
  BY <1>1, <1>2, <1>3, <1>4, <1>5, NoneAssumption
  DEF Outcomes, Types, CallTypes, Place, Storing, Running, Consuming, Closing, Ended, Approving,
      ResumePlace, ExecutePlaces, ResumePlaces, Calls
<1>12. c \in ResumeCalls => ResumePlace(c)'
  BY <1>1, <1>2, <1>3, <1>4, <1>5
  DEF Gate, Broker!Submit, Broker!BrokerTypeOK, Types, CallTypes, Place, Storing, Running,
      Consuming, Closing, Ended, Approving, ResumePlace, ExecutePlaces, ResumePlaces, Calls
<1>13. BrokerKept
  BY <1>1, <1>2, <1>3, <1>4, <1>5, SubmitKeeps DEF Gate
<1>14. /\ TableTypes' /\ HistoryTypes' /\ Registered' /\ Store!StateTypeOK'
       /\ \A k \in StateKeys : RowPlace(k)'
  BY DEF Gate, Decided, Goto, Action, Execution, HasStep, Permitted, RequestExpiry, brokerVars,
     tableVars, localVars, Types, TableTypes, HistoryTypes, Registered, Places, RowPlace,
     Store!StateTypeOK
<1> QED BY <1>2, <1>3, <1>4, <1>5, <1>6, <1>7, <1>8, <1>9, <1>10, <1>11, <1>12, <1>13, <1>14,
       OthersStay
    DEF Types, Places, BrokerKept

\* The end of the plan keeps types and places.
LEMMA FinishPlanKeepsPlaces ==
  ASSUME NEW c \in Calls, Types, Places, BrokerIsTimely, FinishPlan(c)
  PROVE  Types' /\ Places' /\ BrokerKept /\ \A d \in Calls \ {c} : Same(d)
<1>1. Place(c) /\ (c \in ResumeCalls => ResumePlace(c)) /\ Execution(c) \in Executions
  BY RuntimeAssumption DEF Places, Execution
<1>2. pc' \in [Calls -> PcStates]
  BY <1>1
  DEF FinishPlan, Execution, Goto, brokerVars, tableVars, localVars, Types, CallTypes, PcStates
<1>3. CallTypes'
  BY <1>2 DEF FinishPlan, Execution, Goto, brokerVars, tableVars, localVars, Types, CallTypes
<1>4. \A d \in Calls \ {c} : Same(d)
  BY DEF FinishPlan, Execution, Goto, brokerVars, tableVars, localVars, Types, CallTypes, Same
<1>5. Place(c)'
  BY <1>1, RuntimeAssumption, NoneAssumption
  DEF FinishPlan, Execution, Goto, brokerVars, tableVars, localVars, Types, CallTypes, Place,
      Storing, Running, Consuming, Closing, Ended, Approving, ResumePlace, ExecutePlaces,
      ResumePlaces, Calls
<1>6. c \in ResumeCalls => ResumePlace(c)'
  BY <1>1, RuntimeAssumption, NoneAssumption
  DEF FinishPlan, Execution, Goto, brokerVars, tableVars, localVars, Types, CallTypes, Place,
      Storing, Running, Consuming, Closing, Ended, Approving, ResumePlace, ExecutePlaces, Calls
<1>7. BrokerKept
  BY NothingKeeps
  DEF FinishPlan, Execution, Goto, brokerVars, tableVars, localVars, Types, Broker!BrokerTypeOK
<1>8. /\ TableTypes' /\ HistoryTypes' /\ Registered' /\ Store!StateTypeOK'
      /\ \A k \in StateKeys : RowPlace(k)'
  BY DEF FinishPlan, Execution, Goto, brokerVars, tableVars, localVars, Types, TableTypes,
     HistoryTypes, Registered, Places, RowPlace, Store!StateTypeOK
<1> QED BY <1>2, <1>3, <1>4, <1>5, <1>6, <1>7, <1>8, OthersStay DEF Types, Places, BrokerKept

\* The composition keeps types and places.
LEMMA ComposeKeepsPlaces ==
  ASSUME NEW c \in Calls, Types, Places, BrokerIsTimely, Compose(c)
  PROVE  Types' /\ Places' /\ BrokerKept /\ \A d \in Calls \ {c} : Same(d)
<1>1. Place(c) /\ (c \in ResumeCalls => ResumePlace(c)) /\ Execution(c) \in Executions
  BY RuntimeAssumption DEF Places, Execution
<1>2. pc' \in [Calls -> PcStates]
  BY <1>1
  DEF Compose, Decided, Goto, brokerVars, tableVars, localVars, Types, CallTypes, PcStates
<1>3. outcome' \in [Calls -> Outcomes \union {None}]
  BY RuntimeAssumption DEF Compose, Decided, Types, CallTypes
<1>4. CallTypes'
  BY <1>2, <1>3 DEF Compose, Decided, Goto, brokerVars, tableVars, localVars, Types, CallTypes
<1>5. \A d \in Calls \ {c} : Same(d)
  BY DEF Compose, Decided, Goto, brokerVars, tableVars, localVars, Types, CallTypes, Same
<1>6. Place(c)'
  BY <1>1, RuntimeAssumption, NoneAssumption
  DEF Compose, Decided, Goto, brokerVars, tableVars, localVars, Types, CallTypes, Place,
      Storing, Running, Consuming, Closing, Ended, Approving, ResumePlace, ExecutePlaces,
      ResumePlaces, Calls
<1>7. c \in ResumeCalls => ResumePlace(c)'
  BY <1>1, RuntimeAssumption, NoneAssumption
  DEF Compose, Decided, Goto, brokerVars, tableVars, localVars, Types, CallTypes, Place,
      Storing, Running, Consuming, Closing, Ended, Approving, ResumePlace, ExecutePlaces, Calls
<1>8. BrokerKept
  BY NothingKeeps
  DEF Compose, Decided, Goto, brokerVars, tableVars, localVars, Types, Broker!BrokerTypeOK
<1>9. /\ TableTypes' /\ HistoryTypes' /\ Registered' /\ Store!StateTypeOK'
      /\ \A k \in StateKeys : RowPlace(k)'
  BY DEF Compose, Decided, Goto, brokerVars, tableVars, localVars, Types, TableTypes,
     HistoryTypes, Registered, Places, RowPlace, Store!StateTypeOK
<1> QED BY <1>2, <1>3, <1>4, <1>5, <1>6, <1>7, <1>8, <1>9, OthersStay
    DEF Types, Places, BrokerKept

\* Saving the outcome keeps types and places.
LEMMA FinishKeepsPlaces ==
  ASSUME NEW c \in Calls, Types, Places, BrokerIsTimely, Finish(c)
  PROVE  Types' /\ Places' /\ BrokerKept /\ \A d \in Calls \ {c} : Same(d)
<1>1. Place(c) /\ (c \in ResumeCalls => ResumePlace(c)) /\ Execution(c) \in Executions
  BY RuntimeAssumption DEF Places, Execution
<1>2. copy[c] # None /\ outcome[c] # None
  BY <1>1 DEF Place, Storing, Running, Closing, Finish
<1>3. /\ pc' = [pc EXCEPT ![c] = IF pausing[c] THEN "remember" ELSE "leave"]
      /\ outcome' = outcome \/ outcome' = [outcome EXCEPT ![c] = "conflict"]
      /\ UNCHANGED <<at, approved, pausing, copy, held, merged, called>>
  BY DEF Finish, SaveFinished, Goto
<1>4. pc' \in [Calls -> PcStates]
  BY <1>1, <1>2, <1>3
  DEF Finish, Execution, Goto, SaveFinished, StateKey, FinishedState, StateStatusOf, brokerVars,
      tableVars, localVars, Types, CallTypes, PcStates
<1>5. outcome' \in [Calls -> Outcomes \union {None}]
  BY <1>1, <1>2, <1>3 DEF Types, CallTypes, Outcomes
<1>6. CallTypes'
  BY <1>4, <1>5
  DEF Finish, Execution, Goto, SaveFinished, StateKey, FinishedState, StateStatusOf, brokerVars,
      tableVars, localVars, Types, CallTypes
<1>7. \A d \in Calls \ {c} : Same(d)
  BY DEF Finish, Execution, Goto, SaveFinished, StateKey, FinishedState, StateStatusOf,
     brokerVars, tableVars, localVars, Types, CallTypes, Same
<1>8. Place(c)'
  BY <1>1, <1>2, <1>3, NoneAssumption
  DEF Outcomes, Types, CallTypes, Place, Storing, Running, Consuming, Closing, Ended, Approving,
      ResumePlace, ExecutePlaces, ResumePlaces, Calls, Finish
<1>9. c \in ResumeCalls => ResumePlace(c)'
  BY <1>1, <1>2, <1>3, RuntimeAssumption, NoneAssumption
  DEF Finish, Execution, Goto, SaveFinished, StateKey, FinishedState, StateStatusOf, brokerVars,
      tableVars, localVars, Types, CallTypes, Place, Storing, Running, Consuming, Closing,
      Ended, Approving, ResumePlace, ExecutePlaces, Calls
<1>10. BrokerKept
  BY NothingKeeps
  DEF Finish, Execution, Goto, SaveFinished, StateKey, FinishedState, StateStatusOf, brokerVars,
      tableVars, localVars, Types, Broker!BrokerTypeOK
<1>11. TableTypes'
  BY <1>1, <1>2, <1>3, RuntimeAssumption
  DEF Finish, Execution, Goto, SaveFinished, StateKey, FinishedState, StateStatusOf, brokerVars,
      tableVars, localVars, Types, TableTypes, CallTypes
<1>12. Store!StateTypeOK' /\ \A k \in StateKeys : RowPlace(k)'
  <2>1. CASE Store!Save(StateKey(c), FinishedState(c), copy[c].version)
    BY <1>1, <1>2, <1>3, <2>1, FinishedIsState, SaveKeepsRows
  <2>2. CASE UNCHANGED states
    BY <2>2 DEF Types, Store!StateTypeOK, Places, RowPlace
  <2> QED BY <2>1, <2>2 DEF Finish, SaveFinished
<1>13. HistoryTypes' /\ Registered'
  BY DEF Finish, Execution, Goto, SaveFinished, StateKey, FinishedState, StateStatusOf,
     brokerVars, tableVars, localVars, Types, TableTypes, HistoryTypes, Registered, Places,
     RowPlace, Store!StateTypeOK
<1> QED BY <1>2, <1>3, <1>4, <1>5, <1>6, <1>7, <1>8, <1>9, <1>10, <1>11, <1>12, <1>13,
       OthersStay
    DEF Types, Places, BrokerKept

\* Remembering the continuation keeps types and places.
LEMMA RememberKeepsPlaces ==
  ASSUME NEW c \in Calls, Types, Places, BrokerIsTimely, Remember(c)
  PROVE  Types' /\ Places' /\ BrokerKept /\ \A d \in Calls \ {c} : Same(d)
<1>1. Place(c) /\ (c \in ResumeCalls => ResumePlace(c)) /\ Execution(c) \in Executions
  BY RuntimeAssumption DEF Places, Execution
<1>2. Continuation(c) \in Pending
  BY <1>1, ContinuationIsPending DEF Place, Storing, Remember
<1>3. pc' \in [Calls -> PcStates]
  BY <1>1, <1>2
  DEF Remember, Execution, Goto, Continuation, brokerVars, tableVars, localVars, Types,
      CallTypes, PcStates
<1>4. CallTypes'
  BY <1>3
  DEF Remember, Execution, Goto, Continuation, brokerVars, tableVars, localVars, Types,
      CallTypes
<1>5. \A d \in Calls \ {c} : Same(d)
  BY DEF Remember, Execution, Goto, Continuation, brokerVars, tableVars, localVars, Types,
     CallTypes, Same
<1>6. Place(c)'
  BY <1>1, <1>2, RuntimeAssumption, NoneAssumption
  DEF Remember, Execution, Goto, Continuation, brokerVars, tableVars, localVars, Types,
      CallTypes, Place, Storing, Running, Consuming, Closing, Ended, Approving, ResumePlace,
      ExecutePlaces, ResumePlaces, Calls
<1>7. c \in ResumeCalls => ResumePlace(c)'
  BY <1>1, <1>2, RuntimeAssumption, NoneAssumption
  DEF Remember, Execution, Goto, Continuation, brokerVars, tableVars, localVars, Types,
      CallTypes, Place, Storing, Running, Consuming, Closing, Ended, Approving, ResumePlace,
      ExecutePlaces, Calls
<1>8. BrokerKept
  BY NothingKeeps
  DEF Remember, Execution, Goto, Continuation, brokerVars, tableVars, localVars, Types,
      Broker!BrokerTypeOK
<1>9. TableTypes'
  BY <1>1, <1>2 DEF Remember, Types, TableTypes
<1>10. HistoryTypes' /\ Registered' /\ Store!StateTypeOK' /\ \A k \in StateKeys : RowPlace(k)'
  BY DEF Remember, Execution, Goto, Continuation, brokerVars, tableVars, localVars, Types,
     TableTypes, HistoryTypes, Registered, Places, RowPlace, Store!StateTypeOK
<1> QED BY <1>2, <1>3, <1>4, <1>5, <1>6, <1>7, <1>8, <1>9, <1>10, OthersStay
    DEF Types, Places, BrokerKept

\* Finding the row to checkpoint keeps types and places.
LEMMA CheckpointKeepsPlaces ==
  ASSUME NEW c \in Calls, Types, Places, BrokerIsTimely, Checkpoint(c)
  PROVE  Types' /\ Places' /\ BrokerKept /\ \A d \in Calls \ {c} : Same(d)
<1>1. Place(c) /\ (c \in ResumeCalls => ResumePlace(c)) /\ Execution(c) \in Executions
  BY RuntimeAssumption DEF Places, Execution
<1>2. Row(c) \in Store!State /\ Row(c).execution_id = Execution(c)
  BY RowIsOwn DEF Checkpoint, FindRow, Resumable
<1>3. pc' \in [Calls -> PcStates]
  BY <1>1, <1>2
  DEF Checkpoint, FindRow, Row, StateKey, Goto, Resumable, HasRow, Execution, brokerVars,
      tableVars, localVars, Types, CallTypes, PcStates
<1>4. copy' \in [Calls -> Store!State \union {None}]
  BY <1>1, <1>2 DEF Checkpoint, FindRow, Types, CallTypes
<1>5. CallTypes'
  BY <1>3, <1>4
  DEF Checkpoint, FindRow, Row, StateKey, Goto, Resumable, HasRow, Execution, brokerVars,
      tableVars, localVars, Types, CallTypes
<1>6. \A d \in Calls \ {c} : Same(d)
  BY DEF Checkpoint, FindRow, Row, StateKey, Goto, Resumable, HasRow, Execution, brokerVars,
     tableVars, localVars, Types, CallTypes, Same
<1>7. Place(c)'
  BY <1>1, <1>2, NoneAssumption
  DEF Checkpoint, FindRow, Goto, localVars, Types, CallTypes, Place, Storing, Running,
      Consuming, Closing, Ended, Approving, ResumePlace, ExecutePlaces, ResumePlaces, Calls
<1>8. c \in ResumeCalls => ResumePlace(c)'
  BY <1>1, <1>2, RuntimeAssumption, NoneAssumption
  DEF Checkpoint, FindRow, Row, StateKey, Goto, Resumable, HasRow, Execution, brokerVars,
      tableVars, localVars, Types, CallTypes, Place, Storing, Running, Consuming, Closing,
      Ended, Approving, ResumePlace, ExecutePlaces, Calls
<1>9. BrokerKept
  BY NothingKeeps
  DEF Checkpoint, FindRow, Row, StateKey, Goto, Resumable, HasRow, Execution, brokerVars,
      tableVars, localVars, Types, Broker!BrokerTypeOK
<1>10. Registered'
  BY <1>1, <1>2, NoneAssumption
  DEF Checkpoint, FindRow, tableVars, Types, TableTypes, CallTypes, Registered, Places
<1>11. TableTypes' /\ HistoryTypes' /\ Store!StateTypeOK' /\ \A k \in StateKeys : RowPlace(k)'
  BY DEF Checkpoint, FindRow, Row, StateKey, Goto, Resumable, HasRow, Execution, brokerVars,
     tableVars, localVars, Types, TableTypes, HistoryTypes, Registered, Places, RowPlace,
     Store!StateTypeOK
<1> QED BY <1>2, <1>3, <1>4, <1>5, <1>6, <1>7, <1>8, <1>9, <1>10, <1>11, OthersStay
    DEF Types, Places, BrokerKept

\* Saving the checkpoint keeps types and places.
LEMMA PersistKeepsPlaces ==
  ASSUME NEW c \in Calls, Types, Places, BrokerIsTimely, Persist(c)
  PROVE  Types' /\ Places' /\ BrokerKept /\ \A d \in Calls \ {c} : Same(d)
<1>1. Place(c) /\ (c \in ResumeCalls => ResumePlace(c)) /\ Execution(c) \in Executions
  BY RuntimeAssumption DEF Places, Execution
<1>2. copy[c] # None /\ copy[c].execution_id = Execution(c) /\ Continuation(c) \in Pending
  BY <1>1, ContinuationIsPending DEF Place, Storing, Persist
<1>3. pc' \in [Calls -> PcStates]
  BY <1>1, <1>2
  DEF Persist, Goto, Continuation, SaveCheckpoint, StateKey, brokerVars, tableVars, localVars,
      Types, CallTypes, PcStates
<1>4. CallTypes'
  BY <1>3
  DEF Persist, Goto, Continuation, SaveCheckpoint, StateKey, brokerVars, tableVars, localVars,
      Types, CallTypes
<1>5. \A d \in Calls \ {c} : Same(d)
  BY DEF Persist, Goto, Continuation, SaveCheckpoint, StateKey, brokerVars, tableVars,
     localVars, Types, CallTypes, Same
<1>6. Place(c)'
  BY <1>1, <1>2, RuntimeAssumption, NoneAssumption
  DEF Persist, Goto, Continuation, SaveCheckpoint, StateKey, brokerVars, tableVars, localVars,
      Types, CallTypes, Place, Storing, Running, Consuming, Closing, Ended, Approving,
      ResumePlace, ExecutePlaces, ResumePlaces, Calls
<1>7. c \in ResumeCalls => ResumePlace(c)'
  BY <1>1, <1>2, RuntimeAssumption, NoneAssumption
  DEF Persist, Goto, Continuation, SaveCheckpoint, StateKey, brokerVars, tableVars, localVars,
      Types, CallTypes, Place, Storing, Running, Consuming, Closing, Ended, Approving,
      ResumePlace, ExecutePlaces, Calls
<1>8. BrokerKept
  BY NothingKeeps
  DEF Persist, Goto, Continuation, SaveCheckpoint, StateKey, brokerVars, tableVars, localVars,
      Types, Broker!BrokerTypeOK
<1>9. Store!StateTypeOK' /\ \A k \in StateKeys : RowPlace(k)'
  <2>1. Store!Save(StateKey(c), [copy[c] EXCEPT !.status = "paused",
                                                !.version = copy[c].version + 1,
                                                !.data = Continuation(c)], copy[c].version)
    BY DEF Persist, SaveCheckpoint
  <2> QED BY <1>1, <1>2, <2>1, CheckpointIsState, SaveKeepsRows
<1>10. TableTypes' /\ HistoryTypes' /\ Registered'
  BY DEF Persist, Goto, Continuation, SaveCheckpoint, StateKey, brokerVars, tableVars,
     localVars, Types, TableTypes, HistoryTypes, Registered, Places, RowPlace, Store!StateTypeOK
<1> QED BY <1>2, <1>3, <1>4, <1>5, <1>6, <1>7, <1>8, <1>9, <1>10, OthersStay
    DEF Types, Places, BrokerKept

\* A checkpoint that is refused keeps types and places.
LEMMA CheckpointRaisesKeepsPlaces ==
  ASSUME NEW c \in Calls, Types, Places, BrokerIsTimely, CheckpointRaises(c)
  PROVE  Types' /\ Places' /\ BrokerKept /\ \A d \in Calls \ {c} : Same(d)
<1>1. Place(c) /\ (c \in ResumeCalls => ResumePlace(c)) /\ Execution(c) \in Executions
  BY RuntimeAssumption DEF Places, Execution
<1>2. pc' \in [Calls -> PcStates]
  BY <1>1
  DEF CheckpointRaises, Answer, Goto, Rearmed, Execution, Unregistered, CheckpointRefused,
      StateKey, Resumable, Row, HasRow, brokerVars, tableVars, localVars, Types, CallTypes,
      PcStates
<1>3. CallTypes'
  BY <1>2
  DEF CheckpointRaises, Answer, Goto, Rearmed, Execution, Unregistered, CheckpointRefused,
      StateKey, Resumable, Row, HasRow, brokerVars, tableVars, localVars, Types, CallTypes
<1>4. \A d \in Calls \ {c} : Same(d)
  BY DEF CheckpointRaises, Answer, Goto, Rearmed, Execution, Unregistered, CheckpointRefused,
     StateKey, Resumable, Row, HasRow, brokerVars, tableVars, localVars, Types, CallTypes, Same
<1>5. Place(c)'
  BY <1>1, RuntimeAssumption, NoneAssumption
  DEF CheckpointRaises, Answer, Goto, Rearmed, Execution, Unregistered, CheckpointRefused,
      StateKey, Resumable, Row, HasRow, brokerVars, tableVars, localVars, Types, CallTypes,
      Place, Storing, Running, Consuming, Closing, Ended, Approving, ResumePlace, ExecutePlaces,
      ResumePlaces, Calls
<1>6. c \in ResumeCalls => ResumePlace(c)'
  BY <1>1, RuntimeAssumption, NoneAssumption
  DEF CheckpointRaises, Answer, Goto, Rearmed, Execution, Unregistered, CheckpointRefused,
      StateKey, Resumable, Row, HasRow, brokerVars, tableVars, localVars, Types, CallTypes,
      Place, Storing, Running, Consuming, Closing, Ended, Approving, ResumePlace, ExecutePlaces,
      Calls
<1>7. BrokerKept
  BY NothingKeeps
  DEF CheckpointRaises, Answer, Goto, Rearmed, Execution, Unregistered, CheckpointRefused,
      StateKey, Resumable, Row, HasRow, brokerVars, tableVars, localVars, Types,
      Broker!BrokerTypeOK
<1>8. TableTypes'
  BY <1>1, RuntimeAssumption
  DEF CheckpointRaises, Answer, Goto, Rearmed, Execution, Unregistered, CheckpointRefused,
      StateKey, Resumable, Row, HasRow, brokerVars, tableVars, localVars, Types, TableTypes,
      CallTypes
<1>9. HistoryTypes'
  BY <1>1, RuntimeAssumption
  DEF CheckpointRaises, Answer, Goto, Rearmed, Execution, Unregistered, CheckpointRefused,
      StateKey, Resumable, Row, HasRow, brokerVars, tableVars, localVars, Types, HistoryTypes,
      CallTypes, Place, ResumePlace, Storing, Running, Consuming, Closing, Pending
<1>10. Registered'
  BY <1>1, RuntimeAssumption, NoneAssumption
  DEF CheckpointRaises, Answer, Goto, Rearmed, Execution, Unregistered, CheckpointRefused,
      StateKey, Resumable, Row, HasRow, brokerVars, tableVars, localVars, Types, TableTypes,
      CallTypes, Place, Storing, Running, Registered, Places
<1>11. Store!StateTypeOK' /\ \A k \in StateKeys : RowPlace(k)'
  BY DEF CheckpointRaises, Answer, Goto, Rearmed, Execution, Unregistered, CheckpointRefused,
     StateKey, Resumable, Row, HasRow, brokerVars, tableVars, localVars, Types, TableTypes,
     HistoryTypes, Registered, Places, RowPlace, Store!StateTypeOK
<1> QED BY <1>2, <1>3, <1>4, <1>5, <1>6, <1>7, <1>8, <1>9, <1>10, <1>11, OthersStay
    DEF Types, Places, BrokerKept

\* Leaving execute keeps types and places.
LEMMA LeaveKeepsPlaces ==
  ASSUME NEW c \in Calls, Types, Places, BrokerIsTimely, Leave(c)
  PROVE  Types' /\ Places' /\ BrokerKept /\ \A d \in Calls \ {c} : Same(d)
<1>1. Place(c) /\ (c \in ResumeCalls => ResumePlace(c)) /\ Execution(c) \in Executions
  BY RuntimeAssumption DEF Places, Execution
<1>2. pc' \in [Calls -> PcStates]
  BY <1>1
  DEF Leave, Goto, Answer, Unregistered, Execution, brokerVars, tableVars, localVars, Types,
      CallTypes, PcStates
<1>3. CallTypes'
  BY <1>2
  DEF Leave, Goto, Answer, Unregistered, Execution, brokerVars, tableVars, localVars, Types,
      CallTypes
<1>4. \A d \in Calls \ {c} : Same(d)
  BY DEF Leave, Goto, Answer, Unregistered, Execution, brokerVars, tableVars, localVars, Types,
     CallTypes, Same
<1>5. Place(c)'
  BY <1>1, RuntimeAssumption, NoneAssumption
  DEF Leave, Goto, Answer, Unregistered, Execution, brokerVars, tableVars, localVars, Types,
      CallTypes, Place, Storing, Running, Consuming, Closing, Ended, Approving, ResumePlace,
      ExecutePlaces, ResumePlaces, Calls
<1>6. c \in ResumeCalls => ResumePlace(c)'
  BY <1>1, RuntimeAssumption, NoneAssumption
  DEF Leave, Goto, Answer, Unregistered, Execution, brokerVars, tableVars, localVars, Types,
      CallTypes, Place, Storing, Running, Consuming, Closing, Ended, Approving, ResumePlace,
      ExecutePlaces, Calls
<1>7. BrokerKept
  BY NothingKeeps
  DEF Leave, Goto, Answer, Unregistered, Execution, brokerVars, tableVars, localVars, Types,
      Broker!BrokerTypeOK
<1>8. TableTypes'
  BY <1>1, RuntimeAssumption
  DEF Leave, Goto, Answer, Unregistered, Execution, brokerVars, tableVars, localVars, Types,
      TableTypes, CallTypes
<1>9. HistoryTypes'
  BY <1>1, RuntimeAssumption
  DEF Leave, Goto, Answer, Unregistered, Execution, brokerVars, tableVars, localVars, Types,
      HistoryTypes, CallTypes, Place, ResumePlace, Storing, Running, Consuming, Closing, Pending
<1>10. Registered'
  BY <1>1, RuntimeAssumption, NoneAssumption
  DEF Leave, Goto, Answer, Unregistered, Execution, brokerVars, tableVars, localVars, Types,
      TableTypes, CallTypes, Place, Storing, Running, Registered, Places
<1>11. Store!StateTypeOK' /\ \A k \in StateKeys : RowPlace(k)'
  BY DEF Leave, Goto, Answer, Unregistered, Execution, brokerVars, tableVars, localVars, Types,
     TableTypes, HistoryTypes, Registered, Places, RowPlace, Store!StateTypeOK
<1> QED BY <1>2, <1>3, <1>4, <1>5, <1>6, <1>7, <1>8, <1>9, <1>10, <1>11, OthersStay
    DEF Types, Places, BrokerKept

\* Beginning a resume keeps types and places.
LEMMA FetchKeepsPlaces ==
  ASSUME NEW c \in Calls, Types, Places, BrokerIsTimely, Fetch(c)
  PROVE  Types' /\ Places' /\ BrokerKept /\ \A d \in Calls \ {c} : Same(d)
<1>1. Place(c) /\ (c \in ResumeCalls => ResumePlace(c)) /\ Execution(c) \in Executions
  BY RuntimeAssumption DEF Places, Execution
<1>2. /\ pc[c] = "idle"
      /\ \/ pc' = [pc EXCEPT ![c] = "restore"]
         \/ pc' = [pc EXCEPT ![c] = "decide"] /\ pending[Execution(c)] # None
      /\ held' = [held EXCEPT ![c] = pending[Execution(c)]]
      /\ \E e \in Evidence : called' = [called EXCEPT ![c] = [time |-> now, evidence |-> e]]
      /\ UNCHANGED <<approved, now>> /\ now \in Nat
  BY DEF Fetch, MayStart, Goto, brokerVars, Types, Broker!BrokerTypeOK
<1>3. pc' \in [Calls -> PcStates]
  BY <1>1, <1>2
  DEF Fetch, Execution, MayStart, InFlight, Goto, brokerVars, tableVars, localVars, Types,
      CallTypes, PcStates
<1>4. held' \in [Calls -> Pending \union {None}]
  BY <1>1, <1>2
  DEF Fetch, Execution, MayStart, InFlight, Goto, brokerVars, tableVars, localVars, Types,
      CallTypes, TableTypes
<1>5. called' \in [Calls -> [time : Nat, evidence : Evidence] \union {None}]
  BY <1>1, <1>2 DEF Types, CallTypes
<1>6. CallTypes'
  BY <1>3, <1>4, <1>5
  DEF Fetch, Execution, MayStart, InFlight, Goto, brokerVars, tableVars, localVars, Types,
      CallTypes
<1>7. \A d \in Calls \ {c} : Same(d)
  BY DEF Fetch, Execution, MayStart, InFlight, Goto, brokerVars, tableVars, localVars, Types,
     CallTypes, Same
<1>8. Place(c)'
  BY <1>1, <1>2, RuntimeAssumption, NoneAssumption
  DEF Fetch, Execution, MayStart, InFlight, Goto, brokerVars, tableVars, localVars, Types,
      CallTypes, Place, Storing, Running, Consuming, Closing, Ended, Approving, ResumePlace,
      ExecutePlaces, ResumePlaces, Calls
<1>9. c \in ResumeCalls => ResumePlace(c)'
  BY <1>1, <1>2, NoneAssumption
  DEF Types, CallTypes, Place, Storing, Running, Consuming, Closing, Ended, Approving,
      ResumePlace, ExecutePlaces, ResumePlaces, Calls
<1>10. BrokerKept
  BY NothingKeeps
  DEF Fetch, Execution, MayStart, InFlight, Goto, brokerVars, tableVars, localVars, Types,
      Broker!BrokerTypeOK
<1>11. /\ TableTypes' /\ HistoryTypes' /\ Registered' /\ Store!StateTypeOK'
       /\ \A k \in StateKeys : RowPlace(k)'
  BY DEF Fetch, Execution, MayStart, InFlight, Goto, brokerVars, tableVars, localVars, Types,
     TableTypes, HistoryTypes, Registered, Places, RowPlace, Store!StateTypeOK
<1> QED BY <1>2, <1>3, <1>4, <1>5, <1>6, <1>7, <1>8, <1>9, <1>10, <1>11, OthersStay
    DEF Types, Places, BrokerKept

\* Reading the stored checkpoint keeps types and places.
LEMMA RestoreKeepsPlaces ==
  ASSUME NEW c \in Calls, Types, Places, BrokerIsTimely, Restore(c)
  PROVE  Types' /\ Places' /\ BrokerKept /\ \A d \in Calls \ {c} : Same(d)
<1>1. Place(c) /\ (c \in ResumeCalls => ResumePlace(c)) /\ Execution(c) \in Executions
  BY RuntimeAssumption DEF Places, Execution
<1>2. pc' \in [Calls -> PcStates]
  BY <1>1
  DEF Restore, Row, StateKey, Goto, Answer, HasCheckpoint, HasRow, Execution, brokerVars,
      tableVars, localVars, Types, CallTypes, PcStates
<1>3. held' \in [Calls -> Pending \union {None}]
  <2>1. HasRow(c) => Row(c).data \in Pending \union {None}
    BY RowIsOwn DEF Store!State
  <2> QED BY <2>1 DEF Restore, HasCheckpoint, Types, CallTypes
<1>4. CallTypes'
  BY <1>2, <1>3
  DEF Restore, Row, StateKey, Goto, Answer, HasCheckpoint, HasRow, Execution, brokerVars,
      tableVars, localVars, Types, CallTypes
<1>5. \A d \in Calls \ {c} : Same(d)
  BY DEF Restore, Row, StateKey, Goto, Answer, HasCheckpoint, HasRow, Execution, brokerVars,
     tableVars, localVars, Types, CallTypes, Same
<1>6. Place(c)'
  BY <1>1, RuntimeAssumption, NoneAssumption
  DEF Restore, Row, StateKey, Goto, Answer, HasCheckpoint, HasRow, Execution, brokerVars,
      tableVars, localVars, Types, CallTypes, Place, Storing, Running, Consuming, Closing,
      Ended, Approving, ResumePlace, ExecutePlaces, ResumePlaces, Calls
<1>7. c \in ResumeCalls => ResumePlace(c)'
  BY <1>1, RuntimeAssumption, NoneAssumption
  DEF Restore, Row, StateKey, Goto, Answer, HasCheckpoint, HasRow, Execution, brokerVars,
      tableVars, localVars, Types, CallTypes, Place, Storing, Running, Consuming, Closing,
      Ended, Approving, ResumePlace, ExecutePlaces, Calls
<1>8. BrokerKept
  BY NothingKeeps
  DEF Restore, Row, StateKey, Goto, Answer, HasCheckpoint, HasRow, Execution, brokerVars,
      tableVars, localVars, Types, Broker!BrokerTypeOK
<1>9. HistoryTypes'
  BY <1>1, RuntimeAssumption
  DEF Restore, Row, StateKey, Goto, Answer, HasCheckpoint, HasRow, Execution, brokerVars,
      tableVars, localVars, Types, HistoryTypes, CallTypes, Place, ResumePlace, Storing,
      Running, Consuming, Closing, Pending
<1>10. TableTypes' /\ Registered' /\ Store!StateTypeOK' /\ \A k \in StateKeys : RowPlace(k)'
  BY DEF Restore, Row, StateKey, Goto, Answer, HasCheckpoint, HasRow, Execution, brokerVars,
     tableVars, localVars, Types, TableTypes, HistoryTypes, Registered, Places, RowPlace,
     Store!StateTypeOK
<1> QED BY <1>2, <1>3, <1>4, <1>5, <1>6, <1>7, <1>8, <1>9, <1>10, OthersStay
    DEF Types, Places, BrokerKept

\* Adopting the stored checkpoint keeps types and places.
LEMMA AdoptKeepsPlaces ==
  ASSUME NEW c \in Calls, Types, Places, BrokerIsTimely, Adopt(c)
  PROVE  Types' /\ Places' /\ BrokerKept /\ \A d \in Calls \ {c} : Same(d)
<1>1. Place(c) /\ (c \in ResumeCalls => ResumePlace(c)) /\ Execution(c) \in Executions
  BY RuntimeAssumption DEF Places, Execution
<1>2. pc' \in [Calls -> PcStates]
  BY <1>1
  DEF Adopt, Execution, Goto, brokerVars, tableVars, localVars, Types, CallTypes, PcStates
<1>3. held' \in [Calls -> Pending \union {None}]
  BY <1>1
  DEF Adopt, Execution, Goto, brokerVars, tableVars, localVars, Types, CallTypes, TableTypes
<1>4. CallTypes'
  BY <1>2, <1>3 DEF Adopt, Execution, Goto, brokerVars, tableVars, localVars, Types, CallTypes
<1>5. \A d \in Calls \ {c} : Same(d)
  BY DEF Adopt, Execution, Goto, brokerVars, tableVars, localVars, Types, CallTypes, Same
<1>6. Place(c)'
  BY <1>1, RuntimeAssumption, NoneAssumption
  DEF Adopt, Execution, Goto, brokerVars, tableVars, localVars, Types, CallTypes, Place,
      Storing, Running, Consuming, Closing, Ended, Approving, ResumePlace, ExecutePlaces,
      ResumePlaces, Calls
<1>7. c \in ResumeCalls => ResumePlace(c)'
  BY <1>1, RuntimeAssumption, NoneAssumption
  DEF Adopt, Execution, Goto, brokerVars, tableVars, localVars, Types, CallTypes, Place,
      Storing, Running, Consuming, Closing, Ended, Approving, ResumePlace, ExecutePlaces, Calls
<1>8. BrokerKept
  BY NothingKeeps
  DEF Adopt, Execution, Goto, brokerVars, tableVars, localVars, Types, Broker!BrokerTypeOK
<1>9. TableTypes'
  BY <1>1, RuntimeAssumption
  DEF Adopt, Execution, Goto, brokerVars, tableVars, localVars, Types, TableTypes, CallTypes
<1>10. HistoryTypes' /\ Registered' /\ Store!StateTypeOK' /\ \A k \in StateKeys : RowPlace(k)'
  BY DEF Adopt, Execution, Goto, brokerVars, tableVars, localVars, Types, TableTypes,
     HistoryTypes, Registered, Places, RowPlace, Store!StateTypeOK
<1> QED BY <1>2, <1>3, <1>4, <1>5, <1>6, <1>7, <1>8, <1>9, <1>10, OthersStay
    DEF Types, Places, BrokerKept

\* An answer that the request still waits keeps types and places.
LEMMA StillWaitingKeepsPlaces ==
  ASSUME NEW c \in Calls, Types, Places, BrokerIsTimely, StillWaiting(c)
  PROVE  Types' /\ Places' /\ BrokerKept /\ \A d \in Calls \ {c} : Same(d)
<1>1. Place(c) /\ (c \in ResumeCalls => ResumePlace(c)) /\ Execution(c) \in Executions
  BY RuntimeAssumption DEF Places, Execution
<1>2. held[c] \in Pending /\ held[c] # None /\ HeldRequest(c) \in Requests
  BY HeldIsRequest, NoneAssumption DEF Consuming, StillWaiting
<1>3. pc' \in [Calls -> PcStates]
  BY <1>1, <1>2
  DEF StillWaiting, Answer, Goto, HeldRequest, brokerVars, tableVars, localVars, Types,
      CallTypes, PcStates
<1>4. CallTypes'
  BY <1>3
  DEF StillWaiting, Answer, Goto, HeldRequest, brokerVars, tableVars, localVars, Types,
      CallTypes
<1>5. \A d \in Calls \ {c} : Same(d)
  BY DEF StillWaiting, Answer, Goto, HeldRequest, brokerVars, tableVars, localVars, Types,
     CallTypes, Same
<1>6. Place(c)'
  BY <1>1, <1>2, RuntimeAssumption, NoneAssumption
  DEF StillWaiting, Answer, Goto, HeldRequest, brokerVars, tableVars, localVars, Types,
      CallTypes, Place, Storing, Running, Consuming, Closing, Ended, Approving, ResumePlace,
      ExecutePlaces, ResumePlaces, Calls
<1>7. c \in ResumeCalls => ResumePlace(c)'
  BY <1>1, <1>2, RuntimeAssumption, NoneAssumption
  DEF StillWaiting, Answer, Goto, HeldRequest, brokerVars, tableVars, localVars, Types,
      CallTypes, Place, Storing, Running, Consuming, Closing, Ended, Approving, ResumePlace,
      ExecutePlaces, Calls
<1>8. BrokerKept
  BY NothingKeeps
  DEF StillWaiting, Answer, Goto, HeldRequest, brokerVars, tableVars, localVars, Types,
      Broker!BrokerTypeOK
<1>9. HistoryTypes'
  BY <1>1, <1>2 DEF StillWaiting, Answer, Types, HistoryTypes, Pending
<1>10. TableTypes' /\ Registered' /\ Store!StateTypeOK' /\ \A k \in StateKeys : RowPlace(k)'
  BY DEF StillWaiting, Answer, Goto, HeldRequest, brokerVars, tableVars, localVars, Types,
     TableTypes, HistoryTypes, Registered, Places, RowPlace, Store!StateTypeOK
<1> QED BY <1>2, <1>3, <1>4, <1>5, <1>6, <1>7, <1>8, <1>9, <1>10, OthersStay
    DEF Types, Places, BrokerKept

\* Taking the broker's decision keeps types and places.
LEMMA DecideFromBrokerKeepsPlaces ==
  ASSUME NEW c \in Calls, Types, Places, BrokerIsTimely, DecideFromBroker(c)
  PROVE  Types' /\ Places' /\ BrokerKept /\ \A d \in Calls \ {c} : Same(d)
<1>1. Place(c) /\ (c \in ResumeCalls => ResumePlace(c)) /\ Execution(c) \in Executions
  BY RuntimeAssumption DEF Places, Execution
<1>2. held[c] \in Pending /\ held[c] # None /\ HeldRequest(c) \in Requests
  BY HeldIsRequest, NoneAssumption DEF Consuming, DecideFromBroker
<1>3. /\ \/ pc' = [pc EXCEPT ![c] = "take"] /\ outcome' = outcome
         \/ /\ pc' = [pc EXCEPT ![c] = "close"]
            /\ \E o \in Outcomes : outcome' = [outcome EXCEPT ![c] = o]
      /\ pc[c] = "decide"
      /\ UNCHANGED <<at, approved, pausing, copy, held, merged, called>>
  BY DEF DecideFromBroker, Act, Goto, ClosedAs, Outcomes
<1>4. pc' \in [Calls -> PcStates]
  BY <1>1, <1>2, <1>3 DEF Types, CallTypes, PcStates
<1>5. outcome' \in [Calls -> Outcomes \union {None}]
  BY <1>1, <1>2, <1>3 DEF Types, CallTypes
<1>6. CallTypes'
  BY <1>4, <1>5
  DEF DecideFromBroker, HeldRequest, Validated, Act, Goto, ClosedAs, brokerVars, tableVars,
      localVars, Types, CallTypes
<1>7. \A d \in Calls \ {c} : Same(d)
  BY <1>1, <1>2, <1>3 DEF Types, CallTypes, Same
<1>8. Place(c)'
  BY <1>1, <1>2, <1>3, NoneAssumption
  DEF Types, CallTypes, Place, Storing, Running, Consuming, Closing, Ended, Approving,
      ResumePlace, ExecutePlaces, ResumePlaces, Calls
<1>9. c \in ResumeCalls => ResumePlace(c)'
  BY <1>1, <1>2, <1>3
  DEF DecideFromBroker, Broker!GetDecision, Broker!BrokerTypeOK, Types, CallTypes, Place,
      Storing, Running, Consuming, Closing, Ended, Approving, ResumePlace, ExecutePlaces,
      ResumePlaces, Calls
<1>10. BrokerKept
  <2>1. Broker!GetDecision(HeldRequest(c))
    BY DEF DecideFromBroker
  <2> QED BY <1>1, <1>2, <1>3, <2>1, LookKeeps DEF Broker!GetDecision, Types, Broker!BrokerTypeOK
<1>11. /\ TableTypes' /\ HistoryTypes' /\ Registered' /\ Store!StateTypeOK'
       /\ \A k \in StateKeys : RowPlace(k)'
  BY DEF DecideFromBroker, HeldRequest, Validated, Act, Goto, ClosedAs, brokerVars, tableVars,
     localVars, Types, TableTypes, HistoryTypes, Registered, Places, RowPlace, Store!StateTypeOK
<1> QED BY <1>2, <1>3, <1>4, <1>5, <1>6, <1>7, <1>8, <1>9, <1>10, <1>11, OthersStay
    DEF Types, Places, BrokerKept

\* Taking the caller's evidence keeps types and places.
LEMMA DecideFromCallerKeepsPlaces ==
  ASSUME NEW c \in Calls, Types, Places, BrokerIsTimely, DecideFromCaller(c)
  PROVE  Types' /\ Places' /\ BrokerKept /\ \A d \in Calls \ {c} : Same(d)
<1>1. Place(c) /\ (c \in ResumeCalls => ResumePlace(c)) /\ Execution(c) \in Executions
  BY RuntimeAssumption DEF Places, Execution
<1>2. held[c] \in Pending /\ held[c] # None /\ HeldRequest(c) \in Requests
  BY HeldIsRequest, NoneAssumption DEF Consuming, DecideFromCaller
<1>3. /\ \/ pc' = [pc EXCEPT ![c] = "take"] /\ outcome' = outcome
         \/ /\ pc' = [pc EXCEPT ![c] = "close"]
            /\ \E o \in Outcomes : outcome' = [outcome EXCEPT ![c] = o]
      /\ pc[c] = "decide"
      /\ UNCHANGED <<at, approved, pausing, copy, held, merged, called>>
  BY DEF DecideFromCaller, Act, Goto, ClosedAs, Outcomes
<1>4. pc' \in [Calls -> PcStates]
  BY <1>1, <1>2, <1>3 DEF Types, CallTypes, PcStates
<1>5. outcome' \in [Calls -> Outcomes \union {None}]
  BY <1>1, <1>2, <1>3 DEF Types, CallTypes
<1>6. CallTypes'
  BY <1>4, <1>5
  DEF DecideFromCaller, Validated, HeldRequest, Act, Goto, ClosedAs, brokerVars, tableVars,
      localVars, Types, CallTypes
<1>7. \A d \in Calls \ {c} : Same(d)
  BY <1>1, <1>2, <1>3 DEF Types, CallTypes, Same
<1>8. Place(c)'
  BY <1>1, <1>2, <1>3, NoneAssumption
  DEF Types, CallTypes, Place, Storing, Running, Consuming, Closing, Ended, Approving,
      ResumePlace, ExecutePlaces, ResumePlaces, Calls
<1>9. c \in ResumeCalls => ResumePlace(c)'
  BY <1>1, <1>2, <1>3
  DEF DecideFromCaller, brokerVars, Broker!BrokerTypeOK, Types, CallTypes, Place, Storing,
      Running, Consuming, Closing, Ended, Approving, ResumePlace, ExecutePlaces, ResumePlaces,
      Calls
<1>10. BrokerKept
  BY NothingKeeps
  DEF DecideFromCaller, Validated, HeldRequest, Act, Goto, ClosedAs, brokerVars, tableVars,
      localVars, Types, Broker!BrokerTypeOK
<1>11. /\ TableTypes' /\ HistoryTypes' /\ Registered' /\ Store!StateTypeOK'
       /\ \A k \in StateKeys : RowPlace(k)'
  BY DEF DecideFromCaller, Validated, HeldRequest, Act, Goto, ClosedAs, brokerVars, tableVars,
     localVars, Types, TableTypes, HistoryTypes, Registered, Places, RowPlace, Store!StateTypeOK
<1> QED BY <1>2, <1>3, <1>4, <1>5, <1>6, <1>7, <1>8, <1>9, <1>10, <1>11, OthersStay
    DEF Types, Places, BrokerKept

\* Taking out an approved request keeps types and places.
LEMMA TakeKeepsPlaces ==
  ASSUME NEW c \in Calls, Types, Places, BrokerIsTimely, CallsAreCleared, Take(c)
  PROVE  Types' /\ Places' /\ BrokerKept /\ \A d \in Calls \ {c} : Same(d)
<1>1. Place(c) /\ (c \in ResumeCalls => ResumePlace(c)) /\ Execution(c) \in Executions
  BY RuntimeAssumption DEF Places, Execution
<1>2. held[c] \in Pending /\ held[c] # None /\ HeldRequest(c) \in Requests
  BY HeldIsRequest, NoneAssumption DEF Consuming, Take
<1>3. requests[HeldRequest(c)].action \in Actions
  BY <1>2, ResumeOnly, <1>1
  DEF Take, CallsAreCleared, Cleared, Types, Broker!BrokerTypeOK, Broker!Request
<1>4. pc' \in [Calls -> PcStates]
  BY <1>1, <1>2, <1>3
  DEF Take, Execution, Goto, HeldRequest, brokerVars, tableVars, localVars, Types, CallTypes,
      PcStates
<1>5. at' \in [Calls -> Nat \ {0}]
  BY <1>1, <1>2, <1>3 DEF Take, Types, CallTypes, Pending
<1>6. approved' \in [Calls -> SUBSET Actions]
  BY <1>1, <1>2, <1>3 DEF Take, Types, CallTypes, Pending
<1>7. CallTypes'
  BY <1>4, <1>5, <1>6
  DEF Take, Execution, Goto, HeldRequest, brokerVars, tableVars, localVars, Types, CallTypes
<1>8. \A d \in Calls \ {c} : Same(d)
  BY DEF Take, Execution, Goto, HeldRequest, brokerVars, tableVars, localVars, Types, CallTypes,
     Same
<1>9. Place(c)'
  BY <1>1, <1>2, <1>3, RuntimeAssumption, NoneAssumption
  DEF Take, Execution, Goto, HeldRequest, brokerVars, tableVars, localVars, Types, CallTypes,
      Place, Storing, Running, Consuming, Closing, Ended, Approving, ResumePlace, ExecutePlaces,
      ResumePlaces, Calls
<1>10. c \in ResumeCalls => ResumePlace(c)'
  BY <1>1, <1>2, <1>3, RuntimeAssumption, NoneAssumption
  DEF Take, Execution, Goto, HeldRequest, brokerVars, tableVars, localVars, Types, CallTypes,
      Place, Storing, Running, Consuming, Closing, Ended, Approving, ResumePlace, ExecutePlaces,
      Calls
<1>11. BrokerKept
  BY NothingKeeps
  DEF Take, Execution, Goto, HeldRequest, brokerVars, tableVars, localVars, Types,
      Broker!BrokerTypeOK
<1>12. TableTypes'
  BY <1>1, <1>2, <1>3, RuntimeAssumption
  DEF Take, Execution, Goto, HeldRequest, brokerVars, tableVars, localVars, Types, TableTypes,
      CallTypes
<1>13. HistoryTypes' /\ Registered' /\ Store!StateTypeOK' /\ \A k \in StateKeys : RowPlace(k)'
  BY DEF Take, Execution, Goto, HeldRequest, brokerVars, tableVars, localVars, Types,
     TableTypes, HistoryTypes, Registered, Places, RowPlace, Store!StateTypeOK
<1> QED BY <1>2, <1>3, <1>4, <1>5, <1>6, <1>7, <1>8, <1>9, <1>10, <1>11, <1>12, <1>13,
       OthersStay
    DEF Types, Places, BrokerKept

\* Marking the request as used keeps types and places.
LEMMA ConsumeKeepsPlaces ==
  ASSUME NEW c \in Calls, Types, Places, BrokerIsTimely, Consume(c)
  PROVE  Types' /\ Places' /\ BrokerKept /\ \A d \in Calls \ {c} : Same(d)
<1>1. Place(c) /\ (c \in ResumeCalls => ResumePlace(c)) /\ Execution(c) \in Executions
  BY RuntimeAssumption DEF Places, Execution
<1>2. held[c] \in Pending /\ held[c] # None /\ HeldRequest(c) \in Requests
  BY HeldIsRequest, NoneAssumption DEF Consuming, Consume
<1>3. pc' \in [Calls -> PcStates]
  BY <1>1, <1>2
  DEF Consume, Goto, Answer, HeldRequest, brokerVars, tableVars, localVars, Types, CallTypes,
      PcStates
<1>4. CallTypes'
  BY <1>3
  DEF Consume, Goto, Answer, HeldRequest, brokerVars, tableVars, localVars, Types, CallTypes
<1>5. \A d \in Calls \ {c} : Same(d)
  BY DEF Consume, Goto, Answer, HeldRequest, brokerVars, tableVars, localVars, Types, CallTypes,
     Same
<1>6. Place(c)'
  BY <1>1, <1>2, RuntimeAssumption, NoneAssumption
  DEF Consume, Goto, Answer, HeldRequest, brokerVars, tableVars, localVars, Types, CallTypes,
      Place, Storing, Running, Consuming, Closing, Ended, Approving, ResumePlace, ExecutePlaces,
      ResumePlaces, Calls
<1>7. c \in ResumeCalls => ResumePlace(c)'
  BY <1>1, <1>2, RuntimeAssumption, NoneAssumption
  DEF Consume, Goto, Answer, HeldRequest, brokerVars, tableVars, localVars, Types, CallTypes,
      Place, Storing, Running, Consuming, Closing, Ended, Approving, ResumePlace, ExecutePlaces,
      Calls
<1>8. BrokerKept
  BY NothingKeeps
  DEF Consume, Goto, Answer, HeldRequest, brokerVars, tableVars, localVars, Types,
      Broker!BrokerTypeOK
<1>9. TableTypes'
  BY <1>1, <1>2 DEF Consume, tableVars, Types, TableTypes
<1>10. HistoryTypes'
  BY <1>1, <1>2, RuntimeAssumption
  DEF Consume, Goto, Answer, HeldRequest, brokerVars, tableVars, localVars, Types, HistoryTypes,
      CallTypes, Place, ResumePlace, Storing, Running, Consuming, Closing, Pending
<1>11. Registered' /\ Store!StateTypeOK' /\ \A k \in StateKeys : RowPlace(k)'
  BY DEF Consume, Goto, Answer, HeldRequest, brokerVars, tableVars, localVars, Types,
     TableTypes, HistoryTypes, Registered, Places, RowPlace, Store!StateTypeOK
<1> QED BY <1>2, <1>3, <1>4, <1>5, <1>6, <1>7, <1>8, <1>9, <1>10, <1>11, OthersStay
    DEF Types, Places, BrokerKept

\* Consuming at the broker keeps types and places.
LEMMA ConsumeInBrokerKeepsPlaces ==
  ASSUME NEW c \in Calls, Types, Places, BrokerIsTimely, ConsumeInBroker(c)
  PROVE  Types' /\ Places' /\ BrokerKept /\ \A d \in Calls \ {c} : Same(d)
<1>1. Place(c) /\ (c \in ResumeCalls => ResumePlace(c)) /\ Execution(c) \in Executions
  BY RuntimeAssumption DEF Places, Execution
<1>2. held[c] \in Pending /\ held[c] # None /\ HeldRequest(c) \in Requests
  BY HeldIsRequest, NoneAssumption DEF Consuming, ConsumeInBroker
<1>3. /\ pc[c] = "consume_broker"
      /\ pc' = [pc EXCEPT ![c] = "merge"] \/ pc' = [pc EXCEPT ![c] = "done"]
      /\ UNCHANGED <<localVars, now>>
  BY DEF ConsumeInBroker, Goto, Answer, Broker!Consume, Broker!ConsumeRaises
<1>4. pc' \in [Calls -> PcStates]
  BY <1>1, <1>2, <1>3
  DEF ConsumeInBroker, Goto, Answer, HeldRequest, brokerVars, tableVars, localVars, Types,
      CallTypes, PcStates
<1>5. CallTypes'
  BY <1>4
  DEF ConsumeInBroker, Goto, Answer, HeldRequest, brokerVars, tableVars, localVars, Types,
      CallTypes
<1>6. \A d \in Calls \ {c} : Same(d)
  BY DEF ConsumeInBroker, Goto, Answer, HeldRequest, brokerVars, tableVars, localVars, Types,
     CallTypes, Same
<1>7. Place(c)'
  BY <1>1, <1>2, <1>3, RuntimeAssumption, NoneAssumption
  DEF ConsumeInBroker, Goto, Answer, HeldRequest, brokerVars, tableVars, localVars, Types,
      CallTypes, Place, Storing, Running, Consuming, Closing, Ended, Approving, ResumePlace,
      ExecutePlaces, ResumePlaces, Calls
<1>8. c \in ResumeCalls => ResumePlace(c)'
  BY <1>1, <1>2, <1>3
  DEF localVars, Broker!BrokerTypeOK, Types, CallTypes, Place, Storing, Running, Consuming,
      Closing, Ended, Approving, ResumePlace, ExecutePlaces, ResumePlaces, Calls
<1>9. BrokerKept
  BY <1>1, <1>2, <1>3, ConsumeKeepsBroker DEF ConsumeInBroker
<1>10. HistoryTypes'
  BY <1>1, <1>2, <1>3, RuntimeAssumption
  DEF ConsumeInBroker, Goto, Answer, HeldRequest, brokerVars, tableVars, localVars, Types,
      HistoryTypes, CallTypes, Place, ResumePlace, Storing, Running, Consuming, Closing, Pending
<1>11. TableTypes' /\ Registered' /\ Store!StateTypeOK' /\ \A k \in StateKeys : RowPlace(k)'
  BY DEF ConsumeInBroker, Goto, Answer, HeldRequest, brokerVars, tableVars, localVars, Types,
     TableTypes, HistoryTypes, Registered, Places, RowPlace, Store!StateTypeOK
<1> QED BY <1>2, <1>3, <1>4, <1>5, <1>6, <1>7, <1>8, <1>9, <1>10, <1>11, OthersStay
    DEF Types, Places, BrokerKept

\* Merging the traces keeps types and places.
LEMMA MergeKeepsPlaces ==
  ASSUME NEW c \in Calls, Types, Places, BrokerIsTimely, Merge(c)
  PROVE  Types' /\ Places' /\ BrokerKept /\ \A d \in Calls \ {c} : Same(d)
<1>1. Place(c) /\ (c \in ResumeCalls => ResumePlace(c)) /\ Execution(c) \in Executions
  BY RuntimeAssumption DEF Places, Execution
<1>2. pc' \in [Calls -> PcStates]
  BY <1>1
  DEF Merge, Execution, Goto, Answer, brokerVars, tableVars, localVars, Types, CallTypes,
      PcStates
<1>3. merged' \in [Calls -> Pending \union {None}]
  BY <1>1
  DEF Merge, Execution, Goto, Answer, brokerVars, tableVars, localVars, Types, CallTypes,
      TableTypes
<1>4. CallTypes'
  BY <1>2, <1>3
  DEF Merge, Execution, Goto, Answer, brokerVars, tableVars, localVars, Types, CallTypes
<1>5. \A d \in Calls \ {c} : Same(d)
  BY DEF Merge, Execution, Goto, Answer, brokerVars, tableVars, localVars, Types, CallTypes,
     Same
<1>6. Place(c)'
  BY <1>1, RuntimeAssumption, NoneAssumption
  DEF Merge, Execution, Goto, Answer, brokerVars, tableVars, localVars, Types, CallTypes, Place,
      Storing, Running, Consuming, Closing, Ended, Approving, ResumePlace, ExecutePlaces,
      ResumePlaces, Calls
<1>7. c \in ResumeCalls => ResumePlace(c)'
  BY <1>1, RuntimeAssumption, NoneAssumption
  DEF Merge, Execution, Goto, Answer, brokerVars, tableVars, localVars, Types, CallTypes, Place,
      Storing, Running, Consuming, Closing, Ended, Approving, ResumePlace, ExecutePlaces, Calls
<1>8. BrokerKept
  BY NothingKeeps
  DEF Merge, Execution, Goto, Answer, brokerVars, tableVars, localVars, Types,
      Broker!BrokerTypeOK
<1>9. HistoryTypes'
  BY <1>1, RuntimeAssumption
  DEF Merge, Execution, Goto, Answer, brokerVars, tableVars, localVars, Types, HistoryTypes,
      CallTypes, Place, ResumePlace, Storing, Running, Consuming, Closing, Pending
<1>10. TableTypes' /\ Registered' /\ Store!StateTypeOK' /\ \A k \in StateKeys : RowPlace(k)'
  BY DEF Merge, Execution, Goto, Answer, brokerVars, tableVars, localVars, Types, TableTypes,
     HistoryTypes, Registered, Places, RowPlace, Store!StateTypeOK
<1> QED BY <1>2, <1>3, <1>4, <1>5, <1>6, <1>7, <1>8, <1>9, <1>10, OthersStay
    DEF Types, Places, BrokerKept

\* Finding the row to rewrite keeps types and places.
LEMMA RecheckKeepsPlaces ==
  ASSUME NEW c \in Calls, Types, Places, BrokerIsTimely, Recheck(c)
  PROVE  Types' /\ Places' /\ BrokerKept /\ \A d \in Calls \ {c} : Same(d)
<1>1. Place(c) /\ (c \in ResumeCalls => ResumePlace(c)) /\ Execution(c) \in Executions
  BY RuntimeAssumption DEF Places, Execution
<1>2. Row(c) \in Store!State /\ Row(c).execution_id = Execution(c)
  BY RowIsOwn DEF Recheck, FindRow, Resumable
<1>3. pc' \in [Calls -> PcStates]
  BY <1>1, <1>2
  DEF Recheck, FindRow, Row, StateKey, Goto, Resumable, HasRow, Execution, brokerVars,
      tableVars, localVars, Types, CallTypes, PcStates
<1>4. copy' \in [Calls -> Store!State \union {None}]
  BY <1>1, <1>2 DEF Recheck, FindRow, Types, CallTypes
<1>5. CallTypes'
  BY <1>3, <1>4
  DEF Recheck, FindRow, Row, StateKey, Goto, Resumable, HasRow, Execution, brokerVars,
      tableVars, localVars, Types, CallTypes
<1>6. \A d \in Calls \ {c} : Same(d)
  BY DEF Recheck, FindRow, Row, StateKey, Goto, Resumable, HasRow, Execution, brokerVars,
     tableVars, localVars, Types, CallTypes, Same
<1>7. Place(c)'
  BY <1>1, <1>2, NoneAssumption
  DEF Recheck, FindRow, Goto, localVars, Types, CallTypes, Place, Storing, Running, Consuming,
      Closing, Ended, Approving, ResumePlace, ExecutePlaces, ResumePlaces, Calls
<1>8. c \in ResumeCalls => ResumePlace(c)'
  BY <1>1, <1>2, RuntimeAssumption, NoneAssumption
  DEF Recheck, FindRow, Row, StateKey, Goto, Resumable, HasRow, Execution, brokerVars,
      tableVars, localVars, Types, CallTypes, Place, Storing, Running, Consuming, Closing,
      Ended, Approving, ResumePlace, ExecutePlaces, Calls
<1>9. BrokerKept
  BY NothingKeeps
  DEF Recheck, FindRow, Row, StateKey, Goto, Resumable, HasRow, Execution, brokerVars,
      tableVars, localVars, Types, Broker!BrokerTypeOK
<1>10. Registered'
  BY <1>1, <1>2, NoneAssumption
  DEF Recheck, FindRow, tableVars, Types, TableTypes, CallTypes, Registered, Places
<1>11. TableTypes' /\ HistoryTypes' /\ Store!StateTypeOK' /\ \A k \in StateKeys : RowPlace(k)'
  BY DEF Recheck, FindRow, Row, StateKey, Goto, Resumable, HasRow, Execution, brokerVars,
     tableVars, localVars, Types, TableTypes, HistoryTypes, Registered, Places, RowPlace,
     Store!StateTypeOK
<1> QED BY <1>2, <1>3, <1>4, <1>5, <1>6, <1>7, <1>8, <1>9, <1>10, <1>11, OthersStay
    DEF Types, Places, BrokerKept

\* Rewriting the checkpoint keeps types and places.
LEMMA RepersistKeepsPlaces ==
  ASSUME NEW c \in Calls, Types, Places, BrokerIsTimely, Repersist(c)
  PROVE  Types' /\ Places' /\ BrokerKept /\ \A d \in Calls \ {c} : Same(d)
<1>1. Place(c) /\ (c \in ResumeCalls => ResumePlace(c)) /\ Execution(c) \in Executions
  BY RuntimeAssumption DEF Places, Execution
<1>2. copy[c] # None /\ copy[c].execution_id = Execution(c) /\ merged[c] \in Pending
  BY <1>1 DEF Place, Repersist, Types, CallTypes
<1>3. pc' \in [Calls -> PcStates]
  BY <1>1, <1>2
  DEF Repersist, Answer, Goto, SaveCheckpoint, StateKey, brokerVars, tableVars, localVars,
      Types, CallTypes, PcStates
<1>4. CallTypes'
  BY <1>3
  DEF Repersist, Answer, Goto, SaveCheckpoint, StateKey, brokerVars, tableVars, localVars,
      Types, CallTypes
<1>5. \A d \in Calls \ {c} : Same(d)
  BY DEF Repersist, Answer, Goto, SaveCheckpoint, StateKey, brokerVars, tableVars, localVars,
     Types, CallTypes, Same
<1>6. Place(c)'
  BY <1>1, <1>2, RuntimeAssumption, NoneAssumption
  DEF Repersist, Answer, Goto, SaveCheckpoint, StateKey, brokerVars, tableVars, localVars,
      Types, CallTypes, Place, Storing, Running, Consuming, Closing, Ended, Approving,
      ResumePlace, ExecutePlaces, ResumePlaces, Calls
<1>7. c \in ResumeCalls => ResumePlace(c)'
  BY <1>1, <1>2, RuntimeAssumption, NoneAssumption
  DEF Repersist, Answer, Goto, SaveCheckpoint, StateKey, brokerVars, tableVars, localVars,
      Types, CallTypes, Place, Storing, Running, Consuming, Closing, Ended, Approving,
      ResumePlace, ExecutePlaces, Calls
<1>8. BrokerKept
  BY NothingKeeps
  DEF Repersist, Answer, Goto, SaveCheckpoint, StateKey, brokerVars, tableVars, localVars,
      Types, Broker!BrokerTypeOK
<1>9. HistoryTypes'
  BY <1>1, <1>2, RuntimeAssumption
  DEF Repersist, Answer, Goto, SaveCheckpoint, StateKey, brokerVars, tableVars, localVars,
      Types, HistoryTypes, CallTypes, Place, ResumePlace, Storing, Running, Consuming, Closing,
      Pending
<1>10. Store!StateTypeOK' /\ \A k \in StateKeys : RowPlace(k)'
  <2>1. Store!Save(StateKey(c), [copy[c] EXCEPT !.status = "paused",
                                                !.version = copy[c].version + 1,
                                                !.data = merged[c]], copy[c].version)
    BY DEF Repersist, SaveCheckpoint
  <2> QED BY <1>1, <1>2, <2>1, CheckpointIsState, SaveKeepsRows
<1>11. TableTypes' /\ Registered'
  BY DEF Repersist, Answer, Goto, SaveCheckpoint, StateKey, brokerVars, tableVars, localVars,
     Types, TableTypes, HistoryTypes, Registered, Places, RowPlace, Store!StateTypeOK
<1> QED BY <1>2, <1>3, <1>4, <1>5, <1>6, <1>7, <1>8, <1>9, <1>10, <1>11, OthersStay
    DEF Types, Places, BrokerKept

\* A rewrite that is refused keeps types and places.
LEMMA RepersistRaisesKeepsPlaces ==
  ASSUME NEW c \in Calls, Types, Places, BrokerIsTimely, RepersistRaises(c)
  PROVE  Types' /\ Places' /\ BrokerKept /\ \A d \in Calls \ {c} : Same(d)
<1>1. Place(c) /\ (c \in ResumeCalls => ResumePlace(c)) /\ Execution(c) \in Executions
  BY RuntimeAssumption DEF Places, Execution
<1>2. pc' \in [Calls -> PcStates]
  BY <1>1
  DEF RepersistRaises, Answer, Goto, CheckpointRefused, StateKey, Resumable, Row, HasRow,
      Execution, brokerVars, tableVars, localVars, Types, CallTypes, PcStates
<1>3. CallTypes'
  BY <1>2
  DEF RepersistRaises, Answer, Goto, CheckpointRefused, StateKey, Resumable, Row, HasRow,
      Execution, brokerVars, tableVars, localVars, Types, CallTypes
<1>4. \A d \in Calls \ {c} : Same(d)
  BY DEF RepersistRaises, Answer, Goto, CheckpointRefused, StateKey, Resumable, Row, HasRow,
     Execution, brokerVars, tableVars, localVars, Types, CallTypes, Same
<1>5. Place(c)'
  BY <1>1, RuntimeAssumption, NoneAssumption
  DEF RepersistRaises, Answer, Goto, CheckpointRefused, StateKey, Resumable, Row, HasRow,
      Execution, brokerVars, tableVars, localVars, Types, CallTypes, Place, Storing, Running,
      Consuming, Closing, Ended, Approving, ResumePlace, ExecutePlaces, ResumePlaces, Calls
<1>6. c \in ResumeCalls => ResumePlace(c)'
  BY <1>1, RuntimeAssumption, NoneAssumption
  DEF RepersistRaises, Answer, Goto, CheckpointRefused, StateKey, Resumable, Row, HasRow,
      Execution, brokerVars, tableVars, localVars, Types, CallTypes, Place, Storing, Running,
      Consuming, Closing, Ended, Approving, ResumePlace, ExecutePlaces, Calls
<1>7. BrokerKept
  BY NothingKeeps
  DEF RepersistRaises, Answer, Goto, CheckpointRefused, StateKey, Resumable, Row, HasRow,
      Execution, brokerVars, tableVars, localVars, Types, Broker!BrokerTypeOK
<1>8. HistoryTypes'
  BY <1>1, RuntimeAssumption
  DEF RepersistRaises, Answer, Goto, CheckpointRefused, StateKey, Resumable, Row, HasRow,
      Execution, brokerVars, tableVars, localVars, Types, HistoryTypes, CallTypes, Place,
      ResumePlace, Storing, Running, Consuming, Closing, Pending
<1>9. TableTypes' /\ Registered' /\ Store!StateTypeOK' /\ \A k \in StateKeys : RowPlace(k)'
  BY DEF RepersistRaises, Answer, Goto, CheckpointRefused, StateKey, Resumable, Row, HasRow,
     Execution, brokerVars, tableVars, localVars, Types, TableTypes, HistoryTypes, Registered,
     Places, RowPlace, Store!StateTypeOK
<1> QED BY <1>2, <1>3, <1>4, <1>5, <1>6, <1>7, <1>8, <1>9, OthersStay
    DEF Types, Places, BrokerKept

\* Opening the state to close keeps types and places.
LEMMA CloseKeepsPlaces ==
  ASSUME NEW c \in Calls, Types, Places, BrokerIsTimely, Close(c)
  PROVE  Types' /\ Places' /\ BrokerKept /\ \A d \in Calls \ {c} : Same(d)
<1>1. Place(c) /\ (c \in ResumeCalls => ResumePlace(c)) /\ Execution(c) \in Executions
  BY RuntimeAssumption DEF Places, Execution
<1>2. /\ pc' = [pc EXCEPT ![c] = "close_finish"]
      /\ copy' = [copy EXCEPT ![c] = Store!Opened(StateKey(c), Principal, "1")]
      /\ Store!Opened(StateKey(c), Principal, "1") \in Store!State
  BY OpenedIsState DEF OpenState, Goto, Close
<1>3. pc' \in [Calls -> PcStates]
  BY <1>1, <1>2
  DEF Close, OpenState, StateKey, Goto, brokerVars, tableVars, localVars, Types, CallTypes,
      PcStates
<1>4. copy' \in [Calls -> Store!State \union {None}]
  BY <1>1, <1>2 DEF Types, CallTypes
<1>5. CallTypes'
  BY <1>3, <1>4
  DEF Close, OpenState, StateKey, Goto, brokerVars, tableVars, localVars, Types, CallTypes
<1>6. \A d \in Calls \ {c} : Same(d)
  BY DEF Close, OpenState, StateKey, Goto, brokerVars, tableVars, localVars, Types, CallTypes,
     Same
<1>7. Place(c)'
  BY <1>1, <1>2, NoneAssumption
  DEF OpenState, Close, Types, CallTypes, Place, Storing, Running, Consuming, Closing, Ended,
      Approving, ResumePlace, ExecutePlaces, ResumePlaces, Calls
<1>8. c \in ResumeCalls => ResumePlace(c)'
  BY <1>1, <1>2, RuntimeAssumption, NoneAssumption
  DEF Close, OpenState, StateKey, Goto, brokerVars, tableVars, localVars, Types, CallTypes,
      Place, Storing, Running, Consuming, Closing, Ended, Approving, ResumePlace, ExecutePlaces,
      Calls
<1>9. BrokerKept
  BY NothingKeeps
  DEF Close, OpenState, StateKey, Goto, brokerVars, tableVars, localVars, Types,
      Broker!BrokerTypeOK
<1>10. Registered'
  BY <1>1, <1>2, NoneAssumption
  DEF OpenState, Close, tableVars, Types, TableTypes, CallTypes, Registered, Places
<1>11. Store!StateTypeOK' /\ \A k \in StateKeys : RowPlace(k)'
  BY OpenKeepsRows DEF OpenState, Close
<1>12. TableTypes' /\ HistoryTypes'
  BY DEF Close, OpenState, StateKey, Goto, brokerVars, tableVars, localVars, Types, TableTypes,
     HistoryTypes, Registered, Places, RowPlace, Store!StateTypeOK
<1> QED BY <1>2, <1>3, <1>4, <1>5, <1>6, <1>7, <1>8, <1>9, <1>10, <1>11, <1>12, OthersStay
    DEF Types, Places, BrokerKept

\* Saving a closed request keeps types and places.
LEMMA CloseFinishKeepsPlaces ==
  ASSUME NEW c \in Calls, Types, Places, BrokerIsTimely, CloseFinish(c)
  PROVE  Types' /\ Places' /\ BrokerKept /\ \A d \in Calls \ {c} : Same(d)
<1>1. Place(c) /\ (c \in ResumeCalls => ResumePlace(c)) /\ Execution(c) \in Executions
  BY RuntimeAssumption DEF Places, Execution
<1>2. copy[c] # None /\ outcome[c] # None
  BY <1>1 DEF Place, Storing, Running, Closing, CloseFinish
<1>3. /\ pc' = [pc EXCEPT ![c] = "close_pop"]
      /\ outcome' = outcome \/ outcome' = [outcome EXCEPT ![c] = "conflict"]
      /\ UNCHANGED <<at, approved, pausing, copy, held, merged, called>>
  BY DEF CloseFinish, SaveFinished, Goto
<1>4. pc' \in [Calls -> PcStates]
  BY <1>1, <1>2, <1>3
  DEF CloseFinish, Execution, Goto, SaveFinished, StateKey, FinishedState, StateStatusOf,
      brokerVars, tableVars, localVars, Types, CallTypes, PcStates
<1>5. outcome' \in [Calls -> Outcomes \union {None}]
  BY <1>1, <1>2, <1>3 DEF Types, CallTypes, Outcomes
<1>6. CallTypes'
  BY <1>4, <1>5
  DEF CloseFinish, Execution, Goto, SaveFinished, StateKey, FinishedState, StateStatusOf,
      brokerVars, tableVars, localVars, Types, CallTypes
<1>7. \A d \in Calls \ {c} : Same(d)
  BY DEF CloseFinish, Execution, Goto, SaveFinished, StateKey, FinishedState, StateStatusOf,
     brokerVars, tableVars, localVars, Types, CallTypes, Same
<1>8. Place(c)'
  BY <1>1, <1>2, <1>3, NoneAssumption
  DEF Outcomes, Types, CallTypes, Place, Storing, Running, Consuming, Closing, Ended, Approving,
      ResumePlace, ExecutePlaces, ResumePlaces, Calls, CloseFinish
<1>9. c \in ResumeCalls => ResumePlace(c)'
  BY <1>1, <1>2, <1>3, RuntimeAssumption, NoneAssumption
  DEF CloseFinish, Execution, Goto, SaveFinished, StateKey, FinishedState, StateStatusOf,
      brokerVars, tableVars, localVars, Types, CallTypes, Place, Storing, Running, Consuming,
      Closing, Ended, Approving, ResumePlace, ExecutePlaces, Calls
<1>10. BrokerKept
  BY NothingKeeps
  DEF CloseFinish, Execution, Goto, SaveFinished, StateKey, FinishedState, StateStatusOf,
      brokerVars, tableVars, localVars, Types, Broker!BrokerTypeOK
<1>11. TableTypes'
  BY <1>1, <1>2, <1>3, RuntimeAssumption
  DEF CloseFinish, Execution, Goto, SaveFinished, StateKey, FinishedState, StateStatusOf,
      brokerVars, tableVars, localVars, Types, TableTypes, CallTypes
<1>12. Store!StateTypeOK' /\ \A k \in StateKeys : RowPlace(k)'
  <2>1. CASE Store!Save(StateKey(c), FinishedState(c), copy[c].version)
    BY <1>1, <1>2, <1>3, <2>1, FinishedIsState, SaveKeepsRows
  <2>2. CASE UNCHANGED states
    BY <2>2 DEF Types, Store!StateTypeOK, Places, RowPlace
  <2> QED BY <2>1, <2>2 DEF CloseFinish, SaveFinished
<1>13. HistoryTypes' /\ Registered'
  BY DEF CloseFinish, Execution, Goto, SaveFinished, StateKey, FinishedState, StateStatusOf,
     brokerVars, tableVars, localVars, Types, TableTypes, HistoryTypes, Registered, Places,
     RowPlace, Store!StateTypeOK
<1> QED BY <1>2, <1>3, <1>4, <1>5, <1>6, <1>7, <1>8, <1>9, <1>10, <1>11, <1>12, <1>13,
       OthersStay
    DEF Types, Places, BrokerKept

\* Dropping a closed request keeps types and places.
LEMMA ClosePopKeepsPlaces ==
  ASSUME NEW c \in Calls, Types, Places, BrokerIsTimely, ClosePop(c)
  PROVE  Types' /\ Places' /\ BrokerKept /\ \A d \in Calls \ {c} : Same(d)
<1>1. Place(c) /\ (c \in ResumeCalls => ResumePlace(c)) /\ Execution(c) \in Executions
  BY RuntimeAssumption DEF Places, Execution
<1>2. pc' \in [Calls -> PcStates]
  BY <1>1
  DEF ClosePop, Execution, Answer, Goto, brokerVars, tableVars, localVars, Types, CallTypes,
      PcStates
<1>3. CallTypes'
  BY <1>2
  DEF ClosePop, Execution, Answer, Goto, brokerVars, tableVars, localVars, Types, CallTypes
<1>4. \A d \in Calls \ {c} : Same(d)
  BY DEF ClosePop, Execution, Answer, Goto, brokerVars, tableVars, localVars, Types, CallTypes,
     Same
<1>5. Place(c)'
  BY <1>1, RuntimeAssumption, NoneAssumption
  DEF ClosePop, Execution, Answer, Goto, brokerVars, tableVars, localVars, Types, CallTypes,
      Place, Storing, Running, Consuming, Closing, Ended, Approving, ResumePlace, ExecutePlaces,
      ResumePlaces, Calls
<1>6. c \in ResumeCalls => ResumePlace(c)'
  BY <1>1, RuntimeAssumption, NoneAssumption
  DEF ClosePop, Execution, Answer, Goto, brokerVars, tableVars, localVars, Types, CallTypes,
      Place, Storing, Running, Consuming, Closing, Ended, Approving, ResumePlace, ExecutePlaces,
      Calls
<1>7. BrokerKept
  BY NothingKeeps
  DEF ClosePop, Execution, Answer, Goto, brokerVars, tableVars, localVars, Types,
      Broker!BrokerTypeOK
<1>8. TableTypes'
  BY <1>1, RuntimeAssumption
  DEF ClosePop, Execution, Answer, Goto, brokerVars, tableVars, localVars, Types, TableTypes,
      CallTypes
<1>9. HistoryTypes'
  BY <1>1, RuntimeAssumption
  DEF ClosePop, Execution, Answer, Goto, brokerVars, tableVars, localVars, Types, HistoryTypes,
      CallTypes, Place, ResumePlace, Storing, Running, Consuming, Closing, Pending
<1>10. Registered' /\ Store!StateTypeOK' /\ \A k \in StateKeys : RowPlace(k)'
  BY DEF ClosePop, Execution, Answer, Goto, brokerVars, tableVars, localVars, Types, TableTypes,
     HistoryTypes, Registered, Places, RowPlace, Store!StateTypeOK
<1> QED BY <1>2, <1>3, <1>4, <1>5, <1>6, <1>7, <1>8, <1>9, <1>10, OthersStay
    DEF Types, Places, BrokerKept

-----------------------------------------------------------------------------
(* Every step keeps the places. *)

\* A review keeps types and places.
LEMMA ReviewKeepsPlaces ==
  ASSUME Types, Places, BrokerIsTimely, Review
  PROVE  Types' /\ Places' /\ BrokerKept
<1>1. PICK r \in Requests, status \in Reviews : Broker!Decide(r, status, None)
  BY DEF Review
<1>2. BrokerKept
  BY <1>1, DecideKeeps
<1>3. Types'
  BY <1>2
  DEF Review, tableVars, localVars, Types, TableTypes, CallTypes, HistoryTypes,
      Store!StateTypeOK, BrokerKept
<1>4. now' = now
  BY <1>1 DEF Broker!Decide
<1>5. Places'
  BY <1>4 DEF Review, tableVars, localVars, Places, Place, ResumePlace, Registered, RowPlace
<1> QED BY <1>2, <1>3, <1>5

\* A tick of the clock keeps types and places.
LEMMA TickKeepsPlaces ==
  ASSUME Types, Places, BrokerIsTimely, Tick
  PROVE  Types' /\ Places' /\ BrokerKept
<1>1. now \in Nat /\ now' = now + 1 /\ UNCHANGED <<requests, decisions, consumed>>
  BY DEF Tick, Broker!TimePasses, Types, Broker!BrokerTypeOK
<1>2. BrokerKept
  BY <1>1
  DEF BrokerKept, BrokerIsTimely, BrokerRemembers, ApprovedInTime, Types, Broker!BrokerTypeOK
<1>3. Types'
  BY <1>2
  DEF Tick, tableVars, localVars, Types, TableTypes, CallTypes, HistoryTypes, Store!StateTypeOK,
      BrokerKept
<1>4. UNCHANGED <<states, tableVars, localVars, pc>>
  BY DEF Tick
<1>5. ASSUME NEW c \in ResumeCalls PROVE ResumePlace(c)'
  <2>1. ResumePlace(c) /\ called[c] \in [time : Nat, evidence : Evidence] \union {None}
    BY DEF Places, Types, CallTypes, Calls
  <2> QED BY <1>1, <1>4, <2>1 DEF ResumePlace, localVars
<1>6. (\A c \in Calls : Place(c)') /\ Registered' /\ \A k \in StateKeys : RowPlace(k)'
  BY <1>4 DEF tableVars, localVars, Places, Place, Registered, RowPlace
<1> QED BY <1>2, <1>3, <1>5, <1>6 DEF Places

\* A restart keeps types and places.
LEMMA CrashKeepsPlaces ==
  ASSUME Types, Places, BrokerIsTimely, Crash
  PROVE  Types' /\ Places' /\ BrokerKept
<1>1. UNCHANGED <<states, brokerVars, localVars, handled, result>>
      /\ pending' = NoExecutions /\ used' = {} /\ traces' = {} /\ active' = NoExecutions
  BY DEF Crash
<1>2. pc' \in [Calls -> PcStates] /\ \A c \in Calls : pc'[c] \in {pc[c], "crashed"}
  BY DEF Crash, Types, CallTypes, PcStates
<1>3. BrokerKept
  BY <1>1, NothingKeeps DEF brokerVars, Types, Broker!BrokerTypeOK
<1>4. Types'
  BY <1>1, <1>2, <1>3
  DEF localVars, Types, TableTypes, CallTypes, HistoryTypes, NoExecutions, Store!StateTypeOK,
      BrokerKept
<1>5. ASSUME NEW c \in Calls PROVE Place(c)'
  BY <1>1, <1>2
  DEF localVars, Places, Place, Running, Storing, Consuming, Closing, Ended, ExecutePlaces,
      ResumePlaces, Execution
<1>6. ASSUME NEW c \in ResumeCalls PROVE ResumePlace(c)'
  <2>1. ResumePlace(c) /\ pc'[c] \in {pc[c], "crashed"}
    BY <1>2 DEF Places, Calls
  <2>2. pc[c] = "idle" => pc'[c] = "idle"
    BY DEF Crash, InFlight, Calls
  <2> QED BY <1>1, <2>1, <2>2
      DEF localVars, brokerVars, ResumePlace, Approving, Running, Storing, Consuming, Ended
<1>7. Registered'
  BY <1>1 DEF Registered, NoExecutions
<1>8. \A k \in StateKeys : RowPlace(k)'
  BY <1>1 DEF Places, RowPlace
<1> QED BY <1>3, <1>4, <1>5, <1>6, <1>7, <1>8 DEF Places

\* A step that changes nothing keeps types and places.
LEMMA StutterKeepsPlaces ==
  ASSUME Types, Places, BrokerIsTimely, UNCHANGED vars
  PROVE  Types' /\ Places' /\ BrokerKept
<1>1. BrokerKept
  BY NothingKeeps DEF vars, brokerVars, Types, Broker!BrokerTypeOK
<1>2. Types'
  BY <1>1
  DEF vars, tableVars, localVars, Types, TableTypes, CallTypes, HistoryTypes, Store!StateTypeOK,
      BrokerKept
<1>3. Places'
  BY DEF vars, brokerVars, tableVars, localVars, Places, Place, ResumePlace, Registered, RowPlace
<1> QED BY <1>1, <1>2, <1>3

\* A step of a call is no step of another.
LEMMA CallKeepsPlaces ==
  ASSUME Types, Places, BrokerIsTimely, CallsAreCleared, NEW c \in Calls, Execute(c) \/ Resume(c)
  PROVE  Types' /\ Places' /\ BrokerKept /\ \A d \in Calls \ {c} : Same(d)
<1>1. CASE Execute(c)
  BY <1>1, CheckTracesKeepsPlaces, CheckStoreKeepsPlaces, OpenKeepsPlaces, AdmitKeepsPlaces,
     AcceptPlanKeepsPlaces, RefuseInputKeepsPlaces, ProviderFailsKeepsPlaces,
     RefusePlanKeepsPlaces, InterruptKeepsPlaces, InterruptEscapesKeepsPlaces,
     StepRaisesKeepsPlaces, DenyKeepsPlaces, HandleKeepsPlaces, GateKeepsPlaces,
     FinishPlanKeepsPlaces, ComposeKeepsPlaces, FinishKeepsPlaces, RememberKeepsPlaces,
     CheckpointKeepsPlaces, PersistKeepsPlaces, CheckpointRaisesKeepsPlaces, LeaveKeepsPlaces
  DEF Execute
<1>2. CASE Resume(c)
  BY <1>2, FetchKeepsPlaces, RestoreKeepsPlaces, AdoptKeepsPlaces, StillWaitingKeepsPlaces,
     DecideFromBrokerKeepsPlaces, DecideFromCallerKeepsPlaces, TakeKeepsPlaces,
     ConsumeKeepsPlaces, ConsumeInBrokerKeepsPlaces, MergeKeepsPlaces, RecheckKeepsPlaces,
     RepersistKeepsPlaces, RepersistRaisesKeepsPlaces, CloseKeepsPlaces, CloseFinishKeepsPlaces,
     ClosePopKeepsPlaces
  DEF Resume
<1> QED BY <1>1, <1>2

\* Every step keeps types and places.
LEMMA StepKeepsPlaces ==
  ASSUME Types, Places, BrokerIsTimely, CallsAreCleared, [Next]_vars
  PROVE  Types' /\ Places' /\ BrokerKept
BY CallKeepsPlaces, ReviewKeepsPlaces, TickKeepsPlaces, CrashKeepsPlaces, StutterKeepsPlaces
DEF Next

-----------------------------------------------------------------------------
(* What was approved stays approved. *)

\* A resume that works under approved actions goes on with what it was given.
ApprovalsStay ==
  \A c \in ResumeCalls :
    approved[c] # {} => /\ approved'[c] # {}
                        /\ held'[c] = held[c] /\ called'[c] = called[c]

\* execute changes neither the approvals of a call nor what it resumes.
LEMMA ExecuteLeavesApprovals ==
  ASSUME NEW c \in Calls, Execute(c)
  PROVE  UNCHANGED <<approved, held, called>>
BY DEF Execute, CheckTraces, CheckStore, Open, Admit, AcceptPlan, RefuseInput, ProviderFails,
   RefusePlan, Interrupt, InterruptEscapes, StepRaises, Deny, Handle, Gate, FinishPlan, Compose,
   Finish, Remember, Checkpoint, Persist, CheckpointRaises, Leave, OpenState, EndsAs, FindRow,
   localVars

\* What a resume has cleared and holds it keeps.
LEMMA ApprovalsLast ==
  ASSUME Types, Places, [Next]_vars
  PROVE  ApprovalsStay
<1>1. ASSUME NEW c \in Calls, Execute(c) PROVE ApprovalsStay
  BY <1>1, ExecuteLeavesApprovals DEF ApprovalsStay
<1>2. ASSUME NEW c \in Calls, Resume(c) PROVE ApprovalsStay
  <2>1. CASE Fetch(c) \/ Restore(c) \/ Adopt(c)
    <3>1. c \in ResumeCalls /\ pc[c] \in {"idle", "restore", "adopt"}
      BY <2>1, ResumeOnly DEF Fetch, Restore, Adopt, MayStart, Places
    <3>2. approved[c] = {}
      BY <3>1 DEF Places, ResumePlace, Approving, Running, Storing, Consuming, Ended
    <3>3. \A d \in Calls \ {c} : held'[d] = held[d] /\ called'[d] = called[d]
      BY <2>1 DEF Fetch, Restore, Adopt, Types, CallTypes
    <3>4. approved' = approved
      BY <2>1 DEF Fetch, Restore, Adopt
    <3> QED BY <3>2, <3>3, <3>4 DEF ApprovalsStay, Calls
  <2>2. CASE Take(c)
    <3>1. c \in ResumeCalls
      BY <2>2, ResumeOnly DEF Take, Places
    <3>2. approved[c] = {}
      BY <2>2, <3>1 DEF Take, Places, ResumePlace, Approving, Running, Storing, Consuming, Ended
    <3>3. \A d \in Calls \ {c} : approved'[d] = approved[d]
      BY <2>2 DEF Take, Types, CallTypes
    <3>4. UNCHANGED <<held, called>>
      BY <2>2 DEF Take
    <3> QED BY <3>2, <3>3, <3>4 DEF ApprovalsStay, Calls
  <2>3. CASE UNCHANGED <<approved, held, called>>
    BY <2>3 DEF ApprovalsStay
  <2>4. ASSUME ~ (Fetch(c) \/ Restore(c) \/ Adopt(c) \/ Take(c))
        PROVE  UNCHANGED <<approved, held, called>>
    BY <1>2, <2>4
    DEF Resume, Fetch, Restore, Adopt, StillWaiting, DecideFromBroker, DecideFromCaller, Take,
        Consume, ConsumeInBroker, Merge, Recheck, Repersist, RepersistRaises, Close,
        CloseFinish, ClosePop, OpenState, FindRow, localVars
  <2> QED BY <2>1, <2>2, <2>3, <2>4
<1>3. CASE Review \/ Tick \/ Crash \/ UNCHANGED vars
  BY <1>3 DEF ApprovalsStay, Review, Tick, Crash, vars, localVars
<1> QED BY <1>1, <1>2, <1>3 DEF Next

\* So do the requests, their decisions and what they grant.
LEMMA GrantsLast ==
  ASSUME BrokerRemembers, ApprovalsStay, NEW x \in Executions, NEW a, Granted(x, a)
  PROVE  Granted(x, a)'
<1>1. PICK r \in Requests : RequestOf(r, x, a) /\ (ApprovedInTime(r) \/ ApprovedByCaller(r))
  BY DEF Granted
<1>2. RequestOf(r, x, a)'
  BY <1>1 DEF RequestOf, BrokerRemembers
<1>3. ApprovedInTime(r) => ApprovedInTime(r)'
  BY <1>1 DEF RequestOf, ApprovedInTime, BrokerRemembers
<1>4. ApprovedByCaller(r) => ApprovedByCaller(r)'
  BY DEF ApprovedByCaller, ApprovalsStay, HeldRequest
<1> QED BY <1>1, <1>2, <1>3, <1>4 DEF Granted

\* What is genuine stays so.
LEMMA GenuineLasts ==
  ASSUME BrokerRemembers, ApprovalsStay, NEW x \in Executions, NEW p \in Pending, Genuine(x, p)
  PROVE  Genuine(x, p)'
<1>1. p.request \in Requests
  BY DEF Pending
<1>2. RequestOf(p.request, x, Plan[x][p.at])'
  BY <1>1 DEF Genuine, RequestOf, BrokerRemembers
<1> QED BY <1>2, GrantsLast DEF Genuine

-----------------------------------------------------------------------------
(* Where pending approvals come from. *)

PendingFlow ==
  \A x \in Executions :
    \/ pending'[x] \in {pending[x], None}
    \/ \E c \in Calls :
         /\ Execution(c) = x
         /\ \/ /\ \/ Adopt(c) \/ Admit(c)
                  \/ InterruptEscapes(c) \/ StepRaises(c) \/ CheckpointRaises(c)
               /\ pending'[x] = held[c]
            \/ pc[c] = "remember" /\ pending'[x] = Continuation(c)

RowFlow ==
  \A k \in StateKeys :
    \/ states'[k] = states[k]
    \/ states'[k].data = None
    \/ \E c \in Calls :
         /\ states'[k].execution_id = Execution(c)
         /\ \/ pc[c] = "repersist" /\ states'[k].data = merged[c]
            \/ pc[c] = "persist" /\ states'[k].data = Continuation(c)

HeldFlow ==
  \A c \in Calls :
    \/ held'[c] \in {held[c], pending[Execution(c)]}
    \/ HasRow(c) /\ held'[c] = Row(c).data

MergedFlow == \A c \in Calls : merged'[c] \in {merged[c], pending[Execution(c)]}

\* What comes to be pending was held, pending or is a continuation.
LEMMA PendingFlows ==
  ASSUME Types, [Next]_vars
  PROVE  PendingFlow
<1>1. ASSUME NEW c \in Calls,
             Admit(c) \/ InterruptEscapes(c) \/ StepRaises(c) \/ CheckpointRaises(c)
      PROVE  PendingFlow
  <2>1. Execution(c) \in Executions
    BY RuntimeAssumption DEF Execution
  <2>2. pending' = pending \/ pending' = [pending EXCEPT ![Execution(c)] = held[c]]
    BY <1>1 DEF Admit, InterruptEscapes, StepRaises, CheckpointRaises, Rearmed
  <2> QED BY <1>1, <2>1, <2>2 DEF PendingFlow, Types, TableTypes
<1>2. ASSUME NEW c \in Calls, Remember(c) PROVE PendingFlow
  BY <1>2 DEF Remember, PendingFlow, Types, TableTypes
<1>3. ASSUME NEW c \in Calls, Adopt(c) \/ Take(c) \/ ClosePop(c) PROVE PendingFlow
  <2>1. \/ pending' = pending
        \/ Adopt(c) /\ pending' = [pending EXCEPT ![Execution(c)] = held[c]]
        \/ pending' = [pending EXCEPT ![Execution(c)] = None]
    BY <1>3 DEF Adopt, Take, ClosePop
  <2> QED BY <2>1 DEF PendingFlow, Types, TableTypes
<1>4. ASSUME NEW c \in Calls, Execute(c),
             ~ (\/ Admit(c) \/ InterruptEscapes(c) \/ StepRaises(c) \/ CheckpointRaises(c)
                \/ Remember(c))
      PROVE  pending' = pending
  BY <1>4
  DEF Execute, CheckTraces, CheckStore, Open, Admit, AcceptPlan, RefuseInput, ProviderFails,
      RefusePlan, Interrupt, InterruptEscapes, StepRaises, Deny, Handle, Gate, FinishPlan,
      Compose, Finish, Remember, Checkpoint, Persist, CheckpointRaises, Leave, OpenState, EndsAs,
      FindRow, tableVars
<1>5. ASSUME NEW c \in Calls, Resume(c), ~ (Adopt(c) \/ Take(c) \/ ClosePop(c))
      PROVE  pending' = pending
  BY <1>5
  DEF Resume, Fetch, Restore, Adopt, StillWaiting, DecideFromBroker, DecideFromCaller, Take,
      Consume, ConsumeInBroker, Merge, Recheck, Repersist, RepersistRaises, Close, CloseFinish,
      ClosePop, OpenState, FindRow, tableVars
<1>6. CASE Review \/ Tick \/ UNCHANGED vars
  BY <1>6 DEF PendingFlow, Review, Tick, vars, tableVars
<1>7. CASE Crash
  BY <1>7 DEF PendingFlow, Crash, NoExecutions
<1>8. pending' = pending => PendingFlow
  BY DEF PendingFlow
<1> QED BY <1>1, <1>2, <1>3, <1>4, <1>5, <1>6, <1>7, <1>8 DEF Next

\* What comes to be stored was stored, is empty or is a checkpoint.
LEMMA RowsFlow ==
  ASSUME Types, Places, [Next]_vars
  PROVE  RowFlow
<1>1. ASSUME NEW c \in Calls, Open(c) \/ Close(c) PROVE RowFlow
  <2>1. Store!GetOrCreate(StateKey(c), Principal, "1") /\ StateKey(c) \in StateKeys
    BY <1>1, RuntimeAssumption DEF Open, Close, OpenState, StateKey
  <2> QED BY <2>1
      DEF RowFlow, Types, Store!StateTypeOK, Store!GetOrCreate, Store!Opened, Store!FreshState
<1>2. ASSUME NEW c \in Calls, Finish(c) \/ CloseFinish(c) PROVE RowFlow
  <2>1. copy[c] # None /\ outcome[c] # None
    BY <1>2 DEF Places, Place, Finish, CloseFinish, Storing, Closing
  <2>2. FinishedState(c).data = None
    BY <2>1, FinishedIsState
  <2>3. states' = states \/ states' = [states EXCEPT ![StateKey(c)] = FinishedState(c)]
    BY <1>2 DEF Finish, CloseFinish, SaveFinished, Store!Save
  <2> QED BY <2>2, <2>3 DEF RowFlow, Types, Store!StateTypeOK
<1>3. ASSUME NEW c \in Calls, NEW p \in Pending, copy[c] # None,
             copy[c].execution_id = Execution(c), SaveCheckpoint(c, p),
             \/ pc[c] = "repersist" /\ p = merged[c]
             \/ pc[c] = "persist" /\ p = Continuation(c)
      PROVE  RowFlow
  <2> DEFINE s == [copy[c] EXCEPT !.status = "paused", !.version = copy[c].version + 1, !.data = p]
  <2>1. s.execution_id = Execution(c) /\ s.data = p
    BY <1>3, CheckpointIsState
  <2>2. states' = [states EXCEPT ![StateKey(c)] = s]
    BY <1>3 DEF SaveCheckpoint, Store!Save
  <2> HIDE DEF s
  <2> QED BY <1>3, <2>1, <2>2 DEF RowFlow, Types, Store!StateTypeOK
<1>4. ASSUME NEW c \in Calls, Persist(c) \/ Repersist(c) PROVE RowFlow
  <2>1. Place(c)
    BY DEF Places
  <2>2. CASE Persist(c)
    <3>1. Continuation(c) \in Pending
      BY <2>1, <2>2, ContinuationIsPending DEF Persist
    <3> QED BY <1>3, <2>1, <2>2, <3>1 DEF Place, Storing, Persist
  <2>3. CASE Repersist(c)
    <3>1. merged[c] \in Pending
      BY <2>1, <2>3 DEF Repersist, Place, Types, CallTypes
    <3> QED BY <1>3, <2>1, <2>3, <3>1 DEF Place, Repersist
  <2> QED BY <1>4, <2>2, <2>3
<1>5. ASSUME NEW c \in Calls, Execute(c), ~ (Open(c) \/ Finish(c) \/ Persist(c))
      PROVE  states' = states
  BY <1>5
  DEF Execute, CheckTraces, CheckStore, Open, Admit, AcceptPlan, RefuseInput, ProviderFails,
      RefusePlan, Interrupt, InterruptEscapes, StepRaises, Deny, Handle, Gate, FinishPlan,
      Compose, Finish, Remember, Checkpoint, Persist, CheckpointRaises, Leave, OpenState, EndsAs,
      FindRow
<1>6. ASSUME NEW c \in Calls, Resume(c), ~ (Close(c) \/ CloseFinish(c) \/ Repersist(c))
      PROVE  states' = states
  BY <1>6
  DEF Resume, Fetch, Restore, Adopt, StillWaiting, DecideFromBroker, DecideFromCaller, Take,
      Consume, ConsumeInBroker, Merge, Recheck, Repersist, RepersistRaises, Close, CloseFinish,
      ClosePop, OpenState, FindRow
<1>7. CASE Review \/ Tick \/ Crash \/ UNCHANGED vars
  BY <1>7 DEF RowFlow, Review, Tick, Crash, vars
<1>8. states' = states => RowFlow
  BY DEF RowFlow
<1> QED BY <1>1, <1>2, <1>4, <1>5, <1>6, <1>7, <1>8 DEF Next

\* What a resume comes to hold was pending or stored.
LEMMA HeldFlows ==
  ASSUME Types, [Next]_vars
  PROVE  HeldFlow /\ MergedFlow
<1>1. ASSUME NEW c \in Calls, Execute(c) PROVE UNCHANGED <<held, merged>>
  BY <1>1
  DEF Execute, CheckTraces, CheckStore, Open, Admit, AcceptPlan, RefuseInput, ProviderFails,
      RefusePlan, Interrupt, InterruptEscapes, StepRaises, Deny, Handle, Gate, FinishPlan,
      Compose, Finish, Remember, Checkpoint, Persist, CheckpointRaises, Leave, OpenState, EndsAs,
      FindRow, localVars
<1>2. ASSUME NEW c \in Calls, Fetch(c) \/ Restore(c) \/ Adopt(c) PROVE HeldFlow /\ MergedFlow
  <2>1. merged' = merged
    BY <1>2 DEF Fetch, Restore, Adopt
  <2>2. \/ held' = held
        \/ held' = [held EXCEPT ![c] = pending[Execution(c)]]
        \/ HasRow(c) /\ held' = [held EXCEPT ![c] = Row(c).data]
    BY <1>2 DEF Fetch, Restore, Adopt, HasCheckpoint
  <2> QED BY <2>1, <2>2 DEF HeldFlow, MergedFlow, Types, CallTypes
<1>3. ASSUME NEW c \in Calls, Merge(c) PROVE HeldFlow /\ MergedFlow
  BY <1>3 DEF Merge, HeldFlow, MergedFlow, Types, CallTypes
<1>4. ASSUME NEW c \in Calls, Resume(c), ~ (Fetch(c) \/ Restore(c) \/ Adopt(c) \/ Merge(c))
      PROVE  UNCHANGED <<held, merged>>
  BY <1>4
  DEF Resume, Fetch, Restore, Adopt, StillWaiting, DecideFromBroker, DecideFromCaller, Take,
      Consume, ConsumeInBroker, Merge, Recheck, Repersist, RepersistRaises, Close, CloseFinish,
      ClosePop, OpenState, FindRow, localVars
<1>5. CASE Review \/ Tick \/ Crash \/ UNCHANGED vars
  BY <1>5 DEF HeldFlow, MergedFlow, Review, Tick, Crash, vars, localVars
<1>6. UNCHANGED <<held, merged>> => HeldFlow /\ MergedFlow
  BY DEF HeldFlow, MergedFlow
<1> QED BY <1>1, <1>2, <1>3, <1>4, <1>5, <1>6 DEF Next

-----------------------------------------------------------------------------
(* What the gate has seen stays true. *)

\* The continuation of a paused run is genuine: it has asked for its step.
LEMMA ContinuationIsGenuine ==
  ASSUME NEW c \in Calls, Types, Place(c), CallsAreCleared,
         pc[c] \in {"remember", "checkpoint", "persist"}
  PROVE  Genuine(Execution(c), Continuation(c))
<1>1. pausing[c] /\ at[c] <= Len(Plan[Execution(c)])
  BY DEF Place
<1>2. RequestOf(<<c, at[c]>>, Execution(c), Action(c))
  BY <1>1 DEF CallsAreCleared, Asked
<1>3. \A a \in approved[c] : Granted(Execution(c), a)
  BY DEF CallsAreCleared
<1> QED BY <1>1, <1>2, <1>3 DEF Genuine, Continuation, Action

\* A pending approval, wherever it is kept.
Kept(x, p) ==
  /\ p \in Pending
  /\ \/ pending[x] = p
     \/ \E k \in StateKeys :
          /\ states[k] # None /\ states[k].data = p
          /\ states[k].execution_id = x
     \/ \E c \in Calls :
          Execution(c) = x /\ (held[c] = p \/ merged[c] = p)

\* What is kept anywhere is genuine.
LEMMA KeptIsGenuine ==
  ASSUME NEW x \in Executions, NEW p, Kept(x, p), PendingIsGenuine
  PROVE  Genuine(x, p)
BY NoneAssumption DEF Kept, PendingIsGenuine

\* A step only moves pending approvals, and makes those of its paused calls.
LEMMA KeptBefore ==
  ASSUME Types, Places, [Next]_vars, Types', Places',
         NEW x \in Executions, NEW p, Kept(x, p)'
  PROVE  \/ Kept(x, p)
         \/ \E c \in Calls : /\ Execution(c) = x /\ p = Continuation(c)
                             /\ pc[c] \in {"remember", "persist"}
<1>1. PendingFlow /\ RowFlow /\ HeldFlow /\ MergedFlow
  BY PendingFlows, RowsFlow, HeldFlows
<1>2. p \in Pending /\ p # None
  BY NoneAssumption DEF Kept
<1>3. CASE pending'[x] = p
  BY <1>1, <1>2, <1>3 DEF PendingFlow, Kept
<1>4. ASSUME NEW k \in StateKeys, states'[k] # None, states'[k].data = p,
             states'[k].execution_id = x
      PROVE  \/ Kept(x, p)
             \/ \E c \in Calls : /\ Execution(c) = x /\ p = Continuation(c)
                                 /\ pc[c] \in {"remember", "persist"}
  BY <1>1, <1>2, <1>4 DEF RowFlow, Kept
<1>5. ASSUME NEW c \in Calls, Execution(c) = x, held'[c] = p PROVE Kept(x, p)
  <2>1. CASE held'[c] \in {held[c], pending[x]}
    BY <1>2, <1>5, <2>1 DEF Kept
  <2>2. CASE HasRow(c) /\ held'[c] = Row(c).data
    <3>1. Row(c) \in Store!State /\ Row(c).execution_id = x /\ StateKey(c) \in StateKeys
      BY <1>5, <2>2, RowIsOwn, RuntimeAssumption DEF StateKey
    <3> QED BY <1>2, <1>5, <2>2, <3>1, NoneAssumption DEF Kept, Row
  <2> QED BY <1>1, <1>5, <2>1, <2>2 DEF HeldFlow
<1>6. ASSUME NEW c \in Calls, Execution(c) = x, merged'[c] = p PROVE Kept(x, p)
  BY <1>1, <1>2, <1>6 DEF MergedFlow, Kept
<1> QED BY <1>3, <1>4, <1>5, <1>6 DEF Kept, Execution

\* No step makes up anything pending.
LEMMA PendingStaysGenuine ==
  ASSUME Types, Places, PendingIsGenuine, CallsAreCleared, [Next]_vars,
         Types', Places', BrokerRemembers, ApprovalsStay
  PROVE  PendingIsGenuine'
<1>1. ASSUME NEW x \in Executions, NEW p, Kept(x, p)' PROVE Genuine(x, p)'
  <2>1. Genuine(x, p)
    <3>1. ASSUME NEW c \in Calls, Execution(c) = x, p = Continuation(c),
                 pc[c] \in {"remember", "persist"}
          PROVE  Genuine(x, p)
      BY <3>1, ContinuationIsGenuine DEF Places
    <3> QED BY <1>1, <3>1, KeptBefore, KeptIsGenuine
  <2>2. p \in Pending
    BY <1>1 DEF Kept
  <2> QED BY <2>1, <2>2, GenuineLasts
<1>2. ASSUME NEW x \in Executions, pending'[x] # None PROVE Genuine(x, pending[x])'
  <2>1. PICK p : p = pending'[x]
    OBVIOUS
  <2>2. Kept(x, p)'
    BY <1>2, <2>1 DEF Kept, Types, TableTypes
  <2> QED BY <1>1, <2>1, <2>2 DEF Genuine, RequestOf
<1>3. ASSUME NEW k \in StateKeys, states'[k] # None, states'[k].data # None
      PROVE  Genuine(states[k].execution_id, states[k].data)'
  <2>1. PICK x, p : x = states'[k].execution_id /\ p = states'[k].data
    OBVIOUS
  <2>2. states'[k] \in Store!State
    BY <1>3 DEF Types, Store!StateTypeOK
  <2>3. x \in Executions /\ p \in Pending
    BY <1>3, <2>1, <2>2 DEF Places, RowPlace, Store!State
  <2>4. Kept(x, p)'
    BY <1>3, <2>1, <2>3 DEF Kept
  <2>5. Genuine(x, p)'
    BY <1>1, <2>3, <2>4
  <2> QED BY <2>1, <2>5 DEF Genuine, RequestOf, Granted
<1>4. ASSUME NEW c \in Calls
      PROVE  /\ held'[c] # None => Genuine(Execution(c), held[c])'
             /\ merged'[c] # None => Genuine(Execution(c), merged[c])'
  <2>1. PICK x, p, q : x = Execution(c) /\ p = held'[c] /\ q = merged'[c]
    OBVIOUS
  <2>2. x \in Executions
    BY <2>1, RuntimeAssumption DEF Execution
  <2>3. (p # None => Kept(x, p)') /\ (q # None => Kept(x, q)')
    BY <2>1 DEF Kept, Types, CallTypes, Execution
  <2>4. (p # None => Genuine(x, p)') /\ (q # None => Genuine(x, q)')
    BY <1>1, <2>2, <2>3
  <2> QED BY <2>1, <2>4 DEF Genuine, RequestOf, Granted, Execution
<1> QED BY <1>2, <1>3, <1>4 DEF PendingIsGenuine

\* A call at a gate has asked for its step there.
LEMMA AskedStays ==
  ASSUME Types, Places, BrokerIsTimely, CallsAreCleared, [Next]_vars, BrokerRemembers,
         NEW d \in Calls
  PROVE  Asked(d)'
<1>1. Execution(d) \in Executions
  BY RuntimeAssumption DEF Execution
<1>2. pausing[d] => /\ RequestOf(<<d, at[d]>>, Execution(d), Action(d))
                    /\ <<d, at[d]>> \in Requests
  BY StepIsRequested DEF CallsAreCleared, Asked, Places, Place
<1>3. ASSUME pausing'[d] => pausing[d] /\ at'[d] = at[d]
      PROVE  Asked(d)'
  BY <1>2, <1>3 DEF Asked, RequestOf, BrokerRemembers, Action, Execution
<1>4. ASSUME NEW c \in Calls, Execute(c) \/ Resume(c), c # d
      PROVE  Asked(d)'
  BY <1>3, <1>4, CallKeepsPlaces DEF Same
<1>5. CASE Gate(d)
  <2>1. at[d] <= Len(Plan[Execution(d)]) /\ at' = at
    BY <1>5 DEF Gate, HasStep
  <2>2. <<d, at[d]>> \in Requests /\ Action(d) \in Actions
    BY <2>1, StepIsRequested
  <2>3. [action |-> Action(d), expires_at |-> RequestExpiry] \in Broker!Request
    BY <2>2, RuntimeAssumption
    DEF RequestExpiry, Broker!Request, Broker!Expiry, Types, Broker!BrokerTypeOK
  <2>4. requests'[<<d, at[d]>>] = [action |-> Action(d), expires_at |-> RequestExpiry]
    BY <1>5, <2>2, <2>3, SubmitKeeps DEF Gate
  <2>5. requests'[<<d, at[d]>>] # None
    BY <2>3, <2>4, NoneAssumption DEF Broker!BrokerAssumption
  <2> QED BY <2>1, <2>4, <2>5 DEF Asked, RequestOf, Action, Execution
<1>6. CASE Handle(d) \/ Take(d)
  <2>1. ~ pausing[d] /\ pausing' = pausing
    BY <1>6 DEF Handle, HasStep, Take, Places, Place, Storing, Consuming, Ended
  <2> QED BY <2>1 DEF Asked
<1>7. ASSUME Execute(d), ~ Gate(d), ~ Handle(d) PROVE UNCHANGED <<pausing, at>>
  BY <1>7
  DEF Execute, CheckTraces, CheckStore, Open, Admit, AcceptPlan, RefuseInput, ProviderFails,
      RefusePlan, Interrupt, InterruptEscapes, StepRaises, Deny, Handle, Gate, FinishPlan,
      Compose, Finish, Remember, Checkpoint, Persist, CheckpointRaises, Leave, OpenState, EndsAs,
      FindRow, localVars
<1>8. ASSUME Resume(d), ~ Take(d) PROVE UNCHANGED <<pausing, at>>
  BY <1>8
  DEF Resume, Fetch, Restore, Adopt, StillWaiting, DecideFromBroker, DecideFromCaller, Take,
      Consume, ConsumeInBroker, Merge, Recheck, Repersist, RepersistRaises, Close, CloseFinish,
      ClosePop, OpenState, FindRow, localVars
<1>9. CASE Review \/ Tick \/ Crash \/ UNCHANGED vars
  BY <1>3, <1>9 DEF Review, Tick, Crash, vars, localVars
<1> QED BY <1>3, <1>4, <1>5, <1>6, <1>7, <1>8, <1>9 DEF Next

\* A resume that acts on a valid decision is cleared by it.
LEMMA DecisionClears ==
  ASSUME Types, Places, BrokerIsTimely, PendingIsGenuine, NEW c \in Calls,
         DecideFromBroker(c) \/ DecideFromCaller(c), pc'[c] = "take",
         BrokerRemembers, BrokerIsTimely'
  PROVE  Cleared(c)'
<1> DEFINE r == HeldRequest(c)
<1>1. /\ pc[c] = "decide" /\ UNCHANGED <<held, called>>
  BY DEF DecideFromBroker, DecideFromCaller
<1>2. c \in ResumeCalls /\ held[c] \in Pending /\ held[c] # None /\ r \in Requests
  BY <1>1, ResumeOnly, HeldIsRequest, NoneAssumption DEF Places
<1>3. requests[r] # None /\ requests'[r] = requests[r]
  BY <1>2 DEF PendingIsGenuine, Genuine, RequestOf, HeldRequest, BrokerRemembers
<1>4. /\ called[c] # None /\ called[c].time <= now
      /\ called[c].time \in Nat /\ now \in Nat
      /\ requests[r].expires_at \in Nat \union {None}
  <2>1. ResumePlace(c)
    BY <1>2 DEF Places
  <2>2. called[c] # None /\ called[c].time <= now
    BY <1>1, <2>1 DEF ResumePlace
  <2>3. requests[r] \in Broker!Request
    BY <1>2, <1>3 DEF Types, Broker!BrokerTypeOK
  <2> QED BY <2>2, <2>3 DEF Types, CallTypes, Broker!BrokerTypeOK, Broker!Request, Broker!Expiry
<1>5. ASSUME NEW status, Act(c, status) PROVE status = "approved"
  BY <1>5 DEF Act, Goto, Types, CallTypes
<1>6. ASSUME NEW d, Validated(c, d) = "approved"
      PROVE  d.status = "approved" /\ ~ Broker!Expired(requests[r].expires_at)
  BY <1>6 DEF Validated
<1>7. CASE DecideFromBroker(c)
  <2>1. PICK d : /\ d = Broker!Current(r) /\ d # None
                 /\ Act(c, Validated(c, d)) /\ Broker!GetDecision(r)
    BY <1>7 DEF DecideFromBroker
  <2>2. d.status = "approved" /\ ~ Broker!Expired(requests[r].expires_at)
    BY <1>5, <1>6, <2>1
  <2>3. d = decisions[r] /\ ApprovedInTime(r)
    BY <1>2, <2>1, <2>2, CurrentIsTimely
  <2>4. ApprovedInTime(r)'
    BY <1>1, <1>2, <1>3, <2>3 DEF ApprovedInTime, BrokerRemembers, HeldRequest
  <2>5. requests[r].expires_at # None => called[c].time < requests[r].expires_at
    BY <1>4, <2>2 DEF Broker!Expired
  <2> QED BY <1>1, <1>2, <1>3, <1>4, <2>4, <2>5 DEF Cleared, HeldRequest
<1>8. CASE DecideFromCaller(c)
  <2>1. /\ called[c].evidence # "broker"
        /\ Act(c, IF called[c].evidence = "stale"
                  THEN "stale"
                  ELSE Validated(c, [status |-> "approved", expires_at |-> None,
                                     decided_at |-> now]))
    BY <1>8 DEF DecideFromCaller
  <2>2. called[c].evidence # "stale" /\ ~ Broker!Expired(requests[r].expires_at)
    <3>1. called[c].evidence # "stale"
      BY <1>5, <2>1
    <3> QED BY <1>5, <1>6, <2>1, <3>1
  <2>3. called[c].evidence = "approved"
    BY <1>2, <1>4, <2>1, <2>2, RuntimeAssumption DEF Types, CallTypes
  <2>4. requests[r].expires_at # None => called[c].time < requests[r].expires_at
    BY <1>4, <2>2 DEF Broker!Expired
  <2> QED BY <1>1, <1>2, <1>3, <1>4, <2>3, <2>4 DEF Cleared, HeldRequest
<1> QED BY <1>7, <1>8

\* A cleared resume stays cleared.
LEMMA ClearedLasts ==
  ASSUME NEW c \in ResumeCalls, Types, Places, BrokerRemembers, Cleared(c),
         pc[c] = "take" \/ approved[c] # {}, held'[c] = held[c], called'[c] = called[c]
  PROVE  Cleared(c)'
<1>1. HeldRequest(c) \in Requests
  BY NoneAssumption DEF Cleared, HeldRequest, Types, CallTypes, Pending, Calls
<1> QED BY <1>1 DEF Cleared, HeldRequest, ApprovedInTime, BrokerRemembers

\* Every resume that is to take its request, or has, is cleared.
LEMMA ClearedStays ==
  ASSUME Types, Places, BrokerIsTimely, PendingIsGenuine, CallsAreCleared, [Next]_vars,
         Types', BrokerIsTimely', BrokerRemembers, ApprovalsStay,
         NEW d \in ResumeCalls, pc'[d] = "take" \/ approved'[d] # {}
  PROVE  Cleared(d)'
<1>0. d \in Calls
  BY DEF Calls
<1>1. ASSUME pc[d] = "take" \/ approved[d] # {}, held'[d] = held[d], called'[d] = called[d]
      PROVE  Cleared(d)'
  BY <1>1, ClearedLasts DEF CallsAreCleared
<1>2. ASSUME approved[d] # {} PROVE Cleared(d)'
  BY <1>1, <1>2 DEF ApprovalsStay
<1>3. ASSUME NEW c \in Calls, Execute(c) \/ Resume(c), c # d PROVE Cleared(d)'
  BY <1>0, <1>1, <1>3, CallKeepsPlaces DEF Same
<1>4. CASE DecideFromBroker(d) \/ DecideFromCaller(d)
  <2>1. pc'[d] = "take"
    <3>1. approved' = approved /\ pc[d] = "decide"
      BY <1>4 DEF DecideFromBroker, DecideFromCaller
    <3> QED BY <3>1 DEF Places, ResumePlace, Approving, Running, Storing, Consuming, Ended
  <2> QED BY <1>0, <1>4, <2>1, DecisionClears
<1>5. CASE Take(d)
  BY <1>1, <1>5 DEF Take
<1>6. ASSUME Execute(d) PROVE approved' = approved /\ pc'[d] # "take"
  BY <1>0, <1>6
  DEF Execute, CheckTraces, CheckStore, Open, Admit, AcceptPlan, RefuseInput, ProviderFails,
      RefusePlan, Interrupt, InterruptEscapes, StepRaises, Deny, Handle, Gate, FinishPlan,
      Compose, Finish, Remember, Checkpoint, Persist, CheckpointRaises, Leave, Goto, Answer,
      Decided, HasStep, OpenState, EndsAs, FindRow, localVars, Types, CallTypes
<1>7. ASSUME Resume(d), ~ (DecideFromBroker(d) \/ DecideFromCaller(d) \/ Take(d))
      PROVE  approved' = approved /\ pc'[d] # "take"
  BY <1>0, <1>7
  DEF Resume, Fetch, Restore, Adopt, StillWaiting, DecideFromBroker, DecideFromCaller, Take,
      Consume, ConsumeInBroker, Merge, Recheck, Repersist, RepersistRaises, Close, CloseFinish,
      ClosePop, Goto, Answer, OpenState, FindRow, localVars, Types, CallTypes
<1>8. CASE Review \/ Tick \/ UNCHANGED vars
  BY <1>1, <1>8 DEF Review, Tick, vars, localVars
<1>9. CASE Crash
  BY <1>0, <1>1, <1>9 DEF Crash, localVars
<1> QED BY <1>2, <1>3, <1>4, <1>5, <1>6, <1>7, <1>8, <1>9 DEF Next

\* Every action a call may run gated steps by has been granted.
LEMMA ApprovedStays ==
  ASSUME Types, Places, BrokerIsTimely, PendingIsGenuine, CallsAreCleared, [Next]_vars,
         BrokerRemembers, ApprovalsStay,
         NEW d \in Calls, NEW a \in approved'[d]
  PROVE  Granted(Execution(d), a)'
<1>0. Execution(d) \in Executions
  BY RuntimeAssumption DEF Execution
<1>1. ASSUME a \in approved[d] PROVE Granted(Execution(d), a)'
  <2>1. PICK x \in Executions : x = Execution(d)
    BY <1>0
  <2>2. Granted(x, a)
    BY <1>1, <2>1 DEF CallsAreCleared
  <2> QED BY <2>1, <2>2, GrantsLast DEF Execution
<1>2. CASE Take(d)
  <2>0. PICK r : r = HeldRequest(d)
    OBVIOUS
  <2>1. d \in ResumeCalls /\ pc[d] = "take" /\ UNCHANGED <<held, called>>
    BY <1>2, ResumeOnly DEF Take, Places
  <2>2. Cleared(d) /\ held[d] \in Pending /\ held[d] # None /\ r \in Requests
    BY <2>0, <2>1, HeldIsRequest, NoneAssumption DEF CallsAreCleared
  <2>3. approved'[d] = held[d].approved \union {requests[r].action}
    BY <1>2, <2>0 DEF Take, Types, CallTypes
  <2>4. Genuine(Execution(d), held[d])
    BY <2>2 DEF PendingIsGenuine
  <2>5. CASE a \in held[d].approved
    <3>1. PICK x \in Executions : x = Execution(d)
      BY <1>0
    <3>2. Granted(x, a)
      BY <2>4, <2>5, <3>1 DEF Genuine
    <3> QED BY <3>1, <3>2, GrantsLast DEF Execution
  <2>6. CASE a = requests[r].action
    <3>1. RequestOf(r, Execution(d), a)'
      BY <2>0, <2>2, <2>4, <2>6 DEF Genuine, RequestOf, BrokerRemembers, HeldRequest, Execution
    <3>2. ApprovedInTime(r) => ApprovedInTime(r)'
      BY <2>0, <2>1, <2>2 DEF Cleared, ApprovedInTime, BrokerRemembers, HeldRequest
    <3>3. called[d].evidence = "approved" => ApprovedByCaller(r)'
      BY <2>0, <2>1, <2>3 DEF ApprovedByCaller, HeldRequest
    <3> QED BY <2>0, <2>2, <3>1, <3>2, <3>3 DEF Granted, Cleared
  <2> QED BY <2>3, <2>5, <2>6
<1>3. ASSUME NEW c \in Calls, Execute(c) \/ Resume(c), c # d PROVE a \in approved[d]
  BY <1>3, CallKeepsPlaces DEF Same
<1>4. ASSUME Execute(d) PROVE approved' = approved
  BY <1>4, ExecuteLeavesApprovals
<1>5. ASSUME Resume(d), ~ Take(d) PROVE approved' = approved
  BY <1>5
  DEF Resume, Fetch, Restore, Adopt, StillWaiting, DecideFromBroker, DecideFromCaller, Take,
      Consume, ConsumeInBroker, Merge, Recheck, Repersist, RepersistRaises, Close, CloseFinish,
      ClosePop, OpenState, FindRow, localVars
<1>6. CASE Review \/ Tick \/ Crash \/ UNCHANGED vars
  BY <1>1, <1>6 DEF Review, Tick, Crash, vars, localVars
<1> QED BY <1>1, <1>2, <1>3, <1>4, <1>5, <1>6 DEF Next

\* Only Handle runs a handler.
LEMMA HandlersRunByHandle ==
  ASSUME [Next]_vars
  PROVE  handled' = handled \/ \E c \in Calls : Handle(c)
<1>1. ASSUME NEW c \in Calls, Execute(c), ~ Handle(c) PROVE handled' = handled
  BY <1>1
  DEF Execute, CheckTraces, CheckStore, Open, Admit, AcceptPlan, RefuseInput, ProviderFails,
      RefusePlan, Interrupt, InterruptEscapes, StepRaises, Deny, Handle, Gate, FinishPlan,
      Compose, Finish, Remember, Checkpoint, Persist, CheckpointRaises, Leave, OpenState, EndsAs,
      FindRow
<1>2. ASSUME NEW c \in Calls, Resume(c) PROVE handled' = handled
  BY <1>2
  DEF Resume, Fetch, Restore, Adopt, StillWaiting, DecideFromBroker, DecideFromCaller, Take,
      Consume, ConsumeInBroker, Merge, Recheck, Repersist, RepersistRaises, Close, CloseFinish,
      ClosePop, OpenState, FindRow
<1> QED BY <1>1, <1>2 DEF Next, Review, Tick, Crash, vars

\* Every handler call was and stays granted.
LEMMA HandledStayGranted ==
  ASSUME Types, Places, CallsAreCleared, HandledWereGranted, [Next]_vars, Types',
         BrokerRemembers, ApprovalsStay
  PROVE  HandledWereGranted'
<1>1. ASSUME NEW x \in Executions, NEW c \in Calls, NEW n,
             c \in ResumeCalls => approved[c] # {},
             Plan[x][n] \in Gated => Granted(x, Plan[x][n])
      PROVE  /\ c \in ResumeCalls => approved'[c] # {}
             /\ Plan[x][n] \in Gated => Granted(x, Plan[x][n])'
  <2>1. Plan[x][n] \in Gated => Granted(x, Plan[x][n])'
    BY <1>1, GrantsLast
  <2> QED BY <1>1, <2>1 DEF ApprovalsStay
<1>2. ASSUME NEW x \in Executions, NEW i \in 1 .. Len(handled[x])
      PROVE  /\ handled[x][i] \in Calls \X (Nat \ {0})
             /\ handled[x][i][1] \in ResumeCalls => approved[handled[x][i][1]] # {}
             /\ Plan[x][handled[x][i][2]] \in Gated => Granted(x, Plan[x][handled[x][i][2]])
  <2>1. handled[x] \in Seq(Calls \X (Nat \ {0}))
    BY DEF Types, HistoryTypes
  <2>2. handled[x][i] \in Calls \X (Nat \ {0})
    BY <2>1
  <2> QED BY <2>2 DEF HandledWereGranted
<1>3. ASSUME NEW x \in Executions, NEW i \in 1 .. Len(handled'[x])
      PROVE  \E c \in Calls, n \in Nat \ {0} :
               /\ handled'[x][i] = <<c, n>>
               /\ c \in ResumeCalls => approved[c] # {}
               /\ Plan[x][n] \in Gated => Granted(x, Plan[x][n])
  <2>1. CASE handled'[x] = handled[x]
    BY <1>2, <2>1
  <2>2. ASSUME NEW c \in Calls, Handle(c), handled'[x] # handled[x]
        PROVE  \E d \in Calls, n \in Nat \ {0} :
                 /\ handled'[x][i] = <<d, n>>
                 /\ d \in ResumeCalls => approved[d] # {}
                 /\ Plan[x][n] \in Gated => Granted(x, Plan[x][n])
    <3>1. x = Execution(c) /\ handled'[x] = Append(handled[x], <<c, at[c]>>)
      BY <2>2 DEF Handle, Types, HistoryTypes
    <3>2. handled[x] \in Seq(Calls \X (Nat \ {0})) /\ <<c, at[c]>> \in Calls \X (Nat \ {0})
      BY DEF Types, HistoryTypes, CallTypes
    <3>3. CASE i \in 1 .. Len(handled[x])
      <4>1. handled'[x][i] = handled[x][i]
        BY <3>1, <3>2, <3>3
      <4> QED BY <1>2, <3>3, <4>1
    <3>4. CASE i = Len(handled[x]) + 1
      <4>1. handled'[x][i] = <<c, at[c]>>
        BY <3>1, <3>2, <3>4
      <4>2. c \in ResumeCalls => approved[c] # {}
        BY <2>2 DEF Handle, HasStep, Places, ResumePlace, Approving, Running
      <4>3. Plan[x][at[c]] \in Gated => Granted(x, Plan[x][at[c]])
        BY <2>2, <3>1 DEF Handle, Permitted, Action, CallsAreCleared
      <4> QED BY <3>2, <4>1, <4>2, <4>3
    <3>5. Len(handled'[x]) = Len(handled[x]) + 1 /\ Len(handled[x]) \in Nat
      BY <3>1, <3>2
    <3> QED BY <3>3, <3>4, <3>5
  <2> QED BY <2>1, <2>2, HandlersRunByHandle
<1>4. ASSUME NEW x \in Executions, NEW i \in 1 .. Len(handled'[x]), NEW c, NEW n,
             c = handled'[x][i][1], n = handled'[x][i][2]
      PROVE  /\ c \in ResumeCalls => approved'[c] # {}
             /\ Plan[x][n] \in Gated => Granted(x, Plan[x][n])'
  BY <1>1, <1>3, <1>4
<1> QED BY <1>4 DEF HandledWereGranted

-----------------------------------------------------------------------------
(* The invariant, and what follows from it. *)

\* The invariant of the approval cycle is inductive, ...
LEMMA GeneralStep == GeneralInv /\ [Next]_vars => GeneralInv'
<1> SUFFICES ASSUME GeneralInv, [Next]_vars PROVE GeneralInv'
  OBVIOUS
<1>1. Types /\ Places /\ BrokerIsTimely /\ PendingIsGenuine /\ CallsAreCleared
  BY DEF GeneralInv
<1>2. Types' /\ Places' /\ BrokerKept
  BY <1>1, StepKeepsPlaces
<1>3. BrokerRemembers /\ BrokerIsTimely' /\ ApprovalsStay
  BY <1>1, <1>2, ApprovalsLast DEF BrokerKept
<1>4. PendingIsGenuine'
  BY <1>1, <1>2, <1>3, PendingStaysGenuine
<1>5. CallsAreCleared'
  BY <1>1, <1>2, <1>3, AskedStays, ClearedStays, ApprovedStays DEF CallsAreCleared
<1>6. HandledWereGranted'
  BY <1>1, <1>2, <1>3, HandledStayGranted DEF GeneralInv
<1> QED BY <1>2, <1>3, <1>4, <1>5, <1>6 DEF GeneralInv

\* ... holds at first ...
LEMMA GeneralInit == Init => GeneralInv
<1> SUFFICES ASSUME Init PROVE GeneralInv
  OBVIOUS
<1>1. Types
  BY DEF Init, Store!StateInit, Broker!BrokerInit, NoExecutions, Types, Store!StateTypeOK,
     Broker!BrokerTypeOK, TableTypes, CallTypes, HistoryTypes, PcStates
<1>2. Places
  BY DEF Init, Store!StateInit, NoExecutions, Places, Place, ResumePlace, Registered, RowPlace,
     Running, Storing, Consuming, Closing, Ended, Approving, ExecutePlaces, ResumePlaces, Calls
<1>3. BrokerIsTimely /\ PendingIsGenuine
  BY DEF Init, Store!StateInit, Broker!BrokerInit, NoExecutions, BrokerIsTimely, PendingIsGenuine
<1>4. CallsAreCleared /\ HandledWereGranted
  BY DEF Init, CallsAreCleared, HandledWereGranted, Asked, Calls
<1> QED BY <1>1, <1>2, <1>3, <1>4 DEF GeneralInv

\* ... and so always.
LEMMA GeneralAlways == Spec => []GeneralInv
BY GeneralInit, GeneralStep, PTL DEF Spec

\* For any calls, however they overlap, are interrupted or are lost, the state keeps
\* its shape.
THEOREM RuntimeTypes == Spec => []TypeOK
<1>1. GeneralInv => TypeOK
  BY DEF GeneralInv, Types, TableTypes, CallTypes, HistoryTypes, TypeOK
<1> QED BY <1>1, GeneralAlways, PTL

\* For any calls, however they overlap, are interrupted or are lost, every gated
\* handler call was approved in time.
THEOREM GatedHandlersApproved == Spec => []HandlersRunApproved
<1>1. GeneralInv => HandlersRunApproved
  BY DEF GeneralInv, HandledWereGranted, HandlersRunApproved, Granted
<1> QED BY <1>1, GeneralAlways, PTL

\* And no resume runs anything that was called at or after the expiry of its request.
THEOREM LateResumesAreRefused == Spec => []LateResumesRunNothing
<1>1. GeneralInv => LateResumesRunNothing
  BY DEF GeneralInv, HandledWereGranted, CallsAreCleared, Cleared, LateResumesRunNothing
<1> QED BY <1>1, GeneralAlways, PTL

-----------------------------------------------------------------------------
(* Calls made one at a time, each execution with a state of its own.  The   *)
(* memory, the store and the call in flight then agree on what is pending.  *)

OneAtATime == "overlap" \notin Faults

OwnStates == \A x, y \in Executions : StateOf[x] = StateOf[y] => x = y

\* The checkpoint in the row of x.
Stored(x) == IF StateRow(x) = None THEN None ELSE StateRow(x).data

\* At rest what is pending in memory is the checkpoint in the store.
Agree(x) == pending[x] # None => Stored(x) = pending[x]

\* What is pending at the place of a call in flight.
PendingAt(c) ==
  LET x == Execution(c) IN
  /\ pc[c] = "lookup" => Agree(x)
  /\ pc[c] \in {"restore", "adopt"} => pending[x] = None
  /\ pc[c] = "adopt" => Stored(x) = held[c]
  /\ pc[c] \in {"decide", "take", "close", "close_finish", "close_pop"} => pending[x] = held[c]
  /\ pc[c] \in {"decide", "take", "close", "close_finish"} => Stored(x) = held[c]
  /\ pc[c] = "close_pop" => Stored(x) = None
  /\ pc[c] \in Running \union {"finish"} =>
       /\ pending[x] = None
       /\ c \in ExecuteCalls => Stored(x) = None /\ ~ Known(x)
       /\ c \in ResumeCalls => Stored(x) = held[c]
  /\ pc[c] \in {"remember", "checkpoint", "persist"} => Stored(x) = None
  /\ pc[c] = "remember" => pending[x] = None
  /\ pc[c] \in {"checkpoint", "persist"} => pending[x] = Continuation(c)
  /\ pc[c] \in {"leave"} \union Consuming =>
       /\ pausing[c] => pending[x] = Continuation(c) /\ Stored(x) = Continuation(c)
       /\ ~ pausing[c] => pending[x] = None /\ Stored(x) = None

\* What it has read of its row, and that nothing else can have registered.
RowAt(c) ==
  LET x == Execution(c) IN
  /\ pc[c] \in (Running \ {"open"}) \union {"finish", "persist", "repersist", "close_finish"}
       => StateRow(x) # None /\ copy[c] = StateRow(x)
  /\ pc[c] \in {"plan", "step", "compose"} => active[x] = c
  /\ pc[c] \in {"remember", "checkpoint", "persist"} => Known(x) /\ StateRow(x).status = "escalated"
  /\ pc[c] \in {"leave"} \union Consuming => Known(x) \/ outcome[c] = "refused"
  /\ pc[c] \in Storing \union Consuming /\ pausing[c] => outcome[c] = "escalated"
  /\ pc[c] \in {"recheck", "repersist"} => pausing[c] /\ merged[c] = Continuation(c)

Alone ==
  \A c, d \in Calls : Execution(c) = Execution(d) /\ InFlight(c) /\ InFlight(d) => c = d

Checkpointed(x) == Stored(x) # None => Known(x) /\ StateRow(x).status = "paused"

\* The execution of c, as c sees it.
Synced(c) ==
  /\ InFlight(c) => PendingAt(c) /\ RowAt(c)
  /\ ~ InFlight(c) => Agree(Execution(c))
  /\ Checkpointed(Execution(c))

\* Whether a call is in flight or not.
Settled(x) ==
  /\ (\A c \in Calls : Execution(c) = x => ~ InFlight(c)) => Agree(x)
  /\ Checkpointed(x)

SyncInv ==
  /\ Alone
  /\ \A x \in Executions : Settled(x)
  /\ \A c \in Calls : InFlight(c) => PendingAt(c) /\ RowAt(c)

-----------------------------------------------------------------------------
(* What a call sees of its execution. *)

\* The store finds the row of an execution exactly when it is known.
LEMMA RowIsKnown ==
  ASSUME NEW c \in Calls, Types, Places
  PROVE  /\ HasRow(c) <=> Known(Execution(c))
         /\ Row(c) = StateRow(Execution(c))
         /\ StateRow(Execution(c)) \in Store!State \union {None}
<1>1. /\ Execution(c) \in Executions
      /\ StateKey(c) = StateOf[Execution(c)]
      /\ StateKey(c) \in StateKeys
  BY RuntimeAssumption DEF Execution, StateKey
<1>2. Row(c) = StateRow(Execution(c)) /\ Row(c) \in Store!State \union {None}
  BY <1>1 DEF Row, StateRow, Types, Store!StateTypeOK
<1>3. ASSUME HasRow(c) PROVE Known(Execution(c))
  <2>1. Row(c) \in Store!State /\ Row(c).execution_id = Execution(c)
    BY <1>3, RowIsOwn
  <2> QED BY <1>2, <2>1, NoneAssumption DEF Known
<1>4. ASSUME Known(Execution(c)) PROVE HasRow(c)
  <2> DEFINE S == Store!Found(Principal, Execution(c))
  <2>1. StateKey(c) \in S
    BY <1>1, <1>2, <1>4 DEF Known, StateRow, Store!Found, Store!State
  <2>2. \A k \in S : k = StateKey(c)
    BY <1>1, NoneAssumption DEF Store!Found, Places, RowPlace
  <2>3. states[StateKey(c)].version \in Nat
    BY <1>1, <1>2, <1>4 DEF Known, StateRow, Store!State
  <2>4. StateKey(c) \in Store!Newest(Principal, Execution(c))
    BY <2>1, <2>2, <2>3 DEF Store!Newest
  <2> QED BY <2>4 DEF HasRow
<1> QED BY <1>1, <1>2, <1>3, <1>4

\* Only a call that stops at a gate pauses.
LEMMA RunsUnpaused ==
  ASSUME NEW c \in Calls, Places, pausing[c]
  PROVE  pc[c] \notin Running \union {"idle", "lookup", "restore", "adopt", "decide", "take"}
BY DEF Places, Place, Running, Storing, Consuming, Ended

\* A run that has ended goes to save its outcome.
LEMMA EndSyncs ==
  ASSUME NEW c \in Calls, Types, Places, Synced(c), pc[c] \in Running \ {"open"},
         pc' = [pc EXCEPT ![c] = "finish"],
         pausing'[c] => outcome'[c] = "escalated",
         UNCHANGED <<states, pending, active, copy, held>>
  PROVE  Synced(c)'
BY DEF Synced, PendingAt, RowAt, Checkpointed, Stored, Known, StateRow, Agree, InFlight,
   Running, Storing, Consuming, Types, CallTypes, Execution

\* A continuation is no None.
LEMMA ContinuationIsSome ==
  ASSUME NEW c \in Calls, Types, Places,
         pc[c] \in Storing \union Consuming, pausing[c]
  PROVE  Continuation(c) \in Pending /\ Continuation(c) # None
<1>1. <<c, at[c]>> \in Requests
  BY StepIsRequested DEF Places, Place
<1>2. outcome[c] \in Outcomes
  BY DEF Places, Place, Types, CallTypes
<1>3. Continuation(c) \in Pending
  BY <1>1, <1>2 DEF Continuation, Pending, Types, CallTypes
<1> QED BY <1>3, NoneAssumption

\* The row a checkpoint goes to is there and as it was read.
LEMMA CheckpointNeverRaises ==
  ASSUME NEW c \in Calls, Types, Places, Synced(c), CheckpointRaises(c) \/ RepersistRaises(c)
  PROVE  FALSE
<1>1. /\ HasRow(c) <=> Known(Execution(c))
      /\ Row(c) = StateRow(Execution(c))
      /\ Row(c) = states[StateKey(c)]
  BY RowIsKnown DEF Row
<1>2. pc[c] \in {"checkpoint", "persist", "recheck", "repersist"} /\ CheckpointRefused(c)
  BY DEF CheckpointRaises, RepersistRaises
<1>3. pc[c] \in {"checkpoint", "recheck"} => Resumable(c)
  BY <1>1, <1>2, ContinuationIsSome
  DEF Resumable, Synced, PendingAt, RowAt, Checkpointed, Stored, InFlight, Consuming
<1>4. pc[c] \in {"persist", "repersist"} => copy[c] = Row(c) /\ copy[c] \in Store!State
  BY <1>1, <1>2 DEF Synced, RowAt, InFlight, Types, CallTypes
<1>5. pc[c] \in {"persist", "repersist"}
        => Store!MaySave(StateKey(c), copy[c], copy[c].version)
  BY <1>1, <1>4, NoneAssumption DEF Store!MaySave, Store!State
<1> QED BY <1>2, <1>3, <1>5 DEF CheckpointRefused

\* The look at the traces leaves memory, store and call in line.
LEMMA CheckTracesSyncs ==
  ASSUME NEW c \in Calls, Types, Places, OwnStates, Synced(c), CheckTraces(c)
  PROVE  Synced(c)'
<1>1. /\ Execution(c) \in Executions
      /\ StateKey(c) = StateOf[Execution(c)]
      /\ StateKey(c) \in StateKeys
  BY RuntimeAssumption DEF Execution, StateKey
<1>2. Place(c) /\ (c \in ResumeCalls => ResumePlace(c))
  BY DEF Places
<1> QED BY <1>1, <1>2, NoneAssumption
    DEF CheckTraces, Execution, MayStart, InFlight, Goto, Answer, tableVars, localVars,
        brokerVars, Synced, PendingAt, RowAt, Checkpointed, Stored, Known, StateRow, Agree,
        Running, Storing, Consuming, Types, CallTypes, TableTypes, Store!StateTypeOK, Place,
        ResumePlace, ExecutePlaces

\* The look into the store leaves memory, store and call in line.
LEMMA CheckStoreSyncs ==
  ASSUME NEW c \in Calls, Types, Places, OwnStates, Synced(c), CheckStore(c)
  PROVE  Synced(c)'
<1>1. HasRow(c) <=> Known(Execution(c))
  BY RowIsKnown
<1>2. pc[c] = "lookup" /\ (HasRow(c) => pc' = [pc EXCEPT ![c] = "done"])
      /\ (~ HasRow(c) => pc' = [pc EXCEPT ![c] = "open"])
      /\ UNCHANGED <<states, pending, active, copy, held, pausing, outcome, merged, at, approved>>
  BY DEF CheckStore, Goto, Answer, tableVars, localVars
<1>3. c \notin ResumeCalls
  BY <1>2 DEF Places, Place, ResumePlaces, Approving, Running, Storing, Consuming, Closing, Ended
<1> QED BY <1>1, <1>2, <1>3
    DEF Synced, PendingAt, RowAt, Checkpointed, Stored, Known, StateRow, Agree, InFlight,
        Running, Storing, Consuming, Types, CallTypes, TableTypes, Store!StateTypeOK, Execution

\* Opening the state leaves memory, store and call in line.
LEMMA OpenSyncs ==
  ASSUME NEW c \in Calls, Types, Places, OwnStates, Synced(c), Open(c)
  PROVE  Synced(c)'
<1>1. /\ Execution(c) \in Executions
      /\ StateKey(c) = StateOf[Execution(c)]
      /\ StateKey(c) \in StateKeys
  BY RuntimeAssumption DEF Execution, StateKey

<1>2. Store!GetOrCreate(StateKey(c), Principal, "1")
      /\ copy' = [copy EXCEPT ![c] = Store!Opened(StateKey(c), Principal, "1")]
      /\ pc[c] = "open" /\ pc' = [pc EXCEPT ![c] = "admit"]
      /\ UNCHANGED <<pending, active, held, pausing, outcome, merged, at, approved>>
  BY DEF Open, OpenState, Goto, tableVars
<1>3. StateRow(Execution(c))' = Store!Opened(StateKey(c), Principal, "1")
      /\ StateRow(Execution(c))' \in Store!State
  BY <1>1, <1>2, OpenedIsState
  DEF StateRow, Store!GetOrCreate, Types, Store!StateTypeOK, Execution
<1>4. /\ StateRow(Execution(c))' # None
      /\ Stored(Execution(c))' = Stored(Execution(c))
      /\ Known(Execution(c))' <=> Known(Execution(c))
      /\ StateRow(Execution(c)) # None => StateRow(Execution(c))' = StateRow(Execution(c))
  BY <1>1, <1>3, NoneAssumption
  DEF StateRow, Stored, Known, Store!Opened, Store!FreshState, Execution
<1>5. copy'[c] = StateRow(Execution(c))'
  BY <1>2, <1>3 DEF Types, CallTypes
<1>6. Checkpointed(Execution(c))'
  BY <1>4 DEF Checkpointed, Synced, Stored
<1> QED BY <1>2, <1>4, <1>5, <1>6
    DEF Synced, PendingAt, RowAt, InFlight, Running, Storing, Consuming, Types, CallTypes,
        Execution

\* Registering leaves memory, store and call in line.
LEMMA AdmitSyncs ==
  ASSUME NEW c \in Calls, Types, Places, OwnStates, Synced(c), Admit(c)
  PROVE  Synced(c)'
<1>1. /\ Execution(c) \in Executions
      /\ StateKey(c) = StateOf[Execution(c)]
      /\ StateKey(c) \in StateKeys
  BY RuntimeAssumption DEF Execution, StateKey
<1>2. Place(c) /\ (c \in ResumeCalls => ResumePlace(c))
  BY DEF Places
<1> QED BY <1>1, <1>2, NoneAssumption
    DEF Admit, Execution, Goto, Answer, Rearmed, tableVars, localVars, brokerVars, Synced,
        PendingAt, RowAt, Checkpointed, Stored, Known, StateRow, Agree, InFlight, Running,
        Storing, Consuming, Types, CallTypes, TableTypes, Store!StateTypeOK, Place, ResumePlace,
        ExecutePlaces

\* Accepting the plan leaves memory, store and call in line.
LEMMA AcceptPlanSyncs ==
  ASSUME NEW c \in Calls, Types, Places, OwnStates, Synced(c), AcceptPlan(c)
  PROVE  Synced(c)'
<1>1. /\ Execution(c) \in Executions
      /\ StateKey(c) = StateOf[Execution(c)]
      /\ StateKey(c) \in StateKeys
  BY RuntimeAssumption DEF Execution, StateKey
<1>2. Place(c) /\ (c \in ResumeCalls => ResumePlace(c))
  BY DEF Places
<1> QED BY <1>1, <1>2, NoneAssumption
    DEF AcceptPlan, Goto, tableVars, localVars, brokerVars, Synced, PendingAt, RowAt,
        Checkpointed, Stored, Known, StateRow, Agree, InFlight, Running, Storing, Consuming,
        Types, CallTypes, TableTypes, Store!StateTypeOK, Place, ResumePlace, ExecutePlaces

\* A refused input leaves memory, store and call in line.
LEMMA RefuseInputSyncs ==
  ASSUME NEW c \in Calls, Types, Places, OwnStates, Synced(c), RefuseInput(c)
  PROVE  Synced(c)'
<1>1. pc[c] = "plan" /\ c \in ExecuteCalls /\ pc' = [pc EXCEPT ![c] = "leave"]
      /\ outcome' = [outcome EXCEPT ![c] = "refused"]
      /\ UNCHANGED <<states, pending, active, copy, held, pausing>>
  BY DEF RefuseInput, Goto
<1>2. ~ pausing'[c]
  BY <1>1, RunsUnpaused DEF Running
<1> QED BY <1>1, <1>2
    DEF Synced, PendingAt, RowAt, Checkpointed, Stored, Known, StateRow, Agree, InFlight,
        Running, Storing, Consuming, Types, CallTypes, TableTypes, Store!StateTypeOK, Execution

\* A failing provider leaves memory, store and call in line.
LEMMA ProviderFailsSyncs ==
  ASSUME NEW c \in Calls, Types, Places, OwnStates, Synced(c), ProviderFails(c)
  PROVE  Synced(c)'
<1>1. pc[c] \in Running \ {"open"} /\ pc' = [pc EXCEPT ![c] = "finish"]
      /\ UNCHANGED <<states, tableVars, pausing, copy, held>>
  BY DEF ProviderFails, EndsAs, Decided, Goto, Running
<1>2. ~ pausing'[c]
  BY <1>1, RunsUnpaused
<1> QED BY <1>1, <1>2, EndSyncs DEF tableVars

\* A refused plan leaves memory, store and call in line.
LEMMA RefusePlanSyncs ==
  ASSUME NEW c \in Calls, Types, Places, OwnStates, Synced(c), RefusePlan(c)
  PROVE  Synced(c)'
<1>1. pc[c] \in Running \ {"open"} /\ pc' = [pc EXCEPT ![c] = "finish"]
      /\ UNCHANGED <<states, tableVars, pausing, copy, held>>
  BY DEF RefusePlan, EndsAs, Decided, Goto, Running
<1>2. ~ pausing'[c]
  BY <1>1, RunsUnpaused
<1> QED BY <1>1, <1>2, EndSyncs DEF tableVars

\* An interrupted run leaves memory, store and call in line.
LEMMA InterruptSyncs ==
  ASSUME NEW c \in Calls, Types, Places, OwnStates, Synced(c), Interrupt(c)
  PROVE  Synced(c)'
<1>1. pc[c] \in Running \ {"open"} /\ pc' = [pc EXCEPT ![c] = "finish"]
      /\ UNCHANGED <<states, tableVars, pausing, held>>
  BY DEF Interrupt, Decided, Goto, Running
<1>2. active[Execution(c)] = c
  BY DEF Interrupt, Synced, RowAt, InFlight
<1>3. copy' = copy
  BY <1>2 DEF Interrupt, Types, CallTypes
<1>4. ~ pausing'[c]
  BY <1>1, RunsUnpaused
<1> QED BY <1>1, <1>3, <1>4, EndSyncs DEF tableVars

\* An interrupt that escapes leaves memory, store and call in line.
LEMMA InterruptEscapesSyncs ==
  ASSUME NEW c \in Calls, Types, Places, OwnStates, Synced(c), InterruptEscapes(c)
  PROVE  Synced(c)'
<1>1. /\ Execution(c) \in Executions
      /\ StateKey(c) = StateOf[Execution(c)]
      /\ StateKey(c) \in StateKeys
  BY RuntimeAssumption DEF Execution, StateKey
<1>2. Place(c) /\ (c \in ResumeCalls => ResumePlace(c))
  BY DEF Places
<1> QED BY <1>1, <1>2, NoneAssumption
    DEF InterruptEscapes, Execution, Answer, Goto, Rearmed, tableVars, localVars, brokerVars,
        Synced, PendingAt, RowAt, Checkpointed, Stored, Known, StateRow, Agree, InFlight,
        Running, Storing, Consuming, Types, CallTypes, TableTypes, Store!StateTypeOK, Place,
        ResumePlace, ExecutePlaces

\* A step that raises leaves memory, store and call in line.
LEMMA StepRaisesSyncs ==
  ASSUME NEW c \in Calls, Types, Places, OwnStates, Synced(c), StepRaises(c)
  PROVE  Synced(c)'
<1>1. /\ Execution(c) \in Executions
      /\ StateKey(c) = StateOf[Execution(c)]
      /\ StateKey(c) \in StateKeys
  BY RuntimeAssumption DEF Execution, StateKey
<1>2. Place(c) /\ (c \in ResumeCalls => ResumePlace(c))
  BY DEF Places
<1> QED BY <1>1, <1>2, NoneAssumption
    DEF StepRaises, Execution, Answer, Goto, Rearmed, Unregistered, HasStep, tableVars, localVars,
        brokerVars, Synced, PendingAt, RowAt, Checkpointed, Stored, Known, StateRow, Agree,
        InFlight, Running, Storing, Consuming, Types, CallTypes, TableTypes, Store!StateTypeOK,
        Place, ResumePlace, ExecutePlaces

\* A denied step leaves memory, store and call in line.
LEMMA DenySyncs ==
  ASSUME NEW c \in Calls, Types, Places, OwnStates, Synced(c), Deny(c)
  PROVE  Synced(c)'
<1>1. pc[c] \in Running \ {"open"} /\ pc' = [pc EXCEPT ![c] = "finish"]
      /\ UNCHANGED <<states, tableVars, pausing, copy, held>>
  BY DEF Deny, HasStep, EndsAs, Decided, Goto, Running
<1>2. ~ pausing'[c]
  BY <1>1, RunsUnpaused
<1> QED BY <1>1, <1>2, EndSyncs DEF tableVars

\* A handled step leaves memory, store and call in line.
LEMMA HandleSyncs ==
  ASSUME NEW c \in Calls, Types, Places, OwnStates, Synced(c), Handle(c)
  PROVE  Synced(c)'
<1>1. /\ Execution(c) \in Executions
      /\ StateKey(c) = StateOf[Execution(c)]
      /\ StateKey(c) \in StateKeys
  BY RuntimeAssumption DEF Execution, StateKey
<1>2. Place(c) /\ (c \in ResumeCalls => ResumePlace(c))
  BY DEF Places
<1> QED BY <1>1, <1>2, NoneAssumption
    DEF Handle, Execution, HasStep, Permitted, Action, tableVars, localVars, brokerVars, Synced,
        PendingAt, RowAt, Checkpointed, Stored, Known, StateRow, Agree, InFlight, Running,
        Storing, Consuming, Types, CallTypes, TableTypes, Store!StateTypeOK, Place, ResumePlace,
        ExecutePlaces

\* Stopping at the gate leaves memory, store and call in line.
LEMMA GateSyncs ==
  ASSUME NEW c \in Calls, Types, Places, OwnStates, Synced(c), Gate(c)
  PROVE  Synced(c)'
<1>1. pc[c] \in Running \ {"open"} /\ pc' = [pc EXCEPT ![c] = "finish"]
      /\ outcome' = [outcome EXCEPT ![c] = "escalated"]
      /\ UNCHANGED <<states, tableVars, copy, held>>
  BY DEF Gate, HasStep, Decided, Goto, Running
<1> QED BY <1>1, EndSyncs DEF tableVars, Types, CallTypes

\* The end of the plan leaves memory, store and call in line.
LEMMA FinishPlanSyncs ==
  ASSUME NEW c \in Calls, Types, Places, OwnStates, Synced(c), FinishPlan(c)
  PROVE  Synced(c)'
<1>1. /\ Execution(c) \in Executions
      /\ StateKey(c) = StateOf[Execution(c)]
      /\ StateKey(c) \in StateKeys
  BY RuntimeAssumption DEF Execution, StateKey
<1>2. Place(c) /\ (c \in ResumeCalls => ResumePlace(c))
  BY DEF Places
<1> QED BY <1>1, <1>2, NoneAssumption
    DEF FinishPlan, Execution, Goto, tableVars, localVars, brokerVars, Synced, PendingAt, RowAt,
        Checkpointed, Stored, Known, StateRow, Agree, InFlight, Running, Storing, Consuming,
        Types, CallTypes, TableTypes, Store!StateTypeOK, Place, ResumePlace, ExecutePlaces

\* The composition leaves memory, store and call in line.
LEMMA ComposeSyncs ==
  ASSUME NEW c \in Calls, Types, Places, OwnStates, Synced(c), Compose(c)
  PROVE  Synced(c)'
<1>1. pc[c] \in Running \ {"open"} /\ pc' = [pc EXCEPT ![c] = "finish"]
      /\ UNCHANGED <<states, tableVars, pausing, copy, held>>
  BY DEF Compose, Decided, Goto, Running
<1>2. ~ pausing'[c]
  BY <1>1, RunsUnpaused
<1> QED BY <1>1, <1>2, EndSyncs DEF tableVars

\* Saving the outcome leaves memory, store and call in line.
LEMMA FinishSyncs ==
  ASSUME NEW c \in Calls, Types, Places, OwnStates, Synced(c), Finish(c)
  PROVE  Synced(c)'
<1>1. /\ Execution(c) \in Executions
      /\ StateKey(c) = StateOf[Execution(c)]
      /\ StateKey(c) \in StateKeys
  BY RuntimeAssumption DEF Execution, StateKey

<1>2. /\ pc[c] = "finish" /\ copy[c] = StateRow(Execution(c)) /\ copy[c] # None
      /\ outcome[c] # None
  BY DEF Finish, Synced, RowAt, InFlight, Places, Place, Storing, Closing
<1>3. Store!MaySave(StateKey(c), FinishedState(c), copy[c].version)
  <2>1. copy[c] \in Store!State /\ StateRow(Execution(c)) = states[StateKey(c)]
    BY <1>1, <1>2 DEF Types, CallTypes, StateRow
  <2>2. FinishedState(c).owner = copy[c].owner /\ copy[c].version # None
    BY <2>1, NoneAssumption DEF FinishedState, Store!State, Broker!BrokerAssumption
  <2> QED BY <1>2, <2>1, <2>2 DEF Store!MaySave
<1>4. /\ states' = [states EXCEPT ![StateKey(c)] = FinishedState(c)]
      /\ pc' = [pc EXCEPT ![c] = IF pausing[c] THEN "remember" ELSE "leave"]
      /\ UNCHANGED <<pending, active, outcome, pausing, copy, held, merged, at, approved>>
  BY <1>3 DEF Finish, SaveFinished, Store!Save, Goto
<1>5. /\ FinishedState(c) \in Store!State
      /\ FinishedState(c).execution_id = Execution(c)
      /\ FinishedState(c).data = None
  BY <1>2, FinishedIsState
<1>6. /\ StateRow(Execution(c))' = FinishedState(c)
      /\ Stored(Execution(c))' = None /\ Known(Execution(c))'
  BY <1>1, <1>4, <1>5, NoneAssumption
  DEF StateRow, Stored, Known, Execution, Types, Store!StateTypeOK
<1>7. outcome[c] = "escalated" => FinishedState(c).status = "escalated"
  <2>1. copy[c] \in Store!State
    BY <1>2 DEF Types, CallTypes
  <2> QED BY <2>1 DEF FinishedState, StateStatusOf, Store!State
<1> QED BY <1>2, <1>4, <1>6, <1>7
    DEF Synced, PendingAt, RowAt, Checkpointed, InFlight, Running, Storing, Consuming, Types,
        CallTypes, Execution

\* Remembering the continuation leaves memory, store and call in line.
LEMMA RememberSyncs ==
  ASSUME NEW c \in Calls, Types, Places, OwnStates, Synced(c), Remember(c)
  PROVE  Synced(c)'
<1>1. /\ Execution(c) \in Executions
      /\ StateKey(c) = StateOf[Execution(c)]
      /\ StateKey(c) \in StateKeys
  BY RuntimeAssumption DEF Execution, StateKey
<1>2. Place(c) /\ (c \in ResumeCalls => ResumePlace(c))
  BY DEF Places
<1> QED BY <1>1, <1>2, NoneAssumption
    DEF Remember, Execution, Goto, Continuation, tableVars, localVars, brokerVars, Synced,
        PendingAt, RowAt, Checkpointed, Stored, Known, StateRow, Agree, InFlight, Running,
        Storing, Consuming, Types, CallTypes, TableTypes, Store!StateTypeOK, Place, ResumePlace,
        ExecutePlaces

\* Finding the row to checkpoint leaves memory, store and call in line.
LEMMA CheckpointSyncs ==
  ASSUME NEW c \in Calls, Types, Places, OwnStates, Synced(c), Checkpoint(c)
  PROVE  Synced(c)'
<1>1. /\ Execution(c) \in Executions
      /\ StateKey(c) = StateOf[Execution(c)]
      /\ StateKey(c) \in StateKeys
  BY RuntimeAssumption DEF Execution, StateKey

<1>2. /\ pc[c] = "checkpoint" /\ pc' = [pc EXCEPT ![c] = "persist"]
      /\ copy' = [copy EXCEPT ![c] = Row(c)]
      /\ UNCHANGED <<states, pending, active, outcome, pausing, held, merged, at, approved>>
  BY DEF Checkpoint, FindRow, Goto, tableVars, brokerVars
<1>3. Row(c) = StateRow(Execution(c)) /\ HasRow(c) /\ Known(Execution(c))
  BY RowIsKnown DEF Checkpoint, FindRow, Resumable
<1>4. Continuation(c)' = Continuation(c)
  BY <1>2 DEF Continuation
<1> QED BY <1>2, <1>3, <1>4
    DEF Synced, PendingAt, RowAt, Checkpointed, Stored, Known, StateRow, Agree, InFlight,
        Running, Storing, Consuming, Types, CallTypes, TableTypes, Store!StateTypeOK, Execution

\* Saving the checkpoint leaves memory, store and call in line.
LEMMA PersistSyncs ==
  ASSUME NEW c \in Calls, Types, Places, OwnStates, Synced(c), Persist(c)
  PROVE  Synced(c)'
<1>1. /\ Execution(c) \in Executions
      /\ StateKey(c) = StateOf[Execution(c)]
      /\ StateKey(c) \in StateKeys
  BY RuntimeAssumption DEF Execution, StateKey

<1>2. /\ pc[c] = "persist" /\ copy[c] = StateRow(Execution(c)) /\ copy[c] # None
      /\ copy[c].execution_id = Execution(c)
      /\ pausing[c] /\ outcome[c] = "escalated"
  BY DEF Persist, Synced, RowAt, InFlight, Places, Place, Storing, Consuming
<1>3. Continuation(c) \in Pending /\ pending[Execution(c)] = Continuation(c)
  BY <1>2, ContinuationIsPending DEF Places, Synced, PendingAt, InFlight
<1> DEFINE s == [copy[c] EXCEPT !.status = "paused", !.version = copy[c].version + 1,
                                !.data = Continuation(c)]
<1>4. /\ states' = [states EXCEPT ![StateKey(c)] = s]
      /\ pc' = [pc EXCEPT ![c] = "leave"]
      /\ UNCHANGED <<pending, active, outcome, pausing, copy, held, merged, at, approved>>
  BY DEF Persist, SaveCheckpoint, Store!Save, Goto, Answer, tableVars, localVars
<1>5. s \in Store!State /\ s.execution_id = Execution(c) /\ s.data = Continuation(c)
  BY <1>2, <1>3, CheckpointIsState
<1>6. s.status = "paused"
  <2>1. copy[c] \in Store!State
    BY <1>2 DEF Types, CallTypes
  <2> QED BY <2>1 DEF Store!State
<1> HIDE DEF s
<1>7. /\ StateRow(Execution(c))' = s /\ Stored(Execution(c))' = Continuation(c)
      /\ Known(Execution(c))' /\ Checkpointed(Execution(c))'
  BY <1>1, <1>4, <1>5, <1>6, NoneAssumption
  DEF StateRow, Stored, Known, Checkpointed, Execution, Types, Store!StateTypeOK
<1>8. Continuation(c)' = Continuation(c)
  BY <1>4 DEF Continuation
<1> QED BY <1>2, <1>3, <1>4, <1>7, <1>8
    DEF Synced, PendingAt, RowAt, Agree, InFlight, Running, Storing, Consuming, Types,
        CallTypes, Execution

\* A checkpoint that is refused leaves memory, store and call in line.
LEMMA CheckpointRaisesSyncs ==
  ASSUME NEW c \in Calls, Types, Places, OwnStates, Synced(c), CheckpointRaises(c)
  PROVE  Synced(c)'
BY CheckpointNeverRaises

\* Leaving execute leaves memory, store and call in line.
LEMMA LeaveSyncs ==
  ASSUME NEW c \in Calls, Types, Places, OwnStates, Synced(c), Leave(c)
  PROVE  Synced(c)'
<1>1. /\ pc[c] = "leave"
      /\ pc' = [pc EXCEPT ![c] = "done"] \/ pc' = [pc EXCEPT ![c] = "consume"]
      /\ UNCHANGED <<states, pending, copy, held, merged, at, approved, pausing, outcome>>
  BY DEF Leave, Goto, Answer, brokerVars, localVars
<1>2. Continuation(c)' = Continuation(c)
  BY <1>1 DEF Continuation
<1> QED BY <1>1, <1>2
    DEF Synced, PendingAt, RowAt, Checkpointed, Stored, Known, StateRow, Agree, InFlight,
        Running, Storing, Consuming, Types, CallTypes, TableTypes, Store!StateTypeOK, Execution

\* Beginning a resume leaves memory, store and call in line.
LEMMA FetchSyncs ==
  ASSUME NEW c \in Calls, Types, Places, OwnStates, Synced(c), Fetch(c)
  PROVE  Synced(c)'
<1>1. /\ Execution(c) \in Executions
      /\ StateKey(c) = StateOf[Execution(c)]
      /\ StateKey(c) \in StateKeys
  BY RuntimeAssumption DEF Execution, StateKey
<1>2. Place(c) /\ (c \in ResumeCalls => ResumePlace(c))
  BY DEF Places
<1> QED BY <1>1, <1>2, NoneAssumption
    DEF Fetch, Execution, MayStart, InFlight, Goto, tableVars, localVars, brokerVars, Synced,
        PendingAt, RowAt, Checkpointed, Stored, Known, StateRow, Agree, Running, Storing,
        Consuming, Types, CallTypes, TableTypes, Store!StateTypeOK, Place, ResumePlace,
        ExecutePlaces

\* Reading the stored checkpoint leaves memory, store and call in line.
LEMMA RestoreSyncs ==
  ASSUME NEW c \in Calls, Types, Places, OwnStates, Synced(c), Restore(c)
  PROVE  Synced(c)'
<1>1. Row(c) = StateRow(Execution(c))
  BY RowIsKnown
<1>2. /\ pc[c] = "restore"
      /\ \/ pc' = [pc EXCEPT ![c] = "done"]
         \/ /\ pc' = [pc EXCEPT ![c] = "adopt"] /\ HasRow(c)
            /\ held' = [held EXCEPT ![c] = Row(c).data]
      /\ UNCHANGED <<states, pending, active, copy, merged, at, approved, pausing, outcome>>
  BY DEF Restore, HasCheckpoint, Goto, Answer, tableVars
<1>3. HasRow(c) => StateRow(Execution(c)) # None
  BY RowIsKnown DEF Known
<1> QED BY <1>1, <1>2, <1>3
    DEF Synced, PendingAt, RowAt, Checkpointed, Stored, Known, StateRow, Agree, InFlight,
        Running, Storing, Consuming, Types, CallTypes, TableTypes, Store!StateTypeOK, Execution

\* Adopting the stored checkpoint leaves memory, store and call in line.
LEMMA AdoptSyncs ==
  ASSUME NEW c \in Calls, Types, Places, OwnStates, Synced(c), Adopt(c)
  PROVE  Synced(c)'
<1>1. /\ Execution(c) \in Executions
      /\ StateKey(c) = StateOf[Execution(c)]
      /\ StateKey(c) \in StateKeys
  BY RuntimeAssumption DEF Execution, StateKey
<1>2. Place(c) /\ (c \in ResumeCalls => ResumePlace(c))
  BY DEF Places
<1> QED BY <1>1, <1>2, NoneAssumption
    DEF Adopt, Execution, Goto, tableVars, localVars, brokerVars, Synced, PendingAt, RowAt,
        Checkpointed, Stored, Known, StateRow, Agree, InFlight, Running, Storing, Consuming,
        Types, CallTypes, TableTypes, Store!StateTypeOK, Place, ResumePlace, ExecutePlaces

\* An answer that the request still waits leaves memory, store and call in line.
LEMMA StillWaitingSyncs ==
  ASSUME NEW c \in Calls, Types, Places, OwnStates, Synced(c), StillWaiting(c)
  PROVE  Synced(c)'
<1>1. /\ Execution(c) \in Executions
      /\ StateKey(c) = StateOf[Execution(c)]
      /\ StateKey(c) \in StateKeys
  BY RuntimeAssumption DEF Execution, StateKey
<1>2. Place(c) /\ (c \in ResumeCalls => ResumePlace(c))
  BY DEF Places
<1> QED BY <1>1, <1>2, NoneAssumption
    DEF StillWaiting, Answer, Goto, HeldRequest, tableVars, localVars, brokerVars, Synced,
        PendingAt, RowAt, Checkpointed, Stored, Known, StateRow, Agree, InFlight, Running,
        Storing, Consuming, Types, CallTypes, TableTypes, Store!StateTypeOK, Place, ResumePlace,
        ExecutePlaces

\* Taking the broker's decision leaves memory, store and call in line.
LEMMA DecideFromBrokerSyncs ==
  ASSUME NEW c \in Calls, Types, Places, OwnStates, Synced(c), DecideFromBroker(c)
  PROVE  Synced(c)'
<1>1. /\ Execution(c) \in Executions
      /\ StateKey(c) = StateOf[Execution(c)]
      /\ StateKey(c) \in StateKeys
  BY RuntimeAssumption DEF Execution, StateKey
<1>2. Place(c) /\ (c \in ResumeCalls => ResumePlace(c))
  BY DEF Places
<1> QED BY <1>1, <1>2, NoneAssumption
    DEF DecideFromBroker, HeldRequest, Validated, Act, Goto, ClosedAs, tableVars, localVars,
        brokerVars, Synced, PendingAt, RowAt, Checkpointed, Stored, Known, StateRow, Agree,
        InFlight, Running, Storing, Consuming, Types, CallTypes, TableTypes, Store!StateTypeOK,
        Place, ResumePlace, ExecutePlaces

\* Taking the caller's evidence leaves memory, store and call in line.
LEMMA DecideFromCallerSyncs ==
  ASSUME NEW c \in Calls, Types, Places, OwnStates, Synced(c), DecideFromCaller(c)
  PROVE  Synced(c)'
<1>1. /\ Execution(c) \in Executions
      /\ StateKey(c) = StateOf[Execution(c)]
      /\ StateKey(c) \in StateKeys
  BY RuntimeAssumption DEF Execution, StateKey
<1>2. Place(c) /\ (c \in ResumeCalls => ResumePlace(c))
  BY DEF Places
<1> QED BY <1>1, <1>2, NoneAssumption
    DEF DecideFromCaller, Validated, HeldRequest, Act, Goto, ClosedAs, tableVars, localVars,
        brokerVars, Synced, PendingAt, RowAt, Checkpointed, Stored, Known, StateRow, Agree,
        InFlight, Running, Storing, Consuming, Types, CallTypes, TableTypes, Store!StateTypeOK,
        Place, ResumePlace, ExecutePlaces

\* Taking out an approved request leaves memory, store and call in line.
LEMMA TakeSyncs ==
  ASSUME NEW c \in Calls, Types, Places, OwnStates, Synced(c), Take(c)
  PROVE  Synced(c)'
<1>1. /\ pc[c] = "take" /\ pc' = [pc EXCEPT ![c] = "open"]
      /\ pending' = [pending EXCEPT ![Execution(c)] = None]
      /\ UNCHANGED <<states, active, copy, held, merged, pausing, outcome>>
  BY DEF Take, Goto
<1>2. c \notin ExecuteCalls
  BY <1>1 DEF Places, Place, ExecutePlaces, Running, Storing, Ended
<1>3. Execution(c) \in Executions
  BY RuntimeAssumption DEF Execution
<1> QED BY <1>1, <1>2, <1>3
    DEF Synced, PendingAt, RowAt, Checkpointed, Stored, Known, StateRow, Agree, InFlight,
        Running, Storing, Consuming, Types, CallTypes, TableTypes, Store!StateTypeOK, Execution

\* Marking the request as used leaves memory, store and call in line.
LEMMA ConsumeSyncs ==
  ASSUME NEW c \in Calls, Types, Places, OwnStates, Synced(c), Consume(c)
  PROVE  Synced(c)'
<1>1. /\ pc[c] = "consume"
      /\ pc' = [pc EXCEPT ![c] = "done"] \/ pc' = [pc EXCEPT ![c] = "consume_broker"]
      /\ UNCHANGED <<states, pending, copy, held, merged, at, approved, pausing, outcome>>
  BY DEF Consume, Goto, Answer, localVars
<1>2. Continuation(c)' = Continuation(c)
  BY <1>1 DEF Continuation
<1> QED BY <1>1, <1>2
    DEF Synced, PendingAt, RowAt, Checkpointed, Stored, Known, StateRow, Agree, InFlight,
        Running, Storing, Consuming, Types, CallTypes, TableTypes, Store!StateTypeOK, Execution

\* Consuming at the broker leaves memory, store and call in line.
LEMMA ConsumeInBrokerSyncs ==
  ASSUME NEW c \in Calls, Types, Places, OwnStates, Synced(c), ConsumeInBroker(c)
  PROVE  Synced(c)'
<1>1. /\ pc[c] = "consume_broker"
      /\ pc' = [pc EXCEPT ![c] = "done"] \/ pc' = [pc EXCEPT ![c] = "merge"]
      /\ UNCHANGED <<states, pending, copy, held, merged, at, approved, pausing, outcome>>
  BY DEF ConsumeInBroker, Goto, Answer, tableVars, localVars
<1>2. Continuation(c)' = Continuation(c)
  BY <1>1 DEF Continuation
<1> QED BY <1>1, <1>2
    DEF Synced, PendingAt, RowAt, Checkpointed, Stored, Known, StateRow, Agree, InFlight,
        Running, Storing, Consuming, Types, CallTypes, TableTypes, Store!StateTypeOK, Execution

\* Merging the traces leaves memory, store and call in line.
LEMMA MergeSyncs ==
  ASSUME NEW c \in Calls, Types, Places, OwnStates, Synced(c), Merge(c)
  PROVE  Synced(c)'
<1>1. /\ pc[c] = "merge"
      /\ \/ pc' = [pc EXCEPT ![c] = "done"] /\ pending[Execution(c)] = None
         \/ /\ pc' = [pc EXCEPT ![c] = "recheck"] /\ pending[Execution(c)] # None
            /\ merged' = [merged EXCEPT ![c] = pending[Execution(c)]]
      /\ UNCHANGED <<states, pending, copy, held, at, approved, pausing, outcome>>
  BY DEF Merge, Goto, Answer, tableVars
<1>2. Continuation(c)' = Continuation(c)
  BY <1>1 DEF Continuation
<1> QED BY <1>1, <1>2
    DEF Synced, PendingAt, RowAt, Checkpointed, Stored, Known, StateRow, Agree, InFlight,
        Running, Storing, Consuming, Types, CallTypes, TableTypes, Store!StateTypeOK, Execution

\* Finding the row to rewrite leaves memory, store and call in line.
LEMMA RecheckSyncs ==
  ASSUME NEW c \in Calls, Types, Places, OwnStates, Synced(c), Recheck(c)
  PROVE  Synced(c)'
<1>1. /\ Execution(c) \in Executions
      /\ StateKey(c) = StateOf[Execution(c)]
      /\ StateKey(c) \in StateKeys
  BY RuntimeAssumption DEF Execution, StateKey

<1>2. /\ pc[c] = "recheck" /\ pc' = [pc EXCEPT ![c] = "repersist"]
      /\ copy' = [copy EXCEPT ![c] = Row(c)]
      /\ UNCHANGED <<states, pending, active, outcome, pausing, held, merged, at, approved>>
  BY DEF Recheck, FindRow, Goto, tableVars, brokerVars
<1>3. Row(c) = StateRow(Execution(c)) /\ HasRow(c) /\ Known(Execution(c))
  BY RowIsKnown DEF Recheck, FindRow, Resumable
<1>4. Continuation(c)' = Continuation(c)
  BY <1>2 DEF Continuation
<1> QED BY <1>2, <1>3, <1>4
    DEF Synced, PendingAt, RowAt, Checkpointed, Stored, Known, StateRow, Agree, InFlight,
        Running, Storing, Consuming, Types, CallTypes, TableTypes, Store!StateTypeOK, Execution

\* Rewriting the checkpoint leaves memory, store and call in line.
LEMMA RepersistSyncs ==
  ASSUME NEW c \in Calls, Types, Places, OwnStates, Synced(c), Repersist(c)
  PROVE  Synced(c)'
<1>1. /\ Execution(c) \in Executions
      /\ StateKey(c) = StateOf[Execution(c)]
      /\ StateKey(c) \in StateKeys
  BY RuntimeAssumption DEF Execution, StateKey

<1>2. /\ pc[c] = "repersist" /\ copy[c] = StateRow(Execution(c)) /\ copy[c] # None
      /\ copy[c].execution_id = Execution(c)
      /\ pausing[c] /\ outcome[c] = "escalated"
  BY DEF Repersist, Synced, RowAt, InFlight, Places, Place, Storing, Consuming
<1>3. merged[c] \in Pending /\ pending[Execution(c)] = merged[c]
  BY <1>2 DEF Places, Place, Synced, PendingAt, RowAt, InFlight, Consuming, Types, CallTypes
<1> DEFINE s == [copy[c] EXCEPT !.status = "paused", !.version = copy[c].version + 1,
                                !.data = merged[c]]
<1>4. /\ states' = [states EXCEPT ![StateKey(c)] = s]
      /\ pc' = [pc EXCEPT ![c] = "done"]
      /\ UNCHANGED <<pending, active, outcome, pausing, copy, held, merged, at, approved>>
  BY DEF Repersist, SaveCheckpoint, Store!Save, Goto, Answer, tableVars, localVars
<1>5. s \in Store!State /\ s.execution_id = Execution(c) /\ s.data = merged[c]
  BY <1>2, <1>3, CheckpointIsState
<1>6. s.status = "paused"
  <2>1. copy[c] \in Store!State
    BY <1>2 DEF Types, CallTypes
  <2> QED BY <2>1 DEF Store!State
<1> HIDE DEF s
<1>7. /\ StateRow(Execution(c))' = s /\ Stored(Execution(c))' = merged[c]
      /\ Known(Execution(c))' /\ Checkpointed(Execution(c))'
  BY <1>1, <1>4, <1>5, <1>6, NoneAssumption
  DEF StateRow, Stored, Known, Checkpointed, Execution, Types, Store!StateTypeOK
<1>8. Continuation(c)' = Continuation(c)
  BY <1>4 DEF Continuation
<1> QED BY <1>2, <1>3, <1>4, <1>7, <1>8
    DEF Synced, PendingAt, RowAt, Agree, InFlight, Running, Storing, Consuming, Types,
        CallTypes, Execution

\* A rewrite that is refused leaves memory, store and call in line.
LEMMA RepersistRaisesSyncs ==
  ASSUME NEW c \in Calls, Types, Places, OwnStates, Synced(c), RepersistRaises(c)
  PROVE  Synced(c)'
BY CheckpointNeverRaises

\* Opening the state to close leaves memory, store and call in line.
LEMMA CloseSyncs ==
  ASSUME NEW c \in Calls, Types, Places, OwnStates, Synced(c), Close(c)
  PROVE  Synced(c)'
<1>1. /\ Execution(c) \in Executions
      /\ StateKey(c) = StateOf[Execution(c)]
      /\ StateKey(c) \in StateKeys
  BY RuntimeAssumption DEF Execution, StateKey

<1>2. Store!GetOrCreate(StateKey(c), Principal, "1")
      /\ copy' = [copy EXCEPT ![c] = Store!Opened(StateKey(c), Principal, "1")]
      /\ pc[c] = "close" /\ pc' = [pc EXCEPT ![c] = "close_finish"]
      /\ UNCHANGED <<pending, active, held, pausing, outcome, merged, at, approved>>
  BY DEF Close, OpenState, Goto, tableVars
<1>3. StateRow(Execution(c))' = Store!Opened(StateKey(c), Principal, "1")
      /\ StateRow(Execution(c))' \in Store!State
  BY <1>1, <1>2, OpenedIsState
  DEF StateRow, Store!GetOrCreate, Types, Store!StateTypeOK, Execution
<1>4. /\ StateRow(Execution(c))' # None
      /\ Stored(Execution(c))' = Stored(Execution(c))
      /\ Known(Execution(c))' <=> Known(Execution(c))
      /\ StateRow(Execution(c)) # None => StateRow(Execution(c))' = StateRow(Execution(c))
  BY <1>1, <1>3, NoneAssumption
  DEF StateRow, Stored, Known, Store!Opened, Store!FreshState, Execution
<1>5. copy'[c] = StateRow(Execution(c))'
  BY <1>2, <1>3 DEF Types, CallTypes
<1>6. Checkpointed(Execution(c))'
  BY <1>4 DEF Checkpointed, Synced, Stored
<1> QED BY <1>2, <1>4, <1>5, <1>6
    DEF Synced, PendingAt, RowAt, InFlight, Running, Storing, Consuming, Types, CallTypes,
        Execution

\* Saving a closed request leaves memory, store and call in line.
LEMMA CloseFinishSyncs ==
  ASSUME NEW c \in Calls, Types, Places, OwnStates, Synced(c), CloseFinish(c)
  PROVE  Synced(c)'
<1>1. /\ Execution(c) \in Executions
      /\ StateKey(c) = StateOf[Execution(c)]
      /\ StateKey(c) \in StateKeys
  BY RuntimeAssumption DEF Execution, StateKey

<1>2. /\ pc[c] = "close_finish" /\ copy[c] = StateRow(Execution(c)) /\ copy[c] # None
      /\ outcome[c] # None
  BY DEF CloseFinish, Synced, RowAt, InFlight, Places, Place, Storing, Closing
<1>3. Store!MaySave(StateKey(c), FinishedState(c), copy[c].version)
  <2>1. copy[c] \in Store!State /\ StateRow(Execution(c)) = states[StateKey(c)]
    BY <1>1, <1>2 DEF Types, CallTypes, StateRow
  <2>2. FinishedState(c).owner = copy[c].owner /\ copy[c].version # None
    BY <2>1, NoneAssumption DEF FinishedState, Store!State, Broker!BrokerAssumption
  <2> QED BY <1>2, <2>1, <2>2 DEF Store!MaySave
<1>4. /\ states' = [states EXCEPT ![StateKey(c)] = FinishedState(c)]
      /\ pc' = [pc EXCEPT ![c] = "close_pop"]
      /\ UNCHANGED <<pending, active, outcome, pausing, copy, held, merged, at, approved>>
  BY <1>3 DEF CloseFinish, SaveFinished, Store!Save, Goto
<1>5. /\ FinishedState(c) \in Store!State
      /\ FinishedState(c).execution_id = Execution(c)
      /\ FinishedState(c).data = None
  BY <1>2, FinishedIsState
<1>6. /\ StateRow(Execution(c))' = FinishedState(c)
      /\ Stored(Execution(c))' = None /\ Known(Execution(c))'
  BY <1>1, <1>4, <1>5, NoneAssumption
  DEF StateRow, Stored, Known, Execution, Types, Store!StateTypeOK
<1> QED BY <1>2, <1>4, <1>6
    DEF Synced, PendingAt, RowAt, Checkpointed, InFlight, Running, Storing, Consuming, Types,
        CallTypes, Execution

\* Dropping a closed request leaves memory, store and call in line.
LEMMA ClosePopSyncs ==
  ASSUME NEW c \in Calls, Types, Places, OwnStates, Synced(c), ClosePop(c)
  PROVE  Synced(c)'
<1>1. /\ Execution(c) \in Executions
      /\ StateKey(c) = StateOf[Execution(c)]
      /\ StateKey(c) \in StateKeys
  BY RuntimeAssumption DEF Execution, StateKey
<1>2. Place(c) /\ (c \in ResumeCalls => ResumePlace(c))
  BY DEF Places
<1> QED BY <1>1, <1>2, NoneAssumption
    DEF ClosePop, Execution, Answer, Goto, tableVars, localVars, brokerVars, Synced, PendingAt,
        RowAt, Checkpointed, Stored, Known, StateRow, Agree, InFlight, Running, Storing,
        Consuming, Types, CallTypes, TableTypes, Store!StateTypeOK, Place, ResumePlace,
        ExecutePlaces

-----------------------------------------------------------------------------
(* What other executions see of a step. *)

\* A call writes its own execution's tables and row only.
Elsewhere(c) ==
  \A x \in Executions \ {Execution(c)} :
    pending'[x] = pending[x] /\ active'[x] = active[x] /\ StateRow(x)' = StateRow(x)

\* A call writes its own execution's entries and row, nobody else's.
LEMMA CallsStayHome ==
  ASSUME NEW c \in Calls, Types, OwnStates, Execute(c) \/ Resume(c)
  PROVE  Elsewhere(c)
<1>1. /\ Execution(c) \in Executions
      /\ StateKey(c) = StateOf[Execution(c)]
      /\ StateKey(c) \in StateKeys
  BY RuntimeAssumption DEF Execution, StateKey
<1>2. ASSUME NEW v, states' = [states EXCEPT ![StateKey(c)] = v] \/ states' = states
      PROVE  \A x \in Executions \ {Execution(c)} : StateRow(x)' = StateRow(x)
  BY <1>1, <1>2, RuntimeAssumption DEF OwnStates, StateRow, Types, Store!StateTypeOK
<1>3. \/ states' = states
      \/ \E v : states' = [states EXCEPT ![StateKey(c)] = v]
  <2>1. CASE Execute(c)
    BY <2>1
    DEF CheckTraces, CheckStore, Open, Admit, AcceptPlan, RefuseInput, ProviderFails, RefusePlan,
        Interrupt, InterruptEscapes, StepRaises, Deny, Handle, Gate, FinishPlan, Compose, Finish,
        Remember, Checkpoint, Persist, CheckpointRaises, Leave, Execute, OpenState, EndsAs,
        FindRow, SaveFinished, SaveCheckpoint, Store!Save, Store!GetOrCreate
  <2>2. CASE Resume(c)
    BY <2>2
    DEF Fetch, Restore, Adopt, StillWaiting, DecideFromBroker, DecideFromCaller, Take, Consume,
        ConsumeInBroker, Merge, Recheck, Repersist, RepersistRaises, Close, CloseFinish,
        ClosePop, Resume, OpenState, FindRow, SaveFinished, SaveCheckpoint, Store!Save,
        Store!GetOrCreate
  <2> QED BY <2>1, <2>2
<1>4. \/ pending' = pending
      \/ \E v : pending' = [pending EXCEPT ![Execution(c)] = v]
  <2>1. CASE Execute(c)
    BY <2>1
    DEF CheckTraces, CheckStore, Open, Admit, AcceptPlan, RefuseInput, ProviderFails, RefusePlan,
        Interrupt, InterruptEscapes, StepRaises, Deny, Handle, Gate, FinishPlan, Compose, Finish,
        Remember, Checkpoint, Persist, CheckpointRaises, Leave, Execute, OpenState, EndsAs,
        FindRow, Rearmed, tableVars
  <2>2. CASE Resume(c)
    BY <2>2
    DEF Fetch, Restore, Adopt, StillWaiting, DecideFromBroker, DecideFromCaller, Take, Consume,
        ConsumeInBroker, Merge, Recheck, Repersist, RepersistRaises, Close, CloseFinish,
        ClosePop, Resume, OpenState, FindRow, tableVars
  <2> QED BY <2>1, <2>2
<1>5. \/ active' = active
      \/ \E v : active' = [active EXCEPT ![Execution(c)] = v]
  <2>1. CASE Execute(c)
    BY <2>1
    DEF CheckTraces, CheckStore, Open, Admit, AcceptPlan, RefuseInput, ProviderFails, RefusePlan,
        Interrupt, InterruptEscapes, StepRaises, Deny, Handle, Gate, FinishPlan, Compose, Finish,
        Remember, Checkpoint, Persist, CheckpointRaises, Leave, Execute, OpenState, EndsAs,
        FindRow, Unregistered, tableVars
  <2>2. CASE Resume(c)
    BY <2>2
    DEF Fetch, Restore, Adopt, StillWaiting, DecideFromBroker, DecideFromCaller, Take, Consume,
        ConsumeInBroker, Merge, Recheck, Repersist, RepersistRaises, Close, CloseFinish,
        ClosePop, Resume, OpenState, FindRow, tableVars
  <2> QED BY <2>1, <2>2
<1>6. \A x \in Executions \ {Execution(c)} : StateRow(x)' = StateRow(x)
  BY <1>2, <1>3
<1>7. \A x \in Executions \ {Execution(c)} : pending'[x] = pending[x] /\ active'[x] = active[x]
  BY <1>4, <1>5 DEF Types, TableTypes
<1> QED BY <1>6, <1>7 DEF Elsewhere

\* A call that takes a step was in flight or starts, alone for its execution.
LEMMA StepsAreAlone ==
  ASSUME NEW c \in Calls, OneAtATime, Alone, Execute(c) \/ Resume(c)
  PROVE  \A d \in Calls \ {c} : Execution(d) = Execution(c) => ~ InFlight(d)
<1>1. InFlight(c) \/ MayStart(c)
  <2>1. CASE Execute(c)
    BY <2>1
    DEF CheckTraces, CheckStore, Open, Admit, AcceptPlan, RefuseInput, ProviderFails, RefusePlan,
        Interrupt, InterruptEscapes, StepRaises, Deny, Handle, Gate, FinishPlan, Compose, Finish,
        Remember, Checkpoint, Persist, CheckpointRaises, Leave, Execute, InFlight, HasStep
  <2>2. CASE Resume(c)
    BY <2>2
    DEF Fetch, Restore, Adopt, StillWaiting, DecideFromBroker, DecideFromCaller, Take, Consume,
        ConsumeInBroker, Merge, Recheck, Repersist, RepersistRaises, Close, CloseFinish,
        ClosePop, Resume, InFlight
  <2> QED BY <2>1, <2>2
<1> QED BY <1>1 DEF Alone, MayStart, OneAtATime

\* At its step a call is in line with its execution.
LEMMA StepsAreSynced ==
  ASSUME NEW c \in Calls, OneAtATime, SyncInv, Execute(c) \/ Resume(c)
  PROVE  Synced(c)
<1>1. \A d \in Calls \ {c} : Execution(d) = Execution(c) => ~ InFlight(d)
  BY StepsAreAlone DEF SyncInv
<1>2. Execution(c) \in Executions
  BY RuntimeAssumption DEF Execution
<1> QED BY <1>1, <1>2 DEF SyncInv, Settled, Synced

\* After each of its steps a call is in line with its execution.
LEMMA CallSyncs ==
  ASSUME NEW c \in Calls, Types, Places, OwnStates, Synced(c), Execute(c) \/ Resume(c)
  PROVE  Synced(c)'
<1>1. CASE Execute(c)
  BY <1>1, CheckTracesSyncs, CheckStoreSyncs, OpenSyncs, AdmitSyncs, AcceptPlanSyncs,
     RefuseInputSyncs, ProviderFailsSyncs, RefusePlanSyncs, InterruptSyncs,
     InterruptEscapesSyncs, StepRaisesSyncs, DenySyncs, HandleSyncs, GateSyncs, FinishPlanSyncs,
     ComposeSyncs, FinishSyncs, RememberSyncs, CheckpointSyncs, PersistSyncs,
     CheckpointRaisesSyncs, LeaveSyncs
  DEF Execute
<1>2. CASE Resume(c)
  BY <1>2, FetchSyncs, RestoreSyncs, AdoptSyncs, StillWaitingSyncs, DecideFromBrokerSyncs,
     DecideFromCallerSyncs, TakeSyncs, ConsumeSyncs, ConsumeInBrokerSyncs, MergeSyncs,
     RecheckSyncs, RepersistSyncs, RepersistRaisesSyncs, CloseSyncs, CloseFinishSyncs,
     ClosePopSyncs
  DEF Resume
<1> QED BY <1>1, <1>2

\* Another execution sees nothing of it.
LEMMA OthersStaySynced ==
  ASSUME NEW c \in Calls, NEW d \in Calls, Execution(d) # Execution(c), Types,
         Elsewhere(c), Same(d), PendingAt(d), RowAt(d)
  PROVE  PendingAt(d)' /\ RowAt(d)'
<1>1. Execution(d) \in Executions \ {Execution(c)} /\ Execution(d)' = Execution(d)
  BY RuntimeAssumption DEF Execution
<1>2. Continuation(d)' = Continuation(d)
  BY DEF Same, Continuation
<1>3. /\ pending'[Execution(d)] = pending[Execution(d)]
      /\ active'[Execution(d)] = active[Execution(d)]
      /\ StateRow(Execution(d))' = StateRow(Execution(d))
  BY <1>1 DEF Elsewhere
<1> QED BY <1>1, <1>2, <1>3 DEF Same, PendingAt, RowAt, Stored, Known, Agree, Execution

\* A step of a call keeps every execution in line.
LEMMA CallKeepsSync ==
  ASSUME NEW c \in Calls, Types, Places, BrokerIsTimely, CallsAreCleared, OneAtATime, OwnStates,
         SyncInv, Execute(c) \/ Resume(c)
  PROVE  SyncInv'
<1>1. Synced(c)'
  BY StepsAreSynced, CallSyncs
<1>2. Elsewhere(c) /\ \A d \in Calls \ {c} : Same(d)
  BY CallsStayHome, CallKeepsPlaces
<1>3. \A d \in Calls \ {c} : Execution(d) = Execution(c) => ~ InFlight(d) /\ ~ InFlight(d)'
  BY <1>2, StepsAreAlone DEF SyncInv, Same, InFlight
<1>4. \A d \in Calls \ {c} : InFlight(d)' <=> InFlight(d)
  BY <1>2 DEF Same, InFlight
<1>5. Alone'
  BY <1>3, <1>4 DEF SyncInv, Alone, Execution
<1>6. ASSUME NEW d \in Calls, InFlight(d)' PROVE PendingAt(d)' /\ RowAt(d)'
  <2>1. CASE d = c
    BY <1>1, <1>6, <2>1 DEF Synced
  <2>2. CASE d # c
    BY <1>2, <1>3, <1>4, <1>6, <2>2, OthersStaySynced DEF SyncInv
  <2> QED BY <2>1, <2>2
<1>7. ASSUME NEW x \in Executions PROVE Settled(x)'
  <2>1. CASE x = Execution(c)
    BY <1>1, <2>1 DEF Synced, Settled, Execution
  <2>2. CASE x # Execution(c)
    <3>1. pending'[x] = pending[x] /\ StateRow(x)' = StateRow(x)
      BY <1>2, <2>2 DEF Elsewhere
    <3>2. \A d \in Calls : Execution(d) = x => d # c /\ (InFlight(d)' <=> InFlight(d))
      BY <1>4, <2>2
    <3> QED BY <3>1, <3>2 DEF SyncInv, Settled, Agree, Checkpointed, Stored, Known, Execution
  <2> QED BY <2>1, <2>2
<1> QED BY <1>5, <1>6, <1>7 DEF SyncInv

\* A restart empties the memory and leaves the store.
LEMMA CrashKeepsSync ==
  ASSUME Types, SyncInv, Crash
  PROVE  SyncInv'
<1>1. pending' = NoExecutions /\ states' = states
      /\ pc' = [c \in Calls |-> IF InFlight(c) THEN "crashed" ELSE pc[c]]
  BY DEF Crash
<1>2. \A c \in Calls : ~ InFlight(c)'
  BY <1>1 DEF InFlight
<1>3. \A x \in Executions : Settled(x)'
  BY <1>1 DEF SyncInv, Settled, Agree, Checkpointed, Stored, Known, StateRow, NoExecutions
<1> QED BY <1>2, <1>3 DEF SyncInv, Alone

\* Nobody else touches what a call sees.
LEMMA RestKeepsSync ==
  ASSUME SyncInv, Review \/ Tick \/ UNCHANGED vars
  PROVE  SyncInv'
<1>1. UNCHANGED <<states, tableVars, localVars, pc>>
  BY DEF Review, Tick, vars
<1> QED BY <1>1
    DEF tableVars, localVars, SyncInv, Alone, Settled, PendingAt, RowAt, Agree, Checkpointed,
        Stored, Known, StateRow, InFlight, Continuation, Execution

\* What is pending, stored and known to the calls in flight stays in line, ...
LEMMA SyncStep ==
  ASSUME GeneralInv, OneAtATime, OwnStates, SyncInv, [Next]_vars
  PROVE  SyncInv'
BY CallKeepsSync, CrashKeepsSync, RestKeepsSync DEF Next, GeneralInv

\* ... as it is at first.
LEMMA SyncInit ==
  ASSUME Init
  PROVE  SyncInv
BY RuntimeAssumption
DEF Init, NoExecutions, Store!StateInit, SyncInv, Alone, Settled, Agree, Checkpointed, Stored,
    StateRow, InFlight

-----------------------------------------------------------------------------
(* How steps move what is pending, one call at a time. *)

\* The execution of a call and its row.
LEMMA HomeOf ==
  ASSUME NEW c \in Calls
  PROVE  /\ Execution(c) \in Executions /\ Execution(c)' = Execution(c)
         /\ StateKey(c) = StateOf[Execution(c)] /\ StateKey(c) \in StateKeys
BY RuntimeAssumption DEF Execution, StateKey

\* What is pending was pending, was stored, or is what a paused call goes on with.
LEMMA PendingMoves ==
  ASSUME Types, Places, OneAtATime, SyncInv, [Next]_vars, NEW x \in Executions
  PROVE  \/ pending'[x] \in {pending[x], None, Stored(x)}
         \/ \E c \in Calls : /\ Execution(c) = x /\ pc[c] = "remember"
                             /\ pending'[x] = Continuation(c)
<1>1. PendingFlow
  BY PendingFlows
<1>2. ASSUME NEW c \in Calls, Execution(c) = x, pending'[x] = held[c],
             Adopt(c) \/ Admit(c) \/ InterruptEscapes(c) \/ StepRaises(c) \/ CheckpointRaises(c)
      PROVE  pending'[x] \in {pending[x], None, Stored(x)}
  <2>1. Synced(c)
    BY <1>2, StepsAreSynced DEF Execute, Resume
  <2>2. CASE Adopt(c)
    BY <1>2, <2>1, <2>2 DEF Adopt, Synced, PendingAt, InFlight
  <2>3. CASE Admit(c)
    BY <1>2, <2>1, <2>3 DEF Admit, Synced, PendingAt, InFlight, Running
  <2>4. CASE InterruptEscapes(c)
    BY <1>2, <2>1, <2>4, NoneAssumption DEF InterruptEscapes, Synced, RowAt, InFlight
  <2>5. CASE StepRaises(c)
    <3>1. c \in ResumeCalls => pending'[x] = Stored(x)
      BY <1>2, <2>1, <2>5 DEF StepRaises, HasStep, Synced, PendingAt, InFlight, Running
    <3>2. c \in ExecuteCalls => pending'[x] = pending[x]
      BY <2>5, RuntimeAssumption DEF StepRaises, Rearmed
    <3> QED BY <3>1, <3>2 DEF Calls
  <2>6. CASE CheckpointRaises(c)
    BY <2>1, <2>6, CheckpointNeverRaises
  <2> QED BY <1>2, <2>2, <2>3, <2>4, <2>5, <2>6
<1> QED BY <1>1, <1>2 DEF PendingFlow

\* So is what is stored.
LEMMA StoredMoves ==
  ASSUME Types, Places, Places', OwnStates, SyncInv, [Next]_vars, NEW x \in Executions
  PROVE  \/ Stored(x)' \in {Stored(x), None}
         \/ \E c \in Calls : /\ Execution(c) = x /\ pc[c] \in {"persist", "repersist"}
                             /\ Stored(x)' = Continuation(c)
<1>1. RowFlow
  BY RowsFlow
<1>2. StateOf[x] \in StateKeys
  BY RuntimeAssumption
<1>3. CASE states'[StateOf[x]] = states[StateOf[x]]
  BY <1>3 DEF Stored, StateRow
<1>4. CASE states'[StateOf[x]].data = None
  BY <1>4 DEF Stored, StateRow
<1>5. ASSUME NEW c \in Calls, states'[StateOf[x]].execution_id = Execution(c),
             states'[StateOf[x]] # None,
             \/ pc[c] = "repersist" /\ states'[StateOf[x]].data = merged[c]
             \/ pc[c] = "persist" /\ states'[StateOf[x]].data = Continuation(c)
      PROVE  /\ Execution(c) = x /\ pc[c] \in {"persist", "repersist"}
             /\ Stored(x)' = Continuation(c)
  <2>1. Execution(c) \in Executions /\ Execution(c) # None
    BY HomeOf, NoneAssumption
  <2>2. StateOf[Execution(c)] = StateOf[x]
    BY <1>2, <1>5, <2>1 DEF Places, RowPlace
  <2>3. Execution(c) = x
    BY <2>1, <2>2 DEF OwnStates
  <2>4. pc[c] = "repersist" => merged[c] = Continuation(c)
    BY DEF SyncInv, RowAt, InFlight
  <2> QED BY <1>5, <2>3, <2>4 DEF Stored, StateRow
<1>6. states'[StateOf[x]] = None => Stored(x)' = None
  BY DEF Stored, StateRow
<1> QED BY <1>1, <1>2, <1>3, <1>4, <1>5, <1>6 DEF RowFlow

\* The steps of a call that write its row.
LEMMA WhoWrites ==
  ASSUME NEW c \in Calls, Execute(c) \/ Resume(c), states' # states
  PROVE  Open(c) \/ Finish(c) \/ Persist(c) \/ Close(c) \/ CloseFinish(c) \/ Repersist(c)
<1>1. CASE Execute(c)
  BY <1>1
  DEF Execute, CheckTraces, CheckStore, Open, Admit, AcceptPlan, RefuseInput, ProviderFails,
      RefusePlan, Interrupt, InterruptEscapes, StepRaises, Deny, Handle, Gate, FinishPlan,
      Compose, Finish, Remember, Checkpoint, Persist, CheckpointRaises, Leave, OpenState, EndsAs,
      FindRow
<1>2. CASE Resume(c)
  BY <1>2
  DEF Resume, Fetch, Restore, Adopt, StillWaiting, DecideFromBroker, DecideFromCaller, Take,
      Consume, ConsumeInBroker, Merge, Recheck, Repersist, RepersistRaises, Close, CloseFinish,
      ClosePop, OpenState, FindRow
<1> QED BY <1>1, <1>2

\* An execution that is known stays known.
LEMMA KnownStays ==
  ASSUME Types, Places, OwnStates, NEW c \in Calls, Execute(c) \/ Resume(c),
         NEW x \in Executions, Known(x)
  PROVE  Known(x)'
<1>1. CASE x # Execution(c)
  BY <1>1, CallsStayHome DEF Elsewhere, Known
<1>2. ASSUME x = Execution(c),
             \/ \E v : /\ v.execution_id = x /\ v # None
                       /\ states' = [states EXCEPT ![StateKey(c)] = v]
             \/ states' = states
      PROVE  Known(x)'
  BY <1>2, HomeOf DEF Known, StateRow, Types, Store!StateTypeOK
<1>3. CASE x = Execution(c) /\ (Open(c) \/ Close(c))
  <2>1. states' = [states EXCEPT ![StateKey(c)] = Store!Opened(StateKey(c), Principal, "1")]
    BY <1>3 DEF Open, Close, OpenState, Store!GetOrCreate
  <2>2. Store!Opened(StateKey(c), Principal, "1") = StateRow(x)
    BY <1>3, HomeOf DEF Known, StateRow, Store!Opened
  <2> QED BY <1>2, <1>3, <2>1, <2>2 DEF Known
<1>4. CASE x = Execution(c) /\ (Finish(c) \/ CloseFinish(c))
  <2>1. copy[c] # None /\ outcome[c] # None
    BY <1>4 DEF Places, Place, Finish, CloseFinish, Storing, Closing
  <2>2. FinishedState(c).execution_id = x /\ FinishedState(c) # None
    BY <1>4, <2>1, FinishedIsState, NoneAssumption
  <2>3. states' = states \/ states' = [states EXCEPT ![StateKey(c)] = FinishedState(c)]
    BY <1>4 DEF Finish, CloseFinish, SaveFinished, Store!Save
  <2> QED BY <1>2, <1>4, <2>2, <2>3
<1>5. ASSUME NEW p \in Pending, SaveCheckpoint(c, p), copy[c] # None,
             copy[c].execution_id = Execution(c), x = Execution(c)
      PROVE  Known(x)'
  <2> DEFINE s == [copy[c] EXCEPT !.status = "paused", !.version = copy[c].version + 1, !.data = p]
  <2>1. s.execution_id = x /\ s \in Store!State
    BY <1>5, CheckpointIsState
  <2>2. states' = [states EXCEPT ![StateKey(c)] = s]
    BY <1>5 DEF SaveCheckpoint, Store!Save
  <2> HIDE DEF s
  <2> QED BY <1>2, <1>5, <2>1, <2>2, NoneAssumption
<1>6. CASE x = Execution(c) /\ Persist(c)
  <2>1. Continuation(c) \in Pending
    BY <1>6, ContinuationIsPending DEF Persist, Places
  <2> QED BY <1>5, <1>6, <2>1 DEF Persist, Places, Place, Storing
<1>7. CASE x = Execution(c) /\ Repersist(c)
  <2>1. merged[c] \in Pending
    BY <1>7 DEF Repersist, Places, Place, Types, CallTypes
  <2> QED BY <1>5, <1>7, <2>1 DEF Repersist, Places, Place
<1>8. states' = states => Known(x)'
  BY DEF Known, StateRow
<1> QED BY <1>1, <1>3, <1>4, <1>6, <1>7, <1>8, WhoWrites

-----------------------------------------------------------------------------
(* How steps move a pause. *)

\* Only a call that has not ended takes a step, ...
LEMMA ActsInFlight ==
  ASSUME NEW c \in Calls, Execute(c) \/ Resume(c)
  PROVE  pc[c] \notin Ended
<1>1. CASE Execute(c)
  BY <1>1
  DEF Execute, CheckTraces, CheckStore, Open, Admit, AcceptPlan, RefuseInput, ProviderFails,
      RefusePlan, Interrupt, InterruptEscapes, StepRaises, Deny, Handle, Gate, FinishPlan,
      Compose, Finish, Remember, Checkpoint, Persist, CheckpointRaises, Leave, HasStep, MayStart,
      Ended
<1>2. CASE Resume(c)
  BY <1>2
  DEF Resume, Fetch, Restore, Adopt, StillWaiting, DecideFromBroker, DecideFromCaller, Take,
      Consume, ConsumeInBroker, Merge, Recheck, Repersist, RepersistRaises, Close, CloseFinish,
      ClosePop, MayStart, Ended
<1> QED BY <1>1, <1>2

\* ... and whoever has ended stays where it is.
LEMMA EndedStays ==
  ASSUME Types, Places, BrokerIsTimely, CallsAreCleared, [Next]_vars,
         NEW d \in Calls, pc[d] \in Ended
  PROVE  pc'[d] = pc[d]
<1>1. ASSUME NEW c \in Calls, Execute(c) \/ Resume(c) PROVE pc'[d] = pc[d]
  BY <1>1, ActsInFlight, CallKeepsPlaces DEF Same
<1>2. CASE Review \/ Tick \/ UNCHANGED vars
  BY <1>2 DEF Review, Tick, vars
<1>3. CASE Crash
  BY <1>3 DEF Crash, InFlight, Ended
<1> QED BY <1>1, <1>2, <1>3 DEF Next

\* A call pauses at a gate, once, and stays at the step it stopped at.
LEMMA PausesLast ==
  ASSUME Types, Places, BrokerIsTimely, CallsAreCleared, [Next]_vars, NEW d \in Calls
  PROVE  /\ pausing[d] => pausing'[d] /\ at'[d] = at[d]
         /\ pausing'[d] => pausing[d] \/ Gate(d)
<1>1. ASSUME NEW c \in Calls, Execute(c), ~ Gate(c), ~ Handle(c) PROVE UNCHANGED <<at, pausing>>
  BY <1>1
  DEF Execute, CheckTraces, CheckStore, Open, Admit, AcceptPlan, RefuseInput, ProviderFails,
      RefusePlan, Interrupt, InterruptEscapes, StepRaises, Deny, Handle, Gate, FinishPlan,
      Compose, Finish, Remember, Checkpoint, Persist, CheckpointRaises, Leave, OpenState, EndsAs,
      FindRow, localVars
<1>2. ASSUME NEW c \in Calls, Resume(c), ~ Take(c) PROVE UNCHANGED <<at, pausing>>
  BY <1>2
  DEF Resume, Fetch, Restore, Adopt, StillWaiting, DecideFromBroker, DecideFromCaller, Take,
      Consume, ConsumeInBroker, Merge, Recheck, Repersist, RepersistRaises, Close, CloseFinish,
      ClosePop, OpenState, FindRow, localVars
<1>3. ASSUME NEW c \in Calls, Gate(c) \/ Handle(c) \/ Take(c) PROVE ~ pausing[c]
  BY <1>3, RunsUnpaused DEF Gate, Handle, HasStep, Take, Running
<1>4. ASSUME NEW c \in Calls, Handle(c) \/ Take(c)
      PROVE  pausing' = pausing /\ (d # c => at'[d] = at[d])
  BY <1>4 DEF Handle, Take, Types, CallTypes
<1>5. ASSUME NEW c \in Calls, Gate(c)
      PROVE  at' = at /\ (d # c => pausing'[d] = pausing[d])
  BY <1>5 DEF Gate, Types, CallTypes
<1>6. CASE Review \/ Tick \/ Crash \/ UNCHANGED vars
  BY <1>6 DEF Review, Tick, Crash, vars, localVars
<1> QED BY <1>1, <1>2, <1>3, <1>4, <1>5, <1>6 DEF Next

\* Requests come from gates, ...
LEMMA RequestsMove ==
  ASSUME Types, [Next]_vars, NEW r \in Requests, requests'[r] # None
  PROVE  requests[r] # None \/ \E c \in Calls : Gate(c) /\ r = <<c, at[c]>>
<1>1. ASSUME NEW c \in Calls, Gate(c)
      PROVE  requests[r] # None \/ r = <<c, at[c]>>
  BY <1>1 DEF Gate, Broker!Submit, Types, Broker!BrokerTypeOK
<1>2. ASSUME NEW c \in Calls, Execute(c), ~ Gate(c) PROVE requests' = requests
  BY <1>2
  DEF Execute, CheckTraces, CheckStore, Open, Admit, AcceptPlan, RefuseInput, ProviderFails,
      RefusePlan, Interrupt, InterruptEscapes, StepRaises, Deny, Handle, Gate, FinishPlan,
      Compose, Finish, Remember, Checkpoint, Persist, CheckpointRaises, Leave, OpenState, EndsAs,
      FindRow, brokerVars
<1>3. ASSUME NEW c \in Calls, Resume(c) PROVE requests' = requests
  BY <1>3
  DEF Resume, Fetch, Restore, Adopt, StillWaiting, DecideFromBroker, DecideFromCaller, Take,
      Consume, ConsumeInBroker, Merge, Recheck, Repersist, RepersistRaises, Close, CloseFinish,
      ClosePop, OpenState, FindRow, brokerVars, Broker!GetDecision, Broker!Consume,
      Broker!ConsumeRaises
<1>4. CASE Review \/ Tick \/ Crash \/ UNCHANGED vars
  BY <1>4 DEF Review, Tick, Crash, vars, brokerVars, Broker!Decide, Broker!TimePasses
<1> QED BY <1>1, <1>2, <1>3, <1>4 DEF Next

\* ... and are consumed by the resumes that hold them.
LEMMA ConsumedMoves ==
  ASSUME [Next]_vars, NEW r, r \in consumed', r \notin consumed
  PROVE  /\ \E c \in Calls : ConsumeInBroker(c) /\ r = HeldRequest(c)
         /\ requests[r] # None
<1>1. ASSUME NEW c \in Calls, ConsumeInBroker(c)
      PROVE  r = HeldRequest(c) /\ requests[r] # None
  BY <1>1 DEF ConsumeInBroker, Broker!Consume, Broker!ConsumeRaises
<1>2. ASSUME NEW c \in Calls, Execute(c) PROVE consumed' = consumed
  BY <1>2
  DEF Execute, CheckTraces, CheckStore, Open, Admit, AcceptPlan, RefuseInput, ProviderFails,
      RefusePlan, Interrupt, InterruptEscapes, StepRaises, Deny, Handle, Gate, FinishPlan,
      Compose, Finish, Remember, Checkpoint, Persist, CheckpointRaises, Leave, OpenState, EndsAs,
      FindRow, brokerVars, Broker!Submit
<1>3. ASSUME NEW c \in Calls, Resume(c), ~ ConsumeInBroker(c) PROVE consumed' = consumed
  BY <1>3
  DEF Resume, Fetch, Restore, Adopt, StillWaiting, DecideFromBroker, DecideFromCaller, Take,
      Consume, ConsumeInBroker, Merge, Recheck, Repersist, RepersistRaises, Close, CloseFinish,
      ClosePop, OpenState, FindRow, brokerVars, Broker!GetDecision
<1>4. CASE Review \/ Tick \/ Crash \/ UNCHANGED vars
  BY <1>4 DEF Review, Tick, Crash, vars, brokerVars, Broker!Decide, Broker!TimePasses
<1> QED BY <1>1, <1>2, <1>3, <1>4 DEF Next

-----------------------------------------------------------------------------
(* Requests, and what is spent. *)

\* A request stands for the pause of the call that asked, ...
RequestsArePauses ==
  \A r \in Requests : requests[r] # None => pausing[r[1]] /\ at[r[1]] = r[2]

\* ... which is never the call that resumes it.
HeldElsewhere == \A c \in Calls : held[c] # None => HeldRequest(c)[1] # c

\* No pause that may still be resumed is spent.
Unconsumed(x) ==
  /\ pending[x] # None => pending[x].request \notin consumed
  /\ Stored(x) # None => Stored(x).request \notin consumed

PausesUnconsumed ==
  \A c \in Calls : InFlight(c) /\ pausing[c] => <<c, at[c]>> \notin consumed

SpentInv ==
  /\ RequestsArePauses
  /\ HeldElsewhere
  /\ \A r \in consumed : requests[r] # None
  /\ \A x \in Executions : Unconsumed(x)
  /\ PausesUnconsumed

\* What is pending or stored has been asked for, by a call of the execution.
LEMMA KeptWasRequested ==
  ASSUME GeneralInv, OwnStates, NEW x \in Executions, NEW p, p # None, p \in {pending[x], Stored(x)}
  PROVE  /\ p \in Pending /\ p.request \in Requests /\ requests[p.request] # None
         /\ ExecutionOf[p.request[1]] = x
<1>1. Genuine(x, p) /\ p \in Pending
  <2>1. CASE p = pending[x]
    BY <2>1 DEF GeneralInv, PendingIsGenuine, Types, TableTypes
  <2>2. CASE p = Stored(x)
    <3>1. StateOf[x] \in StateKeys /\ states[StateOf[x]] # None /\ states[StateOf[x]].data = p
      BY <2>2, RuntimeAssumption DEF Stored, StateRow
    <3>2. states[StateOf[x]] \in Store!State
      BY <3>1 DEF GeneralInv, Types, Store!StateTypeOK
    <3>3. p \in Pending
      BY <3>1, <3>2 DEF Store!State
    <3>4. PICK y : y = states[StateOf[x]].execution_id
      OBVIOUS
    <3>5. y \in Executions /\ StateOf[y] = StateOf[x] /\ Genuine(y, p)
      BY <3>1, <3>2, <3>4 DEF GeneralInv, Places, RowPlace, PendingIsGenuine, Store!State
    <3>6. y = x
      BY <3>5 DEF OwnStates
    <3> QED BY <3>3, <3>5, <3>6
  <2> QED BY <2>1, <2>2
<1>2. p.request \in Requests
  BY <1>1 DEF Pending
<1> QED BY <1>1, <1>2 DEF Genuine, RequestOf

\* A resume only takes up a request that is pending or stored.
LEMMA HeldMoves ==
  ASSUME GeneralInv, OwnStates, [Next]_vars, NEW c \in Calls, held'[c] # held[c]
  PROVE  /\ held'[c] \in {pending[Execution(c)], Stored(Execution(c))}
         /\ pc[c] \in {"idle", "restore", "adopt"}
<1>1. HeldFlow
  BY HeldFlows DEF GeneralInv
<1>2. held'[c] \in {pending[Execution(c)], Stored(Execution(c))}
  BY <1>1, RowIsKnown DEF HeldFlow, GeneralInv, Stored, Known
<1>3. ASSUME NEW d \in Calls, Execute(d) PROVE held' = held
  BY <1>3, ExecuteLeavesApprovals
<1>4. ASSUME NEW d \in Calls, Fetch(d) \/ Restore(d) \/ Adopt(d)
      PROVE  d = c /\ pc[c] \in {"idle", "restore", "adopt"}
  <2>1. d = c
    BY <1>4 DEF Fetch, Restore, Adopt, GeneralInv, Types, CallTypes
  <2> QED BY <1>4, <2>1 DEF Fetch, Restore, Adopt, MayStart
<1>5. ASSUME NEW d \in Calls, Resume(d), ~ (Fetch(d) \/ Restore(d) \/ Adopt(d))
      PROVE  held' = held
  BY <1>5
  DEF Resume, Fetch, Restore, Adopt, StillWaiting, DecideFromBroker, DecideFromCaller, Take,
      Consume, ConsumeInBroker, Merge, Recheck, Repersist, RepersistRaises, Close, CloseFinish,
      ClosePop, OpenState, FindRow, localVars
<1>6. CASE Review \/ Tick \/ Crash \/ UNCHANGED vars
  BY <1>6 DEF Review, Tick, Crash, vars, localVars
<1> QED BY <1>2, <1>3, <1>4, <1>5, <1>6 DEF Next

\* A pause that may still be resumed is not consumed by this step.
LEMMA PausesStay ==
  ASSUME GeneralInv, RequestsArePauses, HeldElsewhere, OwnStates, [Next]_vars, Types'
  PROVE  RequestsArePauses' /\ HeldElsewhere'
<1>1. ASSUME NEW d \in Calls
      PROVE  /\ pausing[d] => pausing'[d] /\ at'[d] = at[d]
             /\ pausing'[d] => pausing[d] \/ Gate(d)
  BY PausesLast DEF GeneralInv
<1>2. ASSUME NEW c \in Calls, Gate(c) PROVE pausing'[c] /\ at'[c] = at[c]
  BY <1>2 DEF Gate, GeneralInv, Types, CallTypes
<1>3. ASSUME NEW r \in Requests, requests'[r] # None PROVE pausing'[r[1]] /\ at'[r[1]] = r[2]
  <2>1. r[1] \in Calls
    BY DEF Requests
  <2>2. requests[r] # None \/ \E c \in Calls : Gate(c) /\ r = <<c, at[c]>>
    BY <1>3, RequestsMove DEF GeneralInv
  <2> QED BY <1>1, <1>2, <2>1, <2>2 DEF RequestsArePauses
<1>4. ASSUME NEW c \in Calls, held'[c] # None PROVE held'[c].request[1] # c
  <2>1. CASE held'[c] = held[c]
    BY <1>4, <2>1 DEF HeldElsewhere, HeldRequest
  <2>2. CASE held'[c] # held[c]
    <3>1. PICK p : p = held'[c]
      OBVIOUS
    <3>2. /\ p \in {pending[Execution(c)], Stored(Execution(c))}
          /\ pc[c] \in {"idle", "restore", "adopt"}
      BY <2>2, <3>1, HeldMoves
    <3>3. p.request \in Requests /\ requests[p.request] # None
      BY <1>4, <3>1, <3>2, HomeOf, KeptWasRequested
    <3>4. ~ pausing[c]
      BY <3>2, RunsUnpaused DEF GeneralInv
    <3> QED BY <3>1, <3>3, <3>4 DEF RequestsArePauses
  <2> QED BY <2>1, <2>2
<1> QED BY <1>3, <1>4 DEF RequestsArePauses, HeldElsewhere, HeldRequest

\* A resume that consumes holds a request of its execution which is neither pending
\* nor stored any more.
LEMMA ConsumeSpendsNoPause ==
  ASSUME GeneralInv, OneAtATime, OwnStates, SyncInv, SpentInv, NEW c \in Calls, ConsumeInBroker(c)
  PROVE  /\ \A x \in Executions :
              /\ pending[x] # None => pending[x].request # HeldRequest(c)
              /\ Stored(x) # None => Stored(x).request # HeldRequest(c)
         /\ \A d \in Calls : InFlight(d) /\ pausing[d] => <<d, at[d]>> # HeldRequest(c)
<1>1. pc[c] = "consume_broker" /\ Synced(c) /\ InFlight(c)
  BY StepsAreSynced DEF ConsumeInBroker, Resume, InFlight
<1>2. held[c] \in Pending /\ held[c] # None /\ HeldRequest(c) \in Requests
  BY <1>1, HeldIsRequest, NoneAssumption DEF GeneralInv, Consuming
<1>3. HeldRequest(c)[1] # c /\ ExecutionOf[HeldRequest(c)[1]] = Execution(c)
  BY <1>2
  DEF SpentInv, HeldElsewhere, GeneralInv, PendingIsGenuine, Genuine, RequestOf, HeldRequest
<1>4. ASSUME NEW x \in Executions, NEW p, p # None, p \in {pending[x], Stored(x)}
      PROVE  p.request # HeldRequest(c)
  <2>1. ExecutionOf[p.request[1]] = x
    BY <1>4, KeptWasRequested
  <2>2. CASE x # Execution(c)
    BY <1>3, <2>1, <2>2
  <2>3. CASE x = Execution(c)
    <3>1. p = Continuation(c)
      BY <1>1, <1>4, <2>3 DEF Synced, PendingAt, Consuming
    <3> QED BY <1>3, <3>1 DEF Continuation
  <2> QED BY <2>2, <2>3
<1>5. ASSUME NEW d \in Calls, InFlight(d), <<d, at[d]>> = HeldRequest(c) PROVE FALSE
  BY <1>1, <1>3, <1>5 DEF SyncInv, Alone, Execution
<1> QED BY <1>4, <1>5

\* What is spent is never pending again, ...
LEMMA SpentStep ==
  ASSUME GeneralInv, OneAtATime, OwnStates, SyncInv, SpentInv, [Next]_vars, GeneralInv'
  PROVE  SpentInv'
<1>1. RequestsArePauses' /\ HeldElsewhere'
  BY PausesStay DEF SpentInv, GeneralInv
<1>2. \A r \in Requests : requests[r] # None => requests'[r] # None
  BY StepKeepsPlaces DEF GeneralInv, BrokerKept, BrokerRemembers
<1>3. consumed \subseteq Requests
  BY DEF GeneralInv, Types, Broker!BrokerTypeOK
<1>4. ASSUME NEW r \in consumed' PROVE requests'[r] # None
  BY <1>2, <1>3, <1>4, ConsumedMoves DEF SpentInv, GeneralInv, Types, Broker!BrokerTypeOK
<1>5. ASSUME NEW c \in Calls, Gate(c) PROVE <<c, at[c]>> \notin consumed
  <2>1. ~ pausing[c]
    BY <1>5, RunsUnpaused DEF Gate, HasStep, Running, GeneralInv
  <2> QED BY <1>3, <2>1 DEF SpentInv, RequestsArePauses
<1>6. ASSUME NEW d \in Calls, InFlight(d)', pausing'[d] PROVE <<d, at'[d]>> \notin consumed'
  <2>1. pausing[d] \/ Gate(d)
    BY <1>6, PausesLast DEF GeneralInv
  <2>2. InFlight(d) /\ at'[d] = at[d]
    <3>1. CASE Gate(d)
      BY <3>1 DEF Gate, HasStep, InFlight, GeneralInv, Types, CallTypes
    <3>2. CASE pausing[d]
      <4>1. at'[d] = at[d]
        BY <3>2, PausesLast DEF GeneralInv
      <4>2. pc[d] # "idle"
        BY <3>2, RunsUnpaused DEF GeneralInv
      <4>3. pc[d] \notin Ended
        BY <1>6, EndedStays DEF GeneralInv, InFlight, Ended
      <4> QED BY <4>1, <4>2, <4>3 DEF InFlight, Ended
    <3> QED BY <2>1, <3>1, <3>2
  <2>3. <<d, at[d]>> \notin consumed
    BY <1>5, <2>1, <2>2 DEF SpentInv, PausesUnconsumed
  <2>4. ASSUME NEW c \in Calls, ConsumeInBroker(c) PROVE <<d, at[d]>> # HeldRequest(c)
    <3>1. ~ Gate(d)
      <4>1. CASE d = c
        BY <2>4, <4>1 DEF Gate, HasStep, ConsumeInBroker
      <4>2. CASE d # c
        BY <2>4, <4>2
        DEF Gate, Decided, Goto, Answer, HasStep, ConsumeInBroker, GeneralInv, Types, CallTypes
      <4> QED BY <4>1, <4>2
    <3> QED BY <2>1, <2>2, <2>4, <3>1, ConsumeSpendsNoPause
  <2> QED BY <2>2, <2>3, <2>4, ConsumedMoves
<1>7. ASSUME NEW x \in Executions, NEW p, p # None, p \in {pending'[x], Stored(x)'}
      PROVE  p.request \notin consumed'
  <2>1. \/ p \in {pending[x], Stored(x)}
        \/ \E d \in Calls : /\ Execution(d) = x /\ p = Continuation(d)
                            /\ pc[d] \in {"remember", "persist", "repersist"}
    BY <1>7, PendingMoves, StoredMoves DEF GeneralInv
  <2>2. CASE p \in {pending[x], Stored(x)}
    <3>1. p.request \notin consumed
      BY <1>7, <2>2 DEF SpentInv, Unconsumed
    <3>2. \A c \in Calls : ConsumeInBroker(c) => p.request # HeldRequest(c)
      BY <1>7, <2>2, ConsumeSpendsNoPause
    <3> QED BY <3>1, <3>2, ConsumedMoves
  <2>3. ASSUME NEW d \in Calls, p = Continuation(d), pc[d] \in {"remember", "persist", "repersist"}
        PROVE  p.request \notin consumed'
    <3>1. InFlight(d) /\ pausing[d]
      BY <2>3 DEF InFlight, GeneralInv, Places, Place, SyncInv, RowAt
    <3>2. p.request = <<d, at[d]>>
      BY <2>3 DEF Continuation
    <3> QED BY <3>1, <3>2, ConsumeSpendsNoPause, ConsumedMoves DEF SpentInv, PausesUnconsumed
  <2> QED BY <2>1, <2>2, <2>3
<1>8. \A x \in Executions : Unconsumed(x)'
  BY <1>7 DEF Unconsumed
<1> QED BY <1>1, <1>4, <1>6, <1>8 DEF SpentInv, PausesUnconsumed, Execution

\* ... and nothing is at first.
LEMMA SpentInit ==
  ASSUME Init
  PROVE  SpentInv
BY RuntimeAssumption
DEF Init, NoExecutions, Store!StateInit, Broker!BrokerInit, SpentInv, RequestsArePauses,
    HeldElsewhere, Unconsumed, PausesUnconsumed, Stored, StateRow

-----------------------------------------------------------------------------
(* A handler runs in the step of its call. *)

\* A handler call is the step of one call of that execution.
LEMMA HandledGrows ==
  ASSUME Types, [Next]_vars, NEW x \in Executions, handled'[x] # handled[x]
  PROVE  \E c \in Calls :
           /\ Handle(c)
           /\ Execution(c) = x
           /\ LastCaller(handled'[x]) = c
           /\ handled'[x][Len(handled'[x])] = <<c, at[c]>>
<1>1. PICK c \in Calls : Handle(c)
  BY HandlersRunByHandle
<1>2. Execution(c) \in Executions /\ handled[x] \in Seq(Calls \X (Nat \ {0}))
  BY HomeOf DEF Types, HistoryTypes
<1>3. handled' = [handled EXCEPT ![Execution(c)] = Append(handled[Execution(c)], <<c, at[c]>>)]
  BY <1>1 DEF Handle
<1>4. x = Execution(c) /\ handled'[x] = Append(handled[x], <<c, at[c]>>)
  BY <1>2, <1>3 DEF Types, HistoryTypes
<1>5. at[c] \in Nat \ {0}
  BY DEF Types, CallTypes
<1>6. handled'[x][Len(handled'[x])] = <<c, at[c]>>
  BY <1>2, <1>4, <1>5
<1> QED BY <1>1, <1>4, <1>6 DEF LastCaller

\* What a resume runs is what it holds, and that is stored and unspent.
LEMMA HandledIsUnconsumed ==
  ASSUME GeneralInv, OneAtATime, OwnStates, SyncInv, SpentInv, NEW c \in ResumeCalls, Handle(c)
  PROVE  HeldRequest(c) \notin consumed
<1>1. Synced(c) /\ pc[c] = "step" /\ c \in Calls
  BY StepsAreSynced DEF Execute, Handle, HasStep, Calls
<1>2. Stored(Execution(c)) = held[c]
  BY <1>1 DEF Synced, PendingAt, InFlight, Running
<1>3. held[c] # None
  BY <1>1 DEF GeneralInv, Places, ResumePlace, Ended
<1>4. Execution(c) \in Executions
  BY <1>1, HomeOf
<1> QED BY <1>2, <1>3, <1>4 DEF SpentInv, Unconsumed, HeldRequest

\* Memory, store and calls are always in line.
LEMMA SyncAlways ==
  ASSUME OneAtATime, OwnStates
  PROVE  Spec => []SyncInv
<1>1. SyncInv /\ GeneralInv /\ [Next]_vars => SyncInv'
  BY SyncStep
<1> QED BY <1>1, SyncInit, GeneralAlways, PTL DEF Spec

\* What is spent is never pending.
LEMMA SpentAlways ==
  ASSUME OneAtATime, OwnStates
  PROVE  Spec => []SpentInv
<1>1. SpentInv /\ GeneralInv /\ GeneralInv' /\ SyncInv /\ [Next]_vars => SpentInv'
  BY SpentStep
<1> QED BY <1>1, SpentInit, GeneralAlways, SyncAlways, PTL DEF Spec

\* With one call at a time and a state of its own for each execution, what is pending
\* in memory between calls is what the store holds, through any crash.
THEOREM RestartsLoseNoPause ==
  ASSUME OneAtATime, OwnStates
  PROVE  Spec => []PendingIsCheckpointed
<1>1. SyncInv => PendingIsCheckpointed
  <2> SUFFICES ASSUME SyncInv, NEW x \in Executions, pending[x] # None,
                      \A c \in Calls : Execution(c) = x => ~ InFlight(c)
               PROVE  /\ states[StateOf[x]] # None
                      /\ states[StateOf[x]].execution_id = x
                      /\ states[StateOf[x]].status = "paused"
                      /\ states[StateOf[x]].data = pending[x]
    BY DEF PendingIsCheckpointed
  <2>1. Stored(x) = pending[x] /\ Checkpointed(x)
    BY DEF SyncInv, Settled, Agree
  <2> QED BY <2>1 DEF Checkpointed, Stored, StateRow, Known
<1> QED BY <1>1, SyncAlways, PTL

\* Nothing runs for a request that was consumed before, through any crash.
THEOREM SpentRequestsRunNothing ==
  ASSUME OneAtATime, OwnStates
  PROVE  Spec => ConsumedNeverRuns
<1>1. ASSUME GeneralInv, SyncInv, SpentInv, [Next]_vars
      PROVE  [\A x \in Executions :
                handled'[x] # handled[x] =>
                  LET c == LastCaller(handled'[x]) IN
                  c \in ResumeCalls => HeldRequest(c) \notin consumed]_vars
  <2> SUFFICES ASSUME NEW x \in Executions, handled'[x] # handled[x],
                      LastCaller(handled'[x]) \in ResumeCalls
               PROVE  HeldRequest(LastCaller(handled'[x])) \notin consumed
    OBVIOUS
  <2>1. PICK c \in Calls : Handle(c) /\ LastCaller(handled'[x]) = c
    BY HandledGrows, <1>1 DEF GeneralInv
  <2> QED BY <1>1, <2>1, HandledIsUnconsumed
<1> QED BY <1>1, GeneralAlways, SyncAlways, SpentAlways, PTL DEF Spec, ConsumedNeverRuns

-----------------------------------------------------------------------------
(* What callers have been told. *)

\* A call answers at its end, and has no outcome before it has a decision.
NotAnsweredYet ==
  \A c \in Calls :
    /\ pc[c] # "done" => result[c] = None
    /\ pc[c] \in {"idle", "restore", "adopt"} => outcome[c] = None

\* The execution has paused before, and goes on at step n or later.
Beyond(x, n) ==
  /\ Known(x)
  /\ pending[x] # None => n <= pending[x].at
  /\ Stored(x) # None => n <= Stored(x).at
  /\ \A c \in Calls :
       Execution(c) = x /\ pc[c] \in Running \union Storing => n <= at[c]

\* A pause the caller knows of stays stored until a resume acts on it.
ToldInv ==
  \A d \in Calls : ToldPaused(d) =>
    LET x == Execution(d)
        r == <<d, at[d]>>
    IN  /\ Beyond(x, at[d])
        /\ ActedOn(r) \/ (Stored(x) # None /\ Stored(x).request = r)

\* Who answers was in flight, and is done.
LEMMA AnswersMove ==
  ASSUME NEW c \in Calls, Execute(c) \/ Resume(c)
  PROVE  \/ result' = result
         \/ /\ pc' = [pc EXCEPT ![c] = "done"]
            /\ \/ result' = [result EXCEPT ![c] = Raised]
               \/ /\ result' = [result EXCEPT ![c] = outcome[c]]
                  /\ Leave(c) \/ Merge(c) \/ Repersist(c) \/ ClosePop(c)
               \/ /\ result' = [result EXCEPT ![c] = held[c].outcome]
                  /\ StillWaiting(c)
<1>1. CASE Execute(c)
  BY <1>1
  DEF Execute, CheckTraces, CheckStore, Open, Admit, AcceptPlan, RefuseInput, ProviderFails,
      RefusePlan, Interrupt, InterruptEscapes, StepRaises, Deny, Handle, Gate, FinishPlan,
      Compose, Finish, Remember, Checkpoint, Persist, CheckpointRaises, Leave, OpenState, EndsAs,
      Answer, Goto
<1>2. CASE Resume(c)
  BY <1>2
  DEF Resume, Fetch, Restore, Adopt, StillWaiting, DecideFromBroker, DecideFromCaller, Take,
      Consume, ConsumeInBroker, Merge, Recheck, Repersist, RepersistRaises, Close, CloseFinish,
      ClosePop, OpenState, Answer, Goto
<1> QED BY <1>1, <1>2

\* Before its decision a resume has no outcome, and once it has one it keeps one.
LEMMA OutcomesMove ==
  ASSUME Types, NEW c \in Calls, Execute(c) \/ Resume(c)
  PROVE  /\ pc'[c] \in {"restore", "adopt"} => outcome' = outcome /\ pc[c] \in {"idle", "restore"}
         /\ pc'[c] # "idle"
         /\ outcome[c] # None => outcome'[c] # None
<1>1. CASE Execute(c)
  <2>1. pc'[c] \notin {"idle", "restore", "adopt"}
    BY <1>1
    DEF Execute, CheckTraces, CheckStore, Open, Admit, AcceptPlan, RefuseInput, ProviderFails,
        RefusePlan, Interrupt, InterruptEscapes, StepRaises, Deny, Handle, Gate, FinishPlan,
        Compose, Finish, Remember, Checkpoint, Persist, CheckpointRaises, Leave, OpenState,
        EndsAs, FindRow, Decided, Answer, Goto, HasStep, Types, CallTypes
  <2>2. outcome' = outcome \/ \E o \in Outcomes : outcome' = [outcome EXCEPT ![c] = o]
    BY <1>1, RuntimeAssumption
    DEF Execute, CheckTraces, CheckStore, Open, Admit, AcceptPlan, RefuseInput, ProviderFails,
        RefusePlan, Interrupt, InterruptEscapes, StepRaises, Deny, Handle, Gate, FinishPlan,
        Compose, Finish, Remember, Checkpoint, Persist, CheckpointRaises, Leave, OpenState,
        EndsAs, FindRow, Decided, SaveFinished, localVars, Outcomes
  <2> QED BY <2>1, <2>2, NoneAssumption DEF Types, CallTypes
<1>2. CASE Resume(c)
  <2>1. outcome' = outcome \/ \E o \in Outcomes : outcome' = [outcome EXCEPT ![c] = o]
    BY <1>2
    DEF Resume, Fetch, Restore, Adopt, StillWaiting, DecideFromBroker, DecideFromCaller, Take,
        Consume, ConsumeInBroker, Merge, Recheck, Repersist, RepersistRaises, Close,
        CloseFinish, ClosePop, OpenState, FindRow, Act, ClosedAs, SaveFinished, localVars,
        Outcomes
  <2>2. CASE Fetch(c) \/ Restore(c) \/ Adopt(c)
    BY <2>2 DEF Fetch, Restore, Adopt, MayStart, Goto, Answer, Types, CallTypes
  <2>3. CASE ~ (Fetch(c) \/ Restore(c) \/ Adopt(c))
    <3>1. pc'[c] \notin {"idle", "restore", "adopt"}
      BY <1>2, <2>3
      DEF Resume, Fetch, Restore, Adopt, StillWaiting, DecideFromBroker, DecideFromCaller, Take,
          Consume, ConsumeInBroker, Merge, Recheck, Repersist, RepersistRaises, Close,
          CloseFinish, ClosePop, OpenState, FindRow, Act, Answer, Goto, Types, CallTypes
    <3> QED BY <2>1, <3>1, NoneAssumption DEF Types, CallTypes
  <2> QED BY <2>2, <2>3
<1> QED BY <1>1, <1>2

\* A call in flight stays unanswered.
LEMMA NotAnsweredStep ==
  ASSUME GeneralInv, NotAnsweredYet, [Next]_vars
  PROVE  NotAnsweredYet'
<1>1. ASSUME NEW c \in Calls, Execute(c) \/ Resume(c) PROVE NotAnsweredYet'
  <2>1. \A d \in Calls \ {c} : Same(d)
    BY <1>1, CallKeepsPlaces DEF GeneralInv
  <2>2. \A d \in Calls \ {c} : result'[d] = result[d]
    <3>1. \/ result' = result \/ result' = [result EXCEPT ![c] = Raised]
          \/ result' = [result EXCEPT ![c] = outcome[c]]
          \/ result' = [result EXCEPT ![c] = held[c].outcome]
      BY <1>1, AnswersMove
    <3> QED BY <3>1 DEF GeneralInv, Types, HistoryTypes
  <2>3. pc'[c] # "done" => result'[c] = result[c]
    BY <1>1, AnswersMove DEF GeneralInv, Types, CallTypes
  <2>4. pc[c] # "done"
    BY <1>1, ActsInFlight DEF Ended
  <2>5. pc'[c] # "done" => result'[c] = None
    BY <2>3, <2>4 DEF NotAnsweredYet
  <2>6. pc'[c] \in {"idle", "restore", "adopt"} => outcome'[c] = None
    BY <1>1, OutcomesMove DEF NotAnsweredYet, GeneralInv
  <2> QED BY <2>1, <2>2, <2>5, <2>6 DEF NotAnsweredYet, Same
<1>2. CASE Review \/ Tick \/ UNCHANGED vars
  BY <1>2 DEF Review, Tick, vars, localVars, NotAnsweredYet
<1>3. CASE Crash
  BY <1>3 DEF Crash, localVars, NotAnsweredYet, InFlight
<1> QED BY <1>1, <1>2, <1>3 DEF Next

\* An execution that is known stays known, through restarts too.
LEMMA KnownLasts ==
  ASSUME GeneralInv, OwnStates, [Next]_vars, NEW x \in Executions, Known(x)
  PROVE  Known(x)'
<1>1. CASE Review \/ Tick \/ Crash \/ UNCHANGED vars
  BY <1>1 DEF Review, Tick, Crash, vars, Known, StateRow
<1> QED BY <1>1, KnownStays DEF Next, GeneralInv

\* A call goes on with its run, at the step it is at unless its handler has run, or
\* begins it: at the first step of an execution nobody knows of, or at the step the
\* request was made for.
LEMMA CallRunsMove ==
  ASSUME GeneralInv, NEW c \in Calls, Execute(c) \/ Resume(c),
         pc'[c] \in Running \union Storing
  PROVE  \/ /\ pc[c] \in (Running \union Storing) \ {"leave"}
            /\ IF Handle(c) THEN at'[c] = at[c] + 1 ELSE at'[c] = at[c]
         \/ CheckStore(c) /\ ~ HasRow(c) /\ at'[c] = at[c]
         \/ Take(c) /\ at'[c] = held[c].at
<1>1. at[c] \in Nat
  BY DEF GeneralInv, Types, CallTypes
<1>2. ASSUME Execute(c)
      PROVE  \/ /\ pc[c] \in (Running \union Storing) \ {"leave"}
                /\ IF Handle(c) THEN at'[c] = at[c] + 1 ELSE at'[c] = at[c]
             \/ CheckStore(c) /\ ~ HasRow(c) /\ at'[c] = at[c]
  <2>1. CASE Handle(c)
    BY <1>1, <2>1 DEF Handle, HasStep, Running, GeneralInv, Types, CallTypes
  <2>2. CASE CheckStore(c)
    BY <2>2
    DEF CheckStore, Answer, Goto, localVars, Running, Storing, GeneralInv, Types, CallTypes
  <2>3. CASE CheckTraces(c)
    BY <2>3 DEF CheckTraces, Answer, Goto, Running, Storing, GeneralInv, Types, CallTypes
  <2>4. CASE ~ (Handle(c) \/ CheckStore(c) \/ CheckTraces(c))
    <3>1. at' = at
      BY <1>2, <2>4
      DEF Execute, CheckTraces, CheckStore, Open, Admit, AcceptPlan, RefuseInput, ProviderFails,
          RefusePlan, Interrupt, InterruptEscapes, StepRaises, Deny, Handle, Gate, FinishPlan,
          Compose, Finish, Remember, Checkpoint, Persist, CheckpointRaises, Leave, OpenState,
          EndsAs, FindRow, localVars
    <3>2. pc[c] \in (Running \union Storing) \ {"leave"}
      BY <1>2, <2>4
      DEF Execute, CheckTraces, CheckStore, Open, Admit, AcceptPlan, RefuseInput, ProviderFails,
          RefusePlan, Interrupt, InterruptEscapes, StepRaises, Deny, Handle, Gate, FinishPlan,
          Compose, Finish, Remember, Checkpoint, Persist, CheckpointRaises, Leave, HasStep,
          Answer, Goto, Running, Storing, GeneralInv, Types, CallTypes
    <3> QED BY <2>4, <3>1, <3>2
  <2> QED BY <2>1, <2>2, <2>3, <2>4
<1>3. ASSUME Resume(c)
      PROVE  Take(c) /\ at'[c] = held[c].at
  <2>1. CASE Take(c)
    BY <2>1 DEF Take, GeneralInv, Types, CallTypes
  <2>2. CASE ~ Take(c)
    <3>1. pc'[c] \notin Running \union Storing
      BY <1>3, <2>2
      DEF Resume, Fetch, Restore, Adopt, StillWaiting, DecideFromBroker, DecideFromCaller, Take,
          Consume, ConsumeInBroker, Merge, Recheck, Repersist, RepersistRaises, Close,
          CloseFinish, ClosePop, OpenState, FindRow, Act, Answer, Goto, Running, Storing,
          GeneralInv, Types, CallTypes
    <3> QED BY <3>1
  <2> QED BY <2>1, <2>2
<1> QED BY <1>2, <1>3

\* So a run never goes back.
LEMMA RunsMove ==
  ASSUME GeneralInv, [Next]_vars, NEW c \in Calls, pc'[c] \in Running \union Storing
  PROVE  \/ pc[c] \in Running \union Storing /\ at[c] <= at'[c]
         \/ CheckStore(c) /\ ~ HasRow(c) /\ at'[c] = at[c]
         \/ Take(c) /\ at'[c] = held[c].at
<1>1. at[c] \in Nat
  BY DEF GeneralInv, Types, CallTypes
<1>2. CASE Execute(c) \/ Resume(c)
  BY <1>1, <1>2, CallRunsMove
<1>3. ASSUME NEW d \in Calls, d # c, Execute(d) \/ Resume(d)
      PROVE  pc'[c] = pc[c] /\ at'[c] = at[c]
  BY <1>3, CallKeepsPlaces DEF GeneralInv, Same
<1>4. CASE Review \/ Tick \/ UNCHANGED vars
  BY <1>1, <1>4 DEF Review, Tick, vars, localVars
<1>5. CASE Crash
  BY <1>1, <1>5 DEF Crash, localVars, Running, Storing
<1> QED BY <1>1, <1>2, <1>3, <1>4, <1>5 DEF Next

\* Nothing goes back behind a step that all of an execution has reached.
LEMMA BeyondLasts ==
  ASSUME GeneralInv, OneAtATime, OwnStates, SyncInv, [Next]_vars, GeneralInv',
         NEW x \in Executions, NEW n \in Nat, Beyond(x, n)
  PROVE  Beyond(x, n)'
<1>1. Known(x)'
  BY KnownLasts DEF Beyond
<1>2. ASSUME NEW c \in Calls, Execution(c) = x, pc[c] \in {"remember", "persist", "repersist"}
      PROVE  n <= Continuation(c).at
  <2>1. pc[c] \in {"remember", "persist"} => n <= at[c]
    BY <1>2 DEF Beyond, Storing
  <2>2. CASE pc[c] = "repersist"
    <3>1. Stored(x) = Continuation(c) /\ pausing[c]
      BY <1>2, <2>2 DEF SyncInv, PendingAt, RowAt, InFlight, Consuming
    <3>2. Continuation(c) # None
      BY <2>2, <3>1, ContinuationIsSome DEF GeneralInv, Consuming
    <3> QED BY <3>1, <3>2 DEF Beyond
  <2> QED BY <1>2, <2>1, <2>2 DEF Continuation
<1>3. ASSUME NEW p, p # None, p \in {pending'[x], Stored(x)'} PROVE n <= p.at
  <2>1. \/ p \in {pending[x], Stored(x)}
        \/ \E d \in Calls : /\ Execution(d) = x /\ p = Continuation(d)
                            /\ pc[d] \in {"remember", "persist", "repersist"}
    BY <1>3, PendingMoves, StoredMoves DEF GeneralInv
  <2> QED BY <1>2, <1>3, <2>1 DEF Beyond
<1>4. ASSUME NEW c \in Calls, Execution(c) = x, pc'[c] \in Running \union Storing PROVE n <= at'[c]
  <2>1. at[c] \in Nat /\ at'[c] \in Nat
    BY DEF GeneralInv, Types, CallTypes
  <2>2. CASE pc[c] \in Running \union Storing /\ at[c] <= at'[c]
    BY <1>4, <2>1, <2>2 DEF Beyond
  <2>3. CASE CheckStore(c) /\ ~ HasRow(c)
    BY <1>4, <2>3, RowIsKnown DEF Beyond, GeneralInv
  <2>4. CASE Take(c) /\ at'[c] = held[c].at
    <3>1. pc[c] = "take"
      BY <2>4 DEF Take
    <3>2. pending[x] = held[c]
      BY <1>4, <3>1 DEF SyncInv, PendingAt, InFlight
    <3>3. held[c] # None
      BY <3>1, HeldIsRequest, NoneAssumption DEF GeneralInv
    <3> QED BY <2>4, <3>2, <3>3 DEF Beyond
  <2> QED BY <1>4, <2>2, <2>3, <2>4, RunsMove
<1>5. /\ pending'[x] # None => n <= pending'[x].at
      /\ Stored(x)' # None => n <= Stored(x)'.at
  BY <1>3
<1>6. \A c \in Calls : Execution(c) = x /\ pc'[c] \in Running \union Storing => n <= at'[c]
  BY <1>4
<1> QED BY <1>1, <1>5, <1>6 DEF Beyond, Execution

\* A call that has an outcome keeps one.
LEMMA OutcomesLast ==
  ASSUME GeneralInv, [Next]_vars, NEW c \in Calls, outcome[c] # None
  PROVE  outcome'[c] # None
<1>1. ASSUME NEW d \in Calls, Execute(d) \/ Resume(d) PROVE outcome'[c] # None
  BY <1>1, OutcomesMove, CallKeepsPlaces DEF GeneralInv, Same
<1>2. CASE Review \/ Tick \/ Crash \/ UNCHANGED vars
  BY <1>2 DEF Review, Tick, Crash, vars, localVars
<1> QED BY <1>1, <1>2 DEF Next

\* What is consumed stays so.
LEMMA ConsumedLasts ==
  ASSUME [Next]_vars
  PROVE  consumed \subseteq consumed'
<1>1. ASSUME NEW c \in Calls, Execute(c) PROVE consumed' = consumed
  BY <1>1
  DEF Execute, CheckTraces, CheckStore, Open, Admit, AcceptPlan, RefuseInput, ProviderFails,
      RefusePlan, Interrupt, InterruptEscapes, StepRaises, Deny, Handle, Gate, FinishPlan,
      Compose, Finish, Remember, Checkpoint, Persist, CheckpointRaises, Leave, OpenState, EndsAs,
      FindRow, brokerVars, Broker!Submit
<1>2. ASSUME NEW c \in Calls, Resume(c) PROVE consumed \subseteq consumed'
  BY <1>2
  DEF Resume, Fetch, Restore, Adopt, StillWaiting, DecideFromBroker, DecideFromCaller, Take,
      Consume, ConsumeInBroker, Merge, Recheck, Repersist, RepersistRaises, Close, CloseFinish,
      ClosePop, OpenState, FindRow, brokerVars, Broker!GetDecision, Broker!Consume,
      Broker!ConsumeRaises
<1>3. CASE Review \/ Tick \/ Crash \/ UNCHANGED vars
  BY <1>3 DEF Review, Tick, Crash, vars, brokerVars, Broker!Decide, Broker!TimePasses
<1> QED BY <1>1, <1>2, <1>3 DEF Next

\* A call that tells its caller of a pause leaves the execution at rest, with the
\* continuation of that pause stored.
LEMMA TellsOfItsPause ==
  ASSUME GeneralInv, OneAtATime, OwnStates, SyncInv, NotAnsweredYet, [Next]_vars, GeneralInv',
         NEW d \in Calls, ToldPaused(d)', ~ ToldPaused(d)
  PROVE  /\ at'[d] = at[d] /\ Continuation(d) \in Pending
         /\ Stored(Execution(d))' = Continuation(d)
         /\ pending'[Execution(d)] = Continuation(d)
         /\ Known(Execution(d))'
         /\ \A c \in Calls : Execution(c) = Execution(d) => ~ InFlight(c)'
<1>1. pausing[d] /\ at'[d] = at[d]
  <2>1. pausing[d] \/ Gate(d)
    BY PausesLast DEF GeneralInv, ToldPaused
  <2>2. ~ Gate(d)
    <3>1. Gate(d) => pc[d] = "step" /\ result' = result
      BY DEF Gate, HasStep
    <3> QED BY <3>1, NoneAssumption DEF ToldPaused, NotAnsweredYet, Outcomes
  <2> QED BY <2>1, <2>2, PausesLast DEF GeneralInv
<1>2. result'[d] = "escalated" /\ result[d] # "escalated"
  BY <1>1 DEF ToldPaused
<1>3. Execute(d) \/ Resume(d)
  <2>1. ASSUME NEW c \in Calls, Execute(c) \/ Resume(c) PROVE c = d
    <3>1. \/ result' = result \/ result' = [result EXCEPT ![c] = Raised]
          \/ result' = [result EXCEPT ![c] = outcome[c]]
          \/ result' = [result EXCEPT ![c] = held[c].outcome]
      BY <2>1, AnswersMove
    <3> QED BY <1>2, <3>1 DEF GeneralInv, Types, HistoryTypes
  <2>2. ~ (Review \/ Tick \/ Crash \/ UNCHANGED vars)
    BY <1>2 DEF Review, Tick, Crash, vars
  <2> QED BY <2>1, <2>2 DEF Next
<1>4. pc'[d] = "done" /\ (Leave(d) \/ Merge(d) \/ Repersist(d) \/ ClosePop(d) \/ StillWaiting(d))
  BY <1>2, <1>3, AnswersMove, NoneAssumption
  DEF GeneralInv, Types, CallTypes, HistoryTypes, Outcomes
<1>5. pc[d] \in Storing \union Consuming \union Ended
  BY <1>1 DEF GeneralInv, Places, Place
<1>6. pc[d] \in Storing \union Consuming
  BY <1>3, <1>5, ActsInFlight
<1>7. outcome[d] = "escalated" /\ Synced(d)
  BY <1>1, <1>3, <1>6, StepsAreSynced DEF Synced, RowAt, InFlight, Storing, Consuming
<1>8. Continuation(d) \in Pending /\ Continuation(d) # None
  BY <1>1, <1>6, ContinuationIsSome, NoneAssumption DEF GeneralInv
<1>9. Leave(d) \/ Repersist(d)
  <2>1. ~ ClosePop(d) /\ ~ StillWaiting(d)
    BY <1>6 DEF ClosePop, StillWaiting, Storing, Consuming
  <2>2. ASSUME Merge(d) PROVE FALSE
    <3>1. pending[Execution(d)] = Continuation(d)
      BY <1>1, <1>7, <2>2 DEF Merge, Synced, PendingAt, InFlight, Consuming
    <3> QED BY <1>4, <1>8, <2>2, <3>1 DEF Merge, Goto, GeneralInv, Types, CallTypes
  <2> QED BY <1>4, <2>1, <2>2
<1>10. pending' = pending /\ pending[Execution(d)] = Continuation(d)
       /\ Stored(Execution(d)) = Continuation(d) /\ Known(Execution(d))
  BY <1>1, <1>7, <1>9
  DEF Leave, Repersist, tableVars, Synced, PendingAt, RowAt, InFlight, Consuming
<1>11. Known(Execution(d))'
  BY <1>10, HomeOf, KnownLasts
<1>12. Stored(Execution(d))' = Continuation(d)
  <2>1. Agree(Execution(d))'
    BY <1>3, <1>4, <1>7, CallSyncs, HomeOf DEF Synced, InFlight, GeneralInv
  <2> QED BY <1>8, <1>10, <2>1 DEF Agree
<1>13. \A c \in Calls : Execution(c) = Execution(d) => ~ InFlight(c)'
  <2>1. \A c \in Calls \ {d} : Same(c)
    BY <1>3, CallKeepsPlaces DEF GeneralInv
  <2> QED BY <1>3, <1>4, <2>1, StepsAreAlone DEF SyncInv, Same, InFlight
<1> QED BY <1>1, <1>8, <1>10, <1>11, <1>12, <1>13

\* A resume that has acted on a request has.
LEMMA ActedOnLasts ==
  ASSUME GeneralInv, OwnStates, NotAnsweredYet, [Next]_vars, NEW r \in Requests, ActedOn(r)
  PROVE  ActedOn(r)'
<1>1. CASE r \in consumed
  BY <1>1, ConsumedLasts DEF ActedOn
<1>2. ASSUME NEW c \in ResumeCalls, held[c] # None, HeldRequest(c) = r,
             approved[c] # {} \/ outcome[c] # None
      PROVE  ActedOn(r)'
  <2>1. c \in Calls
    BY DEF Calls
  <2>2. CASE approved[c] # {}
    <3>1. approved'[c] # {} /\ held'[c] = held[c]
      BY <2>2, ApprovalsLast DEF GeneralInv, ApprovalsStay
    <3> QED BY <1>2, <3>1 DEF ActedOn, HeldRequest
  <2>3. CASE outcome[c] # None
    <3>1. held'[c] = held[c]
      BY <2>1, <2>3, HeldMoves DEF NotAnsweredYet
    <3>2. outcome'[c] # None
      BY <2>1, <2>3, OutcomesLast DEF GeneralInv
    <3> QED BY <1>2, <3>1, <3>2 DEF ActedOn, HeldRequest
  <2> QED BY <1>2, <2>2, <2>3
<1> QED BY <1>1, <1>2 DEF ActedOn

\* A checkpoint goes when its run, or the one that closes it, is saved.
LEMMA StoredClears ==
  ASSUME GeneralInv, OwnStates, [Next]_vars, NEW x \in Executions,
         Stored(x) # None, Stored(x)' = None
  PROVE  \E c \in Calls : Execution(c) = x /\ (Finish(c) \/ CloseFinish(c))
<1>1. states' # states
  BY DEF Stored, StateRow
<1>2. PICK c \in Calls : Execute(c) \/ Resume(c)
  BY <1>1 DEF Next, Review, Tick, Crash, vars
<1>3. Execution(c) = x
  BY <1>2, CallsStayHome DEF Elsewhere, Stored, GeneralInv
<1>4. ASSUME Open(c) \/ Close(c) PROVE FALSE
  <2>1. states' = [states EXCEPT ![StateKey(c)] = Store!Opened(StateKey(c), Principal, "1")]
    BY <1>4 DEF Open, Close, OpenState, Store!GetOrCreate
  <2>2. Store!Opened(StateKey(c), Principal, "1") = StateRow(x)
    BY <1>3, HomeOf DEF Stored, StateRow, Store!Opened
  <2> QED BY <1>3, <2>1, <2>2, HomeOf DEF Stored, StateRow, GeneralInv, Types, Store!StateTypeOK
<1>5. ASSUME NEW p \in Pending, SaveCheckpoint(c, p), copy[c] # None,
             copy[c].execution_id = Execution(c)
      PROVE  FALSE
  <2> DEFINE s == [copy[c] EXCEPT !.status = "paused", !.version = copy[c].version + 1, !.data = p]
  <2>1. s.data = p /\ s \in Store!State
    BY <1>5, CheckpointIsState DEF GeneralInv
  <2>2. states' = [states EXCEPT ![StateKey(c)] = s]
    BY <1>5 DEF SaveCheckpoint, Store!Save
  <2> HIDE DEF s
  <2> QED BY <1>3, <2>1, <2>2, HomeOf, NoneAssumption
      DEF Stored, StateRow, GeneralInv, Types, Store!StateTypeOK
<1>6. ~ Persist(c)
  <2>1. Persist(c) => Continuation(c) \in Pending
    BY ContinuationIsPending DEF Persist, GeneralInv, Places
  <2> QED BY <1>5, <2>1 DEF Persist, GeneralInv, Places, Place, Storing
<1>7. ~ Repersist(c)
  <2>1. Repersist(c) => merged[c] \in Pending
    BY DEF Repersist, GeneralInv, Places, Place, Types, CallTypes
  <2> QED BY <1>5, <2>1 DEF Repersist, GeneralInv, Places, Place
<1> QED BY <1>1, <1>2, <1>3, <1>4, <1>6, <1>7, WhoWrites

\* The run and the closing that clear a checkpoint hold its request.
LEMMA ClearingActs ==
  ASSUME GeneralInv, OneAtATime, SyncInv, NEW c \in Calls, Finish(c) \/ CloseFinish(c),
         Stored(Execution(c)) # None
  PROVE  ActedOn(Stored(Execution(c)).request)
<1>1. Synced(c) /\ pc[c] \in {"finish", "close_finish"}
  BY StepsAreSynced DEF Execute, Resume, Finish, CloseFinish
<1>2. c \in ResumeCalls
  <2>1. pc[c] = "close_finish" => c \in ResumeCalls
    BY ResumeOnly DEF Closing, GeneralInv, Places
  <2>2. pc[c] = "finish" => c \notin ExecuteCalls
    BY <1>1 DEF Synced, PendingAt, InFlight
  <2> QED BY <1>1, <2>1, <2>2 DEF Calls
<1>3. Stored(Execution(c)) = held[c]
  BY <1>1, <1>2 DEF Synced, PendingAt, InFlight
<1>4. approved[c] # {} \/ outcome[c] # None
  BY <1>1 DEF GeneralInv, Places, Place, Storing, Closing
<1> QED BY <1>2, <1>3, <1>4 DEF ActedOn, HeldRequest

\* A pause the caller knows of stays behind everything that goes on, ...
LEMMA ToldStep ==
  ASSUME GeneralInv, OneAtATime, OwnStates, SyncInv, NotAnsweredYet, ToldInv,
         [Next]_vars, GeneralInv'
  PROVE  ToldInv'
<1> SUFFICES ASSUME NEW d \in Calls, ToldPaused(d)'
             PROVE  /\ Beyond(Execution(d), at[d])'
                    /\ \/ ActedOn(<<d, at[d]>>)'
                       \/ /\ Stored(Execution(d))' # None
                          /\ Stored(Execution(d))'.request = <<d, at'[d]>>
  BY DEF ToldInv, Execution
<1>1. CASE ~ ToldPaused(d)
  <2>1. /\ at'[d] = at[d] /\ Continuation(d) \in Pending
        /\ Stored(Execution(d))' = Continuation(d)
        /\ pending'[Execution(d)] = Continuation(d)
        /\ Known(Execution(d))'
        /\ \A c \in Calls : Execution(c) = Execution(d) => ~ InFlight(c)'
    BY <1>1, TellsOfItsPause
  <2>2. /\ Continuation(d) # None /\ Continuation(d).at = at[d]
        /\ Continuation(d).request = <<d, at[d]>>
    BY <2>1, NoneAssumption DEF Continuation
  <2>3. at[d] \in Nat
    BY DEF GeneralInv, Types, CallTypes
  <2> QED BY <2>1, <2>2, <2>3 DEF Beyond, InFlight, Running, Storing, Execution
<1>2. CASE ToldPaused(d)
  <2>1. at'[d] = at[d] /\ at[d] \in Nat
    BY <1>2, PausesLast DEF ToldPaused, GeneralInv, Types, CallTypes
  <2>2. Beyond(Execution(d), at[d]) /\ Execution(d) \in Executions
    BY <1>2, HomeOf DEF ToldInv
  <2>3. PICK n : n = at[d]
    OBVIOUS
  <2>4. Beyond(Execution(d), n)'
    BY <2>1, <2>2, <2>3, BeyondLasts, HomeOf
  <2>5. Beyond(Execution(d), at[d])'
    BY <2>1, <2>3, <2>4 DEF Beyond
  <2>6. PICK r : r = <<d, at[d]>>
    OBVIOUS
  <2>7. r \in Requests
    <3>1. at[d] <= Len(Plan[Execution(d)])
      BY <1>2 DEF ToldPaused, GeneralInv, Places, Place
    <3> QED BY <2>6, <3>1, StepIsRequested DEF GeneralInv
  <2>8. ActedOn(r) => ActedOn(r)'
    BY <2>7, ActedOnLasts
  <2>9. ASSUME Stored(Execution(d)) # None, Stored(Execution(d)).request = r, ~ ActedOn(r)
        PROVE  Stored(Execution(d))' = Stored(Execution(d))
    <3>1. Stored(Execution(d))' # None
      BY <2>2, <2>9, StoredClears, ClearingActs
    <3>2. ASSUME NEW c \in Calls, Execution(c) = Execution(d), pc[c] \in {"persist", "repersist"}
          PROVE  Stored(Execution(d)) = Continuation(c)
      BY <2>9, <3>2 DEF SyncInv, PendingAt, RowAt, InFlight, Consuming
    <3> QED BY <2>2, <3>1, <3>2, StoredMoves DEF GeneralInv
  <2>10. ActedOn(r)' \/ (Stored(Execution(d))' # None /\ Stored(Execution(d))'.request = r)
    BY <1>2, <2>6, <2>8, <2>9 DEF ToldInv
  <2> QED BY <2>1, <2>5, <2>6, <2>10 DEF ActedOn
<1> QED BY <1>1, <1>2

\* ... always.
LEMMA ToldAlways ==
  ASSUME OneAtATime, OwnStates
  PROVE  Spec => [](NotAnsweredYet /\ ToldInv)
<1>1. Init => NotAnsweredYet /\ ToldInv
  BY DEF Init, NotAnsweredYet, ToldInv, ToldPaused
<1>2. NotAnsweredYet /\ ToldInv /\ GeneralInv /\ GeneralInv' /\ SyncInv /\ [Next]_vars
        => (NotAnsweredYet /\ ToldInv)'
  BY NotAnsweredStep, ToldStep
<1> QED BY <1>1, <1>2, GeneralAlways, SyncAlways, PTL DEF Spec

\* A pause that the caller was told of can be resumed until a resume acts on it, through
\* any crash.
THEOREM PausesCanBeResumed ==
  ASSUME OneAtATime, OwnStates
  PROVE  Spec => []PausedIsResumable
<1>1. SyncInv /\ ToldInv => PausedIsResumable
  <2> SUFFICES ASSUME SyncInv, ToldInv, NEW c \in Calls, ToldPaused(c), ~ ActedOn(<<c, at[c]>>)
               PROVE  CanResume(Execution(c), <<c, at[c]>>)
    BY DEF PausedIsResumable
  <2>1. Stored(Execution(c)) # None /\ Stored(Execution(c)).request = <<c, at[c]>>
    BY DEF ToldInv
  <2>2. Checkpointed(Execution(c))
    BY HomeOf DEF SyncInv, Settled
  <2> QED BY <2>1, <2>2 DEF CanResume, Checkpointed, Stored, Known, StateRow
<1> QED BY <1>1, SyncAlways, ToldAlways, PTL

\* No step runs again that lies before a pause the caller was told of, through any crash.
THEOREM PassedStepsStayPassed ==
  ASSUME OneAtATime, OwnStates
  PROVE  Spec => PassedStepsNotReplayed
<1>1. ASSUME GeneralInv, ToldInv, [Next]_vars
      PROVE  [\A x \in Executions :
                handled'[x] # handled[x] =>
                  LET n == handled'[x][Len(handled'[x])][2] IN
                  \A c \in Calls : Execution(c) = x /\ ToldPaused(c) => at[c] <= n]_vars
  <2> SUFFICES ASSUME NEW x \in Executions, handled'[x] # handled[x],
                      NEW c \in Calls, Execution(c) = x, ToldPaused(c)
               PROVE  at[c] <= handled'[x][Len(handled'[x])][2]
    OBVIOUS
  <2>1. PICK d \in Calls : /\ Handle(d) /\ Execution(d) = x
                           /\ handled'[x][Len(handled'[x])] = <<d, at[d]>>
    BY <1>1, HandledGrows DEF GeneralInv
  <2>2. pc[d] \in Running
    BY <2>1 DEF Handle, HasStep, Running
  <2>3. at[c] <= at[d]
    BY <1>1, <2>1, <2>2 DEF ToldInv, Beyond
  <2> QED BY <2>1, <2>3
<1> QED BY <1>1, GeneralAlways, ToldAlways, PTL DEF Spec, PassedStepsNotReplayed

-----------------------------------------------------------------------------
(* What ends completed. *)

\* Whatever is pending was answered with "escalated".
EscalatedInv ==
  \A x \in Executions :
    /\ pending[x] # None => pending[x].outcome = "escalated"
    /\ Stored(x) # None => Stored(x).outcome = "escalated"

\* No call closes a request and completes, and a completed execution has nothing
\* left to run.
CompletedInv ==
  /\ \A c \in Calls : pc[c] \in Closing => outcome[c] # "completed"
  /\ \A d \in Calls : result[d] = "completed" =>
       LET x == Execution(d) IN
       /\ Known(x) /\ pending[x] = None /\ Stored(x) = None
       /\ \A c \in Calls : Execution(c) = x /\ InFlight(c) => pc[c] \in {"lookup", "restore"}

\* Only escalated runs are pending.
LEMMA EscalatedStep ==
  ASSUME GeneralInv, OneAtATime, OwnStates, SyncInv, EscalatedInv, [Next]_vars, GeneralInv'
  PROVE  EscalatedInv'
<1>1. ASSUME NEW d \in Calls, pc[d] \in {"remember", "persist", "repersist"}
      PROVE  Continuation(d).outcome = "escalated"
  BY <1>1
  DEF SyncInv, RowAt, InFlight, Storing, Consuming, GeneralInv, Places, Place, Continuation
<1>2. ASSUME NEW x \in Executions, NEW p, p # None, p \in {pending'[x], Stored(x)'}
      PROVE  p.outcome = "escalated"
  <2>1. \/ p \in {pending[x], Stored(x)}
        \/ \E d \in Calls : /\ p = Continuation(d)
                            /\ pc[d] \in {"remember", "persist", "repersist"}
    BY <1>2, PendingMoves, StoredMoves DEF GeneralInv
  <2> QED BY <1>1, <1>2, <2>1 DEF EscalatedInv
<1> QED BY <1>2 DEF EscalatedInv

\* A resume closes its request with an outcome for its decision.
LEMMA ClosingsMove ==
  ASSUME GeneralInv, [Next]_vars, NEW c \in Calls, pc'[c] \in Closing
  PROVE  \/ pc[c] \in Closing /\ outcome'[c] \in {outcome[c], "conflict"}
         \/ outcome'[c] \in {"needs_input", "escalated", "refused"}
<1>1. ASSUME Execute(c) PROVE pc'[c] \notin Closing
  BY <1>1
  DEF Execute, CheckTraces, CheckStore, Open, Admit, AcceptPlan, RefuseInput, ProviderFails,
      RefusePlan, Interrupt, InterruptEscapes, StepRaises, Deny, Handle, Gate, FinishPlan,
      Compose, Finish, Remember, Checkpoint, Persist, CheckpointRaises, Leave, OpenState, EndsAs,
      FindRow, Decided, Answer, Goto, HasStep, Closing, GeneralInv, Types, CallTypes
<1>2. ASSUME Resume(c)
      PROVE  \/ pc[c] \in Closing /\ outcome'[c] \in {outcome[c], "conflict"}
             \/ outcome'[c] \in {"needs_input", "escalated", "refused"}
  <2>1. CASE DecideFromBroker(c) \/ DecideFromCaller(c)
    BY <2>1
    DEF DecideFromBroker, DecideFromCaller, Act, ClosedAs, Goto, Closing, GeneralInv, Types,
        CallTypes
  <2>2. CASE Close(c) \/ CloseFinish(c) \/ ClosePop(c)
    BY <2>2
    DEF Close, CloseFinish, ClosePop, OpenState, SaveFinished, localVars, Closing, GeneralInv,
        Types, CallTypes
  <2>3. ASSUME ~ (DecideFromBroker(c) \/ DecideFromCaller(c)),
               ~ (Close(c) \/ CloseFinish(c) \/ ClosePop(c))
        PROVE  pc'[c] \notin Closing
    BY <1>2, <2>3
    DEF Resume, Fetch, Restore, Adopt, StillWaiting, DecideFromBroker, DecideFromCaller, Take,
        Consume, ConsumeInBroker, Merge, Recheck, Repersist, RepersistRaises, Close,
        CloseFinish, ClosePop, FindRow, Answer, Goto, Closing, GeneralInv, Types, CallTypes
  <2> QED BY <1>2, <2>1, <2>2, <2>3
<1>3. ASSUME NEW d \in Calls, d # c, Execute(d) \/ Resume(d)
      PROVE  pc'[c] = pc[c] /\ outcome'[c] = outcome[c]
  BY <1>3, CallKeepsPlaces DEF GeneralInv, Same
<1>4. CASE Review \/ Tick \/ UNCHANGED vars
  BY <1>4 DEF Review, Tick, vars, localVars
<1>5. CASE Crash
  BY <1>5 DEF Crash, localVars, Closing
<1> QED BY <1>1, <1>2, <1>3, <1>4, <1>5 DEF Next

\* A call that completes leaves the execution at rest, with nothing pending.
LEMMA CompletionsMove ==
  ASSUME GeneralInv, OneAtATime, OwnStates, SyncInv, EscalatedInv, CompletedInv, [Next]_vars,
         GeneralInv', NEW d \in Calls, result'[d] = "completed", result[d] # "completed"
  PROVE  /\ pc[d] \in {"leave", "merge"}
         /\ Known(Execution(d))' /\ pending'[Execution(d)] = None /\ Stored(Execution(d))' = None
         /\ \A c \in Calls : Execution(c) = Execution(d) => ~ InFlight(c)'
<1>1. Execute(d) \/ Resume(d)
  <2>1. ASSUME NEW c \in Calls, Execute(c) \/ Resume(c) PROVE c = d
    <3>1. \/ result' = result \/ result' = [result EXCEPT ![c] = Raised]
          \/ result' = [result EXCEPT ![c] = outcome[c]]
          \/ result' = [result EXCEPT ![c] = held[c].outcome]
      BY <2>1, AnswersMove
    <3> QED BY <3>1 DEF GeneralInv, Types, HistoryTypes
  <2>2. ~ (Review \/ Tick \/ Crash \/ UNCHANGED vars)
    BY DEF Review, Tick, Crash, vars
  <2> QED BY <2>1, <2>2 DEF Next
<1>2. Synced(d) /\ Synced(d)'
  BY <1>1, StepsAreSynced, CallSyncs DEF GeneralInv
<1>3. /\ pc'[d] = "done"
      /\ \/ outcome[d] = "completed" /\ (Leave(d) \/ Merge(d) \/ Repersist(d) \/ ClosePop(d))
         \/ held[d].outcome = "completed" /\ StillWaiting(d)
  BY <1>1, AnswersMove, NoneAssumption DEF GeneralInv, Types, CallTypes, HistoryTypes, Outcomes
<1>4. ~ ClosePop(d)
  BY <1>3 DEF ClosePop, StillWaiting, Closing, CompletedInv
<1>5. ~ StillWaiting(d)
  <2>1. StillWaiting(d) => pc[d] = "decide"
    BY DEF StillWaiting
  <2>2. pc[d] = "decide" => pending[Execution(d)] = held[d] /\ held[d] # None
    BY <1>2, HeldIsRequest, NoneAssumption DEF Synced, PendingAt, InFlight, GeneralInv
  <2>3. StillWaiting(d) => held[d].outcome = "escalated"
    BY <2>1, <2>2, HomeOf DEF EscalatedInv
  <2> QED BY <1>3, <2>3 DEF StillWaiting, Leave, Merge, Repersist, ClosePop
<1>6. pc[d] \in {"leave", "merge", "repersist"} /\ outcome[d] = "completed"
  BY <1>3, <1>4, <1>5 DEF Leave, Merge, Repersist
<1>7. ~ pausing[d]
  BY <1>2, <1>6 DEF Synced, RowAt, InFlight, Storing, Consuming
<1>8. pc[d] \in {"leave", "merge"} /\ Known(Execution(d)) /\ pending[Execution(d)] = None
      /\ Stored(Execution(d)) = None
  BY <1>2, <1>6, <1>7 DEF Synced, PendingAt, RowAt, InFlight, Consuming
<1>9. pending' = pending /\ states' = states
  BY <1>3, <1>4, <1>5, <1>8 DEF Leave, Merge, Repersist, tableVars
<1>10. \A c \in Calls : Execution(c) = Execution(d) => ~ InFlight(c)'
  <2>1. \A c \in Calls \ {d} : Same(c)
    BY <1>1, CallKeepsPlaces DEF GeneralInv
  <2> QED BY <1>1, <1>3, <2>1, StepsAreAlone DEF SyncInv, Same, InFlight
<1> QED BY <1>8, <1>9, <1>10 DEF Known, Stored, StateRow, Execution

\* Nothing starts again in an execution that has completed.
LEMMA CompletedStays ==
  ASSUME GeneralInv, OneAtATime, OwnStates, SyncInv, [Next]_vars, GeneralInv',
         NEW x \in Executions, Known(x), pending[x] = None, Stored(x) = None,
         \A c \in Calls : Execution(c) = x /\ InFlight(c) => pc[c] \in {"lookup", "restore"}
  PROVE  /\ Known(x)' /\ pending'[x] = None /\ Stored(x)' = None
         /\ \A c \in Calls : Execution(c) = x /\ InFlight(c)' => pc'[c] \in {"lookup", "restore"}
<1>1. Known(x)'
  BY KnownLasts
<1>2. \A c \in Calls : Execution(c) = x => pc[c] \notin {"remember", "persist", "repersist"}
  BY DEF InFlight
<1>3. pending'[x] = None /\ Stored(x)' = None
  BY <1>2, PendingMoves, StoredMoves DEF GeneralInv
<1>4. ASSUME NEW c \in Calls, Execution(c) = x, InFlight(c)' PROVE pc'[c] \in {"lookup", "restore"}
  <2>1. ASSUME Execute(c) \/ Resume(c)
        PROVE  CheckTraces(c) \/ Fetch(c) \/ CheckStore(c) \/ Restore(c)
    <3>1. pc[c] \in {"idle", "lookup", "restore"}
      BY <1>4, <2>1, ActsInFlight DEF InFlight, Ended
    <3>2. CASE Execute(c)
      BY <3>1, <3>2
      DEF Execute, CheckTraces, CheckStore, Open, Admit, AcceptPlan, RefuseInput, ProviderFails,
          RefusePlan, Interrupt, InterruptEscapes, StepRaises, Deny, Handle, Gate, FinishPlan,
          Compose, Finish, Remember, Checkpoint, Persist, CheckpointRaises, Leave, HasStep
    <3>3. CASE Resume(c)
      BY <3>1, <3>3
      DEF Resume, Fetch, Restore, Adopt, StillWaiting, DecideFromBroker, DecideFromCaller, Take,
          Consume, ConsumeInBroker, Merge, Recheck, Repersist, RepersistRaises, Close,
          CloseFinish, ClosePop
    <3> QED BY <2>1, <3>2, <3>3
  <2>2. CASE CheckTraces(c) \/ Fetch(c)
    BY <1>4, <2>2 DEF CheckTraces, Fetch, Goto, Answer, InFlight, GeneralInv, Types, CallTypes
  <2>3. ~ CheckStore(c)
    BY <1>4, RowIsKnown DEF CheckStore, Goto, Answer, InFlight, GeneralInv, Types, CallTypes
  <2>4. ~ Restore(c)
    <3>1. HasRow(c) => Row(c).data = None
      BY <1>4, RowIsKnown DEF GeneralInv, Stored, Known
    <3> QED BY <1>4, <3>1
        DEF Restore, HasCheckpoint, Goto, Answer, InFlight, GeneralInv, Types, CallTypes
  <2>5. ASSUME NEW d \in Calls, d # c, Execute(d) \/ Resume(d) PROVE pc'[c] = pc[c]
    BY <2>5, CallKeepsPlaces DEF GeneralInv, Same
  <2>6. CASE Review \/ Tick \/ UNCHANGED vars
    BY <1>4, <2>6 DEF Review, Tick, vars, InFlight
  <2>7. CASE Crash
    BY <1>4, <2>7 DEF Crash, InFlight
  <2>8. pc'[c] = pc[c] => pc'[c] \in {"lookup", "restore"}
    BY <1>4 DEF InFlight
  <2> QED BY <2>1, <2>2, <2>3, <2>4, <2>5, <2>6, <2>7, <2>8 DEF Next
<1> QED BY <1>1, <1>3, <1>4

\* A completed execution has nothing left to run.
LEMMA CompletedStep ==
  ASSUME GeneralInv, OneAtATime, OwnStates, SyncInv, EscalatedInv, CompletedInv, CompletedOnce,
         [Next]_vars, GeneralInv'
  PROVE  CompletedInv' /\ CompletedOnce'
<1>1. \A c \in Calls : pc'[c] \in Closing => outcome'[c] # "completed"
  BY ClosingsMove DEF CompletedInv
<1>2. ASSUME NEW d \in Calls, result'[d] = "completed"
      PROVE  /\ Known(Execution(d))' /\ pending'[Execution(d)] = None
             /\ Stored(Execution(d))' = None
             /\ \A c \in Calls :
                  Execution(c) = Execution(d) /\ InFlight(c)' => pc'[c] \in {"lookup", "restore"}
  <2>1. CASE result[d] = "completed"
    <3>1. PICK x \in Executions : x = Execution(d)
      BY HomeOf
    <3> QED BY <2>1, <3>1, CompletedStays DEF CompletedInv
  <2>2. CASE result[d] # "completed"
    BY <1>2, <2>2, CompletionsMove
  <2> QED BY <2>1, <2>2
<1>3. CompletedInv'
  BY <1>1, <1>2 DEF CompletedInv, Execution
<1>4. ASSUME NEW c \in Calls, NEW d \in Calls, Execution(c) = Execution(d),
             result[c] = "completed", result'[d] = "completed", result[d] # "completed"
      PROVE  FALSE
  <2>1. pc[d] \in {"leave", "merge"}
    BY <1>4, CompletionsMove
  <2> QED BY <1>4, <2>1 DEF CompletedInv, InFlight
<1>5. ASSUME NEW c \in Calls, NEW d \in Calls, c # d,
             result'[c] = "completed", result'[d] = "completed"
      PROVE  result[c] = "completed" \/ result[d] = "completed"
  <2>1. ASSUME NEW e \in Calls, Execute(e) \/ Resume(e)
        PROVE  \A f \in Calls \ {e} : result'[f] = result[f]
    <3>1. \/ result' = result \/ result' = [result EXCEPT ![e] = Raised]
          \/ result' = [result EXCEPT ![e] = outcome[e]]
          \/ result' = [result EXCEPT ![e] = held[e].outcome]
      BY <2>1, AnswersMove
    <3> QED BY <3>1 DEF GeneralInv, Types, HistoryTypes
  <2>2. CASE Review \/ Tick \/ Crash \/ UNCHANGED vars
    BY <1>5, <2>2 DEF Review, Tick, Crash, vars
  <2> QED BY <1>5, <2>1, <2>2 DEF Next
<1>6. CompletedOnce'
  BY <1>4, <1>5 DEF CompletedOnce, Execution
<1> QED BY <1>3, <1>6

\* Completed executions are done, and one call at most has been told.
LEMMA CompletedAlways ==
  ASSUME OneAtATime, OwnStates
  PROVE  Spec => [](EscalatedInv /\ CompletedInv /\ CompletedOnce)
<1>1. Init => EscalatedInv /\ CompletedInv /\ CompletedOnce
  <2>1. Init => EscalatedInv
    <3> SUFFICES ASSUME Init, NEW x \in Executions
                 PROVE  pending[x] = None /\ Stored(x) = None
      BY DEF EscalatedInv
    <3>1. StateOf[x] \in StateKeys
      BY RuntimeAssumption
    <3>2. states[StateOf[x]] = None
      BY <3>1 DEF Init, Store!StateInit
    <3>3. pending[x] = None
      BY DEF Init, NoExecutions
    <3> QED BY <3>2, <3>3 DEF Stored, StateRow
  <2>2. Init => CompletedInv /\ CompletedOnce
    BY NoneAssumption DEF Init, CompletedInv, CompletedOnce, Closing, Outcomes
  <2> QED BY <2>1, <2>2
<1>2. ASSUME EscalatedInv, CompletedInv, CompletedOnce, GeneralInv, GeneralInv', SyncInv,
             [Next]_vars
      PROVE  EscalatedInv' /\ CompletedInv' /\ CompletedOnce'
  <2>1. EscalatedInv'
    BY <1>2, EscalatedStep
  <2>2. CompletedInv' /\ CompletedOnce'
    BY <1>2, CompletedStep
  <2> QED BY <2>1, <2>2
<1> QED BY <1>1, <1>2, GeneralAlways, SyncAlways, PTL DEF Spec

\* Of calls made one at a time, one at most is told that its execution completed,
\* whatever raises out of a run and through any restart.
THEOREM CompletionsAreTold ==
  ASSUME OneAtATime, OwnStates
  PROVE  Spec => []CompletedOnce
BY CompletedAlways, PTL

-----------------------------------------------------------------------------
(* Resumes that act on one request, however they overlap.  No hypothesis. *)

\* A call writes no answer but its own.
LEMMA AnswersAreOwn ==
  ASSUME GeneralInv, NEW c \in Calls, Execute(c) \/ Resume(c)
  PROVE  \A d \in Calls \ {c} : result'[d] = result[d]
<1>1. \/ result' = result \/ result' = [result EXCEPT ![c] = Raised]
      \/ result' = [result EXCEPT ![c] = outcome[c]]
      \/ result' = [result EXCEPT ![c] = held[c].outcome]
  BY AnswersMove
<1> QED BY <1>1 DEF GeneralInv, Types, HistoryTypes

\* A resume has marked its request as consumed in the broker, and may answer.
Spends(c) ==
  /\ approved[c] # {}
  /\ \/ pc[c] \in {"merge", "recheck", "repersist"}
     \/ pc[c] = "done" /\ result[c] \in Outcomes

\* It has done so alone.
SpendInv ==
  /\ \A c \in ResumeCalls : Spends(c) => HeldRequest(c) \in consumed
  /\ \A c, d \in ResumeCalls :
       Spends(c) /\ Spends(d) /\ HeldRequest(c) = HeldRequest(d) => c = d

\* A resume comes there by consuming its request.
LEMMA OwnSpends ==
  ASSUME GeneralInv, NotAnsweredYet, NEW c \in ResumeCalls, Execute(c) \/ Resume(c), Spends(c)'
  PROVE  Spends(c) \/ (ConsumeInBroker(c) /\ pc'[c] = "merge")
<1>1. c \in Calls /\ c \notin ExecuteCalls
  BY RuntimeAssumption DEF Calls
<1>2. pc[c] \notin Ended
  BY <1>1, ActsInFlight
<1>3. CASE pc'[c] \in {"merge", "recheck", "repersist"}
  <2>1. ~ Execute(c)
    BY <1>1, <1>3
    DEF Execute, CheckTraces, CheckStore, Open, Admit, AcceptPlan, RefuseInput, ProviderFails,
        RefusePlan, Interrupt, InterruptEscapes, StepRaises, Deny, Handle, Gate, FinishPlan,
        Compose, Finish, Remember, Checkpoint, Persist, CheckpointRaises, Leave, OpenState,
        EndsAs, FindRow, HasStep, Decided, Answer, Goto, GeneralInv, Types, CallTypes
  <2>2. ConsumeInBroker(c) \/ Merge(c) \/ Recheck(c)
    BY <1>1, <1>3, <2>1
    DEF Resume, Fetch, Restore, Adopt, StillWaiting, DecideFromBroker, DecideFromCaller, Take,
        Consume, ConsumeInBroker, Merge, Recheck, Repersist, RepersistRaises, Close,
        CloseFinish, ClosePop, OpenState, FindRow, Act, Answer, Goto, GeneralInv, Types,
        CallTypes
  <2>3. CASE ConsumeInBroker(c)
    BY <1>1, <1>3, <2>3 DEF ConsumeInBroker, Answer, Goto, GeneralInv, Types, CallTypes
  <2>4. CASE Merge(c) \/ Recheck(c)
    BY <2>4 DEF Merge, Recheck, Spends
  <2> QED BY <2>2, <2>3, <2>4
<1>4. CASE pc'[c] = "done" /\ result'[c] \in Outcomes
  <2>1. result' # result
    BY <1>2, <1>4, NoneAssumption DEF NotAnsweredYet, Calls, Ended
  <2>2. Merge(c) \/ Repersist(c) \/ Leave(c) \/ ClosePop(c) \/ StillWaiting(c)
    BY <1>1, <1>4, <2>1, AnswersMove, NoneAssumption DEF GeneralInv, Types, HistoryTypes
  <2>3. ~ Leave(c)
    BY <1>1, <1>4 DEF Leave, Goto, GeneralInv, Types, CallTypes
  <2>4. ~ ClosePop(c) /\ ~ StillWaiting(c)
    <3>1. ClosePop(c) \/ StillWaiting(c)
            => approved' = approved /\ pc[c] \in {"close_pop", "decide"}
      BY DEF ClosePop, StillWaiting, localVars
    <3> QED BY <3>1
        DEF Spends, GeneralInv, Places, ResumePlace, Approving, Running, Storing, Consuming, Ended
  <2>5. CASE Merge(c) \/ Repersist(c)
    BY <2>5 DEF Merge, Repersist, localVars, Spends
  <2> QED BY <2>2, <2>3, <2>4, <2>5
<1> QED BY <1>3, <1>4 DEF Spends

\* The broker lets nobody consume a request again.
LEMMA SpendsMove ==
  ASSUME GeneralInv, NotAnsweredYet, [Next]_vars, NEW c \in ResumeCalls, Spends(c)'
  PROVE  /\ HeldRequest(c)' = HeldRequest(c)
         /\ \/ Spends(c)
            \/ /\ ConsumeInBroker(c)
               /\ HeldRequest(c) \in consumed' \ consumed
<1>1. c \in Calls
  BY DEF Calls
<1>2. Spends(c) \/ (ConsumeInBroker(c) /\ pc'[c] = "merge")
  <2>1. CASE Execute(c) \/ Resume(c)
    BY <2>1, OwnSpends
  <2>2. ASSUME NEW d \in Calls \ {c}, Execute(d) \/ Resume(d) PROVE Spends(c)
    BY <1>1, <2>2, AnswersAreOwn, CallKeepsPlaces DEF Spends, Same, GeneralInv
  <2>3. CASE Review \/ Tick \/ UNCHANGED vars
    BY <2>3 DEF Review, Tick, vars, localVars, Spends
  <2>4. CASE Crash
    BY <1>1, <2>4 DEF Crash, localVars, Spends
  <2> QED BY <2>1, <2>2, <2>3, <2>4 DEF Next
<1>3. CASE Spends(c)
  <2>1. held'[c] = held[c]
    BY <1>3, ApprovalsLast DEF Spends, ApprovalsStay, GeneralInv
  <2> QED BY <1>3, <2>1 DEF HeldRequest
<1>4. CASE ConsumeInBroker(c) /\ pc'[c] = "merge"
  <2>1. held' = held /\ pc[c] = "consume_broker"
    BY <1>4 DEF ConsumeInBroker, localVars
  <2>2. Broker!Consume(HeldRequest(c))
    BY <1>1, <1>4 DEF ConsumeInBroker, Answer, Goto, GeneralInv, Types, CallTypes
  <2>3. requests[HeldRequest(c)] # None
    <3>1. held[c] # None
      BY <1>1, <2>1, HeldIsRequest, NoneAssumption DEF GeneralInv, Consuming
    <3> QED BY <1>1, <3>1 DEF GeneralInv, PendingIsGenuine, Genuine, RequestOf, HeldRequest
  <2> QED BY <1>4, <2>1, <2>2, <2>3 DEF Broker!Consume, Broker!ConsumeRefused, HeldRequest
<1> QED BY <1>2, <1>3, <1>4

\* Two resumes do not consume in one step, ...
LEMMA OneConsumes ==
  ASSUME GeneralInv, NEW c \in ResumeCalls, NEW d \in ResumeCalls,
         ConsumeInBroker(c), ConsumeInBroker(d)
  PROVE  c = d
<1> SUFFICES ASSUME c # d PROVE FALSE
  OBVIOUS
<1>1. c \in Calls /\ d \in Calls /\ Resume(c)
  BY DEF Calls, Resume
<1>2. Same(d)
  BY <1>1, CallKeepsPlaces DEF GeneralInv
<1>3. pc[d] = "consume_broker" /\ pc'[d] \in {"merge", "done"}
  BY <1>1 DEF ConsumeInBroker, Answer, Goto, GeneralInv, Types, CallTypes
<1> QED BY <1>2, <1>3 DEF Same

\* ... so who has consumed a request has done it alone.
LEMMA SpendStep ==
  ASSUME GeneralInv, NotAnsweredYet, SpendInv, [Next]_vars
  PROVE  SpendInv'
<1>1. ASSUME NEW c \in ResumeCalls, Spends(c)' PROVE HeldRequest(c)' \in consumed'
  BY <1>1, SpendsMove, ConsumedLasts DEF SpendInv
<1>2. ASSUME NEW c \in ResumeCalls, NEW d \in ResumeCalls, Spends(c)', Spends(d)',
             HeldRequest(c)' = HeldRequest(d)'
      PROVE  c = d
  <2>1. /\ HeldRequest(c) = HeldRequest(d)
        /\ Spends(c) \/ (ConsumeInBroker(c) /\ HeldRequest(c) \notin consumed)
        /\ Spends(d) \/ (ConsumeInBroker(d) /\ HeldRequest(d) \notin consumed)
    BY <1>2, SpendsMove
  <2>2. /\ Spends(c) => HeldRequest(c) \in consumed
        /\ Spends(d) => HeldRequest(d) \in consumed
        /\ Spends(c) /\ Spends(d) => c = d
    BY <2>1 DEF SpendInv
  <2> QED BY <2>1, <2>2, OneConsumes
<1> QED BY <1>1, <1>2 DEF SpendInv

\* However many resumes act on one request, in this process or after restarts, and
\* whatever evidence they bring, at most one of them returns an outcome.
THEOREM ResumesAnswerOnce == Spec => []OneResumeAnswers
<1>1. Init => NotAnsweredYet /\ SpendInv
  <2>1. Init => NotAnsweredYet
    BY DEF Init, NotAnsweredYet
  <2>2. Init => \A c \in ResumeCalls : ~ Spends(c)
    BY DEF Init, Spends, Calls
  <2> QED BY <2>1, <2>2 DEF SpendInv
<1>2. GeneralInv /\ NotAnsweredYet /\ SpendInv /\ [Next]_vars => NotAnsweredYet' /\ SpendInv'
  BY NotAnsweredStep, SpendStep
<1>3. GeneralInv /\ NotAnsweredYet /\ SpendInv => OneResumeAnswers
  <2> SUFFICES ASSUME GeneralInv, NotAnsweredYet, SpendInv PROVE OneResumeAnswers
    OBVIOUS
  <2>1. ASSUME NEW c \in ResumeCalls, ActsOnApproval(c), result[c] \in Outcomes PROVE Spends(c)
    <3>1. pc[c] = "done"
      BY <2>1, NoneAssumption DEF NotAnsweredYet, Calls
    <3> QED BY <2>1, <3>1 DEF Spends, ActsOnApproval
  <2> QED BY <2>1 DEF OneResumeAnswers, SpendInv
<1> QED BY <1>1, <1>2, <1>3, GeneralAlways, PTL DEF Spec

-----------------------------------------------------------------------------
(* Where the plan of an execution stands, and where it may start over. *)

\* A new execution comes to its plan at the first step.
AtFirst ==
  \A c \in ExecuteCalls : pc[c] \in {"idle", "lookup", "open", "admit", "plan"} => at[c] = 1

\* The call that runs the plan of x and has not stored yet how it went.
Runs(c, x) ==
  Execution(c) = x /\ pc[c] \in (Running \ {"open"}) \union {"finish"}

\* A call runs its plan from the mark; it is at the step after the one that ran
\* last, unless an earlier run was lost and it has run nothing yet.
Stands(c) ==
  LET x == Execution(c) IN
  /\ Runs(c, x) => at[c] = NextStep(x) \/ (Lost(x) /\ at[c] = Mark(x))
  /\ pc[c] = "open" => at[c] = Mark(x)
  /\ pausing[c] /\ pc[c] \in {"finish", "remember", "checkpoint", "persist"}
       => at[c] = NextStep(x)

\* Between runs the mark is behind all that has run, or a run was lost.
Rests(x) == (\A c \in Calls : ~ Runs(c, x)) => Mark(x) = NextStep(x) \/ Lost(x)

\* A plan that may start over at its first step has no gate there, ...
StartsFree(x) == ~ Known(x) /\ handled[x] # <<>> => Plan[x][1] \notin Gated

\* ... and a resume has the approval of the step it starts at.
Opens(c) == approved[c] # {} => Plan[Execution(c)][held[c].at] \in approved[c]

GateInv ==
  /\ AtFirst
  /\ \A c \in Calls : Stands(c)
  /\ \A x \in Executions : Rests(x) /\ StartsFree(x)
  /\ \A c \in ResumeCalls : Opens(c)

\* The mark, by what is stored and known.
LEMMA MarkIs ==
  ASSUME NEW x \in Executions
  PROVE  /\ Stored(x) # None /\ Known(x) => Mark(x) = Stored(x).at
         /\ Stored(x) = None /\ Known(x) => Mark(x) = NextStep(x)
         /\ ~ Known(x) => Mark(x) = 1
BY DEF Mark, Known, Stored, StateRow

\* The mark after a step, likewise.
LEMMA MarkBecomes ==
  ASSUME NEW x \in Executions
  PROVE  /\ Stored(x)' # None /\ Known(x)' => Mark(x)' = Stored(x)'.at
         /\ Stored(x)' = None /\ Known(x)' => Mark(x)' = NextStep(x)'
         /\ ~ Known(x)' => Mark(x)' = 1
BY DEF Mark, Known, Stored, StateRow

\* The next step is the first one exactly when none has run.
LEMMA FirstIsNext ==
  ASSUME GeneralInv, NEW x \in Executions
  PROVE  NextStep(x) \in Nat \ {0} /\ (NextStep(x) = 1 <=> handled[x] = <<>>)
<1>1. handled[x] \in Seq(Calls \X (Nat \ {0}))
  BY DEF GeneralInv, Types, HistoryTypes
<1>2. CASE handled[x] # <<>>
  <2>1. Len(handled[x]) \in 1 .. Len(handled[x])
    BY <1>1, <1>2
  <2>2. handled[x][Len(handled[x])] \in Calls \X (Nat \ {0})
    BY <1>1, <2>1
  <2>3. PICK n \in Nat \ {0} : n = handled[x][Len(handled[x])][2]
    BY <2>2
  <2>4. NextStep(x) = n + 1
    BY <1>2, <2>3 DEF NextStep
  <2>5. n + 1 \in Nat \ {0} /\ n + 1 # 1
    BY <2>3
  <2> QED BY <1>2, <2>4, <2>5
<1> QED BY <1>2 DEF NextStep

\* A handler moves its execution one step on, and no other one.
LEMMA HandleMoves ==
  ASSUME GeneralInv, NEW c \in Calls, Handle(c)
  PROVE  /\ handled'[Execution(c)] = Append(handled[Execution(c)], <<c, at[c]>>)
         /\ \A x \in Executions \ {Execution(c)} : handled'[x] = handled[x]
         /\ NextStep(Execution(c))' = at[c] + 1
         /\ at'[c] = at[c] + 1
<1> DEFINE x == Execution(c)
<1>1. /\ x \in Executions /\ Execution(c)' = x
      /\ at[c] \in Nat \ {0} /\ handled[x] \in Seq(Calls \X (Nat \ {0}))
  BY HomeOf DEF GeneralInv, Types, CallTypes, HistoryTypes
<1>2. /\ handled' = [handled EXCEPT ![x] = Append(handled[x], <<c, at[c]>>)]
      /\ at' = [at EXCEPT ![c] = at[c] + 1]
  BY DEF Handle
<1>3. /\ handled'[x] = Append(handled[x], <<c, at[c]>>)
      /\ \A y \in Executions \ {x} : handled'[y] = handled[y]
      /\ at'[c] = at[c] + 1
  BY <1>1, <1>2 DEF GeneralInv, Types, CallTypes, HistoryTypes
<1>4. handled'[x] # <<>>
  BY <1>1, <1>3
<1>5. handled'[x][Len(handled'[x])] = <<c, at[c]>>
  BY <1>1, <1>3
<1>6. NextStep(x)' = at[c] + 1
  BY <1>1, <1>4, <1>5 DEF NextStep
<1> QED BY <1>3, <1>6

\* No run of x, nor the closing of one, is saved in this step.
Unsaved(x) == \A c \in Calls : Execution(c) = x => ~ (Finish(c) \/ CloseFinish(c))

\* Only the call that takes a step may save.
LEMMA OneSaves ==
  ASSUME GeneralInv, [Next]_vars
  PROVE  /\ Review \/ Tick \/ Crash \/ UNCHANGED vars => \A x \in Executions : Unsaved(x)
         /\ \A c \in Calls :
              Execute(c) \/ Resume(c) =>
                /\ ~ (Finish(c) \/ CloseFinish(c)) => \A x \in Executions : Unsaved(x)
                /\ \A x \in Executions \ {Execution(c)} : Unsaved(x)
<1>1. ASSUME NEW d \in Calls, Finish(d) \/ CloseFinish(d)
      PROVE  /\ pc[d] \in {"finish", "close_finish"}
             /\ pc'[d] \in {"remember", "leave", "close_pop"}
  BY <1>1 DEF Finish, CloseFinish, Goto, GeneralInv, Types, CallTypes
<1>2. ASSUME NEW d \in Calls, Finish(d) \/ CloseFinish(d)
      PROVE  /\ ~ (Review \/ Tick \/ Crash \/ UNCHANGED vars)
             /\ \A c \in Calls \ {d} : ~ (Execute(c) \/ Resume(c))
  <2>1. ~ (Review \/ Tick \/ UNCHANGED vars)
    BY <1>1, <1>2 DEF Review, Tick, vars
  <2>2. ~ Crash
    BY <1>1, <1>2 DEF Crash, InFlight
  <2>3. ASSUME NEW c \in Calls \ {d}, Execute(c) \/ Resume(c) PROVE FALSE
    <3>1. Same(d)
      BY <2>3, CallKeepsPlaces DEF GeneralInv
    <3> QED BY <1>1, <1>2, <3>1 DEF Same
  <2> QED BY <2>1, <2>2, <2>3
<1> QED BY <1>2 DEF Unsaved

\* What is stored stays until a run is saved at its end.
LEMMA StoredStays ==
  ASSUME GeneralInv, GeneralInv', OwnStates, SyncInv, [Next]_vars, NEW x \in Executions,
         Unsaved(x), Stored(x) # None
  PROVE  Stored(x)' = Stored(x)
<1>1. Stored(x)' # None
  BY StoredClears DEF Unsaved
<1>2. ASSUME NEW c \in Calls, Execution(c) = x, pc[c] \in {"persist", "repersist"},
             Stored(x)' = Continuation(c)
      PROVE  Stored(x)' = Stored(x)
  BY <1>2 DEF SyncInv, PendingAt, RowAt, InFlight, Consuming
<1>3. \/ Stored(x)' \in {Stored(x), None}
      \/ \E c \in Calls : /\ Execution(c) = x /\ pc[c] \in {"persist", "repersist"}
                          /\ Stored(x)' = Continuation(c)
  BY StoredMoves DEF GeneralInv
<1> QED BY <1>1, <1>2, <1>3

\* An execution becomes known when a run is saved at its end.
LEMMA KnownBegins ==
  ASSUME GeneralInv, OwnStates, SyncInv, [Next]_vars, NEW x \in Executions, Unsaved(x), Known(x)'
  PROVE  Known(x)
<1> SUFFICES ASSUME ~ Known(x) PROVE FALSE
  OBVIOUS
<1>1. states' # states
  BY DEF Known, StateRow
<1>2. PICK c \in Calls : Execute(c) \/ Resume(c)
  BY <1>1 DEF Next, Review, Tick, Crash, vars
<1>3. Execution(c) = x
  BY <1>2, CallsStayHome DEF Elsewhere, Known, GeneralInv
<1>4. ASSUME Open(c) \/ Close(c) PROVE FALSE
  <2>1. states' = [states EXCEPT ![StateKey(c)] = Store!Opened(StateKey(c), Principal, "1")]
    BY <1>4 DEF Open, Close, OpenState, Store!GetOrCreate
  <2>2. StateRow(x)' = Store!Opened(StateKey(c), Principal, "1")
    BY <1>3, <2>1, HomeOf DEF StateRow, GeneralInv, Types, Store!StateTypeOK
  <2>3. StateRow(x) # None => StateRow(x)' = StateRow(x)
    BY <1>3, <2>2, HomeOf DEF StateRow, Store!Opened
  <2>4. StateRow(x) = None => StateRow(x)'.execution_id = None
    BY <1>3, <2>2, HomeOf DEF StateRow, Store!Opened, Store!FreshState
  <2> QED BY <2>3, <2>4, NoneAssumption DEF Known
<1>5. ~ Persist(c) /\ ~ Repersist(c)
  <2>1. pc[c] \notin {"persist", "repersist"}
    BY <1>3 DEF SyncInv, RowAt, InFlight, Consuming
  <2> QED BY <2>1 DEF Persist, Repersist
<1> QED BY <1>1, <1>2, <1>3, <1>4, <1>5, WhoWrites DEF Unsaved

\* A run that was lost stays lost until one is saved at its end.
LEMMA LostLasts ==
  ASSUME GeneralInv, GeneralInv', OwnStates, SyncInv, [Next]_vars, NEW x \in Executions,
         Unsaved(x), Lost(x)
  PROVE  Lost(x)'
<1>1. PICK d \in Calls : /\ Execution(d) = x /\ CutOff(d)
                         /\ IF Known(x)
                            THEN ActsOnApproval(d) /\ held[d] = StateRow(x).data
                            ELSE d \in ExecuteCalls /\ copy[d] # None
  BY DEF Lost
<1>2. pc'[d] = pc[d] /\ pc[d] \in Ended
  BY <1>1, EndedStays DEF GeneralInv, Ended, CutOff
<1>3. /\ copy'[d] = copy[d] /\ result'[d] = result[d]
      /\ held'[d] = held[d] /\ approved'[d] = approved[d]
  <2>1. ASSUME NEW c \in Calls, Execute(c) \/ Resume(c)
        PROVE  /\ copy'[d] = copy[d] /\ result'[d] = result[d]
               /\ held'[d] = held[d] /\ approved'[d] = approved[d]
    <3>1. d # c
      BY <1>2, <2>1, ActsInFlight
    <3> QED BY <2>1, <3>1, AnswersAreOwn, CallKeepsPlaces DEF GeneralInv, Same
  <2>2. CASE Review \/ Tick \/ Crash \/ UNCHANGED vars
    BY <2>2 DEF Review, Tick, Crash, vars, localVars
  <2> QED BY <2>1, <2>2 DEF Next
<1>4. Execution(d)' = x /\ CutOff(d)'
  BY <1>1, <1>2, <1>3 DEF CutOff, Execution
<1>5. CASE ~ Known(x)
  <2>1. ~ Known(x)'
    BY <1>5, KnownBegins
  <2> QED BY <1>1, <1>3, <1>4, <1>5, <2>1 DEF Lost
<1>6. CASE Known(x)
  <2>1. Stored(x) = held[d] /\ held[d] # None
    BY <1>1, <1>6 DEF Known, Stored, ActsOnApproval
  <2>2. Stored(x)' = held[d] /\ Known(x)'
    BY <1>6, <2>1, StoredStays, KnownLasts
  <2>3. held'[d] = StateRow(x)'.data
    BY <1>3, <2>2 DEF Stored, Known
  <2>4. ActsOnApproval(d)'
    BY <1>1, <1>3, <1>6 DEF ActsOnApproval
  <2> QED BY <1>4, <2>2, <2>3, <2>4 DEF Lost
<1> QED BY <1>5, <1>6

\* A run saved at its end leaves no checkpoint.
LEMMA FinishStores ==
  ASSUME NEW c \in Calls, Types, Places, OwnStates, Synced(c), Finish(c) \/ CloseFinish(c)
  PROVE  Stored(Execution(c))' = None /\ Known(Execution(c))'
<1>1. /\ copy[c] = StateRow(Execution(c)) /\ copy[c] # None /\ outcome[c] # None
  BY DEF Finish, CloseFinish, Synced, RowAt, InFlight, Places, Place, Storing, Closing
<1>2. Store!MaySave(StateKey(c), FinishedState(c), copy[c].version)
  <2>1. copy[c] \in Store!State /\ StateRow(Execution(c)) = states[StateKey(c)]
    BY <1>1, HomeOf DEF Types, CallTypes, StateRow
  <2>2. FinishedState(c).owner = copy[c].owner /\ copy[c].version # None
    BY <2>1, NoneAssumption DEF FinishedState, Store!State, Broker!BrokerAssumption
  <2> QED BY <1>1, <2>1, <2>2 DEF Store!MaySave
<1>3. states' = [states EXCEPT ![StateKey(c)] = FinishedState(c)]
  BY <1>2 DEF Finish, CloseFinish, SaveFinished, Store!Save
<1>4. /\ FinishedState(c) \in Store!State
      /\ FinishedState(c).execution_id = Execution(c)
      /\ FinishedState(c).data = None
  BY <1>1, FinishedIsState
<1> QED BY <1>3, <1>4, HomeOf, NoneAssumption
    DEF StateRow, Stored, Known, Types, Store!StateTypeOK

\* A new execution never goes back.
LEMMA FirstMoves ==
  ASSUME GeneralInv, NEW c \in ExecuteCalls, [Next]_vars,
         pc'[c] \in {"idle", "lookup", "open", "admit", "plan"}
  PROVE  pc[c] \in {"idle", "lookup", "open", "admit", "plan"} /\ at'[c] = at[c]
<1>1. c \in Calls /\ pc[c] \in ExecutePlaces
  BY DEF Calls, GeneralInv, Places, Place
<1>2. ASSUME NEW d \in Calls \ {c}, Execute(d) \/ Resume(d)
      PROVE  pc'[c] = pc[c] /\ at'[c] = at[c]
  <2>1. Same(c)
    BY <1>1, <1>2, CallKeepsPlaces DEF GeneralInv
  <2> QED BY <2>1 DEF Same
<1>3. CASE Execute(c) /\ ~ Handle(c)
  BY <1>1, <1>3
  DEF Execute, CheckTraces, CheckStore, Open, Admit, AcceptPlan, RefuseInput, ProviderFails,
      RefusePlan, Interrupt, InterruptEscapes, StepRaises, Deny, Handle, Gate, FinishPlan,
      Compose, Finish, Remember, Checkpoint, Persist, CheckpointRaises, Leave, MayStart, HasStep,
      OpenState, EndsAs, FindRow, Goto, Answer, Decided, localVars, ExecutePlaces, Running,
      Storing, Ended, GeneralInv, Types, CallTypes
<1>4. CASE Handle(c)
  BY <1>1, <1>4 DEF Handle, HasStep, GeneralInv, Types, CallTypes
<1>5. ~ Resume(c)
  BY <1>1, RuntimeAssumption
  DEF Resume, Fetch, Restore, Adopt, StillWaiting, DecideFromBroker, DecideFromCaller, Take,
      Consume, ConsumeInBroker, Merge, Recheck, Repersist, RepersistRaises, Close, CloseFinish,
      ClosePop, ExecutePlaces, Running, Storing, Ended, MayStart
<1>6. CASE Review \/ Tick \/ Crash \/ UNCHANGED vars
  <2>1. CASE Crash
    BY <1>1, <2>1 DEF Crash, localVars
  <2> QED BY <1>6, <2>1 DEF Review, Tick, vars, localVars
<1> QED BY <1>2, <1>3, <1>4, <1>5, <1>6 DEF Next

\* A handler of another call is not this call's step.
LEMMA HandlesItself ==
  ASSUME GeneralInv, NEW c \in Calls, Execute(c) \/ Resume(c), ~ Handle(c)
  PROVE  handled' = handled
<1>1. CASE Execute(c)
  BY <1>1
  DEF Execute, CheckTraces, CheckStore, Open, Admit, AcceptPlan, RefuseInput, ProviderFails,
      RefusePlan, Interrupt, InterruptEscapes, StepRaises, Deny, Handle, Gate, FinishPlan,
      Compose, Finish, Remember, Checkpoint, Persist, CheckpointRaises, Leave, OpenState, EndsAs,
      FindRow
<1>2. CASE Resume(c)
  BY <1>2
  DEF Resume, Fetch, Restore, Adopt, StillWaiting, DecideFromBroker, DecideFromCaller, Take,
      Consume, ConsumeInBroker, Merge, Recheck, Repersist, RepersistRaises, Close, CloseFinish,
      ClosePop, OpenState, FindRow
<1> QED BY <1>1, <1>2

\* Where the store is left alone the mark moves with the steps that run, at most.
LEMMA SameRowSameMark ==
  ASSUME NEW x \in Executions, StateRow(x)' = StateRow(x), handled'[x] = handled[x]
  PROVE  Mark(x)' = Mark(x) /\ NextStep(x)' = NextStep(x)
BY DEF Mark, Known, StateRow, NextStep

\* Opening the state of an execution moves no mark.
LEMMA OpenKeepsMark ==
  ASSUME GeneralInv, NEW c \in Calls, Open(c)
  PROVE  Mark(Execution(c))' = Mark(Execution(c))
<1>1. states' = [states EXCEPT ![StateKey(c)] = Store!Opened(StateKey(c), Principal, "1")]
  BY DEF Open, OpenState, Store!GetOrCreate
<1>2. StateRow(Execution(c))' = Store!Opened(StateKey(c), Principal, "1")
  BY <1>1, HomeOf DEF StateRow, GeneralInv, Types, Store!StateTypeOK
<1>3. handled' = handled
  BY DEF Open, OpenState
<1>4. CASE StateRow(Execution(c)) # None
  <2>1. StateRow(Execution(c))' = StateRow(Execution(c))
    BY <1>2, <1>4, HomeOf DEF StateRow, Store!Opened
  <2> QED BY <1>3, <2>1, HomeOf DEF Mark, Known, StateRow, NextStep
<1>5. CASE StateRow(Execution(c)) = None
  <2>1. StateRow(Execution(c))'.execution_id = None
    BY <1>2, <1>5, HomeOf DEF StateRow, Store!Opened, Store!FreshState
  <2>2. ~ Known(Execution(c))' /\ ~ Known(Execution(c))
    BY <1>5, <2>1, HomeOf, NoneAssumption DEF Known
  <2> QED BY <2>2, HomeOf, MarkIs, MarkBecomes
<1> QED BY <1>4, <1>5

\* A step that neither runs a handler nor saves a run at its end moves no mark.
LEMMA MarkStays ==
  ASSUME GeneralInv, GeneralInv', OwnStates, SyncInv, GateInv, [Next]_vars, handled' = handled,
         NEW x \in Executions, Unsaved(x)
  PROVE  Mark(x)' = Mark(x) /\ NextStep(x)' = NextStep(x)
<1>1. NextStep(x)' = NextStep(x)
  BY DEF NextStep
<1>2. Known(x)' <=> Known(x)
  BY KnownLasts, KnownBegins
<1>3. CASE ~ Known(x)
  BY <1>1, <1>2, <1>3, MarkIs, MarkBecomes
<1>4. CASE Known(x) /\ Stored(x) # None
  BY <1>1, <1>2, <1>4, StoredStays, MarkIs, MarkBecomes
<1>5. CASE Known(x) /\ Stored(x) = None
  <2>1. ASSUME NEW d \in Calls, Execution(d) = x, pc[d] \in {"persist", "repersist"},
               Stored(x)' = Continuation(d)
        PROVE  Stored(x)' = None \/ Stored(x)'.at = NextStep(x)
    <3>1. CASE pc[d] = "persist"
      <4>1. pausing[d] /\ at[d] = NextStep(x)
        BY <2>1, <3>1 DEF GeneralInv, Places, Place, GateInv, Stands
      <4> QED BY <2>1, <4>1 DEF Continuation
    <3>2. CASE pc[d] = "repersist"
      BY <1>5, <2>1, <3>2 DEF SyncInv, PendingAt, RowAt, InFlight, Consuming
    <3> QED BY <2>1, <3>1, <3>2
  <2>2. Stored(x)' = None \/ Stored(x)'.at = NextStep(x)
    BY <1>5, <2>1, StoredMoves DEF GeneralInv
  <2> QED BY <1>1, <1>2, <1>5, <2>2, MarkIs, MarkBecomes
<1> QED BY <1>1, <1>3, <1>4, <1>5

\* A run stops at a gate after all the steps before it: where it may start over
\* there is no gate, or the resume has its approval.
LEMMA GateAtNext ==
  ASSUME GeneralInv, GateInv, NEW c \in Calls, Synced(c), Gate(c)
  PROVE  at[c] = NextStep(Execution(c))
<1> DEFINE x == Execution(c)
<1>1. /\ x \in Executions /\ pc[c] = "step" /\ Action(c) = Plan[x][at[c]]
      /\ Action(c) \in Gated /\ Action(c) \notin approved[c]
  BY HomeOf DEF Gate, HasStep, Permitted, Action
<1>2. at[c] = NextStep(x) \/ at[c] = Mark(x)
  BY <1>1 DEF GateInv, Stands, Runs, Running
<1>3. CASE c \in ResumeCalls /\ at[c] = Mark(x)
  <2>1. Stored(x) = held[c] /\ held[c] # None /\ approved[c] # {}
    BY <1>1, <1>3
    DEF Synced, PendingAt, InFlight, Running, GeneralInv, Places, ResumePlace, Approving, Ended
  <2>2. at[c] = held[c].at
    BY <1>1, <1>3, <2>1, MarkIs DEF Synced, Checkpointed
  <2>3. Plan[x][held[c].at] \in approved[c]
    BY <1>3, <2>1 DEF GateInv, Opens
  <2> QED BY <1>1, <2>2, <2>3
<1>4. CASE c \in ExecuteCalls /\ at[c] = Mark(x)
  <2>1. ~ Known(x)
    BY <1>1, <1>4 DEF Synced, PendingAt, InFlight, Running
  <2>2. at[c] = 1
    BY <1>1, <1>4, <2>1, MarkIs
  <2>3. handled[x] = <<>>
    BY <1>1, <2>1, <2>2 DEF GateInv, StartsFree
  <2> QED BY <1>1, <2>2, <2>3, FirstIsNext
<1> QED BY <1>2, <1>3, <1>4 DEF Calls

\* After its handler a call is at the next step.
LEMMA HandleStands ==
  ASSUME GeneralInv, NEW c \in Calls, Handle(c)
  PROVE  Stands(c)'
<1>1. NextStep(Execution(c))' = at'[c] /\ Execution(c)' = Execution(c)
  BY HandleMoves, HomeOf
<1>2. pc'[c] = "step"
  BY DEF Handle, HasStep
<1> QED BY <1>1, <1>2 DEF Stands

\* The mark of a plan that a call runs stands while its steps run.
LEMMA HandleKeepsMark ==
  ASSUME GeneralInv, NEW c \in Calls, Synced(c), Handle(c), NEW x \in Executions
  PROVE  Mark(x)' = Mark(x)
<1>1. states' = states /\ pc[c] = "step"
  BY DEF Handle, HasStep
<1>2. CASE x # Execution(c)
  BY <1>1, <1>2, HandleMoves DEF Mark, Known, StateRow, NextStep
<1>3. CASE x = Execution(c)
  <2>1. \/ Stored(x) # None
        \/ ~ Known(x)
    BY <1>1, <1>3
    DEF Synced, PendingAt, InFlight, Running, GeneralInv, Places, ResumePlace, Ended, Calls
  <2>2. Stored(x) # None => Known(x)
    BY <1>3 DEF Synced, Checkpointed
  <2>3. Stored(x)' = Stored(x) /\ (Known(x)' <=> Known(x))
    BY <1>1 DEF Stored, Known, StateRow
  <2> QED BY <2>1, <2>2, <2>3, MarkIs, MarkBecomes
<1> QED BY <1>2, <1>3

\* From one step of the plan to the next, and to its end, the store is left alone.
LEMMA RunsInPlace ==
  ASSUME GeneralInv, NEW c \in Calls, Execute(c), ~ Handle(c), ~ Open(c), ~ Finish(c), ~ Persist(c),
         pc[c] \in Running \union Storing
  PROVE  /\ states' = states /\ pc'[c] # "open"
         /\ pc'[c] \in Running \union {"finish"} => pc[c] \in Running
         /\ Gate(c) \/ pausing' = pausing
BY DEF Execute, CheckTraces, CheckStore, Open, Admit, AcceptPlan, RefuseInput, ProviderFails,
   RefusePlan, Interrupt, InterruptEscapes, StepRaises, Deny, Handle, Gate, FinishPlan, Compose,
   Finish, Remember, Checkpoint, Persist, CheckpointRaises, Leave, HasStep, MayStart, EndsAs,
   FindRow, Goto, Answer, Decided, localVars, Running, Storing, GeneralInv, Types, CallTypes

\* A call that runs its plan or stores how it went is in execute.
LEMMA RunsAreExecuted ==
  ASSUME NEW c \in Calls, Execute(c) \/ Resume(c), pc[c] \in Running \union Storing
  PROVE  Execute(c) /\ ~ CheckStore(c)
BY DEF Resume, Fetch, Restore, Adopt, StillWaiting, DecideFromBroker, DecideFromCaller, Take,
   Consume, ConsumeInBroker, Merge, Recheck, Repersist, RepersistRaises, Close, CloseFinish,
   ClosePop, MayStart, CheckStore, Running, Storing

\* A call that goes on with its run stands where it should, ...
LEMMA RunStands ==
  ASSUME GeneralInv, GeneralInv', OwnStates, SyncInv, GateInv, [Next]_vars, NEW c \in Calls,
         Execute(c), ~ Handle(c), Synced(c), \A d \in Calls \ {c} : ~ Runs(d, Execution(c)),
         pc[c] \in (Running \union Storing) \ {"leave"}, at'[c] = at[c]
  PROVE  Stands(c)'
<1> DEFINE x == Execution(c)
<1>1. /\ x \in Executions /\ Execution(c)' = x /\ handled' = handled
      /\ NextStep(x)' = NextStep(x)
  BY HomeOf, HandlesItself DEF NextStep
<1>2. ~ Finish(c) /\ Lost(x) => Lost(x)'
  BY <1>1, OneSaves, LostLasts DEF CloseFinish, Running, Storing
<1>3. pausing[c] => pc[c] \notin Running
  BY RunsUnpaused DEF GeneralInv
<1>4. CASE Open(c)
  <2>1. pc[c] = "open" /\ pc'[c] = "admit" /\ pausing' = pausing
    BY <1>4 DEF Open, OpenState, Goto, GeneralInv, Types, CallTypes
  <2>2. at[c] = Mark(x)
    BY <2>1 DEF GateInv, Stands
  <2>3. \A d \in Calls : ~ Runs(d, x)
    BY <2>1 DEF Runs, Running
  <2>4. Mark(x) = NextStep(x) \/ Lost(x)
    BY <1>1, <2>3 DEF GateInv, Rests
  <2>5. Mark(x)' = Mark(x)
    BY <1>4, OpenKeepsMark
  <2>6. ~ Finish(c)
    BY <2>1 DEF Finish
  <2> QED BY <1>1, <1>2, <2>1, <2>2, <2>4, <2>5, <2>6 DEF Stands
<1>5. CASE Finish(c)
  <2>1. pc[c] = "finish" /\ pc'[c] \in {"remember", "leave"} /\ pausing' = pausing
    BY <1>5 DEF Finish, Goto, GeneralInv, Types, CallTypes
  <2>2. ~ Runs(c, x)'
    BY <1>1, <2>1 DEF Runs, Running
  <2>3. pausing[c] => at[c] = NextStep(x)
    BY <2>1 DEF GateInv, Stands
  <2> QED BY <1>1, <2>1, <2>2, <2>3 DEF Stands
<1>6. CASE Persist(c)
  <2>1. pc'[c] = "leave"
    BY <1>6 DEF Persist, Goto, GeneralInv, Types, CallTypes
  <2> QED BY <1>1, <2>1 DEF Stands, Runs, Running
<1>7. CASE ~ (Open(c) \/ Finish(c) \/ Persist(c))
  <2>1. /\ states' = states /\ pc'[c] # "open"
        /\ pc'[c] \in Running \union {"finish"} => pc[c] \in Running
        /\ Gate(c) \/ pausing' = pausing
    BY <1>7, RunsInPlace
  <2>2. Mark(x)' = Mark(x)
    BY <1>1, <2>1, SameRowSameMark DEF StateRow
  <2>3. pc[c] # "open"
    BY <1>7, RunsAreExecuted
    DEF Execute, CheckTraces, CheckStore, Open, Admit, AcceptPlan, RefuseInput, ProviderFails,
        RefusePlan, Interrupt, InterruptEscapes, StepRaises, Deny, Handle, Gate, FinishPlan,
        Compose, Finish, Remember, Checkpoint, Persist, CheckpointRaises, Leave, HasStep, MayStart
  <2>4. Runs(c, x)' => at[c] = NextStep(x) \/ (Lost(x) /\ at[c] = Mark(x))
    BY <1>1, <2>1, <2>3 DEF GateInv, Stands, Runs
  <2>5. pausing'[c] /\ pc'[c] \in {"finish", "remember", "checkpoint", "persist"}
          => at[c] = NextStep(x)
    <3>1. CASE Gate(c)
      BY <3>1, GateAtNext
    <3>2. CASE pausing[c]
      <4>1. pc[c] \in {"finish", "remember", "checkpoint", "persist"}
        BY <1>3, <3>2 DEF Storing
      <4> QED BY <3>2, <4>1 DEF GateInv, Stands
    <3> QED BY <2>1, <3>1, <3>2
  <2> QED BY <1>1, <1>2, <1>7, <2>1, <2>2, <2>4, <2>5 DEF Stands
<1> QED BY <1>4, <1>5, <1>6, <1>7

\* ... and so does one that begins it.
LEMMA CallStands ==
  ASSUME GeneralInv, GeneralInv', OwnStates, SyncInv, GateInv, [Next]_vars, NEW c \in Calls,
         Execute(c) \/ Resume(c), ~ Handle(c), Synced(c),
         \A d \in Calls \ {c} : ~ Runs(d, Execution(c))
  PROVE  Stands(c)'
<1> DEFINE x == Execution(c)
<1>1. x \in Executions /\ Execution(c)' = x /\ handled' = handled
  BY HomeOf, HandlesItself
<1>2. CASE pc'[c] \notin Running \union Storing
  BY <1>2 DEF Stands, Runs, Running, Storing
<1>3. CASE pc[c] \in (Running \union Storing) \ {"leave"} /\ at'[c] = at[c]
  BY <1>3, RunStands, RunsAreExecuted
<1>4. CASE CheckStore(c) /\ ~ HasRow(c) /\ at'[c] = at[c]
  <2>1. pc[c] = "lookup" /\ pc'[c] = "open" /\ states' = states /\ pausing' = pausing
    BY <1>4 DEF CheckStore, Goto, localVars, GeneralInv, Types, CallTypes
  <2>2. ~ Known(x) /\ ~ Known(x)'
    BY <1>4, <2>1, RowIsKnown DEF GeneralInv, Known, StateRow
  <2>3. c \in ExecuteCalls
    BY <2>1
    DEF GeneralInv, Places, Place, ResumePlaces, Approving, Running, Storing, Consuming, Closing,
        Ended, Calls
  <2>4. at[c] = 1
    BY <2>1, <2>3 DEF GateInv, AtFirst
  <2>5. Mark(x)' = 1
    BY <1>1, <2>2, MarkBecomes
  <2> QED BY <1>1, <1>4, <2>1, <2>4, <2>5 DEF Stands, Runs, Running
<1>5. CASE Take(c) /\ at'[c] = held[c].at
  <2>1. pc[c] = "take" /\ pc'[c] = "open" /\ states' = states
    BY <1>5 DEF Take, Goto, GeneralInv, Types, CallTypes
  <2>2. held[c] # None /\ Stored(x) = held[c]
    BY <2>1, HeldIsRequest, NoneAssumption DEF GeneralInv, Synced, PendingAt, InFlight
  <2>3. Mark(x) = held[c].at
    BY <1>1, <2>2, MarkIs DEF Synced, Checkpointed
  <2>4. Mark(x)' = Mark(x)
    BY <1>1, <2>1, SameRowSameMark DEF StateRow
  <2> QED BY <1>1, <1>5, <2>1, <2>3, <2>4 DEF Stands, Runs, Running
<1> QED BY <1>2, <1>3, <1>4, <1>5, CallRunsMove

\* What a call must have to be lost when it is cut off while it runs its plan.
LEMMA RunsMayBeLost ==
  ASSUME GeneralInv, NEW c \in Calls, PendingAt(c), Checkpointed(Execution(c)),
         pc[c] \in (Running \ {"open"}) \union {"finish"}
  PROVE  IF Known(Execution(c))
         THEN ActsOnApproval(c) /\ held[c] = StateRow(Execution(c)).data
         ELSE c \in ExecuteCalls /\ copy[c] # None
<1> DEFINE x == Execution(c)
<1>1. copy[c] # None
  BY DEF GeneralInv, Places, Place, Running, Storing
<1>2. CASE c \in ExecuteCalls
  BY <1>1, <1>2 DEF PendingAt, Running
<1>3. CASE c \in ResumeCalls
  <2>1. held[c] # None /\ approved[c] # {}
    BY <1>3 DEF GeneralInv, Places, ResumePlace, Approving, Running, Storing, Ended
  <2>2. Stored(x) = held[c]
    BY <1>3 DEF PendingAt, Running
  <2> QED BY <2>1, <2>2 DEF Checkpointed, Stored, Known, ActsOnApproval
<1> QED BY <1>2, <1>3 DEF Calls

\* A call that has stopped running its plan has stored how it went, or is lost.
LEMMA RunEnds ==
  ASSUME GeneralInv, GeneralInv', OwnStates, SyncInv, SyncInv', GateInv, [Next]_vars,
         NEW c \in Calls, Execute(c), Synced(c), Runs(c, Execution(c)), ~ Runs(c, Execution(c))'
  PROVE  Mark(Execution(c))' = NextStep(Execution(c))' \/ Lost(Execution(c))'
<1> DEFINE x == Execution(c)
<1>1. /\ x \in Executions /\ Execution(c)' = x
      /\ pc[c] \in (Running \ {"open"}) \union {"finish"}
      /\ pc'[c] \notin (Running \ {"open"}) \union {"finish"}
  BY HomeOf DEF Runs
<1>2. RefuseInput(c) \/ Finish(c) \/ StepRaises(c)
  <2>1. ~ Admit(c) \/ pc'[c] = "plan"
    BY DEF Admit, Goto, Synced, PendingAt, InFlight, Running, GeneralInv, Types, CallTypes
  <2>2. ~ InterruptEscapes(c)
    BY HomeOf, NoneAssumption DEF InterruptEscapes, Synced, RowAt, InFlight
  <2> QED BY <1>1, <2>1, <2>2
      DEF Execute, CheckTraces, CheckStore, Open, Admit, AcceptPlan, RefuseInput, ProviderFails,
          RefusePlan, Interrupt, InterruptEscapes, StepRaises, Deny, Handle, Gate, FinishPlan,
          Compose, Finish, Remember, Checkpoint, Persist, CheckpointRaises, Leave, HasStep,
          MayStart, OpenState, EndsAs, FindRow, Goto, Decided, Running, GeneralInv, Types,
          CallTypes
<1>3. CASE RefuseInput(c)
  <2>1. c \in ExecuteCalls /\ pc[c] = "plan" /\ states' = states /\ handled' = handled
    BY <1>3 DEF RefuseInput
  <2>2. ~ Known(x) /\ at[c] = 1
    BY <2>1 DEF Synced, PendingAt, InFlight, Running, GateInv, AtFirst
  <2>3. Mark(x) = 1
    BY <1>1, <2>2, MarkIs
  <2>4. Mark(x) = NextStep(x) \/ Lost(x)
    BY <1>1, <2>2, <2>3 DEF GateInv, Stands, Runs
  <2>5. Mark(x)' = Mark(x) /\ NextStep(x)' = NextStep(x)
    BY <1>1, <2>1, SameRowSameMark DEF StateRow
  <2>6. Unsaved(x)
    BY <1>1, <2>1, OneSaves DEF Finish, CloseFinish
  <2> QED BY <1>1, <2>4, <2>5, <2>6, LostLasts
<1>4. CASE Finish(c)
  BY <1>1, <1>4, FinishStores, MarkBecomes DEF GeneralInv
<1>5. CASE StepRaises(c)
  <2>1. /\ pc[c] = "step" /\ pc'[c] = "done" /\ result'[c] = Raised
        /\ UNCHANGED <<states, copy, held, approved>>
    BY <1>5
    DEF StepRaises, HasStep, Answer, Goto, localVars, GeneralInv, Types, CallTypes, HistoryTypes
  <2>2. CutOff(c)'
    BY <2>1 DEF CutOff
  <2>3. (IF Known(x) THEN ActsOnApproval(c) /\ held[c] = StateRow(x).data
                    ELSE c \in ExecuteCalls /\ copy[c] # None)
    BY <2>1, RunsMayBeLost DEF Running, Synced, InFlight
  <2> QED BY <1>1, <2>1, <2>2, <2>3 DEF Lost, Known, StateRow, ActsOnApproval
<1> QED BY <1>2, <1>3, <1>4, <1>5

\* Where a call leaves its execution.
LEMMA CallRests ==
  ASSUME GeneralInv, GeneralInv', OwnStates, SyncInv, SyncInv', GateInv, [Next]_vars,
         NEW c \in Calls, Execute(c) \/ Resume(c), Synced(c),
         \A d \in Calls \ {c} : ~ Runs(d, Execution(c)), ~ Runs(c, Execution(c))'
  PROVE  Mark(Execution(c))' = NextStep(Execution(c))' \/ Lost(Execution(c))'
<1> DEFINE x == Execution(c)
<1>1. x \in Executions
  BY HomeOf
<1>2. CASE Runs(c, x)
  <2>1. Execute(c)
    BY <1>2, RunsAreExecuted DEF Runs, Running, Storing
  <2> QED BY <1>2, <2>1, RunEnds
<1>3. CASE ~ Runs(c, x)
  <2>1. handled' = handled
    BY <1>3, HandlesItself DEF Handle, HasStep, Runs, Running
  <2>2. Mark(x) = NextStep(x) \/ Lost(x)
    BY <1>1, <1>3 DEF GateInv, Rests
  <2>3. CASE Finish(c) \/ CloseFinish(c)
    BY <1>1, <2>3, FinishStores, MarkBecomes DEF GeneralInv
  <2>4. CASE ~ (Finish(c) \/ CloseFinish(c))
    <3>1. Unsaved(x)
      BY <1>1, <2>4, OneSaves
    <3> QED BY <1>1, <2>1, <2>2, <3>1, MarkStays, LostLasts
  <2> QED BY <2>3, <2>4
<1> QED BY <1>2, <1>3

\* Other executions see nothing of it.
LEMMA OthersStand ==
  ASSUME GeneralInv, GeneralInv', OwnStates, SyncInv, [Next]_vars, NEW c \in Calls,
         Execute(c) \/ Resume(c), NEW x \in Executions, x # Execution(c)
  PROVE  Mark(x)' = Mark(x) /\ NextStep(x)' = NextStep(x) /\ (Lost(x) => Lost(x)')
         /\ handled'[x] = handled[x] /\ (Known(x)' <=> Known(x))
<1>1. handled'[x] = handled[x]
  <2>1. CASE Handle(c)
    BY <2>1, HandleMoves
  <2> QED BY <2>1, HandlesItself
<1>2. StateRow(x)' = StateRow(x)
  BY CallsStayHome DEF Elsewhere, GeneralInv
<1>3. Lost(x) => Lost(x)'
  BY OneSaves, LostLasts
<1> QED BY <1>1, <1>2, <1>3, SameRowSameMark DEF Known

\* A step of a call keeps every call where it should stand.
LEMMA CallKeepsGate ==
  ASSUME GeneralInv, GeneralInv', OneAtATime, OwnStates, SyncInv, SyncInv', GateInv, [Next]_vars,
         NEW c \in Calls, Execute(c) \/ Resume(c)
  PROVE  (\A d \in Calls : Stands(d)') /\ (\A x \in Executions : Rests(x)')
<1>1. Synced(c) /\ Elsewhere(c) /\ \A d \in Calls \ {c} : Same(d)
  BY StepsAreSynced, CallsStayHome, CallKeepsPlaces DEF GeneralInv
<1>2. \A d \in Calls \ {c} : Execution(d) = Execution(c) => ~ InFlight(d)
  BY StepsAreAlone DEF SyncInv
<1>3. \A d \in Calls \ {c} : ~ Runs(d, Execution(c))
  BY <1>2 DEF Runs, InFlight, Running
<1>4. \A d \in Calls \ {c} : \A x \in Executions : Runs(d, x)' <=> Runs(d, x)
  BY <1>1, HomeOf DEF Same, Runs
<1>5. Stands(c)'
  BY <1>1, <1>3, CallStands, HandleStands
<1>6. ASSUME NEW d \in Calls \ {c}, Execution(d) = Execution(c) PROVE Stands(d)'
  <2>1. pc'[d] = pc[d] /\ pc[d] \in {"idle", "done", "crashed"}
    BY <1>1, <1>2, <1>6 DEF Same, InFlight
  <2> QED BY <2>1 DEF Stands, Runs, Running
<1>7. ASSUME NEW d \in Calls \ {c}, Execution(d) # Execution(c) PROVE Stands(d)'
  <2>1. /\ Execution(d) \in Executions /\ Execution(d)' = Execution(d)
        /\ pc'[d] = pc[d] /\ at'[d] = at[d] /\ pausing'[d] = pausing[d]
    BY <1>1, HomeOf DEF Same
  <2>2. /\ Mark(Execution(d))' = Mark(Execution(d))
        /\ NextStep(Execution(d))' = NextStep(Execution(d))
        /\ Lost(Execution(d)) => Lost(Execution(d))'
    BY <1>1, <1>7, <2>1, OthersStand
  <2>3. Stands(d)
    BY DEF GateInv
  <2> QED BY <2>1, <2>2, <2>3 DEF Stands, Runs
<1>8. ASSUME NEW x \in Executions, \A d \in Calls : ~ Runs(d, x)'
      PROVE  Mark(x)' = NextStep(x)' \/ Lost(x)'
  <2>1. CASE x = Execution(c)
    <3>1. ~ Runs(c, Execution(c))'
      BY <1>8, <2>1, HomeOf DEF Runs
    <3> QED BY <1>1, <1>3, <2>1, <3>1, CallRests
  <2>2. CASE x # Execution(c)
    <3>1. \A d \in Calls : ~ Runs(d, x)
      BY <1>4, <1>8, <2>2, HomeOf DEF Runs
    <3>2. Mark(x) = NextStep(x) \/ Lost(x)
      BY <3>1 DEF GateInv, Rests
    <3> QED BY <1>1, <2>2, <3>2, OthersStand
  <2> QED BY <2>1, <2>2
<1>9. \A x \in Executions : Rests(x)'
  BY <1>8 DEF Rests
<1> QED BY <1>5, <1>6, <1>7, <1>9

\* A restart loses every run under way.
LEMMA CrashKeepsGate ==
  ASSUME GeneralInv, GeneralInv', OwnStates, SyncInv, GateInv, Crash
  PROVE  (\A c \in Calls : Stands(c)') /\ (\A x \in Executions : Rests(x)')
<1>1. /\ UNCHANGED <<states, at, copy, pausing, handled, result, held, approved>>
      /\ pc' = [c \in Calls |-> IF InFlight(c) THEN "crashed" ELSE pc[c]]
  BY DEF Crash, localVars
<1>2. \A c \in Calls : pc'[c] \in {"idle", "done", "crashed"}
  BY <1>1 DEF InFlight
<1>3. \A c \in Calls : Stands(c)'
  BY <1>2 DEF Stands, Runs, Running
<1>4. ASSUME NEW x \in Executions PROVE Mark(x)' = NextStep(x)' \/ Lost(x)'
  <2>1. Mark(x)' = Mark(x) /\ NextStep(x)' = NextStep(x)
    BY <1>1, SameRowSameMark DEF StateRow
  <2>2. CASE \E c \in Calls : Runs(c, x)
    <3>1. PICK c \in Calls : Runs(c, x)
      BY <2>2
    <3>2. InFlight(c) /\ Execution(c) = x /\ Execution(c)' = x
      BY <3>1, HomeOf DEF Runs, Running, InFlight
    <3>3. CutOff(c)'
      BY <1>1, <3>2 DEF CutOff
    <3>4. (IF Known(x) THEN ActsOnApproval(c) /\ held[c] = StateRow(x).data
                      ELSE c \in ExecuteCalls /\ copy[c] # None)
      BY <3>1, <3>2, RunsMayBeLost DEF SyncInv, Settled, Runs
    <3> QED BY <1>1, <3>2, <3>3, <3>4 DEF Lost, Known, StateRow, ActsOnApproval
  <2>3. CASE \A c \in Calls : ~ Runs(c, x)
    <3>1. Mark(x) = NextStep(x) \/ Lost(x)
      BY <2>3 DEF GateInv, Rests
    <3>2. Lost(x) => Lost(x)'
      BY OneSaves, LostLasts DEF Next
    <3> QED BY <2>1, <3>1, <3>2
  <2> QED BY <2>2, <2>3
<1> QED BY <1>3, <1>4 DEF Rests

\* A plan without a row has begun at its first step, and without an approval.
LEMMA StartsFreeStep ==
  ASSUME GeneralInv, OneAtATime, OwnStates, SyncInv, GateInv, [Next]_vars, NEW x \in Executions
  PROVE  StartsFree(x)'
<1> SUFFICES ASSUME ~ Known(x)', handled'[x] # <<>> PROVE Plan[x][1] \notin Gated
  BY DEF StartsFree
<1>1. ~ Known(x)
  BY KnownLasts
<1>2. CASE handled'[x] = handled[x]
  BY <1>1, <1>2 DEF GateInv, StartsFree
<1>3. CASE handled'[x] # handled[x]
  <2>1. PICK c \in Calls : Handle(c) /\ Execution(c) = x
    BY <1>3, HandledGrows DEF GeneralInv
  <2>2. Synced(c) /\ pc[c] = "step" /\ Permitted(c)
    BY <2>1, StepsAreSynced DEF Execute, Handle, HasStep
  <2>3. c \in ExecuteCalls
    <3>1. c \in ResumeCalls => Stored(x) = held[c] /\ held[c] # None
      BY <2>1, <2>2 DEF Synced, PendingAt, InFlight, Running, GeneralInv, Places, ResumePlace, Ended
    <3> QED BY <1>1, <2>1, <2>2, <3>1 DEF Calls, Synced, Checkpointed
  <2>4. approved[c] = {}
    BY <2>3 DEF GeneralInv, Places, Place, Calls
  <2>5. Plan[x][at[c]] \notin Gated
    BY <2>1, <2>2, <2>4 DEF Permitted, Action
  <2>6. at[c] = NextStep(x) \/ at[c] = 1
    <3>1. Mark(x) = 1
      BY <1>1, MarkIs
    <3> QED BY <2>1, <2>2, <3>1 DEF GateInv, Stands, Runs, Running
  <2>7. CASE at[c] = 1
    BY <2>5, <2>7
  <2>8. CASE at[c] # 1
    <3>1. handled[x] # <<>>
      BY <2>6, <2>8, FirstIsNext
    <3> QED BY <1>1, <3>1 DEF GateInv, StartsFree
  <2> QED BY <2>7, <2>8
<1> QED BY <1>2, <1>3

\* Who begins to work under approved actions takes a request, everybody else goes on
\* under the same ones.
LEMMA ApprovalsMove ==
  ASSUME GeneralInv, [Next]_vars, NEW c \in ResumeCalls
  PROVE  \/ Take(c)
         \/ approved'[c] = approved[c]
<1>1. c \in Calls
  BY DEF Calls
<1>2. ASSUME NEW d \in Calls, Execute(d) PROVE approved' = approved
  BY <1>2, ExecuteLeavesApprovals
<1>3. ASSUME NEW d \in Calls, Resume(d), ~ Take(d) PROVE approved' = approved
  BY <1>3
  DEF Resume, Fetch, Restore, Adopt, StillWaiting, DecideFromBroker, DecideFromCaller, Take,
      Consume, ConsumeInBroker, Merge, Recheck, Repersist, RepersistRaises, Close, CloseFinish,
      ClosePop, OpenState, FindRow, localVars
<1>4. ASSUME NEW d \in Calls \ {c}, Take(d) PROVE approved'[c] = approved[c]
  BY <1>1, <1>4 DEF Take, GeneralInv, Types, CallTypes
<1>5. CASE Review \/ Tick \/ Crash \/ UNCHANGED vars
  BY <1>5 DEF Review, Tick, Crash, vars, localVars
<1> QED BY <1>1, <1>2, <1>3, <1>4, <1>5 DEF Next

\* The approval a resume takes is for the step it starts at.
LEMMA OpensStep ==
  ASSUME GeneralInv, GateInv, [Next]_vars, NEW c \in ResumeCalls
  PROVE  Opens(c)'
<1>1. c \in Calls /\ Execution(c) \in Executions /\ Execution(c)' = Execution(c)
  BY HomeOf DEF Calls
<1>2. CASE Take(c)
  <2>1. held[c] # None /\ held' = held
    BY <1>1, <1>2, HeldIsRequest, NoneAssumption DEF Take, GeneralInv
  <2>2. requests[HeldRequest(c)].action = Plan[Execution(c)][held[c].at]
    BY <1>1, <2>1 DEF GeneralInv, PendingIsGenuine, Genuine, RequestOf, HeldRequest
  <2>3. requests[HeldRequest(c)].action \in approved'[c]
    BY <1>1, <1>2 DEF Take, GeneralInv, Types, CallTypes
  <2> QED BY <1>1, <2>1, <2>2, <2>3 DEF Opens
<1>3. CASE approved'[c] = approved[c]
  <2>1. approved[c] # {} => held'[c] = held[c]
    BY ApprovalsLast DEF ApprovalsStay, GeneralInv
  <2> QED BY <1>1, <1>3, <2>1 DEF Opens, GateInv
<1> QED BY <1>2, <1>3, ApprovalsMove

\* Plans run from their marks in every step, ...
LEMMA GateStep ==
  ASSUME GeneralInv, GeneralInv', OneAtATime, OwnStates, SyncInv, SyncInv', GateInv, [Next]_vars
  PROVE  GateInv'
<1>1. AtFirst'
  BY FirstMoves DEF GateInv, AtFirst
<1>2. (\A c \in Calls : Stands(c)') /\ (\A x \in Executions : Rests(x)')
  <2>1. CASE Review \/ Tick \/ UNCHANGED vars
    <3>1. UNCHANGED <<states, pc, at, copy, pausing, handled, result, held, approved>>
      BY <2>1 DEF Review, Tick, vars, localVars
    <3> QED BY <3>1
        DEF GateInv, Stands, Rests, Runs, Mark, NextStep, Lost, Execution, CutOff, Known, StateRow,
            ActsOnApproval
  <2> QED BY <2>1, CrashKeepsGate, CallKeepsGate DEF Next
<1>3. \A x \in Executions : StartsFree(x)'
  BY StartsFreeStep
<1>4. \A c \in ResumeCalls : Opens(c)'
  BY OpensStep
<1> QED BY <1>1, <1>2, <1>3, <1>4 DEF GateInv

\* ... and so always, through any restart.
LEMMA GateAlways ==
  ASSUME OneAtATime, OwnStates
  PROVE  Spec => []GateInv
<1>1. Init => GateInv
  <2> SUFFICES ASSUME Init PROVE GateInv
    OBVIOUS
  <2>1. /\ \A c \in Calls : pc[c] = "idle" /\ at[c] = 1 /\ approved[c] = {}
        /\ \A x \in Executions : handled[x] = <<>>
    BY DEF Init
  <2>2. ASSUME NEW x \in Executions PROVE Mark(x) = NextStep(x)
    <3>1. StateOf[x] \in StateKeys
      BY RuntimeAssumption
    <3>2. ~ Known(x)
      BY <3>1 DEF Init, Store!StateInit, Known, StateRow
    <3> QED BY <2>1, <3>2, MarkIs DEF NextStep
  <2>3. \A c \in Calls : Stands(c)
    BY <2>1 DEF Stands, Runs, Running
  <2>4. (\A x \in Executions : Rests(x) /\ StartsFree(x)) /\ \A c \in ResumeCalls : Opens(c)
    BY <2>1, <2>2 DEF Rests, StartsFree, Opens, Calls
  <2> QED BY <2>1, <2>3, <2>4 DEF GateInv, AtFirst, Calls
<1>2. GateInv /\ GeneralInv /\ GeneralInv' /\ SyncInv /\ SyncInv' /\ [Next]_vars => GateInv'
  BY GateStep
<1> QED BY <1>1, <1>2, GeneralAlways, SyncAlways, PTL DEF Spec

-----------------------------------------------------------------------------
(* The steps of ApprovalGate. *)

\* A request granted in time, and what for.
Grant(r) == requests[r] # None /\ ApprovedInTime(r)

\* No grant but a reviewer's comes or goes.
GrantsAsBefore ==
  \A r \in Requests :
    /\ Grant(r)' <=> Grant(r)
    /\ Grant(r) => requests'[r] = requests[r]

\* A look at a request can only find it expired.
LEMMA LooksGrantNothing ==
  ASSUME Types, BrokerIsTimely, NEW r \in Requests, Broker!Record(r, Broker!Current(r)),
         requests' = requests
  PROVE  GrantsAsBefore
<1>1. decisions' = [decisions EXCEPT ![r] = Broker!Current(r)]
  BY DEF Broker!Record
<1>2. \/ Broker!Current(r) = decisions[r]
      \/ decisions[r] = None /\ Broker!Current(r).status = "expired"
  BY DEF Broker!Current, Broker!ExpiredDecision
<1> SUFFICES ASSUME NEW s \in Requests
             PROVE  (Grant(s)' <=> Grant(s)) /\ requests'[s] = requests[s]
  BY DEF GrantsAsBefore
<1>3. CASE s # r
  <2>1. decisions'[s] = decisions[s]
    BY <1>1, <1>3 DEF Types, Broker!BrokerTypeOK
  <2> QED BY <2>1 DEF Grant, ApprovedInTime
<1>4. CASE s = r
  <2>1. decisions'[s] = Broker!Current(r)
    BY <1>1, <1>4 DEF Types, Broker!BrokerTypeOK
  <2> QED BY <1>2, <1>4, <2>1 DEF Grant, ApprovedInTime
<1> QED BY <1>3, <1>4

\* A new request has not been granted, one submitted again is not changed.
LEMMA GatesGrantNothing ==
  ASSUME Types, BrokerIsTimely, NEW c \in Calls, Gate(c)
  PROVE  GrantsAsBefore
<1> DEFINE r == <<c, at[c]>>
           q == [action |-> Action(c), expires_at |-> RequestExpiry]
<1>1. /\ requests[r] \in {None, q}
      /\ requests' = [requests EXCEPT ![r] = q]
      /\ Broker!Record(r, IF decisions[r] = None /\ Broker!Expired(q.expires_at)
                          THEN [status |-> "expired", expires_at |-> q.expires_at,
                                decided_at |-> now]
                          ELSE decisions[r])
  BY DEF Gate, Broker!Submit
<1>2. r \in Requests
  BY StepIsRequested DEF Gate, HasStep
<1> HIDE DEF r, q
<1> SUFFICES ASSUME NEW s \in Requests
             PROVE  (Grant(s)' <=> Grant(s)) /\ (Grant(s) => requests'[s] = requests[s])
  BY DEF GrantsAsBefore
<1>3. CASE s # r
  <2>1. decisions'[s] = decisions[s] /\ requests'[s] = requests[s]
    BY <1>1, <1>3 DEF Broker!Record, Types, Broker!BrokerTypeOK
  <2> QED BY <2>1 DEF Grant, ApprovedInTime
<1>4. CASE s = r
  <2>1. requests'[s] = q
    BY <1>1, <1>4 DEF Types, Broker!BrokerTypeOK
  <2>2. \/ decisions'[s] = decisions[s]
        \/ decisions[s] = None /\ decisions'[s].status = "expired"
    <3> DEFINE e == [status |-> "expired", expires_at |-> q.expires_at, decided_at |-> now]
    <3>1. e.status = "expired"
      OBVIOUS
    <3>2. CASE decisions[r] = None /\ Broker!Expired(q.expires_at)
      <4>1. decisions' = [decisions EXCEPT ![r] = e]
        BY <1>1, <3>2 DEF Broker!Record
      <4> HIDE DEF e
      <4> QED BY <1>2, <1>4, <3>1, <3>2, <4>1 DEF Types, Broker!BrokerTypeOK
    <3>3. CASE ~ (decisions[r] = None /\ Broker!Expired(q.expires_at))
      <4>1. decisions' = [decisions EXCEPT ![r] = decisions[r]]
        BY <1>1, <3>3 DEF Broker!Record
      <4> QED BY <1>2, <1>4, <4>1 DEF Types, Broker!BrokerTypeOK
    <3> QED BY <3>2, <3>3
  <2>3. CASE requests[s] = None
    <3>1. decisions[s] = None
      BY <2>3 DEF BrokerIsTimely
    <3> QED BY <2>2, <2>3, <3>1 DEF Grant, ApprovedInTime
  <2>4. CASE requests[s] = q
    BY <2>1, <2>2, <2>4 DEF Grant, ApprovedInTime
  <2> QED BY <1>1, <1>4, <2>3, <2>4
<1> QED BY <1>3, <1>4

\* Only a reviewer grants an action.
LEMMA GrantsMove ==
  ASSUME Types, Places, BrokerIsTimely, [Next]_vars
  PROVE  \/ GrantsAsBefore
         \/ \E r \in Requests, status \in Reviews : Broker!Decide(r, status, None) /\ Review
<1>1. ASSUME requests' = requests, decisions' = decisions PROVE GrantsAsBefore
  BY <1>1 DEF GrantsAsBefore, Grant, ApprovedInTime
<1>2. ASSUME NEW c \in Calls, Execute(c), ~ Gate(c)
      PROVE  requests' = requests /\ decisions' = decisions
  BY <1>2
  DEF Execute, CheckTraces, CheckStore, Open, Admit, AcceptPlan, RefuseInput, ProviderFails,
      RefusePlan, Interrupt, InterruptEscapes, StepRaises, Deny, Handle, Gate, FinishPlan,
      Compose, Finish, Remember, Checkpoint, Persist, CheckpointRaises, Leave, OpenState, EndsAs,
      FindRow, brokerVars
<1>3. ASSUME NEW c \in Calls, DecideFromBroker(c) \/ ConsumeInBroker(c) PROVE GrantsAsBefore
  <2>1. HeldRequest(c) \in Requests
    <3>1. pc[c] \in {"decide", "consume_broker"}
      BY <1>3 DEF DecideFromBroker, ConsumeInBroker
    <3> QED BY <3>1, HeldIsRequest DEF Consuming
  <2>2. /\ requests' = requests
        /\ \/ Broker!Record(HeldRequest(c), Broker!Current(HeldRequest(c)))
           \/ decisions' = decisions
    BY <1>3
    DEF DecideFromBroker, ConsumeInBroker, Broker!GetDecision, Broker!Consume,
        Broker!ConsumeRaises
  <2> QED BY <1>1, <2>1, <2>2, LooksGrantNothing
<1>4. ASSUME NEW c \in Calls, Resume(c), ~ DecideFromBroker(c), ~ ConsumeInBroker(c)
      PROVE  requests' = requests /\ decisions' = decisions
  BY <1>4
  DEF Resume, Fetch, Restore, Adopt, StillWaiting, DecideFromBroker, DecideFromCaller, Take,
      Consume, ConsumeInBroker, Merge, Recheck, Repersist, RepersistRaises, Close, CloseFinish,
      ClosePop, OpenState, FindRow, brokerVars
<1>5. CASE Tick \/ Crash \/ UNCHANGED vars
  BY <1>1, <1>5 DEF Tick, Crash, vars, brokerVars, Broker!TimePasses
<1>6. ASSUME Review
      PROVE  \E r \in Requests, status \in Reviews : Broker!Decide(r, status, None) /\ Review
  BY <1>6 DEF Review
<1> QED BY <1>1, <1>2, <1>3, <1>4, <1>5, <1>6, GatesGrantNothing DEF Next

\* A reviewer grants one action of one execution at most.
LEMMA ReviewsGrant ==
  ASSUME Types, BrokerIsTimely, BrokerIsTimely', NEW r \in Requests, NEW status \in Reviews,
         Broker!Decide(r, status, None)
  PROVE  \/ GrantsAsBefore
         \/ /\ requests' = requests /\ Grant(r)' /\ ~ Grant(r)
            /\ \A s \in Requests \ {r} : Grant(s)' <=> Grant(s)
<1>1. requests' = requests /\ requests[r] # None
  BY DEF Broker!Decide
<1>2. CASE Broker!Record(r, Broker!Current(r))
  BY <1>1, <1>2, LooksGrantNothing
<1>3. CASE Broker!Current(r) = None /\ \E d : Broker!Record(r, d)
  <2>1. decisions[r] = None
    BY <1>3, NoneAssumption DEF Broker!Current, Broker!ExpiredDecision, Broker!BrokerAssumption
  <2>2. ~ Grant(r)
    BY <2>1 DEF Grant, ApprovedInTime
  <2>3. \A s \in Requests \ {r} : decisions'[s] = decisions[s]
    BY <1>3 DEF Broker!Record, Types, Broker!BrokerTypeOK
  <2>4. \A s \in Requests \ {r} : Grant(s)' <=> Grant(s)
    BY <1>1, <2>3 DEF Grant, ApprovedInTime
  <2> QED BY <1>1, <2>2, <2>4 DEF GrantsAsBefore
<1> QED BY <1>2, <1>3 DEF Broker!Decide

\* With decisions from the broker only, a resume runs under its grants.
BrokerDecides == Evidence \subseteq {"broker"}

\* What a call works under was granted to its execution.
LEMMA ApprovedWereGranted ==
  ASSUME GeneralInv, BrokerDecides, NEW c \in Calls, NEW a \in approved[c]
  PROVE  a \in ActionsGranted(Execution(c))
<1>1. PICK r \in Requests :
        RequestOf(r, Execution(c), a) /\ (ApprovedInTime(r) \/ ApprovedByCaller(r))
  BY DEF GeneralInv, CallsAreCleared, Granted
<1>2. ~ ApprovedByCaller(r)
  <2> SUFFICES ASSUME NEW d \in ResumeCalls, approved[d] # {}, called[d].evidence = "approved"
               PROVE  FALSE
    BY DEF ApprovedByCaller
  <2>1. called[d] # None
    BY DEF GeneralInv, CallsAreCleared, Cleared
  <2>2. called[d] \in [time : Nat, evidence : Evidence]
    BY <2>1 DEF GeneralInv, Types, CallTypes, Calls
  <2> QED BY <2>2 DEF BrokerDecides
<1>3. a \in Actions
  BY DEF GeneralInv, Types, CallTypes
<1> QED BY <1>1, <1>2, <1>3 DEF ActionsGranted

\* The steps that have run and the one that follows.
LEMMA StepsFollow ==
  ASSUME GeneralInv, NEW x \in Executions
  PROVE  /\ StepsRun(x) \in Seq(Nat \ {0}) /\ Len(StepsRun(x)) = Len(handled[x])
         /\ PlanGate!Following(StepsRun(x)) = NextStep(x)
<1>1. handled[x] \in Seq(Calls \X (Nat \ {0}))
  BY DEF GeneralInv, Types, HistoryTypes
<1>2. StepsRun(x) \in Seq(Nat \ {0}) /\ Len(StepsRun(x)) = Len(handled[x])
  BY <1>1 DEF StepsRun
<1>3. CASE handled[x] = <<>>
  <2>1. StepsRun(x) = <<>>
    BY <1>2, <1>3
  <2> QED BY <1>2, <1>3, <2>1 DEF PlanGate!Following, NextStep
<1>4. CASE handled[x] # <<>>
  <2>1. Len(handled[x]) \in 1 .. Len(handled[x]) /\ StepsRun(x) # <<>>
    BY <1>1, <1>2, <1>4
  <2>2. StepsRun(x)[Len(StepsRun(x))] = handled[x][Len(handled[x])][2]
    BY <1>2, <2>1 DEF StepsRun
  <2> QED BY <1>2, <1>4, <2>1, <2>2 DEF PlanGate!Following, NextStep
<1> QED BY <1>2, <1>3, <1>4

\* Handling a step is running the next one, or the marked one after a loss.
LEMMA HandleRunsStep ==
  ASSUME GeneralInv, GeneralInv', BrokerDecides, GateInv, [Next]_vars, NEW c \in Calls, Handle(c),
         Synced(c)
  PROVE  PlanGate!RunStep(Execution(c))
<1> DEFINE x == Execution(c)
           ran == [y \in Executions |-> StepsRun(y)]
           granted == [y \in Executions |-> ActionsGranted(y)]
           mark == [y \in Executions |-> Mark(y)]
           lost == {y \in Executions : Lost(y)}
<1>1. x \in Executions /\ at[c] \in Nat \ {0} /\ handled[x] \in Seq(Calls \X (Nat \ {0}))
  BY HomeOf DEF GeneralInv, Types, CallTypes, HistoryTypes
<1>2. /\ handled'[x] = Append(handled[x], <<c, at[c]>>)
      /\ \A y \in Executions \ {x} : handled'[y] = handled[y]
  BY HandleMoves
<1>3. at[c] = PlanGate!Following(ran[x]) \/ (x \in lost /\ at[c] = mark[x])
  <2>1. at[c] = NextStep(x) \/ (Lost(x) /\ at[c] = Mark(x))
    BY DEF GateInv, Stands, Runs, Handle, HasStep, Running
  <2> QED BY <1>1, <2>1, StepsFollow
<1>4. at[c] \in 1 .. Len(Plan[x]) /\ Action(c) = Plan[x][at[c]]
  BY <1>1 DEF Handle, HasStep, Action
<1>5. Action(c) \in Gated => Action(c) \in granted[x]
  BY <1>1, ApprovedWereGranted DEF Handle, Permitted
<1>6. ran' = [ran EXCEPT ![x] = Append(@, at[c])]
  <2>1. ASSUME NEW y \in Executions, y # x PROVE StepsRun(y)' = StepsRun(y)
    BY <1>2, <2>1 DEF StepsRun
  <2>2. StepsRun(x)' = Append(StepsRun(x), at[c])
    <3>1. Len(handled'[x]) = Len(handled[x]) + 1
      BY <1>1, <1>2
    <3>2. \A i \in 1 .. Len(handled[x]) : handled'[x][i] = handled[x][i]
      BY <1>1, <1>2
    <3>3. handled'[x][Len(handled[x]) + 1] = <<c, at[c]>>
      BY <1>1, <1>2
    <3>4. StepsRun(x) \in Seq(Nat \ {0}) /\ Len(StepsRun(x)) = Len(handled[x])
      BY <1>1, StepsFollow
    <3>5. \A i \in 1 .. Len(handled[x]) + 1 :
            handled'[x][i][2] = Append(StepsRun(x), at[c])[i]
      BY <1>1, <3>2, <3>3, <3>4 DEF StepsRun
    <3>6. Append(StepsRun(x), at[c])
            = [i \in 1 .. Len(handled[x]) + 1 |-> Append(StepsRun(x), at[c])[i]]
      BY <1>1, <3>4
    <3>7. StepsRun(x)' = [i \in 1 .. Len(handled[x]) + 1 |-> handled'[x][i][2]]
      BY <3>1, HomeOf DEF StepsRun
    <3> QED BY <3>5, <3>6, <3>7
  <2> QED BY <1>1, <2>1, <2>2
<1>7. granted' = granted
  BY DEF Handle, brokerVars, ActionsGranted, RequestOf, ApprovedInTime
<1>8. mark' = mark
  BY HandleKeepsMark
<1>9. lost' = lost
  <2>1. ASSUME NEW y \in Executions PROVE Lost(y)' <=> Lost(y)
    <3>1. UNCHANGED <<states, copy, pc, held, approved, result>>
      BY DEF Handle
    <3> QED BY <3>1 DEF Lost, CutOff, Known, StateRow, ActsOnApproval, Execution
  <2> QED BY <2>1
<1> QED BY <1>3, <1>4, <1>5, <1>6, <1>7, <1>8, <1>9 DEF PlanGate!RunStep

\* The granted actions, by the grants they come from.
LEMMA GrantedActions ==
  ASSUME NEW x \in Executions
  PROVE  ActionsGranted(x) =
           {a \in Actions : \E r \in Requests :
              Grant(r) /\ ExecutionOf[r[1]] = x /\ requests[r].action = a}
BY DEF ActionsGranted, Grant, RequestOf

\* Nothing is granted without a reviewer.
LEMMA NothingGranted ==
  ASSUME GrantsAsBefore, NEW x \in Executions
  PROVE  ActionsGranted(x)' = ActionsGranted(x)
<1>1. \A r \in Requests : Grant(r)' <=> Grant(r)
  BY DEF GrantsAsBefore
<1>2. \A r \in Requests : Grant(r) => requests'[r] = requests[r]
  BY DEF GrantsAsBefore
<1>3. ActionsGranted(x)' =
        {a \in Actions : \E r \in Requests :
           Grant(r)' /\ ExecutionOf[r[1]] = x /\ requests'[r].action = a}
  BY GrantedActions DEF ActionsGranted, Grant, RequestOf
<1> QED BY <1>1, <1>2, <1>3, GrantedActions

\* A review grants the action its request is about.
LEMMA ReviewGrantsAction ==
  ASSUME Types, NEW r \in Requests, requests' = requests, Grant(r)', ~ Grant(r),
         \A s \in Requests \ {r} : Grant(s)' <=> Grant(s),
         UNCHANGED <<states, pc, copy, held, approved, handled, result>>
  PROVE  \E x \in Executions, a \in Actions : PlanGate!GrantAction(x, a)
<1> DEFINE y == ExecutionOf[r[1]]
           b == requests[r].action
           granted == [x \in Executions |-> ActionsGranted(x)]
<1>1. y \in Executions /\ b \in Actions
  <2>1. r[1] \in Calls
    BY DEF Requests
  <2>2. requests[r] \in Broker!Request
    BY DEF Grant, Types, Broker!BrokerTypeOK
  <2> QED BY <2>1, <2>2, RuntimeAssumption DEF Broker!Request
<1>2. ASSUME NEW x \in Executions
      PROVE  ActionsGranted(x)' =
               {a \in Actions : \E s \in Requests :
                  Grant(s)' /\ ExecutionOf[s[1]] = x /\ requests[s].action = a}
  BY DEF ActionsGranted, Grant, RequestOf
<1>3. ActionsGranted(y)' = ActionsGranted(y) \union {b}
  <2>1. ASSUME NEW a \in ActionsGranted(y)' PROVE a \in ActionsGranted(y) \union {b}
    BY <1>1, <1>2, <2>1, GrantedActions
  <2>2. ASSUME NEW a \in ActionsGranted(y) PROVE a \in ActionsGranted(y)'
    BY <1>1, <1>2, <2>2, GrantedActions
  <2>3. b \in ActionsGranted(y)'
    BY <1>1, <1>2
  <2> QED BY <2>1, <2>2, <2>3
<1>4. ASSUME NEW x \in Executions, x # y PROVE ActionsGranted(x)' = ActionsGranted(x)
  <2>1. \A s \in Requests : ExecutionOf[s[1]] = x => (Grant(s)' <=> Grant(s))
    BY <1>4
  <2>2. ActionsGranted(x) =
          {a \in Actions : \E s \in Requests :
             Grant(s) /\ ExecutionOf[s[1]] = x /\ requests[s].action = a}
    BY GrantedActions
  <2> QED BY <1>2, <2>1, <2>2
<1>5. granted' = [granted EXCEPT ![y] = @ \union {b}]
  BY <1>1, <1>3, <1>4
<1>6. /\ [x \in Executions |-> StepsRun(x)]' = [x \in Executions |-> StepsRun(x)]
      /\ [x \in Executions |-> Mark(x)]' = [x \in Executions |-> Mark(x)]
      /\ {x \in Executions : Lost(x)}' = {x \in Executions : Lost(x)}
  BY DEF StepsRun, Mark, Known, StateRow, NextStep, Lost, CutOff, ActsOnApproval, Execution
<1> QED BY <1>1, <1>5, <1>6 DEF PlanGate!GrantAction

\* A step that saves no run at its end loses some runs, or none.
LEMMA UnsavedStepsLose ==
  ASSUME GeneralInv, GeneralInv', OwnStates, SyncInv, GateInv, [Next]_vars, handled' = handled,
         GrantsAsBefore, \A x \in Executions : Unsaved(x)
  PROVE  PlanGate!GateNext
<1> DEFINE xs == {x \in Executions : Lost(x)'}
           lost == {x \in Executions : Lost(x)}
<1>1. [x \in Executions |-> StepsRun(x)]' = [x \in Executions |-> StepsRun(x)]
  BY DEF StepsRun
<1>2. [x \in Executions |-> ActionsGranted(x)]' = [x \in Executions |-> ActionsGranted(x)]
  BY NothingGranted
<1>3. [x \in Executions |-> Mark(x)]' = [x \in Executions |-> Mark(x)]
  BY MarkStays
<1>4. lost' = lost \union xs
  BY LostLasts
<1>5. PlanGate!Lose(xs)
  BY <1>1, <1>2, <1>3, <1>4 DEF PlanGate!Lose
<1> QED BY <1>5 DEF PlanGate!GateNext

\* A call that saves a run at its end settles its execution.
LEMMA SavesSettle ==
  ASSUME GeneralInv, GeneralInv', OwnStates, SyncInv, GateInv, [Next]_vars, handled' = handled,
         GrantsAsBefore, NEW c \in Calls, Synced(c), Finish(c) \/ CloseFinish(c)
  PROVE  PlanGate!Settle(Execution(c))
<1> DEFINE x == Execution(c)
           mark == [y \in Executions |-> Mark(y)]
           lost == {y \in Executions : Lost(y)}
<1>1. x \in Executions /\ (Execute(c) \/ Resume(c))
  BY HomeOf DEF Execute, Resume
<1>2. Elsewhere(c) /\ \A d \in Calls \ {c} : Same(d) /\ result'[d] = result[d]
  BY <1>1, CallsStayHome, CallKeepsPlaces, AnswersAreOwn DEF GeneralInv
<1>3. ASSUME NEW y \in Executions \ {x} PROVE Mark(y)' = Mark(y) /\ (Lost(y)' <=> Lost(y))
  <2>1. StateRow(y)' = StateRow(y)
    BY <1>2 DEF Elsewhere
  <2>2. \A d \in Calls : Execution(d) = y => Same(d) /\ result'[d] = result[d]
    BY <1>2
  <2>3. Lost(y)' <=> Lost(y)
    BY <2>1, <2>2 DEF Lost, CutOff, Known, ActsOnApproval, Same, Execution
  <2> QED BY <2>1, <2>3, SameRowSameMark
<1>4. Stored(x)' = None /\ Known(x)'
  BY FinishStores DEF GeneralInv
<1>5. Mark(x)' = PlanGate!Following(StepsRun(x))
  BY <1>1, <1>4, MarkBecomes, StepsFollow DEF NextStep
<1>6. ~ Lost(x)'
  BY <1>4 DEF Lost, Stored, Known, ActsOnApproval
<1>7. mark' = [mark EXCEPT ![x] = PlanGate!Following([y \in Executions |-> StepsRun(y)][x])]
  BY <1>1, <1>3, <1>5
<1>8. lost' = lost \ {x}
  BY <1>3, <1>6
<1>9. [y \in Executions |-> StepsRun(y)]' = [y \in Executions |-> StepsRun(y)]
  BY DEF StepsRun
<1>10. [y \in Executions |-> ActionsGranted(y)]' = [y \in Executions |-> ActionsGranted(y)]
  BY NothingGranted
<1> QED BY <1>7, <1>8, <1>9, <1>10 DEF PlanGate!Settle

\* Every step is one of the abstract gate's, or none.
LEMMA StepIsGates ==
  ASSUME GeneralInv, GeneralInv', OneAtATime, OwnStates, BrokerDecides, SyncInv, SyncInv', GateInv,
         [Next]_vars
  PROVE  [PlanGate!GateNext]_PlanGate!gateVars
<1>1. ASSUME NEW c \in Calls, Handle(c) PROVE PlanGate!GateNext
  <2>1. Synced(c)
    BY <1>1, StepsAreSynced DEF Execute
  <2> QED BY <1>1, <2>1, HandleRunsStep, HomeOf DEF PlanGate!GateNext
<1>2. ASSUME NEW r \in Requests, NEW status \in Reviews, Broker!Decide(r, status, None), Review,
             ~ GrantsAsBefore
      PROVE  PlanGate!GateNext
  <2>1. UNCHANGED <<states, pc, copy, held, approved, handled, result>>
    BY <1>2 DEF Review, localVars
  <2>2. \E x \in Executions, a \in Actions : PlanGate!GrantAction(x, a)
    BY <1>2, <2>1, ReviewsGrant, ReviewGrantsAction DEF GeneralInv
  <2> QED BY <2>2 DEF PlanGate!GateNext
<1>3. CASE handled' = handled /\ GrantsAsBefore
  <2>1. ASSUME NEW c \in Calls, Finish(c) \/ CloseFinish(c) PROVE PlanGate!GateNext
    <3>1. Synced(c)
      BY <2>1, StepsAreSynced DEF Execute, Resume
    <3> QED BY <1>3, <2>1, <3>1, SavesSettle, HomeOf DEF PlanGate!GateNext
  <2>2. CASE \A x \in Executions : Unsaved(x)
    BY <1>3, <2>2, UnsavedStepsLose
  <2> QED BY <2>1, <2>2 DEF Unsaved
<1> QED BY <1>1, <1>2, <1>3, GrantsMove, HandlersRunByHandle DEF GeneralInv

\* At first nothing has run and nothing is granted.
LEMMA InitIsGates ==
  ASSUME Init
  PROVE  PlanGate!GateInit
<1>1. ASSUME NEW x \in Executions PROVE StepsRun(x) = <<>>
  BY DEF Init, StepsRun
<1>2. ASSUME NEW x \in Executions PROVE ActionsGranted(x) = {}
  BY DEF Init, Broker!BrokerInit, ActionsGranted, RequestOf
<1>3. ASSUME NEW x \in Executions PROVE Mark(x) = 1
  <2>1. StateOf[x] \in StateKeys
    BY RuntimeAssumption
  <2>2. states[StateOf[x]] = None
    BY <2>1 DEF Init, Store!StateInit
  <2> QED BY <2>2 DEF Mark, Known, StateRow
<1>4. {x \in Executions : Lost(x)} = {}
  BY DEF Init, Lost, CutOff
<1> QED BY <1>1, <1>2, <1>3, <1>4 DEF PlanGate!GateInit

\* Calls made one at a time, on states of their own, with decisions from the broker:
\* whatever interrupts a run, raises out of it or restarts the process, each plan runs
\* in order, no gated step before its exact action was approved, and no step twice
\* unless a run was lost, and then none that lies before the mark.
THEOREM RuntimeImplementsGate ==
  ASSUME OneAtATime, OwnStates, BrokerDecides
  PROVE  Spec => ImplementsGate
<1>1. Init => PlanGate!GateInit
  BY InitIsGates
<1>2. /\ GeneralInv /\ GeneralInv' /\ SyncInv /\ SyncInv' /\ GateInv /\ [Next]_vars
      => [PlanGate!GateNext]_PlanGate!gateVars
  BY StepIsGates
<1> QED BY <1>1, <1>2, GeneralAlways, SyncAlways, GateAlways, PTL
    DEF Spec, ImplementsGate, PlanGate!GateSpec
=============================================================================
