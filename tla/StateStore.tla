----------------------------- MODULE StateStore -----------------------------
(***************************************************************************)
(* state/store.py, InMemoryStateStore and SQLiteStateStore: one versioned   *)
(* state per key (tenant, session, agent and state id).  A method body runs *)
(* under one lock, in SQLite also in one write transaction, so each is one  *)
(* step; a method that raises changes nothing and is not enabled here.      *)
(***************************************************************************)
EXTENDS Naturals, FiniteSets

CONSTANTS StateKeys, Executions, Owners, AgentVersions,
          Data,        \* what callers keep in a state, NewData included
          NewData,     \* the empty data of a fresh state
          NoState,     \* no row for the key
          NoExecution, \* execution_id of a state that no execution has saved
          NoVersion    \* expected_version is None

VARIABLE states

StateStatus ==
  {"pending", "running", "paused", "completed", "failed", "refused", "escalated"}

State ==
  [execution_id  : Executions \union {NoExecution},
   owner         : Owners,
   agent_version : AgentVersions,
   status        : StateStatus,
   version       : Nat,
   data          : Data]

ASSUME StateAssumption ==
  /\ NoState \notin State
  /\ NewData \in Data
  /\ NoVersion \notin Nat

StateTypeOK == states \in [StateKeys -> State \union {NoState}]

StateInit == states = [k \in StateKeys |-> NoState]

FreshState(o, a) ==
  [execution_id |-> NoExecution, owner |-> o, agent_version |-> a,
   status |-> "pending", version |-> 0, data |-> NewData]

-----------------------------------------------------------------------------

\* Mutation: the owner of a state is not compared.
MayOpenAny(k, o, a) == states[k] # NoState => states[k].agent_version = a

\* get_or_create raises StateOwnershipError or StateConflictError otherwise.
MayOpen(k, o, a) ==
  states[k] # NoState => states[k].owner = o /\ states[k].agent_version = a

\* The copy get_or_create returns.
Opened(k, o, a) == IF states[k] = NoState THEN FreshState(o, a) ELSE states[k]

GetOrCreate(k, o, a) ==
  /\ MayOpen(k, o, a)
  /\ states' = [states EXCEPT ![k] = Opened(k, o, a)]

\* Mutations: a write newer than the row needs no matching version; the owner of
\* the row is not compared.
MaySaveNewer(k, s, expected) ==
  states[k] # NoState /\ states[k].owner = s.owner /\ s.version >= states[k].version

MaySaveOver(k, s, expected) ==
  states[k] # NoState /\ states[k].version = expected

\* The optimistic check.  Only a save without an expected version looks at the
\* version it writes.
MaySave(k, s, expected) ==
  IF states[k] = NoState
  THEN s.version = 0 /\ expected \in {NoVersion, 0}
  ELSE /\ states[k].owner = s.owner
       /\ expected # NoVersion => states[k].version = expected
       /\ expected = NoVersion => s.version >= states[k].version

Save(k, s, expected) ==
  /\ MaySave(k, s, expected)
  /\ states' = [states EXCEPT ![k] = s]

\* find_execution: the newest of the owner's states that execution x saved last.
Found(o, x) ==
  {k \in StateKeys :
     states[k] # NoState /\ states[k].execution_id = x /\ states[k].owner = o}

Newest(o, x) ==
  {k \in Found(o, x) : \A j \in Found(o, x) : states[j].version <= states[k].version}

\* purge_expired deletes the states past their TTL and the ones the retention
\* hook, which is the application's, gives up: any set of them.
Purge(K) ==
  /\ K # {}
  /\ \A k \in K : states[k] # NoState
  /\ states' = [k \in StateKeys |-> IF k \in K THEN NoState ELSE states[k]]
=============================================================================
