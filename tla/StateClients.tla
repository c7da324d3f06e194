---------------------------- MODULE StateClients ----------------------------
(***************************************************************************)
(* The way every writer of the harness uses a state store: open a state,    *)
(* work on the copy for a while, save it one version up and expect the      *)
(* version that was read (AgentRuntime._finish, _persist_pending_checkpoint). *)
(* data is the history of a row: the set of the updates it is built on.     *)
(***************************************************************************)
EXTENDS StateStore

CONSTANTS Clients, OwnerOf,
          Purgeable,      \* the keys whose rows retention may give up
          MaxVersion      \* bound: no row grows past it

ASSUME ClientAssumption ==
  /\ OwnerOf \in [Clients -> Owners]
  /\ Purgeable \subseteq StateKeys
  /\ MaxVersion \in Nat
  /\ NoState \notin [key : StateKeys, state : State]
  /\ \A d \in Data, c \in Clients, v \in 1 .. MaxVersion : d \union {<<c, v>>} \in Data

VARIABLE copies           \* what each client is working on

clientVars == <<states, copies>>

Copy == [key : StateKeys, state : State]

CopiesTypeOK == copies \in [Clients -> Copy \union {NoState}]

ClientInit ==
  /\ StateInit
  /\ copies = [c \in Clients |-> NoState]

Open(c, k, a) ==
  /\ copies[c] = NoState
  /\ GetOrCreate(k, OwnerOf[c], a)
  /\ copies' = [copies EXCEPT ![c] = [key |-> k, state |-> Opened(k, OwnerOf[c], a)]]

\* Mutation: the update keeps the version it has read.
UpdatedInPlace(c) ==
  LET s == copies[c].state
  IN  [s EXCEPT !.data = s.data \union {<<c, s.version + 1>>}]

\* The row client c wants to write over the one it has read.
Updated(c) ==
  LET s == copies[c].state
  IN  [s EXCEPT !.version = s.version + 1, !.data = s.data \union {<<c, s.version + 1>>}]

Work(c) ==
  /\ copies[c] # NoState
  /\ copies[c].state.version < MaxVersion
  /\ LET k == copies[c].key IN
       \/ Save(k, Updated(c), copies[c].state.version)
       \/ ~ MaySave(k, Updated(c), copies[c].state.version) /\ UNCHANGED states
  /\ copies' = [copies EXCEPT ![c] = NoState]

Retain ==
  /\ \E K \in SUBSET Purgeable : Purge(K)
  /\ UNCHANGED copies

ClientNext ==
  \/ \E c \in Clients, k \in StateKeys, a \in AgentVersions : Open(c, k, a)
  \/ \E c \in Clients : Work(c)
  \/ Retain

ClientSpec == ClientInit /\ [][ClientNext]_clientVars

-----------------------------------------------------------------------------

\* A save never loses an update its writer has not seen: every row a writer
\* replaces is one its own copy was built on (ADR 0007: "stale workers fail
\* closed instead of overwriting a newer continuation").  A row that can be purged
\* has no such guarantee: a purge restarts its versions.
NoLostUpdate ==
  [][\A k \in StateKeys \ Purgeable :
       states[k] # NoState /\ states'[k] # NoState
         => states[k].data \subseteq states'[k].data]_clientVars

\* Why that holds of a row that is kept: a copy is never ahead of its row, and a
\* copy with the row's version is the row.
CopiesAreBehind ==
  \A c \in Clients :
    copies[c] # NoState /\ copies[c].key \notin Purgeable =>
      LET row == states[copies[c].key] IN
      /\ row # NoState
      /\ copies[c].state.version <= row.version
      /\ copies[c].state.version = row.version => copies[c].state = row

\* A client is never handed the state of another principal, and no save puts one
\* principal's state over another's row, also when the row it read was purged and
\* opened again by somebody else (ADR 0007: "reads and writes verify principal,
\* tenant, and session ownership").
OwnersAreIsolated ==
  \A c \in Clients : copies[c] # NoState => copies[c].state.owner = OwnerOf[c]

RowsKeepTheirOwner ==
  [][\A k \in StateKeys :
       states[k] # NoState /\ states'[k] # NoState
         => states'[k].owner = states[k].owner]_clientVars
=============================================================================
