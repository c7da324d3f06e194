---------------------------- MODULE StoreProofs ----------------------------
(***************************************************************************)
(* What the four kinds of store promise, for every value of their           *)
(* constants: leases exclude one another, settled events stay settled,      *)
(* optimistic saves lose no update and mix no owners, and decisions on      *)
(* approvals are final and timely.                                          *)
(***************************************************************************)
EXTENDS LeaseStore, DedupStore, StateClients, ApprovalBroker, TLAPS

-----------------------------------------------------------------------------
(* Leases, for every set of keys and owners and every lease duration, over   *)
(* the unbounded clock and versions.                                         *)

\* An unexpired copy is the stored lease only because nobody can acquire or
\* release in between, which takes knowing whose each copy is.
CopiesAreOwn ==
  \A k \in Keys, o \in Holders : granted[k][o] # NoLease => granted[k][o].owner = o

LeaseInv == LeaseTypeOK /\ CopiesAreOwn /\ GrantIsStored

\* At first nothing is granted.
LEMMA LeaseInitInv == LeaseInit => LeaseInv
  BY DEF LeaseInit, LeaseInv, LeaseTypeOK, CopiesAreOwn, GrantIsStored, Unexpired

\* acquire and renew, wherever the store allows them.
LEMMA GrantKeeps ==
  ASSUME LeaseInv, NEW k \in Keys, NEW o \in Holders, NEW version \in Nat,
         ~ HeldByOther(k, o), Grant(k, o, version)
  PROVE  LeaseInv'
<1> DEFINE new == [owner |-> o, expires_at |-> now + TTL, version |-> version]
<1>1. /\ new \in Lease
      /\ new # NoLease
      /\ new.owner = o
  BY LeaseAssumption, NoLeaseAssumption DEF LeaseInv, LeaseTypeOK, Lease
<1>2. /\ leases' = [leases EXCEPT ![k] = new]
      /\ granted' = [granted EXCEPT ![k][o] = new]
      /\ now' = now
  BY DEF Grant
<1> HIDE DEF new
<1>3. LeaseTypeOK'
  BY <1>1, <1>2 DEF LeaseInv, LeaseTypeOK
<1>4. CopiesAreOwn'
  BY <1>1, <1>2 DEF LeaseInv, LeaseTypeOK, CopiesAreOwn
<1>5. ASSUME NEW j \in Keys, NEW p \in Holders, Unexpired(granted[j][p])'
      PROVE  leases'[j] = granted'[j][p]
  <2>1. CASE j # k
    BY <1>2, <1>5, <2>1 DEF LeaseInv, LeaseTypeOK, GrantIsStored, Unexpired
  <2>2. CASE j = k /\ p = o
    BY <1>2, <2>2 DEF LeaseInv, LeaseTypeOK
  <2>3. CASE j = k /\ p # o
    <3>1. granted'[k][p] = granted[k][p] /\ Unexpired(granted[k][p])
      BY <1>2, <1>5, <2>3 DEF LeaseInv, LeaseTypeOK, Unexpired
    <3>2. leases[k] = granted[k][p] /\ granted[k][p].owner = p
      BY <3>1 DEF LeaseInv, GrantIsStored, CopiesAreOwn, Unexpired
    <3> QED
      BY <2>3, <3>1, <3>2 DEF HeldByOther
  <2> QED
    BY <2>1, <2>2, <2>3
<1> QED
  BY <1>3, <1>4, <1>5 DEF LeaseInv, GrantIsStored

\* release takes the row and the owner's copy away together.
LEMMA ReleaseKeeps ==
  ASSUME LeaseInv, NEW k \in Keys, NEW o \in Holders, Release(k, o) PROVE LeaseInv'
<1>1. /\ leases' = [leases EXCEPT ![k] = NoLease]
      /\ granted' = [granted EXCEPT ![k][o] = NoLease]
      /\ now' = now
  BY DEF Release
<1>2. LeaseTypeOK' /\ CopiesAreOwn'
  BY <1>1 DEF LeaseInv, LeaseTypeOK, CopiesAreOwn
<1>3. ASSUME NEW j \in Keys, NEW p \in Holders, Unexpired(granted[j][p])'
      PROVE  leases'[j] = granted'[j][p]
  <2>1. granted'[j][p] = granted[j][p] /\ Unexpired(granted[j][p]) /\ (j = k => p # o)
    BY <1>1, <1>3 DEF LeaseInv, LeaseTypeOK, Unexpired
  <2>2. leases[j] = granted[j][p] /\ granted[j][p].owner = p /\ leases[j] # NoLease
    BY <2>1 DEF LeaseInv, GrantIsStored, CopiesAreOwn, Unexpired
  <2>3. j # k
    BY <2>1, <2>2 DEF Release, ReleaseRefused
  <2> QED
    BY <1>1, <2>1, <2>2, <2>3 DEF LeaseInv, LeaseTypeOK
<1> QED
  BY <1>2, <1>3 DEF LeaseInv, GrantIsStored

\* Every call of the store, and every tick, keeps the leases in order, ...
LEMMA LeaseStep == LeaseInv /\ [LeaseNext]_leaseVars => LeaseInv'
<1> SUFFICES ASSUME LeaseInv, [LeaseNext]_leaseVars PROVE LeaseInv'
  OBVIOUS
<1>1. ASSUME NEW k \in Keys, NEW o \in Holders, Acquire(k, o) PROVE LeaseInv'
  <2>1. NextVersion(k) \in Nat
    BY DEF LeaseInv, LeaseTypeOK, Lease, NextVersion
  <2> QED
    BY <1>1, <2>1, GrantKeeps DEF Acquire
<1>2. ASSUME NEW k \in Keys, NEW o \in Holders, Renew(k, o) PROVE LeaseInv'
  <2>1. leases[k].version + 1 \in Nat /\ ~ HeldByOther(k, o)
    BY <1>2 DEF Renew, HeldByOther, Unexpired, LeaseInv, LeaseTypeOK, Lease
  <2> QED
    BY <1>2, <2>1, GrantKeeps DEF Renew
<1>3. ASSUME Tick PROVE LeaseInv'
  <2>1. \A k \in Keys, o \in Holders : Unexpired(granted[k][o])' => Unexpired(granted[k][o])
    BY <1>3 DEF Tick, LeaseInv, LeaseTypeOK, Lease, Unexpired
  <2> QED
    BY <1>3, <2>1 DEF Tick, LeaseInv, LeaseTypeOK, CopiesAreOwn, GrantIsStored
<1>4. ASSUME UNCHANGED leaseVars PROVE LeaseInv'
  BY <1>4 DEF leaseVars, LeaseInv, LeaseTypeOK, CopiesAreOwn, GrantIsStored, Unexpired
<1> QED
  BY <1>1, <1>2, <1>3, <1>4, ReleaseKeeps DEF LeaseNext

\* ... so they always are.
LEMMA LeaseInvariant == LeaseSpec => []LeaseInv
  BY LeaseInitInv, LeaseStep, PTL DEF LeaseSpec

\* acquire and renew of leases.py never leave two owners with unexpired leases.
THEOREM LeasesExclude == LeaseSpec => []LeaseExclusive
<1>1. LeaseInv => LeaseExclusive
  BY DEF LeaseInv, LeaseExclusive, GrantIsStored, CopiesAreOwn, Unexpired
<1> QED
  BY <1>1, LeaseInvariant, PTL

\* A lease that replaces a stored one carries a larger version: acquire over an
\* expired lease and renew both count up.
THEOREM VersionsGrow == LeaseSpec => VersionGrows
<1>1. LeaseInv /\ [LeaseNext]_leaseVars
        => [\A k \in Keys :
              leases[k] # NoLease /\ leases'[k] # NoLease /\ leases'[k] # leases[k]
                => leases'[k].version > leases[k].version]_leaseVars
  <2> SUFFICES ASSUME LeaseInv, LeaseNext, NEW k \in Keys,
                      leases[k] # NoLease, leases'[k] # NoLease, leases'[k] # leases[k]
               PROVE  leases'[k].version > leases[k].version
    OBVIOUS
  <2>1. leases[k].version \in Nat
    BY DEF LeaseInv, LeaseTypeOK, Lease
  <2>2. ASSUME NEW j \in Keys, NEW o \in Holders, NEW version, Grant(j, o, version)
        PROVE  j = k /\ leases'[k].version = version
    BY <2>2 DEF Grant, LeaseInv, LeaseTypeOK
  <2>3. ASSUME NEW j \in Keys, NEW o \in Holders, Acquire(j, o) \/ Renew(j, o)
        PROVE  leases'[k].version = leases[k].version + 1
    BY <2>2, <2>3 DEF Acquire, Renew, NextVersion
  <2>4. ASSUME NEW j \in Keys, NEW o \in Holders, Release(j, o) PROVE FALSE
    BY <2>4 DEF Release, LeaseInv, LeaseTypeOK
  <2> QED
    BY <2>1, <2>3, <2>4 DEF LeaseNext, Tick
<1> QED
  BY <1>1, LeaseInvariant, PTL DEF VersionGrows, LeaseSpec

-----------------------------------------------------------------------------
(* Event records, for any events, claimants, lease versions and attempts.    *)

\* A record that a caller puts together, or that a claim writes, is a record.
LEMMA RecordTyped ==
  ASSUME NEW status \in OpenStatus \union TerminalStatus, NEW x \in EventExecutions,
         NEW n \in Nat, NEW outcome \in Outcomes \union {NoOutcome},
         NEW o \in Claimants, NEW v \in Nat
  PROVE  [status |-> status, execution_id |-> x, attempt |-> n,
          outcome |-> outcome, lease_owner |-> o, lease_version |-> v] \in DedupRecord
BY DEF DedupRecord

\* mark_pending_approval and mark_terminal replace the status and the outcome only.
LEMMA StatusTyped ==
  ASSUME NEW record \in DedupRecord, NEW status \in OpenStatus \union TerminalStatus,
         NEW outcome \in Outcomes \union {NoOutcome}
  PROVE  [record EXCEPT !.status = status, !.outcome = outcome] \in DedupRecord
BY DEF DedupRecord

\* Every method writes the record of one event, and a settled event keeps its status:
\* a claim refuses it, a mark needs it open and put compares the two.
LEMMA WritesOneRecord ==
  ASSUME DedupTypeOK, NEW k \in Events, NEW x \in EventExecutions, NEW o \in Claimants,
         NEW v \in Nat, NEW n \in Nat, DedupStep(k, x, o, v, n)
  PROVE  \E record \in DedupRecord :
           /\ records' = [records EXCEPT ![k] = record]
           /\ IsTerminal(k) => record.status = records[k].status
<1> DEFINE Written(record) == /\ record \in DedupRecord
                              /\ records' = [records EXCEPT ![k] = record]
                              /\ IsTerminal(k) => record.status = records[k].status
<1>1. CASE MarkInProgress(k, x, n, o, v)
  <2> DEFINE claim == [status |-> "in_progress", execution_id |-> x, attempt |-> n,
                       outcome |-> NoOutcome, lease_owner |-> o, lease_version |-> v]
  <2>1. claim \in DedupRecord
    <3>1. "in_progress" \in OpenStatus \union TerminalStatus /\ NoOutcome \in Outcomes \union {NoOutcome}
      BY DEF OpenStatus
    <3> QED BY <3>1, RecordTyped
  <2>2. records' = [records EXCEPT ![k] = claim] /\ ~ IsTerminal(k)
    BY <1>1 DEF MarkInProgress, ClaimRefused, IsTerminal, HasStatus
  <2> QED BY <2>1, <2>2
<1>2. CASE \E outcome \in Outcomes : MarkPendingApproval(k, x, o, v, outcome)
  <2>1. PICK outcome \in Outcomes : MarkPendingApproval(k, x, o, v, outcome)
    BY <1>2
  <2> DEFINE parked == [records[k] EXCEPT !.status = "pending_approval", !.outcome = outcome]
  <2>2. records[k] \in DedupRecord /\ ~ IsTerminal(k)
    BY <2>1 DEF MarkPendingApproval, CanPark, ClaimMatches, HasStatus, IsTerminal,
         DedupTypeOK, OpenStatus, TerminalStatus
  <2>3. parked \in DedupRecord
    BY <2>2, StatusTyped DEF OpenStatus
  <2>4. records' = [records EXCEPT ![k] = parked]
    BY <2>1 DEF MarkPendingApproval, DedupTypeOK
  <2> QED BY <2>2, <2>3, <2>4
<1>3. CASE \E outcome \in Outcomes \union {NoOutcome}, status \in TerminalStatus :
             MarkTerminal(k, x, o, v, status, outcome)
  <2>1. PICK outcome \in Outcomes \union {NoOutcome}, status \in TerminalStatus :
          MarkTerminal(k, x, o, v, status, outcome)
    BY <1>3
  <2> DEFINE settled == [records[k] EXCEPT !.status = status, !.outcome = outcome]
  <2>2. records[k] \in DedupRecord /\ ~ IsTerminal(k)
    BY <2>1 DEF MarkTerminal, CanSettle, ClaimMatches, DedupTypeOK
  <2>3. settled \in DedupRecord
    BY <2>2, StatusTyped
  <2>4. records' = [records EXCEPT ![k] = settled]
    BY <2>1 DEF MarkTerminal, DedupTypeOK
  <2> QED BY <2>2, <2>3, <2>4
<1>4. CASE \E outcome \in Outcomes \union {NoOutcome}, status \in OpenStatus \union TerminalStatus :
             Put(k, [status |-> status, execution_id |-> x, attempt |-> n,
                     outcome |-> outcome, lease_owner |-> o, lease_version |-> v])
  <2>1. PICK outcome \in Outcomes \union {NoOutcome}, status \in OpenStatus \union TerminalStatus :
          Put(k, [status |-> status, execution_id |-> x, attempt |-> n,
                  outcome |-> outcome, lease_owner |-> o, lease_version |-> v])
    BY <1>4
  <2> DEFINE new == [status |-> status, execution_id |-> x, attempt |-> n,
                     outcome |-> outcome, lease_owner |-> o, lease_version |-> v]
  <2>2. new \in DedupRecord
    BY RecordTyped
  <2> HIDE DEF new
  <2>3. records' = [records EXCEPT ![k] = new] /\ (IsTerminal(k) => new.status = records[k].status)
    BY <2>1 DEF Put, PutRefused, new
  <2> QED BY <2>2, <2>3
<1> QED BY <1>1, <1>2, <1>3, <1>4 DEF DedupStep

\* What one write does to all records.
LEMMA RecordsStep ==
  ASSUME DedupTypeOK, NEW k \in Events, NEW record \in DedupRecord,
         records' = [records EXCEPT ![k] = record],
         IsTerminal(k) => record.status = records[k].status
  PROVE  /\ DedupTypeOK'
         /\ \A j \in Events :
              IsTerminal(j) => records'[j] # NoRecord /\ records'[j].status = records[j].status
<1>1. DedupTypeOK'
  BY DEF DedupTypeOK
<1>2. record # NoRecord
  BY NoRecordAssumption
<1>3. \A j \in Events : records'[j] = IF j = k THEN record ELSE records[j]
  BY DEF DedupTypeOK
<1> QED BY <1>1, <1>2, <1>3 DEF IsTerminal, HasStatus

\* One step of any caller.
LEMMA DedupNextKeeps ==
  ASSUME NEW Versions \in SUBSET Nat, NEW Attempts \in SUBSET Nat,
         DedupTypeOK, DedupNext(Versions, Attempts)
  PROVE  /\ DedupTypeOK'
         /\ \A j \in Events :
              IsTerminal(j) => records'[j] # NoRecord /\ records'[j].status = records[j].status
<1>1. PICK k \in Events, x \in EventExecutions, o \in Claimants, v \in Versions, n \in Attempts :
        DedupStep(k, x, o, v, n)
  BY DEF DedupNext
<1>2. v \in Nat /\ n \in Nat
  OBVIOUS
<1>3. PICK record \in DedupRecord :
        /\ records' = [records EXCEPT ![k] = record]
        /\ IsTerminal(k) => record.status = records[k].status
  BY <1>1, <1>2, WritesOneRecord
<1> QED BY <1>3, RecordsStep

\* InMemoryDeduplicationStore: whatever its callers do, put included, a settled event
\* keeps its status.
THEOREM SettledStaySettled ==
  ASSUME NEW Versions \in SUBSET Nat, NEW Attempts \in SUBSET Nat
  PROVE  DedupSpec(Versions, Attempts) => SettledKeepsStatus
<1>1. DedupInit => DedupTypeOK
  BY DEF DedupInit, DedupTypeOK
<1>2. DedupTypeOK /\ [DedupNext(Versions, Attempts)]_records => DedupTypeOK'
  BY DedupNextKeeps DEF DedupTypeOK
<1>3. DedupTypeOK /\ [DedupNext(Versions, Attempts)]_records
        => [\A k \in Events :
              IsTerminal(k) =>
                records'[k] # NoRecord /\ records'[k].status = records[k].status]_records
  BY DedupNextKeeps
<1> QED BY <1>1, <1>2, <1>3, PTL DEF DedupSpec, SettledKeepsStatus

-----------------------------------------------------------------------------
(* State clients, for any number of clients, keys, owners and versions.      *)

TypesOK == StateTypeOK /\ CopiesTypeOK

\* What the proof of NoLostUpdate carries from step to step.
Behind == TypesOK /\ CopiesAreBehind

-----------------------------------------------------------------------------
(* The operators *)

\* A fresh state is a state.
LEMMA FreshTyped ==
  ASSUME NEW o \in Owners, NEW a \in AgentVersions
  PROVE  FreshState(o, a) \in State
BY StateAssumption DEF FreshState, State, StateStatus

\* get_or_create answers with a state, and leaves that very state in the store.
LEMMA OpenedTyped ==
  ASSUME StateTypeOK, NEW k \in StateKeys, NEW o \in Owners, NEW a \in AgentVersions
  PROVE  Opened(k, o, a) \in State /\ Opened(k, o, a) # NoState
<1>1. CASE states[k] = NoState
  BY <1>1, FreshTyped, StateAssumption DEF Opened
<1>2. CASE states[k] # NoState
  BY <1>2, StateAssumption DEF Opened, StateTypeOK
<1> QED BY <1>1, <1>2

\* The row a client writes is a state, one version up, with all it has read.
LEMMA UpdatedTyped ==
  ASSUME CopiesTypeOK, NEW c \in Clients, copies[c] # NoState,
         copies[c].state.version < MaxVersion
  PROVE  /\ Updated(c) \in State
         /\ Updated(c) # NoState
         /\ Updated(c).version = copies[c].state.version + 1
         /\ copies[c].state.data \subseteq Updated(c).data
         /\ Updated(c).owner = copies[c].state.owner
<1> DEFINE s == copies[c].state
           w == s.version + 1
<1>1. s \in State
  BY DEF CopiesTypeOK, Copy
<1>2. s.version \in Nat /\ s.data \in Data
  BY <1>1 DEF State
<1>3. w \in 1 .. MaxVersion
  BY <1>2, ClientAssumption
<1>4. s.data \union {<<c, w>>} \in Data
  BY <1>2, <1>3, ClientAssumption
<1>5. Updated(c) = [s EXCEPT !.version = w, !.data = s.data \union {<<c, w>>}]
  BY DEF Updated
<1> HIDE DEF s, w
<1>6. w \in Nat
  BY <1>2 DEF w
<1>7. /\ Updated(c) \in State
      /\ Updated(c).version = w
      /\ Updated(c).data = s.data \union {<<c, w>>}
      /\ Updated(c).owner = s.owner
  BY <1>1, <1>4, <1>5, <1>6 DEF State
<1> QED BY <1>7, StateAssumption DEF s, w

-----------------------------------------------------------------------------
(* Types *)

\* The empty store and its clients are typed.
LEMMA TypesInit == ClientInit => TypesOK
BY DEF ClientInit, StateInit, TypesOK, StateTypeOK, CopiesTypeOK

\* Every call of a client keeps them so.
LEMMA TypesStep == TypesOK /\ [ClientNext]_clientVars => TypesOK'
<1> SUFFICES ASSUME TypesOK, [ClientNext]_clientVars PROVE TypesOK'
  OBVIOUS
<1> USE DEF TypesOK
<1>1. ASSUME NEW c \in Clients, NEW k \in StateKeys, NEW a \in AgentVersions, Open(c, k, a)
      PROVE  TypesOK'
  <2>1. OwnerOf[c] \in Owners
    BY ClientAssumption
  <2>2. Opened(k, OwnerOf[c], a) \in State
    BY <2>1, OpenedTyped
  <2>3. StateTypeOK'
    BY <1>1, <2>2 DEF Open, GetOrCreate, StateTypeOK
  <2>4. CopiesTypeOK'
    BY <1>1, <2>2 DEF Open, CopiesTypeOK, Copy
  <2> QED BY <2>3, <2>4
<1>2. ASSUME NEW c \in Clients, Work(c) PROVE TypesOK'
  <2>1. Updated(c) \in State
    BY <1>2, UpdatedTyped DEF Work
  <2>2. StateTypeOK'
    BY <1>2, <2>1 DEF Work, Save, StateTypeOK
  <2>3. CopiesTypeOK'
    BY <1>2 DEF Work, CopiesTypeOK
  <2> QED BY <2>2, <2>3
<1>3. CASE Retain
  BY <1>3 DEF Retain, Purge, StateTypeOK, CopiesTypeOK
<1>4. CASE UNCHANGED clientVars
  BY <1>4 DEF clientVars, StateTypeOK, CopiesTypeOK
<1> QED BY <1>1, <1>2, <1>3, <1>4 DEF ClientNext

\* Every row of the store and every copy of a client is a well-formed state, with
\* or without purging (ExecutionState in contracts.py).
THEOREM StateTypes == ClientSpec => []StateTypeOK
<1>1. ClientInit => TypesOK
  BY TypesInit
<1>2. TypesOK /\ [ClientNext]_clientVars => TypesOK'
  BY TypesStep
<1>3. TypesOK => StateTypeOK
  BY DEF TypesOK
<1> QED BY <1>1, <1>2, <1>3, PTL DEF ClientSpec

-----------------------------------------------------------------------------
(* No lost update *)

\* No copy gets ahead of the row it was read from.
LEMMA BehindStep ==
  ASSUME Behind, [ClientNext]_clientVars
  PROVE  CopiesAreBehind'
<1> USE DEF Behind, TypesOK
<1>1. ASSUME NEW c \in Clients, NEW k \in StateKeys, NEW a \in AgentVersions, Open(c, k, a)
      PROVE  CopiesAreBehind'
  <2> DEFINE o == Opened(k, OwnerOf[c], a)
  <2>1. o \in State /\ o # NoState /\ o.version \in Nat
    BY ClientAssumption, OpenedTyped DEF State
  <2>2. states' = [states EXCEPT ![k] = o] /\ states'[k] = o
    BY <1>1 DEF Open, GetOrCreate, StateTypeOK
  <2>3. states[k] # NoState => states' = states
    BY <2>2 DEF Opened, StateTypeOK
  <2> SUFFICES ASSUME NEW d \in Clients, copies'[d] # NoState,
                      copies'[d].key \notin Purgeable
               PROVE  LET row == states'[copies'[d].key] IN
                      /\ row # NoState
                      /\ copies'[d].state.version <= row.version
                      /\ copies'[d].state.version = row.version => copies'[d].state = row
    BY DEF CopiesAreBehind
  <2> HIDE DEF o
  <2>4. CASE d = c
    <3>1. copies'[d] = [key |-> k, state |-> o]
      BY <1>1, <2>4 DEF Open, CopiesTypeOK, o
    <3> QED BY <3>1, <2>1, <2>2
  <2>5. CASE d # c
    <3>1. copies'[d] = copies[d] /\ copies[d] # NoState
      BY <1>1, <2>5 DEF Open, CopiesTypeOK
    <3>2. states[copies[d].key] # NoState
      BY <3>1 DEF CopiesAreBehind
    <3>3. copies[d].key \in StateKeys
      BY <3>1 DEF CopiesTypeOK, Copy
    <3>4. states'[copies[d].key] = states[copies[d].key]
      BY <2>2, <2>3, <3>2, <3>3 DEF StateTypeOK
    <3> QED BY <3>1, <3>4 DEF CopiesAreBehind
  <2> QED BY <2>4, <2>5
<1>2. ASSUME NEW c \in Clients, Work(c) PROVE CopiesAreBehind'
  <2> DEFINE k == copies[c].key
             u == Updated(c)
  <2>1. k \in StateKeys
    BY <1>2 DEF Work, CopiesTypeOK, Copy
  <2>2. /\ u \in State /\ u # NoState
        /\ u.version = copies[c].state.version + 1
    BY <1>2, UpdatedTyped DEF Work
  <2>3. copies[c].state.version \in Nat
    BY <1>2 DEF Work, CopiesTypeOK, Copy, State
  <2> HIDE DEF u
  <2>4. \/ states' = states
        \/ /\ states[k] # NoState => states[k].version = copies[c].state.version
           /\ states' = [states EXCEPT ![k] = u]
    BY <1>2, <2>3, StateAssumption DEF Work, Save, MaySave, u
  <2> SUFFICES ASSUME NEW d \in Clients, copies'[d] # NoState,
                      copies'[d].key \notin Purgeable
               PROVE  LET row == states'[copies'[d].key] IN
                      /\ row # NoState
                      /\ copies'[d].state.version <= row.version
                      /\ copies'[d].state.version = row.version => copies'[d].state = row
    BY DEF CopiesAreBehind
  <2>6. copies'[d] = copies[d] /\ copies[d] # NoState
    BY <1>2 DEF Work, CopiesTypeOK
  <2>7. copies[d].key \in StateKeys /\ copies[d].state.version \in Nat
    BY <2>6 DEF CopiesTypeOK, Copy, State
  <2>8. /\ states[copies[d].key] # NoState
        /\ copies[d].state.version <= states[copies[d].key].version
        /\ copies[d].state.version = states[copies[d].key].version
             => copies[d].state = states[copies[d].key]
    BY <2>6 DEF CopiesAreBehind
  <2>9. CASE states'[copies[d].key] = states[copies[d].key]
    BY <2>6, <2>8, <2>9
  <2>10. CASE /\ copies[d].key = k
              /\ states[k].version = copies[c].state.version
              /\ states'[k] = u
    <3>1. copies[d].state.version < u.version
      BY <2>2, <2>3, <2>7, <2>8, <2>10
    <3>2. u.version \in Nat
      BY <2>2, <2>3
    <3> QED BY <2>2, <2>6, <2>7, <2>10, <3>1, <3>2
  <2> QED BY <2>1, <2>4, <2>7, <2>8, <2>9, <2>10 DEF StateTypeOK
<1>3. CASE Retain
  <2> SUFFICES ASSUME NEW d \in Clients, copies[d] # NoState,
                      copies[d].key \notin Purgeable
               PROVE  states'[copies[d].key] = states[copies[d].key]
    BY <1>3 DEF Retain, CopiesAreBehind
  <2>1. copies[d].key \in StateKeys
    BY DEF CopiesTypeOK, Copy
  <2> QED BY <1>3, <2>1 DEF Retain, Purge
<1>4. CASE UNCHANGED clientVars
  BY <1>4 DEF clientVars, CopiesAreBehind
<1> QED BY <1>1, <1>2, <1>3, <1>4 DEF ClientNext

\* What one step of the store does to a row, given that copies are behind.
LEMMA UpdateStep ==
  ASSUME Behind, [ClientNext]_clientVars
  PROVE  \A k \in StateKeys \ Purgeable : states[k] # NoState /\ states'[k] # NoState
           => states[k].data \subseteq states'[k].data
<1> USE DEF Behind, TypesOK
<1> SUFFICES ASSUME NEW j \in StateKeys \ Purgeable, states[j] # NoState, states'[j] # NoState
             PROVE  states[j].data \subseteq states'[j].data
  OBVIOUS
<1>1. ASSUME NEW c \in Clients, NEW k \in StateKeys, NEW a \in AgentVersions, Open(c, k, a)
      PROVE  states'[j] = states[j]
  BY <1>1 DEF Open, GetOrCreate, Opened, StateTypeOK
<1>2. ASSUME NEW c \in Clients, Work(c)
      PROVE  states[j].data \subseteq states'[j].data
  <2> DEFINE s == copies[c].state
  <2>1. CASE states' = states
    BY <2>1
  <2>2. CASE Save(copies[c].key, Updated(c), s.version)
    <3>1. s.version \in Nat /\ copies[c].key \in StateKeys
      BY <1>2 DEF Work, CopiesTypeOK, Copy, State
    <3>5. s.data \subseteq Updated(c).data
      BY <1>2, UpdatedTyped DEF Work
    <3>6. states' = [states EXCEPT ![copies[c].key] = Updated(c)]
      BY <2>2 DEF Save
    <3>7. CASE j = copies[c].key
      <4>1. states'[j] = Updated(c)
        BY <3>6, <3>7 DEF StateTypeOK
      <4>2. states[j].version = s.version
        BY <2>2, <3>1, <3>7, StateAssumption DEF Save, MaySave
      <4>3. states[j] = s
        BY <1>2, <3>7, <4>2 DEF Work, CopiesAreBehind
      <4> QED BY <3>5, <4>1, <4>3
    <3>8. CASE j # copies[c].key
      BY <3>6, <3>8 DEF StateTypeOK
    <3> QED BY <3>7, <3>8
  <2> QED BY <1>2, <2>1, <2>2 DEF Work
<1>3. CASE Retain
  BY <1>3 DEF Retain, Purge
<1>4. CASE UNCHANGED clientVars
  BY <1>4 DEF clientVars
<1> QED BY <1>1, <1>2, <1>3, <1>4 DEF ClientNext

\* Of a row that is not purged, a copy is never ahead and a copy with the row's
\* version is the row (the version check of save).
THEOREM NeverAhead == ClientSpec => []CopiesAreBehind
<1>1. ClientInit => Behind
  BY TypesInit DEF Behind, ClientInit, CopiesAreBehind
<1>2. Behind /\ [ClientNext]_clientVars => Behind'
  BY TypesStep, BehindStep DEF Behind
<1>3. Behind => CopiesAreBehind
  BY DEF Behind
<1> QED BY <1>1, <1>2, <1>3, PTL DEF ClientSpec

\* Of a row that is not purged, no save of any client loses an update that its
\* writer has not seen (save with an expected version).
THEOREM UpdatesSurvive == ClientSpec => NoLostUpdate
<1>1. ClientInit => Behind
  BY TypesInit DEF Behind, ClientInit, CopiesAreBehind
<1>2. Behind /\ [ClientNext]_clientVars => Behind'
  BY TypesStep, BehindStep DEF Behind
<1>3. Behind /\ [ClientNext]_clientVars =>
        [\A k \in StateKeys \ Purgeable : states[k] # NoState /\ states'[k] # NoState
           => states[k].data \subseteq states'[k].data]_clientVars
  BY UpdateStep
<1> QED BY <1>1, <1>2, <1>3, PTL DEF ClientSpec, NoLostUpdate

-----------------------------------------------------------------------------
(* Owners *)

Isolated == TypesOK /\ OwnersAreIsolated

\* No client comes to a row of another owner.
LEMMA OwnerStep ==
  ASSUME Isolated, [ClientNext]_clientVars
  PROVE  OwnersAreIsolated'
<1> USE DEF Isolated, TypesOK
<1>1. ASSUME NEW c \in Clients, NEW k \in StateKeys, NEW a \in AgentVersions, Open(c, k, a)
      PROVE  OwnersAreIsolated'
  <2>1. Opened(k, OwnerOf[c], a).owner = OwnerOf[c]
    BY <1>1 DEF Open, GetOrCreate, MayOpen, Opened, FreshState
  <2> QED BY <1>1, <2>1 DEF Open, CopiesTypeOK, OwnersAreIsolated
<1>2. ASSUME NEW c \in Clients, Work(c) PROVE OwnersAreIsolated'
  BY <1>2 DEF Work, CopiesTypeOK, OwnersAreIsolated
<1>3. CASE Retain
  BY <1>3 DEF Retain, OwnersAreIsolated
<1>4. CASE UNCHANGED clientVars
  BY <1>4 DEF clientVars, OwnersAreIsolated
<1> QED BY <1>1, <1>2, <1>3, <1>4 DEF ClientNext

\* A row never changes its owner.
LEMMA RowOwnerStep ==
  ASSUME TypesOK, [ClientNext]_clientVars
  PROVE  \A k \in StateKeys : states[k] # NoState /\ states'[k] # NoState
           => states'[k].owner = states[k].owner
<1> USE DEF TypesOK
<1> SUFFICES ASSUME NEW j \in StateKeys, states[j] # NoState, states'[j] # NoState
             PROVE  states'[j].owner = states[j].owner
  OBVIOUS
<1>1. ASSUME NEW c \in Clients, NEW k \in StateKeys, NEW a \in AgentVersions, Open(c, k, a)
      PROVE  states'[j] = states[j]
  BY <1>1 DEF Open, GetOrCreate, Opened, StateTypeOK
<1>2. ASSUME NEW c \in Clients, Work(c) PROVE states'[j].owner = states[j].owner
  <2>1. CASE states' = states
    BY <2>1
  <2>2. CASE Save(copies[c].key, Updated(c), copies[c].state.version)
    <3>1. CASE j = copies[c].key
      <4>1. states'[j] = Updated(c)
        BY <2>2, <3>1 DEF Save, StateTypeOK
      <4>2. states[j].owner = Updated(c).owner
        BY <2>2, <3>1 DEF Save, MaySave
      <4> QED BY <4>1, <4>2
    <3>2. CASE j # copies[c].key
      BY <2>2, <3>2 DEF Save, StateTypeOK
    <3> QED BY <3>1, <3>2
  <2> QED BY <1>2, <2>1, <2>2 DEF Work
<1>3. CASE Retain
  BY <1>3 DEF Retain, Purge
<1>4. CASE UNCHANGED clientVars
  BY <1>4 DEF clientVars
<1> QED BY <1>1, <1>2, <1>3, <1>4 DEF ClientNext

\* Purging or not, no client is ever handed another principal's state (the owner
\* check of get_or_create).
THEOREM CopiesKeepToTheirOwner == ClientSpec => []OwnersAreIsolated
<1>1. ClientInit => Isolated
  BY TypesInit DEF Isolated, ClientInit, OwnersAreIsolated
<1>2. Isolated /\ [ClientNext]_clientVars => Isolated'
  BY TypesStep, OwnerStep DEF Isolated
<1>3. Isolated => OwnersAreIsolated
  BY DEF Isolated
<1> QED BY <1>1, <1>2, <1>3, PTL DEF ClientSpec

\* Purging or not, no save puts one principal's state over another's row (the
\* owner check of save).
THEOREM RowsStayOwned == ClientSpec => RowsKeepTheirOwner
<1>1. ClientInit => TypesOK
  BY TypesInit
<1>2. TypesOK /\ [ClientNext]_clientVars => TypesOK'
  BY TypesStep
<1>3. TypesOK /\ [ClientNext]_clientVars =>
        [\A k \in StateKeys : states[k] # NoState /\ states'[k] # NoState
           => states'[k].owner = states[k].owner]_clientVars
  BY RowOwnerStep
<1> QED BY <1>1, <1>2, <1>3, PTL DEF ClientSpec, RowsKeepTheirOwner

-----------------------------------------------------------------------------
(* Approvals, for any requests, actions and expiries and an unbounded clock. *)

\* What the step lemmas assume: a state of the right shape, and Times is a set of
\* clock values.
Ready(Times) == Times \subseteq Nat /\ BrokerTypeOK

\* A look at a request answers with its decision, if it has one, or with a
\* well-formed decision "expired", or with nothing.
LEMMA CurrentIs ==
  ASSUME BrokerTypeOK, NEW r \in RequestIds
  PROVE  /\ Current(r) \in Decision \union {None}
         /\ decisions[r] # None => Current(r) = decisions[r]
         /\ Current(r) # decisions[r] => Current(r).status = "expired"
         /\ Current(r) = None /\ requests[r] # None /\ requests[r].expires_at # None
              => clock < requests[r].expires_at
<1>1. CASE decisions[r] = None /\ requests[r] # None /\ Expired(requests[r].expires_at)
  <2>1. Current(r) = ExpiredDecision(r)
    BY <1>1 DEF Current
  <2>2. requests[r].expires_at \in Expiry /\ clock \in Nat
    BY <1>1 DEF BrokerTypeOK, Request
  <2>3. ExpiredDecision(r) \in Decision /\ ExpiredDecision(r).status = "expired"
    BY <2>2 DEF ExpiredDecision, Decision, DecisionStatus
  <2> QED BY <1>1, <2>1, <2>3, BrokerAssumption
<1>2. CASE ~ (decisions[r] = None /\ requests[r] # None /\ Expired(requests[r].expires_at))
  <2>1. Current(r) = decisions[r] /\ decisions[r] \in Decision \union {None}
    BY <1>2 DEF Current, BrokerTypeOK
  <2>2. requests[r] # None => requests[r].expires_at \in Nat \union {None}
    BY DEF BrokerTypeOK, Request, Expiry
  <2>3. clock \in Nat
    BY DEF BrokerTypeOK
  <2> QED BY <1>2, <2>1, <2>2, <2>3 DEF Expired
<1> QED BY <1>1, <1>2

\* What every step writes: decisions changes at one request at most, there only
\* where nothing was decided, and an approval it writes is timely.
Timely(d, request) ==
  d.status = "approved" /\ request.expires_at # None =>
    /\ d.decided_at < request.expires_at
    /\ d.expires_at # None => d.expires_at <= request.expires_at

Writes(r, d) ==
  /\ d \in Decision \union {None}
  /\ decisions' = [decisions EXCEPT ![r] = d]
  /\ decisions[r] # None => d = decisions[r]
  /\ d # decisions[r] /\ d.status = "approved" => requests[r] # None /\ Timely(d, requests[r])

\* Looking at a request, and consuming it, writes its current decision.
LEMMA LookWrites ==
  ASSUME BrokerTypeOK, NEW r \in RequestIds, Record(r, Current(r))
  PROVE  Writes(r, Current(r))
BY CurrentIs DEF Record, Writes

\* decide writes the current decision, "expired", or the reviewer's decision.
LEMMA DecideWrites ==
  ASSUME NEW Times, Ready(Times), NEW r \in RequestIds, NEW status \in DecisionStatus,
         NEW e \in Times \union {None}, Decide(r, status, e)
  PROVE  \E d : Writes(r, d)
<1> DEFINE x == ResolvedExpiry(r, status, e)
           rx == requests[r].expires_at
<1>1. requests[r] # None /\ rx \in Nat \union {None} /\ clock \in Nat
  BY DEF Decide, Ready, BrokerTypeOK, Request, Expiry
<1>2. x \in Nat \union {None}
  BY <1>1 DEF Ready, ResolvedExpiry
<1>3. CASE Current(r) # None
  BY <1>3, LookWrites DEF Decide, Ready, Record
<1>4. CASE Current(r) = None /\ status = "approved" /\ Expired(x)
  <2>1. decisions[r] = None
    BY <1>4, CurrentIs DEF Ready
  <2>2. ExpiredDecision(r) \in Decision /\ ExpiredDecision(r).status = "expired"
    BY <1>1 DEF ExpiredDecision, Decision, DecisionStatus, Expiry
  <2>3. decisions' = [decisions EXCEPT ![r] = ExpiredDecision(r)]
    BY <1>4 DEF Decide, Record
  <2>4. Writes(r, ExpiredDecision(r))
    BY <2>1, <2>2, <2>3 DEF Writes
  <2> QED BY <2>4
<1>5. CASE Current(r) = None /\ ~ (status = "approved" /\ Expired(x))
  <2> DEFINE d == [status |-> status, expires_at |-> x, decided_at |-> clock]
  <2>1. decisions[r] = None
    BY <1>5, CurrentIs DEF Ready
  <2>2. d \in Decision
    BY <1>1, <1>2 DEF Decision, Expiry
  <2>3. decisions' = [decisions EXCEPT ![r] = d]
    BY <1>5 DEF Decide, Record
  <2>4. rx # None => clock < rx
    BY <1>1, <1>5, CurrentIs DEF Ready
  <2>5. status = "approved" /\ rx # None => x # None /\ x <= rx
    BY <1>5 DEF Decide
  <2>6. Timely(d, requests[r])
    BY <2>4, <2>5 DEF Timely
  <2>7. Writes(r, d)
    BY <1>1, <2>1, <2>2, <2>3, <2>6 DEF Writes
  <2> QED BY <2>7
<1> QED BY <1>3, <1>4, <1>5

\* record_decision writes the current decision or the evidence.
LEMMA EvidenceWrites ==
  ASSUME NEW Times, Ready(Times), NEW r \in RequestIds, NEW status \in DecisionStatus,
         NEW e \in Times \union {None}, NEW t \in 0 .. clock,
         RecordDecision(r, [status |-> status, expires_at |-> e, decided_at |-> t])
  PROVE  \E d : Writes(r, d)
<1> DEFINE d == [status |-> status, expires_at |-> e, decided_at |-> t]
           rx == requests[r].expires_at
<1>1. requests[r] # None /\ rx \in Nat \union {None} /\ clock \in Nat /\ t \in Nat
  BY DEF RecordDecision, Ready, BrokerTypeOK, Request, Expiry
<1>2. CASE Current(r) # None
  BY <1>2, LookWrites DEF RecordDecision, Ready, Record
<1>3. CASE Current(r) = None
  <2>1. decisions[r] = None
    BY <1>3, CurrentIs DEF Ready
  <2>2. d \in Decision
    BY <1>1 DEF Decision, Expiry, Ready
  <2>3. decisions' = [decisions EXCEPT ![r] = d]
    BY <1>3 DEF RecordDecision, Record
  <2>4. rx # None => clock < rx
    BY <1>1, <1>3, CurrentIs DEF Ready
  <2>5. rx # None => t < rx
    BY <1>1, <2>4
  <2>6. status = "approved" /\ rx # None /\ e # None => e <= rx
    BY DEF RecordDecision
  <2>7. Timely(d, requests[r])
    BY <2>5, <2>6 DEF Timely
  <2>8. Writes(r, d)
    BY <1>1, <2>1, <2>2, <2>3, <2>7 DEF Writes
  <2> QED BY <2>8
<1> QED BY <1>2, <1>3

-----------------------------------------------------------------------------
(* Every step *)

\* A step of the broker on request r writes at most one decision, keeps every
\* request it has and consumes only what is decided.
LEMMA StepWrites ==
  ASSUME NEW Times, Ready(Times), NEW r \in RequestIds, BrokerStep(r, Times)
  PROVE  /\ requests' \in [RequestIds -> Request \union {None}]
         /\ \A q \in RequestIds : requests[q] # None => requests'[q] = requests[q]
         /\ consumed' \subseteq RequestIds
         /\ \A q \in consumed' : q \in consumed \/ decisions'[q] # None
         /\ clock' = clock
         /\ \E d : Writes(r, d)
<1> USE DEF Ready
<1>1. CASE GetDecision(r)
  BY <1>1, LookWrites DEF GetDecision, BrokerTypeOK
<1>2. CASE Consume(r)
  <2>1. CASE requests[r] = None
    <3>1. decisions' = decisions /\ consumed' = consumed
      BY <1>2, <2>1 DEF Consume
    <3>2. Writes(r, decisions[r])
      BY <3>1 DEF Writes, BrokerTypeOK
    <3> QED BY <1>2, <3>1, <3>2 DEF Consume, BrokerTypeOK
  <2>2. CASE requests[r] # None
    <3>1. Record(r, Current(r)) /\ consumed' = consumed \union {r}
      BY <1>2, <2>2 DEF Consume
    <3>2. Current(r) # None
      BY <1>2, <2>2 DEF Consume, ConsumeRefused
    <3>3. decisions'[r] # None
      BY <3>1, <3>2 DEF Record, BrokerTypeOK
    <3>4. Writes(r, Current(r))
      BY <3>1, LookWrites
    <3> QED BY <1>2, <3>1, <3>3, <3>4 DEF Consume, BrokerTypeOK
  <2> QED BY <2>1, <2>2
<1>3. CASE ConsumeRaises(r)
  BY <1>3, LookWrites DEF ConsumeRaises, BrokerTypeOK
<1>4. ASSUME NEW a \in Actions, NEW e \in Times \union {None},
             Submit(r, [action |-> a, expires_at |-> e])
      PROVE  /\ requests' \in [RequestIds -> Request \union {None}]
             /\ \A q \in RequestIds : requests[q] # None => requests'[q] = requests[q]
             /\ consumed' = consumed /\ clock' = clock
             /\ \E d : Writes(r, d)
  <2> DEFINE request == [action |-> a, expires_at |-> e]
             x == [status |-> "expired", expires_at |-> e, decided_at |-> clock]
             d == IF decisions[r] = None /\ Expired(e) THEN x ELSE decisions[r]
  <2>1. request \in Request /\ request.expires_at = e
    BY DEF Request, Expiry
  <2>2. requests[r] \in {None, request} /\ requests' = [requests EXCEPT ![r] = request]
    BY <1>4 DEF Submit
  <2>3. decisions' = [decisions EXCEPT ![r] = d]
    BY <1>4 DEF Submit, Record
  <2>4. x \in Decision /\ x.status = "expired"
    BY DEF BrokerTypeOK, Decision, DecisionStatus, Expiry
  <2>5. d \in Decision \union {None}
    BY <2>4 DEF BrokerTypeOK
  <2>6. d # decisions[r] => d.status = "expired"
    BY <2>4
  <2>7. Writes(r, d)
    BY <2>3, <2>5, <2>6 DEF Writes
  <2>8. requests' \in [RequestIds -> Request \union {None}]
    BY <2>1, <2>2 DEF BrokerTypeOK
  <2>9. \A q \in RequestIds : requests[q] # None => requests'[q] = requests[q]
    BY <2>2 DEF BrokerTypeOK
  <2> QED BY <1>4, <2>7, <2>8, <2>9 DEF Submit
<1>5. ASSUME NEW status \in DecisionStatus, NEW e \in Times \union {None}, Decide(r, status, e)
      PROVE  UNCHANGED <<requests, consumed, clock>> /\ \E d : Writes(r, d)
  BY <1>5, DecideWrites DEF Decide
<1>6. ASSUME NEW status \in DecisionStatus, NEW e \in Times \union {None}, NEW t \in 0 .. clock,
             RecordDecision(r, [status |-> status, expires_at |-> e, decided_at |-> t])
      PROVE  UNCHANGED <<requests, consumed, clock>> /\ \E d : Writes(r, d)
  BY <1>6, EvidenceWrites DEF RecordDecision
<1>7. CASE UNCHANGED <<requests, consumed, clock>> /\ \E d : Writes(r, d)
  BY <1>7 DEF BrokerTypeOK
<1>8. CASE /\ requests' \in [RequestIds -> Request \union {None}]
           /\ \A q \in RequestIds : requests[q] # None => requests'[q] = requests[q]
           /\ consumed' = consumed /\ clock' = clock
           /\ \E d : Writes(r, d)
  BY <1>8 DEF BrokerTypeOK
<1> QED BY <1>1, <1>2, <1>3, <1>4, <1>5, <1>6, <1>7, <1>8 DEF BrokerStep

\* The inductive invariant: every part needs the first, and a timely approval
\* stays one because its request is never replaced.
BrokerInv == BrokerTypeOK /\ ApprovalsAreTimely /\ ConsumedWereDecided

FinalStep == \A r \in RequestIds : decisions[r] # None => decisions'[r] = decisions[r]

\* The broker starts with nothing submitted, decided or consumed.
LEMMA InvInit == BrokerInit => BrokerInv
BY BrokerAssumption DEF BrokerInit, BrokerInv, BrokerTypeOK, ApprovalsAreTimely,
   ConsumedWereDecided

\* No call of the broker, and no tick, breaks the invariant or changes a decision.
LEMMA InvStep ==
  ASSUME NEW Times \in SUBSET Nat, BrokerInv, [BrokerNext(Times)]_brokerVars
  PROVE  BrokerInv' /\ FinalStep
<1> USE DEF BrokerInv
<1>0. Ready(Times)
  BY DEF Ready
<1>1. ASSUME NEW r \in RequestIds, BrokerStep(r, Times)
      PROVE  BrokerInv' /\ FinalStep
  <2>1. PICK d : Writes(r, d)
    BY <1>0, <1>1, StepWrites
  <2>2. decisions' = [decisions EXCEPT ![r] = d] /\ d \in Decision \union {None}
    BY <2>1 DEF Writes
  <2>3. BrokerTypeOK'
    BY <1>0, <1>1, <2>2, StepWrites DEF BrokerTypeOK
  <2>4. FinalStep
    BY <2>1, <2>2 DEF Writes, FinalStep, BrokerTypeOK
  <2>5. ConsumedWereDecided'
    <3> SUFFICES ASSUME NEW q \in consumed' PROVE decisions'[q] # None
      BY DEF ConsumedWereDecided
    <3>1. q \in RequestIds
      BY <2>3 DEF BrokerTypeOK
    <3>2. q \in consumed \/ decisions'[q] # None
      BY <1>0, <1>1, StepWrites
    <3> QED BY <2>4, <3>1, <3>2 DEF ConsumedWereDecided, FinalStep
  <2>6. ApprovalsAreTimely'
    <3> SUFFICES ASSUME NEW q \in RequestIds, decisions'[q] # None,
                        decisions'[q].status = "approved"
                 PROVE  requests'[q] # None /\ Timely(decisions'[q], requests'[q])
      BY DEF ApprovalsAreTimely, Timely
    <3>1. requests[q] # None => requests'[q] = requests[q]
      BY <1>0, <1>1, StepWrites
    <3>2. CASE decisions'[q] = decisions[q]
      <4>1. requests[q] # None /\ Timely(decisions[q], requests[q])
        BY <3>2 DEF ApprovalsAreTimely, Timely
      <4> QED BY <3>1, <3>2, <4>1
    <3>3. CASE decisions'[q] # decisions[q]
      <4>1. q = r /\ decisions'[q] = d
        BY <2>2, <3>3 DEF BrokerTypeOK
      <4>2. requests[q] # None /\ Timely(d, requests[q])
        BY <2>1, <3>3, <4>1 DEF Writes
      <4> QED BY <3>1, <4>1, <4>2
    <3> QED BY <3>2, <3>3
  <2> QED BY <2>3, <2>4, <2>5, <2>6
<1>2. CASE TimePasses
  BY <1>2 DEF TimePasses, BrokerTypeOK, ApprovalsAreTimely, ConsumedWereDecided, FinalStep
<1>3. CASE UNCHANGED brokerVars
  BY <1>3 DEF brokerVars, BrokerTypeOK, ApprovalsAreTimely, ConsumedWereDecided, FinalStep
<1> QED BY <1>1, <1>2, <1>3 DEF BrokerNext

-----------------------------------------------------------------------------

\* Every approval was given before its request expired and ends no later: nobody
\* approves late, by decide or by record_decision (_decision_locked expires first).
THEOREM NoLateApproval ==
  ASSUME NEW Times \in SUBSET Nat
  PROVE  BrokerSpec(Times) => []ApprovalsAreTimely
<1>1. BrokerInit => BrokerInv
  BY InvInit
<1>2. BrokerInv /\ [BrokerNext(Times)]_brokerVars => BrokerInv'
  BY InvStep
<1>3. BrokerInv => ApprovalsAreTimely
  BY DEF BrokerInv
<1> QED BY <1>1, <1>2, <1>3, PTL DEF BrokerSpec

\* No decision is ever changed, whoever decides again, records evidence or lets
\* the request expire (decide and record_decision return the first decision).
THEOREM FirstDecisionStands ==
  ASSUME NEW Times \in SUBSET Nat
  PROVE  BrokerSpec(Times) => DecisionsAreFinal
<1>1. BrokerInit => BrokerInv
  BY InvInit
<1>2. BrokerInv /\ [BrokerNext(Times)]_brokerVars => BrokerInv'
  BY InvStep
<1>3. BrokerInv /\ [BrokerNext(Times)]_brokerVars =>
        [\A r \in RequestIds : decisions[r] # None => decisions'[r] = decisions[r]]_brokerVars
  BY InvStep DEF FinalStep
<1> QED BY <1>1, <1>2, <1>3, PTL DEF BrokerSpec, DecisionsAreFinal

\* Only a decided request is ever consumed (consume raises for the others).
THEOREM OnlyDecidedConsumed ==
  ASSUME NEW Times \in SUBSET Nat
  PROVE  BrokerSpec(Times) => []ConsumedWereDecided
<1>1. BrokerInit => BrokerInv
  BY InvInit
<1>2. BrokerInv /\ [BrokerNext(Times)]_brokerVars => BrokerInv'
  BY InvStep
<1>3. BrokerInv => ConsumedWereDecided
  BY DEF BrokerInv
<1> QED BY <1>1, <1>2, <1>3, PTL DEF BrokerSpec
=============================================================================
