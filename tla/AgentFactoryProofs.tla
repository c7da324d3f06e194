-------------------------- MODULE AgentFactoryProofs --------------------------
(***************************************************************************)
(* Validations pass only over usable components, runs are guarded, builds   *)
(* register once and snapshots replay, for any catalog, any number of       *)
(* clients and any interleaving of operators, builds and executions.        *)
(***************************************************************************)
EXTENDS AgentFactory, FiniteSetTheorems, WellFoundedInduction, TLAPS

-----------------------------------------------------------------------------
(* What the variables hold                                                   *)

Statuses == Lifecycle \union {Absent}

Look == [of : Components, optional : BOOLEAN, path : SUBSET Components, limit : Nat]

Operations == {"none", "register", "validate", "activate", "resolve", "check"}

Validation ==
  [at : {"idle", "reading", "passed", "failed"}, op : Operations,
   target : Components \union {Absent}, to : Statuses, allowed : SUBSET Lifecycle,
   todo : Seq(Look), visited : SUBSET Components, unseen : SUBSET Components]

Event == [of : Components \union {Absent}, to : Statuses]

Part == {"list", "revision"} \X Kinds

Contents == UNION {[K -> SUBSET (Components \X Statuses)] : K \in SUBSET Kinds}

Revisions == UNION {[K -> Nat] : K \in SUBSET Kinds}

SnapshotRecord ==
  [at : {"idle", "reading", "taken"}, of : {"none", "prompt", "skill", "agent"}, full : BOOLEAN,
   overrides : SUBSET (Components \X Lifecycle), todo : Seq(Part),
   contents : Contents, revisions : Revisions]

Types ==
  /\ scope \in Scopes
  /\ status \in [Components -> Statuses]
  /\ revision \in [Kinds -> Nat]
  /\ events \in [Kinds -> Seq(Event)]
  /\ holder \in [{"skill", "agent"} -> Clients \union {Free}]
  /\ work \in [Clients -> Validation]
  /\ snapshot \in [Clients -> SnapshotRecord]

\* A validation is of a skill or an agent and holds the lock of its registry; what it
\* is to register is not there yet.
Holding(c) ==
  work[c].at = "reading" =>
    /\ work[c].target \in Components /\ Kind[work[c].target] \in {"skill", "agent"}
    /\ holder[Kind[work[c].target]] = c
    /\ work[c].op = "register" => status[work[c].target] = Absent /\ work[c].to \in Lifecycle

Locking == \A c \in Clients : Holding(c)

-----------------------------------------------------------------------------
(* What a step of the factory does to the registries                         *)

\* Nobody changes a skill or an agent while a validation holds its registry.
OperatorMoves(x, path) ==
  /\ path \in Seq(Lifecycle)
  /\ Move(x, path)
  /\ Kind[x] \in {"skill", "agent"} => holder[Kind[x]] = Free

Begins(c, op, x, to, allowed) ==
  /\ Kind[x] \in {"skill", "agent"}
  /\ op = "register" => status[x] = Absent /\ to \in Lifecycle
  /\ Begin(c, op, x, to, allowed)

Lets(c) == work' = work \/ (work[c].at \in {"passed", "failed"} /\ Done(c))

Reading(k, full, overrides) ==
  [NoSnapshot EXCEPT !.at = "reading", !.of = k, !.full = full, !.overrides = overrides,
                     !.todo = ReadsFor(k)]

SnapshotMoves(c) ==
  \/ snapshot' = snapshot
  \/ snapshot' = [snapshot EXCEPT ![c] = NoSnapshot]
  \/ \E k \in {"prompt", "skill", "agent"}, full \in BOOLEAN,
        overrides \in SUBSET (Components \X Lifecycle) :
       snapshot' = [snapshot EXCEPT ![c] = Reading(k, full, overrides)]

\* Answers are taken, snapshots begun and given up.
ClientMoves(c) ==
  /\ Lets(c) /\ SnapshotMoves(c)
  /\ UNCHANGED <<scope, status, revision, events, holder>>

ClientAction(c) ==
  \/ \E x \in Components, op \in Operations, to \in Statuses, allowed \in SUBSET Lifecycle :
       Begins(c, op, x, to, allowed)
  \/ ReadNext(c) \/ Finish(c) \/ ClientMoves(c) \/ ReadPart(c) \/ RecordSnapshot(c)

RegistryAction ==
  \/ \E x \in Components, path \in Seq(Lifecycle) : OperatorMoves(x, path)
  \/ \E c \in Clients : ClientAction(c)
  \/ UNCHANGED registryVars

-----------------------------------------------------------------------------
(* The operators                                                             *)

\* The paths along which validation and activation move a component.
LEMMA PathsTyped ==
  ASSUME NEW s
  PROVE  ValidatePath(s) \in Seq(Lifecycle) /\ ActivatePath(s) \in Seq(Lifecycle)
BY DEF ValidatePath, ActivatePath, Lifecycle

\* The references of a component, as they are put on the list.
LEMMA ReadsTyped ==
  ASSUME NEW x \in Components, NEW path \in SUBSET Components, NEW limit \in Nat
  PROVE  /\ Reads(x, path, limit) \in Seq(Look)
         /\ Len(Reads(x, path, limit)) = Len(Refs[x])
         /\ \A i \in 1 .. Len(Refs[x]) : /\ Reads(x, path, limit)[i].of = Refs[x][i].of
                                         /\ Reads(x, path, limit)[i].optional = Refs[x][i].optional
<1> DEFINE n == Len(Refs[x])
<1>1. Refs[x] \in Seq(Reference)
  BY RegistryAssumption
<1>2. n \in Nat /\ DOMAIN Refs[x] = 1 .. n /\ \A i \in 1 .. n : Refs[x][i] \in Reference
  BY <1>1
<1>3. \A i \in 1 .. n :
        [of |-> Refs[x][i].of, optional |-> Refs[x][i].optional, path |-> path, limit |-> limit] \in Look
  BY <1>2 DEF Look, Reference
<1>4. Reads(x, path, limit) \in [1 .. n -> Look]
  BY <1>2, <1>3 DEF Reads
<1>5. Reads(x, path, limit) \in Seq(Look)
  BY <1>2, <1>4
<1> QED BY <1>2, <1>4, <1>5 DEF Reads

\* Below what is read there are references, or nothing.
LEMMA BelowTyped ==
  ASSUME NEW l \in Look, NEW visited
  PROVE  Below(l, visited) \in Seq(Look)
<1>1. l.of \in Components /\ l.path \union {l.of} \in SUBSET Components /\ l.limit \in Nat
  BY DEF Look
<1>2. Reads(l.of, {}, Risk[l.of]) \in Seq(Look) /\ Reads(l.of, l.path \union {l.of}, l.limit) \in Seq(Look)
  BY <1>1, ReadsTyped, RegistryAssumption
<1>3. <<>> \in Seq(Look)
  OBVIOUS
<1> QED BY <1>2, <1>3 DEF Below, BelowSkill, BelowTool

\* The parts of a snapshot.
LEMMA ReadsForTyped == \A k : ReadsFor(k) \in Seq(Part)
<1>1. \A k \in {"prompt", "skill", "tool", "agent"} : <<"list", k>> \in Part /\ <<"revision", k>> \in Part
  BY DEF Part, Kinds
<1>2. PromptReads \in Seq(Part)
  BY <1>1 DEF PromptReads
<1>3. SkillReads \in Seq(Part)
  BY <1>1 DEF SkillReads
<1>4. AgentReads \in Seq(Part)
  BY <1>1 DEF AgentReads
<1> QED BY <1>2, <1>3, <1>4 DEF ReadsFor

\* A change of a component only takes it from what validations have not seen.
LEMMA NoticedTyped ==
  ASSUME NEW w \in [Clients -> Validation], NEW x, NEW s
  PROVE  Noticed(x, s, w) \in [Clients -> Validation]
<1>1. ASSUME NEW c \in Clients
      PROVE  [w[c] EXCEPT !.unseen = IF s \in w[c].allowed THEN @ \ {x} ELSE @] \in Validation
  <2> DEFINE U == IF s \in w[c].allowed THEN w[c].unseen \ {x} ELSE w[c].unseen
  <2>1. w[c] \in Validation
    OBVIOUS
  <2>2. U \in SUBSET Components
    BY <2>1 DEF Validation
  <2> HIDE DEF U
  <2>3. [w[c] EXCEPT !.unseen = U] \in Validation
    BY <2>1, <2>2 DEF Validation
  <2> QED BY <2>3 DEF U
<1> QED BY <1>1 DEF Noticed

\* Nothing else of a validation changes.
LEMMA NoticedFields ==
  ASSUME NEW w \in [Clients -> Validation], NEW x, NEW s, NEW c \in Clients
  PROVE  /\ Noticed(x, s, w)[c].at = w[c].at
         /\ Noticed(x, s, w)[c].op = w[c].op
         /\ Noticed(x, s, w)[c].target = w[c].target
         /\ Noticed(x, s, w)[c].to = w[c].to
         /\ Noticed(x, s, w)[c].allowed = w[c].allowed
         /\ Noticed(x, s, w)[c].todo = w[c].todo
         /\ Noticed(x, s, w)[c].visited = w[c].visited
BY DEF Noticed, Validation

\* What it has not seen only shrinks.
LEMMA NoticedUnseen ==
  ASSUME NEW w \in [Clients -> Validation], NEW x, NEW s, NEW c \in Clients
  PROVE  /\ Noticed(x, s, w)[c].unseen \subseteq w[c].unseen
         /\ s \in w[c].allowed => x \notin Noticed(x, s, w)[c].unseen
BY DEF Noticed, Validation

\* A validation that ends is one.
LEMMA EndedTyped ==
  ASSUME NEW w \in Validation, NEW a \in {"passed", "failed"}
  PROVE  [w EXCEPT !.at = a] \in Validation
BY DEF Validation

-----------------------------------------------------------------------------
(* Types and locks                                                           *)

\* A change along a path keeps the types.
LEMMA BecomeTyped ==
  ASSUME Types, NEW x \in Components, NEW path \in Seq(Lifecycle), Become(x, path)
  PROVE  /\ path[Len(path)] \in Lifecycle
         /\ status' \in [Components -> Statuses]
         /\ revision' \in [Kinds -> Nat]
         /\ events' \in [Kinds -> Seq(Event)]
<1>1. Len(path) \in Nat \ {0} /\ DOMAIN path = 1 .. Len(path) /\ \A i \in 1 .. Len(path) : path[i] \in Lifecycle
  BY DEF Become
<1>2. path[Len(path)] \in Lifecycle
  BY <1>1
<1>3. status' \in [Components -> Statuses]
  BY <1>2 DEF Become, Types, Statuses
<1>4. Kind[x] \in Kinds
  BY RegistryAssumption
<1>5. revision' \in [Kinds -> Nat]
  BY <1>1, <1>4 DEF Become, Changed, Types
<1> DEFINE more == [i \in DOMAIN path |-> [of |-> x, to |-> path[i]]]
<1>6. more \in Seq(Event)
  BY <1>1 DEF Event, Statuses
<1> HIDE DEF more
<1>7. events[Kind[x]] \o more \in Seq(Event)
  BY <1>4, <1>6 DEF Types
<1>8. events' = [events EXCEPT ![Kind[x]] = @ \o more]
  BY DEF Become, Changed, more
<1>9. events' \in [Kinds -> Seq(Event)]
  BY <1>4, <1>7, <1>8 DEF Types
<1> QED BY <1>2, <1>3, <1>5, <1>9

\* The end of a validation moves its component along one of the paths.
LEMMA FinishPath ==
  ASSUME Types, Locking, NEW c \in Clients, work[c].at = "reading"
  PROVE  PathOf(work[c]) \in Seq(Lifecycle)
<1>1. work[c].op = "register" => work[c].to \in Lifecycle
  BY DEF Locking, Holding
<1>2. <<>> \in Seq(Lifecycle)
  OBVIOUS
<1>3. work[c].op = "register" => <<work[c].to>> \in Seq(Lifecycle)
  BY <1>1
<1> QED BY <1>2, <1>3, PathsTyped DEF PathOf

\* What is registered stays so, and nothing is held by two.
LEMMA TypesKept ==
  ASSUME Types, Locking, RegistryAction
  PROVE  Types'
<1> USE RegistryAssumption DEF Types
<1>1. ASSUME NEW x \in Components, NEW path \in Seq(Lifecycle), OperatorMoves(x, path)
      PROVE  Types'
  <2>1. /\ Become(x, path) /\ work' = Noticed(x, path[Len(path)], work)
        /\ UNCHANGED <<scope, holder, snapshot>>
    BY <1>1 DEF OperatorMoves, Move
  <2>2. work' \in [Clients -> Validation]
    BY <2>1, NoticedTyped
  <2> QED BY <2>1, <2>2, BecomeTyped
<1>2. ASSUME NEW c \in Clients, NEW x \in Components, NEW op \in Operations, NEW to \in Statuses,
             NEW allowed \in SUBSET Lifecycle, Begins(c, op, x, to, allowed)
      PROVE  Types'
  <2>1. Reads(x, {}, Risk[x]) \in Seq(Look)
    BY ReadsTyped
  <2> DEFINE w == [at |-> "reading", op |-> op, target |-> x, to |-> to, allowed |-> allowed,
                   todo |-> Reads(x, {}, Risk[x]), visited |-> {},
                   unseen |-> {y \in Components : status[y] \notin allowed}]
  <2>2. w \in Validation
    BY <2>1 DEF Validation
  <2>3. work' = [work EXCEPT ![c] = w]
    BY <1>2 DEF Begins, Begin
  <2> HIDE DEF w
  <2>4. holder' = [holder EXCEPT ![Kind[x]] = c] /\ UNCHANGED <<scope, status, revision, events, snapshot>>
    BY <1>2 DEF Begins, Begin
  <2> QED BY <2>2, <2>3, <2>4
<1>3. ASSUME NEW c \in Clients, ReadNext(c)
      PROVE  Types'
  <2> DEFINE l == Head(work[c].todo)
  <2>1. work[c] \in Validation
    OBVIOUS
  <2>2. work[c].todo \in Seq(Look) /\ work[c].todo # <<>> /\ work[c].visited \in SUBSET Components
    BY <1>3, <2>1 DEF ReadNext, Validation
  <2>3. l \in Look /\ Tail(work[c].todo) \in Seq(Look)
    BY <2>2
  <2>4. l.of \in Components
    BY <2>3 DEF Look
  <2>5. /\ holder' \in {holder, [holder EXCEPT ![Kind[work[c].target]] = Free]}
        /\ UNCHANGED <<scope, status, revision, events, snapshot>>
    BY <1>3 DEF ReadNext
  <2> DEFINE todo == Below(l, work[c].visited) \o Tail(work[c].todo)
             visited == {l.of} \union IF l.path = {} THEN {} ELSE work[c].visited
  <2>6. \/ work' = [work EXCEPT ![c].todo = Tail(@)]
        \/ work' = [work EXCEPT ![c].at = "failed", ![c].todo = <<>>]
        \/ work' = [work EXCEPT ![c].todo = todo, ![c].visited = visited]
    BY <1>3 DEF ReadNext
  <2>7. todo \in Seq(Look) /\ visited \in SUBSET Components /\ <<>> \in Seq(Look)
    BY <2>2, <2>3, <2>4, BelowTyped
  <2> HIDE DEF todo, visited, l
  <2>8. /\ [work[c] EXCEPT !.todo = Tail(work[c].todo)] \in Validation
        /\ [work[c] EXCEPT !.at = "failed", !.todo = <<>>] \in Validation
        /\ [work[c] EXCEPT !.todo = todo, !.visited = visited] \in Validation
    BY <2>1, <2>3, <2>7 DEF Validation
  <2>10. \/ work' = [work EXCEPT ![c] = [work[c] EXCEPT !.todo = Tail(work[c].todo)]]
         \/ work' = [work EXCEPT ![c] = [work[c] EXCEPT !.at = "failed", !.todo = <<>>]]
         \/ work' = [work EXCEPT ![c] = [work[c] EXCEPT !.todo = todo, !.visited = visited]]
    BY <2>6
  <2>11. work' \in [Clients -> Validation]
    BY <2>8, <2>10
  <2>9. holder' \in [{"skill", "agent"} -> Clients \union {Free}]
    BY <2>5
  <2> QED BY <2>5, <2>9, <2>11
<1>4. ASSUME NEW c \in Clients, Finish(c)
      PROVE  Types'
  <2> DEFINE w == work[c]
  <2>1. w \in Validation /\ w.at = "reading" /\ w.target \in Components /\ PathOf(w) \in Seq(Lifecycle)
    BY <1>4, FinishPath DEF Finish, Locking, Holding
  <2>2. /\ holder' = [holder EXCEPT ![Kind[w.target]] = Free]
        /\ UNCHANGED <<scope, snapshot>>
    BY <1>4 DEF Finish
  <2>3. \/ /\ Become(w.target, PathOf(w))
           /\ work' = [Noticed(w.target, status'[w.target], work) EXCEPT ![c].at = "passed"]
        \/ /\ \E a \in {"passed", "failed"} : work' = [work EXCEPT ![c].at = a]
           /\ UNCHANGED <<status, revision, events>>
    BY <1>4 DEF Finish
  <2>4. CASE Become(w.target, PathOf(w))
             /\ work' = [Noticed(w.target, status'[w.target], work) EXCEPT ![c].at = "passed"]
    <3>1. Noticed(w.target, status'[w.target], work) \in [Clients -> Validation]
      BY NoticedTyped
    <3> DEFINE n == Noticed(w.target, status'[w.target], work)
    <3>2. n \in [Clients -> Validation] /\ work' = [n EXCEPT ![c].at = "passed"]
      BY <2>4, <3>1
    <3> HIDE DEF n
    <3>3. [n[c] EXCEPT !.at = "passed"] \in Validation
      BY <3>2, EndedTyped
    <3>4. work' \in [Clients -> Validation]
      BY <3>2, <3>3
    <3> QED BY <2>1, <2>2, <2>4, <3>4, BecomeTyped
  <2>5. CASE (\E a \in {"passed", "failed"} : work' = [work EXCEPT ![c].at = a])
             /\ UNCHANGED <<status, revision, events>>
    <3>1. \A a \in {"passed", "failed"} : [work[c] EXCEPT !.at = a] \in Validation
      BY EndedTyped
    <3>3. PICK a \in {"passed", "failed"} : work' = [work EXCEPT ![c].at = a]
      BY <2>5
    <3>4. work' = [work EXCEPT ![c] = [work[c] EXCEPT !.at = a]]
      BY <3>3
    <3>2. work' \in [Clients -> Validation]
      BY <3>1, <3>4
    <3> QED BY <2>1, <2>2, <2>5, <3>2
  <2> QED BY <2>3, <2>4, <2>5
<1>5. ASSUME NEW c \in Clients, ClientMoves(c)
      PROVE  Types'
  <2>1. Idle \in Validation
    BY DEF Idle, Validation, Operations, Statuses
  <2>2. work' \in [Clients -> Validation]
    BY <1>5, <2>1 DEF ClientMoves, Lets, Done
  <2>3. <<>> \in Contents /\ <<>> \in Revisions /\ <<>> \in Seq(Part)
    <3>1. <<>> \in [{} -> SUBSET (Components \X Statuses)] /\ <<>> \in [{} -> Nat]
      OBVIOUS
    <3>2. {} \in SUBSET Kinds
      OBVIOUS
    <3>3. <<>> \in Contents
      BY <3>1, <3>2 DEF Contents
    <3>4. <<>> \in Revisions
      BY <3>1, <3>2 DEF Revisions
    <3> QED BY <3>3, <3>4
  <2>4. NoSnapshot \in SnapshotRecord
    BY <2>3 DEF NoSnapshot, SnapshotRecord
  <2>5. \A k \in {"prompt", "skill", "agent"}, full \in BOOLEAN,
           overrides \in SUBSET (Components \X Lifecycle) : Reading(k, full, overrides) \in SnapshotRecord
    <3> TAKE k \in {"prompt", "skill", "agent"}, full \in BOOLEAN,
             overrides \in SUBSET (Components \X Lifecycle)
    <3>1. ReadsFor(k) \in Seq(Part)
      BY ReadsForTyped
    <3> QED BY <2>4, <3>1 DEF SnapshotRecord, Reading
  <2>6. \E r \in SnapshotRecord : snapshot' \in {snapshot, [snapshot EXCEPT ![c] = r]}
    BY <1>5, <2>4, <2>5 DEF ClientMoves, SnapshotMoves
  <2>7. snapshot' \in [Clients -> SnapshotRecord]
    BY <2>6
  <2> QED BY <1>5, <2>2, <2>7 DEF ClientMoves
<1>6. ASSUME NEW c \in Clients, ReadPart(c)
      PROVE  Types'
  <2> DEFINE s == snapshot[c]
             k == Head(s.todo)[2]
             listed == [s EXCEPT !.todo = Tail(@), !.contents = Extend(@, k, Listed(k, s, status))]
             revised == [s EXCEPT !.todo = Tail(@), !.revisions = Extend(@, k, revision[k])]
  <2>1. s \in SnapshotRecord /\ s.todo \in Seq(Part) /\ s.todo # <<>>
    BY <1>6 DEF ReadPart, SnapshotRecord
  <2>2. Tail(s.todo) \in Seq(Part) /\ k \in Kinds
    <3>1. Tail(s.todo) \in Seq(Part) /\ Head(s.todo) \in Part
      BY <2>1
    <3> QED BY <3>1 DEF Part
  <2>3. Listed(k, s, status) \in SUBSET (Components \X Statuses)
    <3>1. s.overrides \in SUBSET (Components \X Statuses)
      BY <2>1 DEF SnapshotRecord, Statuses
    <3> QED BY <3>1 DEF Listed, OfKind
  <2>4. Extend(s.contents, k, Listed(k, s, status)) \in Contents
    <3>1. PICK K \in SUBSET Kinds : s.contents \in [K -> SUBSET (Components \X Statuses)]
      BY <2>1 DEF SnapshotRecord, Contents
    <3>2. Extend(s.contents, k, Listed(k, s, status)) \in [K \union {k} -> SUBSET (Components \X Statuses)]
      BY <2>3, <3>1 DEF Extend
    <3> QED BY <2>2, <3>2 DEF Contents
  <2>5. Extend(s.revisions, k, revision[k]) \in Revisions
    <3>1. PICK K \in SUBSET Kinds : s.revisions \in [K -> Nat]
      BY <2>1 DEF SnapshotRecord, Revisions
    <3>2. Extend(s.revisions, k, revision[k]) \in [K \union {k} -> Nat]
      BY <2>2, <3>1 DEF Extend
    <3> QED BY <2>2, <3>2 DEF Revisions
  <2>6. listed \in SnapshotRecord /\ revised \in SnapshotRecord
    <3>1. \A q \in SnapshotRecord, d \in Seq(Part), C \in Contents :
            [q EXCEPT !.todo = d, !.contents = C] \in SnapshotRecord
      BY DEF SnapshotRecord
    <3>2. \A q \in SnapshotRecord, d \in Seq(Part), R \in Revisions :
            [q EXCEPT !.todo = d, !.revisions = R] \in SnapshotRecord
      BY DEF SnapshotRecord
    <3>3. /\ listed = [s EXCEPT !.todo = Tail(s.todo),
                                !.contents = Extend(s.contents, k, Listed(k, s, status))]
          /\ revised = [s EXCEPT !.todo = Tail(s.todo), !.revisions = Extend(s.revisions, k, revision[k])]
      OBVIOUS
    <3> HIDE DEF s, k, listed, revised
    <3> QED BY <2>1, <2>2, <2>4, <2>5, <3>1, <3>2, <3>3
  <2>7. /\ \E r \in {listed, revised} : snapshot' = [snapshot EXCEPT ![c] = r]
        /\ UNCHANGED <<scope, status, revision, events, holder, work>>
    BY <1>6 DEF ReadPart
  <2> HIDE DEF listed, revised
  <2> QED BY <2>6, <2>7
<1>7. ASSUME NEW c \in Clients, RecordSnapshot(c)
      PROVE  Types'
  <2>1. snapshot[c] \in SnapshotRecord /\ snapshot[c].of \in {"none", "prompt", "skill", "agent"}
    BY DEF SnapshotRecord
  <2>2. [of |-> Absent, to |-> Absent] \in Event
    BY DEF Event, Statuses
  <2> DEFINE k == snapshot[c].of
             e == [of |-> Absent, to |-> Absent]
  <2>5. events' = [events EXCEPT ![k] = Append(@, e)]
    BY <1>7 DEF RecordSnapshot
  <2>6. k \in Kinds => Append(events[k], e) \in Seq(Event)
    BY <2>2
  <2> HIDE DEF k, e
  <2>3. events' \in [Kinds -> Seq(Event)]
    BY <2>5, <2>6
  <2>4. snapshot' \in [Clients -> SnapshotRecord]
    BY <1>7, <2>1 DEF RecordSnapshot, SnapshotRecord
  <2> QED BY <1>7, <2>3, <2>4 DEF RecordSnapshot
<1> QED BY <1>1, <1>2, <1>3, <1>4, <1>5, <1>6, <1>7 DEF RegistryAction, ClientAction, registryVars

\* A lock passes to a validation only while it is free, and is given up only by its
\* holder, so no component that is being validated changes.
LEMMA LockingKept ==
  ASSUME Types, Locking, RegistryAction
  PROVE  Locking'
<1> SUFFICES ASSUME NEW d \in Clients
             PROVE  Holding(d)'
  BY DEF Locking
<1>a. /\ Holding(d)
      /\ Free \notin Clients
      /\ status \in [Components -> Statuses] /\ work \in [Clients -> Validation]
      /\ holder \in [{"skill", "agent"} -> Clients \union {Free}]
  BY RegistryAssumption DEF Locking, Types
<1>1. ASSUME NEW x \in Components, NEW path \in Seq(Lifecycle), OperatorMoves(x, path)
      PROVE  Holding(d)'
  <2>1. /\ work' = Noticed(x, path[Len(path)], work) /\ holder' = holder
        /\ \E s : status' = [status EXCEPT ![x] = s]
        /\ Kind[x] \in {"skill", "agent"} => holder[Kind[x]] = Free
    BY <1>1 DEF OperatorMoves, Move, Become
  <2>2. /\ work'[d].at = work[d].at /\ work'[d].target = work[d].target
        /\ work'[d].op = work[d].op /\ work'[d].to = work[d].to
    <3> DEFINE n == Noticed(x, path[Len(path)], work)
    <3>1. n[d].at = work[d].at /\ n[d].target = work[d].target /\ n[d].op = work[d].op /\ n[d].to = work[d].to
      BY <1>a, NoticedFields
    <3> QED BY <2>1, <3>1
  <2> QED BY <1>a, <2>1, <2>2 DEF Holding
<1>2. ASSUME NEW c \in Clients, NEW x \in Components, NEW op \in Operations, NEW to \in Statuses,
             NEW allowed \in SUBSET Lifecycle, Begins(c, op, x, to, allowed)
      PROVE  Holding(d)'
  <2>1. /\ holder[Kind[x]] = Free /\ holder' = [holder EXCEPT ![Kind[x]] = c] /\ status' = status
        /\ Kind[x] \in {"skill", "agent"}
        /\ op = "register" => status[x] = Absent /\ to \in Lifecycle
    BY <1>2 DEF Begins, Begin
  <2>2. /\ d # c => work'[d] = work[d]
        /\ work'[c].at = "reading" /\ work'[c].op = op /\ work'[c].target = x /\ work'[c].to = to
    BY <1>2, <1>a DEF Begins, Begin
  <2>3. CASE d = c
    BY <1>a, <2>1, <2>2, <2>3 DEF Holding
  <2>4. CASE d # c
    BY <1>a, <2>1, <2>2, <2>4 DEF Holding
  <2> QED BY <2>3, <2>4
<1>3. ASSUME NEW c \in Clients, ReadNext(c)
      PROVE  Holding(d)'
  <2>1. /\ work[c].at = "reading" /\ status' = status
        /\ holder' = holder \/ (work'[c].at = "failed" /\ holder' = [holder EXCEPT ![Kind[work[c].target]] = Free])
        /\ d # c => work'[d] = work[d]
        /\ work'[c].target = work[c].target /\ work'[c].op = work[c].op /\ work'[c].to = work[c].to
    <3>1. /\ work[c].at = "reading" /\ status' = status
          /\ \E todo, visited :
               \/ work' = [work EXCEPT ![c].todo = todo] /\ holder' = holder
               \/ /\ work' = [work EXCEPT ![c].at = "failed", ![c].todo = todo]
                  /\ holder' = [holder EXCEPT ![Kind[work[c].target]] = Free]
               \/ work' = [work EXCEPT ![c].todo = todo, ![c].visited = visited] /\ holder' = holder
      BY <1>3 DEF ReadNext
    <3>2. work[c] \in Validation
      BY <1>a
    <3> QED BY <1>a, <3>1, <3>2 DEF Validation
  <2>2. Holding(c)
    BY DEF Locking
  <2>3. CASE d = c
    BY <1>a, <2>1, <2>3 DEF Holding
  <2>4. CASE d # c
    BY <1>a, <2>1, <2>2, <2>4 DEF Holding
  <2> QED BY <2>3, <2>4
<1>4. ASSUME NEW c \in Clients, Finish(c)
      PROVE  Holding(d)'
  <2>1. /\ work[c].at = "reading" /\ holder' = [holder EXCEPT ![Kind[work[c].target]] = Free]
        /\ status' = status \/ \E s : status' = [status EXCEPT ![work[c].target] = s]
    BY <1>4 DEF Finish, Become
  <2>2. Holding(c) /\ work[c].target \in Components
    BY <2>1 DEF Locking, Holding
  <2>3. CASE d = c
    <3>1. work'[c].at \in {"passed", "failed"}
      <4>1. CASE work' = [Noticed(work[c].target, status'[work[c].target], work) EXCEPT ![c].at = "passed"]
        <5>1. Noticed(work[c].target, status'[work[c].target], work) \in [Clients -> Validation]
          BY <1>a, NoticedTyped
        <5> QED BY <4>1, <5>1 DEF Validation
      <4>2. CASE \E a \in {"passed", "failed"} : work' = [work EXCEPT ![c].at = a]
        BY <1>a, <4>2 DEF Validation
      <4> QED BY <1>4, <4>1, <4>2 DEF Finish
    <3> QED BY <2>3, <3>1 DEF Holding
  <2>4. CASE d # c
    <3>1. /\ work'[d].at = work[d].at /\ work'[d].target = work[d].target
          /\ work'[d].op = work[d].op /\ work'[d].to = work[d].to
      <4> DEFINE n == Noticed(work[c].target, status'[work[c].target], work)
      <4>1. /\ n[d].at = work[d].at /\ n[d].target = work[d].target
            /\ n[d].op = work[d].op /\ n[d].to = work[d].to
            /\ n \in [Clients -> Validation]
        <5> HIDE DEF n
        <5>1. n = Noticed(work[c].target, status'[work[c].target], work)
          BY DEF n
        <5> QED BY <1>a, <5>1, NoticedFields, NoticedTyped
      <4>2. \/ work' = [n EXCEPT ![c].at = "passed"]
            \/ \E a \in {"passed", "failed"} : work' = [work EXCEPT ![c].at = a]
        BY <1>4 DEF Finish
      <4> HIDE DEF n
      <4> QED BY <1>a, <2>4, <4>1, <4>2
    <3>2. Holding(d) /\ Holding(c)
      BY DEF Locking
    <3> QED BY <1>a, <2>1, <2>2, <2>4, <3>1, <3>2 DEF Holding
  <2> QED BY <2>3, <2>4
<1>5. ASSUME NEW c \in Clients, ClientMoves(c)
      PROVE  Holding(d)'
  <2>1. work'[d] = work[d] \/ work'[d].at = "idle"
    BY <1>5, <1>a DEF ClientMoves, Lets, Done, Idle
  <2>2. UNCHANGED <<status, holder>>
    BY <1>5 DEF ClientMoves
  <2> QED BY <1>a, <2>1, <2>2 DEF Holding
<1>6. ASSUME UNCHANGED <<status, holder, work>>
      PROVE  Holding(d)'
  BY <1>a, <1>6 DEF Holding
<1>7. ASSUME NEW c \in Clients, ReadPart(c) \/ RecordSnapshot(c)
      PROVE  UNCHANGED <<status, holder, work>>
  BY <1>7 DEF ReadPart, RecordSnapshot
<1> QED BY <1>1, <1>2, <1>3, <1>4, <1>5, <1>6, <1>7 DEF RegistryAction, ClientAction, registryVars

-----------------------------------------------------------------------------
(* Validations                                                               *)

\* Required by what was looked at, z was looked at itself or still is on the list.
Covered(w, E, z) == z \in E \/ \E i \in DOMAIN w.todo : w.todo[i].of = z /\ ~ w.todo[i].optional

\* E: what validation w has looked at and gone below, whatever root it was met under.
Walked(w, E) ==
  /\ w.visited \subseteq E /\ E \cap w.unseen = {}
  /\ \A y \in E : Kind[y] # "agent"
  /\ \A i \in DOMAIN w.todo : Kind[w.todo[i].of] # "agent"
  /\ \A y \in E \union {w.target} : \A z \in RequiredRefs(y) : Covered(w, E, z)

Walking(w) ==
  /\ w.at = "reading" => \E E \in SUBSET Components : Walked(w, E)
  /\ w.at = "passed" => Required(w.target) \cap w.unseen = {}

\* What has an accepted status is seen.
Sees(w, of) == \A y \in Components : of[y] \in w.allowed => y \notin w.unseen

Validations == \A c \in Clients : Walking(work[c]) /\ Sees(work[c], status)

\* Agents are not referred to, and only skills and tools refer to anything below.
LEMMA ReferredKinds ==
  ASSUME NEW x \in Components, NEW i \in DOMAIN Refs[x]
  PROVE  /\ Refs[x][i].of \in Components /\ Kind[Refs[x][i].of] # "agent"
         /\ Kind[x] \in {"agent", "skill", "tool"}
<1>1. Refs[x] \in Seq(Reference) /\ Kind[x] \in Kinds /\ Kind[Refs[x][i].of] \in RefersTo[Kind[x]]
  BY RegistryAssumption
<1>2. Refs[x][i] \in Reference
  BY <1>1
<1> QED BY <1>1, <1>2 DEF Reference, RefersTo, Kinds

\* A list on which no agent is, and on which everything is that component x requires.
ReadsAll(r, x) ==
  /\ \A i \in 1 .. Len(r) : Kind[r[i].of] # "agent"
  /\ \A z \in RequiredRefs(x) : \E i \in 1 .. Len(r) : r[i].of = z /\ ~ r[i].optional

\* What a validation puts on its list covers what the component requires.
LEMMA ReadsCover ==
  ASSUME NEW x \in Components, NEW path \in SUBSET Components, NEW limit \in Nat
  PROVE  ReadsAll(Reads(x, path, limit), x)
<1> DEFINE r == Reads(x, path, limit)
<1>1. DOMAIN Refs[x] = 1 .. Len(Refs[x])
  BY RegistryAssumption
<1>2. \A i \in 1 .. Len(Refs[x]) : Kind[Refs[x][i].of] # "agent"
  BY <1>1, ReferredKinds
<1>3. /\ Len(r) = Len(Refs[x])
      /\ \A i \in 1 .. Len(Refs[x]) : r[i].of = Refs[x][i].of /\ r[i].optional = Refs[x][i].optional
  BY ReadsTyped
<1> HIDE DEF r
<1>4. ReadsAll(r, x)
  BY <1>1, <1>2, <1>3 DEF RequiredRefs, ReadsAll
<1> QED BY <1>4 DEF r

\* An optional component that is not usable is passed over.
LEMMA SkipWalks ==
  ASSUME NEW w \in Validation, NEW E, Walked(w, E), w.todo # <<>>, Head(w.todo).optional
  PROVE  Walked([w EXCEPT !.todo = Tail(w.todo)], E)
<1> DEFINE v == [w EXCEPT !.todo = Tail(w.todo)]
<1>1. /\ w.todo \in Seq(Look) /\ v.todo = Tail(w.todo) /\ v.visited = w.visited /\ v.unseen = w.unseen
      /\ v.target = w.target
  BY DEF Validation
<1> HIDE DEF v
<1>2. /\ DOMAIN w.todo = 1 .. Len(w.todo) /\ DOMAIN v.todo = 1 .. (Len(w.todo) - 1) /\ Len(w.todo) \in Nat \ {0}
      /\ \A i \in DOMAIN v.todo : v.todo[i] = w.todo[i + 1]
      /\ Head(w.todo) = w.todo[1]
  BY <1>1
<1>3. \A i \in DOMAIN w.todo : ~ w.todo[i].optional => i - 1 \in DOMAIN v.todo /\ v.todo[i - 1] = w.todo[i]
  BY <1>2
<1>4. \A z : Covered(w, E, z) => Covered(v, E, z)
  BY <1>3 DEF Covered
<1>5. \A i \in DOMAIN v.todo : Kind[v.todo[i].of] # "agent"
  <2>1. \A i \in DOMAIN w.todo : Kind[w.todo[i].of] # "agent"
    BY DEF Walked
  <2>2. \A i \in DOMAIN v.todo : i + 1 \in DOMAIN w.todo
    BY <1>2
  <2> QED BY <1>2, <2>1, <2>2
<1>6. Walked(v, E)
  BY <1>1, <1>4, <1>5 DEF Walked
<1> QED BY <1>6 DEF v

\* What was required of a component is on the list, or it was looked at before.
LEMMA BelowCovers ==
  ASSUME NEW l \in Look, NEW visited, Kind[l.of] # "agent"
  PROVE  /\ \A i \in 1 .. Len(Below(l, visited)) : Kind[Below(l, visited)[i].of] # "agent"
         /\ l.of \in visited \/ ReadsAll(Below(l, visited), l.of)
<1>1. l.of \in Components /\ l.path \union {l.of} \in SUBSET Components /\ l.limit \in Nat
      /\ Risk[l.of] \in Nat /\ {} \in SUBSET Components
  BY RegistryAssumption DEF Look
<1>2. CASE l.path # {} /\ l.of \in visited
  BY <1>2 DEF Below
<1>3. CASE ~ (l.path # {} /\ l.of \in visited) /\ Kind[l.of] = "skill"
  <2>1. Below(l, visited) = Reads(l.of, {}, Risk[l.of])
    BY <1>3 DEF Below, BelowSkill
  <2>2. ReadsAll(Reads(l.of, {}, Risk[l.of]), l.of)
    BY <1>1, ReadsCover
  <2> QED BY <2>1, <2>2 DEF ReadsAll
<1>4. CASE ~ (l.path # {} /\ l.of \in visited) /\ Kind[l.of] = "tool"
  <2>1. Below(l, visited) = Reads(l.of, l.path \union {l.of}, l.limit)
    BY <1>4 DEF Below, BelowTool
  <2>2. ReadsAll(Reads(l.of, l.path \union {l.of}, l.limit), l.of)
    BY <1>1, ReadsCover
  <2> QED BY <2>1, <2>2 DEF ReadsAll
<1>5. CASE ~ (l.path # {} /\ l.of \in visited) /\ Kind[l.of] \notin {"skill", "tool"}
  <2>1. RequiredRefs(l.of) = {}
    BY <1>1, <1>5, ReferredKinds DEF RequiredRefs
  <2>2. Below(l, visited) = <<>>
    BY <1>5 DEF Below
  <2> QED BY <2>1, <2>2 DEF ReadsAll
<1> QED BY <1>2, <1>3, <1>4, <1>5

\* A component that is accepted is looked at, and gone below.
LEMMA ReadWalks ==
  ASSUME NEW w \in Validation, NEW E, Walked(w, E), w.todo # <<>>, Head(w.todo).of \notin w.unseen,
         NEW V, V \subseteq {Head(w.todo).of} \union w.visited
  PROVE  Walked([w EXCEPT !.todo = Below(Head(w.todo), w.visited) \o Tail(w.todo), !.visited = V],
                E \union {Head(w.todo).of})
<1> DEFINE l == Head(w.todo)
           more == Below(l, w.visited)
           v == [w EXCEPT !.todo = more \o Tail(w.todo), !.visited = V]
           F == E \union {l.of}
<1>1. /\ w.todo \in Seq(Look) /\ v.todo = more \o Tail(w.todo) /\ v.visited = V /\ v.unseen = w.unseen
      /\ v.target = w.target
  BY DEF Validation
<1>2. /\ DOMAIN w.todo = 1 .. Len(w.todo) /\ Len(w.todo) \in Nat \ {0} /\ l = w.todo[1] /\ l \in Look
      /\ Tail(w.todo) \in Seq(Look) /\ Len(Tail(w.todo)) = Len(w.todo) - 1
      /\ \A i \in 1 .. Len(w.todo) - 1 : Tail(w.todo)[i] = w.todo[i + 1]
  BY <1>1
<1>3. more \in Seq(Look) /\ Kind[l.of] # "agent"
  BY <1>2, BelowTyped DEF Walked
<1>4. /\ \A i \in 1 .. Len(more) : Kind[more[i].of] # "agent"
      /\ l.of \in w.visited \/ ReadsAll(more, l.of)
  BY <1>2, <1>3, BelowCovers
<1> HIDE DEF l, more, v
<1> DEFINE n == Len(more)
           m == Len(w.todo) - 1
<1>5. /\ n \in Nat /\ m \in Nat /\ DOMAIN v.todo = 1 .. n + m
      /\ \A i \in 1 .. n : v.todo[i] = more[i]
      /\ \A i \in 1 .. m : v.todo[n + i] = w.todo[i + 1]
  BY <1>1, <1>2, <1>3
<1>6. \A i \in DOMAIN v.todo : \/ i \in 1 .. n /\ v.todo[i] = more[i]
                               \/ i - n + 1 \in DOMAIN w.todo /\ v.todo[i] = w.todo[i - n + 1]
  <2>1. ASSUME NEW i \in DOMAIN v.todo
        PROVE  \/ i \in 1 .. n /\ v.todo[i] = more[i]
               \/ i - n + 1 \in DOMAIN w.todo /\ v.todo[i] = w.todo[i - n + 1]
    <3>1. i \in 1 .. n \/ i - n \in 1 .. m
      BY <1>5, <2>1
    <3>2. i = n + (i - n)
      BY <1>5, <2>1
    <3>3. ASSUME i - n \in 1 .. m
          PROVE  i - n + 1 \in DOMAIN w.todo /\ v.todo[i] = w.todo[i - n + 1]
      <4>1. i - n + 1 \in 1 .. Len(w.todo)
        BY <1>2, <3>3
      <4> HIDE DEF n, m
      <4> QED BY <1>2, <1>5, <3>2, <3>3, <4>1
    <3> QED BY <1>5, <3>1, <3>3
  <2> QED BY <2>1
<1>7. \A i \in DOMAIN v.todo : Kind[v.todo[i].of] # "agent"
  <2>1. \A i \in DOMAIN w.todo : Kind[w.todo[i].of] # "agent"
    BY DEF Walked
  <2> QED BY <1>4, <1>6, <2>1
<1>8. \A i \in DOMAIN w.todo : i = 1 \/ (n + i - 1 \in DOMAIN v.todo /\ v.todo[n + i - 1] = w.todo[i])
  <2>1. ASSUME NEW i \in DOMAIN w.todo, i # 1
        PROVE  n + i - 1 \in DOMAIN v.todo /\ v.todo[n + i - 1] = w.todo[i]
    <3>0. i \in 1 .. Len(w.todo) /\ Len(w.todo) \in Nat /\ n \in Nat
      BY <1>2, <1>5, <2>1
    <3> HIDE DEF n
    <3>1. i - 1 \in 1 .. m /\ n + (i - 1) = n + i - 1 /\ i - 1 + 1 = i /\ n + i - 1 \in 1 .. n + m
      BY ONLY <2>1, <3>0 DEF m
    <3> HIDE DEF n, m
    <3>2. v.todo[n + (i - 1)] = w.todo[i - 1 + 1]
      BY <1>5, <3>1
    <3> QED BY <1>5, <3>1, <3>2
  <2> QED BY <2>1
<1>9. \A z : Covered(w, E, z) => Covered(v, F, z)
  BY <1>2, <1>8 DEF Covered
<1>10. ASSUME NEW z \in RequiredRefs(l.of)
       PROVE  Covered(v, F, z)
  <2>1. CASE l.of \in w.visited
    BY <1>9, <2>1 DEF Walked
  <2>2. CASE \E i \in 1 .. n : more[i].of = z /\ ~ more[i].optional
    BY <1>5, <2>2 DEF Covered
  <2> QED BY <1>4, <1>10, <2>1, <2>2 DEF ReadsAll
<1>11. \A y \in F \union {v.target} : \A z \in RequiredRefs(y) : Covered(v, F, z)
  BY <1>1, <1>9, <1>10 DEF Walked
<1>12. v.visited \subseteq F /\ F \cap v.unseen = {} /\ \A y \in F : Kind[y] # "agent"
  BY <1>1, <1>3 DEF Walked, l
<1>13. Walked(v, F)
  BY <1>7, <1>11, <1>12 DEF Walked
<1> QED BY <1>13 DEF v, l, more

\* A walk that has come to its end has been everywhere.
LEMMA WalkedAll ==
  ASSUME NEW w \in Validation, w.target \in Components, NEW E \in SUBSET Components, Walked(w, E), w.todo = <<>>
  PROVE  Required(w.target) \cap w.unseen = {}
<1>1. \A y \in E \union {w.target} : RequiredRefs(y) \subseteq E
  BY DEF Walked, Covered
<1>2. Closes(E, w.target)
  BY <1>1 DEF Closes
<1>3. Required(w.target) \subseteq E
  BY <1>2 DEF Required, Requirements
<1> QED BY <1>3 DEF Walked

\* A validation that has not begun to read has all its references to read.
LEMMA BeginsWalk ==
  ASSUME NEW w \in Validation, w.target \in Components, w.todo = Reads(w.target, {}, Risk[w.target]),
         w.visited = {}
  PROVE  Walked(w, {})
<1>1. DOMAIN w.todo = 1 .. Len(w.todo) /\ Risk[w.target] \in Nat /\ {} \in SUBSET Components
  BY RegistryAssumption DEF Validation
<1>2. ReadsAll(w.todo, w.target)
  BY <1>1, ReadsCover
<1>3. /\ \A i \in DOMAIN w.todo : Kind[w.todo[i].of] # "agent"
      /\ \A z \in RequiredRefs(w.target) : Covered(w, {}, z)
  BY <1>1, <1>2 DEF Covered, ReadsAll
<1> QED BY <1>3 DEF Walked

\* Seeing more is no harm.
LEMMA WalkingShrinks ==
  ASSUME NEW w \in Validation, NEW v \in Validation, Walking(w),
         v.at = w.at, v.target = w.target, v.todo = w.todo, v.visited = w.visited,
         v.unseen \subseteq w.unseen
  PROVE  Walking(v)
<1>1. \A E, z : Covered(w, E, z) => Covered(v, E, z)
  BY DEF Covered
<1>2. \A E : Walked(w, E) => Walked(v, E)
  BY <1>1 DEF Walked
<1> QED BY <1>2 DEF Walking

\* What a change does to a validation, of whichever client.
LEMMA ChangeNoticed ==
  ASSUME Types, Validations, NEW x \in Components, NEW t, status' = [status EXCEPT ![x] = t],
         NEW d \in Clients
  PROVE  LET v == Noticed(x, t, work)[d] IN
         /\ v \in Validation /\ v.at = work[d].at /\ v.target = work[d].target /\ v.todo = work[d].todo
         /\ v.unseen \subseteq work[d].unseen
         /\ Walking(v) /\ Sees(v, status')
<1> DEFINE v == Noticed(x, t, work)[d]
<1>1. work \in [Clients -> Validation] /\ work[d] \in Validation /\ Walking(work[d]) /\ Sees(work[d], status)
  BY DEF Types, Validations
<1>2. v \in Validation
  BY <1>1, NoticedTyped
<1>3. /\ v.at = work[d].at /\ v.target = work[d].target /\ v.todo = work[d].todo
      /\ v.visited = work[d].visited /\ v.allowed = work[d].allowed
  BY <1>1, NoticedFields
<1>4. v.unseen \subseteq work[d].unseen /\ (t \in work[d].allowed => x \notin v.unseen)
  BY <1>1, NoticedUnseen
<1> HIDE DEF v
<1>5. v.unseen \subseteq work[d].unseen
  BY <1>4
<1>6. Walking(v)
  BY <1>1, <1>2, <1>3, <1>5, WalkingShrinks
<1>8. Sees(v, status')
  BY <1>1, <1>3, <1>4 DEF Sees, Types
<1> QED BY <1>2, <1>3, <1>5, <1>6, <1>8 DEF v

\* One more look keeps what the validation has walked.
LEMMA ReadNextWalks ==
  ASSUME Types, Validations, NEW c \in Clients, ReadNext(c)
  PROVE  \E w \in Validation :
           /\ work' = [work EXCEPT ![c] = w] /\ Walking(w)
           /\ w.allowed = work[c].allowed /\ w.unseen = work[c].unseen
           /\ w.op = work[c].op /\ w.target = work[c].target /\ w.to = work[c].to
           /\ w.at \in {"reading", "failed"}
<1> DEFINE v == work[c]
           l == Head(v.todo)
<1>1. v \in Validation /\ Walking(v) /\ Sees(v, status) /\ v.at = "reading" /\ v.todo # <<>>
  BY DEF Types, Validations, ReadNext
<1>2. PICK E \in SUBSET Components : Walked(v, E)
  BY <1>1 DEF Walking
<1>3. v.todo \in Seq(Look) /\ l \in Look /\ Tail(v.todo) \in Seq(Look) /\ <<>> \in Seq(Look)
      /\ v.visited \in SUBSET Components /\ l.of \in Components
  <2>1. v.todo \in Seq(Look) /\ v.visited \in SUBSET Components
    BY <1>1 DEF Validation
  <2>2. l \in Look /\ Tail(v.todo) \in Seq(Look) /\ <<>> \in Seq(Look)
    BY <1>1, <2>1
  <2> QED BY <2>1, <2>2 DEF Look
<1> DEFINE V == {l.of} \union IF l.path = {} THEN {} ELSE v.visited
           skipped == [v EXCEPT !.todo = Tail(v.todo)]
           failed == [v EXCEPT !.at = "failed", !.todo = <<>>]
           read == [v EXCEPT !.todo = Below(l, v.visited) \o Tail(v.todo), !.visited = V]
<1>4. CASE l.optional /\ status[l.of] \notin v.allowed
  <2>1. work' = [work EXCEPT ![c] = skipped]
    BY <1>4 DEF ReadNext
  <2>2. Walked(skipped, E)
    BY <1>1, <1>2, <1>4, SkipWalks
  <2>3. /\ skipped \in Validation /\ skipped.at = "reading"
        /\ skipped.allowed = v.allowed /\ skipped.unseen = v.unseen
        /\ skipped.op = v.op /\ skipped.target = v.target /\ skipped.to = v.to
    BY <1>1, <1>3 DEF Validation
  <2> HIDE DEF skipped
  <2>4. Walking(skipped)
    BY <2>2, <2>3 DEF Walking
  <2> QED BY <2>1, <2>3, <2>4
<1>5. CASE ~ (l.optional /\ status[l.of] \notin v.allowed) /\ Unacceptable(l, v.allowed)
  <2>1. work' = [work EXCEPT ![c] = failed]
    BY <1>5 DEF ReadNext
  <2>3. /\ failed \in Validation /\ failed.at = "failed"
        /\ failed.allowed = v.allowed /\ failed.unseen = v.unseen
        /\ failed.op = v.op /\ failed.target = v.target /\ failed.to = v.to
    BY <1>1, <1>3 DEF Validation
  <2> HIDE DEF failed
  <2>4. Walking(failed)
    BY <2>3 DEF Walking
  <2> QED BY <2>1, <2>3, <2>4
<1>6. CASE ~ (l.optional /\ status[l.of] \notin v.allowed) /\ ~ Unacceptable(l, v.allowed)
  <2>1. work' = [work EXCEPT ![c] = read]
    BY <1>6 DEF ReadNext
  <2>2. l.of \notin v.unseen
    BY <1>1, <1>3, <1>6 DEF Sees, Unacceptable
  <2>3. V \subseteq {l.of} \union v.visited /\ V \in SUBSET Components
    BY <1>3
  <2>4. Walked(read, E \union {l.of})
    BY <1>1, <1>2, <2>2, <2>3, ReadWalks
  <2>5. Below(l, v.visited) \o Tail(v.todo) \in Seq(Look)
    <3>1. Below(l, v.visited) \in Seq(Look)
      BY <1>3, BelowTyped
    <3> QED BY <1>3, <3>1
  <2> HIDE DEF V
  <2>6. /\ read \in Validation /\ read.at = "reading"
        /\ read.allowed = v.allowed /\ read.unseen = v.unseen
        /\ read.op = v.op /\ read.target = v.target /\ read.to = v.to
    BY <1>1, <2>3, <2>5 DEF Validation
  <2> HIDE DEF read
  <2>7. Walking(read)
    BY <1>2, <1>3, <2>4, <2>6 DEF Walking
  <2> QED BY <2>1, <2>6, <2>7
<1> QED BY <1>4, <1>5, <1>6

\* However the registries change while a validation walks, what it accepts is seen.
LEMMA ValidationsKept ==
  ASSUME Types, Locking, Validations, RegistryAction
  PROVE  Validations'
<1> SUFFICES ASSUME NEW d \in Clients
             PROVE  Walking(work'[d]) /\ Sees(work'[d], status')
  BY DEF Validations
<1>a. /\ work \in [Clients -> Validation] /\ work[d] \in Validation
      /\ Walking(work[d]) /\ Sees(work[d], status) /\ status \in [Components -> Statuses]
  BY DEF Types, Validations
<1>b. ASSUME work'[d] = work[d], status' = status
      PROVE  Walking(work'[d]) /\ Sees(work'[d], status')
  BY <1>a, <1>b DEF Sees
<1>1. ASSUME NEW x \in Components, NEW path \in Seq(Lifecycle), OperatorMoves(x, path)
      PROVE  Walking(work'[d]) /\ Sees(work'[d], status')
  <2>1. /\ work' = Noticed(x, path[Len(path)], work)
        /\ status' = [status EXCEPT ![x] = path[Len(path)]]
    BY <1>1 DEF OperatorMoves, Move, Become
  <2>2. Walking(Noticed(x, path[Len(path)], work)[d]) /\ Sees(Noticed(x, path[Len(path)], work)[d], status')
    BY <2>1, ChangeNoticed
  <2> QED BY <2>1, <2>2 DEF Sees
<1>2. ASSUME NEW c \in Clients, NEW x \in Components, NEW op \in Operations, NEW to \in Statuses,
             NEW allowed \in SUBSET Lifecycle, Begins(c, op, x, to, allowed)
      PROVE  Walking(work'[d]) /\ Sees(work'[d], status')
  <2> DEFINE w == [at |-> "reading", op |-> op, target |-> x, to |-> to, allowed |-> allowed,
                   todo |-> Reads(x, {}, Risk[x]), visited |-> {},
                   unseen |-> {y \in Components : status[y] \notin allowed}]
  <2>1. work' = [work EXCEPT ![c] = w] /\ status' = status
    BY <1>2 DEF Begins, Begin
  <2>2. Reads(x, {}, Risk[x]) \in Seq(Look)
    BY ReadsTyped, RegistryAssumption
  <2>3. w \in Validation
    BY <2>2 DEF Validation
  <2>4. /\ w.at = "reading" /\ w.target = x /\ w.todo = Reads(x, {}, Risk[x]) /\ w.visited = {}
        /\ \A y \in Components : status[y] \in w.allowed => y \notin w.unseen
    OBVIOUS
  <2> HIDE DEF w
  <2>5. Walked(w, {})
    BY <2>3, <2>4, BeginsWalk
  <2>6. Walking(w)
    BY <2>4, <2>5 DEF Walking
  <2>7. CASE d = c
    BY <1>a, <2>1, <2>4, <2>6, <2>7 DEF Sees
  <2>8. CASE d # c
    BY <1>a, <1>b, <2>1, <2>8
  <2> QED BY <2>7, <2>8
<1>3. ASSUME NEW c \in Clients, ReadNext(c)
      PROVE  Walking(work'[d]) /\ Sees(work'[d], status')
  <2>1. PICK w \in Validation :
          /\ work' = [work EXCEPT ![c] = w] /\ Walking(w)
          /\ w.allowed = work[c].allowed /\ w.unseen = work[c].unseen
    BY <1>3, ReadNextWalks
  <2>2. status' = status
    BY <1>3 DEF ReadNext
  <2>3. CASE d = c
    BY <1>a, <2>1, <2>2, <2>3 DEF Sees
  <2>4. CASE d # c
    BY <1>a, <1>b, <2>1, <2>2, <2>4
  <2> QED BY <2>3, <2>4
<1>4. ASSUME NEW c \in Clients, Finish(c)
      PROVE  Walking(work'[d]) /\ Sees(work'[d], status')
  <2> DEFINE w == work[c]
             n == Noticed(w.target, status'[w.target], work)
  <2>1. /\ w \in Validation /\ w.at = "reading" /\ w.todo = <<>> /\ w.target \in Components
        /\ Walking(w) /\ Sees(w, status)
    BY <1>4 DEF Finish, Locking, Holding, Types, Validations
  <2>2. Required(w.target) \cap w.unseen = {}
    BY <2>1, WalkedAll DEF Walking
  <2>3. CASE Become(w.target, PathOf(w)) /\ work' = [n EXCEPT ![c].at = "passed"]
    <3>1. status' = [status EXCEPT ![w.target] = status'[w.target]]
      BY <2>1, <2>3 DEF Become, Types
    <3>2. /\ n[d] \in Validation /\ n[d].at = work[d].at /\ n[d].target = work[d].target
          /\ n[d].unseen \subseteq work[d].unseen
          /\ Walking(n[d]) /\ Sees(n[d], status')
      BY <2>1, <3>1, ChangeNoticed
    <3>3. n \in [Clients -> Validation]
      BY <1>a, NoticedTyped
    <3> HIDE DEF n
    <3>4. CASE d = c
      <4>1. /\ work'[d].at = "passed" /\ work'[d].target = n[d].target /\ work'[d].unseen = n[d].unseen
            /\ work'[d].allowed = n[d].allowed
        BY <2>3, <3>2, <3>3, <3>4 DEF Validation
      <4> QED BY <2>2, <3>2, <3>4, <4>1 DEF Walking, Sees
    <3>5. CASE d # c
      BY <2>3, <3>2, <3>3, <3>5
    <3> QED BY <3>4, <3>5
  <2>4. CASE (\E a \in {"passed", "failed"} : work' = [work EXCEPT ![c].at = a]) /\ status' = status
    <3>1. CASE d = c
      <4>1. /\ work'[d].at \in {"passed", "failed"} /\ work'[d].target = w.target /\ work'[d].unseen = w.unseen
            /\ work'[d].allowed = w.allowed
        BY <1>a, <2>1, <2>4, <3>1 DEF Validation
      <4> QED BY <2>1, <2>2, <2>4, <4>1 DEF Walking, Sees
    <3>2. CASE d # c
      BY <1>a, <1>b, <2>4, <3>2
    <3> QED BY <3>1, <3>2
  <2> QED BY <1>4, <2>3, <2>4 DEF Finish
<1>5. ASSUME NEW c \in Clients, ClientMoves(c)
      PROVE  Walking(work'[d]) /\ Sees(work'[d], status')
  <2>1. status' = status /\ work'[d] \in {work[d], Idle}
    BY <1>5, <1>a DEF ClientMoves, Lets, Done
  <2>2. Walking(Idle) /\ Sees(Idle, status')
    BY DEF Walking, Sees, Idle
  <2>3. CASE work'[d] = Idle
    BY <2>2, <2>3 DEF Sees
  <2> QED BY <1>b, <2>1, <2>3
<1>6. ASSUME UNCHANGED <<status, work>>
      PROVE  Walking(work'[d]) /\ Sees(work'[d], status')
  BY <1>b, <1>6
<1>7. ASSUME NEW c \in Clients, ReadPart(c) \/ RecordSnapshot(c)
      PROVE  UNCHANGED <<status, work>>
  BY <1>7 DEF ReadPart, RecordSnapshot
<1> QED BY <1>1, <1>2, <1>3, <1>4, <1>5, <1>6, <1>7 DEF RegistryAction, ClientAction, registryVars

-----------------------------------------------------------------------------
(* Snapshots                                                                 *)

\* The log of each registry has a change for each revision, and leads to its state.
Logged ==
  \A k \in Kinds :
    /\ Changes(k, Len(events[k])) = revision[k]
    /\ After(k, Len(events[k])) = [x \in OfKind(k) |-> status[x]]

\* The parts read so far: the first p of those that the snapshot is to have.
ReadSoFar(s, p) ==
  LET r == ReadsFor(s.of) IN
  /\ Len(s.todo) = Len(r) - p
  /\ \A i \in 1 .. Len(r) - p : s.todo[i] = r[p + i]
  /\ \A k \in DOMAIN s.contents : \E i \in 1 .. p : r[i] = <<"list", k>>
  /\ \A k \in DOMAIN s.revisions : \E i \in 1 .. p : r[i] = <<"revision", k>>
  /\ \A i \in 1 .. p, k \in Kinds : r[i] = <<"revision", k>> => k \in DOMAIN s.revisions

\* Each list read is what its registry held once, before its revision was read.
Replayed(c, k) ==
  \E n \in 0 .. Len(events[k]) :
    /\ k \in DOMAIN snapshot[c].revisions => Changes(k, n) <= snapshot[c].revisions[k]
    /\ snapshot[c].contents[k] = Listed(k, snapshot[c], After(k, n))

Replays(c) ==
  snapshot[c].at # "idle" =>
    /\ snapshot[c].of # "none"
    /\ \E p \in 0 .. Len(ReadsFor(snapshot[c].of)) : ReadSoFar(snapshot[c], p)
    /\ snapshot[c].at = "taken" => snapshot[c].todo = <<>>
    /\ \A k \in DOMAIN snapshot[c].contents : Replayed(c, k)

Snapshots == \A c \in Clients : Replays(c)

\* Of every list that a snapshot has, the revision is read after it.
LEMMA ListsFirst ==
  ASSUME NEW of \in {"prompt", "skill", "agent"}, NEW k,
         NEW i \in 1 .. Len(ReadsFor(of)), ReadsFor(of)[i] = <<"list", k>>
  PROVE  /\ \A j \in 1 .. Len(ReadsFor(of)) : ReadsFor(of)[j] = <<"revision", k>> => i < j
         /\ \E j \in 1 .. Len(ReadsFor(of)) : ReadsFor(of)[j] = <<"revision", k>>
<1>1. CASE of = "prompt"
  BY <1>1 DEF ReadsFor, PromptReads
<1>2. CASE of = "skill"
  BY <1>2 DEF ReadsFor, SkillReads
<1>3. CASE of = "agent"
  BY <1>3 DEF ReadsFor, AgentReads
<1> QED BY <1>1, <1>2, <1>3

\* The changes among the first events are finitely many, and no more among fewer.
LEMMA ChangesCounted ==
  ASSUME NEW k, NEW n \in Nat, NEW m \in 0 .. n
  PROVE  Changes(k, n) \in Nat /\ Changes(k, m) \in Nat /\ Changes(k, m) <= Changes(k, n)
<1> DEFINE S(j) == {i \in 1 .. j : events[k][i].of # Absent}
<1>1. IsFiniteSet(1 .. n) /\ S(n) \in SUBSET (1 .. n)
  BY FS_Interval
<1>2. IsFiniteSet(S(n)) /\ S(m) \in SUBSET S(n)
  BY <1>1, FS_Subset
<1>3. IsFiniteSet(S(m)) /\ Cardinality(S(m)) <= Cardinality(S(n))
  BY <1>2, FS_Subset
<1>4. Cardinality(S(m)) \in Nat /\ Cardinality(S(n)) \in Nat
  BY <1>2, <1>3, FS_CardinalityType
<1> QED BY <1>3, <1>4 DEF Changes

\* The natural numbers are well ordered.
LEMMA LeastNatural ==
  ASSUME NEW T \in SUBSET Nat, T # {}
  PROVE  \E m \in T : \A y \in T : m <= y
<1> DEFINE R == {ss \in Nat \X Nat : ss[1] < ss[2]}
<1>1. IsWellFoundedOn(R, Nat)
  BY NatLessThanWellFounded DEF OpToRel
<1> HIDE DEF R
<1>2. PICK m \in T : \A y \in T : ~ (<<y, m>> \in R)
  BY <1>1, WFMin
<1>3. \A y \in T : ~ (y < m)
  BY <1>2 DEF R
<1> QED BY <1>3

\* What is bounded has a greatest element.
LEMMA MaxBounded ==
  ASSUME NEW n \in Nat, NEW S \in SUBSET (1 .. n), S # {}
  PROVE  Max(S) \in S /\ \A y \in S : y <= Max(S)
<1> DEFINE T == {n - i : i \in S}
<1>1. T \in SUBSET Nat /\ T # {}
  <2>1. \A i \in S : n - i \in Nat
    OBVIOUS
  <2> QED BY <2>1
<1>2. PICK m \in T : \A y \in T : m <= y
  BY <1>1, LeastNatural
<1>3. PICK i \in S : m = n - i
  BY <1>2
<1>4. \A y \in S : n - i <= n - y
  BY <1>2, <1>3
<1>5. \A y \in S : i >= y
  BY <1>4
<1>6. \E x \in S : \A y \in S : x >= y
  BY <1>5
<1> DEFINE M == Max(S)
<1>7. M = CHOOSE x \in S : \A y \in S : x >= y
  BY DEF Max
<1>8. M \in S /\ \A y \in S : M >= y
  BY <1>6, <1>7
<1> HIDE DEF M
<1>9. M \in Int /\ \A y \in S : y \in Int
  BY <1>8
<1> QED BY <1>8, <1>9 DEF M

\* What the log of a registry says of its past does not change when it gets longer.
LEMMA PastKept ==
  ASSUME NEW k, NEW L \in Nat, scope' = scope, \A i \in 1 .. L : events'[k][i] = events[k][i],
         NEW n \in 0 .. L
  PROVE  Changes(k, n)' = Changes(k, n) /\ After(k, n)' = After(k, n)
<1>1. \A i \in 1 .. n : i \in 1 .. L
  OBVIOUS
<1>2. {i \in 1 .. n : events'[k][i].of # Absent} = {i \in 1 .. n : events[k][i].of # Absent}
  BY <1>1
<1>3. ASSUME NEW x \in OfKind(k)
      PROVE  After(k, n)'[x] = After(k, n)[x]
  <2> DEFINE is == {i \in 1 .. n : events[k][i].of = x}
  <2>1. {i \in 1 .. n : events'[k][i].of = x} = is
    BY <1>1
  <2>2. is = {} \/ events'[k][Max(is)] = events[k][Max(is)]
    <3>1. n \in Nat /\ is \in SUBSET (1 .. n)
      OBVIOUS
    <3>2. is # {} => Max(is) \in is
      BY <3>1, MaxBounded
    <3> QED BY <1>1, <3>2
  <2> QED BY <2>1, <2>2 DEF After
<1>4. After(k, n)' = [x \in OfKind(k) |-> After(k, n)'[x]] /\ After(k, n) = [x \in OfKind(k) |-> After(k, n)[x]]
  BY DEF After
<1>5. After(k, n)' = After(k, n)
  BY <1>3, <1>4
<1> QED BY <1>2, <1>5 DEF Changes

\* What is added to a sequence comes after it.
LEMMA Concatenated ==
  ASSUME NEW S, NEW q \in Seq(S), NEW r \in Seq(S)
  PROVE  /\ Len(q \o r) = Len(q) + Len(r)
         /\ \A i \in 1 .. Len(q) : (q \o r)[i] = q[i]
         /\ \A i \in 1 .. Len(r) : (q \o r)[Len(q) + i] = r[i]
OBVIOUS

\* So many numbers come after another.
LEMMA NextOnes ==
  ASSUME NEW l \in Nat, NEW n \in Nat \ {0}
  PROVE  IsFiniteSet(l + 1 .. l + n) /\ Cardinality(l + 1 .. l + n) = n
<1> DEFINE a == l + 1
           b == l + n
<1>1. a \in Int /\ b \in Int /\ ~ (a > b) /\ b - a + 1 = n
  OBVIOUS
<1> HIDE DEF a, b
<1>2. IsFiniteSet(a .. b) /\ Cardinality(a .. b) = IF a > b THEN 0 ELSE b - a + 1
  BY <1>1, FS_Interval
<1>3. IsFiniteSet(a .. b) /\ Cardinality(a .. b) = n
  BY <1>1, <1>2
<1> QED BY <1>3 DEF a, b

\* What a change adds to a log, and where it leads.
LEMMA LogGrows ==
  ASSUME Types, Logged, scope' = scope, NEW x \in Components, NEW path \in Seq(Lifecycle), Become(x, path)
  PROVE  /\ Logged'
         /\ \A k \in Kinds : Len(events[k]) <= Len(events'[k])
         /\ \A k \in Kinds : \A i \in 1 .. Len(events[k]) : events'[k][i] = events[k][i]
<1> DEFINE K == Kind[x]
           L == Len(events[K])
           n == Len(path)
           more == [i \in DOMAIN path |-> [of |-> x, to |-> path[i]]]
<1>1. /\ n \in Nat \ {0} /\ L \in Nat /\ K \in Kinds /\ DOMAIN path = 1 .. n
      /\ events[K] \in Seq(Event) /\ more \in Seq(Event) /\ Len(more) = n
  <2>1. n \in Nat \ {0} /\ DOMAIN path = 1 .. n /\ \A i \in 1 .. n : path[i] \in Lifecycle
    BY DEF Become
  <2>2. more \in Seq(Event) /\ Len(more) = n
    BY <2>1 DEF Event, Statuses
  <2> QED BY <2>1, <2>2, RegistryAssumption DEF Types
<1>2. /\ events'[K] = events[K] \o more /\ \A k \in Kinds : k # K => events'[k] = events[k]
      /\ revision' = [revision EXCEPT ![K] = @ + n]
      /\ status' = [status EXCEPT ![x] = path[n]]
  BY <1>1 DEF Become, Changed, Types
<1>3. \A i \in 1 .. n : more[i].of = x /\ more[i].to = path[i]
  BY <1>1
<1> HIDE DEF more
<1>4. /\ Len(events'[K]) = L + n
      /\ \A i \in 1 .. L : events'[K][i] = events[K][i]
      /\ \A i \in 1 .. n : events'[K][L + i] = more[i]
  <2> DEFINE q == events[K]
  <2>1. q \in Seq(Event) /\ more \in Seq(Event) /\ Len(more) = n /\ Len(q) = L /\ events'[K] = q \o more
    BY <1>1, <1>2
  <2>3. \A i \in 1 .. L : q[i] = events[K][i]
    OBVIOUS
  <2> HIDE DEF q, L, n, K
  <2>4. q \in Seq(Event) /\ more \in Seq(Event)
    BY <2>1
  <2>2. /\ Len(q \o more) = Len(q) + Len(more)
        /\ \A i \in 1 .. Len(q) : (q \o more)[i] = q[i]
        /\ \A i \in 1 .. Len(more) : (q \o more)[Len(q) + i] = more[i]
    BY ONLY <2>4, Concatenated
  <2> QED BY <2>1, <2>2, <2>3
<1>5. \A i \in L + 1 .. L + n : events'[K][i].of = x
  <2>1. ASSUME NEW i \in L + 1 .. L + n
        PROVE  events'[K][i].of = x
    <3>1. i - L \in 1 .. n /\ L + (i - L) = i
      BY <1>1, <2>1
    <3> HIDE DEF L, n, K
    <3> QED BY <1>3, <1>4, <3>1
  <2> QED BY <2>1
<1>6. events'[K][L + n].of = x /\ events'[K][L + n].to = path[n]
  <2>1. n \in 1 .. n
    BY <1>1
  <2> HIDE DEF L, n, K
  <2> QED BY <1>3, <1>4, <2>1
<1>7. \A k \in Kinds : Len(events[k]) \in Nat
  BY DEF Types
<1>8. \A k \in Kinds : Len(events[k]) <= Len(events'[k])
  BY <1>1, <1>2, <1>4, <1>7
<1>9. \A k \in Kinds : \A i \in 1 .. Len(events[k]) : events'[k][i] = events[k][i]
  BY <1>2, <1>4
<1>10. ASSUME NEW k \in Kinds, k # K
       PROVE  /\ Changes(k, Len(events[k]))' = revision'[k]
              /\ After(k, Len(events[k]))' = [y \in OfKind(k) |-> status'[y]]
  <2>1. /\ Changes(k, Len(events[k])) = revision[k]
        /\ After(k, Len(events[k])) = [y \in OfKind(k) |-> status[y]]
    BY DEF Logged
  <2>2. events'[k] = events[k] /\ revision'[k] = revision[k]
    BY <1>2, <1>10 DEF Types
  <2>3. Changes(k, Len(events[k]))' = revision[k]
    BY <2>1, <2>2 DEF Changes
  <2>4. After(k, Len(events[k]))' = After(k, Len(events[k]))
    BY <2>2 DEF After
  <2>5. \A y \in OfKind(k) : status'[y] = status[y]
    BY <1>2, <1>10 DEF OfKind, Types
  <2> QED BY <2>1, <2>2, <2>3, <2>4, <2>5
<1>11. Changes(K, Len(events[K]))' = revision'[K]
  <2> DEFINE E == {i \in 1 .. L : events[K][i].of # Absent}
             F == L + 1 .. L + n
             G == {i \in 1 .. L + n : events'[K][i].of # Absent}
  <2>1. x # Absent
    BY RegistryAssumption
  <2>2. \A i \in 1 .. L + n : i \in 1 .. L \/ i \in F
    BY <1>1
  <2>3. \A i \in F : i \in 1 .. L + n /\ i \notin 1 .. L
    BY <1>1
  <2>4. \A i \in 1 .. L : i \in 1 .. L + n
    BY <1>1
  <2>5. G = E \union F /\ E \cap F = {}
    <3>1. ASSUME NEW i \in 1 .. L + n
          PROVE  events'[K][i].of # Absent <=> i \in E \/ i \in F
      <4>1. CASE i \in 1 .. L
        BY <1>4, <2>3, <4>1
      <4>2. CASE i \in F
        BY <1>5, <2>1, <4>2
      <4> QED BY <2>2, <4>1, <4>2
    <3>2. \A i \in E : i \in 1 .. L + n
      BY <2>4
    <3>3. \A i \in F : i \in 1 .. L + n
      BY <2>3
    <3>4. E \cap F = {}
      BY <2>3
    <3> HIDE DEF E, F, K, L, n
    <3>5. \A i : i \in G <=> i \in E \/ i \in F
      BY <3>1, <3>2, <3>3
    <3> HIDE DEF G
    <3>6. G = E \union F
      BY <3>5
    <3> QED BY <3>4, <3>6
  <2>6. IsFiniteSet(1 .. L) /\ IsFiniteSet(F) /\ Cardinality(F) = n
    <3>1. L \in Nat /\ n \in Nat \ {0} /\ L \in Int /\ 1 \in Int
      BY <1>1
    <3>2. IsFiniteSet(F) /\ Cardinality(F) = n
      <4> HIDE DEF L, n
      <4> QED BY ONLY <3>1, NextOnes DEF F
    <3> QED BY <3>1, <3>2, FS_Interval
  <2>7. IsFiniteSet(E)
    BY <2>6, FS_Subset
  <2>8. Cardinality(E) \in Nat /\ Cardinality(E \cap F) = 0
    BY <2>5, <2>7, FS_CardinalityType, FS_EmptySet
  <2>9. Cardinality(G) = Cardinality(E) + Cardinality(F) - Cardinality(E \cap F)
    BY <2>5, <2>6, <2>7, FS_Union
  <2>10. Cardinality(E) = revision[K]
    BY <1>1 DEF Logged, Changes
  <2>11. revision'[K] = revision[K] + n
    BY <1>1, <1>2 DEF Types
  <2>12. Changes(K, Len(events[K]))' = Cardinality(G)
    BY <1>4 DEF Changes
  <2> HIDE DEF E, F, G, L, n, K
  <2> QED BY <1>1, <2>6, <2>8, <2>9, <2>10, <2>11, <2>12
<1>12. After(K, Len(events[K]))' = [y \in OfKind(K) |-> status'[y]]
  <2> DEFINE is(y) == {i \in 1 .. L : events[K][i].of = y}
             js(y) == {i \in 1 .. L + n : events'[K][i].of = y}
  <2>1. \A i \in 1 .. L : i \in 1 .. L + n
    BY <1>1
  <2>2. \A i \in 1 .. L + n : i \in 1 .. L \/ i \in L + 1 .. L + n
    BY <1>1
  <2>3. ASSUME NEW y \in OfKind(K)
        PROVE  (IF js(y) = {} THEN scope.start[y] ELSE events'[K][Max(js(y))].to) = status'[y]
    <3>1. CASE y = x
      <4>1. L + n \in js(x) /\ js(x) \in SUBSET (1 .. L + n) /\ L + n \in Nat
        BY <1>1, <1>6
      <4>2. Max(js(x)) \in js(x) /\ Max(js(x)) >= L + n
        BY <4>1, MaxBounded
      <4> DEFINE m == Max(js(x))
      <4>3. m \in 1 .. L + n /\ m >= L + n
        BY <4>1, <4>2
      <4> HIDE DEF m
      <4>4. m = L + n
        <5> HIDE DEF L, n, K
        <5> QED BY <1>1, <4>3
      <4>5. status'[x] = path[n]
        BY <1>2 DEF Types
      <4> QED BY <1>6, <3>1, <4>1, <4>4, <4>5 DEF m
    <3>2. CASE y # x
      <4>1. js(y) = is(y)
        BY <1>4, <1>5, <2>1, <2>2, <3>2
      <4>2. is(y) # {} => Max(is(y)) \in is(y)
        BY <1>1, MaxBounded
      <4>3. is(y) # {} => events'[K][Max(is(y))] = events[K][Max(is(y))]
        BY <1>4, <4>2
      <4>4. After(K, L)[y] = status[y]
        BY <1>1, <2>3 DEF Logged
      <4>5. (IF is(y) = {} THEN scope.start[y] ELSE events[K][Max(is(y))].to) = status[y]
        BY <2>3, <4>4 DEF After
      <4>6. status'[y] = status[y]
        BY <1>2, <2>3, <3>2 DEF OfKind, Types
      <4> HIDE DEF is, js
      <4> QED BY <4>1, <4>3, <4>5, <4>6
    <3> QED BY <3>1, <3>2
  <2>4. After(K, Len(events[K]))' =
          [y \in OfKind(K) |-> IF js(y) = {} THEN scope.start[y] ELSE events'[K][Max(js(y))].to]
    BY <1>4 DEF After
  <2> HIDE DEF is, js
  <2> QED BY <2>3, <2>4
<1>13. Logged'
  BY <1>10, <1>11, <1>12 DEF Logged
<1> QED BY <1>8, <1>9, <1>13

\* The event of a snapshot is no change.
LEMMA LogRecords ==
  ASSUME Types, Logged, NEW c \in Clients, RecordSnapshot(c), snapshot[c].of # "none"
  PROVE  /\ Logged'
         /\ \A k \in Kinds : Len(events[k]) <= Len(events'[k])
         /\ \A k \in Kinds : \A i \in 1 .. Len(events[k]) : events'[k][i] = events[k][i]
<1>0. PICK K : K = snapshot[c].of
  OBVIOUS
<1> DEFINE e == [of |-> Absent, to |-> Absent]
           L == Len(events[K])
<1>1. /\ K \in Kinds /\ events[K] \in Seq(Event) /\ L \in Nat
      /\ \A k \in Kinds : Len(events[k]) \in Nat
  <2>1. snapshot[c] \in SnapshotRecord
    BY DEF Types
  <2>2. K \in Kinds
    BY <1>0, <2>1 DEF SnapshotRecord, Kinds
  <2> QED BY <2>2 DEF Types
<1>2. /\ events'[K] = Append(events[K], e) /\ \A k \in Kinds : k # K => events'[k] = events[k]
      /\ UNCHANGED <<scope, status, revision>>
  BY <1>0, <1>1 DEF RecordSnapshot, Types
<1>3. e.of = Absent
  OBVIOUS
<1>4. /\ Len(events'[K]) = L + 1 /\ events'[K][L + 1] = e
      /\ \A i \in 1 .. L : events'[K][i] = events[K][i]
  <2> DEFINE q == events[K]
  <2>1. q \in Seq(Event)
    BY <1>1
  <2> HIDE DEF q, e
  <2>2. Len(Append(q, e)) = Len(q) + 1 /\ Append(q, e)[Len(q) + 1] = e
        /\ \A i \in 1 .. Len(q) : Append(q, e)[i] = q[i]
    BY ONLY <2>1
  <2> QED BY <1>2, <2>2 DEF q
<1>5. \A k \in Kinds : Len(events[k]) <= Len(events'[k])
  BY <1>1, <1>2, <1>4
<1>6. \A k \in Kinds : \A i \in 1 .. Len(events[k]) : events'[k][i] = events[k][i]
  BY <1>2, <1>4
<1>7. ASSUME NEW k \in Kinds, k # K
      PROVE  /\ Changes(k, Len(events[k]))' = revision'[k]
             /\ After(k, Len(events[k]))' = [y \in OfKind(k) |-> status'[y]]
  <2>1. /\ Changes(k, Len(events[k])) = revision[k]
        /\ After(k, Len(events[k])) = [y \in OfKind(k) |-> status[y]]
    BY DEF Logged
  <2>2. events'[k] = events[k]
    BY <1>2, <1>7
  <2>3. Changes(k, Len(events[k]))' = revision[k]
    BY <2>1, <2>2 DEF Changes
  <2>4. After(k, Len(events[k]))' = After(k, Len(events[k]))
    BY <1>2, <2>2 DEF After
  <2> QED BY <1>2, <2>1, <2>3, <2>4
<1> HIDE DEF e
<1>8. \A i \in 1 .. L + 1 : i \in 1 .. L \/ i = L + 1
  BY <1>1
<1>9. \A i \in 1 .. L : i \in 1 .. L + 1
  BY <1>1
<1>10. Changes(K, Len(events[K]))' = revision'[K]
  <2>1. {i \in 1 .. L + 1 : events'[K][i].of # Absent} = {i \in 1 .. L : events[K][i].of # Absent}
    <3>1. \A i : i \in {j \in 1 .. L + 1 : events'[K][j].of # Absent}
                <=> i \in {j \in 1 .. L : events[K][j].of # Absent}
      BY <1>3, <1>4, <1>8, <1>9
    <3> HIDE DEF L
    <3> QED BY ONLY <3>1
  <2>2. Changes(K, Len(events[K]))' = Cardinality({i \in 1 .. L + 1 : events'[K][i].of # Absent})
    BY <1>4 DEF Changes
  <2>3. Cardinality({i \in 1 .. L : events[K][i].of # Absent}) = revision[K]
    BY <1>1 DEF Logged, Changes
  <2> QED BY <1>2, <2>1, <2>2, <2>3
<1>11. After(K, Len(events[K]))' = [y \in OfKind(K) |-> status'[y]]
  <2> DEFINE is(y) == {i \in 1 .. L : events[K][i].of = y}
             js(y) == {i \in 1 .. L + 1 : events'[K][i].of = y}
  <2>1. ASSUME NEW y \in OfKind(K)
        PROVE  (IF js(y) = {} THEN scope.start[y] ELSE events'[K][Max(js(y))].to) = status'[y]
    <3>1. y # Absent
      BY <2>1, RegistryAssumption DEF OfKind
    <3>2. js(y) = is(y)
      BY <1>3, <1>4, <1>8, <1>9, <3>1
    <3>3. is(y) # {} => Max(is(y)) \in is(y)
      BY <1>1, MaxBounded
    <3>4. is(y) # {} => events'[K][Max(is(y))] = events[K][Max(is(y))]
      BY <1>4, <3>3
    <3>5. After(K, L)[y] = status[y]
      BY <1>1, <2>1 DEF Logged
    <3>6. (IF is(y) = {} THEN scope.start[y] ELSE events[K][Max(is(y))].to) = status[y]
      BY <2>1, <3>5 DEF After
    <3> HIDE DEF is, js
    <3> QED BY <1>2, <3>2, <3>4, <3>6
  <2>2. After(K, Len(events[K]))' =
          [y \in OfKind(K) |-> IF js(y) = {} THEN scope.start[y] ELSE events'[K][Max(js(y))].to]
    BY <1>2, <1>4 DEF After
  <2> HIDE DEF is, js
  <2> QED BY <2>1, <2>2
<1>12. Logged'
  BY <1>7, <1>10, <1>11 DEF Logged
<1> QED BY <1>5, <1>6, <1>12

\* What a snapshot has read stays in the past of the registries.
LEMMA ReplaysKept ==
  ASSUME Types, NEW c \in Clients, Replays(c), scope' = scope, snapshot'[c] = snapshot[c],
         \A k \in Kinds : Len(events[k]) <= Len(events'[k]),
         \A k \in Kinds : \A i \in 1 .. Len(events[k]) : events'[k][i] = events[k][i],
         \A k \in Kinds : Len(events'[k]) \in Nat
  PROVE  Replays(c)'
<1>1. ASSUME NEW k \in DOMAIN snapshot[c].contents, Replayed(c, k)
      PROVE  Replayed(c, k)'
  <2>1. k \in Kinds
    <3>1. snapshot[c].contents \in Contents
      BY DEF Types, SnapshotRecord
    <3> QED BY <3>1 DEF Contents
  <2>2. Len(events[k]) \in Nat /\ Len(events'[k]) \in Nat /\ Len(events[k]) <= Len(events'[k])
    BY <2>1 DEF Types
  <2>3. PICK n \in 0 .. Len(events[k]) :
          /\ k \in DOMAIN snapshot[c].revisions => Changes(k, n) <= snapshot[c].revisions[k]
          /\ snapshot[c].contents[k] = Listed(k, snapshot[c], After(k, n))
    BY <1>1 DEF Replayed
  <2>4. Changes(k, n)' = Changes(k, n) /\ After(k, n)' = After(k, n)
    BY <2>1, <2>2, PastKept
  <2>5. n \in 0 .. Len(events'[k])
    BY <2>2
  <2>6. Listed(k, snapshot[c], After(k, n))' = Listed(k, snapshot[c], After(k, n))
    BY <2>4 DEF Listed
  <2> QED BY <2>3, <2>4, <2>5, <2>6 DEF Replayed
<1>2. \A p : ReadSoFar(snapshot[c], p) => ReadSoFar(snapshot[c], p)'
  BY DEF ReadSoFar
<1> QED BY <1>1, <1>2 DEF Replays

\* The first part of the list is read: k's list, or k's revision.
TakesPart(s, t, k, v) ==
  /\ s.todo # <<>>
  /\ Head(s.todo)[2] = k
  /\ t.todo = Tail(s.todo)
  /\ t.of = s.of
  /\ \/ /\ Head(s.todo)[1] = "list"
        /\ t.contents = Extend(s.contents, k, v) /\ t.revisions = s.revisions
     \/ /\ Head(s.todo)[1] # "list"
        /\ t.contents = s.contents /\ t.revisions = Extend(s.revisions, k, v)

\* The next part, in the order in which they are read.
LEMMA PartRead ==
  ASSUME NEW s, NEW t, NEW k, NEW v, NEW p, s \in SnapshotRecord, t \in SnapshotRecord, k \in Kinds,
         p \in 0 .. Len(ReadsFor(s.of)), ReadSoFar(s, p), TakesPart(s, t, k, v)
  PROVE  /\ p + 1 \in 0 .. Len(ReadsFor(s.of)) /\ ReadSoFar(t, p + 1)
         /\ Head(s.todo)[1] = "list" => ReadsFor(s.of)[p + 1] = <<"list", k>>
<1> DEFINE r == ReadsFor(s.of)
           m == Len(r)
<1>0. /\ s.todo # <<>> /\ Head(s.todo)[2] = k /\ t.todo = Tail(s.todo) /\ t.of = s.of
      /\ \/ /\ Head(s.todo)[1] = "list"
            /\ t.contents = Extend(s.contents, k, v) /\ t.revisions = s.revisions
         \/ /\ Head(s.todo)[1] # "list"
            /\ t.contents = s.contents /\ t.revisions = Extend(s.revisions, k, v)
  BY DEF TakesPart
<1>1. r \in Seq(Part) /\ m \in Nat /\ s.todo \in Seq(Part) /\ Len(s.todo) = m - p
      /\ \A i \in 1 .. m - p : s.todo[i] = r[p + i]
  BY ReadsForTyped DEF SnapshotRecord, ReadSoFar
<1>2. /\ Len(s.todo) \in Nat \ {0} /\ Head(s.todo) = s.todo[1] /\ s.todo[1] \in Part
      /\ Len(t.todo) = Len(s.todo) - 1 /\ \A i \in 1 .. Len(s.todo) - 1 : t.todo[i] = s.todo[i + 1]
  BY <1>0, <1>1
<1>3. p + 1 \in 1 .. m /\ s.todo[1] = r[p + 1]
  BY <1>1, <1>2
<1>4. r[p + 1] \in {<<"list", k>>, <<"revision", k>>} /\ r[p + 1] = Head(s.todo)
  BY <1>0, <1>2, <1>3 DEF Part
<1>5. Head(s.todo)[1] = "list" => r[p + 1] = <<"list", k>>
  BY <1>4
<1>6. Head(s.todo)[1] # "list" => r[p + 1] = <<"revision", k>>
  BY <1>4
<1>7. Len(t.todo) = m - (p + 1) /\ \A i \in 1 .. m - (p + 1) : t.todo[i] = r[(p + 1) + i]
  <2>1. ASSUME NEW i \in 1 .. m - (p + 1)
        PROVE  t.todo[i] = r[(p + 1) + i]
    <3> HIDE DEF r, m
    <3>0. m \in Nat /\ Len(s.todo) = m - p
      BY <1>1
    <3>1. i \in 1 .. Len(s.todo) - 1 /\ i + 1 \in 1 .. m - p /\ p + (i + 1) = (p + 1) + i
      BY ONLY <3>0, <2>1, p \in Nat
    <3> QED BY <1>1, <1>2, <3>1
  <2> QED BY <1>1, <1>2, <2>1
<1>8. \A i \in 1 .. p : i \in 1 .. p + 1
  OBVIOUS
<1>9. \A i \in 1 .. p + 1 : i \in 1 .. p \/ i = p + 1
  OBVIOUS
<1>10. p + 1 \in 1 .. p + 1
  OBVIOUS
<1>11. DOMAIN Extend(s.contents, k, v) = DOMAIN s.contents \union {k}
       /\ DOMAIN Extend(s.revisions, k, v) = DOMAIN s.revisions \union {k}
  BY DEF Extend
<1>12. /\ \A j \in DOMAIN s.contents : \E i \in 1 .. p : r[i] = <<"list", j>>
       /\ \A j \in DOMAIN s.revisions : \E i \in 1 .. p : r[i] = <<"revision", j>>
       /\ \A i \in 1 .. p, j \in Kinds : r[i] = <<"revision", j>> => j \in DOMAIN s.revisions
  BY DEF ReadSoFar
<1> HIDE DEF r, m
<1>13. \A j \in DOMAIN t.contents : \E i \in 1 .. p + 1 : r[i] = <<"list", j>>
  BY <1>0, <1>5, <1>8, <1>10, <1>11, <1>12
<1>14. \A j \in DOMAIN t.revisions : \E i \in 1 .. p + 1 : r[i] = <<"revision", j>>
  BY <1>0, <1>6, <1>8, <1>10, <1>11, <1>12
<1>15. \A i \in 1 .. p + 1, j \in Kinds : r[i] = <<"revision", j>> => j \in DOMAIN t.revisions
  <2>1. ASSUME NEW i \in 1 .. p + 1, NEW j \in Kinds, r[i] = <<"revision", j>>
        PROVE  j \in DOMAIN t.revisions
    <3>1. CASE i \in 1 .. p
      BY <1>0, <1>11, <1>12, <2>1, <3>1
    <3>2. CASE i = p + 1
      <4>1. Head(s.todo)[1] # "list" /\ j = k
        BY <1>4, <1>5, <2>1, <3>2
      <4> QED BY <1>0, <1>11, <4>1
    <3> QED BY <1>9, <3>1, <3>2
  <2> QED BY <2>1
<1>16. ReadSoFar(t, p + 1)
  BY <1>0, <1>7, <1>13, <1>14, <1>15 DEF ReadSoFar, r, m
<1> QED BY <1>1, <1>3, <1>5, <1>16 DEF r, m

\* A list is what its registry holds while it is read, and its revision is read later.
LEMMA PartReplays ==
  ASSUME Types, Logged, NEW c \in Clients, Replays(c), ReadPart(c), Types'
  PROVE  Replays(c)'
<1> DEFINE s == snapshot[c]
           t == snapshot'[c]
           k == Head(s.todo)[2]
<1>1. /\ s \in SnapshotRecord /\ t \in SnapshotRecord /\ s.at = "reading" /\ s.todo # <<>>
      /\ UNCHANGED <<scope, status, revision, events>>
  BY DEF ReadPart, Types
<1>2. k \in Kinds /\ s.of \in {"prompt", "skill", "agent"}
  <2>1. s.todo \in Seq(Part) /\ s.of \in {"none", "prompt", "skill", "agent"}
    BY <1>1 DEF SnapshotRecord
  <2>2. Head(s.todo) \in Part
    BY <1>1, <2>1
  <2> QED BY <1>1, <2>1, <2>2 DEF Part, Replays
<1>3. /\ t.todo = Tail(s.todo) /\ t.of = s.of /\ t.at = s.at /\ t.full = s.full /\ t.overrides = s.overrides
      /\ \/ /\ Head(s.todo)[1] = "list"
            /\ t.contents = Extend(s.contents, k, Listed(k, s, status)) /\ t.revisions = s.revisions
         \/ /\ Head(s.todo)[1] # "list"
            /\ t.contents = s.contents /\ t.revisions = Extend(s.revisions, k, revision[k])
  <2>1. t = IF Head(s.todo)[1] = "list"
            THEN [s EXCEPT !.todo = Tail(@), !.contents = Extend(@, k, Listed(k, s, status))]
            ELSE [s EXCEPT !.todo = Tail(@), !.revisions = Extend(@, k, revision[k])]
    BY DEF ReadPart, Types
  <2> HIDE DEF k, t
  <2> QED BY <1>1, <2>1 DEF SnapshotRecord
<1>4. PICK p \in 0 .. Len(ReadsFor(s.of)) : ReadSoFar(s, p)
  BY <1>1 DEF Replays
<1>5. /\ p + 1 \in 0 .. Len(ReadsFor(s.of)) /\ ReadSoFar(t, p + 1)
      /\ Head(s.todo)[1] = "list" => ReadsFor(s.of)[p + 1] = <<"list", k>>
  <2> HIDE DEF s, t, k
  <2>1. PICK v : TakesPart(s, t, k, v)
    <3>1. Head(s.todo)[2] = k
      BY DEF k
    <3>2. CASE Head(s.todo)[1] = "list"
      BY <1>1, <1>3, <3>1, <3>2 DEF TakesPart
    <3>3. CASE Head(s.todo)[1] # "list"
      BY <1>1, <1>3, <3>1, <3>3 DEF TakesPart
    <3> QED BY <3>2, <3>3
  <2> QED BY <1>1, <1>2, <1>4, <2>1, PartRead
<1>6. ReadsFor(s.of) \in Seq(Part)
  BY ReadsForTyped
<1>7. ASSUME NEW j \in DOMAIN t.contents
      PROVE  /\ j \in Kinds
             /\ \E n \in 0 .. Len(events[j]) :
                  /\ j \in DOMAIN t.revisions => Changes(j, n) <= t.revisions[j]
                  /\ t.contents[j] = Listed(j, t, After(j, n))
  <2>1. \A j1 : \A of : Listed(j1, t, of) = Listed(j1, s, of)
    BY <1>3 DEF Listed
  <2>2. j \in Kinds /\ Len(events[j]) \in Nat
    <3>1. t.contents \in Contents
      BY <1>1 DEF SnapshotRecord
    <3> QED BY <3>1 DEF Contents, Types
  <2>3. CASE Head(s.todo)[1] = "list" /\ j = k
    <3>1. t.contents[j] = Listed(j, s, status)
      BY <1>3, <2>3 DEF Extend
    <3>2. After(j, Len(events[j])) = [y \in OfKind(j) |-> status[y]]
      BY <2>2 DEF Logged
    <3>3. \A y \in OfKind(j) : After(j, Len(events[j]))[y] = status[y]
      BY <3>2
    <3>4. Listed(j, s, status) = Listed(j, s, After(j, Len(events[j])))
      BY <3>3 DEF Listed
    <3>5. j \notin DOMAIN s.revisions
      <4>1. ASSUME j \in DOMAIN s.revisions
            PROVE  FALSE
        <5>1. PICK i \in 1 .. p : ReadsFor(s.of)[i] = <<"revision", j>>
          BY <1>4, <4>1 DEF ReadSoFar
        <5>2. p + 1 \in 1 .. Len(ReadsFor(s.of)) /\ i \in 1 .. Len(ReadsFor(s.of)) /\ i < p + 1
          BY <1>4, <1>5, <1>6
        <5>3. ReadsFor(s.of)[p + 1] = <<"list", j>>
          BY <1>5, <2>3
        <5>4. p + 1 < i
          BY <1>2, <5>1, <5>2, <5>3, ListsFirst
        <5> QED BY <5>2, <5>4
      <4> QED BY <4>1
    <3>6. Len(events[j]) \in 0 .. Len(events[j])
      BY <2>2
    <3> QED BY <1>3, <2>1, <2>2, <2>3, <3>1, <3>4, <3>5, <3>6
  <2>4. CASE ~ (Head(s.todo)[1] = "list" /\ j = k)
    <3>1. j \in DOMAIN s.contents /\ t.contents[j] = s.contents[j]
      BY <1>3, <2>4 DEF Extend
    <3>2. PICK n \in 0 .. Len(events[j]) :
            /\ j \in DOMAIN s.revisions => Changes(j, n) <= s.revisions[j]
            /\ s.contents[j] = Listed(j, s, After(j, n))
      BY <1>1, <3>1 DEF Replays, Replayed
    <3>3. j \in DOMAIN t.revisions => Changes(j, n) <= t.revisions[j]
      <4>1. CASE t.revisions = s.revisions
        BY <3>2, <4>1
      <4>2. CASE t.revisions = Extend(s.revisions, k, revision[k]) /\ j # k
        BY <3>2, <4>2 DEF Extend
      <4>3. CASE t.revisions = Extend(s.revisions, k, revision[k]) /\ j = k
        <5>1. t.revisions[j] = revision[j]
          BY <4>3 DEF Extend
        <5>2. Changes(j, n) <= Changes(j, Len(events[j]))
          BY <2>2, ChangesCounted
        <5> QED BY <2>2, <5>1, <5>2 DEF Logged
      <4> QED BY <1>3, <4>1, <4>2, <4>3
    <3> QED BY <2>1, <2>2, <3>1, <3>2, <3>3
  <2> QED BY <2>3, <2>4
<1>8. \A j, n : Changes(j, n)' = Changes(j, n) /\ After(j, n)' = After(j, n)
  BY <1>1 DEF Changes, After
<1>9. ASSUME NEW j \in DOMAIN t.contents
      PROVE  Replayed(c, j)'
  <2>1. PICK n \in 0 .. Len(events[j]) :
          /\ j \in DOMAIN t.revisions => Changes(j, n) <= t.revisions[j]
          /\ t.contents[j] = Listed(j, t, After(j, n))
    BY <1>7
  <2>2. Listed(j, snapshot[c], After(j, n))' = Listed(j, t, After(j, n))
    BY <1>8 DEF Listed
  <2> QED BY <1>1, <1>8, <2>1, <2>2 DEF Replayed
<1>10. t.at = "reading" /\ t.of # "none" /\ \E q \in 0 .. Len(ReadsFor(t.of)) : ReadSoFar(t, q)
  BY <1>1, <1>2, <1>3, <1>5
<1> QED BY <1>9, <1>10 DEF Replays

\* A snapshot that begins has all its parts to read.
LEMMA BeginsReplay ==
  ASSUME NEW k \in {"prompt", "skill", "agent"}, NEW full, NEW overrides
  PROVE  /\ Reading(k, full, overrides).of = k /\ Reading(k, full, overrides).at = "reading"
         /\ DOMAIN Reading(k, full, overrides).contents = {}
         /\ ReadSoFar(Reading(k, full, overrides), 0)
<1> DEFINE s == Reading(k, full, overrides)
<1>1. /\ s.of = k /\ s.at = "reading" /\ s.todo = ReadsFor(k)
      /\ s.contents = <<>> /\ s.revisions = <<>>
  BY DEF Reading, NoSnapshot
<1> HIDE DEF s
<1>2. DOMAIN s.contents = {} /\ DOMAIN s.revisions = {}
  BY <1>1
<1>3. Len(ReadsFor(k)) \in Nat
  BY ReadsForTyped
<1>4. ReadSoFar(s, 0)
  BY <1>1, <1>2, <1>3 DEF ReadSoFar
<1> QED BY <1>1, <1>2, <1>4 DEF s

\* Every step keeps the logs and what the snapshots hold of them.
LEMMA SnapshotsKept ==
  ASSUME Types, Locking, Logged, Snapshots, RegistryAction, Types'
  PROVE  Logged' /\ Snapshots'
<1> DEFINE Grown == /\ scope' = scope
                    /\ \A k \in Kinds : Len(events[k]) <= Len(events'[k])
                    /\ \A k \in Kinds : \A i \in 1 .. Len(events[k]) : events'[k][i] = events[k][i]
<1>a. \A k \in Kinds : Len(events'[k]) \in Nat
  BY DEF Types
<1>b. ASSUME NEW d \in Clients, Grown, snapshot'[d] = snapshot[d]
      PROVE  Replays(d)'
  BY <1>a, <1>b, ReplaysKept DEF Snapshots
<1>c. ASSUME UNCHANGED <<scope, events>>
      PROVE  Grown
  <2>1. \A k \in Kinds : Len(events[k]) \in Nat
    BY DEF Types
  <2> QED BY <1>c, <2>1
<1>d. ASSUME UNCHANGED <<scope, status, revision, events>>
      PROVE  Logged'
  <2>1. \A k, n : Changes(k, n)' = Changes(k, n) /\ After(k, n)' = After(k, n)
    BY <1>d DEF Changes, After
  <2>2. ASSUME NEW k \in Kinds
        PROVE  /\ Changes(k, Len(events[k]))' = revision'[k]
               /\ After(k, Len(events[k]))' = [x \in OfKind(k) |-> status'[x]]
    <3>1. Changes(k, Len(events[k]))' = Changes(k, Len(events[k]))
          /\ After(k, Len(events[k]))' = After(k, Len(events[k]))
      BY <1>d, <2>1 DEF Changes, After
    <3> QED BY <1>d, <3>1 DEF Logged
  <2> QED BY <2>2 DEF Logged
<1> HIDE DEF Grown
<1>e. ASSUME NEW x \in Components, NEW path \in Seq(Lifecycle), Become(x, path), UNCHANGED <<scope, snapshot>>
      PROVE  Logged' /\ Snapshots'
  <2>1. Logged' /\ Grown
    BY <1>e, LogGrows DEF Grown
  <2>2. \A d \in Clients : snapshot'[d] = snapshot[d]
    BY <1>e
  <2> QED BY <1>b, <2>1, <2>2 DEF Snapshots
<1>f. ASSUME UNCHANGED <<scope, status, revision, events, snapshot>>
      PROVE  Logged' /\ Snapshots'
  <2>1. \A d \in Clients : snapshot'[d] = snapshot[d]
    BY <1>f
  <2>2. Logged' /\ Grown
    BY <1>c, <1>d, <1>f
  <2> QED BY <1>b, <2>1, <2>2 DEF Snapshots
<1>1. ASSUME NEW x \in Components, NEW path \in Seq(Lifecycle), OperatorMoves(x, path)
      PROVE  Logged' /\ Snapshots'
  BY <1>1, <1>e DEF OperatorMoves, Move
<1>2. ASSUME NEW c \in Clients, NEW x \in Components, NEW op \in Operations, NEW to \in Statuses,
             NEW allowed \in SUBSET Lifecycle, Begins(c, op, x, to, allowed)
      PROVE  Logged' /\ Snapshots'
  BY <1>2, <1>f DEF Begins, Begin
<1>3. ASSUME NEW c \in Clients, ReadNext(c)
      PROVE  Logged' /\ Snapshots'
  BY <1>3, <1>f DEF ReadNext
<1>4. ASSUME NEW c \in Clients, Finish(c)
      PROVE  Logged' /\ Snapshots'
  <2>1. work[c].at = "reading" /\ UNCHANGED <<scope, snapshot>>
    BY <1>4 DEF Finish
  <2>2. work[c].target \in Components /\ PathOf(work[c]) \in Seq(Lifecycle)
    BY <2>1, FinishPath DEF Locking, Holding
  <2>3. Become(work[c].target, PathOf(work[c])) \/ UNCHANGED <<status, revision, events>>
    BY <1>4 DEF Finish
  <2> QED BY <1>e, <1>f, <2>1, <2>2, <2>3
<1>5. ASSUME NEW c \in Clients, ClientMoves(c)
      PROVE  Logged' /\ Snapshots'
  <2>1. UNCHANGED <<scope, status, revision, events>>
    BY <1>5 DEF ClientMoves
  <2>2. Logged' /\ Grown
    BY <1>c, <1>d, <2>1
  <2>3. ASSUME NEW d \in Clients, d # c
        PROVE  Replays(d)'
    <3>1. snapshot'[d] = snapshot[d]
      BY <1>5, <2>3 DEF ClientMoves, SnapshotMoves, Types
    <3> QED BY <1>b, <2>2, <3>1
  <2>4. Replays(c)'
    <3>1. CASE snapshot'[c] = snapshot[c]
      BY <1>b, <2>2, <3>1
    <3>2. CASE snapshot'[c] = NoSnapshot
      BY <3>2 DEF Replays, NoSnapshot
    <3>3. ASSUME NEW k \in {"prompt", "skill", "agent"}, NEW full \in BOOLEAN,
                 NEW overrides \in SUBSET (Components \X Lifecycle),
                 snapshot'[c] = Reading(k, full, overrides)
          PROVE  Replays(c)'
      <4> DEFINE s == Reading(k, full, overrides)
      <4>1. /\ s.of = k /\ s.at = "reading" /\ DOMAIN s.contents = {} /\ ReadSoFar(s, 0)
        BY BeginsReplay
      <4>2. 0 \in 0 .. Len(ReadsFor(k))
        <5>1. Len(ReadsFor(k)) \in Nat
          BY ReadsForTyped
        <5> QED BY <5>1
      <4> HIDE DEF s
      <4>3. snapshot'[c] = s
        BY <3>3 DEF s
      <4> QED BY <4>1, <4>2, <4>3 DEF Replays
    <3> QED BY <1>5, <3>1, <3>2, <3>3 DEF ClientMoves, SnapshotMoves, Types
  <2> QED BY <2>2, <2>3, <2>4 DEF Snapshots
<1>6. ASSUME NEW c \in Clients, ReadPart(c)
      PROVE  Logged' /\ Snapshots'
  <2>1. UNCHANGED <<scope, status, revision, events>>
    BY <1>6 DEF ReadPart
  <2>2. Logged' /\ Grown
    BY <1>c, <1>d, <2>1
  <2>3. ASSUME NEW d \in Clients, d # c
        PROVE  Replays(d)'
    <3>1. snapshot'[d] = snapshot[d]
      BY <1>6, <2>3 DEF ReadPart, Types
    <3> QED BY <1>b, <2>2, <3>1
  <2>4. Replays(c)'
    BY <1>6, PartReplays DEF Snapshots
  <2> QED BY <2>2, <2>3, <2>4 DEF Snapshots
<1>7. ASSUME NEW c \in Clients, RecordSnapshot(c)
      PROVE  Logged' /\ Snapshots'
  <2>1. Replays(c) /\ snapshot[c].at = "reading" /\ snapshot[c].todo = <<>> /\ scope' = scope
    BY <1>7 DEF RecordSnapshot, Snapshots
  <2>2. Logged' /\ Grown
    BY <1>7, <2>1, LogRecords DEF Replays, Grown
  <2>3. snapshot' = [snapshot EXCEPT ![c].at = "taken"]
    BY <1>7 DEF RecordSnapshot
  <2>4. ASSUME NEW d \in Clients, d # c
        PROVE  Replays(d)'
    <3>1. snapshot'[d] = snapshot[d]
      BY <2>3, <2>4 DEF Types
    <3> QED BY <1>b, <2>2, <3>1
  <2>5. Replays(c)'
    <3> DEFINE s == snapshot[c]
               t == snapshot'[c]
    <3>1. /\ t.of = s.of /\ t.at = "taken" /\ t.todo = s.todo /\ t.contents = s.contents
          /\ t.revisions = s.revisions /\ t.full = s.full /\ t.overrides = s.overrides
      BY <2>3 DEF Types, SnapshotRecord
    <3>2. \E p \in 0 .. Len(ReadsFor(t.of)) : ReadSoFar(t, p)
      <4>1. PICK p \in 0 .. Len(ReadsFor(s.of)) : ReadSoFar(s, p)
        BY <2>1 DEF Replays
      <4> HIDE DEF s, t
      <4>2. ReadSoFar(t, p)
        BY <3>1, <4>1 DEF ReadSoFar
      <4> QED BY <3>1, <4>1, <4>2
    <3>3. ASSUME NEW k \in DOMAIN t.contents
          PROVE  Replayed(c, k)'
      <4>1. k \in Kinds
        <5>1. t.contents \in Contents
          BY DEF Types, SnapshotRecord
        <5> QED BY <5>1 DEF Contents
      <4>2. Len(events[k]) \in Nat /\ Len(events'[k]) \in Nat /\ Len(events[k]) <= Len(events'[k])
            /\ \A i \in 1 .. Len(events[k]) : events'[k][i] = events[k][i]
        BY <2>2, <4>1 DEF Types, Grown
      <4>3. PICK n \in 0 .. Len(events[k]) :
              /\ k \in DOMAIN s.revisions => Changes(k, n) <= s.revisions[k]
              /\ s.contents[k] = Listed(k, s, After(k, n))
        BY <2>1, <3>1, <3>3 DEF Replays, Replayed
      <4>4. Changes(k, n)' = Changes(k, n) /\ After(k, n)' = After(k, n)
        BY <2>1, <4>2, PastKept
      <4>5. n \in 0 .. Len(events'[k])
        BY <4>2
      <4>6. Listed(k, snapshot[c], After(k, n))' = Listed(k, s, After(k, n))
        BY <3>1, <4>4 DEF Listed
      <4> QED BY <3>1, <4>3, <4>4, <4>5, <4>6 DEF Replayed
    <3> QED BY <2>1, <3>1, <3>2, <3>3 DEF Replays
  <2> QED BY <2>2, <2>4, <2>5 DEF Snapshots
<1> QED BY <1>1, <1>2, <1>3, <1>4, <1>5, <1>6, <1>7, <1>f DEF RegistryAction, ClientAction, registryVars

\* A snapshot that has all its parts has the revision of each list.
LEMMA SnapshotsAreReplays ==
  ASSUME Types, Snapshots
  PROVE  SnapshotsReplay
<1> SUFFICES ASSUME NEW c \in Clients, snapshot[c].at = "taken", NEW k \in DOMAIN snapshot[c].contents
             PROVE  \E n \in 0 .. Len(events[k]) :
                      /\ Changes(k, n) <= snapshot[c].revisions[k]
                      /\ snapshot[c].contents[k] = Listed(k, snapshot[c], After(k, n))
  BY DEF SnapshotsReplay
<1> DEFINE s == snapshot[c]
           r == ReadsFor(s.of)
<1>1. s \in SnapshotRecord /\ Replays(c)
  BY DEF Types, Snapshots
<1>2. s.of \in {"prompt", "skill", "agent"} /\ s.todo = <<>> /\ Replayed(c, k)
  BY <1>1 DEF Replays, SnapshotRecord
<1>3. PICK p \in 0 .. Len(r) : ReadSoFar(s, p)
  BY <1>1 DEF Replays
<1>4. r \in Seq(Part)
  BY ReadsForTyped
<1>5. p = Len(r)
  BY <1>2, <1>3, <1>4 DEF ReadSoFar
<1>6. PICK i \in 1 .. p : r[i] = <<"list", k>>
  BY <1>3 DEF ReadSoFar
<1>7. PICK j \in 1 .. p : r[j] = <<"revision", k>>
  BY <1>2, <1>5, <1>6, ListsFirst
<1>8. k \in Kinds
  <2>1. s.contents \in Contents
    BY <1>1 DEF SnapshotRecord
  <2> QED BY <2>1 DEF Contents
<1>9. k \in DOMAIN s.revisions
  BY <1>3, <1>7, <1>8 DEF ReadSoFar
<1> QED BY <1>2, <1>9 DEF Replayed

-----------------------------------------------------------------------------
(* Builds and runs                                                           *)

Job ==
  [at : {"none", "lookup", "skill", "check", "snapshot", "register", "activate", "assemble",
         "entry", "called", "guard", "running"},
   of : Components \union {Absent}, dryRun : BOOLEAN, activate : BOOLEAN, register : BOOLEAN,
   todo : Seq(Reference)]

JobTypes ==
  /\ job \in [Clients -> Job]
  /\ built \subseteq OfKind("agent") \X BOOLEAN

\* The validation that a job waits for is the one it asked for; a guard asks for an
\* agent that is active, and a run begins with the validation the guard has passed.
Waits(j, w) ==
  /\ j.at # "none" => j.of \in OfKind("agent")
  /\ j.at = "skill" => j.todo # <<>>
  /\ j.at = "snapshot" => w.at = "idle"
  /\ j.at = "register" => w.at = "idle" \/ (w.op = "register" /\ w.target = j.of)
  /\ j.at = "guard" => w.target = j.of /\ j.of \notin w.unseen
  /\ j.at = "running" => w.at = "passed" /\ w.target = j.of /\ j.of \notin w.unseen

Jobs == \A c \in Clients : Waits(job[c], work[c])

\* Only what is registered is owned, by one build, until it has its runtime.
Owned ==
  \A x \in OfKind("agent") :
    /\ <<x, TRUE>> \in built => status[x] # Absent
    /\ \A c \in Clients : Owns(c, x) => status[x] # Absent /\ <<x, TRUE>> \notin built
    /\ \A c, d \in Clients : Owns(c, x) /\ Owns(d, x) => c = d

RegistryInv == Types /\ Locking /\ Validations /\ Logged /\ Snapshots

FactoryInv == RegistryInv /\ JobTypes /\ Jobs /\ Owned

\* The registries keep their part of the invariant, whatever they are asked.
LEMMA RegistryInvKept ==
  ASSUME RegistryInv, RegistryAction
  PROVE  RegistryInv'
BY TypesKept, LockingKept, ValidationsKept, SnapshotsKept DEF RegistryInv

\* What a step leaves alone of the validation of another client.
Undisturbed(d) ==
  /\ work'[d].at = work[d].at /\ work'[d].op = work[d].op /\ work'[d].target = work[d].target
  /\ work'[d].unseen \subseteq work[d].unseen

\* A change of a component disturbs no validation.
LEMMA OperatorsUndisturbing ==
  ASSUME Types, NEW x \in Components, NEW path \in Seq(Lifecycle), OperatorMoves(x, path), NEW d \in Clients
  PROVE  Undisturbed(d)
<1>1. work' = Noticed(x, path[Len(path)], work) /\ work \in [Clients -> Validation]
  BY DEF OperatorMoves, Move, Types
<1> QED BY <1>1, NoticedFields, NoticedUnseen DEF Undisturbed

\* The end of a validation, for its own client and for the others.
LEMMA FinishFields ==
  ASSUME Types, Locking, NEW c \in Clients, Finish(c), NEW d \in Clients
  PROVE  /\ d # c => Undisturbed(d)
         /\ /\ work'[c].at \in {"passed", "failed"}
            /\ work'[c].op = work[c].op /\ work'[c].target = work[c].target
            /\ work'[c].unseen \subseteq work[c].unseen
         /\ work'[c].at = "passed" /\ work[c].op = "register" => status'[work[c].target] # Absent
<1> DEFINE w == work[c]
           n == Noticed(w.target, status'[w.target], work)
<1>1. w \in Validation /\ w.at = "reading" /\ work \in [Clients -> Validation] /\ Holding(c)
  BY DEF Types, Finish, Locking
<1>2. \/ Become(w.target, PathOf(w)) /\ work' = [n EXCEPT ![c].at = "passed"]
      \/ /\ work' = [work EXCEPT ![c].at = IF CoversSkills(w.target) /\ Accepts(w) THEN "passed" ELSE "failed"]
         /\ status' = status /\ ~ (CoversSkills(w.target) /\ Accepts(w) /\ PathOf(w) # <<>>)
  BY DEF Finish
<1>3. CASE Become(w.target, PathOf(w)) /\ work' = [n EXCEPT ![c].at = "passed"]
  <2>1. n \in [Clients -> Validation]
    BY <1>1, NoticedTyped
  <2>2. \A e \in Clients : /\ n[e].at = work[e].at /\ n[e].op = work[e].op /\ n[e].target = work[e].target
                           /\ n[e].unseen \subseteq work[e].unseen
    <3>1. ASSUME NEW e \in Clients
          PROVE  /\ n[e].at = work[e].at /\ n[e].op = work[e].op /\ n[e].target = work[e].target
                 /\ n[e].unseen \subseteq work[e].unseen
      BY <1>1, NoticedFields, NoticedUnseen
    <3> QED BY <3>1
  <2> HIDE DEF n
  <2>3. /\ work'[c].at = "passed" /\ work'[c].op = n[c].op /\ work'[c].target = n[c].target
        /\ work'[c].unseen = n[c].unseen /\ (d # c => work'[d] = n[d])
    BY <1>3, <2>1 DEF Validation
  <2>4. status'[w.target] # Absent
    <3>1. PathOf(w) \in Seq(Lifecycle) /\ w.target \in Components
      BY <1>1, FinishPath DEF Holding
    <3>2. PathOf(w)[Len(PathOf(w))] \in Lifecycle /\ status' = [status EXCEPT ![w.target] = PathOf(w)[Len(PathOf(w))]]
      BY <1>3, <3>1, BecomeTyped DEF Become
    <3> QED BY <3>1, <3>2, RegistryAssumption DEF Types
  <2> QED BY <2>2, <2>3, <2>4 DEF Undisturbed
<1>4. CASE /\ work' = [work EXCEPT ![c].at = IF CoversSkills(w.target) /\ Accepts(w) THEN "passed" ELSE "failed"]
           /\ status' = status /\ ~ (CoversSkills(w.target) /\ Accepts(w) /\ PathOf(w) # <<>>)
  <2> DEFINE a == IF CoversSkills(w.target) /\ Accepts(w) THEN "passed" ELSE "failed"
  <2>1. work' = [work EXCEPT ![c].at = a] /\ a \in {"passed", "failed"}
    BY <1>4
  <2>2. a = "passed" => w.op # "register"
    <3>1. w.op = "register" => PathOf(w) = <<w.to>>
      BY DEF PathOf
    <3>2. <<w.to>> # <<>>
      OBVIOUS
    <3> QED BY <1>4, <3>1, <3>2
  <2> HIDE DEF a
  <2>3. /\ work'[c].at = a /\ work'[c].op = w.op /\ work'[c].target = w.target
        /\ work'[c].unseen = w.unseen /\ (d # c => work'[d] = work[d])
    BY <1>1, <2>1 DEF Validation
  <2> QED BY <2>1, <2>2, <2>3 DEF Undisturbed
<1> QED BY <1>2, <1>3, <1>4

\* A client disturbs no other one.
LEMMA OthersUndisturbed ==
  ASSUME Types, Locking, NEW c \in Clients, ClientAction(c), NEW d \in Clients, d # c
  PROVE  Undisturbed(d)
<1>1. work \in [Clients -> Validation]
  BY DEF Types
<1>2. CASE Finish(c)
  BY <1>2, FinishFields
<1>3. CASE ~ Finish(c)
  <2>1. work'[d] = work[d]
    BY <1>1, <1>3 DEF ClientAction, Begins, Begin, ReadNext, ClientMoves, Lets, Done, ReadPart, RecordSnapshot
  <2> QED BY <2>1 DEF Undisturbed
<1> QED BY <1>2, <1>3

\* What is registered stays registered.
LEMMA StaysRegistered ==
  ASSUME RegistryInv, RegistryAction, NEW x \in Components, status[x] # Absent
  PROVE  status'[x] # Absent
<1>1. \/ status' = status
      \/ \E y \in Components, path \in Seq(Lifecycle) : Become(y, path)
  <2>1. ASSUME NEW c \in Clients, Finish(c)
        PROVE  status' = status \/ \E y \in Components, path \in Seq(Lifecycle) : Become(y, path)
    <3>1. work[c].at = "reading" /\ work[c].target \in Components
      BY <2>1 DEF Finish, RegistryInv, Locking, Holding
    <3>2. PathOf(work[c]) \in Seq(Lifecycle)
      BY <3>1, FinishPath DEF RegistryInv
    <3> QED BY <2>1, <3>1, <3>2 DEF Finish
  <2>2. ASSUME NEW c \in Clients, ClientAction(c), ~ Finish(c)
        PROVE  status' = status
    BY <2>2 DEF ClientAction, Begins, Begin, ReadNext, ClientMoves, ReadPart, RecordSnapshot
  <2>3. ASSUME NEW y \in Components, NEW path, OperatorMoves(y, path)
        PROVE  path \in Seq(Lifecycle) /\ Become(y, path)
    BY <2>3 DEF OperatorMoves, Move
  <2> QED BY <2>1, <2>2, <2>3 DEF RegistryAction, registryVars
<1>2. ASSUME NEW y \in Components, NEW path \in Seq(Lifecycle), Become(y, path)
      PROVE  status'[x] # Absent
  <2>1. path[Len(path)] \in Lifecycle
    BY <1>2, BecomeTyped DEF RegistryInv
  <2> QED BY <1>2, <2>1, RegistryAssumption DEF Become, RegistryInv, Types
<1> QED BY <1>1, <1>2

\* The job of a client that a step leaves alone waits for the same.
LEMMA WaitsOn ==
  ASSUME Types, NEW d \in Clients, NEW j, Waits(j, work[d]), Undisturbed(d)
  PROVE  Waits(j, work'[d])
<1>1. work[d] \in Validation
  BY DEF Types
<1> QED BY <1>1 DEF Waits, Undisturbed

\* A step of a client that comes to own nothing new.
LEMMA ClientKeeps ==
  ASSUME FactoryInv, NEW c \in Clients, ClientAction(c),
         NEW j \in Job, job' = [job EXCEPT ![c] = j], built' = built,
         Waits(j, work'[c]),
         \A x \in OfKind("agent") : Owns(c, x)' => Owns(c, x)
  PROVE  FactoryInv'
<1>1. RegistryAction
  BY DEF RegistryAction
<1>2. RegistryInv'
  BY <1>1, RegistryInvKept DEF FactoryInv
<1>3. JobTypes' /\ job'[c] = j /\ \A d \in Clients : d # c => job'[d] = job[d]
  BY DEF FactoryInv, JobTypes
<1>4. \A d \in Clients : d # c => Undisturbed(d)
  BY OthersUndisturbed DEF FactoryInv, RegistryInv
<1>5. Jobs'
  <2>1. ASSUME NEW d \in Clients
        PROVE  Waits(job'[d], work'[d])
    <3>1. CASE d = c
      BY <1>3, <3>1
    <3>2. CASE d # c
      BY <1>3, <1>4, <3>2, WaitsOn DEF FactoryInv, RegistryInv, Jobs
    <3> QED BY <3>1, <3>2
  <2> QED BY <2>1 DEF Jobs
<1>6. \A d \in Clients, x \in OfKind("agent") : Owns(d, x)' => Owns(d, x)
  <2>1. ASSUME NEW d \in Clients, NEW x \in OfKind("agent"), d # c, Owns(d, x)'
        PROVE  Owns(d, x)
    BY <1>3, <1>4, <2>1 DEF Owns, Passed, Undisturbed
  <2> QED BY <2>1
<1>7. \A x \in OfKind("agent") : status[x] # Absent => status'[x] # Absent
  BY <1>1, StaysRegistered DEF FactoryInv, OfKind
<1>8. Owned'
  BY <1>6, <1>7 DEF FactoryInv, Owned
<1> QED BY <1>2, <1>3, <1>5, <1>8 DEF FactoryInv

\* The build whose registration ends well is the first one of its version.
LEMMA FinishKeeps ==
  ASSUME FactoryInv, NEW c \in Clients, Finish(c), UNCHANGED <<job, built>>
  PROVE  FactoryInv'
<1>1. RegistryAction /\ ClientAction(c)
  BY DEF RegistryAction, ClientAction
<1>2. RegistryInv'
  BY <1>1, RegistryInvKept DEF FactoryInv
<1>3. JobTypes'
  BY DEF FactoryInv, JobTypes
<1>4. /\ \A d \in Clients : d # c => Undisturbed(d)
      /\ work'[c].at \in {"passed", "failed"}
      /\ work'[c].op = work[c].op /\ work'[c].target = work[c].target
      /\ work'[c].unseen \subseteq work[c].unseen
      /\ work'[c].at = "passed" /\ work[c].op = "register" => status'[work[c].target] # Absent
  BY FinishFields DEF FactoryInv, RegistryInv
<1>5. /\ work[c].at = "reading" /\ Waits(job[c], work[c]) /\ Holding(c)
  BY DEF Finish, FactoryInv, RegistryInv, Jobs, Locking
<1>6. Jobs'
  <2>1. ASSUME NEW d \in Clients
        PROVE  Waits(job[d], work'[d])
    <3>1. CASE d = c
      BY <1>4, <1>5, <3>1 DEF Waits
    <3>2. CASE d # c
      BY <1>4, <3>2, WaitsOn DEF FactoryInv, RegistryInv, Jobs
    <3> QED BY <3>1, <3>2
  <2> QED BY <2>1 DEF Jobs
<1>7. \A d \in Clients, x \in OfKind("agent") : d # c => (Owns(d, x)' => Owns(d, x))
  BY <1>4 DEF Owns, Passed, Undisturbed
<1>8. ASSUME NEW x \in OfKind("agent"), Owns(c, x)', ~ Owns(c, x)
      PROVE  status[x] = Absent /\ status'[x] # Absent
  <2>1. job[c].at = "register" /\ work'[c].at = "passed" /\ job[c].of = x
    BY <1>8 DEF Owns, Passed
  <2>2. work[c].op = "register" /\ work[c].target = x
    BY <1>5, <2>1 DEF Waits
  <2> QED BY <1>4, <1>5, <2>1, <2>2 DEF Holding
<1>9. \A x \in OfKind("agent") : status[x] # Absent => status'[x] # Absent
  BY <1>1, StaysRegistered DEF FactoryInv, OfKind
<1>10. Owned'
  <2>1. ASSUME NEW x \in OfKind("agent")
        PROVE  /\ <<x, TRUE>> \in built' => status'[x] # Absent
               /\ \A d \in Clients : Owns(d, x)' => status'[x] # Absent /\ <<x, TRUE>> \notin built'
               /\ \A d, e \in Clients : Owns(d, x)' /\ Owns(e, x)' => d = e
    <3>1. /\ <<x, TRUE>> \in built => status[x] # Absent
          /\ \A d \in Clients : Owns(d, x) => status[x] # Absent /\ <<x, TRUE>> \notin built
          /\ \A d, e \in Clients : Owns(d, x) /\ Owns(e, x) => d = e
      BY DEF FactoryInv, Owned
    <3>2. CASE Owns(c, x)' /\ ~ Owns(c, x)
      <4>1. status[x] = Absent /\ status'[x] # Absent
        BY <1>8, <3>2
      <4>2. \A d \in Clients : d # c => ~ Owns(d, x)'
        BY <1>7, <3>1, <4>1
      <4> QED BY <3>1, <4>1, <4>2
    <3>3. CASE ~ (Owns(c, x)' /\ ~ Owns(c, x))
      <4>1. \A d \in Clients : Owns(d, x)' => Owns(d, x)
        BY <1>7, <3>3
      <4> QED BY <1>9, <3>1, <4>1
    <3> QED BY <3>2, <3>3
  <2> QED BY <2>1 DEF Owned
<1> QED BY <1>2, <1>3, <1>6, <1>10 DEF FactoryInv

\* The runtime of the build that registered is not replaced.
LEMMA AssembleKeeps ==
  ASSUME FactoryInv, NEW c \in Clients, Assemble(c)
  PROVE  FactoryInv'
<1> DEFINE y == job[c].of
           g == job[c].register
<1>1. /\ job[c].at = "assemble" /\ UNCHANGED registryVars
      /\ job' = [job EXCEPT ![c] = NoJob]
      /\ built' = {b \in built : b[1] # y} \union {<<y, g>>}
      /\ job[c] \in Job /\ y \in OfKind("agent") /\ g \in BOOLEAN
      /\ built \subseteq OfKind("agent") \X BOOLEAN
  BY DEF Assemble, FactoryInv, JobTypes, Jobs, Waits, Job
<1>2. RegistryInv'
  BY <1>1, RegistryInvKept DEF FactoryInv, RegistryAction
<1>3. NoJob \in Job
  <2>1. <<>> \in Seq(Reference)
    OBVIOUS
  <2> QED BY <2>1 DEF NoJob, Job
<1>4. JobTypes' /\ job'[c] = NoJob /\ \A d \in Clients : d # c => job'[d] = job[d]
  BY <1>1, <1>3 DEF FactoryInv, JobTypes
<1>5. work' = work /\ status' = status
  BY <1>1 DEF registryVars
<1>6. Jobs'
  <2>1. Waits(NoJob, work[c])
    BY DEF Waits, NoJob
  <2> QED BY <1>4, <1>5, <2>1 DEF FactoryInv, Jobs
<1>7. \A d \in Clients, x \in OfKind("agent") : Owns(d, x)' => Owns(d, x) /\ d # c
  BY <1>4, <1>5 DEF Owns, Passed, NoJob
<1>8. g => Owns(c, y)
  BY <1>1 DEF Owns
<1>9. \A x \in OfKind("agent") : <<x, TRUE>> \in built' => <<x, TRUE>> \in built \/ (x = y /\ g)
  BY <1>1
<1> HIDE DEF y, g
<1>10. Owned'
  <2>1. ASSUME NEW x \in OfKind("agent")
        PROVE  /\ <<x, TRUE>> \in built' => status'[x] # Absent
               /\ \A d \in Clients : Owns(d, x)' => status'[x] # Absent /\ <<x, TRUE>> \notin built'
               /\ \A d, e \in Clients : Owns(d, x)' /\ Owns(e, x)' => d = e
    <3>1. /\ <<x, TRUE>> \in built => status[x] # Absent
          /\ \A d \in Clients : Owns(d, x) => status[x] # Absent /\ <<x, TRUE>> \notin built
          /\ \A d, e \in Clients : Owns(d, x) /\ Owns(e, x) => d = e
      BY DEF FactoryInv, Owned
    <3> QED BY <1>5, <1>7, <1>8, <1>9, <3>1
  <2> QED BY <2>1 DEF Owned
<1> QED BY <1>2, <1>4, <1>6, <1>10 DEF FactoryInv

\* The same, of the job that the client is at afterwards.
LEMMA JobKeeps ==
  ASSUME FactoryInv, NEW c \in Clients, ClientAction(c),
         NEW j \in Job, job' = [job EXCEPT ![c] = j], built' = built,
         Waits(j, work'[c]),
         j.register /\ (j.at \in {"activate", "assemble"} \/ (j.at = "register" /\ work'[c].at = "passed"))
           => Owns(c, j.of)
  PROVE  FactoryInv'
<1>1. job'[c] = j
  BY DEF FactoryInv, JobTypes
<1>2. \A x \in OfKind("agent") : Owns(c, x)' => Owns(c, x)
  BY <1>1 DEF Owns, Passed
<1> QED BY <1>2, ClientKeeps

\* A validation that begins.
LEMMA BeginsFields ==
  ASSUME Types, NEW c \in Clients, NEW op, NEW x, NEW to, NEW allowed, Begins(c, op, x, to, allowed)
  PROVE  /\ work'[c].at = "reading" /\ work'[c].op = op /\ work'[c].target = x
         /\ work'[c].unseen = {y \in Components : status[y] \notin allowed}
BY DEF Begins, Begin, Types

\* A step that begins a validation, for a job that is not past it.
LEMMA BeginKeeps ==
  ASSUME FactoryInv, NEW c \in Clients,
         NEW x \in Components, NEW op \in Operations, NEW to \in Statuses, NEW allowed \in SUBSET Lifecycle,
         Begins(c, op, x, to, allowed),
         NEW j \in Job, job' = [job EXCEPT ![c] = j], built' = built,
         j.at # "none" => j.of \in OfKind("agent"),
         j.at \notin {"snapshot", "running"},
         j.at = "skill" => j.todo # <<>>,
         j.at = "register" => op = "register" /\ x = j.of,
         j.at = "guard" => x = j.of /\ status[x] \in allowed,
         j.at \in {"activate", "assemble"} => j = job[c]
  PROVE  FactoryInv'
<1>1. ClientAction(c)
  BY DEF ClientAction
<1>2. /\ work'[c].at = "reading" /\ work'[c].op = op /\ work'[c].target = x
      /\ work'[c].unseen = {y \in Components : status[y] \notin allowed}
  BY BeginsFields DEF FactoryInv, RegistryInv
<1>3. Waits(j, work'[c])
  BY <1>2 DEF Waits
<1>4. j.register /\ (j.at \in {"activate", "assemble"} \/ (j.at = "register" /\ work'[c].at = "passed"))
        => Owns(c, j.of)
  BY <1>2 DEF Owns
<1> QED BY <1>1, <1>3, <1>4, JobKeeps

\* What clients that call the registries directly do.
LEMMA CallActs ==
  ASSUME Types, NEW c \in Clients, Call(c)
  PROVE  ClientAction(c)
<1>1. Registrable \subseteq Lifecycle /\ Usable \subseteq Lifecycle /\ {"active"} \subseteq Lifecycle
  BY RegistryAssumption DEF Usable, Lifecycle
<1>2. \A s : Demanded(s) \in SUBSET Lifecycle
  BY <1>1 DEF Demanded
<1>3. Absent \in Statuses /\ Registrable \subseteq Statuses
  BY <1>1 DEF Statuses
<1>4. ASSUME NEW x \in Components, NEW s \in Registrable, RegisterSkill(c, x, s) \/ RegisterAgent(c, x, s)
      PROVE  Begins(c, "register", x, s, Demanded(s))
  BY <1>1, <1>4 DEF Begins, RegisterSkill, RegisterAgent
<1>5. ASSUME NEW x \in Components, ValidateSkill(c, x) \/ ValidateAgent(c, x)
      PROVE  Begins(c, "validate", x, Absent, Usable)
  BY <1>5 DEF Begins, ValidateSkill, ValidateAgent
<1>6. ASSUME NEW x \in Components, ActivateSkill(c, x) \/ ActivateAgent(c, x)
      PROVE  Begins(c, "activate", x, Absent, {"active"})
  BY <1>6 DEF Begins, ActivateSkill, ActivateAgent
<1>7. ASSUME NEW x \in Components, ResolveSkill(c, x) \/ ResolveAgent(c, x)
      PROVE  Begins(c, "resolve", x, Absent, {"active"})
  BY <1>7 DEF Begins, ResolveSkill, ResolveAgent
<1>8. ASSUME NEW x \in Components, NEW active \in BOOLEAN, CheckCompatibility(c, x, active)
      PROVE  Begins(c, "check", x, Absent, {"active"}) \/ Begins(c, "check", x, Absent, Usable)
  BY <1>8 DEF Begins, CheckCompatibility
<1>9. ASSUME NEW k \in {"prompt", "skill", "agent"}, NEW full \in BOOLEAN, Snapshot(c, k, full, {})
      PROVE  ClientMoves(c)
  <2>1. {} \in SUBSET (Components \X Lifecycle)
    OBVIOUS
  <2> QED BY <1>9, <2>1 DEF Snapshot, ClientMoves, Lets, SnapshotMoves, Reading
<1>10. \/ \E x \in Components, op \in Operations, to \in Statuses, allowed \in SUBSET Lifecycle :
             Begins(c, op, x, to, allowed)
       \/ ClientMoves(c)
  <2>1. Operations = {"none", "register", "validate", "activate", "resolve", "check"}
    BY DEF Operations
  <2>2. CASE \E k \in {"prompt", "skill", "agent"}, full \in BOOLEAN : Snapshot(c, k, full, {})
    BY <1>9, <2>2
  <2>3. CASE \E x \in Components :
               \/ \E s \in Registrable : RegisterSkill(c, x, s) \/ RegisterAgent(c, x, s)
               \/ ValidateSkill(c, x) \/ ActivateSkill(c, x)
               \/ ValidateAgent(c, x) \/ ActivateAgent(c, x)
               \/ ResolveSkill(c, x) \/ ResolveAgent(c, x)
               \/ \E active \in BOOLEAN : CheckCompatibility(c, x, active)
    <3>1. PICK x \in Components :
               \/ \E s \in Registrable : Begins(c, "register", x, s, Demanded(s))
               \/ Begins(c, "validate", x, Absent, Usable)
               \/ Begins(c, "activate", x, Absent, {"active"})
               \/ Begins(c, "resolve", x, Absent, {"active"})
               \/ Begins(c, "check", x, Absent, {"active"}) \/ Begins(c, "check", x, Absent, Usable)
      BY <1>4, <1>5, <1>6, <1>7, <1>8, <2>3
    <3> QED BY <1>1, <1>2, <1>3, <2>1, <3>1
  <2> QED BY <2>2, <2>3 DEF Call, Change
<1> QED BY <1>10 DEF ClientAction

\* What operators do: every change of a skill or an agent is of one that nobody
\* is validating.
LEMMA OperatorsMove ==
  ASSUME Types, OperatorStep
  PROVE  \E x \in Components, path \in Seq(Lifecycle) : OperatorMoves(x, path)
<1>1. Registrable \subseteq Lifecycle /\ Moves \subseteq Lifecycle
  BY RegistryAssumption
<1>2. \A s \in Registrable \union Moves : <<s>> \in Seq(Lifecycle)
  BY <1>1
<1>3. \A s : ValidatePath(s) \in Seq(Lifecycle) /\ ActivatePath(s) \in Seq(Lifecycle)
  BY PathsTyped
<1>4. PICK x \in Components :
        \/ \E s \in Registrable : RegisterPrompt(x, s) \/ RegisterTool(x, s) \/ RegisterDraft(x, s)
        \/ ValidatePrompt(x) \/ ActivatePrompt(x)
        \/ \E s \in Moves : WithdrawPrompt(x, s) \/ MoveTool(x, s) \/ WithdrawSkill(x, s) \/ WithdrawAgent(x, s)
  BY DEF OperatorStep
<1>5. ASSUME NEW s \in Registrable, RegisterPrompt(x, s) \/ RegisterTool(x, s) \/ RegisterDraft(x, s)
      PROVE  OperatorMoves(x, <<s>>)
  BY <1>2, <1>5 DEF OperatorMoves, RegisterPrompt, RegisterTool, RegisterDraft
<1>6. ASSUME NEW s \in Moves, WithdrawPrompt(x, s) \/ MoveTool(x, s) \/ WithdrawSkill(x, s) \/ WithdrawAgent(x, s)
      PROVE  OperatorMoves(x, <<s>>)
  BY <1>2, <1>6 DEF OperatorMoves, WithdrawPrompt, MoveTool, WithdrawSkill, WithdrawAgent
<1>7. ASSUME ValidatePrompt(x) \/ ActivatePrompt(x)
      PROVE  \E path \in Seq(Lifecycle) : OperatorMoves(x, path)
  BY <1>3, <1>7 DEF OperatorMoves, ValidatePrompt, ActivatePrompt
<1> QED BY <1>2, <1>4, <1>5, <1>6, <1>7

\* Nothing of the registries or of the jobs changes but what operators do.
LEMMA OperatorsKeep ==
  ASSUME FactoryInv, OperatorStep, UNCHANGED <<job, built>>
  PROVE  FactoryInv'
<1>1. PICK x \in Components, path \in Seq(Lifecycle) : OperatorMoves(x, path)
  BY OperatorsMove DEF FactoryInv, RegistryInv
<1>2. RegistryAction
  BY <1>1 DEF RegistryAction
<1>3. RegistryInv'
  BY <1>2, RegistryInvKept DEF FactoryInv
<1>4. \A d \in Clients : Undisturbed(d)
  BY <1>1, OperatorsUndisturbing DEF FactoryInv, RegistryInv
<1>5. JobTypes'
  BY DEF FactoryInv, JobTypes
<1>6. Jobs'
  <2>1. ASSUME NEW d \in Clients
        PROVE  Waits(job[d], work'[d])
    BY <1>4, WaitsOn DEF FactoryInv, RegistryInv, Jobs
  <2> QED BY <2>1 DEF Jobs
<1>7. \A d \in Clients, y \in OfKind("agent") : Owns(d, y)' => Owns(d, y)
  BY <1>4 DEF Owns, Passed, Undisturbed
<1>8. \A y \in OfKind("agent") : status[y] # Absent => status'[y] # Absent
  BY <1>2, StaysRegistered DEF FactoryInv, OfKind
<1>9. Owned'
  BY <1>7, <1>8 DEF FactoryInv, Owned
<1> QED BY <1>3, <1>5, <1>6, <1>9 DEF FactoryInv

\* A step that leaves the registries and the jobs alone.
LEMMA NothingKeeps ==
  ASSUME FactoryInv, UNCHANGED <<registryVars, job, built>>
  PROVE  FactoryInv'
<1>1. RegistryInv'
  BY RegistryInvKept DEF FactoryInv, RegistryAction
<1>2. JobTypes' /\ Jobs' /\ Owned'
  BY DEF FactoryInv, JobTypes, Jobs, Owned, Owns, Passed, registryVars
<1> QED BY <1>1, <1>2 DEF FactoryInv

\* A job that is over waits for nothing, whatever its client does next.
LEMMA OverKeeps ==
  ASSUME FactoryInv, NEW c \in Clients, ClientAction(c), job' = [job EXCEPT ![c] = NoJob], built' = built
  PROVE  FactoryInv'
<1>1. NoJob \in Job
  <2>1. <<>> \in Seq(Reference)
    OBVIOUS
  <2> QED BY <2>1 DEF NoJob, Job
<1>2. NoJob.at = "none"
  BY DEF NoJob
<1> QED BY <1>1, <1>2, JobKeeps DEF Waits

\* The steps of a client whose job stays where it is.
LEMMA StepsKeep ==
  ASSUME FactoryInv, NEW c \in Clients, UNCHANGED <<job, built>>,
         ClientStep(c) \/ (job[c].at = "none" /\ (Call(c) \/ Return(c) \/ ReturnSnapshot(c)))
  PROVE  FactoryInv'
<1>1. /\ job[c] \in Job /\ job' = [job EXCEPT ![c] = job[c]]
      /\ Waits(job[c], work[c]) /\ work \in [Clients -> Validation] /\ Types
  BY DEF FactoryInv, JobTypes, Jobs, RegistryInv, Types
<1>2. CASE Finish(c)
  BY <1>2, FinishKeeps
<1>3. CASE job[c].at = "none" /\ (Call(c) \/ Return(c) \/ ReturnSnapshot(c))
  <2>1. ClientAction(c)
    BY <1>1, <1>3, CallActs DEF ClientAction, ClientMoves, Lets, SnapshotMoves, Return, ReturnSnapshot, Done
  <2>2. Waits(job[c], work'[c])
    BY <1>3 DEF Waits
  <2> QED BY <1>1, <1>3, <2>1, <2>2, JobKeeps
<1>4. CASE ReadNext(c)
  <2>1. /\ work[c].at = "reading" /\ work'[c].at \in {"reading", "failed"}
        /\ work'[c].op = work[c].op /\ work'[c].target = work[c].target /\ work'[c].unseen = work[c].unseen
    <3>1. /\ work[c].at = "reading"
          /\ \E todo, visited :
               \/ work' = [work EXCEPT ![c].todo = todo]
               \/ work' = [work EXCEPT ![c].at = "failed", ![c].todo = todo]
               \/ work' = [work EXCEPT ![c].todo = todo, ![c].visited = visited]
      <4> DEFINE l == Head(work[c].todo)
                 more == Below(l, work[c].visited) \o Tail(work[c].todo)
                 seen == {l.of} \union IF l.path = {} THEN {} ELSE work[c].visited
      <4>1. /\ work[c].at = "reading"
            /\ \/ work' = [work EXCEPT ![c].todo = Tail(@)]
               \/ work' = [work EXCEPT ![c].at = "failed", ![c].todo = <<>>]
               \/ work' = [work EXCEPT ![c].todo = more, ![c].visited = seen]
        BY <1>4 DEF ReadNext
      <4> HIDE DEF more, seen
      <4>2. work' = [work EXCEPT ![c].todo = Tail(@)]
              => work' = [work EXCEPT ![c].todo = Tail(work[c].todo)]
        OBVIOUS
      <4> QED BY <4>1, <4>2
    <3>2. work[c] \in Validation /\ work \in [Clients -> Validation]
      BY <1>1
    <3> QED BY ONLY <3>1, <3>2, c \in Clients DEF Validation
  <2>2. Waits(job[c], work'[c])
    BY <1>1, <2>1 DEF Waits
  <2> QED BY <1>1, <1>4, <2>1, <2>2, JobKeeps DEF ClientAction, Owns
<1>5. CASE ReadPart(c) \/ RecordSnapshot(c)
  <2>1. work' = work
    BY <1>5 DEF ReadPart, RecordSnapshot
  <2> QED BY <1>1, <1>5, <2>1, JobKeeps DEF ClientAction, Owns, Passed
<1> QED BY <1>2, <1>3, <1>4, <1>5 DEF ClientStep

\* What the factory knows of the job and of the validation of a client.
LEMMA JobFacts ==
  ASSUME FactoryInv, NEW c \in Clients
  PROVE  /\ job[c] \in Job /\ job \in [Clients -> Job]
         /\ work \in [Clients -> Validation] /\ work[c] \in Validation
         /\ job[c].at # "none" => job[c].of \in OfKind("agent") /\ job[c].of \in Components
         /\ Waits(job[c], work[c])
BY DEF FactoryInv, JobTypes, Jobs, RegistryInv, Types, Waits, OfKind

\* Its job moves, and nothing else.
LEMMA GoesKeeps ==
  ASSUME FactoryInv, NEW c \in Clients, UNCHANGED <<registryVars, built>>,
         NEW j \in Job, job' = [job EXCEPT ![c] = j], Waits(j, work[c]),
         j.register /\ (j.at \in {"activate", "assemble"} \/ (j.at = "register" /\ work[c].at = "passed"))
           => Owns(c, j.of)
  PROVE  FactoryInv'
<1>1. ClientAction(c) /\ work' = work
  BY DEF ClientAction, ClientMoves, Lets, SnapshotMoves, registryVars
<1> QED BY <1>1, JobKeeps

\* Its job moves as it takes the answer of a validation.
LEMMA DoneKeeps ==
  ASSUME FactoryInv, NEW c \in Clients, work[c].at \in {"passed", "failed"}, Done(c), SnapshotMoves(c),
         UNCHANGED <<scope, status, revision, events, holder, built>>,
         NEW j \in Job, job' = [job EXCEPT ![c] = j],
         j.at # "none" => j.of \in OfKind("agent"), j.at \notin {"skill", "guard", "running"},
         j.register /\ j.at \in {"activate", "assemble"} => Owns(c, j.of)
  PROVE  FactoryInv'
<1>1. ClientAction(c)
  BY DEF ClientAction, ClientMoves, Lets
<1>2. work'[c] = Idle
  BY JobFacts DEF Done
<1>3. Waits(j, work'[c]) /\ work'[c].at # "passed"
  BY <1>2 DEF Waits, Idle
<1> QED BY <1>1, <1>3, JobKeeps

\* A client at rest, and one that takes an answer.
LEMMA MovesAct ==
  ASSUME NEW c \in Clients, UNCHANGED <<scope, status, revision, events, holder>>,
         work' = work \/ (work[c].at \in {"passed", "failed"} /\ Done(c)), SnapshotMoves(c)
  PROVE  ClientAction(c)
BY DEF ClientAction, ClientMoves, Lets

\* What becomes of a job whose call failed.
LEMMA GivesUpKeeps ==
  ASSUME FactoryInv, NEW c \in Clients, GivesUp(c)
  PROVE  FactoryInv'
<1>1. ClientAction(c)
  BY MovesAct DEF GivesUp, SnapshotMoves
<1> QED BY <1>1, OverKeeps DEF GivesUp

\* A build begins with the references of its agent.
LEMMA BuildKeeps ==
  ASSUME FactoryInv, NEW c \in Clients, NEW x \in OfKind("agent"),
         NEW dryRun \in BOOLEAN, NEW activate \in BOOLEAN, NEW register \in BOOLEAN,
         Build(c, x, dryRun, activate, register)
  PROVE  FactoryInv'
<1> DEFINE j == [at |-> "lookup", of |-> x, dryRun |-> dryRun, activate |-> activate,
                 register |-> register, todo |-> Refs[x]]
<1>1. x \in Components /\ Refs[x] \in Seq(Reference)
  BY RegistryAssumption DEF OfKind
<1>2. j \in Job
  BY <1>1 DEF Job
<1>3. job' = [job EXCEPT ![c] = j] /\ UNCHANGED <<registryVars, built>>
  BY DEF Build
<1>4. j.at = "lookup" /\ j.of = x
  OBVIOUS
<1> HIDE DEF j
<1>5. Waits(j, work[c])
  BY <1>4 DEF Waits
<1> QED BY <1>2, <1>3, <1>4, <1>5, GoesKeeps

\* A reference of a build is looked up.
LEMMA LookUpKeeps ==
  ASSUME FactoryInv, NEW c \in Clients, LookUp(c)
  PROVE  FactoryInv'
<1> DEFINE j == [job[c] EXCEPT !.todo = Tail(job[c].todo)]
<1>1. job[c].at = "lookup" /\ job[c].todo # <<>> /\ UNCHANGED <<registryVars, built>>
  BY DEF LookUp
<1>0. job' = [job EXCEPT ![c] = j] \/ job' = [job EXCEPT ![c] = NoJob]
  <2>1. job' = [job EXCEPT ![c] = IF status[Wanted(c)] \in Accepted(job[c]) THEN j ELSE NoJob]
    BY DEF LookUp
  <2> HIDE DEF j
  <2>2. CASE status[Wanted(c)] \in Accepted(job[c])
    BY <2>1, <2>2
  <2>3. CASE status[Wanted(c)] \notin Accepted(job[c])
    BY <2>1, <2>3
  <2> QED BY <2>2, <2>3
<1>2. ClientAction(c)
  BY <1>1, MovesAct DEF registryVars, SnapshotMoves
<1>3. job[c] \in Job /\ Waits(job[c], work[c])
  BY JobFacts
<1>4. j \in Job /\ j.at = "lookup" /\ j.of = job[c].of
  BY <1>1, <1>3 DEF Job
<1> HIDE DEF j
<1>5. Waits(j, work[c])
  BY <1>1, <1>3, <1>4 DEF Waits
<1>6. CASE job' = [job EXCEPT ![c] = j]
  BY <1>1, <1>4, <1>5, <1>6, GoesKeeps
<1>7. CASE job' = [job EXCEPT ![c] = NoJob]
  BY <1>1, <1>2, <1>7, OverKeeps
<1> QED BY <1>0, <1>6, <1>7

\* A skill of an active agent is validated.
LEMMA LookUpSkillKeeps ==
  ASSUME FactoryInv, NEW c \in Clients, LookUpSkill(c)
  PROVE  FactoryInv'
<1> DEFINE j == [job[c] EXCEPT !.at = "skill"]
           x == Wanted(c)
<1>1. /\ job[c].at = "lookup" /\ job[c].todo # <<>> /\ UNCHANGED built
      /\ \/ ResolveSkill(c, x) /\ job' = [job EXCEPT ![c] = j]
         \/ job' = [job EXCEPT ![c] = NoJob] /\ UNCHANGED registryVars
  BY DEF LookUpSkill, Goes
<1>2. job[c] \in Job /\ job[c].of \in OfKind("agent")
  BY <1>1, JobFacts
<1>3. job[c].todo \in Seq(Reference)
  BY <1>2 DEF Job
<1>4. x \in Components
  <2>1. Head(job[c].todo) \in Reference
    BY <1>1, <1>3
  <2> QED BY <2>1 DEF Wanted, Reference
<1>5. j \in Job /\ j.at = "skill" /\ j.of = job[c].of /\ j.todo # <<>>
  BY <1>1, <1>2 DEF Job
<1> HIDE DEF j, x
<1>6. CASE ResolveSkill(c, x) /\ job' = [job EXCEPT ![c] = j]
  <2>1. Begins(c, "resolve", x, Absent, {"active"})
    BY <1>6 DEF ResolveSkill, Begins
  <2>2. "resolve" \in Operations /\ Absent \in Statuses /\ {"active"} \in SUBSET Lifecycle
    BY DEF Operations, Statuses, Lifecycle
  <2> QED BY <1>1, <1>2, <1>4, <1>5, <1>6, <2>1, <2>2, BeginKeeps
<1>7. CASE job' = [job EXCEPT ![c] = NoJob] /\ UNCHANGED registryVars
  <2>1. ClientAction(c)
    BY <1>7, MovesAct DEF registryVars, SnapshotMoves
  <2> QED BY <1>1, <1>7, <2>1, OverKeeps
<1> QED BY <1>1, <1>6, <1>7

\* The next reference.
LEMMA SkillFoundKeeps ==
  ASSUME FactoryInv, NEW c \in Clients, SkillFound(c)
  PROVE  FactoryInv'
<1> DEFINE j == [job[c] EXCEPT !.at = "lookup", !.todo = Tail(job[c].todo)]
<1>1. job[c].at = "skill" /\ work[c].at = "passed" /\ Done(c)
      /\ UNCHANGED <<scope, status, revision, events, holder, snapshot, built>>
      /\ job' = [job EXCEPT ![c] = [job[c] EXCEPT !.at = "lookup", !.todo = Tail(@)]]
  BY JobFacts DEF SkillFound, Passed
<1>2. job[c] \in Job /\ job[c].of \in OfKind("agent")
  BY <1>1, JobFacts
<1>6. job[c].todo \in Seq(Reference) /\ job[c].todo # <<>>
  BY <1>1, <1>2, JobFacts DEF Job, Waits
<1>7. Tail(job[c].todo) \in Seq(Reference)
  BY <1>6
<1>3. j \in Job /\ j.at = "lookup" /\ j.of = job[c].of
  BY <1>2, <1>7 DEF Job
<1>4. job' = [job EXCEPT ![c] = j]
  BY <1>1
<1> HIDE DEF j
<1>5. SnapshotMoves(c)
  BY <1>1 DEF SnapshotMoves
<1> QED BY <1>1, <1>2, <1>3, <1>4, <1>5, DoneKeeps

\* With its references found, the agent itself is checked.
LEMMA CheckKeeps ==
  ASSUME FactoryInv, NEW c \in Clients, Check(c)
  PROVE  FactoryInv'
<1> DEFINE j == [job[c] EXCEPT !.at = "check"]
           x == job[c].of
           allowed == IF job[c].activate THEN {"active"} ELSE Usable
<1>1. /\ job[c].at = "lookup" /\ CheckCompatibility(c, x, job[c].activate)
      /\ job' = [job EXCEPT ![c] = j] /\ UNCHANGED built
  BY DEF Check, Goes
<1>2. job[c] \in Job /\ x \in OfKind("agent") /\ x \in Components
  BY <1>1, JobFacts
<1>3. j \in Job /\ j.at = "check" /\ j.of = x
  BY <1>2 DEF Job
<1>4. Begins(c, "check", x, Absent, allowed)
  BY <1>1 DEF CheckCompatibility, Begins
<1>5. "check" \in Operations /\ Absent \in Statuses /\ allowed \in SUBSET Lifecycle
  BY DEF Operations, Statuses, Usable, Lifecycle
<1> HIDE DEF j, x, allowed
<1> QED BY <1>1, <1>2, <1>3, <1>4, <1>5, BeginKeeps

\* The status that a build gives its agent.
LEMMA TargetsTyped ==
  ASSUME NEW j
  PROVE  TargetStatus(j) \in Usable /\ TargetStatus(j) \in Lifecycle
BY DEF TargetStatus, Usable, Lifecycle

\* The snapshot of a build begins as its check ends.
LEMMA CheckedKeeps ==
  ASSUME FactoryInv, NEW c \in Clients, Checked(c)
  PROVE  FactoryInv'
<1> DEFINE j == [job[c] EXCEPT !.at = "snapshot"]
           overrides == {<<job[c].of, TargetStatus(job[c])>>}
<1>1. /\ job[c].at = "check" /\ work[c].at = "passed" /\ Done(c)
      /\ UNCHANGED <<scope, status, revision, events, holder, built>>
      /\ \/ job' = [job EXCEPT ![c] = j] /\ snapshot' = [snapshot EXCEPT ![c] = Reading("agent", ~ job[c].activate, overrides)]
         \/ job' = [job EXCEPT ![c] = NoJob] /\ snapshot' = snapshot
  BY DEF Checked, Passed, Goes, Reading
<1>2. job[c] \in Job /\ job[c].of \in OfKind("agent") /\ job[c].of \in Components
  BY <1>1, JobFacts
<1>3. j \in Job /\ j.at = "snapshot" /\ j.of = job[c].of
  BY <1>2 DEF Job
<1>4. overrides \in SUBSET (Components \X Lifecycle) /\ (~ job[c].activate) \in BOOLEAN
  BY <1>2, TargetsTyped
<1> HIDE DEF j, overrides
<1>5. SnapshotMoves(c)
  BY <1>1, <1>4 DEF SnapshotMoves
<1>6. CASE job' = [job EXCEPT ![c] = j]
  BY <1>1, <1>2, <1>3, <1>5, <1>6, DoneKeeps
<1>7. CASE job' = [job EXCEPT ![c] = NoJob]
  <2>1. ClientAction(c)
    BY <1>1, <1>5, MovesAct
  <2> QED BY <1>1, <1>7, <2>1, OverKeeps
<1> QED BY <1>1, <1>6, <1>7

\* Only a build that does not register gets to its runtime from here.
LEMMA ResolvedKeeps ==
  ASSUME FactoryInv, NEW c \in Clients, Resolved(c)
  PROVE  FactoryInv'
<1> DEFINE j == [job[c] EXCEPT !.at = IF job[c].register THEN "register" ELSE "assemble"]
<1>1. /\ job[c].at = "snapshot" /\ snapshot' = [snapshot EXCEPT ![c] = NoSnapshot]
      /\ UNCHANGED <<scope, status, revision, events, holder, work, built>>
      /\ job' = [job EXCEPT ![c] = j] \/ job' = [job EXCEPT ![c] = NoJob]
  BY DEF Resolved, Goes
<1>2. /\ job[c] \in Job /\ job[c].of \in OfKind("agent") /\ work[c].at = "idle"
  BY <1>1, JobFacts DEF Waits
<1>3. /\ j \in Job /\ j.of = job[c].of /\ j.register = job[c].register
      /\ j.at = IF job[c].register THEN "register" ELSE "assemble"
  BY <1>2 DEF Job
<1> HIDE DEF j
<1>4. SnapshotMoves(c)
  BY <1>1 DEF SnapshotMoves
<1>5. ClientAction(c)
  BY <1>1, <1>4, MovesAct
<1>6. Waits(j, work'[c]) /\ work'[c].at = "idle"
  BY <1>1, <1>2, <1>3 DEF Waits
<1>7. ~ (j.register /\ (j.at \in {"activate", "assemble"} \/ (j.at = "register" /\ work'[c].at = "passed")))
  BY <1>3, <1>6
<1>8. CASE job' = [job EXCEPT ![c] = j]
  BY <1>1, <1>3, <1>5, <1>6, <1>7, <1>8, JobKeeps
<1>9. CASE job' = [job EXCEPT ![c] = NoJob]
  BY <1>1, <1>5, <1>9, OverKeeps
<1> QED BY <1>1, <1>8, <1>9

\* The registration of a build is a validation of its agent, which is not there.
LEMMA RegisterKeeps ==
  ASSUME FactoryInv, NEW c \in Clients, Register(c)
  PROVE  FactoryInv'
<1> DEFINE x == job[c].of
           s == TargetStatus(job[c])
<1>1. /\ job[c].at = "register" /\ work[c].at = "idle" /\ UNCHANGED built
      /\ \/ RegisterAgent(c, x, s) /\ job' = job
         \/ job' = [job EXCEPT ![c] = NoJob] /\ UNCHANGED registryVars
  BY DEF Register
<1>2. job[c] \in Job /\ x \in OfKind("agent") /\ x \in Components /\ s \in Lifecycle
      /\ job \in [Clients -> Job]
  BY <1>1, JobFacts, TargetsTyped
<1> HIDE DEF x, s
<1>3. CASE RegisterAgent(c, x, s) /\ job' = job
  <2>1. Begins(c, "register", x, s, Demanded(s))
    BY <1>2, <1>3 DEF RegisterAgent, Begins
  <2>2. "register" \in Operations /\ s \in Statuses /\ Demanded(s) \in SUBSET Lifecycle
    BY <1>2 DEF Operations, Statuses, Demanded, Usable, Lifecycle
  <2>3. job' = [job EXCEPT ![c] = job[c]]
    BY <1>2, <1>3
  <2>4. job[c].of = x
    BY DEF x
  <2> QED BY <1>1, <1>2, <2>1, <2>2, <2>3, <2>4, BeginKeeps
<1>4. CASE job' = [job EXCEPT ![c] = NoJob] /\ UNCHANGED registryVars
  <2>1. ClientAction(c)
    BY <1>4, MovesAct DEF registryVars, SnapshotMoves
  <2> QED BY <1>1, <1>4, <2>1, OverKeeps
<1> QED BY <1>1, <1>3, <1>4

\* A build that registered its agent goes on to activate it, or is over.
LEMMA RegisteredKeeps ==
  ASSUME FactoryInv, NEW c \in Clients, Registered(c)
  PROVE  FactoryInv'
<1> DEFINE j == [job[c] EXCEPT !.at = "activate"]
<1>1. /\ job[c].at = "register" /\ work[c].at = "passed" /\ Done(c)
      /\ UNCHANGED <<scope, status, revision, events, holder, snapshot, built>>
      /\ job' = [job EXCEPT ![c] = j] \/ job' = [job EXCEPT ![c] = NoJob]
  BY DEF Registered, Passed, Goes
<1>2. job[c] \in Job /\ job[c].of \in OfKind("agent")
  BY <1>1, JobFacts
<1>3. j \in Job /\ j.at = "activate" /\ j.of = job[c].of /\ j.register = job[c].register
  BY <1>2 DEF Job
<1> HIDE DEF j
<1>4. SnapshotMoves(c)
  BY <1>1 DEF SnapshotMoves
<1>5. j.register => Owns(c, j.of)
  BY <1>1, <1>3 DEF Owns, Passed
<1>6. CASE job' = [job EXCEPT ![c] = j]
  BY <1>1, <1>2, <1>3, <1>4, <1>5, <1>6, DoneKeeps
<1>7. CASE job' = [job EXCEPT ![c] = NoJob]
  <2>1. ClientAction(c)
    BY <1>1, <1>4, MovesAct
  <2> QED BY <1>1, <1>7, <2>1, OverKeeps
<1> QED BY <1>1, <1>6, <1>7

\* The activation begins.
LEMMA ActivateKeeps ==
  ASSUME FactoryInv, NEW c \in Clients, Activate(c)
  PROVE  FactoryInv'
<1> DEFINE x == job[c].of
<1>1. job[c].at = "activate" /\ ActivateAgent(c, x) /\ UNCHANGED <<job, built>>
  BY DEF Activate
<1>2. job[c] \in Job /\ x \in OfKind("agent") /\ x \in Components /\ job \in [Clients -> Job]
  BY <1>1, JobFacts
<1>3. Begins(c, "activate", x, Absent, {"active"})
  BY <1>1 DEF ActivateAgent, Begins
<1>4. "activate" \in Operations /\ Absent \in Statuses /\ {"active"} \in SUBSET Lifecycle
  BY DEF Operations, Statuses, Lifecycle
<1>5. job' = [job EXCEPT ![c] = job[c]]
  BY <1>1, <1>2
<1> QED BY <1>1, <1>2, <1>3, <1>4, <1>5, BeginKeeps

\* The activation has passed.
LEMMA ActivatedKeeps ==
  ASSUME FactoryInv, NEW c \in Clients, Activated(c)
  PROVE  FactoryInv'
<1> DEFINE j == [job[c] EXCEPT !.at = "assemble"]
<1>1. /\ job[c].at = "activate" /\ work[c].at = "passed" /\ Done(c)
      /\ UNCHANGED <<scope, status, revision, events, holder, snapshot, built>>
      /\ job' = [job EXCEPT ![c] = j]
  BY DEF Activated, Passed, Goes
<1>2. job[c] \in Job /\ job[c].of \in OfKind("agent")
  BY <1>1, JobFacts
<1>3. j \in Job /\ j.at = "assemble" /\ j.of = job[c].of /\ j.register = job[c].register
  BY <1>2 DEF Job
<1> HIDE DEF j
<1>4. SnapshotMoves(c)
  BY <1>1 DEF SnapshotMoves
<1>5. j.register => Owns(c, j.of)
  BY <1>1, <1>3 DEF Owns
<1> QED BY <1>1, <1>2, <1>3, <1>4, <1>5, DoneKeeps

\* A run is asked for, of an agent that is active when its guard begins.
LEMMA GuardingKeeps ==
  ASSUME FactoryInv, NEW c \in Clients, NEW x \in OfKind("agent"), NEW at \in {"entry", "guard"},
         Guarding(c, x, at)
  PROVE  FactoryInv'
<1> DEFINE j == [NoJob EXCEPT !.at = at, !.of = x]
<1>1. /\ UNCHANGED built
      /\ \/ status[x] = "active" /\ ResolveAgent(c, x) /\ job' = [job EXCEPT ![c] = j]
         \/ job' = [job EXCEPT ![c] = NoJob] /\ UNCHANGED registryVars
  BY DEF Guarding
<1>2. x \in Components
  BY DEF OfKind
<1>3. j \in Job /\ j.at = at /\ j.of = x
  <2>1. <<>> \in Seq(Reference)
    OBVIOUS
  <2> QED BY <1>2, <2>1 DEF NoJob, Job
<1> HIDE DEF j
<1>4. CASE status[x] = "active" /\ ResolveAgent(c, x) /\ job' = [job EXCEPT ![c] = j]
  <2>1. Begins(c, "resolve", x, Absent, {"active"})
    BY <1>4 DEF ResolveAgent, Begins
  <2>2. "resolve" \in Operations /\ Absent \in Statuses /\ {"active"} \in SUBSET Lifecycle
    BY DEF Operations, Statuses, Lifecycle
  <2> QED BY <1>1, <1>2, <1>3, <1>4, <2>1, <2>2, BeginKeeps
<1>5. CASE job' = [job EXCEPT ![c] = NoJob] /\ UNCHANGED registryVars
  <2>1. ClientAction(c)
    BY <1>5, MovesAct DEF registryVars, SnapshotMoves
  <2> QED BY <1>1, <1>5, <2>1, OverKeeps
<1> QED BY <1>1, <1>4, <1>5

\* The two ways in.
LEMMA EntersKeep ==
  ASSUME FactoryInv, NEW c \in Clients, NEW x \in OfKind("agent"), Execute(c, x) \/ Resume(c, x)
  PROVE  FactoryInv'
BY GuardingKeeps DEF Execute, Resume

\* The runtime is called.
LEMMA EntryPassedKeeps ==
  ASSUME FactoryInv, NEW c \in Clients, EntryPassed(c)
  PROVE  FactoryInv'
<1> DEFINE j == [job[c] EXCEPT !.at = "called"]
<1>1. /\ job[c].at = "entry" /\ work[c].at = "passed" /\ Done(c)
      /\ UNCHANGED <<scope, status, revision, events, holder, snapshot, built>>
      /\ job' = [job EXCEPT ![c] = j]
  BY DEF EntryPassed, Passed, Goes
<1>2. job[c] \in Job /\ job[c].of \in OfKind("agent")
  BY <1>1, JobFacts
<1>3. j \in Job /\ j.at = "called" /\ j.of = job[c].of
  BY <1>2 DEF Job
<1> HIDE DEF j
<1>4. SnapshotMoves(c)
  BY <1>1 DEF SnapshotMoves
<1> QED BY <1>1, <1>2, <1>3, <1>4, DoneKeeps

\* Its own guard.
LEMMA GuardKeeps ==
  ASSUME FactoryInv, NEW c \in Clients, Guard(c)
  PROVE  FactoryInv'
<1>1. job[c].at = "called" /\ Guarding(c, job[c].of, "guard")
  BY DEF Guard
<1>2. job[c].of \in OfKind("agent")
  BY <1>1, JobFacts
<1> QED BY <1>1, <1>2, GuardingKeeps

\* A run begins with the validation that its guard has passed.
LEMMA RunKeeps ==
  ASSUME FactoryInv, NEW c \in Clients, Run(c)
  PROVE  FactoryInv'
<1> DEFINE j == [job[c] EXCEPT !.at = "running"]
<1>1. /\ job[c].at = "guard" /\ work[c].at = "passed" /\ UNCHANGED <<registryVars, built>>
      /\ job' = [job EXCEPT ![c] = j]
  BY DEF Run, Passed, Goes
<1>2. job[c] \in Job /\ job[c].of \in OfKind("agent") /\ Waits(job[c], work[c])
  BY <1>1, JobFacts
<1>3. j \in Job /\ j.at = "running" /\ j.of = job[c].of
  BY <1>2 DEF Job
<1> HIDE DEF j
<1>4. Waits(j, work[c])
  BY <1>1, <1>2, <1>3 DEF Waits
<1> QED BY <1>1, <1>3, <1>4, GoesKeeps

\* And ends.
LEMMA EndRunKeeps ==
  ASSUME FactoryInv, NEW c \in Clients, EndRun(c)
  PROVE  FactoryInv'
<1>1. /\ job[c].at = "running" /\ Done(c) /\ job' = [job EXCEPT ![c] = NoJob]
      /\ UNCHANGED <<scope, status, revision, events, holder, snapshot, built>>
  BY DEF EndRun
<1>2. work[c].at = "passed"
  BY <1>1, JobFacts DEF Waits
<1>3. ClientAction(c)
  BY <1>1, <1>2, MovesAct DEF SnapshotMoves
<1> QED BY <1>1, <1>3, OverKeeps

\* Every step of the factory keeps the invariant.
LEMMA FactoryInvKept ==
  ASSUME FactoryInv, [FactoryNext]_factoryVars
  PROVE  FactoryInv'
<1>1. scope.clients \subseteq Clients
  BY RegistryAssumption DEF FactoryInv, RegistryInv, Types
<1>2. CASE RegistryStep
  BY <1>1, <1>2, OperatorsKeep, StepsKeep DEF RegistryStep
<1>3. CASE Quiet \/ UNCHANGED factoryVars \/ \E s \in Supplies : Supply(s)
  <2>1. UNCHANGED <<registryVars, job, built>>
    BY <1>3 DEF Quiet, Supply, factoryVars
  <2> QED BY <2>1, NothingKeeps
<1>4. ASSUME NEW c \in scope.clients, NEW x \in OfKind("agent"),
             \/ \E dryRun, activate, register \in BOOLEAN : Build(c, x, dryRun, activate, register)
             \/ Execute(c, x) \/ Resume(c, x)
      PROVE  FactoryInv'
  BY <1>1, <1>4, BuildKeeps, EntersKeep
<1>5. ASSUME NEW c \in scope.clients, BuildStep(c) \/ EntryPassed(c) \/ Guard(c) \/ Run(c) \/ EndRun(c)
      PROVE  FactoryInv'
  <2>1. c \in Clients
    BY <1>1
  <2>2. CASE GivesUp(c) \/ LookUp(c) \/ LookUpSkill(c) \/ SkillFound(c) \/ Check(c) \/ Checked(c)
    BY <2>1, <2>2, GivesUpKeeps, LookUpKeeps, LookUpSkillKeeps, SkillFoundKeeps, CheckKeeps, CheckedKeeps
  <2>3. CASE Resolved(c) \/ Register(c) \/ Registered(c) \/ Activate(c) \/ Activated(c) \/ Assemble(c)
    BY <2>1, <2>3, ResolvedKeeps, RegisterKeeps, RegisteredKeeps, ActivateKeeps, ActivatedKeeps, AssembleKeeps
  <2>4. CASE EntryPassed(c) \/ Guard(c) \/ Run(c) \/ EndRun(c)
    BY <2>1, <2>4, EntryPassedKeeps, GuardKeeps, RunKeeps, EndRunKeeps
  <2> QED BY <1>5, <2>2, <2>3, <2>4 DEF BuildStep
<1> QED BY <1>2, <1>3, <1>4, <1>5 DEF FactoryNext

\* It holds of any catalog at the start, with nothing under way.
LEMMA FactoryInvInit ==
  ASSUME FactoryInit
  PROVE  FactoryInv
<1>1. /\ scope \in Scopes /\ status = scope.start /\ revision = [k \in Kinds |-> 0]
      /\ events = [k \in Kinds |-> <<>>] /\ holder = [k \in {"skill", "agent"} |-> Free]
      /\ work = [c \in Clients |-> Idle] /\ snapshot = [c \in Clients |-> NoSnapshot]
      /\ job = [c \in Clients |-> NoJob] /\ built = {}
  BY DEF FactoryInit, RegistryInit
<1>2. <<>> \in Seq(Look) /\ <<>> \in Seq(Event) /\ <<>> \in Seq(Part) /\ <<>> \in Seq(Reference)
  OBVIOUS
<1>3. Idle \in Validation /\ Idle.at = "idle" /\ Idle.unseen = {}
  BY <1>2 DEF Idle, Validation, Operations, Statuses
<1>4. NoSnapshot \in SnapshotRecord /\ NoSnapshot.at = "idle"
  <2>1. <<>> \in [{} -> SUBSET (Components \X Statuses)] /\ <<>> \in [{} -> Nat]
    OBVIOUS
  <2>2. {} \in SUBSET Kinds
    OBVIOUS
  <2>3. <<>> \in Contents
    BY <2>1, <2>2 DEF Contents
  <2>4. <<>> \in Revisions
    BY <2>1, <2>2 DEF Revisions
  <2> QED BY <1>2, <2>3, <2>4 DEF NoSnapshot, SnapshotRecord
<1>5. NoJob \in Job /\ NoJob.at = "none" /\ NoJob.register = FALSE
  BY <1>2 DEF NoJob, Job
<1>6. Types
  <2>1. scope.start \in [Components -> Statuses]
    BY <1>1, RegistryAssumption DEF Statuses
  <2> QED BY <1>1, <1>2, <1>3, <1>4, <2>1 DEF Types
<1>7. Locking
  BY <1>1, <1>3 DEF Locking, Holding
<1>8. Validations
  BY <1>1, <1>3 DEF Validations, Walking, Sees
<1>9. Logged
  <2>1. ASSUME NEW k \in Kinds
        PROVE  /\ Changes(k, Len(events[k])) = revision[k]
               /\ After(k, Len(events[k])) = [x \in OfKind(k) |-> status[x]]
    <3>1. Len(events[k]) = 0 /\ revision[k] = 0
      BY <1>1
    <3>2. \A P : P \subseteq 1 .. 0 => P = {}
      OBVIOUS
    <3>3. {i \in 1 .. 0 : events[k][i].of # Absent} = {}
      BY <3>2
    <3>4. Changes(k, 0) = 0
      BY <3>3, FS_EmptySet DEF Changes
    <3>5. \A x : {i \in 1 .. 0 : events[k][i].of = x} = {}
      OBVIOUS
    <3>6. After(k, 0) = [x \in OfKind(k) |-> scope.start[x]]
      BY <3>5 DEF After
    <3> QED BY <1>1, <3>1, <3>4, <3>6
  <2> QED BY <2>1 DEF Logged
<1>10. Snapshots
  BY <1>1, <1>4 DEF Snapshots, Replays
<1>11. JobTypes /\ Jobs /\ Owned
  BY <1>1, <1>5 DEF JobTypes, Jobs, Owned, Owns, Waits
<1> QED BY <1>6, <1>7, <1>8, <1>9, <1>10, <1>11 DEF FactoryInv, RegistryInv

\* The invariant of the factory and of its registries.
LEMMA FactoryInvariant == FactorySpec => []FactoryInv
BY FactoryInvInit, FactoryInvKept, PTL DEF FactorySpec

-----------------------------------------------------------------------------
(* What is promised                                                          *)

\* A validation passes only if everything its component requires, at any depth, had
\* an accepted status at some point since it began: of any catalog, whatever
\* operators and other clients change while it reads (SkillRegistry and
\* AgentRegistry: register, validate, activate, resolve, check_compatibility).
THEOREM ValidationsReadTheCatalog == FactorySpec => []PassedWasUsable
<1>1. FactoryInv => PassedWasUsable
  BY DEF FactoryInv, RegistryInv, Validations, Walking, PassedWasUsable
<1> QED BY <1>1, FactoryInvariant, PTL

\* The lists of a snapshot are what a registry held at a revision not above the one
\* that the snapshot names (AgentRegistry.snapshot and the others), however many
\* changes come between its reads.
THEOREM SnapshotsHaveRevisions == FactorySpec => []SnapshotsReplay
<1>1. FactoryInv => SnapshotsReplay
  BY SnapshotsAreReplays DEF FactoryInv, RegistryInv
<1> QED BY <1>1, FactoryInvariant, PTL

\* No run or resumption is under way but on a guard during which all that the agent
\* requires was usable (BuiltAgent.execute, _runtime_execution_guard).
THEOREM GuardsComeFirst == FactorySpec => []RunsAreGuarded
<1>1. FactoryInv => RunsAreGuarded
  <2> SUFFICES ASSUME FactoryInv, NEW c \in Clients, job[c].at = "running"
               PROVE  /\ work[c].at = "passed" /\ work[c].target = job[c].of
                      /\ (Required(job[c].of) \union {job[c].of}) \cap work[c].unseen = {}
    BY DEF RunsAreGuarded
  <2>1. work[c].at = "passed" /\ work[c].target = job[c].of /\ job[c].of \notin work[c].unseen
    BY JobFacts DEF Waits
  <2>2. Required(work[c].target) \cap work[c].unseen = {}
    BY <2>1 DEF FactoryInv, RegistryInv, Validations, Walking
  <2> QED BY <2>1, <2>2
<1> QED BY <1>1, FactoryInvariant, PTL

\* However builds of one version interleave, at most one of them is past its
\* registration, under way or with its runtime built (AgentFactory.build,
\* AgentRegistry.register).
THEOREM VersionsAreBuiltOnce == FactorySpec => []OneRegisteringBuild
<1>1. FactoryInv => OneRegisteringBuild
  <2> SUFFICES ASSUME FactoryInv, NEW x \in OfKind("agent")
               PROVE  Cardinality({c \in Clients : Owns(c, x)})
                        + (IF <<x, TRUE>> \in built THEN 1 ELSE 0) <= 1
    BY DEF OneRegisteringBuild
  <2> DEFINE owners == {c \in Clients : Owns(c, x)}
  <2>1. /\ \A c \in owners : <<x, TRUE>> \notin built
        /\ \A c, d \in owners : c = d
    BY DEF FactoryInv, Owned
  <2> HIDE DEF owners
  <2>2. CASE owners = {}
    <3>1. Cardinality(owners) = 0
      BY <2>2, FS_EmptySet
    <3> QED BY <3>1 DEF owners
  <2>3. CASE owners # {}
    <3>1. PICK c \in owners : owners = {c}
      BY <2>1, <2>3
    <3>2. Cardinality(owners) = 1 /\ <<x, TRUE>> \notin built
      BY <2>1, <3>1, FS_Singleton
    <3> QED BY <3>2 DEF owners
  <2> QED BY <2>2, <2>3
<1> QED BY <1>1, FactoryInvariant, PTL
=============================================================================
