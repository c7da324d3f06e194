------------------------------ MODULE Registries ------------------------------
(***************************************************************************)
(* registries.py and the part of tools/registry.py it relies on: the prompt,*)
(* skill, agent and tool registries of one process.  Each has its own lock, *)
(* revision and event log.  A validation of a skill or an agent holds the   *)
(* lock of its own registry and reads the components it depends on one at a *)
(* time from the others, which change in between.  Snapshots hold no lock   *)
(* between their reads.  References are exact, so a component stands for    *)
(* one version.                                                             *)
(***************************************************************************)
EXTENDS Lifecycle, Integers, Sequences, FiniteSets, FiniteSetsExt

CONSTANTS Clients,         \* threads that use the registries
          Components,      \* exact component versions
          Kind, Risk,      \* of each component
          Refs,            \* the references of each, in the order they are checked
          Scopes,          \* what the registries hold at the start, and the bounds from there
          Registrable,     \* bound: the statuses that new components come with
          Moves,           \* bound: the statuses that operators move components to
          Free             \* a lock that nobody holds

Kinds == {"prompt", "skill", "tool", "agent", "policy"}

Reference == [of : Components, optional : BOOLEAN]

\* What a component of each kind may refer to.
RefersTo ==
  [agent |-> {"prompt", "skill", "tool", "policy"}, skill |-> {"tool"}, tool |-> {"tool"},
   prompt |-> {}, policy |-> {}]

ASSUME RegistryAssumption ==
  /\ Kind \in [Components -> Kinds] /\ Risk \in [Components -> Nat]
  /\ Refs \in [Components -> Seq(Reference)]
  /\ \A x \in Components : \A i \in DOMAIN Refs[x] : Kind[Refs[x][i].of] \in RefersTo[Kind[x]]
  /\ Scopes \subseteq [start : [Components -> Lifecycle \union {Absent}],
                        clients : SUBSET Clients, direct : BOOLEAN, events : Nat]
  /\ Registrable \subseteq Lifecycle /\ Moves \subseteq Lifecycle
  /\ Free \notin Clients /\ Absent \notin Components \union Lifecycle

VARIABLES scope,           \* the catalog at the start, the clients at work, whether they call the
                           \* registries directly, and after how many events no change starts
          status,          \* the lifecycle of each component, or Absent
          revision,        \* of each registry, counted from the start
          events,          \* the log of each registry, likewise
          holder,          \* who holds the lock of the skill and the agent registry
          work,            \* the validation each client is at
          snapshot         \* the snapshot each client is taking

registryVars == <<scope, status, revision, events, holder, work, snapshot>>

Usable == {"validated", "active"}

OfKind(k) == {x \in Components : Kind[x] = k}

Idle == [at |-> "idle", op |-> "none", target |-> Absent, to |-> Absent, allowed |-> {},
         todo |-> <<>>, visited |-> {}, unseen |-> {}]

NoSnapshot == [at |-> "idle", of |-> "none", full |-> FALSE, overrides |-> {}, todo |-> <<>>,
               contents |-> <<>>, revisions |-> <<>>]

RegistryTypeOK ==
  /\ status \in [Components -> Lifecycle \union {Absent}]
  /\ revision \in [Kinds -> Nat]
  /\ holder \in [{"skill", "agent"} -> Clients \union {Free}]
  /\ \A c \in Clients : work[c].at \in {"idle", "reading", "passed", "failed"}
  /\ \A c \in Clients : snapshot[c].at \in {"idle", "reading", "taken"}

RegistryInit ==
  /\ scope \in Scopes
  /\ status = scope.start
  /\ revision = [k \in Kinds |-> 0]
  /\ events = [k \in Kinds |-> <<>>]
  /\ holder = [k \in {"skill", "agent"} |-> Free]
  /\ work = [c \in Clients |-> Idle]
  /\ snapshot = [c \in Clients |-> NoSnapshot]

\* Nobody but c holds the lock of registry k.  The locks of the others are never
\* held from one step to the next.
Unlocked(k, c) == k \in DOMAIN holder => holder[k] \in {Free, c}

Room == MapThenSumSet(LAMBDA k : Len(events[k]), Kinds) < scope.events

-----------------------------------------------------------------------------
(* Changes.  A component moves through the statuses of path, each with its   *)
(* event and its revision.                                                   *)

Changed(x, path) ==
  /\ revision' = [revision EXCEPT ![Kind[x]] = @ + Len(path)]
  /\ events' = [events EXCEPT ![Kind[x]] = @ \o [i \in DOMAIN path |-> [of |-> x, to |-> path[i]]]]

\* The clients whose validation accepts the new status may have seen x so.
Noticed(x, s, w) ==
  [c \in Clients |-> [w[c] EXCEPT !.unseen = IF s \in w[c].allowed THEN @ \ {x} ELSE @]]

Become(x, path) ==
  /\ path # <<>>
  /\ status' = [status EXCEPT ![x] = path[Len(path)]]
  /\ Changed(x, path)

\* Operators change components while clients validate.
Move(x, path) ==
  /\ Room /\ Become(x, path)
  /\ work' = Noticed(x, path[Len(path)], work)
  /\ UNCHANGED <<scope, holder, snapshot>>

ValidatePath(s) == IF s = "draft" THEN <<"validated">> ELSE <<>>

ActivatePath(s) ==
  IF s = "draft" THEN <<"validated", "active">>
  ELSE IF s \in {"validated", "suspended"} THEN <<"active">> ELSE <<>>

RegisterPrompt(x, s) == Kind[x] = "prompt" /\ status[x] = Absent /\ Move(x, <<s>>)

ValidatePrompt(x) == Kind[x] = "prompt" /\ Move(x, ValidatePath(status[x]))

ActivatePrompt(x) == Kind[x] = "prompt" /\ Move(x, ActivatePath(status[x]))

\* suspend, deprecate and retire
WithdrawPrompt(x, s) ==
  Kind[x] = "prompt" /\ s \notin Usable /\ s # "draft" /\ status[x] \in AllowedFrom[s] /\ Move(x, <<s>>)

RegisterTool(x, s) == Kind[x] = "tool" /\ status[x] = Absent /\ Move(x, <<s>>)

MoveTool(x, s) ==
  /\ Kind[x] = "tool" /\ status[x] # Absent
  /\ s # status[x] /\ s \in ToolTargets[status[x]]
  /\ Move(x, <<s>>)

\* A skill or an agent that is neither validated nor active is registered unseen.
RegisterDraft(x, s) ==
  /\ Kind[x] \in {"skill", "agent"} /\ holder[Kind[x]] = Free
  /\ status[x] = Absent /\ s \notin Usable
  /\ Move(x, <<s>>)

WithdrawSkill(x, s) ==
  /\ Kind[x] = "skill" /\ holder["skill"] = Free
  /\ s \notin Usable /\ s # "draft" /\ status[x] \in AllowedFrom[s]
  /\ Move(x, <<s>>)

WithdrawAgent(x, s) ==
  /\ Kind[x] = "agent" /\ holder["agent"] = Free
  /\ s \notin Usable /\ s # "draft" /\ status[x] \in AllowedFrom[s]
  /\ Move(x, <<s>>)

-----------------------------------------------------------------------------
(* Validations                                                               *)

\* A component to look up: below which tools, and the risk it may have.
Reads(x, path, limit) ==
  [i \in DOMAIN Refs[x] |->
     [of |-> Refs[x][i].of, optional |-> Refs[x][i].optional, path |-> path, limit |-> limit]]

\* c validates x for op and takes the lock of its registry.  unseen: the components
\* that have not had an accepted status since.
Begin(c, op, x, to, allowed) ==
  /\ work[c].at = "idle" /\ snapshot[c].at = "idle"
  /\ holder[Kind[x]] = Free
  /\ holder' = [holder EXCEPT ![Kind[x]] = c]
  /\ work' = [work EXCEPT ![c] =
       [at |-> "reading", op |-> op, target |-> x, to |-> to, allowed |-> allowed,
        todo |-> Reads(x, {}, Risk[x]), visited |-> {}, unseen |-> {y \in Components : status[y] \notin allowed}]]
  /\ UNCHANGED <<scope, status, revision, events, snapshot>>

Demanded(s) == IF s = "active" THEN {"active"} ELSE Usable

RegisterSkill(c, x, s) ==
  /\ Kind[x] = "skill" /\ status[x] = Absent /\ s \in Usable
  /\ Begin(c, "register", x, s, Demanded(s))

ValidateSkill(c, x) == Kind[x] = "skill" /\ status[x] # Absent /\ Begin(c, "validate", x, Absent, Usable)

ActivateSkill(c, x) == Kind[x] = "skill" /\ status[x] # Absent /\ Begin(c, "activate", x, Absent, {"active"})

ResolveSkill(c, x) == Kind[x] = "skill" /\ status[x] = "active" /\ Begin(c, "resolve", x, Absent, {"active"})

RegisterAgent(c, x, s) ==
  /\ Kind[x] = "agent" /\ status[x] = Absent /\ s \in Usable
  /\ Begin(c, "register", x, s, Demanded(s))

ValidateAgent(c, x) == Kind[x] = "agent" /\ status[x] # Absent /\ Begin(c, "validate", x, Absent, Usable)

ActivateAgent(c, x) == Kind[x] = "agent" /\ status[x] # Absent /\ Begin(c, "activate", x, Absent, {"active"})

ResolveAgent(c, x) == Kind[x] = "agent" /\ status[x] = "active" /\ Begin(c, "resolve", x, Absent, {"active"})

CheckCompatibility(c, x, active) ==
  Kind[x] = "agent" /\ Begin(c, "check", x, Absent, IF active THEN {"active"} ELSE Usable)

\* Mutation: the tools that a tool depends on are not looked at.
BelowToolNothing(l) == <<>>

\* The transitive dependencies of a tool, under the limit it was read with.
BelowTool(l) == Reads(l.of, l.path \union {l.of}, l.limit)

\* The tools of a skill, the optional ones last.
BelowSkill(l) == Reads(l.of, {}, Risk[l.of])

\* visited: a dependency that is met again under one root is looked at, not what is
\* below it.
Below(l, visited) ==
  IF l.path # {} /\ l.of \in visited THEN <<>>
  ELSE IF Kind[l.of] = "skill" THEN BelowSkill(l)
  ELSE IF Kind[l.of] = "tool" THEN BelowTool(l) ELSE <<>>

\* A tool that is its own dependency, a status that is not accepted, too much risk.
Unacceptable(l, allowed) ==
  status[l.of] \notin allowed \/ Risk[l.of] > l.limit \/ l.of \in l.path

\* An optional tool is skipped while it is not usable.
ReadNext(c) ==
  LET l == Head(work[c].todo) IN
  /\ work[c].at = "reading" /\ work[c].todo # <<>>
  /\ Unlocked(Kind[l.of], c)
  /\ IF l.optional /\ status[l.of] \notin work[c].allowed
     THEN /\ work' = [work EXCEPT ![c].todo = Tail(@)]
          /\ UNCHANGED holder
     ELSE IF Unacceptable(l, work[c].allowed)
     THEN /\ work' = [work EXCEPT ![c].at = "failed", ![c].todo = <<>>]
          /\ holder' = [holder EXCEPT ![Kind[work[c].target]] = Free]
     ELSE /\ work' = [work EXCEPT ![c].todo = Below(l, work[c].visited) \o Tail(@),
                                     ![c].visited = {l.of} \union IF l.path = {} THEN {} ELSE @]
          /\ UNCHANGED holder
  /\ UNCHANGED <<scope, status, revision, events, snapshot>>

RequiredRefs(x) == {Refs[x][i].of : i \in {i \in DOMAIN Refs[x] : ~ Refs[x][i].optional}}

\* An agent lists every tool that its skills require.
CoversSkills(x) ==
  Kind[x] = "agent" =>
    \A y \in RequiredRefs(x) \cap OfKind("skill") : RequiredRefs(y) \subseteq RequiredRefs(x)

PathOf(w) ==
  IF w.op = "register" THEN <<w.to>>
  ELSE IF w.op = "validate" THEN ValidatePath(status[w.target])
  ELSE IF w.op = "activate" THEN ActivatePath(status[w.target]) ELSE <<>>

\* Only a draft, a validated or an active component is validated, and a suspended
\* one is activated as well; the others raise, after the validation.
Accepts(w) ==
  /\ w.op = "validate" => status[w.target] \in {"draft", "validated", "active"}
  /\ w.op = "activate" => status[w.target] \in {"draft", "validated", "active", "suspended"}

\* The end of a validation: the change it was for, still under the lock.
Finish(c) ==
  LET w == work[c]
      passes == CoversSkills(w.target) /\ Accepts(w)
  IN
  /\ w.at = "reading" /\ w.todo = <<>>
  /\ holder' = [holder EXCEPT ![Kind[w.target]] = Free]
  /\ IF passes /\ PathOf(w) # <<>>
     THEN /\ Become(w.target, PathOf(w))
          /\ work' = [Noticed(w.target, status'[w.target], work) EXCEPT ![c].at = "passed"]
     ELSE /\ work' = [work EXCEPT ![c].at = IF passes THEN "passed" ELSE "failed"]
          /\ UNCHANGED <<status, revision, events>>
  /\ UNCHANGED <<scope, snapshot>>

Return(c) ==
  /\ work[c].at \in {"passed", "failed"}
  /\ work' = [work EXCEPT ![c] = Idle]
  /\ UNCHANGED <<scope, status, revision, events, holder, snapshot>>

-----------------------------------------------------------------------------
(* Snapshots                                                                 *)

\* The lists are read first, the revisions after them, one registry at a time.
PromptReads == << <<"list", "prompt">>, <<"revision", "prompt">> >>

SkillReads ==
  << <<"list", "skill">>, <<"list", "tool">>, <<"revision", "skill">>, <<"revision", "tool">> >>

\* Mutation: the revisions are read before the lists.
AgentReadsRevisionsFirst ==
  << <<"revision", "prompt">>, <<"revision", "skill">>, <<"revision", "tool">>, <<"revision", "agent">>,
     <<"list", "agent">>, <<"list", "prompt">>, <<"list", "skill">>, <<"list", "tool">> >>

AgentReads ==
  << <<"list", "agent">>, <<"list", "prompt">>, <<"list", "skill">>, <<"list", "tool">>,
     <<"revision", "prompt">>, <<"revision", "skill">>, <<"revision", "tool">>, <<"revision", "agent">> >>

ReadsFor(k) == IF k = "prompt" THEN PromptReads ELSE IF k = "skill" THEN SkillReads ELSE AgentReads

\* overrides: agents that the snapshot lists as given instead of as registered.
Snapshot(c, k, full, overrides) ==
  /\ work[c].at = "idle" /\ snapshot[c].at = "idle"
  /\ snapshot' = [snapshot EXCEPT ![c] =
       [NoSnapshot EXCEPT !.at = "reading", !.of = k, !.full = full, !.overrides = overrides,
                          !.todo = ReadsFor(k)]]
  /\ UNCHANGED <<scope, status, revision, events, holder, work>>

\* list: the registered components, only the active ones unless all are wanted.
Listed(k, s, of) ==
  LET kept == OfKind(k) \ {o[1] : o \in s.overrides} IN
  {<<x, of[x]>> : x \in {x \in kept : of[x] = "active" \/ (s.full /\ of[x] # Absent)}}
    \union {o \in s.overrides : Kind[o[1]] = k}

Extend(f, k, v) == [j \in DOMAIN f \union {k} |-> IF j = k THEN v ELSE f[j]]

ReadPart(c) ==
  LET s == snapshot[c]
      k == Head(s.todo)[2]
  IN
  /\ s.at = "reading" /\ s.todo # <<>>
  /\ Unlocked(k, c)
  /\ snapshot' = [snapshot EXCEPT ![c] =
       IF Head(s.todo)[1] = "list"
       THEN [s EXCEPT !.todo = Tail(@), !.contents = Extend(@, k, Listed(k, s, status))]
       ELSE [s EXCEPT !.todo = Tail(@), !.revisions = Extend(@, k, revision[k])]]
  /\ UNCHANGED <<scope, status, revision, events, holder, work>>

\* The event of a snapshot has no revision of its own.
RecordSnapshot(c) ==
  /\ snapshot[c].at = "reading" /\ snapshot[c].todo = <<>>
  /\ Unlocked(snapshot[c].of, c)
  /\ events' = [events EXCEPT ![snapshot[c].of] = Append(@, [of |-> Absent, to |-> Absent])]
  /\ snapshot' = [snapshot EXCEPT ![c].at = "taken"]
  /\ UNCHANGED <<scope, status, revision, holder, work>>

ReturnSnapshot(c) ==
  /\ snapshot[c].at = "taken"
  /\ snapshot' = [snapshot EXCEPT ![c] = NoSnapshot]
  /\ UNCHANGED <<scope, status, revision, events, holder, work>>

-----------------------------------------------------------------------------
OperatorStep ==
  \E x \in Components :
    \/ \E s \in Registrable : RegisterPrompt(x, s) \/ RegisterTool(x, s) \/ RegisterDraft(x, s)
    \/ ValidatePrompt(x) \/ ActivatePrompt(x)
    \/ \E s \in Moves : WithdrawPrompt(x, s) \/ MoveTool(x, s) \/ WithdrawSkill(x, s) \/ WithdrawAgent(x, s)

Change(c) ==
  \/ \E x \in Components :
       \/ \E s \in Registrable : RegisterSkill(c, x, s) \/ RegisterAgent(c, x, s)
       \/ ValidateSkill(c, x) \/ ActivateSkill(c, x)
       \/ ValidateAgent(c, x) \/ ActivateAgent(c, x)
  \/ \E k \in {"prompt", "skill", "agent"}, full \in BOOLEAN : Snapshot(c, k, full, {})

Call(c) ==
  /\ scope.direct
  /\ \/ Room /\ Change(c)
     \/ \E x \in Components :
          \/ ResolveSkill(c, x) \/ ResolveAgent(c, x)
          \/ \E active \in BOOLEAN : CheckCompatibility(c, x, active)

ClientStep(c) == ReadNext(c) \/ Finish(c) \/ ReadPart(c) \/ RecordSnapshot(c)

RegistryNext ==
  \/ OperatorStep
  \/ \E c \in scope.clients : Call(c) \/ ClientStep(c) \/ Return(c) \/ ReturnSnapshot(c)

RegistrySpec == RegistryInit /\ [][RegistryNext]_registryVars

-----------------------------------------------------------------------------
(* Properties                                                                *)

\* A set that has what x requires, and what its own elements require.
Closes(S, x) == \A y \in S \union {x} : RequiredRefs(y) \subseteq S

\* Everything that a component cannot do without: what every such set has.
Requirements ==
  [x \in Components |-> {y \in Components : \A S \in SUBSET Components : Closes(S, x) => y \in S}]

Required(x) == Requirements[x]

\* However the registries change while a validation reads them, it never passes for
\* a skill or an agent of which some required component, at any depth, was in a
\* status it does not accept from its start to its end.
PassedWasUsable ==
  \A c \in Clients :
    work[c].at = "passed" => Required(work[c].target) \cap work[c].unseen = {}

\* The changes among the first n events of registry k, the snapshots left out.
Changes(k, n) == Cardinality({i \in 1 .. n : events[k][i].of # Absent})

\* The components of registry k after those events.
After(k, n) ==
  [x \in OfKind(k) |->
     LET is == {i \in 1 .. n : events[k][i].of = x} IN
     IF is = {} THEN scope.start[x] ELSE events[k][Max(is)].to]

\* What a snapshot lists of a registry is what the registry held at some revision
\* up to the one that the snapshot names, though neither is read under one lock.
SnapshotsReplay ==
  \A c \in Clients :
    snapshot[c].at = "taken" =>
      \A k \in DOMAIN snapshot[c].contents :
        \E n \in 0 .. Len(events[k]) :
          /\ Changes(k, n) <= snapshot[c].revisions[k]
          /\ snapshot[c].contents[k] = Listed(k, snapshot[c], After(k, n))
=============================================================================
