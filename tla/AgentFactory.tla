----------------------------- MODULE AgentFactory -----------------------------
(***************************************************************************)
(* factory.py: AgentFactory turns the configuration of one exact agent      *)
(* version into a registered agent and a runtime, and BuiltAgent runs it.   *)
(* A build is a sequence of calls on the registries, none of them undone    *)
(* when a later one raises, while operators and other builds change the     *)
(* same components.                                                         *)
(***************************************************************************)
EXTENDS Registries

CONSTANTS Supplies,        \* provider adapters and runtime profiles, exact versions
          SuppliesOf,      \* what each agent names
          InactiveProfiles,\* runtime profiles that are not active
          Strategies,      \* memory strategies and state stores the factory is given
          StrategiesOf,    \* what each agent names
          Template,        \* of each agent
          Acting,          \* the tools that are not read-only
          Protected        \* <<agent, tool>>: by the tool itself or by a rule (CoversTool)

ASSUME FactoryAssumption ==
  /\ SuppliesOf \in [OfKind("agent") -> SUBSET Supplies]
  /\ Template \in [OfKind("agent") -> {"none", "read_only_analyst", "action_agent",
                                       "approval_gated_operator", "other"}]

VARIABLES supplies,        \* the registered providers and runtime profiles
          job,             \* the build or the execution each client is at
          built            \* the agents with a runtime, with whether that build registered them

factoryVars == <<registryVars, supplies, job, built>>

NoJob == [at |-> "none", of |-> Absent, dryRun |-> FALSE, activate |-> FALSE, register |-> FALSE,
          todo |-> <<>>]

FactoryTypeOK ==
  /\ RegistryTypeOK
  /\ supplies \subseteq Supplies
  /\ built \subseteq OfKind("agent") \X BOOLEAN
  /\ \A c \in Clients : job[c].at \in
       {"none", "lookup", "skill", "check", "snapshot", "register", "activate", "assemble",
        "entry", "called", "guard", "running"}

FactoryInit ==
  /\ RegistryInit
  /\ supplies \in {{}, Supplies}
  /\ job = [c \in Clients |-> NoJob]
  /\ built = {}

\* ProviderRegistry.register, RuntimeProfileRegistry.register: versions are immutable.
Supply(s) ==
  /\ s \in Supplies \ supplies
  /\ supplies' = supplies \union {s}
  /\ UNCHANGED <<registryVars, job, built>>

Supplied(x) == SuppliesOf[x] \subseteq supplies \ InactiveProfiles

-----------------------------------------------------------------------------
Accepted(j) == IF j.activate THEN {"active"} ELSE Usable

\* The status that the built definition declares.
TargetStatus(j) == IF j.activate THEN "active" ELSE "validated"

Unoccupied(c) == job[c].at = "none" /\ work[c].at = "idle" /\ snapshot[c].at = "idle"

Goes(c, at) == job' = [job EXCEPT ![c].at = at]

\* build and validate; the latter is a dry run.
Build(c, x, dryRun, activate, register) ==
  /\ Kind[x] = "agent" /\ Unoccupied(c) /\ Room
  /\ Supplied(x)
  /\ job' = [job EXCEPT ![c] =
       [at |-> "lookup", of |-> x, dryRun |-> dryRun, activate |-> activate,
        register |-> register, todo |-> Refs[x]]]
  /\ UNCHANGED <<registryVars, supplies, built>>

Wanted(c) == Head(job[c].todo).of

\* A call that the job made has returned; the client goes on or gives up.
Passed(c, at) == job[c].at = at /\ work[c].at = "passed"

Done(c) == work' = [work EXCEPT ![c] = Idle]

GivesUp(c) ==
  /\ job[c].at \notin {"none", "running"} /\ work[c].at = "failed"
  /\ Done(c) /\ job' = [job EXCEPT ![c] = NoJob]
  /\ UNCHANGED <<scope, status, revision, events, holder, snapshot, supplies, built>>

\* _resolve_prompt, _resolve_tool, _resolve_policy and a skill that need not be
\* active: one look at the registry.
LookUp(c) ==
  /\ job[c].at = "lookup" /\ job[c].todo # <<>>
  /\ ~ (Kind[Wanted(c)] = "skill" /\ job[c].activate)
  /\ Unlocked(Kind[Wanted(c)], c)
  /\ job' = [job EXCEPT ![c] =
       IF status[Wanted(c)] \in Accepted(job[c]) THEN [job[c] EXCEPT !.todo = Tail(@)] ELSE NoJob]
  /\ UNCHANGED <<registryVars, supplies, built>>

\* _resolve_skill for an active agent: SkillRegistry.resolve validates the skill.
LookUpSkill(c) ==
  /\ job[c].at = "lookup" /\ job[c].todo # <<>>
  /\ Kind[Wanted(c)] = "skill" /\ job[c].activate
  /\ IF status[Wanted(c)] = "active"
     THEN ResolveSkill(c, Wanted(c)) /\ Goes(c, "skill")
     ELSE /\ holder["skill"] = Free
          /\ job' = [job EXCEPT ![c] = NoJob] /\ UNCHANGED registryVars
  /\ UNCHANGED <<supplies, built>>

SkillFound(c) ==
  /\ Passed(c, "skill") /\ Done(c)
  /\ job' = [job EXCEPT ![c].at = "lookup", ![c].todo = Tail(@)]
  /\ UNCHANGED <<scope, status, revision, events, holder, snapshot, supplies, built>>

Check(c) ==
  /\ job[c].at = "lookup" /\ job[c].todo = <<>>
  /\ CheckCompatibility(c, job[c].of, job[c].activate) /\ Goes(c, "check")
  /\ UNCHANGED <<supplies, built>>

\* _validate_template
ActingTools(x) == {Refs[x][i].of : i \in DOMAIN Refs[x]} \cap Acting

FitsTemplate(x) ==
  /\ Template[x] = "read_only_analyst" => ActingTools(x) = {}
  /\ Template[x] \in {"action_agent", "approval_gated_operator"} => ActingTools(x) # {}
  /\ Template[x] = "approval_gated_operator" => \A t \in ActingTools(x) : <<x, t>> \in Protected

\* _resolve: the template, the memory and the state strategy, then the snapshot
\* that the manifest names, with the agent as it is about to be.
Checked(c) ==
  LET j == job[c] IN
  /\ Passed(c, "check") /\ Done(c)
  /\ IF FitsTemplate(j.of) /\ StrategiesOf[j.of] \subseteq Strategies
     THEN /\ Goes(c, "snapshot")
          /\ snapshot' = [snapshot EXCEPT ![c] =
               [NoSnapshot EXCEPT !.at = "reading", !.of = "agent", !.full = ~ j.activate,
                  !.overrides = {<<j.of, TargetStatus(j)>>}, !.todo = ReadsFor("agent")]]
     ELSE job' = [job EXCEPT ![c] = NoJob] /\ UNCHANGED snapshot
  /\ UNCHANGED <<scope, status, revision, events, holder, supplies, built>>

\* A dry run stops here; a build that does not register goes on to its runtime.
Resolved(c) ==
  /\ job[c].at = "snapshot" /\ snapshot[c].at = "taken"
  /\ snapshot' = [snapshot EXCEPT ![c] = NoSnapshot]
  /\ IF job[c].dryRun \/ (~ job[c].register /\ ~ job[c].activate)
     THEN job' = [job EXCEPT ![c] = NoJob]
     ELSE Goes(c, IF job[c].register THEN "register" ELSE "assemble")
  /\ UNCHANGED <<scope, status, revision, events, holder, work, supplies, built>>

\* Mutation: a build replaces what is registered.
RegisterReplacing(c) ==
  /\ job[c].at = "register" /\ work[c].at = "idle"
  /\ Begin(c, "register", job[c].of, TargetStatus(job[c]), Demanded(TargetStatus(job[c])))
  /\ UNCHANGED <<supplies, job, built>>

\* Exact versions are registered once: a second build of one raises.
Register(c) ==
  /\ job[c].at = "register" /\ work[c].at = "idle"
  /\ IF status[job[c].of] = Absent
     THEN RegisterAgent(c, job[c].of, TargetStatus(job[c])) /\ UNCHANGED job
     ELSE /\ holder["agent"] = Free
          /\ job' = [job EXCEPT ![c] = NoJob] /\ UNCHANGED registryVars
  /\ UNCHANGED <<supplies, built>>

\* The agent is registered whatever becomes of the activation.
Registered(c) ==
  /\ Passed(c, "register") /\ Done(c)
  /\ IF job[c].activate THEN Goes(c, "activate") ELSE job' = [job EXCEPT ![c] = NoJob]
  /\ UNCHANGED <<scope, status, revision, events, holder, snapshot, supplies, built>>

Activate(c) ==
  /\ job[c].at = "activate" /\ work[c].at = "idle"
  /\ ActivateAgent(c, job[c].of)
  /\ UNCHANGED <<supplies, job, built>>

Activated(c) ==
  /\ Passed(c, "activate") /\ Done(c) /\ Goes(c, "assemble")
  /\ UNCHANGED <<scope, status, revision, events, holder, snapshot, supplies, built>>

\* A later build of an agent replaces its runtime.
Assemble(c) ==
  /\ job[c].at = "assemble"
  /\ built' = {b \in built : b[1] # job[c].of} \union {<<job[c].of, job[c].register>>}
  /\ job' = [job EXCEPT ![c] = NoJob]
  /\ UNCHANGED <<registryVars, supplies>>

-----------------------------------------------------------------------------
(* Executions                                                                *)

Guarding(c, x, at) ==
  /\ IF status[x] = "active"
     THEN ResolveAgent(c, x) /\ job' = [job EXCEPT ![c] = [NoJob EXCEPT !.at = at, !.of = x]]
     ELSE /\ holder["agent"] = Free
          /\ job' = [job EXCEPT ![c] = NoJob] /\ UNCHANGED registryVars
  /\ UNCHANGED <<supplies, built>>

\* BuiltAgent.execute resolves the agent before it calls the runtime.
Execute(c, x) == Unoccupied(c) /\ x \in {b[1] : b \in built} /\ Guarding(c, x, "entry")

\* Mutation: what was allowed to start may be resumed.
ResumeUnguarded(c, x) ==
  /\ Unoccupied(c) /\ x \in {b[1] : b \in built}
  /\ job' = [job EXCEPT ![c] = [NoJob EXCEPT !.at = "running", !.of = x]]
  /\ UNCHANGED <<registryVars, supplies, built>>

\* A paused execution is resumed on the runtime itself.
Resume(c, x) == Unoccupied(c) /\ x \in {b[1] : b \in built} /\ Guarding(c, x, "guard")

EntryPassed(c) ==
  /\ Passed(c, "entry") /\ Done(c) /\ Goes(c, "called")
  /\ UNCHANGED <<scope, status, revision, events, holder, snapshot, supplies, built>>

\* AgentRuntime._assert_execution_authority calls _runtime_execution_guard.
Guard(c) == job[c].at = "called" /\ Guarding(c, job[c].of, "guard")

Run(c) ==
  /\ Passed(c, "guard") /\ Goes(c, "running")
  /\ UNCHANGED <<registryVars, supplies, built>>

EndRun(c) ==
  /\ job[c].at = "running"
  /\ Done(c) /\ job' = [job EXCEPT ![c] = NoJob]
  /\ UNCHANGED <<scope, status, revision, events, holder, snapshot, supplies, built>>

-----------------------------------------------------------------------------
\* What the registries do for anyone.
RegistryStep ==
  /\ \/ OperatorStep
     \/ \E c \in scope.clients :
          \/ ClientStep(c)
          \/ job[c].at = "none" /\ (Call(c) \/ Return(c) \/ ReturnSnapshot(c))
  /\ UNCHANGED <<supplies, job, built>>

BuildStep(c) ==
  \/ GivesUp(c) \/ LookUp(c) \/ LookUpSkill(c) \/ SkillFound(c) \/ Check(c) \/ Checked(c)
  \/ Resolved(c) \/ Register(c) \/ Registered(c) \/ Activate(c) \/ Activated(c) \/ Assemble(c)

\* bound: what may still happen is not explored.
Quiet ==
  /\ ~ Room /\ \A c \in Clients : Unoccupied(c)
  /\ UNCHANGED factoryVars

FactoryNext ==
  \/ RegistryStep \/ Quiet
  \/ \E s \in Supplies : Supply(s)
  \/ \E c \in scope.clients :
       \/ \E x \in OfKind("agent") :
            \/ \E dryRun, activate, register \in BOOLEAN : Build(c, x, dryRun, activate, register)
            \/ Execute(c, x) \/ Resume(c, x)
       \/ BuildStep(c) \/ EntryPassed(c) \/ Guard(c) \/ Run(c) \/ EndRun(c)

FactorySpec == FactoryInit /\ [][FactoryNext]_factoryVars

-----------------------------------------------------------------------------

\* Whatever happened to the registries since an agent was built, a run or a resumption
\* is under way only if no required component, at any depth, was unusable for the
\* whole of the guard that let it in.
RunsAreGuarded ==
  \A c \in Clients :
    job[c].at = "running" =>
      /\ work[c].at = "passed" /\ work[c].target = job[c].of
      /\ (Required(job[c].of) \union {job[c].of}) \cap work[c].unseen = {}

Owns(c, x) ==
  job[c].of = x /\ job[c].register
    /\ (job[c].at \in {"activate", "assemble"} \/ Passed(c, "register"))

\* Of the builds of one version that register it, however they interleave, at most one
\* is past the registration at any time, under way or with its runtime built.  One that
\* registers and then fails to activate is not counted from its failure on.
OneRegisteringBuild ==
  \A x \in OfKind("agent") :
    Cardinality({c \in Clients : Owns(c, x)}) + (IF <<x, TRUE>> \in built THEN 1 ELSE 0) <= 1
=============================================================================
