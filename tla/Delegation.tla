------------------------------ MODULE Delegation ------------------------------
(***************************************************************************)
(* composition.py: AgentComposer runs built agents on behalf of a running   *)
(* execution, alone (delegate) or as the steps of a composition (compose).  *)
(* Several threads share one composer, and what it creates may delegate in  *)
(* turn.  Agents are suspended and brought back meanwhile.                  *)
(***************************************************************************)
EXTENDS Naturals, Sequences, FiniteSets, Functions

CONSTANTS Threads,
          Agents,          \* exact versions
          Manifest,        \* the exact tool versions of each agent
          ToolOf, Needs,   \* the tool of each version, and the permissions it requires
          AgentRisk, AgentSteps,
          Roots,           \* the contexts of executions that nobody delegated
          Compositions,    \* [pattern, steps]: what compose may be asked for
          Requests,        \* what callers ask of delegate, under ids of their own
          MaxDepth,        \* max_delegation_depth
          Changing,        \* bound: the agents that are suspended and brought back
          MaxExecutions,   \* bound: executions of one behaviour
          MaxSteps,        \* bound: composition steps of one behaviour
          Unstated         \* what a request leaves open

ASSUME AgentAssumption ==
  /\ AgentRisk \in [Agents -> Nat] /\ AgentSteps \in [Agents -> Nat]
  /\ Changing \subseteq Agents /\ MaxDepth \in Nat /\ Unstated \notin Nat \union Agents

ASSUME RequestAssumption ==
  /\ \A r \in Requests : r.child \in Agents /\ r.risk \in Nat \union {Unstated}
  /\ \A d \in Compositions : d.steps \in Seq(Agents)

VARIABLES usable,          \* the agents that are active and built
          executions,      \* every execution, with the context it was given
          used,            \* <<parent, delegation id>> that the composer has admitted
          counter,         \* _composition_counter
          delegating       \* the delegate or compose call each thread is in

delegationVars == <<usable, executions, used, counter, delegating>>

\* What executions hold comes from a root; delegation ids are chosen by callers or
\* counted by the composer.
Versions == UNION {root.tools : root \in Roots}
ToolIds == {ToolOf[v] : v \in Versions} \union UNION {root.ids : root \in Roots}
Permissions == UNION {root.permissions : root \in Roots}
DelegationIds == {r.id : r \in Requests} \union ({"step"} \X Nat) \union {Unstated}

Execution ==
  [agent : Agents, parent : Nat, delegation : DelegationIds,
   tools : SUBSET Versions, ids : SUBSET ToolIds, permissions : SUBSET Permissions,
   risk : Nat, steps : Nat, depth : Nat, path : Seq(Agents),
   status : {"admitted", "running", "refused", "completed", "other"}]

\* A validator of ExecutionContext: no path names an agent twice.
ASSUME RootAssumption ==
  \A root \in Roots : root \in Execution /\ root.parent = 0 /\ IsInjective(root.path)

NoRequest == [child |-> Unstated, tools |-> {}, permissions |-> {}, risk |-> Unstated, id |-> Unstated]

NoCall == [at |-> "idle", parent |-> 0, request |-> NoRequest, steps |-> <<>>,
           sequential |-> FALSE, child |-> 0]

StepRequest(child, n, risk) ==
  [NoRequest EXCEPT !.child = child, !.id = <<"step", n>>, !.risk = risk]

Requested ==
  Requests \union {NoRequest} \union {StepRequest(a, n, k) : a \in Agents, n \in Nat, k \in Nat}

Call ==
  [at : {"idle", "asked", "next", "resolved", "admitted", "child"}, parent : Nat,
   request : Requested, steps : Seq(Agents), sequential : BOOLEAN, child : Nat]

DelegationTypeOK ==
  /\ usable \subseteq Agents
  /\ executions \in Seq(Execution)
  /\ used \subseteq Nat \X DelegationIds
  /\ counter \in Nat
  /\ delegating \in [Threads -> Call]

DelegationInit ==
  /\ usable = Agents
  /\ \E root \in Roots : executions = <<root>>
  /\ used = {}
  /\ counter = 0
  /\ delegating = [t \in Threads |-> NoCall]

\* The registry and the factory, which this module sees only from outside.
ChangeUsable(a) ==
  /\ usable' = (usable \ {a}) \union ({a} \ usable)
  /\ UNCHANGED <<executions, used, counter, delegating>>

-----------------------------------------------------------------------------
(* The ceilings, for the context p of the parent and the request r.          *)

Ids(versions) == {ToolOf[v] : v \in versions}

LowestOf(a, b) == IF a < b THEN a ELSE b

PathFrom(p) ==
  IF p.path = <<>> THEN <<p.agent>>
  ELSE IF p.agent \notin Range(p.path) THEN Append(p.path, p.agent) ELSE p.path

SelectedIds(p, r) ==
  IF r.tools # {} THEN r.tools ELSE Ids(Manifest[r.child]) \cap p.ids

\* Mutation: any version of a tool that the parent may use.
VersionsOfSelected(p, r) == {v \in Manifest[r.child] : ToolOf[v] \in SelectedIds(p, r)}

\* _tool_ceiling
ToolCeiling(p, r) ==
  {v \in Manifest[r.child] \cap p.tools : ToolOf[v] \in SelectedIds(p, r)}

PermissionCeiling(p, r) == IF r.permissions # {} THEN r.permissions ELSE p.permissions

RequestedRisk(r) == IF r.risk = Unstated THEN AgentRisk[r.child] ELSE r.risk

RiskCeiling(p, r) == LowestOf(LowestOf(AgentRisk[r.child], RequestedRisk(r)), p.risk)

\* _validate_parent_request, the depth, the cycle and what the ceilings refuse.
Acceptable(p, r) ==
  /\ r.permissions \subseteq p.permissions
  /\ p.depth < MaxDepth
  /\ r.child \notin Range(PathFrom(p))
  /\ r.tools \subseteq Ids(Manifest[r.child]) \cap p.ids
  /\ SelectedIds(p, r) # {} => ToolCeiling(p, r) # {}
  /\ UNION {Needs[v] : v \in ToolCeiling(p, r)} \subseteq PermissionCeiling(p, r)
  /\ AgentRisk[r.child] <= p.risk /\ RequestedRisk(r) <= p.risk

ChildOf(parent, r) ==
  LET p == executions[parent] IN
  [agent |-> r.child, parent |-> parent, delegation |-> r.id,
   tools |-> ToolCeiling(p, r), ids |-> Ids(ToolCeiling(p, r)),
   permissions |-> PermissionCeiling(p, r), risk |-> RiskCeiling(p, r),
   steps |-> LowestOf(p.steps, AgentSteps[r.child]), depth |-> p.depth + 1,
   path |-> Append(PathFrom(p), r.child), status |-> "admitted"]

-----------------------------------------------------------------------------
Ask(t, parent, r) ==
  /\ delegating[t].at = "idle" /\ Len(executions) < MaxExecutions
  /\ delegating' = [delegating EXCEPT ![t] = [NoCall EXCEPT !.at = "asked", !.parent = parent, !.request = r]]
  /\ UNCHANGED <<usable, executions, used, counter>>

\* A router or a specialist runs one of its steps, the other patterns all of them.
Selections(d) ==
  IF d.pattern \in {"router", "specialist"} THEN {<<d.steps[i]>> : i \in DOMAIN d.steps} ELSE {d.steps}

Compose(t, parent, d, steps) ==
  /\ delegating[t].at = "idle" /\ Len(executions) < MaxExecutions
  /\ delegating' = [delegating EXCEPT ![t] = [NoCall EXCEPT !.at = "next", !.parent = parent, !.steps = steps,
                                                !.sequential = d.pattern = "sequential"]]
  /\ UNCHANGED <<usable, executions, used, counter>>

\* The request of the next step, under an id of its own.
NextStep(t) ==
  LET c == delegating[t] IN
  /\ c.at = "next" /\ c.steps # <<>> /\ counter < MaxSteps
  /\ counter' = counter + 1
  /\ delegating' = [delegating EXCEPT ![t] =
       [c EXCEPT !.at = "asked", !.steps = Tail(@),
                 !.request = StepRequest(Head(c.steps), counter + 1, executions[c.parent].risk)]]
  /\ UNCHANGED <<usable, executions, used>>

Raise(t) == delegating' = [delegating EXCEPT ![t] = NoCall]

\* Everything delegate does before its lock.  What raises ends a composition too.
Resolve(t) ==
  LET c == delegating[t] IN
  /\ c.at = "asked"
  /\ IF Acceptable(executions[c.parent], c.request) /\ c.request.child \in usable
     THEN delegating' = [delegating EXCEPT ![t].at = "resolved"]
     ELSE Raise(t)
  /\ UNCHANGED <<usable, executions, used, counter>>

\* Under the lock: an id is spent whether or not the child comes to run.
Admit(t) ==
  LET c == delegating[t]
      spent == <<c.parent, c.request.id>>
  IN
  /\ c.at = "resolved"
  /\ IF spent \in used
     THEN Raise(t) /\ UNCHANGED <<executions, used>>
     ELSE /\ used' = used \union {spent}
          /\ executions' = Append(executions, ChildOf(c.parent, c.request))
          /\ delegating' = [delegating EXCEPT ![t] =
               [c EXCEPT !.at = "admitted", !.child = Len(executions) + 1]]
  /\ UNCHANGED <<usable, counter>>

\* BuiltAgent.execute has its own guard.
Start(t) ==
  LET c == delegating[t]
      runs == executions[c.child].agent \in usable
  IN
  /\ c.at = "admitted"
  /\ executions' = [executions EXCEPT ![c.child].status = IF runs THEN "running" ELSE "refused"]
  /\ IF runs THEN delegating' = [delegating EXCEPT ![t].at = "child"] ELSE Raise(t)
  /\ UNCHANGED <<usable, used, counter>>

\* A sequence ends at the first step that does not complete; the outcome of a
\* composition is that of its first step that did not.
End(t, status) ==
  LET c == delegating[t] IN
  /\ c.at = "child"
  /\ executions' = [executions EXCEPT ![c.child].status = status]
  /\ IF c.steps # <<>> /\ (c.sequential => status = "completed")
     THEN delegating' = [delegating EXCEPT ![t] =
            [c EXCEPT !.at = "next", !.request = NoRequest, !.child = 0]]
     ELSE Raise(t)
  /\ UNCHANGED <<usable, used, counter>>

DelegationNext ==
  \/ \E a \in Changing : ChangeUsable(a)
  \/ \E t \in Threads :
       \/ \E parent \in DOMAIN executions :
            \/ \E r \in Requests : Ask(t, parent, r)
            \/ \E d \in Compositions : \E steps \in Selections(d) : Compose(t, parent, d, steps)
       \/ NextStep(t) \/ Resolve(t) \/ Admit(t) \/ Start(t)
       \/ \E status \in {"completed", "other"} : End(t, status)

DelegationSpec == DelegationInit /\ [][DelegationNext]_delegationVars

-----------------------------------------------------------------------------

\* However long the chain and however many threads delegate for one execution, a
\* child has no tool version, permission, risk or step that its parent does not have,
\* no tool whose permissions it lacks, no ancestor of its own identity, and shares its
\* delegation id with no other child of that parent.
DelegationNarrows ==
  \A i \in DOMAIN executions :
    LET e == executions[i]
        p == executions[e.parent]
    IN  e.parent # 0 =>
          /\ e.tools \subseteq p.tools \cap Manifest[e.agent]
          /\ e.permissions \subseteq p.permissions
          /\ UNION {Needs[v] : v \in e.tools} \subseteq e.permissions
          /\ e.risk <= p.risk /\ e.steps <= p.steps /\ e.depth <= MaxDepth
          /\ IsInjective(e.path)
          /\ \A j \in DOMAIN executions \ {i} :
               executions[j].parent = e.parent => executions[j].delegation # e.delegation
=============================================================================
