-------------------------- MODULE DelegationProofs --------------------------
(***************************************************************************)
(* What the composer promises of every execution that it lets run: no more  *)
(* authority than the parent has, nor than the execution nobody delegated,  *)
(* for any agents, requests, compositions, threads and chains.              *)
(***************************************************************************)
EXTENDS Delegation, TLAPS

\* A child's context against its parent's.
Narrowed(e, p) ==
  /\ e.tools \subseteq p.tools \cap Manifest[e.agent]
  /\ e.permissions \subseteq p.permissions
  /\ UNION {Needs[v] : v \in e.tools} \subseteq e.permissions
  /\ e.risk <= p.risk
  /\ e.steps <= p.steps
  /\ e.depth <= MaxDepth

\* An execution's context never changes, its status does.
SameContext(e, f) ==
  /\ f.agent = e.agent /\ f.parent = e.parent /\ f.delegation = e.delegation
  /\ f.tools = e.tools /\ f.ids = e.ids /\ f.permissions = e.permissions
  /\ f.risk = e.risk /\ f.steps = e.steps /\ f.depth = e.depth /\ f.path = e.path

\* Parents come before their children, whose ids are spent.
Lineage(i) ==
  LET e == executions[i] IN
  /\ e.parent < i
  /\ IsInjective(e.path)
  /\ e.parent # 0 => Narrowed(e, executions[e.parent]) /\ <<e.parent, e.delegation>> \in used

\* Two children of one parent have two ids.
OwnIds(i, j) ==
  i # j /\ executions[i].parent # 0 /\ executions[i].parent = executions[j].parent
    => executions[i].delegation # executions[j].delegation

Lineages ==
  /\ \A i \in DOMAIN executions : Lineage(i)
  /\ \A i, j \in DOMAIN executions : OwnIds(i, j)

\* What a thread holds between the steps of its call: an existing parent whose context
\* accepts the request once the checks before the lock are behind it.
Holds(c) ==
  /\ c.at # "idle" => c.parent \in DOMAIN executions
  /\ c.at \in {"asked", "resolved", "admitted", "child"} => c.request # NoRequest
  /\ c.at = "resolved" => Acceptable(executions[c.parent], c.request)
  /\ c.at \in {"admitted", "child"} => c.child \in DOMAIN executions

CallsHold == \A t \in Threads : Holds(delegating[t])

DelegationInv == DelegationTypeOK /\ Lineages /\ CallsHold

-----------------------------------------------------------------------------
(* The operators                                                             *)

\* The lower of two levels.
LEMMA LowestIs ==
  ASSUME NEW a \in Nat, NEW b \in Nat
  PROVE  LowestOf(a, b) \in Nat /\ LowestOf(a, b) <= a /\ LowestOf(a, b) <= b
BY DEF LowestOf

\* A path that an agent is not on still names nobody twice when it is put at the end.
LEMMA AppendInjective ==
  ASSUME NEW S, NEW path \in Seq(S), IsInjective(path), NEW a \in S, a \notin Range(path)
  PROVE  Append(path, a) \in Seq(S) /\ IsInjective(Append(path, a))
<1> DEFINE q == Append(path, a)
           n == Len(path)
<1>1. /\ n \in Nat /\ DOMAIN path = 1 .. n /\ DOMAIN q = 1 .. n + 1 /\ q \in Seq(S)
      /\ \A i \in 1 .. n : q[i] = path[i]
      /\ q[n + 1] = a
  OBVIOUS
<1>2. \A i \in 1 .. n : path[i] # a
  BY <1>1 DEF Range
<1>3. \A i, j \in 1 .. n : path[i] = path[j] => i = j
  BY <1>1 DEF IsInjective
<1> HIDE DEF q, n
<1>4. \A i \in 1 .. n + 1 : i \in 1 .. n \/ i = n + 1
  BY <1>1
<1>5. \A i, j \in 1 .. n + 1 : q[i] = q[j] => i = j
  BY <1>1, <1>2, <1>3, <1>4
<1>6. IsInjective(q)
  BY <1>1, <1>5 DEF IsInjective
<1> QED BY <1>1, <1>6 DEF q

\* The path of a parent, with the parent on it.
LEMMA PathTyped ==
  ASSUME NEW p \in Execution, IsInjective(p.path)
  PROVE  PathFrom(p) \in Seq(Agents) /\ IsInjective(PathFrom(p))
<1>1. p.path \in Seq(Agents) /\ p.agent \in Agents
  BY DEF Execution
<1>2. CASE p.path = <<>>
  <2>1. <<p.agent>> \in Seq(Agents) /\ DOMAIN <<p.agent>> = {1}
    BY <1>1
  <2>2. IsInjective(<<p.agent>>)
    BY <2>1 DEF IsInjective
  <2> QED BY <1>2, <2>1, <2>2 DEF PathFrom
<1>3. CASE p.path # <<>> /\ p.agent \notin Range(p.path)
  BY <1>1, <1>3, AppendInjective DEF PathFrom
<1>4. CASE p.path # <<>> /\ p.agent \in Range(p.path)
  BY <1>1, <1>4 DEF PathFrom
<1> QED BY <1>2, <1>3, <1>4

\* What a call asks for, once it asks for something.
LEMMA AskedTyped ==
  ASSUME NEW c \in Call, c.request # NoRequest
  PROVE  c.request.child \in Agents /\ RequestedRisk(c.request) \in Nat /\ c.request.id \in DelegationIds
<1>1. CASE c.request \in Requests
  BY <1>1, RequestAssumption, AgentAssumption DEF RequestedRisk, DelegationIds
<1>2. ASSUME NEW a \in Agents, NEW n \in Nat, NEW k \in Nat, c.request = StepRequest(a, n, k)
      PROVE  c.request.child \in Agents /\ RequestedRisk(c.request) \in Nat /\ c.request.id \in DelegationIds
  <2>1. c.request.child = a /\ c.request.risk = k /\ c.request.id = <<"step", n>>
    BY <1>2 DEF StepRequest, NoRequest
  <2>2. <<"step", n>> \in DelegationIds
    BY DEF DelegationIds
  <2> QED BY <2>1, <2>2, AgentAssumption DEF RequestedRisk
<1> QED BY <1>1, <1>2 DEF Call, Requested

\* Whatever is accepted, the child's context is one, and narrower than its parent's.
LEMMA ChildNarrows ==
  ASSUME DelegationTypeOK, NEW parent \in DOMAIN executions, IsInjective(executions[parent].path),
         NEW r, r.child \in Agents, RequestedRisk(r) \in Nat, r.id \in DelegationIds,
         Acceptable(executions[parent], r)
  PROVE  /\ ChildOf(parent, r) \in Execution
         /\ ChildOf(parent, r).parent = parent
         /\ ChildOf(parent, r).delegation = r.id
         /\ IsInjective(ChildOf(parent, r).path)
         /\ Narrowed(ChildOf(parent, r), executions[parent])
<1> DEFINE p == executions[parent]
           e == ChildOf(parent, r)
<1>1. p \in Execution /\ parent \in Nat
  BY DEF DelegationTypeOK
<1> DEFINE low == LowestOf(AgentRisk[r.child], RequestedRisk(r))
<1>2. RiskCeiling(p, r) \in Nat /\ RiskCeiling(p, r) <= p.risk
  <2>1. p.risk \in Nat /\ AgentRisk[r.child] \in Nat
    BY <1>1, AgentAssumption DEF Execution
  <2>2. low \in Nat
    BY <2>1, LowestIs
  <2> HIDE DEF low, p
  <2>3. LowestOf(low, p.risk) \in Nat /\ LowestOf(low, p.risk) <= p.risk
    BY <2>1, <2>2, LowestIs
  <2> QED BY <2>3 DEF RiskCeiling, low
<1>3. LowestOf(p.steps, AgentSteps[r.child]) \in Nat /\ LowestOf(p.steps, AgentSteps[r.child]) <= p.steps
  <2>1. p.steps \in Nat /\ AgentSteps[r.child] \in Nat
    BY <1>1, AgentAssumption DEF Execution
  <2> HIDE DEF p
  <2> QED BY <2>1, LowestIs
<1>4. p.depth + 1 \in Nat /\ p.depth + 1 <= MaxDepth
  BY <1>1, AgentAssumption DEF Execution, Acceptable
<1>5. Append(PathFrom(p), r.child) \in Seq(Agents) /\ IsInjective(Append(PathFrom(p), r.child))
  <2>1. r.child \notin Range(PathFrom(p))
    BY DEF Acceptable
  <2>2. PathFrom(p) \in Seq(Agents) /\ IsInjective(PathFrom(p))
    BY <1>1, PathTyped
  <2> QED BY <2>1, <2>2, AppendInjective
<1>6. ToolCeiling(p, r) \subseteq p.tools \cap Manifest[r.child]
  BY DEF ToolCeiling
<1>7. p.tools \subseteq Versions /\ p.permissions \subseteq Permissions
  BY <1>1 DEF Execution
<1>8. Ids(ToolCeiling(p, r)) \subseteq ToolIds
  BY <1>6, <1>7 DEF Ids, ToolIds
<1>9. PermissionCeiling(p, r) \subseteq p.permissions
  BY DEF PermissionCeiling, Acceptable
<1>10. UNION {Needs[v] : v \in ToolCeiling(p, r)} \subseteq PermissionCeiling(p, r)
  BY DEF Acceptable
<1>11. e = [agent |-> r.child, parent |-> parent, delegation |-> r.id,
            tools |-> ToolCeiling(p, r), ids |-> Ids(ToolCeiling(p, r)),
            permissions |-> PermissionCeiling(p, r), risk |-> RiskCeiling(p, r),
            steps |-> LowestOf(p.steps, AgentSteps[r.child]), depth |-> p.depth + 1,
            path |-> Append(PathFrom(p), r.child), status |-> "admitted"]
  BY DEF ChildOf
<1> HIDE DEF e, p
<1>12. e \in Execution
  BY <1>1, <1>2, <1>3, <1>4, <1>5, <1>6, <1>7, <1>8, <1>9, <1>11 DEF Execution
<1>13. Narrowed(e, p)
  <2>1. /\ e.tools = ToolCeiling(p, r) /\ e.agent = r.child /\ e.permissions = PermissionCeiling(p, r)
        /\ e.risk = RiskCeiling(p, r) /\ e.steps = LowestOf(p.steps, AgentSteps[r.child])
        /\ e.depth = p.depth + 1
    BY <1>11
  <2> QED BY <1>2, <1>3, <1>4, <1>6, <1>9, <1>10, <2>1 DEF Narrowed
<1>14. e.parent = parent /\ e.delegation = r.id /\ IsInjective(e.path)
  BY <1>5, <1>11
<1> QED BY <1>12, <1>13, <1>14 DEF e, p

-----------------------------------------------------------------------------
(* The steps                                                                 *)

\* What every execution is.
LEMMA ContextTyped ==
  ASSUME DelegationTypeOK, NEW i \in DOMAIN executions
  PROVE  /\ executions[i] \in Execution
         /\ DOMAIN executions = 1 .. Len(executions) /\ Len(executions) \in Nat /\ i \in Nat \ {0}
BY DEF DelegationTypeOK

\* What was accepted or narrower stays so when only a status changes.
LEMMA SameAccepts ==
  ASSUME NEW e, NEW f, SameContext(e, f)
  PROVE  /\ \A r : Acceptable(e, r) => Acceptable(f, r)
         /\ \A x, y : Narrowed(x, e) /\ SameContext(x, y) => Narrowed(y, f)
<1>1. ASSUME NEW r, Acceptable(e, r)
      PROVE  Acceptable(f, r)
  <2>1. /\ PathFrom(e) = PathFrom(f) /\ SelectedIds(e, r) = SelectedIds(f, r)
        /\ ToolCeiling(e, r) = ToolCeiling(f, r) /\ PermissionCeiling(e, r) = PermissionCeiling(f, r)
    BY DEF SameContext, PathFrom, SelectedIds, ToolCeiling, PermissionCeiling
  <2> QED BY <1>1, <2>1 DEF Acceptable, SameContext
<1>2. ASSUME NEW x, NEW y, Narrowed(x, e), SameContext(x, y)
      PROVE  Narrowed(y, f)
  BY <1>2 DEF Narrowed, SameContext
<1> QED BY <1>1, <1>2

\* No execution disappears and none changes but for its status.
Stays == \A i \in DOMAIN executions : i \in DOMAIN executions' /\ SameContext(executions[i], executions'[i])

\* What a call holds it holds on to.
LEMMA StillHolds ==
  ASSUME Stays, NEW c, Holds(c)
  PROVE  Holds(c)'
<1>1. c.at = "resolved" => Acceptable(executions'[c.parent], c.request)
  BY SameAccepts DEF Holds, Stays
<1> QED BY <1>1 DEF Holds, Stays

\* One call moves, and the others are as they were.
LEMMA CallMoves ==
  ASSUME DelegationInv, Stays, NEW t \in Threads, NEW c \in Call,
         delegating' = [delegating EXCEPT ![t] = c], Holds(c)'
  PROVE  CallsHold' /\ delegating' \in [Threads -> Call]
<1>1. delegating' \in [Threads -> Call]
  BY DEF DelegationInv, DelegationTypeOK
<1>2. ASSUME NEW u \in Threads
      PROVE  Holds(delegating[u])'
  <2>1. CASE u = t
    <3>1. delegating'[u] = c
      BY <2>1 DEF DelegationInv, DelegationTypeOK
    <3> QED BY <3>1 DEF Holds
  <2>2. CASE u # t
    <3>1. delegating'[u] = delegating[u] /\ Holds(delegating[u])
      BY <2>2 DEF DelegationInv, DelegationTypeOK, CallsHold
    <3> DEFINE d == delegating[u]
    <3>2. Holds(d)
      BY <3>1
    <3>3. d = delegating'[u]
      BY <3>1
    <3> HIDE DEF d
    <3>4. \A e : Holds(e) => Holds(e)'
      BY StillHolds
    <3> QED BY <3>2, <3>3, <3>4 DEF Holds
  <2> QED BY <2>1, <2>2
<1> QED BY <1>1, <1>2 DEF CallsHold

\* Lineages do not look at a status.
LEMMA LineagesStay ==
  ASSUME DelegationInv, Stays, DOMAIN executions' = DOMAIN executions, used \subseteq used'
  PROVE  Lineages'
<1>1. ASSUME NEW i \in DOMAIN executions
      PROVE  Lineage(i)'
  <2>0. executions[i] \in Execution /\ DOMAIN executions = 1 .. Len(executions) /\ Len(executions) \in Nat
    BY ContextTyped DEF DelegationInv
  <2>1. Lineage(i) /\ i \in Nat /\ SameContext(executions[i], executions'[i])
    <3>1. i \in Nat
      BY <2>0
    <3>2. Lineage(i)
      BY DEF DelegationInv, Lineages
    <3> QED BY <3>1, <3>2 DEF Stays
  <2>2. executions[i].parent \in Nat
    BY <2>0 DEF Execution
  <2>3. executions[i].parent # 0 => executions[i].parent \in DOMAIN executions
    BY <2>0, <2>1, <2>2 DEF Lineage
  <2>4. ASSUME executions[i].parent # 0
        PROVE  Narrowed(executions'[i], executions'[executions[i].parent])
    <3>1. /\ Narrowed(executions[i], executions[executions[i].parent])
          /\ SameContext(executions[executions[i].parent], executions'[executions[i].parent])
      BY <2>1, <2>3, <2>4 DEF Lineage, Stays
    <3> QED BY <2>1, <3>1, SameAccepts
  <2> QED BY <2>1, <2>4 DEF Lineage, SameContext
<1>2. \A i, j \in DOMAIN executions : OwnIds(i, j)'
  BY DEF OwnIds, Stays, SameContext, DelegationInv, Lineages
<1> QED BY <1>1, <1>2 DEF Lineages

\* The steps that only move one call.
LEMMA CallStep ==
  ASSUME DelegationInv, UNCHANGED <<usable, executions, used>>, counter' \in {counter, counter + 1},
         NEW t \in Threads, NEW c \in Call, delegating' = [delegating EXCEPT ![t] = c], Holds(c)
  PROVE  DelegationInv'
<1>1. Stays
  BY DEF Stays, SameContext
<1>2. Holds(c)'
  BY <1>1, StillHolds
<1>3. CallsHold' /\ delegating' \in [Threads -> Call]
  BY <1>1, <1>2, CallMoves
<1>4. Lineages'
  BY <1>1, LineagesStay
<1> QED BY <1>3, <1>4 DEF DelegationInv, DelegationTypeOK

\* An idle thread holds nothing.
LEMMA NoCallHolds == NoCall \in Call /\ Holds(NoCall)
<1>1. <<>> \in Seq(Agents)
  OBVIOUS
<1> QED BY <1>1 DEF NoCall, Call, Requested, Holds

\* delegate is called.
LEMMA AskKeeps ==
  ASSUME DelegationInv, NEW t \in Threads, NEW parent \in DOMAIN executions, NEW r \in Requests,
         Ask(t, parent, r)
  PROVE  DelegationInv'
<1> DEFINE c == [NoCall EXCEPT !.at = "asked", !.parent = parent, !.request = r]
<1>1. parent \in Nat /\ r # NoRequest /\ r \in Requested
  BY RequestAssumption, AgentAssumption DEF DelegationInv, DelegationTypeOK, NoRequest, Requested
<1>2. c \in Call /\ c.at = "asked" /\ c.parent = parent /\ c.request = r
  BY <1>1, NoCallHolds DEF Call
<1>3. delegating' = [delegating EXCEPT ![t] = c] /\ UNCHANGED <<usable, executions, used, counter>>
  BY DEF Ask
<1> HIDE DEF c
<1>4. Holds(c)
  BY <1>1, <1>2 DEF Holds
<1> QED BY <1>2, <1>3, <1>4, CallStep

\* A path of agents that a composition may take.
LEMMA SelectionsTyped ==
  ASSUME NEW d \in Compositions, NEW steps \in Selections(d)
  PROVE  steps \in Seq(Agents)
<1>1. d.steps \in Seq(Agents)
  BY RequestAssumption
<1>2. \A i \in DOMAIN d.steps : <<d.steps[i]>> \in Seq(Agents)
  BY <1>1
<1> QED BY <1>1, <1>2 DEF Selections

\* compose is called.
LEMMA ComposeKeeps ==
  ASSUME DelegationInv, NEW t \in Threads, NEW parent \in DOMAIN executions,
         NEW d \in Compositions, NEW steps \in Selections(d), Compose(t, parent, d, steps)
  PROVE  DelegationInv'
<1> DEFINE c == [NoCall EXCEPT !.at = "next", !.parent = parent, !.steps = steps,
                               !.sequential = d.pattern = "sequential"]
<1>1. parent \in Nat /\ steps \in Seq(Agents)
  BY SelectionsTyped DEF DelegationInv, DelegationTypeOK
<1>2. c \in Call /\ c.at = "next" /\ c.parent = parent
  <2>1. (d.pattern = "sequential") \in BOOLEAN
    OBVIOUS
  <2> QED BY <1>1, <2>1, NoCallHolds DEF Call
<1>3. delegating' = [delegating EXCEPT ![t] = c] /\ UNCHANGED <<usable, executions, used, counter>>
  BY DEF Compose
<1> HIDE DEF c
<1>4. Holds(c)
  BY <1>1, <1>2 DEF Holds
<1> QED BY <1>2, <1>3, <1>4, CallStep

\* The next step of a composition asks within its parent's risk.
LEMMA NextStepKeeps ==
  ASSUME DelegationInv, NEW t \in Threads, NextStep(t)
  PROVE  DelegationInv'
<1> DEFINE b == delegating[t]
           r == StepRequest(Head(b.steps), counter + 1, executions[b.parent].risk)
           c == [b EXCEPT !.at = "asked", !.steps = Tail(b.steps), !.request = r]
<1>1. b \in Call /\ Holds(b) /\ b.at = "next" /\ b.steps # <<>> /\ counter' = counter + 1 /\ counter \in Nat
  BY DEF DelegationInv, DelegationTypeOK, CallsHold, NextStep
<1>2. b.parent \in DOMAIN executions /\ executions[b.parent] \in Execution
  BY <1>1 DEF Holds, DelegationInv, DelegationTypeOK
<1>3. Head(b.steps) \in Agents /\ Tail(b.steps) \in Seq(Agents)
  <2>1. b.steps \in Seq(Agents)
    BY <1>1 DEF Call
  <2> QED BY <1>1, <2>1
<1>4. r \in Requested
  <2>1. executions[b.parent].risk \in Nat /\ counter + 1 \in Nat
    BY <1>1, <1>2 DEF Execution
  <2> QED BY <1>3, <2>1 DEF Requested
<1>5. r # NoRequest
  <2>1. r.child = Head(b.steps)
    BY DEF StepRequest, NoRequest
  <2> QED BY <1>3, <2>1, AgentAssumption DEF NoRequest
<1> HIDE DEF r
<1>6. delegating' = [delegating EXCEPT ![t] = c] /\ UNCHANGED <<usable, executions, used>>
  BY DEF NextStep, r
<1>7. c \in Call /\ c.at = "asked" /\ c.parent = b.parent /\ c.request = r
  BY <1>1, <1>3, <1>4 DEF Call
<1> HIDE DEF c, b
<1>8. Holds(c)
  BY <1>2, <1>7, <1>5 DEF Holds
<1> QED BY <1>1, <1>6, <1>7, <1>8, CallStep

\* The checks before the lock.
LEMMA ResolveKeeps ==
  ASSUME DelegationInv, NEW t \in Threads, Resolve(t)
  PROVE  DelegationInv'
<1> DEFINE b == delegating[t]
           c == [b EXCEPT !.at = "resolved"]
<1>1. b \in Call /\ Holds(b) /\ b.at = "asked" /\ UNCHANGED <<usable, executions, used, counter>>
  BY DEF DelegationInv, DelegationTypeOK, CallsHold, Resolve
<1>2. CASE Acceptable(executions[b.parent], b.request) /\ delegating' = [delegating EXCEPT ![t] = c]
  <2>1. c \in Call /\ c.at = "resolved" /\ c.parent = b.parent /\ c.request = b.request
    BY <1>1 DEF Call
  <2> HIDE DEF b, c
  <2>2. Holds(c)
    BY <1>1, <1>2, <2>1 DEF Holds
  <2> QED BY <1>1, <1>2, <2>1, <2>2, CallStep
<1>3. CASE delegating' = [delegating EXCEPT ![t] = NoCall]
  BY <1>1, <1>3, NoCallHolds, CallStep
<1>4. \/ Acceptable(executions[b.parent], b.request) /\ delegating' = [delegating EXCEPT ![t] = c]
      \/ delegating' = [delegating EXCEPT ![t] = NoCall]
  BY DEF Resolve, Raise
<1> QED BY <1>2, <1>3, <1>4

\* The execution of a child comes and goes through its statuses.
LEMMA StatusMoves ==
  ASSUME DelegationInv, NEW i \in DOMAIN executions,
         NEW status \in {"running", "refused", "completed", "other"},
         executions' = [executions EXCEPT ![i].status = status], UNCHANGED <<usable, used, counter>>,
         NEW t \in Threads, NEW c \in Call, delegating' = [delegating EXCEPT ![t] = c], Holds(c)
  PROVE  DelegationInv'
<1> DEFINE n == Len(executions)
           e == [executions[i] EXCEPT !.status = status]
<1>1. DOMAIN executions = 1 .. n /\ n \in Nat /\ executions[i] \in Execution /\ executions \in Seq(Execution)
  BY ContextTyped DEF DelegationInv, DelegationTypeOK
<1>2. e \in Execution /\ SameContext(executions[i], e)
  BY <1>1 DEF Execution, SameContext
<1>3. executions' = [executions EXCEPT ![i] = e]
  OBVIOUS
<1> HIDE DEF e, n
<1>4. executions' \in Seq(Execution) /\ DOMAIN executions' = DOMAIN executions
  BY <1>1, <1>2, <1>3
<1>5. Stays
  BY <1>2, <1>3, <1>4 DEF Stays, SameContext
<1>6. Holds(c)'
  BY <1>5, StillHolds
<1>7. CallsHold' /\ delegating' \in [Threads -> Call]
  BY <1>5, <1>6, CallMoves
<1>8. Lineages'
  BY <1>4, <1>5, LineagesStay
<1> QED BY <1>4, <1>7, <1>8 DEF DelegationInv, DelegationTypeOK

\* The child begins, or its agent refuses.
LEMMA StartKeeps ==
  ASSUME DelegationInv, NEW t \in Threads, Start(t)
  PROVE  DelegationInv'
<1> DEFINE b == delegating[t]
           c == [b EXCEPT !.at = "child"]
           i == b.child
<1>1. b \in Call /\ Holds(b) /\ b.at = "admitted" /\ UNCHANGED <<usable, used, counter>>
  BY DEF DelegationInv, DelegationTypeOK, CallsHold, Start
<1>2. i \in DOMAIN executions
  BY <1>1 DEF Holds
<1>3. c \in Call /\ Holds(c)
  <2>1. c \in Call /\ c.at = "child" /\ c.parent = b.parent /\ c.request = b.request /\ c.child = b.child
    BY <1>1 DEF Call
  <2> HIDE DEF b, c
  <2> QED BY <1>1, <2>1 DEF Holds
<1>4. \/ /\ executions' = [executions EXCEPT ![i].status = "running"]
         /\ delegating' = [delegating EXCEPT ![t] = c]
      \/ /\ executions' = [executions EXCEPT ![i].status = "refused"]
         /\ delegating' = [delegating EXCEPT ![t] = NoCall]
  BY DEF Start, Raise
<1> HIDE DEF b, c, i
<1>5. CASE /\ executions' = [executions EXCEPT ![i].status = "running"]
           /\ delegating' = [delegating EXCEPT ![t] = c]
  BY <1>1, <1>2, <1>3, <1>5, StatusMoves
<1>6. CASE /\ executions' = [executions EXCEPT ![i].status = "refused"]
           /\ delegating' = [delegating EXCEPT ![t] = NoCall]
  BY <1>1, <1>2, <1>6, NoCallHolds, StatusMoves
<1> QED BY <1>4, <1>5, <1>6

\* The child ends, and with it the call or one step of it.
LEMMA EndKeeps ==
  ASSUME DelegationInv, NEW t \in Threads, NEW status \in {"completed", "other"}, End(t, status)
  PROVE  DelegationInv'
<1> DEFINE b == delegating[t]
           c == [b EXCEPT !.at = "next", !.request = NoRequest, !.child = 0]
           i == b.child
<1>1. b \in Call /\ Holds(b) /\ b.at = "child" /\ UNCHANGED <<usable, used, counter>>
  BY DEF DelegationInv, DelegationTypeOK, CallsHold, End
<1>2. i \in DOMAIN executions
  BY <1>1 DEF Holds
<1>3. c \in Call /\ Holds(c)
  <2>1. NoRequest \in Requested
    BY DEF Requested
  <2>2. c \in Call /\ c.at = "next" /\ c.parent = b.parent
    BY <1>1, <2>1 DEF Call
  <2> HIDE DEF b, c
  <2> QED BY <1>1, <2>2 DEF Holds
<1>4. executions' = [executions EXCEPT ![i].status = status]
  BY DEF End
<1>5. delegating' = [delegating EXCEPT ![t] = c] \/ delegating' = [delegating EXCEPT ![t] = NoCall]
  BY DEF End, Raise
<1> HIDE DEF b, c, i
<1>6. CASE delegating' = [delegating EXCEPT ![t] = c]
  BY <1>1, <1>2, <1>3, <1>4, <1>6, StatusMoves
<1>7. CASE delegating' = [delegating EXCEPT ![t] = NoCall]
  BY <1>1, <1>2, <1>4, <1>7, NoCallHolds, StatusMoves
<1> QED BY <1>5, <1>6, <1>7

\* Under the lock a child is added, at the end, unless its id is spent.
AddsChild(t) ==
  LET c == delegating[t] IN
  /\ <<c.parent, c.request.id>> \notin used
  /\ used' = used \union {<<c.parent, c.request.id>>}
  /\ executions' = Append(executions, ChildOf(c.parent, c.request))

\* The child that is added is one of an existing parent that accepted it.
LEMMA AddedChild ==
  ASSUME DelegationInv, NEW t \in Threads, delegating[t].at = "resolved", AddsChild(t)
  PROVE  LET parent == delegating[t].parent
             e == executions'[Len(executions) + 1]
         IN  /\ parent \in DOMAIN executions /\ parent \in Nat \ {0} /\ parent <= Len(executions)
             /\ executions' \in Seq(Execution) /\ used' \subseteq Nat \X DelegationIds
             /\ DOMAIN executions' = 1 .. Len(executions) + 1
             /\ \A i \in DOMAIN executions : i \in DOMAIN executions' /\ executions'[i] = executions[i]
             /\ e.parent = parent /\ e.delegation = delegating[t].request.id
             /\ IsInjective(e.path) /\ Narrowed(e, executions[parent])
<1> DEFINE b == delegating[t]
           parent == b.parent
           r == b.request
           e == ChildOf(parent, r)
           n == Len(executions)
<1>1. b \in Call /\ Holds(b) /\ b.at = "resolved"
  BY DEF DelegationInv, DelegationTypeOK, CallsHold
<1>2. parent \in DOMAIN executions /\ r # NoRequest /\ Acceptable(executions[parent], r)
  BY <1>1 DEF Holds
<1>3. r.child \in Agents /\ RequestedRisk(r) \in Nat /\ r.id \in DelegationIds
  BY <1>1, <1>2, AskedTyped
<1>4. DelegationTypeOK /\ IsInjective(executions[parent].path)
  BY <1>2 DEF DelegationInv, Lineages, Lineage
<1>5. /\ e \in Execution /\ e.parent = parent /\ e.delegation = r.id /\ IsInjective(e.path)
      /\ Narrowed(e, executions[parent])
  BY <1>2, <1>3, <1>4, ChildNarrows
<1>6. DOMAIN executions = 1 .. n /\ n \in Nat /\ parent \in Nat \ {0} /\ executions \in Seq(Execution)
  BY <1>2, <1>4, ContextTyped DEF DelegationTypeOK
<1>7. executions' = Append(executions, e) /\ used' = used \union {<<parent, r.id>>}
  BY DEF AddsChild
<1>8. used' \subseteq Nat \X DelegationIds
  BY <1>3, <1>4, <1>6, <1>7 DEF DelegationTypeOK
<1> HIDE DEF e, r, parent, b
<1>9. /\ executions' \in Seq(Execution) /\ DOMAIN executions' = 1 .. n + 1 /\ executions'[n + 1] = e
      /\ \A i \in 1 .. n : i \in 1 .. n + 1 /\ executions'[i] = executions[i]
  BY <1>5, <1>6, <1>7
<1>10. parent <= n
  BY <1>2, <1>6
<1> QED BY <1>2, <1>5, <1>6, <1>8, <1>9, <1>10 DEF b, parent, r

\* Its lineage is right, and the others' are as they were.
LEMMA AddedLineages ==
  ASSUME DelegationInv, NEW t \in Threads, delegating[t].at = "resolved", AddsChild(t)
  PROVE  Lineages'
<1> DEFINE n == Len(executions)
           parent == delegating[t].parent
           id == delegating[t].request.id
           e == executions'[n + 1]
<1>1. /\ parent \in 1 .. n /\ n \in Nat /\ DOMAIN executions = 1 .. n /\ DOMAIN executions' = 1 .. n + 1
      /\ \A i \in 1 .. n : executions'[i] = executions[i] /\ executions[i].parent \in Nat
      /\ e.parent = parent /\ e.delegation = id
      /\ IsInjective(e.path) /\ Narrowed(e, executions[parent])
  <2>1. DOMAIN executions = 1 .. n /\ n \in Nat
    BY DEF DelegationInv, DelegationTypeOK
  <2>2. \A i \in 1 .. n : executions[i].parent \in Nat
    BY <2>1, ContextTyped DEF DelegationInv, Execution
  <2> QED BY <2>1, <2>2, AddedChild
<1>2. <<parent, id>> \notin used /\ used' = used \union {<<parent, id>>}
  BY DEF AddsChild
<1>3. /\ \A i \in 1 .. n : Lineage(i)
      /\ \A i, j \in 1 .. n : OwnIds(i, j)
  BY <1>1 DEF DelegationInv, Lineages
<1> HIDE DEF n, parent, id
<1>4. \A i \in 1 .. n + 1 : i \in 1 .. n \/ i = n + 1
  BY <1>1
<1>5. ASSUME NEW i \in 1 .. n
      PROVE  Lineage(i)'
  <2>1. /\ executions'[i] = executions[i] /\ executions[i].parent < i /\ IsInjective(executions[i].path)
        /\ executions[i].parent # 0 =>
             /\ Narrowed(executions[i], executions[executions[i].parent])
             /\ <<executions[i].parent, executions[i].delegation>> \in used
    BY <1>1, <1>3 DEF Lineage
  <2>2. executions[i].parent # 0 => executions[i].parent \in 1 .. n
    BY <1>1, <2>1
  <2>3. executions[i].parent # 0 => executions'[executions[i].parent] = executions[executions[i].parent]
    BY <1>1, <2>2
  <2> QED BY <1>2, <2>1, <2>3 DEF Lineage
<1>6. ASSUME NEW i, i = n + 1
      PROVE  Lineage(i)'
  <2>1. executions'[i] = e /\ e.parent < i /\ executions'[parent] = executions[parent]
    BY <1>1, <1>6
  <2> HIDE DEF e
  <2> QED BY <1>1, <1>2, <2>1 DEF Lineage
<1>7. \A i \in 1 .. n : executions[i].parent = parent => executions[i].delegation # id
  <2>1. parent # 0
    BY <1>1
  <2> QED BY <1>2, <1>3, <2>1 DEF Lineage
<1>8. \A i, j \in 1 .. n + 1 : OwnIds(i, j)'
  <2>1. ASSUME NEW i \in 1 .. n + 1, NEW j \in 1 .. n + 1
        PROVE  OwnIds(i, j)'
    <3>1. CASE i \in 1 .. n /\ j \in 1 .. n
      BY <1>1, <1>3, <3>1 DEF OwnIds
    <3>2. CASE i \in 1 .. n /\ j = n + 1
      BY <1>1, <1>7, <3>2 DEF OwnIds
    <3>3. CASE i = n + 1 /\ j \in 1 .. n
      BY <1>1, <1>7, <3>3 DEF OwnIds
    <3>4. CASE i = n + 1 /\ j = n + 1
      BY <3>4 DEF OwnIds
    <3> QED BY <1>4, <3>1, <3>2, <3>3, <3>4
  <2> QED BY <2>1
<1> QED BY <1>1, <1>4, <1>5, <1>6, <1>8 DEF Lineages

\* An id is claimed and its child admitted, or the call is refused.
LEMMA AdmitKeeps ==
  ASSUME DelegationInv, NEW t \in Threads, Admit(t)
  PROVE  DelegationInv'
<1> DEFINE b == delegating[t]
           n == Len(executions)
<1>1. b \in Call /\ Holds(b) /\ b.at = "resolved" /\ UNCHANGED <<usable, counter>>
  BY DEF DelegationInv, DelegationTypeOK, CallsHold, Admit
<1>2. \/ delegating' = [delegating EXCEPT ![t] = NoCall] /\ UNCHANGED <<executions, used>>
      \/ /\ delegating' = [delegating EXCEPT ![t] = [b EXCEPT !.at = "admitted", !.child = n + 1]]
         /\ AddsChild(t)
  BY DEF Admit, Raise, AddsChild
<1>3. CASE delegating' = [delegating EXCEPT ![t] = NoCall] /\ UNCHANGED <<executions, used>>
  BY <1>1, <1>3, NoCallHolds, CallStep
<1>4. CASE /\ delegating' = [delegating EXCEPT ![t] = [b EXCEPT !.at = "admitted", !.child = n + 1]]
           /\ AddsChild(t)
  <2>1. /\ executions' \in Seq(Execution) /\ used' \subseteq Nat \X DelegationIds
        /\ DOMAIN executions' = 1 .. n + 1
        /\ \A i \in DOMAIN executions : i \in DOMAIN executions' /\ executions'[i] = executions[i]
    BY <1>1, <1>4, AddedChild
  <2>2. n \in Nat
    BY DEF DelegationInv, DelegationTypeOK
  <2>3. Lineages'
    BY <1>1, <1>4, AddedLineages
  <2>4. Stays
    <3>1. \A e : SameContext(e, e)
      BY DEF SameContext
    <3> QED BY <2>1, <3>1 DEF Stays
  <2>5. PICK c \in Call :
          /\ c = [b EXCEPT !.at = "admitted", !.child = n + 1]
          /\ c.at = "admitted" /\ c.parent = b.parent /\ c.request = b.request /\ c.child = n + 1
    <3> DEFINE d == [b EXCEPT !.at = "admitted", !.child = n + 1]
    <3>0. \A q \in Call, k \in Nat : [q EXCEPT !.at = "admitted", !.child = k] \in Call
      BY DEF Call
    <3>1. d \in Call
      <4>1. n + 1 \in Nat
        BY <2>2
      <4> HIDE DEF n
      <4> QED BY <1>1, <3>0, <4>1
    <3>2. d.at = "admitted" /\ d.parent = b.parent /\ d.request = b.request /\ d.child = n + 1
      BY <1>1 DEF Call
    <3> HIDE DEF b, n
    <3> QED BY <3>1, <3>2
  <2>6. Holds(c)'
    <3>1. n + 1 \in DOMAIN executions'
      BY <2>1, <2>2
    <3>2. b.parent \in DOMAIN executions' /\ b.request # NoRequest
      BY <1>1, <2>1 DEF Holds
    <3> HIDE DEF b, n
    <3> QED BY <2>5, <3>1, <3>2 DEF Holds
  <2>7. CallsHold' /\ delegating' \in [Threads -> Call]
    BY <1>4, <2>4, <2>5, <2>6, CallMoves
  <2> QED BY <1>1, <2>1, <2>3, <2>7 DEF DelegationInv, DelegationTypeOK
<1> QED BY <1>2, <1>3, <1>4

\* An agent is suspended, or brought back.
LEMMA ChangeKeeps ==
  ASSUME DelegationInv, NEW a \in Changing, ChangeUsable(a)
  PROVE  DelegationInv'
<1>1. UNCHANGED <<executions, used, counter, delegating>>
  BY DEF ChangeUsable
<1>2. usable' \subseteq Agents
  BY AgentAssumption DEF ChangeUsable, DelegationInv, DelegationTypeOK
<1>3. DelegationTypeOK'
  BY <1>1, <1>2 DEF DelegationInv, DelegationTypeOK
<1>4. Lineages' /\ CallsHold'
  BY <1>1 DEF DelegationInv, Lineages, Lineage, OwnIds, CallsHold, Holds
<1> QED BY <1>3, <1>4 DEF DelegationInv

\* A root has no parent, and nobody is in a call.
LEMMA DelegationInitInv == DelegationInit => DelegationInv
<1> SUFFICES ASSUME DelegationInit PROVE DelegationInv
  OBVIOUS
<1>1. PICK root \in Roots : executions = <<root>>
  BY DEF DelegationInit
<1>2. root \in Execution /\ root.parent = 0 /\ IsInjective(root.path)
  BY RootAssumption
<1>3. executions \in Seq(Execution) /\ DOMAIN executions = {1} /\ executions[1] = root
  BY <1>1, <1>2
<1>4. DelegationTypeOK
  BY <1>3, NoCallHolds DEF DelegationInit, DelegationTypeOK
<1>5. Lineages
  BY <1>2, <1>3 DEF Lineages, Lineage, OwnIds
<1>6. CallsHold
  BY NoCallHolds DEF DelegationInit, CallsHold
<1> QED BY <1>4, <1>5, <1>6 DEF DelegationInv

\* Every step of the composer keeps it.
LEMMA DelegationStep == DelegationInv /\ [DelegationNext]_delegationVars => DelegationInv'
<1> SUFFICES ASSUME DelegationInv, [DelegationNext]_delegationVars PROVE DelegationInv'
  OBVIOUS
<1>1. CASE UNCHANGED delegationVars
  BY <1>1 DEF delegationVars, DelegationInv, DelegationTypeOK, Lineages, Lineage, OwnIds, CallsHold, Holds
<1>2. ASSUME NEW a \in Changing, ChangeUsable(a) PROVE DelegationInv'
  BY <1>2, ChangeKeeps
<1>3. ASSUME NEW t \in Threads, NEW parent \in DOMAIN executions, NEW r \in Requests, Ask(t, parent, r)
      PROVE  DelegationInv'
  BY <1>3, AskKeeps
<1>4. ASSUME NEW t \in Threads, NEW parent \in DOMAIN executions, NEW d \in Compositions,
             NEW steps \in Selections(d), Compose(t, parent, d, steps)
      PROVE  DelegationInv'
  BY <1>4, ComposeKeeps
<1>5. ASSUME NEW t \in Threads, NextStep(t) \/ Resolve(t) \/ Admit(t) \/ Start(t)
      PROVE  DelegationInv'
  BY <1>5, NextStepKeeps, ResolveKeeps, AdmitKeeps, StartKeeps
<1>6. ASSUME NEW t \in Threads, NEW status \in {"completed", "other"}, End(t, status)
      PROVE  DelegationInv'
  BY <1>6, EndKeeps
<1> QED BY <1>1, <1>2, <1>3, <1>4, <1>5, <1>6 DEF DelegationNext

\* The inductive invariant.
LEMMA DelegationHolds == DelegationSpec => []DelegationInv
  BY DelegationInitInv, DelegationStep, PTL DEF DelegationSpec

-----------------------------------------------------------------------------
(* The theorems                                                              *)

\* Executions and calls stay well-formed, for any agents, requests and compositions.
THEOREM DelegationTypes == DelegationSpec => []DelegationTypeOK
<1>1. DelegationInv => DelegationTypeOK
  BY DEF DelegationInv
<1> QED BY <1>1, DelegationHolds, PTL

\* delegate and compose: however threads interleave and chains grow, a child is narrower
\* than its parent and alone with its delegation id.
THEOREM ChildrenAreNarrower == DelegationSpec => []DelegationNarrows
<1>1. DelegationInv => DelegationNarrows
  <2> SUFFICES ASSUME DelegationInv, NEW i \in DOMAIN executions, executions[i].parent # 0
               PROVE  LET e == executions[i]
                          p == executions[e.parent]
                      IN  /\ e.tools \subseteq p.tools \cap Manifest[e.agent]
                          /\ e.permissions \subseteq p.permissions
                          /\ UNION {Needs[v] : v \in e.tools} \subseteq e.permissions
                          /\ e.risk <= p.risk /\ e.steps <= p.steps /\ e.depth <= MaxDepth
                          /\ IsInjective(e.path)
                          /\ \A j \in DOMAIN executions \ {i} :
                               executions[j].parent = e.parent => executions[j].delegation # e.delegation
    BY DEF DelegationNarrows
  <2>1. Lineage(i) /\ \A j \in DOMAIN executions : OwnIds(i, j)
    BY DEF DelegationInv, Lineages
  <2>2. Narrowed(executions[i], executions[executions[i].parent]) /\ IsInjective(executions[i].path)
    BY <2>1 DEF Lineage
  <2>3. \A j \in DOMAIN executions \ {i} :
          executions[j].parent = executions[i].parent
            => executions[j].delegation # executions[i].delegation
    BY <2>1 DEF OwnIds
  <2> QED BY <2>2, <2>3 DEF Narrowed
<1> QED BY <1>1, DelegationHolds, PTL

\* At most one execution is added, and it is some other's child.
Grows ==
  Stays /\ \A i \in DOMAIN executions' \ DOMAIN executions :
             i = Len(executions) + 1 /\ executions'[i].parent # 0

\* What a step leaves of the executions, and what it adds.
LEMMA StepsAddChildren ==
  ASSUME DelegationInv, [DelegationNext]_delegationVars
  PROVE  Grows
<1>1. \A e : SameContext(e, e)
  BY DEF SameContext
<1>2. CASE UNCHANGED executions
  BY <1>1, <1>2 DEF Stays, Grows
<1>3. ASSUME NEW t \in Threads, Admit(t) PROVE Grows
  <2>1. delegating[t].at = "resolved" /\ (UNCHANGED executions \/ AddsChild(t))
    BY <1>3 DEF Admit, AddsChild
  <2>2. CASE AddsChild(t)
    <3> DEFINE n == Len(executions)
    <3>1. /\ delegating[t].parent # 0 /\ DOMAIN executions' = 1 .. n + 1
          /\ \A i \in DOMAIN executions : i \in DOMAIN executions' /\ executions'[i] = executions[i]
          /\ executions'[n + 1].parent = delegating[t].parent
      BY <2>1, <2>2, AddedChild
    <3>2. DOMAIN executions = 1 .. n /\ n \in Nat
      BY DEF DelegationInv, DelegationTypeOK
    <3> HIDE DEF n
    <3>3. \A i \in 1 .. n + 1 : i \in 1 .. n \/ i = n + 1
      BY <3>2
    <3> QED BY <1>1, <3>1, <3>2, <3>3 DEF Stays, Grows, n
  <2> QED BY <1>2, <2>1, <2>2
<1>4. ASSUME NEW i, NEW s, executions' = [executions EXCEPT ![i].status = s] PROVE Grows
  <2>1. DOMAIN executions' = DOMAIN executions
    BY <1>4
  <2>2. ASSUME NEW j \in DOMAIN executions
        PROVE  SameContext(executions[j], executions'[j])
    <3>1. executions'[j] \in {executions[j], [executions[j] EXCEPT !.status = s]}
      BY <1>4
    <3>2. executions[j] \in Execution
      BY ContextTyped DEF DelegationInv
    <3> QED BY <3>1, <3>2 DEF SameContext, Execution
  <2> QED BY <2>1, <2>2 DEF Stays, Grows
<1>5. ASSUME NEW t \in Threads, Start(t) PROVE Grows
  BY <1>4, <1>5 DEF Start
<1>6. ASSUME NEW t \in Threads, NEW status \in {"completed", "other"}, End(t, status) PROVE Grows
  BY <1>4, <1>6 DEF End
<1>7. CASE UNCHANGED delegationVars
  BY <1>2, <1>7 DEF delegationVars
<1>8. ASSUME NEW a \in Changing, ChangeUsable(a) PROVE Grows
  BY <1>2, <1>8 DEF ChangeUsable
<1>9. ASSUME NEW t \in Threads, NEW parent \in DOMAIN executions, NEW r \in Requests, Ask(t, parent, r)
      PROVE  Grows
  BY <1>2, <1>9 DEF Ask
<1>10. ASSUME NEW t \in Threads, NEW parent \in DOMAIN executions, NEW d \in Compositions,
              NEW steps \in Selections(d), Compose(t, parent, d, steps)
       PROVE  Grows
  BY <1>2, <1>10 DEF Compose
<1>11. ASSUME NEW t \in Threads, NextStep(t) \/ Resolve(t) PROVE Grows
  BY <1>2, <1>11 DEF NextStep, Resolve
<1>12. DelegationNext => Grows
  BY <1>3, <1>5, <1>6, <1>8, <1>9, <1>10, <1>11 DEF DelegationNext
<1> QED BY <1>7, <1>12

\* The context an execution was given is never changed, whatever happens to it.
ContextsFixed ==
  [][\A i \in DOMAIN executions :
       i \in DOMAIN executions' /\ SameContext(executions[i], executions'[i])]_delegationVars

\* ExecutionContext is frozen: between its admission and its end nothing is added to what
\* an execution was given.
THEOREM ContextsStayFixed == DelegationSpec => ContextsFixed
<1>1. DelegationInv /\ [DelegationNext]_delegationVars
        => [\A i \in DOMAIN executions :
              i \in DOMAIN executions' /\ SameContext(executions[i], executions'[i])]_delegationVars
  BY StepsAddChildren DEF Stays, Grows
<1> QED BY <1>1, DelegationHolds, PTL DEF DelegationSpec, ContextsFixed

\* A descendant of any generation against the execution that nobody delegated.
WithinRoot ==
  \A i \in DOMAIN executions :
    LET e == executions[i]
        root == executions[1]
    IN  /\ e.tools \subseteq root.tools
        /\ e.permissions \subseteq root.permissions
        /\ e.risk <= root.risk
        /\ e.steps <= root.steps

\* A chain of delegations of any length ends within the authority it began with.
THEOREM NothingBeyondTheRoot == DelegationSpec => []WithinRoot
<1> DEFINE Under(e, root) == /\ e.tools \subseteq root.tools /\ e.permissions \subseteq root.permissions
                             /\ e.risk <= root.risk /\ e.steps <= root.steps
           Rooted == /\ 1 \in DOMAIN executions
                     /\ \A i \in DOMAIN executions : Under(executions[i], executions[1])
<1>1. DelegationInit => Rooted
  <2> SUFFICES ASSUME DelegationInit PROVE Rooted
    OBVIOUS
  <2>1. PICK root \in Roots : executions = <<root>>
    BY DEF DelegationInit
  <2>2. root \in Execution
    BY RootAssumption
  <2>3. root.risk \in Nat /\ root.steps \in Nat
    BY <2>2 DEF Execution
  <2>4. DOMAIN executions = {1} /\ executions[1] = root
    BY <2>1
  <2> QED BY <2>3, <2>4
<1>2. DelegationInv /\ DelegationInv' /\ Rooted /\ [DelegationNext]_delegationVars => Rooted'
  <2> SUFFICES ASSUME DelegationInv, DelegationInv', Rooted, [DelegationNext]_delegationVars
               PROVE  Rooted'
    OBVIOUS
  <2>1. /\ \A i \in DOMAIN executions : i \in DOMAIN executions' /\ SameContext(executions[i], executions'[i])
        /\ \A i \in DOMAIN executions' \ DOMAIN executions :
             i = Len(executions) + 1 /\ executions'[i].parent # 0
    BY StepsAddChildren DEF Stays, Grows
  <2>2. 1 \in DOMAIN executions'
    BY <2>1
  <2>3. ASSUME NEW i \in DOMAIN executions
        PROVE  Under(executions'[i], executions'[1])
    <3>1. Under(executions[i], executions[1])
      OBVIOUS
    <3>2. SameContext(executions[i], executions'[i]) /\ SameContext(executions[1], executions'[1])
      BY <2>1
    <3> QED BY <3>1, <3>2 DEF SameContext
  <2>4. ASSUME NEW i \in DOMAIN executions' \ DOMAIN executions
        PROVE  Under(executions'[i], executions'[1])
    <3> DEFINE e == executions'[i]
               p == executions'[e.parent]
               root == executions'[1]
    <3>1. i = Len(executions) + 1 /\ e.parent # 0
      BY <2>1
    <3>2. e.parent < i /\ Narrowed(e, p)
      BY <3>1 DEF DelegationInv, Lineages, Lineage
    <3>3. \A j \in DOMAIN executions' : executions'[j] \in Execution
      BY DEF DelegationInv, DelegationTypeOK
    <3>4. DOMAIN executions = 1 .. Len(executions) /\ Len(executions) \in Nat
      BY DEF DelegationInv, DelegationTypeOK
    <3>5. e.parent \in Nat
      BY <3>3 DEF Execution
    <3>6. e.parent \in DOMAIN executions
      BY <3>1, <3>2, <3>4, <3>5
    <3>7. Under(p, root) /\ p \in Execution /\ root \in Execution /\ e \in Execution
      BY <2>1, <2>2, <2>3, <3>3, <3>6
    <3>8. /\ e.risk \in Nat /\ p.risk \in Nat /\ root.risk \in Nat
          /\ e.steps \in Nat /\ p.steps \in Nat /\ root.steps \in Nat
      BY <3>7 DEF Execution
    <3> HIDE DEF e, p, root
    <3>9. Under(e, root)
      BY <3>2, <3>7, <3>8 DEF Narrowed
    <3> QED BY <3>9 DEF e, root
  <2> QED BY <2>2, <2>3, <2>4
<1>3. Rooted => WithinRoot
  BY DEF WithinRoot
<1> HIDE DEF Rooted
<1> QED BY <1>1, <1>2, <1>3, DelegationHolds, PTL DEF DelegationSpec

=============================================================================
