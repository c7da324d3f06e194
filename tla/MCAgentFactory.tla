---------------------------- MODULE MCAgentFactory --------------------------
(* An agent with a prompt, a skill and the tool that both use, which depends *)
(* on another tool; the skill may use that one too.                         *)
EXTENDS AgentFactory, TLC

CONSTANTS p1, s1, t1, t2, a1, k1, k2, m1

MCKind == p1 :> "prompt" @@ s1 :> "skill" @@ t1 :> "tool" @@ t2 :> "tool" @@ a1 :> "agent"

MCRisk == p1 :> 0 @@ s1 :> 1 @@ t1 :> 1 @@ t2 :> 0 @@ a1 :> 1

To(x) == [of |-> x, optional |-> FALSE]
Maybe(x) == [of |-> x, optional |-> TRUE]

MCRefs ==
  p1 :> <<>>
  @@ s1 :> << To(t1), Maybe(t2) >>
  @@ t1 :> << To(t2) >>
  @@ t2 :> <<>>
  @@ a1 :> << To(p1), To(s1), To(t1) >>

AllActive == [x \in Components |-> "active"]

MCSuppliesOf == a1 :> {m1}

MCTemplate == a1 :> "approval_gated_operator"

MCProtected == {<<a1, t1>>}

MCStrategiesOf == a1 :> {}

Scope(start, clients, direct, bound) ==
  [start |-> start, clients |-> clients, direct |-> direct, events |-> bound]

MCScopes ==
  {Scope(AllActive, {k1}, TRUE, 2),
   Scope([AllActive EXCEPT ![a1] = Absent, ![p1] = Absent, ![s1] = Absent, ![t2] = Absent], {k1}, TRUE, 2),
   Scope([AllActive EXCEPT ![a1] = Absent], {k1, k2}, FALSE, 1)}
=============================================================================
