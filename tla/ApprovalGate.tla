---------------------------- MODULE ApprovalGate ----------------------------
(***************************************************************************)
(* What the runtime promises of a plan with approval gates: its steps run   *)
(* in order, and a gated step only after a reviewer has granted its exact   *)
(* action for this execution.  Each step runs once, unless a run is lost:   *)
(* the plan may then start over, at its last mark and never before it.      *)
(***************************************************************************)
EXTENDS Naturals, Sequences

CONSTANTS Executions, Actions, Gated, Plan

VARIABLES ran,      \* ran[x]: the steps of Plan[x] that have run, in the order they did
          granted,  \* granted[x]: the actions granted for execution x
          mark,     \* mark[x]: the step the plan may start over at
          lost      \* the executions of which a run was lost since the mark

gateVars == <<ran, granted, mark, lost>>

GateInit ==
  /\ ran = [x \in Executions |-> <<>>]
  /\ granted = [x \in Executions |-> {}]
  /\ mark = [x \in Executions |-> 1]
  /\ lost = {}

\* The step after the one that ran last.
Following(h) == IF h = <<>> THEN 1 ELSE h[Len(h)] + 1

GrantAction(x, a) ==
  /\ granted' = [granted EXCEPT ![x] = @ \union {a}]
  /\ UNCHANGED <<ran, mark, lost>>

RunStep(x) ==
  \E n \in 1 .. Len(Plan[x]) :
    /\ n = Following(ran[x]) \/ (x \in lost /\ n = mark[x])
    /\ Plan[x][n] \in Gated => Plan[x][n] \in granted[x]
    /\ ran' = [ran EXCEPT ![x] = Append(@, n)]
    /\ UNCHANGED <<granted, mark, lost>>

\* The run pauses or ends, and what has run is behind it for good.
Settle(x) ==
  /\ mark' = [mark EXCEPT ![x] = Following(ran[x])]
  /\ lost' = lost \ {x}
  /\ UNCHANGED <<ran, granted>>

\* An exception leaves a run, or a restart ends all that are under way.
Lose(xs) ==
  /\ lost' = lost \union xs
  /\ UNCHANGED <<ran, granted, mark>>

GateNext ==
  \/ \E x \in Executions : RunStep(x) \/ Settle(x) \/ \E a \in Actions : GrantAction(x, a)
  \/ \E xs \in SUBSET Executions : Lose(xs)

GateSpec == GateInit /\ [][GateNext]_gateVars
=============================================================================
