--------------------------- MODULE MCAgentRuntime ---------------------------
(* Finite instances of AgentRuntime for TLC. *)
EXTENDS AgentRuntime, TLC

CONSTANTS e1, e2, s1, s2, s3, x1, x2, k1, k2, a1, a2, b1

\* e2 and s3 are about the second execution, if there is one.
OneExecution == [c \in Calls |-> x1]
TwoExecutions == [c \in Calls |-> IF c \in {e2, s3} THEN x2 ELSE x1]

OwnState == [x \in Executions |-> IF x = x2 THEN k2 ELSE k1]
SharedState == [x \in Executions |-> k1]

\* Two gated actions around one that needs no approval.
GatedEnds == [x \in Executions |-> <<a1, b1, a2>>]
TwoGates == [x \in Executions |-> <<a1, a2>>]
OneGate == [x \in Executions |-> <<a1>>]

ResumesAlike == Permutations(ResumeCalls)
=============================================================================
