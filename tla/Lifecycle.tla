------------------------------ MODULE Lifecycle ------------------------------
(***************************************************************************)
(* The lifecycle every registered component has, and which moves the tool   *)
(* registry and the prompt, skill and agent registries accept.              *)
(***************************************************************************)
CONSTANT Absent           \* not registered

Lifecycle == {"draft", "validated", "active", "suspended", "deprecated", "retired"}

\* What ToolRegistry._set_lifecycle accepts: the status a tool has, to the next.
ToolTargets ==
  [draft      |-> {"draft", "active", "retired"},
   validated  |-> {"validated", "active", "retired"},
   active     |-> {"active", "suspended", "deprecated", "retired"},
   suspended  |-> {"suspended", "active", "deprecated", "retired"},
   deprecated |-> {"deprecated", "retired"},
   retired    |-> {"retired"}]

\* What PromptRegistry, SkillRegistry and AgentRegistry accept: for each status
\* an operation leads to, the ones it starts from.
AllowedFrom ==
  [validated  |-> {"draft"},
   active     |-> {"draft", "validated", "suspended"},
   suspended  |-> {"active"},
   deprecated |-> {"validated", "active", "suspended"},
   retired    |-> {"draft", "validated", "active", "suspended", "deprecated"}]
=============================================================================
