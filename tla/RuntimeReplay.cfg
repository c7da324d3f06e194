\* Two executions of one session, whose states are one row.
SPECIFICATION Spec
CONSTANTS
  e1 = e1
  e2 = e2
  s1 = s1
  s2 = s2
  s3 = s3
  x1 = x1
  x2 = x2
  k1 = k1
  k2 = k2
  a1 = a1
  a2 = a2
  b1 = b1
  None = None
  Raised = Raised
  Executions = {x1, x2}
  StateKeys = {k1}
  Actions = {a1, a2, b1}
  ExecuteCalls = {e1, e2}
  ResumeCalls = {s1, s2}
  Gated = {a1, a2}
  Evidence = {"broker"}
  Reviews = {"approved"}
  EarlyOutcomes = {}
  Finals = {"completed"}
  Faults = {}
  ApprovalExpiry = None
  MaxTime = 0
  ExecutionOf <- TwoExecutions
  StateOf <- SharedState
  Plan <- TwoGates
INVARIANT StepsNotReplayed
CHECK_DEADLOCK FALSE
