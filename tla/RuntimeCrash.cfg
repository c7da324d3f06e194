\* One execution with two gates, restarts at any point, under a clock.
SPECIFICATION Spec
CONSTANTS
  e1 = e1
  e2 = e2
  s1 = s1
  s2 = s2
  s3 = s3
  x1 = x1
  x2 = x2
  k1 = k1
  k2 = k2
  a1 = a1
  a2 = a2
  b1 = b1
  None = None
  Raised = Raised
  Executions = {x1}
  StateKeys = {k1}
  Actions = {a1, a2, b1}
  ExecuteCalls = {e1}
  ResumeCalls = {s1, s2, s3}
  Gated = {a1, a2}
  Evidence = {"broker"}
  Reviews = {"approved", "rejected", "request_changes"}
  EarlyOutcomes = {}
  Finals = {"completed", "partial"}
  Faults = {"crash", "withdraw"}
  ApprovalExpiry = 1
  MaxTime = 2
  ExecutionOf <- OneExecution
  StateOf <- OwnState
  Plan <- GatedEnds
SYMMETRY ResumesAlike
INVARIANT PausedIsResumable
PROPERTY ConsumedNeverRuns
PROPERTY PassedStepsNotReplayed
CHECK_DEADLOCK FALSE
