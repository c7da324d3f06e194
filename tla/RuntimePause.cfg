\* One execution with two gates and three resumes, one call at a time, whatever
\* interrupts a call, raises out of it or restarts the process.
SPECIFICATION Spec
CONSTANTS
  e1 = e1
  e2 = e2
  s1 = s1
  s2 = s2
  s3 = s3
  x1 = x1
  x2 = x2
  k1 = k1
  k2 = k2
  a1 = a1
  a2 = a2
  b1 = b1
  None = None
  Raised = Raised
  Executions = {x1}
  StateKeys = {k1}
  Actions = {a1, a2, b1}
  ExecuteCalls = {e1}
  ResumeCalls = {s1, s2, s3}
  Gated = {a1, a2}
  Evidence = {"broker"}
  Reviews = {"approved", "rejected", "expired"}
  EarlyOutcomes = {"refused", "failed"}
  Finals = {"completed", "partial"}
  Faults = {"interrupt", "withdraw", "crash"}
  ApprovalExpiry = None
  MaxTime = 0
  ExecutionOf <- OneExecution
  StateOf <- OwnState
  Plan <- GatedEnds
SYMMETRY ResumesAlike
INVARIANT PendingIsCheckpointed
PROPERTY ImplementsGate
CHECK_DEADLOCK FALSE
