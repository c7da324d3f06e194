\* Two deliveries and two approval resumes of one event, safety and liveness.
SPECIFICATION FairSpec
CONSTANTS
  d1 = d1
  d2 = d2
  d3 = d3
  r1 = r1
  r2 = r2
  k1 = k1
  None = None
  Raised = Raised
  Keys = {k1}
  Deliveries = {d1, d2}
  Resolvers = {r1, r2}
  Outcomes = {"completed", "escalated", "failed"}
  Errors = {"execution_cancelled", "budget_exhausted"}
  Faults = {"input", "abort"}
  MaxAttempts = 2
  TTL = 1
  MaxTime = 2
  KeyOf <- OneEvent
PROPERTY ImplementsLedger
PROPERTY StartedCallsReturn
PROPERTY DeadLettersAreRecorded
CHECK_DEADLOCK FALSE
