\* A delivery whose input extractor raises, and its redelivery.
SPECIFICATION Spec
CONSTANTS
  d1 = d1
  d2 = d2
  d3 = d3
  r1 = r1
  r2 = r2
  k1 = k1
  None = None
  Raised = Raised
  Keys = {k1}
  Deliveries = {d1, d2}
  Resolvers = {}
  Outcomes = {"completed"}
  Errors = {}
  Faults = {"input"}
  MaxAttempts = 1
  TTL = 1
  MaxTime = 1
  KeyOf <- OneEvent
INVARIANT LeaseHolderClaims
CHECK_DEADLOCK FALSE
