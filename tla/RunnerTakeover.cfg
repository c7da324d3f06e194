\* Three deliveries and an approval resume of one event; leases expire, workers crash and the
\* sink raises at any step.
SPECIFICATION Spec
CONSTANTS
  d1 = d1
  d2 = d2
  d3 = d3
  r1 = r1
  r2 = r2
  k1 = k1
  None = None
  Raised = Raised
  Keys = {k1}
  Deliveries = {d1, d2, d3}
  Resolvers = {r1}
  Outcomes = {"completed", "failed", "escalated"}
  Errors = {"retryable", "other"}
  Faults = {"crash", "sink"}
  MaxAttempts = 2
  TTL = 1
  MaxTime = 3
  KeyOf <- OneEvent
SYMMETRY Symmetric
INVARIANT TypeOK
INVARIANT EvidenceMatchesRecord
INVARIANT LiveWorkerOwnsRecord
INVARIANT LeaseHolderClaims
INVARIANT AnswersMatchRecord
INVARIANT OneCompletion
INVARIANT TransientFailuresExhaustRetries
PROPERTY SettledIsFinal
CHECK_DEADLOCK FALSE
