CONSTANTS
  r1 = r1
  r2 = r2
  t1 = t1
  k1 = k1
  a1 = a1
  Runs = {r1, r2}
  Timed = {r1}
  Cancellable = {r2}
  MaxRetries = 1
  MaxTokens = 2
  MaxCalls = 1
  MaxSteps = 1
  NoLimit = NoLimit
  Absent = Absent
  Tools = {t1}
  IdempotencyKeys = {k1}
  Arguments = {a1}
  Definition <- MCDefinition
  NoKey = NoKey
  None = None
  Free = Free
  ProviderAttempts <- MCProviderAttempts
  ProviderDelay = TRUE
  Plans <- MCPlans
  Usage = {1}
  OperatorMoves = {"suspended"}
SPECIFICATION GovernedSpec
INVARIANT RunsCloseWithAnOutcome
CHECK_DEADLOCK FALSE
