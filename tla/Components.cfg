\* Three owners of two leases; two records; three clients of two principals over a kept
\* and a purged row; two approval requests; the instances that MCComponents gives.
SPECIFICATION Spec
CONSTANTS
  Keys = {l1, l2}
  Holders = {o1, o2, o3}
  NoLease = NoLease
  TTL = 2
  Events = {l1, l2}
  Claimants = {o1, o2, o3}
  EventExecutions = {v1, v2}
  Outcomes = {good}
  NoRecord = NoRecord
  NoOutcome = NoOutcome
  MaxTime = 4
  MaxExpiry = 1
  MaxLease = 3
  c1 = c1
  c2 = c2
  c3 = c3
  alice = alice
  bob = bob
  k1 = k1
  k2 = k2
  StateKeys = {k1, k2}
  Executions = {}
  Owners = {alice, bob}
  AgentVersions = {"1", "2"}
  Clients = {c1, c2, c3}
  NewData = {}
  NoState = NoState
  NoExecution = NoExecution
  NoVersion = NoVersion
  Purgeable = {k2}
  MaxVersion = 2
  OwnerOf <- TwoOwners
  Data <- History
  RequestIds = {r1, r2}
  Actions = {a1, a2}
  None = None
  Unset = Unset
  Calls <- MCCalls
  Engines <- MCEngines
  ApprovalPolicies <- MCApprovalPolicies
  Evidence = {"e1"}
  MaxResults = 2
  MaxConfidence = 2
  MinimumConfidence = 1
  HighConfidence = 2
  Threads = {1, 2}
  Agents <- MCAgents
  Manifest <- MCManifest
  ToolOf <- MCToolOf
  Needs <- MCNeeds
  AgentRisk <- MCAgentRisk
  AgentSteps <- MCAgentSteps
  Roots <- MCRoots
  Compositions <- MCCompositions
  Requests <- MCRequests
  Changing = {"b"}
  MaxDepth = 2
  MaxExecutions = 3
  MaxSteps = 2
  Unstated = Unstated
SYMMETRY Symmetric
INVARIANT LeaseExclusive
INVARIANT CopiesAreBehind
INVARIANT OwnersAreIsolated
INVARIANT ApprovalsAreTimely
INVARIANT ConsumedWereDecided
INVARIANT HandlerWithinAuthority
INVARIANT CompletedIsClean
INVARIANT DelegationNarrows
PROPERTY VersionGrows
PROPERTY SettledKeepsStatus
PROPERTY NoLostUpdate
PROPERTY RowsKeepTheirOwner
PROPERTY DecisionsAreFinal
CHECK_DEADLOCK FALSE
