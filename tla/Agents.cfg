CONSTANTS
  Absent = Absent
  Free = Free
  p1 = p1
  s1 = s1
  t1 = t1
  t2 = t2
  a1 = a1
  k1 = k1
  k2 = k2
  Clients = {k1, k2}
  Components = {p1, s1, t1, t2, a1}
  Kind <- MCKind
  Risk <- MCRisk
  Refs <- MCRefs
  Scopes <- MCScopes
  Registrable = {"draft", "active"}
  Moves = {"active", "suspended"}
  m1 = m1
  Supplies = {m1}
  SuppliesOf <- MCSuppliesOf
  InactiveProfiles = {}
  Strategies = {}
  StrategiesOf <- MCStrategiesOf
  Template <- MCTemplate
  Acting = {t1}
  Protected <- MCProtected
SPECIFICATION FactorySpec
INVARIANTS
  RunsAreGuarded
  OneRegisteringBuild
  PassedWasUsable
  SnapshotsReplay
