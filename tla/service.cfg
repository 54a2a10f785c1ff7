SPECIFICATION AttestingSpec
CONSTANTS
  o1 = o1
  o2 = o2
  o3 = o3
  Op = {o1, o2, o3}
  Keep = 2
  Deployments <- SafeDeployments
  a = a
  b = b
  StateID = {a, b, ""}
  EmptyID = ""
  Null = Null
  Mode = "dual"
  MaxVersions = 6
  MaxRecorded = 3
INVARIANTS
  AckedSurvives NeverSilentGap StateBackedByLog AttestsKeepLogOrder
  OrderIsTotal LineageHasNoGap SnapshotIsRestorable ReplayMatchesLive
PROPERTIES RequestEnds
CHECK_DEADLOCK FALSE
