SPECIFICATION Spec
CONSTANTS
  o1 = o1
  o2 = o2
  o3 = o3
  Op = {o1, o2}
  Keep = 2
  Deployments <- AttestDeployments
INVARIANTS AttestContinuesLineage
CHECK_DEADLOCK FALSE
