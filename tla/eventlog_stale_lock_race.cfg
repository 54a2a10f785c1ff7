SPECIFICATION Spec
CONSTANTS
  s1 = s1
  s2 = s2
  p1 = p1
  p2 = p2
  Proc = {p1, p2}
  Pid = {"pid1", "pid2", "pid3"}
  Stream = {s1, s2}
  Scenarios <- RaceScenarios
INVARIANTS NoForkedChain
CHECK_DEADLOCK FALSE
