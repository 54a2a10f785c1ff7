SPECIFICATION RetrySpec
CONSTANTS
  c1 = c1
  c2 = c2
  Calls = {c1, c2}
  Req <- Attempts
  Scenarios <- Plans
  Tenant = {"t1", "t2"}
  Path = {"p1"}
  Key = {"k1"}
  Body = {"b1", "b2"}
  NoTenant = NoTenant
  NoKey = NoKey
  Oversize = TRUE
  maxEntries = 1
  ttlMs = 1
  MaxTime = 2
  rpm = 5
  burst = 6
  maxBuckets = 1
  MaxFaults = 1
  maxRetries = 1
  timeout = 2
  s1 = s1
  s2 = s2
  Submit = {s1, s2}
  maxAttempts = 3
  Window = 1
  MaxLedger = 3
INVARIANTS ReplayIsOwn TruthfulAnswer RateIsBounded AtMostOnce OkImpliesValidated
PROPERTIES RetryIsReplayed CallEnds SubmitTerminates
CHECK_DEADLOCK FALSE
