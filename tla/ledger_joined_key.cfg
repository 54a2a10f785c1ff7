SPECIFICATION CallersSpec
CONSTANTS
  Envelope = {"e1"}
  Intent = {i1, i2}
  Amounts = {0, 1, 2}
  MaxAllocated = 3
  NoEnvelope = NoEnvelope
  NoAmount = NoAmount
  Payee <- SomePayees
  Run <- SomeRuns
  Plan <- SomePlans
  Request <- SomeRequests
  Pays <- SomePays
  Pools <- SomePools
  Shares = {0, 1, 3333, 6667, 10000}
  FundingAmounts = {0, 1}
  Person = {"alice", "bob", "carol"}
  Gatekeepers = {"alice", "bob"}
  Whole = 10000
  Account <- SomeAccounts
  Batches <- SomeBatches
  PlanOffers <- SomeOffers
  MaxAudit = 5
  MaxFailures = 1
INVARIANTS TrialBalances
CHECK_DEADLOCK FALSE
