SPECIFICATION McSpec
CONSTANTS
  a = a
  b = b
  Address = {a, b}
  Weights = {0, 1, 2}
  Quorums = {0, 1, 3}
  Wallets = {a, b}
  MaxEvents = 4
  MaxWitness = 1
  MaxRestart = 1
  w1 = w1
  w2 = w2
  Witnesses = {w1, w2}
  maxAttempts = 2
  Window = 1
  MaxLedger = 2
  maxRecords = 1
  NoPolicy = NoPolicy
INVARIANTS RestoreReproducesPolicy HistoricalQuorumValid LedgerHasQuorum
PROPERTIES QuorumStaysAttainable
SYMMETRY WitnessSymmetry
CHECK_DEADLOCK FALSE
