SPECIFICATION PaymentsSpec
CONSTANTS
  k1 = k1
  k2 = k2
  Calls = {k1, k2}
  Asks <- McAsks
  EvmLogs <- McEvmLogs
  XrplTxs <- McXrplTxs
  SolanaTxs <- McSolanaTxs
  TokenDecimals <- McTokenDecimals
  BridgeContracts = {"bridge"}
  Nothing = Nothing
  MaxTip = 3
  FinalityLag = 1
  maxRetries = 1
  maxTokenCache = 1
  defaultWindow = 2
  maxFilterlessSpan = 1
  maxSpan = 2
  maxDepth = 2
  BlockNumbers = {1, 2, 3, 4}
  BlockHashes = {"h1", "h2"}
INVARIANTS DeliveredIsReported
CHECK_DEADLOCK FALSE
