SPECIFICATION ReadersSpec
CONSTANTS
    None = None
    Absent = Absent
    NotFinite = NotFinite
    settlementPairs <- McPairs
    Ledgers <- McLedgers
    EventLists <- McEventLists
    Bundles <- McBundles
    Audits <- McAudits
    Histories <- McHistories
    Records <- McRecords
    Packages <- McPackages
    ReportLists <- McReportLists
    Services <- McServices
    Submissions <- McSubmissions
    maxReports = 3
    minimumVerifiers = 1
    k1 = k1
    k2 = k2
    Calls = {k1, k2}
    Asks <- McAsks
    EvmLogs <- McEvmLogs
    XrplTxs <- McXrplTxs
    SolanaTxs <- McSolanaTxs
    TokenDecimals <- McTokenDecimals
    BridgeContracts = {"bridge"}
    Nothing = Nothing
    MaxTip = 3
    FinalityLag = 1
    maxRetries = 1
    maxTokenCache = 1
    defaultWindow = 2
    maxFilterlessSpan = 1
    maxSpan = 2
    maxDepth = 2
    BlockNumbers = {1, 2, 3, 4}
    BlockHashes = {"h1", "h2"}
    Handler = {"h1", "h2"}
    Stream = {"s1"}
    AllStreams = AllStreams
    Hole = Hole
    MaxEvents = 3
    MaxHandles = 2
    Lists = {"events", "intents", "attestations", "envelopes"}
    Limits = {1, 2}
    EnvelopeIds <- McIds
    Collation <- McCollation
    EventsBefore = 0
    MaxTime = 4
    MaxItems = 4
    NoCursor = NoCursor
INVARIANTS
    ReconciliationSound
    BundleSound
    AuditSound
    ProofSound
    ConsensusSound
    ObserverSound
    SubscribersSeeEverything
    PageWalkComplete
