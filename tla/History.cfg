INIT MCInit
NEXT MCNext
CONSTANTS
    Kinds = {"app_a", "app_b"}
    SchemaIds = {"s", "r"}
    MaxVersion = 3
    MaxKinds = 1
    MaxSchemas = 3
    Threads = {"t1", "t2"}
    Payloads = {"p", "q"}
    MaxObservations = 1
    Events = {"a", "b"}
    Releases <- MCReleases
    Irreducible <- MCIrreducible
    LossyCodecs = {"c2"}
    MaxLog = 3
    HypAuthorities = {"a", "b"}
    HypHome = "a"
    HypLocal <- MCOutbox
    HypForeign = {"f", "g"}
    HypLimits = {1, 2}
    HypBatchLimit = 1
    HypPullLimit = 3
    HypWindow = 2
    HypAttempts = 2
    HypStreamBound = 2
    HypPageBound = 2
    HypBatchBound = 1
    LegLocal <- MCLegacyLog
    LegAckLimit = 2
    LegFetches = {"f1", "f2"}
    LegJournalBound = 4
INVARIANTS
    CatalogGuarantees
    RestoreParity
    AdmittedSnapshotsAreFolds
    HypGuarantees
    LegConfirmedIsDurable
CHECK_DEADLOCK FALSE
