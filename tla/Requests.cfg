INIT MCInit
NEXT MCNext
CONSTANTS
    Requests = {c1, c2}
    Scopes = {"k"}
    Inputs = {"i", "j"}
    Retention = 2
    Deadline = 1
    MaxTime = 2
    MCOwners = {u1, u2}
    CacheHosts = {"h"}
    CacheCalls = {c1, c2}
    CachePolicies <- MCPolicies
    CacheInputs <- MCCacheInputs
    CacheCapacity = 1
    CacheReplays = 1
    CacheTags = {"data"}
    CacheCauses = {"w"}
    CacheMaxSweeps = 1
    CacheMaxTime = 1
    SessionCalls = {c1, c2}
    SessionPolicy <- MCSessionPolicy
    SessionTokens = 2
    SessionSchemas = {1, 2}
    SessionMaxTime = 3
    CsrfVersions = 2
    CtxTasks = {c1, c2}
    CtxLoaders <- MCLoaders
    CtxGranted <- MCGranted
    CtxInputs <- MCLoaderInputs
    CtxRegistry <- MCRegistry
    CtxGrants <- MCGrants
    CtxRequirements <- MCRequirements
    CtxOutbound <- MCOutbound
    CtxUrls <- MCUrls
    CtxResolutions <- MCResolutions
    CtxDeadline = 2
    CtxMaxTime = 2
    CtxMaxCleanups = 2
    ReqIds = {"r"}
    ReqPeers = {"p"}
    ReqStatuses = {"ok", "redirect", "client", "server"}
    ReqBuilders <- MCBuilders
    ReqHeads <- MCHeads
    ReqLimits <- MCHostLimits
    ReqCauses = {"reset"}
    RenDocuments <- MCDocuments
    RenInputs <- MCBodies
    RenOptions <- MCRenderOptions
    RenHardChunks = 4
    RenHardBoundaries = 4
    RenHardInFlight = 4
    UpRequests <- MCBodiesSent
    UpPolicy <- MCUploadPolicy
    UpCleanupRoom = 1
    RouRoutes <- MCRoutes
    RouScopes <- MCScopes
    RouRoots <- MCRoots
    RouRequests <- MCRouteRequests
    RouFold <- MCFold
    RouMax <- MCRouterLimits
    RouBound = 3
SYMMETRY MCSymmetry
INVARIANTS
    OneMutation
    NoUnprovenRollback
    CacheGuarantees
    SessionGuarantees
    CtxGuarantees
    ReqGuarantees
    ReqReceiptsSettle
    RenDocumentsAreWhole
    UpFilesAreOwned
    RouOnlyCatchAllsAreShadowed
CHECK_DEADLOCK FALSE
