INIT MCInit
NEXT MCNext
CONSTANTS
    ArtNames <- MCNames
    ArtMaxComponents = 3
    ArtMaxFiles = 9
    PubBuilders = {b1, b2}
    PubProjects <- MCProjects
    PubSite <- MCSite
    PubMain <- MCMain
    PubOwner = "site"
    PubSpecs <- MCSpecs
    PubOutputPath <- MCOutput
    PubEdits <- MCEdits
    PubDrifts = {"file", "ledger"}
    PubBound <- MCPubBound
    DevRouteSources = {"page"}
    DevEdits = 2
    DevBuilds = 1
    DevLoads = 2
    InpProject <- MCInpProject
    InpOutput <- MCInpOutput
    InpState <- MCState
    InpRoot <- MCInpRoot
    InpDepends <- MCDepends
    InpOptional <- MCConfigurations
    InpSources <- MCSources
    InpHomes <- MCHomes
    InpTargets <- MCTargets
    InpEnvs <- MCEnvs
    InpTouches = 2
    AssRecipes <- MCRecipes
    AssFinalizers = {"f", "g"}
    AssRasters = {"r", "s"}
    AssWidths = {2, 3}
    AssSourceWidth = 2
    AssMaxBytes = 3
    AssTotalBytes = 5
    AssWrites = 1
    SdkManifests <- MCManifests
    SdkBinaries <- MCBinaries
    SdkFeatures = {"f", "g"}
    SdkPolicy = {"effect-broker", "network", "dom", "clock"}
    SdkCeiling = 3
    SdkMaxReceipts = 2
    SdkMessages = 4
    ConNames <- MCContentNames
    ConPaths <- MCContentPaths
    ConTrees <- MCTrees
    ConNodes <- MCNodes
    ConEdits = 2
    ConLoads = 2
    ConMaxDepth = 1
    ConMaxEntries = 3
    ConMaxFile = 2
    ConMaxTotal = 3
    ConTrusted = FALSE
    BunManifests <- MCBundles
    BunFiles <- MCDisks
    BunTouched <- MCTouched
    BunTouches = 2
    BunChecks = 1
    BunReleases = 4
    BunCalls = 7
    ScaProcs = {"p", "q"}
    ScaPid <- MCPids
    ScaDests <- MCDestinations
    ScaTemplates <- MCTemplates
    ScaUses = 2
    InsFiles <- MCInsFiles
    InsManifests <- MCInsManifests
    InsTargets <- MCInsTargets
    InsSize <- MCInsSize
    InsWidth = 3
    InsTouches = 2
    TruProcs = {"p", "q", "u", "d"}
    TruPid <- MCTruPid
    TruCommand <- MCTruCommand
    TruManifests <- MCTruManifests
    TruLocks <- MCTruLocks
    TruBuilds <- MCTruBuilds
    TruToolsets <- MCTruToolsets
    TruEdits = 2
    TruCrashes = 1
SYMMETRY MCSymmetry
INVARIANTS
    PubGuarantees
    DevQuietIsCurrent
    InpNothingIsUnobserved
    AssGuarantees
    SdkGuarantees
    ConGuarantees
    BunGuarantees
    ScaDestinationsAreSafe
    InsCleanReportsHold
    TruGuarantees
CHECK_DEADLOCK FALSE
