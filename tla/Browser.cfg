SPECIFICATION MCSpec
CONSTANTS
    Signals = {"s", "t"}
    Memos = {"m", "n"}
    Effects = {"e", "f"}
    MayRead <- ChainRead
    MayWrite <- ChainWrite
    MayPanic = {"m", "f", "s"}
    Disposable = {"n", "e"}
    MaxRuns = 3
    MaxSlots = 3
    MaxGeneration = 1
    MaxResources = 4
    MaxCleanups = 2
    MaxCalls = 2
    ChildrenPull = FALSE
    DomKeys = {"a", "b", "c"}
    DomRuns = 2
    DomTampers = 1
    AdMounts = 2
    AdUpdates = 1
    AdDisposals = 2
INVARIANTS
    GraphGuarantees
    OwnerGuarantees
    AdGuarantees
    DomGuarantees
PROPERTIES
    CleanupsRunInnermostFirst
CHECK_DEADLOCK FALSE
