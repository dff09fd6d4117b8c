SPECIFICATION GraphSpec
CONSTANTS
    Signals = {"s", "t"}
    Memos = {"m", "n"}
    Effects = {"e"}
    MayRead <- ForkRead
    MayWrite <- ForkWrite
    MayPanic = {"m"}
    Disposable = {}
    MaxRuns = 4
    Events = {"good"}
    Inadmissible = {}
    Unreducible = {}
    Histories <- FreshHistory
    Contexts = {"root"}
    MaxEventsPerTransaction = 1
    MaxTransactionsPerDrain = 1
    MaxEventsPerDrain = 1
    MaxTransactionId = 1
    Kinds = {"app_a"}
    SchemaIds = {"s", "r"}
    MaxVersion = 3
    MaxKinds = 1
    MaxSchemas = 3
    Threads = {"t1"}
    Payloads = {"p"}
    MaxObservations = 1
INVARIANT
    WritesReachEffects
CHECK_DEADLOCK FALSE
