SPECIFICATION SchedulerSpec
CONSTANTS
    Events = {"good"}
    Inadmissible = {}
    Unreducible = {}
    Histories <- FreshHistory
    Contexts = {"root", "tracked"}
    MaxEventsPerTransaction = 1
    MaxTransactionsPerDrain = 2
    MaxEventsPerDrain = 2
    MaxTransactionId = 4
    Signals = {"s", "t"}
    Memos = {"m", "n"}
    Effects = {"e"}
    MayRead <- ForkRead
    MayWrite <- ForkWrite
    MayPanic = {}
    Disposable = {}
    MaxRuns = 1
    Kinds = {"app_a"}
    SchemaIds = {"s", "r"}
    MaxVersion = 3
    MaxKinds = 1
    MaxSchemas = 3
    Threads = {"t1"}
    Payloads = {"p"}
    MaxObservations = 1
INVARIANT CommittedIsPublished
CHECK_DEADLOCK FALSE
