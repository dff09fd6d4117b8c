SPECIFICATION MCSpec
CONSTANTS
    Events = {"good", "bad"}
    Inadmissible = {}
    Unreducible = {"bad"}
    Histories <- FreshHistory
    Contexts = {"root", "batched", "tracked"}
    MaxEventsPerTransaction = 1
    MaxTransactionsPerDrain = 2
    MaxEventsPerDrain = 2
    MaxTransactionId = 4
    Signals = {"s", "t"}
    Memos = {"m", "n"}
    Effects = {"e", "f"}
    MayRead <- FeedbackRead
    MayWrite <- FeedbackWrite
    MayPanic = {}
    Disposable = {}
    MaxRuns = 3
    Kinds = {"app_a"}
    SchemaIds = {"s", "r"}
    MaxVersion = 3
    MaxKinds = 1
    MaxSchemas = 3
    Threads = {"t1", "t2"}
    Payloads = {"p", "q"}
    MaxObservations = 1
INVARIANT WritesReachEffects
PROPERTIES
    DrainsEndQuiet
    CallsReturn
    DecodeReturns
CHECK_DEADLOCK FALSE
