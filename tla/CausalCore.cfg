INIT MCInit
NEXT MCNext
CONSTANTS
    Events = {"good", "bad", "raw"}
    Inadmissible = {"raw"}
    Unreducible = {"bad"}
    Histories <- MCHistories
    Contexts = {"root", "batched"}
    MaxEventsPerTransaction = 2
    MaxTransactionsPerDrain = 2
    MaxEventsPerDrain = 3
    MaxTransactionId = 4
    Logs = {"l1", "l2"}
    LogKinds = {"app_a", "bad"}
    ValidKinds = {"app_a"}
    LogPayloads = {"p", "q", "x"}
    Lossy = {"x"}
    MaxLen = 3
    MaxWritten = 5
    MaxEdits = 1
INVARIANTS
    TypeOK
    StateIsFoldOfLog
    ReceiptContinuity
    QueueGuarantees
    LogGuarantees
PROPERTIES
    ImplementsLedger
CHECK_DEADLOCK FALSE
