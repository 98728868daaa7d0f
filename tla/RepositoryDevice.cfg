SPECIFICATION FairSpec
CONSTANTS
    LastId = 3
    Payloads <- OnePayload
    alpha = alpha
    beta = beta
    None = None
    Partial = Partial
    ParentSync = FALSE
    ResetOnWorker = TRUE
    FaultBudget = 2
    CrashBudget = 2
INVARIANTS
    PendingIsOwned
PROPERTIES
    IdNeverReused
    ClearOnlyWhenDone
    ResetCompletes
