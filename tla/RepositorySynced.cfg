SPECIFICATION Spec
CONSTANTS
    LastId = 3
    Payloads <- TwoPayloads
    alpha = alpha
    beta = beta
    None = None
    Partial = Partial
    ParentSync = TRUE
    ResetOnWorker = FALSE
    FaultBudget = 2
    CrashBudget = 2
PROPERTIES
    ImplementsBlobService
    ClearOnlyWhenDone
