SPECIFICATION Spec
CONSTANTS
    LastId = 4
    Payloads <- OnePayload
    alpha = alpha
    beta = beta
    None = None
    Partial = Partial
    ParentSync = FALSE
    ResetOnWorker = TRUE
    FaultBudget = 0
    CrashBudget = 0
PROPERTIES
    ResetLeavesNoBlobs
