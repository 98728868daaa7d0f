SPECIFICATION Spec
CONSTANTS
    a = a
    b = b
    NoId = NoId
    Ids <- TwoIds
    PlanOf <- KeyPlans
    KeySlices = 0
    InterSlices = 0
    DelaySlices = 0
    MaxFaults = 0
INVARIANTS
    OneSendAtATime
    CancelWhileAwaitingTypesNothing
PROPERTIES
    ImplementsService
SYMMETRY Sends
