SPECIFICATION FairSpec
CONSTANTS
    a = a
    b = b
    NoId = NoId
    Ids <- OneId
    PlanOf <- LongPlan
    KeySlices = 0
    InterSlices = 0
    DelaySlices = 1
    MaxFaults = 2
INVARIANTS
    PlanOwnership
    FailClosed
    NoStuckKey
    CancelStopsTyping
    CompletedMeansTyped
PROPERTIES
    AcceptedSendEnds
    EngineBecomesIdle
