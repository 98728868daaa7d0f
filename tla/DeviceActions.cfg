SPECIFICATION FairSpec
CONSTANTS
    old = old
    new = new
    BodyLimit = 2
    BlobLimit = 3
    RequestIdMaxBytes = 2
    Requests <- SomeActions
    Sessions <- OldSessions
    Policies = {TRUE, FALSE}
    LateSession = new
    StartMayFail = TRUE
    MaxRequests = 2
    MaxConfirms = 1
    MaxFaults = 2
INVARIANTS
    LiveResources
    OneConfirmationEach
    HttpdNeverWaits
    AnswerTellsTheTruth
    OldSessionsPowerless
PROPERTY
    RequestsAreAnswered
CHECK_DEADLOCK FALSE
