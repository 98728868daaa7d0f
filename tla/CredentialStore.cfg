SPECIFICATION FairSpec
CONSTANTS
    s1 = s1
    s2 = s2
    Slots <- TwoSlots
    NoSession = NoSession
    Unloaded = Unloaded
    MaxPassword = 3
    n1 = n1
    n2 = n2
    Nets <- TwoNets
    Net0 = n1
    FaultBudget = 2
INVARIANTS
    CacheIsDurable
    VerifierMatchesRecord
    AtMostOneStaleSession
    FailedChangeIsInvisible
PROPERTIES
    RevertedOnlyByPut
    GateReopens
