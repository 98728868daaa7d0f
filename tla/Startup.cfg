SPECIFICATION Spec
CONSTANTS
    Networks = {Home, Bench}
    NoNetwork = NoNetwork
    BootNetwork = Home
    ConsoleNetworks = {Bench}
    MaxAttempts = 2
    MaxClients = 1
    MaxCommands = 1
    MaxEvents = 1
    FaultBudget = 2
CHECK_DEADLOCK FALSE
INVARIANTS
    NothingIsForgotten
    ApStatusIsTrue
    SoleJoinMeansLease
PROPERTIES
    UsersGoFirst
    StartEnds
