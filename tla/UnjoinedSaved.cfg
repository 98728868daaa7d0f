SPECIFICATION Spec
CONSTANTS
    Networks = {Home, Bench}
    NoNetwork = NoNetwork
    BootNetwork = Home
    ConsoleNetworks = {Bench}
    MaxAttempts = 2
    MaxClients = 1
    MaxCommands = 1
    MaxEvents = 1
    FaultBudget = 1
CHECK_DEADLOCK FALSE
PROPERTY
    SavedWasJoined
