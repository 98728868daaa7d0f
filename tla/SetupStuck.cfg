SPECIFICATION FairSpec
CONSTANTS
    DefaultName <- Name0
    NameMax = 3
    SsidMax = 3
    PassMin = 2
    PassMax = 3
    AdminMin = 2
    AdminMax = 3
    RetentionMax = 2
    RetentionDefault = 1
    Packages = {"p"}
    NoPackage = "none"
    Codes = {1}
    SetupBodies <- Setups
    PutBodies <- Puts
    AdminPasswords <- Passwords
    Networks <- Joined
    Passphrases <- Spoken
    InitialRecords <- Records
    MaxCred = 2
    FaultBudget = 1
    Absent = Absent
    Unloaded = Unloaded
    Null = Null
PROPERTY
    SetupIsLeft
