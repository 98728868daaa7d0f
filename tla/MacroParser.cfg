SPECIFICATION Spec
CONSTANTS
    Sources <- AllSources
    NameOf <- Names
    DelayPrefix <- Delay
    Options <- Timings
    SourceMaxBytes = 20
    ActionsMax = 4
    DurationMax = 15
    TimingMax = 10
    DelayMax = 9
    UintMax = 99
    UsagesMax = 2
    DirectiveBytes = 12
INVARIANTS
    PlanIsAReading
    RefusedOnlyIfInvalid
    LimitsHold
CHECK_DEADLOCK FALSE
