SPECIFICATION Spec
CONSTANTS
    Clients = {"a"}
    Limit = 2
    Window = 2
    ClockSteps <- Steps
    MaxTime = 8
INVARIANTS
    WindowsKeepBudget
    BurstBound
    RefusedHadBudget
