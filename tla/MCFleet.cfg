SPECIFICATION FairSpec
CONSTANTS
    Args = {"broker", "api", "all", "bogus"}
    MaxFailures = 2
    Slots = {s1, s2}
    NoSlot = NoSlot
    MaxLosses = 1
    MaxExpiries = 1
    MaxFaults = 2
INVARIANTS
    TypeOK
    ExitCodeTells
PROPERTIES
    ProcessEnds
    DeviceComesBack
    SimulatorStops
    ReadersEnd
CHECK_DEADLOCK FALSE
