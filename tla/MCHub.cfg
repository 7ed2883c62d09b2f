SPECIFICATION FairSpec
CONSTANTS
    Sockets = {w1, w2}
    MaxEvents = 3
    MaxStalls = 1
INVARIANTS
    SeesEveryEvent
PROPERTIES
    BroadcastReturns
    BrokenIsRemoved
CHECK_DEADLOCK FALSE
