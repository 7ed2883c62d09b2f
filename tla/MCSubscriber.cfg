SPECIFICATION FairSpec
CONSTANTS
    Msgs = {m1, m2}
    Shared = {m1}
    Slots = {s1, s2}
    NoSlot = NoSlot
    MaxFaults = 1
INVARIANTS
    TypeOK
    RemovedAfterDelivery
    
PROPERTIES
    ComesBack
    ReadIsDelivered
    RowsBehindAreDelivered
