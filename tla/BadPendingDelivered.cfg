SPECIFICATION FairSpec
CONSTANTS
    Msgs = {m1}
    Shared = {}
    Slots = {s1, s2}
    NoSlot = NoSlot
    MaxFaults = 1
PROPERTIES
    PendingDelivered
