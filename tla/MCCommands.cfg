SPECIFICATION FairSpec
CONSTANTS
    Reqs = {r1, r2, r3}
    Clients = {k1, k2}
    Nil = Nil
    MaxFaults = 2
INVARIANTS
    TypeOK
    RefusedNotSent
    AcceptedIsAccountedFor
PROPERTIES
    CommandsComeBack
    OneFate
