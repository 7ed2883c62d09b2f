SPECIFICATION Spec
CONSTANTS
    o1 = o1
    a1 = a1
    a2 = a2
    b1 = b1
    cmd1 = cmd1
    cmd2 = cmd2
    tel1 = tel1
    NoConn = NoConn
    NoPacket = NoPacket
    Conns = {o1, a1, b1}
    PacketIds = {tel1}
    ClientIds <- TelClients
    Filters <- TelFilters
    TopicOf <- TelTopic
    QosOf <- TelQos
    ConnectOf <- TelConnect
    Subscribes <- TelSubscribes
    Publishes <- TelPublishes
    MaxPublish = 1
INVARIANTS
    EachOfflineSubscriberQueued
