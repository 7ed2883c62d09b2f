SPECIFICATION Spec
CONSTANTS
    o1 = o1
    a1 = a1
    a2 = a2
    b1 = b1
    cmd1 = cmd1
    cmd2 = cmd2
    tel1 = tel1
    NoConn = NoConn
    NoPacket = NoPacket
    Conns = {a1, a2}
    PacketIds = {cmd1}
    ClientIds <- CmdClients
    Filters <- CmdFilters
    TopicOf <- CmdTopic
    QosOf <- CmdQos
    ConnectOf <- CmdConnect
    Subscribes <- CmdSubscribes
    Publishes <- CmdPublishes
    MaxPublish = 1
INVARIANTS
    ConnectedIsOnline
