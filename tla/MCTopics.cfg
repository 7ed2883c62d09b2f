SPECIFICATION Spec
CONSTANTS
    FilterLevels = {"device", "d1", "command", "+", "#"}
    TopicLevels = {"device", "d1", "command", "telemetry"}
    MaxFilter = 4
    MaxTopic = 4
    DeviceIds <- MCDeviceIds
INVARIANTS
    MatchIsDenotation
    DevicesCannotReachDevices
    LabelIsPublisher
CHECK_DEADLOCK FALSE
