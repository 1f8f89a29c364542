CONSTANTS
    REQUEST_COOLDOWN = 4
    REQUEST_ACK = 2
    MAX_REFUSALS = 3
    None = None
    HostMoves <- AnyHost
    Intervals = {6, 7, 12, 13, 480, 3200}
    Latencies = {0, 36, 38, 39, 40, 67, 68, 79, 499}
    MaxEvents = 2
    MaxConnections = 2
SPECIFICATION Spec
INVARIANT AppliedIsTrueOfEveryLink
