CONSTANTS
    p = p
    Peer = {p}
    IpOf <- OneIp
    HostOf <- OneIp
    NoPeer = NoPeer
    MaxAttempts = 2
    Incoming = {}
    PeersOf <- OnlyP
    AutoConnections <- AutoP
    MAX_HEARTBEAT_FAILURES = 2
SPECIFICATION Spec
PROPERTIES AutoReconnects
CHECK_DEADLOCK FALSE
