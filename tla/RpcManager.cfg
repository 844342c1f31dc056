CONSTANTS
    p = p
    Peer = {p}
    IpOf <- OneIp
    HostOf <- OneIp
    NoPeer = NoPeer
    MaxAttempts = 2
    Incoming = {i1}
    PeersOf <- OnlyP
    AutoConnections <- AutoP
    MAX_HEARTBEAT_FAILURES = 2
SPECIFICATION Spec
INVARIANTS PendingIsExact UdpFromRegisteredPeer
PROPERTIES ConnectSettlesOnce ConnectReturns DeadPeerRemoved AutoConnectRetries
CHECK_DEADLOCK FALSE
