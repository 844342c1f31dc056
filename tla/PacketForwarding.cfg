CONSTANTS
    a = a
    b = b
    c = c
    d = d
    e = e
    Node = {a, b, c, d, e}
    Everyone = Everyone
    Neighbors <- MCNeighbors
    REPLY_TTL = 5
    UINT32_MAX = 15
    Loads <- MCLoads
SPECIFICATION Spec
INVARIANTS UnicastAtMostOnce PassedOnOnce
PROPERTIES EventuallyQuiet BroadcastReachesAll RequestAnswered
CHECK_DEADLOCK FALSE
