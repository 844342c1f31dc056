CONSTANTS
    s = s
    a = a
    b = b
    d = d
    Node = {s, a, b, d}
    Self = s
    Peers = {s, a, b}
    INF_COST = 4
    TRIGGER_DEBOUNCE = 1
    MAINTENANCE_TICK_RATE = 1
    UPDATE_INTERVAL = 1
    DEAD_ROUTE_HOLD = 1
    ROUTE_TIMEOUT = 2
    MaxClock = 5
    MaxEvents = 3
    Updates <- MCUpdates
    Orders <- MCOrders
SPECIFICATION Spec
INVARIANTS RoutesAreBest ChangeIsScheduled
PROPERTY DeadRouteAnnounced
CHECK_DEADLOCK FALSE
