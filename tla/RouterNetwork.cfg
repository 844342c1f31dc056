CONSTANTS
    a = a
    b = b
    c = c
    NoId = NoId
    Node = {a, b, c, NoId}
    Dest = c
    INF_COST = 4
    Links <- MCTriangle
    Breakable <- MCTriangle
    Order <- MCOrder
    MaxLinkChanges = 2
SPECIFICATION NetworkSpec
INVARIANTS ViewsAreCurrent
 
CHECK_DEADLOCK FALSE
