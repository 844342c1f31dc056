CONSTANTS
    Request = {r1, h1}
    InHandler = h1
    Broadcast = {b1}
    MaxResponses = 2
    QueueBound = 2
SPECIFICATION NodeSpec
INVARIANTS RefusedOnlyWhenLate NothingAfterStop
PROPERTIES SettledAtMostOnce EverySettles NothingAfterComplete StopReturns RouterGoesOn
CHECK_DEADLOCK FALSE
