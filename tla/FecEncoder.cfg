SPECIFICATION Spec
CONSTANTS
    Thread = {router, heartbeat}
    k = 2
    MaxPackets = 4
INVARIANT ParityWithKth
CHECK_DEADLOCK FALSE
