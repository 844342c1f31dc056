SPECIFICATION EndpointSpec
CONSTANTS
    k = 2
    m = 1
    kMaxReceiveGroups = 3
    MaxGroup = 3
    MaxGroupAgain = 1
    MaxFaults = 1
    Shapes <- MCShapes
    Sample <- MCSample
INVARIANTS FieldArithmetic AnyKRecover GroupsAreQueued AnyKDelivered ReturnedForKFrames
PROPERTY PushedOutByMany
CHECK_DEADLOCK FALSE
