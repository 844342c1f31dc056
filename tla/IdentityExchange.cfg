CONSTANTS
    Node = {"a", "b"}
    None = None
    MayBePlain = {"a", "b"}
    Sends <- BothWays
SPECIFICATION Spec
INVARIANT EachPacketOnce
PROPERTIES ArrivedIsHandled BufferedIsSent
CHECK_DEADLOCK FALSE
