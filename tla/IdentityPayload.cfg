CONSTANTS
    Node = {"a", "b"}
    None = None
    MayBePlain = {"a", "b"}
    Sends <- BothWays
SPECIFICATION Spec
INVARIANT PayloadWhole
CHECK_DEADLOCK FALSE
