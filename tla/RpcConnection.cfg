CONSTANTS
    i1 = "i1"
    i2 = "i2"
    a1 = "a1"
    Beats <- BeatsBoth

SPECIFICATION Spec

INVARIANTS
    EntriesArePending
    HandshakeSeen

PROPERTIES
    SetAtMostOnce
    EveryFutureReady
    

CHECK_DEADLOCK FALSE
