CONSTANTS
    Message = {"m1", "m2", "m3"}
    MaxStops = 1

SPECIFICATION Spec

INVARIANTS
    OneWriteOfTheFront
    WireInOrder

PROPERTIES
    SentIsWritten

CHECK_DEADLOCK FALSE
