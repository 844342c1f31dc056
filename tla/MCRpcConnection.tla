--------------------------- MODULE MCRpcConnection ---------------------------
EXTENDS RpcConnection

CONSTANTS i1, i2, a1

BeatsBoth == [e \in {"initiator", "acceptor"} |-> IF e = "initiator" THEN {i1, i2} ELSE {a1}]
=============================================================================
