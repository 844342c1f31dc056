---------------------------- MODULE MCRpcManager ----------------------------
(* Two attempts to connect to p compete with a connection p makes itself.  *)
EXTENDS RpcManager

CONSTANT p

OneIp == [x \in Peer |-> "ip1"]
AutoP == {p}
OnlyP == [c \in Conn |-> {p}]
=============================================================================
