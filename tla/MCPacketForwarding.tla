------------------------- MODULE MCPacketForwarding -------------------------
(* A triangle a, b, c with a node d behind c and, in the larger network, a *)
(* node e behind a.                                                        *)
EXTENDS PacketForwarding

CONSTANTS a, b, c, d, e

MCNeighbors == [n \in Node |-> Node \cap
    CASE n = a -> {b, c, e} [] n = b -> {a, c} [] n = c -> {a, b, d} [] n = d -> {c} [] n = e -> {a}]

\* The shortest routes.
MCStable == [n \in Node |-> [t \in Node |->
    IF t = n THEN {{n}}
    ELSE IF t \in MCNeighbors[n] THEN {{t}}
    ELSE IF n = d \/ (t = d /\ n # e) THEN {{c}} ELSE {{a}}]]

\* Routes to d and e that change, are lost and form loops.
MCChanging == [n \in Node |-> [t \in Node |->
    IF t \in {d, e} /\ n # t THEN {{h} : h \in MCNeighbors[n]} \cup {{}} ELSE MCStable[n][t]]]

Pkt(id, from, to, ttl, expect) ==
    [id |-> id, from |-> from, to |-> to, ttl |-> ttl, expect_response |-> expect]

MCNoFaults == [f \in FaultKind |-> 0]
MCFaults == [f \in FaultKind |-> 1]

Load(sends, hops, expire, most) == [sends |-> sends, hops |-> hops, expire |-> expire, faults |-> most]

\* TTL 4: no path from a is longer than three connections.
MCLoads ==
    {Load({Pkt(1, a, Everyone, 4, TRUE), Pkt(2, d, b, 4, TRUE)}, MCStable, FALSE, MCNoFaults),
     Load({Pkt(3, d, e, 4, TRUE), Pkt(4, a, a, 4, FALSE)}, MCChanging, TRUE, MCFaults)}
=============================================================================
