---------------------------- MODULE MCMeshRouter ----------------------------
(* One router with two neighbours that can offer each other and a third,   *)
(* remote destination.                                                     *)
EXTENDS MeshRouter

CONSTANTS s, a, b, d

MCUpdates ==
    {[x \in {d} |-> 1], [x \in {b, d} |-> IF x = b THEN 1 ELSE INF_COST]}

\* Only the order of a and b can decide a tie.
MCOrders ==
    {[x \in Node |-> CASE x = s -> 0 [] x = a -> 1 [] x = b -> 2 [] x = d -> 3],
     [x \in Node |-> CASE x = s -> 0 [] x = a -> 2 [] x = b -> 1 [] x = d -> 3]}
=============================================================================
