--------------------------- MODULE MCRouterNetwork ---------------------------
(* A triangle: two routes to the destination c from each of a and b.       *)
EXTENDS RouterNetwork

CONSTANTS a, b, c

MCTriangle == {{a, b}, {b, c}, {a, c}}
MCOrder == [x \in Node |-> CASE x = a -> 1 [] x = b -> 2 [] x = c -> 3 [] x = NoId -> 4]
=============================================================================
