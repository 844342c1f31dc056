------------------------- MODULE MCIdentityExchange -------------------------
(* Two nodes: a makes a request to b, b sends a message to a.              *)
EXTENDS IdentityExchange

BothWays == {[id |-> 1, from |-> "a", to |-> "b", expect_response |-> TRUE],
             [id |-> 2, from |-> "b", to |-> "a", expect_response |-> FALSE]}
=============================================================================
