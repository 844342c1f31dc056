--------------------------- MODULE RequestOutcome ---------------------------
(***************************************************************************)
(* What the request layers promise their callers: a request that has been  *)
(* made is settled exactly once, by a response or by one of the failures.  *)
(***************************************************************************)
CONSTANTS Req,       \* request ids
          Results    \* how a request may end

VARIABLE outcome     \* "none" before the request, then "pending", then its result

Init == outcome = [r \in Req |-> "none"]

Make(r) == outcome[r] = "none" /\ outcome' = [outcome EXCEPT ![r] = "pending"]

Settle(r) ==
    /\ outcome[r] = "pending"
    /\ \E x \in Results : outcome' = [outcome EXCEPT ![r] = x]

Next == \E r \in Req : Make(r) \/ Settle(r)

Spec == Init /\ [][Next]_outcome

\* No request stays pending for ever.
Settles == \A r \in Req : []<>(outcome[r] # "pending")
=============================================================================
