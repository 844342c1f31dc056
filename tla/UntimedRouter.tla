--------------------------- MODULE UntimedRouter ---------------------------
(***************************************************************************)
(* What a MeshRouter does about one destination, with no clock: the steps  *)
(* RouterNetwork lets each of its nodes take.  A change of the neighbours  *)
(* or of their offers is followed by a recalculation; the maintenance may  *)
(* at any moment drop neighbours, send what has changed, send the table,   *)
(* and forget the destination, but only if it is dead and everybody has    *)
(* been told.                                                              *)
(***************************************************************************)
EXTENDS RouteTable

CONSTANTS Self, Dest,
          Orders    \* the iteration orders of neighbor_views_

VARIABLES views,    \* neighbor_views_, with what they offer for Dest
          table,    \* the entry of Dest in forwarding_table_
          said      \* what the last step told which neighbour about Dest

untimedVars == <<views, table, said>>

ForDest(f) == [d \in DOMAIN f \cap {Dest} |-> f[d]]

Recalc(vs, order) == ForDest(Recalculated(Self, vs, order, table, 0))

UntimedInit ==
    /\ views = [n \in {} |-> <<>>]
    /\ table = ForDest([d \in {Self} |->
                  [next_hop |-> Self, cost |-> 0, dirty |-> FALSE, last_updated |-> 0]])
    /\ said = {}

Hear(vs) ==
    /\ views' = vs
    /\ \E order \in Orders : table' = Recalc(vs, order)
    /\ said' = {}

\* A peer connects or sends an update without Dest; a peer disconnects; a
\* neighbour announces a cost for Dest.
Connect(p) == Hear(Touch(views, p, 0))
Disconnect(p) == Hear(Erase(views, {p}))
Offer(p, c) == Hear(ApplyUpdate(views, p, [d \in {Dest} |-> c], 0))

\* Nothing that concerns Dest: time passes, a data packet arrives.
Idle == said' = {} /\ UNCHANGED <<views, table>>

Tell(t, S) == {[to |-> n, cost |-> CostFor(t, n, Dest)] : n \in S}

Maintain(expired, triggered, full) ==
    LET live == Erase(views, expired)
    IN  \E order \in Orders :
          LET lost == IF expired = {} THEN table ELSE Recalc(live, order)
              sent == IF triggered THEN Cleared(lost) ELSE lost
          IN  /\ views' = live
              /\ said' = (IF triggered /\ Dest \in RoutesToSend(lost) THEN Tell(lost, DOMAIN live) ELSE {})
                         \cup (IF full /\ Dest \in DOMAIN sent THEN Tell(sent, DOMAIN live) ELSE {})
              /\ \/ table' = sent
                 \/ /\ Dest \in DOMAIN sent
                    /\ sent[Dest].cost >= INF_COST /\ ~sent[Dest].dirty
                    /\ table' = Erase(sent, {Dest})

UntimedNext ==
    \/ \E p \in Node : Connect(p)
    \/ \E p \in Node : Disconnect(p)
    \/ \E p \in Node \ {Self}, c \in 0..INF_COST : Offer(p, c)
    \/ Idle
    \/ \E expired \in SUBSET DOMAIN views, triggered, full \in BOOLEAN :
          Maintain(expired, triggered, full)

UntimedSpec == UntimedInit /\ [][UntimedNext]_untimedVars
=============================================================================
