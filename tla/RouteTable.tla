----------------------------- MODULE RouteTable -----------------------------
(***************************************************************************)
(* The pure part of MeshRouter: how a node derives its forwarding table    *)
(* from what its neighbours advertise, and which updates it sends.         *)
(*                                                                         *)
(*   views  neighbor_views_: a function from the ids of the current        *)
(*          neighbours to NeighborView records.  advertised_routes is a    *)
(*          total function in which INF_COST stands for "no entry".        *)
(*   order  the iteration order of neighbor_views_, an unordered_map: a    *)
(*          rank for every id.  It decides which of several equally good   *)
(*          next hops is met first.                                        *)
(*   table  forwarding_table_: a function from the destinations that have  *)
(*          an entry to RouteEntry records.                                *)
(*                                                                         *)
(* Definitions whose names begin with Faulty are variants with a slip that *)
(* the code could contain.  No specification uses them; substituted for    *)
(* the definition that follows them, they show that a property fails.      *)
(***************************************************************************)
EXTENDS Naturals

CONSTANTS Node,       \* every peer id that can occur
          INF_COST    \* MeshRouter::INF_COST, 16 in the code

ASSUME CostAssumption == INF_COST \in Nat /\ INF_COST > 1

RouteEntry == [next_hop : Node, cost : 0..INF_COST, dirty : BOOLEAN, last_updated : Nat]

NeighborView == [advertised_routes : [Node -> 0..INF_COST], last_heard_from : Nat]

\* mesh::RouteTable: destination -> uint32 cost, sent between neighbours.
IsRouteCosts(f) == DOMAIN f \subseteq Node /\ f \in [DOMAIN f -> Nat]

IsForwardingTable(f) == DOMAIN f \subseteq Node /\ f \in [DOMAIN f -> RouteEntry]

IsNeighborViews(f) == DOMAIN f \subseteq Node /\ f \in [DOMAIN f -> NeighborView]

IterationOrder == [Node -> Nat]

-----------------------------------------------------------------------------
(* recalculate_forwarding_table_locked: the new table.                     *)

TotalCost(views, n, d) == views[n].advertised_routes[d] + 1

\* The neighbours through which d can be reached below INF_COST.
Via(views, d) == {n \in DOMAIN views : TotalCost(views, n, d) < INF_COST}

\* The neighbour whose offer the loop keeps: the cheapest and, as the code
\* compares with <, the first met among equals.
FirstBest(views, order, d) ==
    CHOOSE n \in Via(views, d) :
        \A m \in Via(views, d) :
            \/ TotalCost(views, n, d) < TotalCost(views, m, d)
            \/ /\ TotalCost(views, n, d) = TotalCost(views, m, d)
               /\ order[n] <= order[m]

\* The destinations of new_table.
Known(self, views) == {self} \cup DOMAIN views \cup {d \in Node : Via(views, d) # {}}

\* An entry of new_table.  A neighbour's own entry has cost 1 and no
\* advertised route can be below that; the node itself is a neighbour when it
\* has connected to one of its own addresses.
BestRoute(self, views, order, d) ==
    IF d \in DOMAIN views THEN [next_hop |-> d, cost |-> 1]
    ELSE IF d = self THEN [next_hop |-> self, cost |-> 0]
    ELSE LET n == FirstBest(views, order, d)
         IN  [next_hop |-> n, cost |-> TotalCost(views, n, d)]

NewEntry(r, now) ==
    [next_hop |-> r.next_hop, cost |-> r.cost, dirty |-> TRUE, last_updated |-> now]

LostEntry(e, now) ==
    IF e.cost < INF_COST
    THEN [next_hop |-> e.next_hop, cost |-> INF_COST, dirty |-> TRUE, last_updated |-> now]
    ELSE e


SameRoute(e, r) == e.cost = r.cost /\ e.next_hop = r.next_hop

\* new_table merged into the forwarding table; destinations it no longer has
\* are kept at INF_COST with their old next hop.
Recalculated(self, views, order, table, now) ==
    LET known == Known(self, views)
    IN  [d \in DOMAIN table \cup known |->
            IF d \in known
            THEN LET r == BestRoute(self, views, order, d)
                 IN  IF d \in DOMAIN table /\ SameRoute(table[d], r)
                     THEN table[d] ELSE NewEntry(r, now)
            ELSE LostEntry(table[d], now)]

-----------------------------------------------------------------------------
(* process_routing_update_locked: what an update does to the view of its   *)
(* sender, which it creates when there is none.                            *)

NoRoutes == [d \in Node |-> INF_COST]

Learn(routes, costs) ==
    [d \in Node |-> IF d \notin DOMAIN costs THEN routes[d]
                    ELSE IF costs[d] >= INF_COST THEN INF_COST ELSE costs[d]]

ApplyUpdate(views, n, costs, now) ==
    [m \in DOMAIN views \cup {n} |->
        IF m # n THEN views[m]
        ELSE [advertised_routes |->
                 Learn(IF n \in DOMAIN views THEN views[n].advertised_routes ELSE NoRoutes, costs),
              last_heard_from |-> now]]

\* neighbor_views_[n].last_heard_from = now: a fresh view, or the old one.
Touch(views, n, now) ==
    [m \in DOMAIN views \cup {n} |->
        IF m # n THEN views[m]
        ELSE [advertised_routes |-> IF n \in DOMAIN views THEN views[n].advertised_routes ELSE NoRoutes,
              last_heard_from |-> now]]

Erase(f, S) == [x \in DOMAIN f \ S |-> f[x]]

-----------------------------------------------------------------------------
(* The updates a node sends.                                               *)

\* Poison reverse: a neighbour is told that routes through it cost INF_COST.
CostFor(table, n, d) == IF table[d].next_hop = n THEN INF_COST ELSE table[d].cost

RoutesToSend(table) == {d \in DOMAIN table : table[d].dirty \/ table[d].cost >= INF_COST}

TriggeredUpdate(table, n) == [d \in RoutesToSend(table) |-> CostFor(table, n, d)]

FullTable(table, n) == [d \in DOMAIN table |-> CostFor(table, n, d)]

\* The flags are not cleared.
FaultyCleared(table) == table

\* send_triggered_updates clears the flag of every entry it collects.
Cleared(table) ==
    [d \in DOMAIN table |->
        IF d \in RoutesToSend(table) THEN [table[d] EXCEPT !.dirty = FALSE] ELSE table[d]]

-----------------------------------------------------------------------------
\* The reference the table is held against: neighbours are reached directly,
\* any other destination through a neighbour whose advertised cost is least,
\* and what nobody offers is absent or dead.
IsBestTo(d, views, table) ==
    /\ d \in DOMAIN views =>
          d \in DOMAIN table /\ table[d].next_hop = d /\ table[d].cost = 1
    /\ d \notin DOMAIN views /\ Via(views, d) # {} =>
          /\ d \in DOMAIN table
          /\ table[d].next_hop \in Via(views, d)
          /\ table[d].cost = TotalCost(views, table[d].next_hop, d)
          /\ \A n \in Via(views, d) : table[d].cost <= TotalCost(views, n, d)
    /\ d \notin DOMAIN views /\ Via(views, d) = {} /\ d \in DOMAIN table =>
          table[d].cost = INF_COST

IsBest(self, views, table) == \A d \in Node \ {self} : IsBestTo(d, views, table)
=============================================================================
