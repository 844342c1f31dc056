----------------------------- MODULE MeshRouter -----------------------------
(***************************************************************************)
(* The control plane of one MeshRouter: its routing thread takes events    *)
(* (peer connected, peer disconnected, packet received) from event_queue_  *)
(* in the order the transport pushed them and, between events, runs the    *)
(* periodic maintenance.  Both run under mu_, so each is one step.  The    *)
(* environment may push any event about any peer at any time: an update    *)
(* from a peer that has just disconnected, a connection to the node's own  *)
(* address, a second connection from a known peer.                         *)
(*                                                                         *)
(* clock is steady_clock, in ticks; a handler reads it at one instant.     *)
(***************************************************************************)
EXTENDS RouteTable

CONSTANTS Self,
          ROUTE_TIMEOUT,       \* a neighbour silent for longer is dropped
          UPDATE_INTERVAL,     \* between two full tables
          TRIGGER_DEBOUNCE,    \* from the first change to the triggered update
          DEAD_ROUTE_HOLD,     \* a dead route is kept at least this long
          MAINTENANCE_TICK_RATE,
          Peers,               \* the peers that connect, disconnect and send
          Updates,             \* the cost tables neighbours may send
          Orders,              \* the iteration orders of neighbor_views_
          MaxClock,            \* bound: time stops here
          MaxEvents            \* bound: events taken from the queue

ASSUME RouterAssumption ==
    /\ Self \in Node /\ Peers \subseteq Node
    /\ {ROUTE_TIMEOUT, UPDATE_INTERVAL, TRIGGER_DEBOUNCE,
        DEAD_ROUTE_HOLD, MAINTENANCE_TICK_RATE, MaxClock, MaxEvents} \subseteq Nat
    /\ TRIGGER_DEBOUNCE > 0
    /\ \A costs \in Updates : IsRouteCosts(costs)
    /\ Orders \subseteq IterationOrder /\ Orders # {}

\* 100 ms and 15 s in the code.
ASSUME HoldAssumption == TRIGGER_DEBOUNCE <= DEAD_ROUTE_HOLD

VARIABLES
    clock,
    neighbor_views_,
    order_,                  \* iteration order of neighbor_views_
    forwarding_table_,
    trigger_pending_,
    trigger_deadline_,
    last_periodic_update,
    next_maintenance_time,
    events,                  \* events taken so far
    outgoing                 \* the updates handed to the transport by the last step

vars == <<clock, neighbor_views_, order_, forwarding_table_, trigger_pending_,
          trigger_deadline_, last_periodic_update, next_maintenance_time, events, outgoing>>

TypeOK ==
    /\ clock \in Nat
    /\ IsNeighborViews(neighbor_views_)
    /\ order_ \in IterationOrder
    /\ IsForwardingTable(forwarding_table_)
    /\ trigger_pending_ \in BOOLEAN
    /\ trigger_deadline_ \in Nat
    /\ last_periodic_update \in Nat
    /\ next_maintenance_time \in Nat
    /\ events \in Nat
    /\ \A m \in outgoing : m.to \in Node /\ IsRouteCosts(m.costs)

Init ==
    /\ clock = 0
    /\ neighbor_views_ = [n \in {} |-> <<>>]
    /\ order_ = (CHOOSE o \in Orders : TRUE)   \* the map is empty
    /\ forwarding_table_ =
          [d \in {Self} |-> [next_hop |-> Self, cost |-> 0, dirty |-> FALSE, last_updated |-> 0]]
    /\ trigger_pending_ = FALSE
    /\ trigger_deadline_ = 0
    /\ last_periodic_update = 0
    /\ next_maintenance_time = MAINTENANCE_TICK_RATE
    /\ events = 0
    /\ outgoing = {}

-----------------------------------------------------------------------------
(* Every event that changes neighbor_views_ ends in                        *)
(* recalculate_forwarding_table_locked.                                    *)

Recalculate(views, order) ==
    LET table == Recalculated(Self, views, order, forwarding_table_, clock)
    IN  /\ neighbor_views_' = views
        /\ order_' = order
        /\ forwarding_table_' = table
        /\ trigger_pending_' = (trigger_pending_ \/ table # forwarding_table_)
        /\ trigger_deadline_' = IF table # forwarding_table_ /\ ~trigger_pending_
                                THEN clock + TRIGGER_DEBOUNCE ELSE trigger_deadline_

TakeEvent ==
    /\ events < MaxEvents
    /\ events' = events + 1
    /\ outgoing' = {}
    /\ UNCHANGED <<clock, last_periodic_update, next_maintenance_time>>

\* Inserting a key may rehash the map; otherwise its order stays.
OrdersAfterInsert(p) == IF p \in DOMAIN neighbor_views_ THEN {order_} ELSE Orders

PeerConnected(p) ==
    /\ TakeEvent
    /\ \E o \in OrdersAfterInsert(p) : Recalculate(Touch(neighbor_views_, p, clock), o)

\* The table is not recalculated.
FaultyPeerDisconnected(p) ==
    /\ TakeEvent
    /\ neighbor_views_' = Erase(neighbor_views_, {p})
    /\ UNCHANGED <<order_, forwarding_table_, trigger_pending_, trigger_deadline_>>

PeerDisconnected(p) ==
    /\ TakeEvent
    /\ Recalculate(Erase(neighbor_views_, {p}), order_)

\* handle_packet with a ROUTING_UPDATE.  Packets from the node itself are
\* dropped first.
RoutingUpdate(p, costs) ==
    /\ p # Self
    /\ TakeEvent
    /\ \E o \in OrdersAfterInsert(p) : Recalculate(ApplyUpdate(neighbor_views_, p, costs, clock), o)

\* handle_packet with anything else: the sender has been heard from.
DataPacket(p) ==
    /\ p # Self
    /\ p \in DOMAIN neighbor_views_
    /\ TakeEvent
    /\ neighbor_views_' = Touch(neighbor_views_, p, clock)
    /\ UNCHANGED <<order_, forwarding_table_, trigger_pending_, trigger_deadline_>>

-----------------------------------------------------------------------------
(* run_periodic_maintenance: drop silent neighbours, send the triggered    *)
(* update when it is due, send the full table when it is due, forget dead  *)
(* routes, in this order.                                                  *)

Expired == {n \in DOMAIN neighbor_views_ :
               clock > neighbor_views_[n].last_heard_from + ROUTE_TIMEOUT}

LiveViews == Erase(neighbor_views_, Expired)

\* The table after the neighbours have expired: recalculated if any did.
ExpiredTable ==
    IF Expired = {} THEN forwarding_table_
    ELSE Recalculated(Self, LiveViews, order_, forwarding_table_, clock)

TriggerDue == trigger_pending_ /\ clock >= trigger_deadline_

FullUpdateDue == clock > last_periodic_update + UPDATE_INTERVAL

SentTable == IF TriggerDue THEN Cleared(ExpiredTable) ELSE ExpiredTable

\* Dead routes are not held.
FaultyDeadRoutes(table) == {d \in DOMAIN table : table[d].cost >= INF_COST}

DeadRoutes(table) ==
    {d \in DOMAIN table : table[d].cost >= INF_COST /\ clock > table[d].last_updated + DEAD_ROUTE_HOLD}

Triggered ==
    IF TriggerDue /\ RoutesToSend(ExpiredTable) # {}
    THEN {[to |-> n, costs |-> TriggeredUpdate(ExpiredTable, n)] : n \in DOMAIN LiveViews}
    ELSE {}

Full ==
    IF FullUpdateDue
    THEN {[to |-> n, costs |-> FullTable(SentTable, n)] : n \in DOMAIN LiveViews}
    ELSE {}

Maintenance ==
    /\ clock >= next_maintenance_time
    /\ neighbor_views_' = LiveViews
    /\ forwarding_table_' = Erase(SentTable, DeadRoutes(SentTable))
    /\ trigger_pending_' = (~TriggerDue /\ (trigger_pending_ \/ ExpiredTable # forwarding_table_))
    /\ trigger_deadline_' = IF ExpiredTable # forwarding_table_ /\ ~trigger_pending_
                            THEN clock + TRIGGER_DEBOUNCE ELSE trigger_deadline_
    /\ last_periodic_update' = IF FullUpdateDue THEN clock ELSE last_periodic_update
    /\ next_maintenance_time' = clock + MAINTENANCE_TICK_RATE
    /\ outgoing' = Triggered \cup Full
    /\ UNCHANGED <<clock, order_, events>>

Tick ==
    /\ clock < MaxClock
    /\ clock' = clock + 1
    /\ outgoing' = {}
    /\ UNCHANGED <<neighbor_views_, order_, forwarding_table_, trigger_pending_,
                   trigger_deadline_, last_periodic_update, next_maintenance_time, events>>

Next ==
    \/ \E p \in Peers : PeerConnected(p)
    \/ \E p \in Peers : PeerDisconnected(p)
    \/ \E p \in Peers, costs \in Updates : RoutingUpdate(p, costs)
    \/ \E p \in Peers : DataPacket(p)
    \/ Maintenance
    \/ Tick

Spec == Init /\ [][Next]_vars

-----------------------------------------------------------------------------
(* Properties.                                                             *)

\* After every step the forwarding table is the best that the current
\* neighbours offer: no handler may leave neighbor_views_ changed and the
\* table not recalculated, so no route goes through a peer that is gone.
RoutesAreBest == IsBest(Self, neighbor_views_, forwarding_table_)

\* A change that the neighbours have not been told of has a triggered update
\* pending, due no later than TRIGGER_DEBOUNCE after the change: the flag
\* that recalculate_forwarding_table_locked sets is never cleared, by another
\* event or by the maintenance, while an entry is still dirty.
ChangeIsScheduled ==
    \A d \in DOMAIN forwarding_table_ :
        forwarding_table_[d].dirty =>
            /\ trigger_pending_
            /\ trigger_deadline_ <= forwarding_table_[d].last_updated + TRIGGER_DEBOUNCE

\* A dead route is forgotten only when its neighbours have been told: either
\* its entry was announced in an earlier step, or this step sends INF_COST
\* for it to every neighbour.  ("Keep dead route for 15s so the INF
\* propagates to others", run_periodic_maintenance.)
DeadRouteAnnounced ==
    [][\A d \in DOMAIN forwarding_table_ \ DOMAIN forwarding_table_' :
          \/ ~forwarding_table_[d].dirty
          \/ \A n \in DOMAIN neighbor_views_' :
                \E m \in outgoing' : m.to = n /\ d \in DOMAIN m.costs /\ m.costs[d] >= INF_COST]_vars

\* Further changes do not postpone a triggered update: while one is pending
\* its deadline stays, so a flapping link cannot keep the node silent.
DebounceNotExtended ==
    [][trigger_pending_ /\ trigger_pending_' => trigger_deadline_' = trigger_deadline_]_vars
=============================================================================
