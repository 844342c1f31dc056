--------------------------- MODULE RouterNetwork ---------------------------
(***************************************************************************)
(* MeshRouters that exchange routing updates over TCP connections that     *)
(* break and come back: what the distance-vector protocol computes.        *)
(*                                                                         *)
(* Time is left out: the triggered update of a node with dirty entries and *)
(* its periodic full table may be sent at any moment, a dead route that    *)
(* has been announced may be forgotten at any moment (MeshRouter shows     *)
(* that it is never forgotten earlier), and a neighbour expires only when  *)
(* its connection is gone, because over a working one the full tables      *)
(* arrive more often than ROUTE_TIMEOUT.  The transport never calls        *)
(* on_peer_disconnected when a connection breaks, so expiry is the only    *)
(* way a neighbour leaves.                                                 *)
(*                                                                         *)
(* The ends of a new connection register it independently.  What an end    *)
(* receives before its startup thread has called set_remote_peer_id is     *)
(* handed to its router under the empty id, NoId, which thereby becomes a  *)
(* neighbour that only expiry removes.  An update is handed over in the    *)
(* step that sends it: nothing but its order relative to                   *)
(* set_remote_peer_id would depend on the time between.                    *)
(*                                                                         *)
(* Entries for different destinations do not influence each other, so the  *)
(* tables and the updates keep the entry of one destination, Dest.  In the *)
(* code the change of another entry makes a node repeat what it says about *)
(* a dead Dest; SendFull, which is possible at any moment, says the same.  *)
(***************************************************************************)
EXTENDS RouteTable, Sequences, FiniteSets

CONSTANTS NoId,             \* the empty peer id, ""
          Dest,             \* the destination whose routes are followed
          Order,            \* iteration order of the neighbor_views_ maps
          Links,            \* the connections of the initial network
          Breakable,        \* the connections that may break and come back
          MaxLinkChanges    \* bound: breaks and reconnections

Router == Node \ {NoId}

ASSUME NetworkAssumption ==
    /\ NoId \in Node
    /\ Dest \in Router
    /\ Order \in IterationOrder
    /\ Breakable \subseteq Links
    /\ \A l \in Links : l \subseteq Router /\ Cardinality(l) = 2
    /\ MaxLinkChanges \in Nat

VARIABLES
    up,        \* the connections that work
    identified,\* <<n, m>>: n has called set_remote_peer_id for its connection to m
    registered,\* <<n, m>>: n has registered its connection to m
    changes,   \* breaks and reconnections so far
    views,     \* neighbor_views_ of every node
    table,     \* forwarding_table_ of every node
    queue,     \* queue[m][n]: what n's router has yet to process from m
    early      \* history: <<m, n>>: the connection came back before n was done with the old one, and
               \* m has told n nothing about Dest since

networkVars == <<up, identified, registered, changes, views, table, queue, early>>

\* The pairs of nodes that can have a connection, in both directions.
Channels == {c \in Router \X Router : {c[1], c[2]} \in Links /\ c[1] # c[2]}

Connected == [type |-> "connected"]
Update(id, costs) == [type |-> "update", from |-> id, costs |-> costs]

\* The state right after every connection of Links has been reported.
InitViews(n) ==
    [m \in {m \in Router : {m, n} \in Links} |-> [advertised_routes |-> NoRoutes, last_heard_from |-> 0]]

\* What t says about Dest, if anything.
ForDest(t) == [d \in DOMAIN t \cap {Dest} |-> t[d]]

Recalc(n, vs, t) == ForDest(Recalculated(n, vs, Order, t, 0))

NetworkInit ==
    /\ up = Links
    /\ identified = Channels
    /\ registered = Channels
    /\ changes = 0
    /\ views = [n \in Router |-> InitViews(n)]
    /\ table = [n \in Router |-> Recalc(n, InitViews(n), <<>>)]
    /\ queue = [m \in Router |-> [n \in Router |-> <<>>]]
    /\ early = {}

-----------------------------------------------------------------------------
(* The processing of one event.                                            *)

SetViews(n, vs) ==
    /\ views' = [views EXCEPT ![n] = vs]
    /\ table' = [table EXCEPT ![n] = Recalc(n, vs, @)]

\* pop_for.
Take(m, n) ==
    /\ queue[m][n] # <<>>
    /\ queue' = [queue EXCEPT ![m][n] = Tail(@)]

Receive(m, n) ==
    /\ Take(m, n)
    /\ LET e == Head(queue[m][n])
       IN  SetViews(n, IF e.type = "connected" THEN Touch(views[n], m, 0)
                       ELSE ApplyUpdate(views[n], e.from, e.costs, 0))
    /\ UNCHANGED <<up, identified, registered, changes, early>>

\* The neighbours an update of n can reach.
Receivers(n) == {m \in DOMAIN views[n] : {m, n} \in up /\ <<n, m>> \in registered}

\* The id under which m's router is handed what n sends.
RemotePeerId(m, n) == IF <<m, n>> \in identified THEN n ELSE NoId

\* costs[m], which mentions Dest, goes to every neighbour m; an update to a
\* neighbour whose connection is gone is lost.
Send(n, costs) ==
    /\ queue' = [queue EXCEPT ![n] = [m \in Router |->
                 IF m \in Receivers(n) THEN Append(@[m], Update(RemotePeerId(m, n), costs[m])) ELSE @[m]]]
    /\ early' = early \ {<<n, m>> : m \in {x \in Receivers(n) : RemotePeerId(x, n) = n}}

ClearDirty(n) ==
    /\ Dest \in DOMAIN table[n] /\ table[n][Dest].dirty
    /\ table' = [table EXCEPT ![n] = Cleared(@)]

SendTriggered(n) ==
    /\ ClearDirty(n)
    /\ Send(n, [m \in DOMAIN views[n] |-> TriggeredUpdate(table[n], m)])
    /\ UNCHANGED <<up, identified, registered, changes, views>>

\* No update is on its way or about to be sent.
Quiet ==
    /\ \A c \in Channels : queue[c[1]][c[2]] = <<>>
    /\ \A n \in Router : Dest \in DOMAIN table[n] => ~table[n][Dest].dirty

\* Bound: full tables, 10 s apart, are sent only when the triggered updates,
\* sent after 100 ms, have been processed.
SendFull(n) ==
    /\ Quiet
    /\ Dest \in DOMAIN table[n]
    /\ Send(n, [m \in DOMAIN views[n] |-> FullTable(table[n], m)])
    /\ UNCHANGED <<up, identified, registered, changes, views, table>>

\* A dead route is forgotten before it has been announced.
FaultyForgetDead(n) ==
    /\ Dest \in DOMAIN table[n]
    /\ table[n][Dest].cost >= INF_COST
    /\ table' = [table EXCEPT ![n] = Erase(@, {Dest})]
    /\ UNCHANGED <<up, identified, registered, changes, views, queue, early>>

ForgetDead(n) ==
    /\ Dest \in DOMAIN table[n]
    /\ table[n][Dest].cost >= INF_COST /\ ~table[n][Dest].dirty
    /\ table' = [table EXCEPT ![n] = Erase(@, {Dest})]
    /\ UNCHANGED <<up, identified, registered, changes, views, queue, early>>

\* The empty id is heard of again only when another connection starts.
DropView(n, m) ==
    /\ m \in DOMAIN views[n]
    /\ m # NoId => {m, n} \notin up /\ queue[m][n] = <<>>
    /\ views' = [views EXCEPT ![n] = Erase(@, {m})]

Expire(n, m) ==
    /\ DropView(n, m)
    /\ table' = [table EXCEPT ![n] = Recalc(n, views'[n], @)]
    /\ UNCHANGED <<up, identified, registered, changes, queue, early>>

-----------------------------------------------------------------------------
(* The connections (RpcManager and TCP, modelled by what the router sees). *)

\* What has not arrived when the connection breaks is lost.
LinkDown(m, n) ==
    /\ {m, n} \in up \cap Breakable
    /\ changes < MaxLinkChanges
    /\ up' = up \ {{m, n}}
    /\ identified' = identified \ {<<m, n>>, <<n, m>>}
    /\ registered' = registered \ {<<m, n>>, <<n, m>>}
    /\ changes' = changes + 1
    /\ \E i \in 0..Len(queue[m][n]), j \in 0..Len(queue[n][m]) :
          queue' = [queue EXCEPT ![m][n] = SubSeq(@, 1, i), ![n][m] = SubSeq(@, 1, j)]
    /\ early' = early \ {<<m, n>>, <<n, m>>}
    /\ UNCHANGED <<views, table>>

\* n has expired m, and has no event from it left to process.
Forgotten(m, n) == m \notin DOMAIN views[n] /\ queue[m][n] = <<>>

\* The handshake has succeeded.
LinkUp(m, n) ==
    /\ {m, n} \in Breakable \ up
    /\ changes < MaxLinkChanges
    /\ early' = early \cup {c \in {<<m, n>>, <<n, m>>} : ~Forgotten(c[1], c[2])}
    /\ up' = up \cup {{m, n}}
    /\ changes' = changes + 1
    /\ UNCHANGED <<identified, registered, views, table, queue>>

\* set_remote_peer_id at n.
Identify(m, n) ==
    /\ {m, n} \in up /\ <<n, m>> \notin identified
    /\ identified' = identified \cup {<<n, m>>}
    /\ UNCHANGED <<up, registered, changes, views, table, queue, early>>

\* add_connection_internal at n.
Register(m, n) ==
    /\ <<n, m>> \in identified \ registered
    /\ registered' = registered \cup {<<n, m>>}
    /\ queue' = [queue EXCEPT ![m][n] = Append(@, Connected)]
    /\ UNCHANGED <<up, identified, changes, views, table, early>>

NetworkNext ==
    \/ \E c \in Channels : Receive(c[1], c[2])
    \/ \E n \in Router : SendTriggered(n)
    \/ \E n \in Router : SendFull(n)
    \/ \E n \in Router : ForgetDead(n)
    \/ \E n \in Router, m \in Node : Expire(n, m)
    \/ \E c \in Channels : LinkDown(c[1], c[2])
    \/ \E c \in Channels : LinkUp(c[1], c[2])
    \/ \E c \in Channels : Identify(c[1], c[2])
    \/ \E c \in Channels : Register(c[1], c[2])

\* The routing threads keep running: events are taken from the queues, the
\* debounced updates go out, neighbours that are not heard of expire and every
\* node sends its full table again and again (its bound makes SendFull come
\* and go, hence SF); startup threads run.  Connections need not break or come
\* back.  Take, ClearDirty and DropView stand for the steps they are part of.
Fairness ==
    /\ WF_queue(\E c \in Channels : Take(c[1], c[2]))
    /\ WF_table(\E n \in Router : ClearDirty(n))
    /\ WF_views(\E n \in Router, m \in Node : DropView(n, m))
    /\ WF_networkVars(\E c \in Channels : Identify(c[1], c[2]))
    /\ WF_networkVars(\E c \in Channels : Register(c[1], c[2]))
    /\ \A n \in Router : SF_networkVars(SendFull(n))

NetworkSpec == NetworkInit /\ [][NetworkNext]_networkVars /\ Fairness

-----------------------------------------------------------------------------
(* Properties.                                                             *)

NetworkTypeOK ==
    /\ up \subseteq Links
    /\ registered \subseteq identified /\ identified \subseteq Channels
    /\ changes \in 0..MaxLinkChanges
    /\ early \subseteq Channels
    /\ \A n \in Router : IsNeighborViews(views[n]) /\ IsForwardingTable(table[n])
    /\ \A m, n \in Router : \A i \in 1..Len(queue[m][n]) :
          queue[m][n][i].type = "update" => IsRouteCosts(queue[m][n][i].costs)

\* The nodes at most k connections away from Dest.
Within[k \in Nat] ==
    IF k = 0 THEN {Dest}
    ELSE Within[k - 1] \cup {n \in Router : \E m \in Within[k - 1] : {m, n} \in up}

HasRoute(n) == Dest \in DOMAIN table[n] /\ table[n][Dest].cost < INF_COST

\* Every node knows the length of its shortest path to Dest and a next hop on
\* such a path, and has no route when there is none shorter than INF_COST.
Converged ==
    /\ \A k \in 1..(INF_COST - 1) : \A n \in Within[k] \ Within[k - 1] :
          /\ HasRoute(n) /\ table[n][Dest].cost = k
          /\ {n, table[n][Dest].next_hop} \in up /\ table[n][Dest].next_hop \in Within[k - 1]
    /\ \A n \in Router \ Within[INF_COST - 1] : ~HasRoute(n)

\* An offer that the neighbour withdrew while the connection was gone, and
\* then forgot, is never withdrawn again.
OrphanedOffer ==
    \E c \in early : /\ Dest \notin DOMAIN table[c[1]]
                     /\ c[1] \in DOMAIN views[c[2]]
                     /\ views[c[2]][c[1]].advertised_routes[Dest] < INF_COST


\* What m would tell n now.
Says(m, n) == IF Dest \in DOMAIN table[m] THEN CostFor(table[m], n, Dest) ELSE INF_COST

Told(m, n) ==
    /\ queue[m][n] = <<>>
    /\ Dest \in DOMAIN table[m] => ~table[m][Dest].dirty

\* Over a working connection, a node that has nothing left to process from a
\* neighbour with nothing left to announce holds what that neighbour says, or
\* nothing: neither clearing the dirty flags, nor forgetting dead routes, nor
\* expiry leaves it with an old offer, so no routing loop outlives the updates
\* of its nodes.  A connection that has come back early leaves one at most
\* until the neighbour speaks of Dest again.
ViewsAreCurrent ==
    /\ NetworkTypeOK
    /\ \A m, n \in Router :
        {m, n} \in up /\ <<m, n>> \notin early /\ m \in DOMAIN views[n] /\ Told(m, n) =>
            views[n][m].advertised_routes[Dest] \in {INF_COST, Says(m, n)}
=============================================================================
