---------------------------- MODULE RoutingProofs ----------------------------
(* Proofs about routing: the operators of RouteTable, for every set of     *)
(* nodes and every INF_COST; the control plane of one router, MeshRouter,  *)
(* for every set of peers, every update they may send and all timeouts     *)
(* with TRIGGER_DEBOUNCE <= DEAD_ROUTE_HOLD; RouterNetwork, for every set  *)
(* of connections that break and return any number of times; and that      *)
(* MeshRouter implements UntimedRouter, which ties the two together.       *)
EXTENDS MeshRouter, RouterNetwork, WellFoundedInduction, TLAPS

-----------------------------------------------------------------------------
(* The operators of RouteTable.                                            *)

\* Every non-empty set of naturals has a least element.
LEMMA LeastNat ==
    ASSUME NEW S, S \subseteq Nat, S # {}
    PROVE  \E x \in S : \A y \in S : x <= y
<1> DEFINE R == OpToRel(<, Nat)
<1>1. IsWellFoundedOn(R, Nat)
  BY NatLessThanWellFounded, Zenon
<1>2. PICK x \in S : \A y \in S : ~(<<y, x>> \in R)
  <2> HIDE DEF R
  <2> QED BY <1>1, WFMin, Zenon
<1>3. \A y \in S : <<y, x>> \in R <=> y < x
  BY <1>2, Zenon DEF OpToRel
<1>4. \A y \in S : ~(y < x)
  BY <1>2, <1>3, Zenon
<1> HIDE DEF R
<1>5. QED
  BY <1>2, <1>4

\* When some neighbour offers d, the neighbour that the loop of
\* recalculate_forwarding_table_locked keeps is one of those that offer it,
\* and none offers it for less.
LEMMA FirstBestIsBest ==
    ASSUME NEW vs, IsNeighborViews(vs), NEW order \in IterationOrder,
           NEW d \in Node, Via(vs, d) # {}
    PROVE  /\ FirstBest(vs, order, d) \in Via(vs, d)
           /\ \A m \in Via(vs, d) :
                 TotalCost(vs, FirstBest(vs, order, d), d) <= TotalCost(vs, m, d)
<1> DEFINE V == Via(vs, d)
           C(n) == TotalCost(vs, n, d)
<1>1. \A n \in V : C(n) \in Nat /\ n \in Node
  BY CostAssumption DEF IsNeighborViews, NeighborView, Via, TotalCost
<1>2. PICK c \in {C(n) : n \in V} : \A y \in {C(n) : n \in V} : c <= y
  <2> HIDE DEF V, C
  <2> {C(n) : n \in V} \subseteq Nat /\ {C(n) : n \in V} # {}
    BY <1>1, Zenon DEF V
  <2> QED BY LeastNat, Zenon
<1> DEFINE W == {n \in V : C(n) = c}
<1>3. PICK o \in {order[n] : n \in W} : \A y \in {order[n] : n \in W} : o <= y
  <2>1. {order[n] : n \in W} \subseteq Nat /\ {order[n] : n \in W} # {}
    <3> HIDE DEF V, C
    <3> QED BY <1>1, <1>2, Zenon DEF IterationOrder
  <2> QED BY <2>1, LeastNat, Zenon
<1>4. PICK n \in W : order[n] = o
  BY <1>3, Zenon
<1>5. \A m \in V : C(n) < C(m) \/ (C(n) = C(m) /\ order[n] <= order[m])
  <2> HIDE DEF V, C
  <2> QED BY <1>1, <1>2, <1>3, <1>4
<1>6. FirstBest(vs, order, d) \in V
      /\ \A m \in V : \/ C(FirstBest(vs, order, d)) < C(m)
                      \/ /\ C(FirstBest(vs, order, d)) = C(m)
                         /\ order[FirstBest(vs, order, d)] <= order[m]
  <2> n \in V
    BY <1>4, Zenon
  <2> QED BY <1>5, Zenon DEF FirstBest
<1> HIDE DEF V, C
<1>7. QED
  BY <1>1, <1>6 DEF V, C

\* The best route of a destination in new_table is well formed and live.
LEMMA BestRouteType ==
    ASSUME NEW self \in Node, NEW vs, IsNeighborViews(vs),
           NEW order \in IterationOrder, NEW d \in Known(self, vs)
    PROVE  /\ BestRoute(self, vs, order, d).next_hop \in Node
           /\ BestRoute(self, vs, order, d).cost \in 0..(INF_COST - 1)
<1>0. d \in Node
  BY Zenon DEF Known, IsNeighborViews
<1>1. CASE d \in DOMAIN vs
  BY <1>1, <1>0, CostAssumption DEF BestRoute
<1>2. CASE d \notin DOMAIN vs /\ d = self
  BY <1>2, CostAssumption DEF BestRoute
<1>3. CASE d \notin DOMAIN vs /\ d # self
  <2>1. Via(vs, d) # {}
    BY <1>3, Zenon DEF Known
  <2> DEFINE n == FirstBest(vs, order, d)
  <2>2. n \in Via(vs, d)
    BY <1>0, <2>1, FirstBestIsBest, Zenon
  <2>3. BestRoute(self, vs, order, d) = [next_hop |-> n, cost |-> TotalCost(vs, n, d)]
    BY <1>3, Zenon DEF BestRoute
  <2> HIDE DEF n
  <2>4. n \in Node /\ TotalCost(vs, n, d) \in 0..(INF_COST - 1)
    BY <1>0, <2>2, CostAssumption DEF Via, TotalCost, IsNeighborViews, NeighborView
  <2> QED BY <2>3, <2>4
<1> QED BY <1>1, <1>2, <1>3, Zenon

\* recalculate_forwarding_table_locked keeps the table well formed.
LEMMA RecalculatedType ==
    ASSUME NEW self \in Node, NEW vs, IsNeighborViews(vs),
           NEW order \in IterationOrder, NEW tbl, IsForwardingTable(tbl), NEW now \in Nat
    PROVE  IsForwardingTable(Recalculated(self, vs, order, tbl, now))
<1> DEFINE new == Recalculated(self, vs, order, tbl, now)
           K == Known(self, vs)
<1>1. DOMAIN new = DOMAIN tbl \cup K
  BY Zenon DEF Recalculated
<1>2. DOMAIN new \subseteq Node
  BY <1>1, Zenon DEF IsForwardingTable, IsNeighborViews, Known
<1>3. ASSUME NEW d \in DOMAIN new PROVE new[d] \in RouteEntry
  <2>1. CASE d \in K
    <3> DEFINE r == BestRoute(self, vs, order, d)
    <3>1. r.next_hop \in Node /\ r.cost \in 0..(INF_COST - 1)
      BY <2>1, BestRouteType, Zenon
    <3>2. new[d] = IF d \in DOMAIN tbl /\ SameRoute(tbl[d], r) THEN tbl[d] ELSE NewEntry(r, now)
      BY <2>1, <1>3, Zenon DEF Recalculated
    <3> HIDE DEF r
    <3>3. NewEntry(r, now) \in RouteEntry
      BY <3>1, CostAssumption DEF NewEntry, RouteEntry
    <3> QED BY <3>2, <3>3, Zenon DEF IsForwardingTable
  <2>2. CASE d \notin K
    <3>1. d \in DOMAIN tbl /\ new[d] = LostEntry(tbl[d], now)
      BY <2>2, <1>3, <1>1, Zenon DEF Recalculated
    <3>2. tbl[d] \in RouteEntry
      BY <3>1, Zenon DEF IsForwardingTable
    <3> QED BY <3>1, <3>2, CostAssumption DEF LostEntry, RouteEntry
  <2> QED BY <2>1, <2>2, Zenon
<1>4. new = [d \in DOMAIN new |-> new[d]]
  BY Zenon DEF Recalculated
<1> QED
  <2> HIDE DEF new, K
  <2> IsForwardingTable(new)
    BY <1>2, <1>3, <1>4, Zenon DEF IsForwardingTable
  <2> QED BY Zenon DEF new

\* What recalculate_forwarding_table_locked may do to an entry: leave it, or
\* give it a new value that is dirty and stamped with the current time.  No
\* entry is removed.
LEMMA RecalculatedEntries ==
    ASSUME NEW self, NEW vs, NEW order, NEW tbl, NEW now
    PROVE  LET new == Recalculated(self, vs, order, tbl, now)
           IN  /\ DOMAIN tbl \subseteq DOMAIN new
               /\ \A d \in DOMAIN new : \/ d \in DOMAIN tbl /\ new[d] = tbl[d]
                                        \/ new[d].dirty /\ new[d].last_updated = now
<1> DEFINE new == Recalculated(self, vs, order, tbl, now)
<1>1. DOMAIN new = DOMAIN tbl \cup Known(self, vs)
  BY Zenon DEF Recalculated
<1>2. ASSUME NEW d \in DOMAIN new
      PROVE  \/ d \in DOMAIN tbl /\ new[d] = tbl[d]
             \/ new[d].dirty /\ new[d].last_updated = now
  <2>1. CASE d \in Known(self, vs)
    <3> DEFINE r == BestRoute(self, vs, order, d)
    <3>1. new[d] = IF d \in DOMAIN tbl /\ SameRoute(tbl[d], r) THEN tbl[d] ELSE NewEntry(r, now)
      BY <2>1, <1>2, Zenon DEF Recalculated
    <3> QED BY <3>1 DEF NewEntry
  <2>2. CASE d \notin Known(self, vs)
    <3>1. d \in DOMAIN tbl /\ new[d] = LostEntry(tbl[d], now)
      BY <2>2, <1>2, <1>1, Zenon DEF Recalculated
    <3> QED BY <3>1 DEF LostEntry
  <2> QED BY <2>1, <2>2, Zenon
<1> QED BY <1>1, <1>2, Zenon

\* The table that recalculate_forwarding_table_locked leaves is the best that
\* the views offer, whatever the table was before.
LEMMA RecalculatedIsBest ==
    ASSUME NEW self \in Node, NEW vs, IsNeighborViews(vs),
           NEW order \in IterationOrder, NEW tbl, IsForwardingTable(tbl), NEW now \in Nat
    PROVE  IsBest(self, vs, Recalculated(self, vs, order, tbl, now))
<1> DEFINE new == Recalculated(self, vs, order, tbl, now)
<1>1. DOMAIN new = DOMAIN tbl \cup Known(self, vs)
  BY Zenon DEF Recalculated
<1>2. \A d \in Known(self, vs) : SameRoute(new[d], BestRoute(self, vs, order, d))
  <2> SUFFICES ASSUME NEW d \in Known(self, vs)
               PROVE  SameRoute(new[d], BestRoute(self, vs, order, d))
    BY Zenon
  <2> DEFINE r == BestRoute(self, vs, order, d)
  <2>1. new[d] = IF d \in DOMAIN tbl /\ SameRoute(tbl[d], r) THEN tbl[d] ELSE NewEntry(r, now)
    BY Zenon DEF Recalculated
  <2> QED BY <2>1 DEF NewEntry, SameRoute
<1>3. \A d \in DOMAIN new \ Known(self, vs) : new[d].cost = INF_COST
  <2> SUFFICES ASSUME NEW d \in DOMAIN new \ Known(self, vs)
               PROVE  new[d].cost = INF_COST
    BY Zenon
  <2>1. d \in DOMAIN tbl /\ new[d] = LostEntry(tbl[d], now)
    BY <1>1, Zenon DEF Recalculated
  <2>2. tbl[d].cost \in 0..INF_COST
    BY <2>1, Zenon DEF IsForwardingTable, RouteEntry
  <2> QED BY <2>1, <2>2, CostAssumption DEF LostEntry
<1> HIDE DEF new
<1>4. ASSUME NEW d \in Node \ {self}
      PROVE  /\ d \in DOMAIN vs =>
                   d \in DOMAIN new /\ new[d].next_hop = d /\ new[d].cost = 1
             /\ d \notin DOMAIN vs /\ Via(vs, d) # {} =>
                   /\ d \in DOMAIN new
                   /\ new[d].next_hop \in Via(vs, d)
                   /\ new[d].cost = TotalCost(vs, new[d].next_hop, d)
                   /\ \A n \in Via(vs, d) : new[d].cost <= TotalCost(vs, n, d)
             /\ d \notin DOMAIN vs /\ Via(vs, d) = {} /\ d \in DOMAIN new =>
                   new[d].cost = INF_COST
  <2>1. CASE d \in DOMAIN vs
    BY <2>1, <1>1, <1>2, Zenon DEF Known, BestRoute, SameRoute
  <2>2. CASE d \notin DOMAIN vs /\ Via(vs, d) # {}
    <3> DEFINE n == FirstBest(vs, order, d)
    <3>1. d \in Known(self, vs)
      BY <2>2, Zenon DEF Known
    <3>2. BestRoute(self, vs, order, d) = [next_hop |-> n, cost |-> TotalCost(vs, n, d)]
      BY <2>2, Zenon DEF BestRoute
    <3>3. new[d].next_hop = n /\ new[d].cost = TotalCost(vs, n, d)
      BY <1>2, <3>1, <3>2 DEF SameRoute
    <3> HIDE DEF n
    <3>4. n \in Via(vs, d) /\ \A m \in Via(vs, d) : TotalCost(vs, n, d) <= TotalCost(vs, m, d)
      BY <2>2, FirstBestIsBest, Zenon DEF n
    <3> QED BY <2>2, <1>1, <3>1, <3>3, <3>4, Zenon
  <2>3. CASE d \notin DOMAIN vs /\ Via(vs, d) = {}
    <3>1. d \notin Known(self, vs)
      BY <2>3, Zenon DEF Known
    <3> QED BY <2>3, <3>1, <1>3, Zenon
  <2> QED BY <2>1, <2>2, <2>3, Zenon
<1>5. IsBest(self, vs, new)
  BY <1>4, Zenon DEF IsBest, IsBestTo
<1> QED BY <1>5, Zenon DEF new

-----------------------------------------------------------------------------
\* The operations on neighbor_views_ keep it well formed.
LEMMA ViewsType ==
    ASSUME NEW vs, IsNeighborViews(vs), NEW n \in Node, NEW now \in Nat
    PROVE  /\ IsNeighborViews(Touch(vs, n, now))
           /\ \A costs : IsRouteCosts(costs) => IsNeighborViews(ApplyUpdate(vs, n, costs, now))
           /\ \A S : IsNeighborViews(Erase(vs, S))
<1> DEFINE old == IF n \in DOMAIN vs THEN vs[n].advertised_routes ELSE NoRoutes
<1>1. old \in [Node -> 0..INF_COST]
  BY CostAssumption DEF IsNeighborViews, NeighborView, NoRoutes
<1>2. IsNeighborViews(Touch(vs, n, now))
  <2> DEFINE new == [advertised_routes |-> old, last_heard_from |-> now]
  <2>1. new \in NeighborView
    BY <1>1, Zenon DEF NeighborView
  <2>2. Touch(vs, n, now) = [m \in DOMAIN vs \cup {n} |-> IF m # n THEN vs[m] ELSE new]
    BY Zenon DEF Touch
  <2> HIDE DEF new
  <2> QED BY <2>1, <2>2, Zenon DEF IsNeighborViews
<1>3. ASSUME NEW costs, IsRouteCosts(costs)
      PROVE  IsNeighborViews(ApplyUpdate(vs, n, costs, now))
  <2> DEFINE new == [advertised_routes |-> Learn(old, costs), last_heard_from |-> now]
  <2>1. Learn(old, costs) \in [Node -> 0..INF_COST]
    <3> HIDE DEF old
    <3> QED BY <1>1, <1>3, CostAssumption DEF Learn, IsRouteCosts
  <2>2. new \in NeighborView
    BY <2>1, Zenon DEF NeighborView
  <2>3. ApplyUpdate(vs, n, costs, now) = [m \in DOMAIN vs \cup {n} |-> IF m # n THEN vs[m] ELSE new]
    BY Zenon DEF ApplyUpdate
  <2> HIDE DEF new
  <2> QED BY <2>2, <2>3, Zenon DEF IsNeighborViews
<1>4. ASSUME NEW S PROVE IsNeighborViews(Erase(vs, S))
  BY Zenon DEF IsNeighborViews, Erase
<1> QED BY <1>2, <1>3, <1>4, Zenon

\* Clearing the dirty flags changes nothing else in the table.
LEMMA ClearedEntries ==
    ASSUME NEW tbl, IsForwardingTable(tbl)
    PROVE  /\ IsForwardingTable(Cleared(tbl))
           /\ DOMAIN Cleared(tbl) = DOMAIN tbl
           /\ \A d \in DOMAIN tbl : /\ SameRoute(Cleared(tbl)[d], tbl[d])
                                     /\ Cleared(tbl)[d].last_updated = tbl[d].last_updated
                                     /\ ~Cleared(tbl)[d].dirty
<1>1. ASSUME NEW d \in DOMAIN tbl
      PROVE  /\ Cleared(tbl)[d] \in RouteEntry
             /\ SameRoute(Cleared(tbl)[d], tbl[d])
             /\ Cleared(tbl)[d].last_updated = tbl[d].last_updated
             /\ ~Cleared(tbl)[d].dirty
  <2>1. tbl[d] \in RouteEntry
    BY Zenon DEF IsForwardingTable
  <2>2. CASE d \in RoutesToSend(tbl)
    BY <2>1, <2>2, Zenon DEF Cleared, RouteEntry, SameRoute
  <2>3. CASE d \notin RoutesToSend(tbl)
    BY <2>1, <2>3, Zenon DEF Cleared, RouteEntry, SameRoute, RoutesToSend
  <2> QED BY <2>2, <2>3, Zenon
<1>2. DOMAIN Cleared(tbl) = DOMAIN tbl /\ Cleared(tbl) = [d \in DOMAIN tbl |-> Cleared(tbl)[d]]
  BY Zenon DEF Cleared
<1> QED BY <1>1, <1>2, Zenon DEF IsForwardingTable

\* Being the best for the views depends on the route of a table only, and
\* forgetting a dead route keeps it.
LEMMA BestIsStable ==
    ASSUME NEW d \in Node, NEW vs, IsNeighborViews(vs), NEW t1, NEW t2, IsBestTo(d, vs, t1),
           d \in DOMAIN t2 => d \in DOMAIN t1 /\ SameRoute(t2[d], t1[d]),
           d \in DOMAIN t1 \ DOMAIN t2 => t1[d].cost >= INF_COST
    PROVE  IsBestTo(d, vs, t2)
<1>1. ASSUME d \in DOMAIN t1, d \in DOMAIN vs \/ Via(vs, d) # {}
      PROVE  d \in DOMAIN t2
  <2>1. t1[d].cost \in Nat /\ t1[d].cost < INF_COST
    <3>1. CASE d \in DOMAIN vs
      BY <3>1, CostAssumption DEF IsBestTo
    <3>2. CASE d \notin DOMAIN vs
      <4>1. t1[d].next_hop \in Via(vs, d) /\ t1[d].cost = TotalCost(vs, t1[d].next_hop, d)
        BY <1>1, <3>2, Zenon DEF IsBestTo
      <4> QED BY <4>1, CostAssumption DEF Via, TotalCost, IsNeighborViews, NeighborView
    <3> QED BY <3>1, <3>2, Zenon
  <2> QED BY <1>1, <2>1, CostAssumption
<1> QED BY <1>1, Zenon DEF IsBestTo, SameRoute

-----------------------------------------------------------------------------
(* One router: MeshRouter.                                                 *)

\* A pending trigger is due within TRIGGER_DEBOUNCE from now.
DeadlineNear == trigger_pending_ => trigger_deadline_ <= clock + TRIGGER_DEBOUNCE

\* The inductive invariant: ChangeIsScheduled alone is not inductive, because
\* an entry that becomes dirty while a trigger is pending inherits its
\* deadline, which DeadlineNear bounds.
RouterIInv == TypeOK /\ RoutesAreBest /\ ChangeIsScheduled /\ DeadlineNear

\* The constructor's state, with no neighbours and no routes, satisfies RouterIInv.
LEMMA RouterInitIInv == Init => RouterIInv
<1> SUFFICES ASSUME Init PROVE RouterIInv
  BY Zenon
<1> USE RouterAssumption, CostAssumption
<1>1. TypeOK
  <2>1. order_ \in IterationOrder
    BY Zenon DEF Init
  <2>2. IsNeighborViews(neighbor_views_) /\ IsForwardingTable(forwarding_table_)
    BY DEF Init, IsNeighborViews, IsForwardingTable, RouteEntry
  <2> QED BY <2>1, <2>2, Zenon DEF Init, TypeOK
<1>2. RoutesAreBest
  BY Zenon DEF Init, RoutesAreBest, IsBest, IsBestTo, Via
<1>3. ChangeIsScheduled /\ DeadlineNear
  BY Zenon DEF Init, ChangeIsScheduled, DeadlineNear
<1> QED BY <1>1, <1>2, <1>3, Zenon DEF RouterIInv

\* Any event that replaces the views and recalculates keeps the invariant.
LEMMA RecalculatePreserves ==
    ASSUME RouterIInv, TakeEvent, NEW vs, IsNeighborViews(vs),
           NEW order \in IterationOrder, Recalculate(vs, order)
    PROVE  RouterIInv'
<1> USE RouterAssumption
<1> DEFINE tbl == Recalculated(Self, vs, order, forwarding_table_, clock)
<1>0. TypeOK /\ Self \in Node /\ clock' = clock /\ clock \in Nat
  BY Zenon DEF RouterIInv, TakeEvent, TypeOK
<1>1. /\ neighbor_views_' = vs /\ order_' = order /\ forwarding_table_' = tbl
      /\ trigger_pending_' = (trigger_pending_ \/ tbl # forwarding_table_)
      /\ trigger_deadline_' = IF tbl # forwarding_table_ /\ ~trigger_pending_
                              THEN clock + TRIGGER_DEBOUNCE ELSE trigger_deadline_
  BY Zenon DEF Recalculate
<1>2. IsForwardingTable(tbl) /\ IsBest(Self, vs, tbl)
  BY <1>0, RecalculatedType, RecalculatedIsBest, Zenon DEF TypeOK
<1>3. \A d \in DOMAIN tbl : \/ d \in DOMAIN forwarding_table_ /\ tbl[d] = forwarding_table_[d]
                            \/ tbl[d].dirty /\ tbl[d].last_updated = clock
  BY RecalculatedEntries
<1>3a. DOMAIN forwarding_table_ \subseteq DOMAIN tbl
  BY RecalculatedEntries, Zenon
<1> HIDE DEF tbl
<1>4. TypeOK'
  BY <1>0, <1>1, <1>2 DEF TypeOK, TakeEvent
<1>5. RoutesAreBest'
  BY <1>1, <1>2, Zenon DEF RoutesAreBest
<1>6. DeadlineNear'
  BY <1>0, <1>1 DEF DeadlineNear, RouterIInv, TypeOK
<1>7. ChangeIsScheduled'
  <2> SUFFICES ASSUME NEW d \in DOMAIN tbl, tbl[d].dirty
               PROVE  trigger_pending_' /\ trigger_deadline_' <= tbl[d].last_updated + TRIGGER_DEBOUNCE
    BY <1>1, Zenon DEF ChangeIsScheduled
  <2>1. CASE tbl = forwarding_table_
    BY <1>1, <2>1, Zenon DEF RouterIInv, ChangeIsScheduled
  <2>2. CASE tbl # forwarding_table_
    <3>1. trigger_pending_'
      BY <1>1, <2>2, Zenon
    <3>2. CASE tbl[d].last_updated = clock
      BY <1>0, <1>1, <1>6, <3>1, <3>2, Zenon DEF DeadlineNear
    <3>3. CASE d \in DOMAIN forwarding_table_ /\ tbl[d] = forwarding_table_[d]
      <4>1. trigger_pending_ /\ trigger_deadline_ <= tbl[d].last_updated + TRIGGER_DEBOUNCE
        BY <3>3, Zenon DEF RouterIInv, ChangeIsScheduled
      <4> QED BY <1>1, <3>1, <4>1, Zenon
    <3> QED BY <1>3, <3>2, <3>3, Zenon
  <2> QED BY <2>1, <2>2, Zenon
<1> QED BY <1>4, <1>5, <1>6, <1>7, Zenon DEF RouterIInv

\* The intermediate tables of run_periodic_maintenance.
LEMMA MaintenanceTables ==
    ASSUME RouterIInv
    PROVE  /\ IsNeighborViews(LiveViews)
           /\ IsForwardingTable(ExpiredTable) /\ IsBest(Self, LiveViews, ExpiredTable)
           /\ DOMAIN forwarding_table_ \subseteq DOMAIN ExpiredTable
           /\ \A d \in DOMAIN ExpiredTable :
                 \/ d \in DOMAIN forwarding_table_ /\ ExpiredTable[d] = forwarding_table_[d]
                 \/ ExpiredTable[d].dirty /\ ExpiredTable[d].last_updated = clock
           /\ IsForwardingTable(SentTable)
           /\ DOMAIN SentTable = DOMAIN ExpiredTable
           /\ \A d \in DOMAIN ExpiredTable :
                 /\ SameRoute(SentTable[d], ExpiredTable[d])
                 /\ SentTable[d].last_updated = ExpiredTable[d].last_updated
                 /\ SentTable[d].dirty => ~TriggerDue /\ ExpiredTable[d].dirty
<1> USE RouterAssumption
<1>0. TypeOK /\ Self \in Node /\ clock \in Nat /\ order_ \in IterationOrder
  BY Zenon DEF RouterIInv, TypeOK
<1>1. IsNeighborViews(LiveViews)
  BY <1>0, ViewsType, Zenon DEF LiveViews, TypeOK
<1>2. /\ IsForwardingTable(ExpiredTable) /\ IsBest(Self, LiveViews, ExpiredTable)
      /\ DOMAIN forwarding_table_ \subseteq DOMAIN ExpiredTable
      /\ \A d \in DOMAIN ExpiredTable :
            \/ d \in DOMAIN forwarding_table_ /\ ExpiredTable[d] = forwarding_table_[d]
            \/ ExpiredTable[d].dirty /\ ExpiredTable[d].last_updated = clock
  <2>1. CASE Expired = {}
    <3>1. LiveViews = neighbor_views_
      BY <1>0, <2>1, Zenon DEF LiveViews, Erase, TypeOK, IsNeighborViews
    <3> QED BY <1>0, <2>1, <3>1, Zenon DEF ExpiredTable, RouterIInv, TypeOK, RoutesAreBest
  <2>2. CASE Expired # {}
    <3>1. ExpiredTable = Recalculated(Self, LiveViews, order_, forwarding_table_, clock)
      BY <2>2, Zenon DEF ExpiredTable
    <3>2. IsForwardingTable(forwarding_table_)
      BY <1>0, Zenon DEF TypeOK
    <3>3. IsForwardingTable(ExpiredTable) /\ IsBest(Self, LiveViews, ExpiredTable)
      BY <1>0, <1>1, <3>1, <3>2, RecalculatedType, RecalculatedIsBest, Zenon
    <3> QED BY <3>1, <3>3, RecalculatedEntries
  <2> QED BY <2>1, <2>2, Zenon
<1>3. /\ IsForwardingTable(SentTable)
      /\ DOMAIN SentTable = DOMAIN ExpiredTable
      /\ \A d \in DOMAIN ExpiredTable :
            /\ SameRoute(SentTable[d], ExpiredTable[d])
            /\ SentTable[d].last_updated = ExpiredTable[d].last_updated
            /\ SentTable[d].dirty => ~TriggerDue /\ ExpiredTable[d].dirty
  <2>1. CASE TriggerDue
    BY <1>2, <2>1, ClearedEntries, Zenon DEF SentTable
  <2>2. CASE ~TriggerDue
    BY <1>2, <2>2, Zenon DEF SentTable, SameRoute
  <2> QED BY <2>1, <2>2, Zenon
<1> QED BY <1>1, <1>2, <1>3, Zenon

\* The updates that send_triggered_updates and broadcast_full_table make are
\* addressed to nodes and carry costs up to INF.
LEMMA OutgoingType == RouterIInv /\ Maintenance => (\A m \in outgoing : m.to \in Node /\ IsRouteCosts(m.costs))'
<1> SUFFICES ASSUME RouterIInv, Maintenance, NEW m \in Triggered \cup Full
             PROVE  m.to \in Node /\ IsRouteCosts(m.costs)
  BY Zenon DEF Maintenance
<1>1. DOMAIN LiveViews \subseteq Node /\ IsForwardingTable(ExpiredTable) /\ IsForwardingTable(SentTable)
  BY MaintenanceTables, Zenon DEF IsNeighborViews
<1>2. CASE m \in Triggered
  <2>1. PICK n \in DOMAIN LiveViews : m = [to |-> n, costs |-> TriggeredUpdate(ExpiredTable, n)]
    BY <1>2, Zenon DEF Triggered
  <2>2. IsRouteCosts(TriggeredUpdate(ExpiredTable, n))
    BY <1>1, CostAssumption
    DEF IsRouteCosts, TriggeredUpdate, RoutesToSend, CostFor, IsForwardingTable, RouteEntry
  <2> QED BY <1>1, <2>1, <2>2, Zenon
<1>3. CASE m \in Full
  <2>1. PICK n \in DOMAIN LiveViews : m = [to |-> n, costs |-> FullTable(SentTable, n)]
    BY <1>3, Zenon DEF Full
  <2>2. IsRouteCosts(FullTable(SentTable, n))
    BY <1>1, CostAssumption
    DEF IsRouteCosts, FullTable, CostFor, IsForwardingTable, RouteEntry
  <2> QED BY <1>1, <2>1, <2>2, Zenon
<1> QED BY <1>2, <1>3, Zenon

\* run_periodic_maintenance (expiry, triggered and full updates, and the
\* forgetting of dead routes) preserves RouterIInv.
LEMMA MaintenancePreserves == RouterIInv /\ Maintenance => RouterIInv'
<1> SUFFICES ASSUME RouterIInv, Maintenance PROVE RouterIInv'
  BY Zenon
<1> USE RouterAssumption
<1> DEFINE dead == DeadRoutes(SentTable)
<1>0. TypeOK /\ clock \in Nat /\ clock' = clock
  BY Zenon DEF RouterIInv, TypeOK, Maintenance
<1>1. /\ neighbor_views_' = LiveViews /\ forwarding_table_' = Erase(SentTable, dead)
      /\ trigger_pending_' = (~TriggerDue /\ (trigger_pending_ \/ ExpiredTable # forwarding_table_))
      /\ trigger_deadline_' = IF ExpiredTable # forwarding_table_ /\ ~trigger_pending_
                              THEN clock + TRIGGER_DEBOUNCE ELSE trigger_deadline_
  BY Zenon DEF Maintenance
<1>2. TypeOK'
  <2>1. IsForwardingTable(Erase(SentTable, dead))
    BY MaintenanceTables, Zenon DEF IsForwardingTable, Erase
  <2>2. last_periodic_update' \in Nat /\ next_maintenance_time' \in Nat /\ order_' = order_ /\ events' = events
    BY <1>0 DEF Maintenance, TypeOK
  <2> QED BY <1>0, <1>1, <2>1, <2>2, MaintenanceTables, OutgoingType DEF TypeOK
<1>3. RoutesAreBest'
  <2> DEFINE t == Erase(SentTable, dead)
  <2>1. /\ DOMAIN t \subseteq DOMAIN ExpiredTable
        /\ \A d \in DOMAIN t : SameRoute(t[d], ExpiredTable[d])
        /\ \A d \in DOMAIN ExpiredTable \ DOMAIN t : ExpiredTable[d].cost >= INF_COST
    BY MaintenanceTables, Zenon DEF Erase, DeadRoutes, SameRoute
  <2> HIDE DEF t
  <2>2. IsBest(Self, LiveViews, t)
    <3> SUFFICES ASSUME NEW d \in Node \ {Self} PROVE IsBestTo(d, LiveViews, t)
      BY Zenon DEF IsBest
    <3>1. IsNeighborViews(LiveViews) /\ IsBestTo(d, LiveViews, ExpiredTable)
      BY MaintenanceTables, Zenon DEF IsBest
    <3> QED BY <2>1, <3>1, BestIsStable, Zenon
  <2> QED BY <1>1, <2>2, Zenon DEF RoutesAreBest, t
<1>4. DeadlineNear'
  BY <1>0, <1>1 DEF DeadlineNear, RouterIInv, TypeOK
<1>5. ChangeIsScheduled'
  <2> SUFFICES ASSUME NEW d \in DOMAIN SentTable, SentTable[d].dirty
               PROVE  trigger_pending_' /\ trigger_deadline_' <= SentTable[d].last_updated + TRIGGER_DEBOUNCE
    BY <1>1, Zenon DEF ChangeIsScheduled, Erase
  <2>1. ~TriggerDue /\ ExpiredTable[d].dirty /\ d \in DOMAIN ExpiredTable
        /\ SentTable[d].last_updated = ExpiredTable[d].last_updated
    BY MaintenanceTables, Zenon
  <2>2. CASE d \in DOMAIN forwarding_table_ /\ ExpiredTable[d] = forwarding_table_[d]
    <3>1. trigger_pending_ /\ trigger_deadline_ <= ExpiredTable[d].last_updated + TRIGGER_DEBOUNCE
      BY <2>1, <2>2, Zenon DEF RouterIInv, ChangeIsScheduled
    <3> QED BY <1>1, <2>1, <3>1, Zenon
  <2>3. CASE /\ ~(d \in DOMAIN forwarding_table_ /\ ExpiredTable[d] = forwarding_table_[d])
             /\ ExpiredTable[d].last_updated = clock
    <3>1. ExpiredTable # forwarding_table_
      BY <2>1, <2>3, Zenon
    <3>2. trigger_pending_'
      BY <1>1, <2>1, <3>1, Zenon
    <3> QED BY <1>0, <1>4, <2>1, <2>3, <3>2, Zenon DEF DeadlineNear
  <2> QED BY <2>1, <2>2, <2>3, MaintenanceTables, Zenon
<1> QED BY <1>2, <1>3, <1>4, <1>5, Zenon DEF RouterIInv

-----------------------------------------------------------------------------
\* Every step of the routing thread keeps the invariant.
LEMMA RouterNextIInv == RouterIInv /\ [Next]_vars => RouterIInv'
<1> SUFFICES ASSUME RouterIInv, [Next]_vars PROVE RouterIInv'
  BY Zenon
<1> USE RouterAssumption
<1>0. IsNeighborViews(neighbor_views_) /\ clock \in Nat /\ order_ \in IterationOrder
  BY Zenon DEF RouterIInv, TypeOK
<1>1. ASSUME NEW p \in Peers, PeerConnected(p) PROVE RouterIInv'
  <2>1. PICK o \in OrdersAfterInsert(p) : Recalculate(Touch(neighbor_views_, p, clock), o)
    BY <1>1, Zenon DEF PeerConnected
  <2>2. o \in IterationOrder
    BY <1>0, Zenon DEF OrdersAfterInsert
  <2>3. IsNeighborViews(Touch(neighbor_views_, p, clock))
    BY <1>0, ViewsType, Zenon
  <2> QED BY <1>1, <2>1, <2>2, <2>3, RecalculatePreserves, Zenon DEF PeerConnected
<1>2. ASSUME NEW p \in Peers, PeerDisconnected(p) PROVE RouterIInv'
  <2>1. IsNeighborViews(Erase(neighbor_views_, {p}))
    BY <1>0, ViewsType, Zenon
  <2> QED BY <1>0, <1>2, <2>1, RecalculatePreserves, Zenon DEF PeerDisconnected
<1>3. ASSUME NEW p \in Peers, NEW costs \in Updates, RoutingUpdate(p, costs) PROVE RouterIInv'
  <2>1. PICK o \in OrdersAfterInsert(p) : Recalculate(ApplyUpdate(neighbor_views_, p, costs, clock), o)
    BY <1>3, Zenon DEF RoutingUpdate
  <2>2. o \in IterationOrder
    BY <1>0, Zenon DEF OrdersAfterInsert
  <2>3. IsNeighborViews(ApplyUpdate(neighbor_views_, p, costs, clock))
    BY <1>0, ViewsType, Zenon
  <2> QED BY <1>3, <2>1, <2>2, <2>3, RecalculatePreserves, Zenon DEF RoutingUpdate
<1>4. ASSUME NEW p \in Peers, DataPacket(p) PROVE RouterIInv'
  <2> DEFINE new == Touch(neighbor_views_, p, clock)
  <2>1. IsNeighborViews(new)
    BY <1>0, ViewsType, Zenon
  <2>2. DOMAIN new = DOMAIN neighbor_views_
        /\ \A n \in DOMAIN new : new[n].advertised_routes = neighbor_views_[n].advertised_routes
    BY <1>4, Zenon DEF DataPacket, Touch
  <2> HIDE DEF new
  <2>3. neighbor_views_' = new /\ forwarding_table_' = forwarding_table_ /\ order_' = order_
    BY <1>4, Zenon DEF DataPacket, new
  <2>4. \A d \in Node : Via(new, d) = Via(neighbor_views_, d)
    BY <2>2 DEF Via, TotalCost
  <2>5. IsBest(Self, new, forwarding_table_)
    BY <2>2, <2>4 DEF RouterIInv, RoutesAreBest, IsBest, IsBestTo, TotalCost, Via
  <2>6. TypeOK'
    BY <1>4, <2>1, <2>3 DEF RouterIInv, TypeOK, DataPacket, TakeEvent
  <2>7. ChangeIsScheduled' /\ DeadlineNear'
    BY <1>4, Zenon DEF RouterIInv, DataPacket, TakeEvent, ChangeIsScheduled, DeadlineNear
  <2> QED BY <2>3, <2>5, <2>6, <2>7, Zenon DEF RouterIInv, RoutesAreBest
<1>5. CASE Maintenance
  BY <1>5, MaintenancePreserves, Zenon
<1>6. CASE Tick
  BY <1>6 DEF Tick, RouterIInv, TypeOK, RoutesAreBest, ChangeIsScheduled, DeadlineNear
<1>7. CASE UNCHANGED vars
  BY <1>7, Zenon DEF vars, RouterIInv, TypeOK, RoutesAreBest, ChangeIsScheduled, DeadlineNear
<1> QED BY <1>1, <1>2, <1>3, <1>4, <1>5, <1>6, <1>7, Zenon DEF Next

\* The forwarding table is the best the neighbours offer, whatever the peers
\* do and in whatever order their events arrive.
THEOREM RouterKeepsBest == Spec => []RoutesAreBest
<1>1. RouterIInv => RoutesAreBest
  BY Zenon DEF RouterIInv
<1> QED BY <1>1, RouterInitIInv, RouterNextIInv, PTL DEF Spec

\* Every unannounced change has a trigger in time, whatever the peers do.
THEOREM RouterSchedules == Spec => []ChangeIsScheduled
<1>1. RouterIInv => ChangeIsScheduled
  BY Zenon DEF RouterIInv
<1> QED BY <1>1, RouterInitIInv, RouterNextIInv, PTL DEF Spec

\* run_periodic_maintenance never forgets a dead route that its neighbours
\* have not been told of: the hold exceeds the debounce, so a trigger that
\* covers the entry is due in the same pass, before the entries are removed.
THEOREM RouterAnnouncesDeadRoutes == Spec => DeadRouteAnnounced
<1> DEFINE Announced ==
      \A d \in DOMAIN forwarding_table_ \ DOMAIN forwarding_table_' :
          \/ ~forwarding_table_[d].dirty
          \/ \A n \in DOMAIN neighbor_views_' :
                \E m \in outgoing' : m.to = n /\ d \in DOMAIN m.costs /\ m.costs[d] >= INF_COST
<1>1. ASSUME RouterIInv, Next PROVE Announced
  <2> USE RouterAssumption
  <2>1. CASE Maintenance
    <3> SUFFICES ASSUME NEW d \in DOMAIN forwarding_table_ \ DOMAIN forwarding_table_',
                        forwarding_table_[d].dirty,
                        NEW n \in DOMAIN neighbor_views_'
                 PROVE  \E m \in outgoing' : m.to = n /\ d \in DOMAIN m.costs /\ m.costs[d] >= INF_COST
      BY Zenon
    <3>1. d \in DOMAIN SentTable /\ d \in DeadRoutes(SentTable)
      BY <1>1, <2>1, MaintenanceTables, Zenon DEF Maintenance, Erase
    <3>2. /\ d \in DOMAIN ExpiredTable
          /\ ExpiredTable[d].cost >= INF_COST
          /\ clock > ExpiredTable[d].last_updated + DEAD_ROUTE_HOLD
      BY <1>1, <3>1, MaintenanceTables, Zenon DEF DeadRoutes, SameRoute
    <3>3. ExpiredTable[d] = forwarding_table_[d]
      <4>1. ExpiredTable[d].last_updated # clock
        BY <1>1, <3>2 DEF RouterIInv, TypeOK
      <4> QED BY <1>1, <3>2, <4>1, MaintenanceTables, Zenon
    <3>4. /\ trigger_pending_
          /\ trigger_deadline_ <= forwarding_table_[d].last_updated + TRIGGER_DEBOUNCE
      BY <1>1, Zenon DEF RouterIInv, ChangeIsScheduled
    <3>5. TriggerDue
      <4>1. forwarding_table_[d].last_updated \in Nat
        BY <1>1, Zenon DEF RouterIInv, TypeOK, IsForwardingTable, RouteEntry
      <4> QED BY <1>1, <3>2, <3>3, <3>4, <4>1, HoldAssumption DEF RouterIInv, TypeOK, TriggerDue
    <3> DEFINE m == [to |-> n, costs |-> TriggeredUpdate(ExpiredTable, n)]
    <3>6. d \in RoutesToSend(ExpiredTable)
      BY <3>2, <3>3, Zenon DEF RoutesToSend
    <3>7. n \in DOMAIN LiveViews /\ m \in outgoing'
      BY <2>1, <3>5, <3>6, Zenon DEF Maintenance, Triggered
    <3>8. m.to = n /\ d \in DOMAIN m.costs /\ m.costs[d] >= INF_COST
      <4>1. CostFor(ExpiredTable, n, d) >= INF_COST
        BY <3>2, CostAssumption DEF CostFor
      <4> QED BY <3>6, <4>1, Zenon DEF TriggeredUpdate
    <3> QED BY <3>7, <3>8, Zenon
  <2>2. CASE ~Maintenance
    <3>1. \A vs, order : DOMAIN forwarding_table_ \subseteq
             DOMAIN Recalculated(Self, vs, order, forwarding_table_, clock)
      BY RecalculatedEntries, Zenon
    <3>2. DOMAIN forwarding_table_ \subseteq DOMAIN forwarding_table_'
      BY <1>1, <2>2, <3>1, Zenon
      DEF Next, PeerConnected, PeerDisconnected, RoutingUpdate, DataPacket, Recalculate, Tick
    <3> QED BY <3>2, Zenon
  <2> QED BY <2>1, <2>2, Zenon
<1>2. RouterIInv /\ [Next]_vars => [Announced]_vars
  BY <1>1, Zenon
<1>3. Spec => []RouterIInv
  BY RouterInitIInv, RouterNextIInv, PTL DEF Spec
<1> QED BY <1>2, <1>3, PTL DEF Spec, DeadRouteAnnounced

\* A pending trigger keeps its deadline until it is sent.
THEOREM RouterDebounce == Spec => DebounceNotExtended
<1>1. ASSUME Next, trigger_pending_, trigger_pending_' PROVE trigger_deadline_' = trigger_deadline_
  BY <1>1, Zenon DEF Next, PeerConnected, PeerDisconnected, RoutingUpdate, DataPacket, Recalculate,
              Maintenance, Tick
<1>2. [Next]_vars => [trigger_pending_ /\ trigger_pending_' => trigger_deadline_' = trigger_deadline_]_vars
  BY <1>1, Zenon
<1> QED BY <1>2, PTL DEF Spec, DebounceNotExtended

-----------------------------------------------------------------------------
(* The network: RouterNetwork.                                             *)

Costs == UNION {[D -> 0..INF_COST] : D \in SUBSET Node}

Event == {Connected} \cup {Update(id, costs) : id \in Node, costs \in Costs}

\* The event tells what m offers for Dest.
Offer(m, e) == e.type = "update" /\ e.from = m /\ Dest \in DOMAIN e.costs

\* What a node with events q from m to process, and views vs, holds of m when
\* it has processed them, is nothing or in S.
Held(q, vs, m, S) ==
    /\ \A i \in 1..Len(q) :
          Offer(m, q[i]) /\ (\A j \in 1..Len(q) : j > i => ~Offer(m, q[j])) => q[i].costs[Dest] \in S
    /\ (\A i \in 1..Len(q) : ~Offer(m, q[i])) /\ m \in DOMAIN vs => vs[m].advertised_routes[Dest] \in S

Announced(m) == Dest \in DOMAIN table[m] => ~table[m][Dest].dirty

\* Updates of m do not reach n, or not under m's id.
Unheard(m, n) == n \notin DOMAIN views[m] \/ <<m, n>> \notin registered \/ <<n, m>> \notin identified

\* Once n has processed what is on its way, it holds what m says or nothing;
\* nothing, if it could not hear m since the connection came back.
OffersAreCurrent ==
    \A m, n \in Router : {m, n} \in up /\ <<m, n>> \notin early =>
        /\ Announced(m) => Held(queue[m][n], views[n], m, {INF_COST, Says(m, n)})
        /\ Unheard(m, n) => Held(queue[m][n], views[n], m, {INF_COST})

\* Events from m are about m, or anonymous.
EventsAreOf ==
    \A m, n \in Router : \A i \in 1..Len(queue[m][n]) :
        queue[m][n][i].type = "update" => queue[m][n][i].from \in {m, NoId}

BestToDest == \A n \in Router \ {Dest} : IsBestTo(Dest, views[n], table[n])

NetworkTyped ==
    /\ up \subseteq Links
    /\ registered \subseteq identified /\ identified \subseteq Channels
    /\ changes \in 0..MaxLinkChanges
    /\ early \subseteq Channels
    /\ DOMAIN views = Router /\ DOMAIN table = Router
    /\ \A n \in Router : IsNeighborViews(views[n]) /\ IsForwardingTable(table[n])
    /\ queue \in [Router -> [Router -> Seq(Event)]]

NetworkIInv == NetworkTyped /\ EventsAreOf /\ BestToDest /\ OffersAreCurrent

\* What events are.
LEMMA EventIs ==
    ASSUME NEW e \in Event
    PROVE  \/ e.type = "connected"
           \/ /\ e.type = "update" /\ e.from \in Node /\ IsRouteCosts(e.costs)
              /\ \A d \in DOMAIN e.costs : e.costs[d] \in 0..INF_COST
<1>1. CASE e = Connected
  BY <1>1, Zenon DEF Connected
<1>2. CASE e # Connected
  <2>1. PICK id \in Node, costs \in Costs : e = Update(id, costs)
    BY <1>2 DEF Event
  <2>2. e.type = "update" /\ e.from = id /\ e.costs = costs
    BY <2>1, Zenon DEF Update
  <2>3. PICK D \in SUBSET Node : costs \in [D -> 0..INF_COST]
    BY Zenon DEF Costs
  <2>4. DOMAIN costs \subseteq Node /\ costs \in [DOMAIN costs -> Nat] /\ \A d \in DOMAIN costs : costs[d] \in 0..INF_COST
    BY <2>3, CostAssumption
  <2> QED
    BY <2>2, <2>4, Zenon DEF IsRouteCosts
<1> QED
  BY <1>1, <1>2, Zenon

\* The updates of send_triggered_updates and broadcast_full_table are events.
LEMMA UpdateIsEvent ==
    ASSUME NEW t, IsForwardingTable(t), NEW n, NEW id \in Node
    PROVE  Update(id, TriggeredUpdate(t, n)) \in Event /\ Update(id, FullTable(t, n)) \in Event
<1>1. \A d \in DOMAIN t : CostFor(t, n, d) \in 0..INF_COST
  BY CostAssumption DEF CostFor, IsForwardingTable, RouteEntry
<1>2. TriggeredUpdate(t, n) \in [RoutesToSend(t) -> 0..INF_COST] /\ RoutesToSend(t) \in SUBSET Node
  BY <1>1, Zenon DEF TriggeredUpdate, RoutesToSend, IsForwardingTable
<1>3. FullTable(t, n) \in [DOMAIN t -> 0..INF_COST] /\ DOMAIN t \in SUBSET Node
  BY <1>1, Zenon DEF FullTable, IsForwardingTable
<1>4. TriggeredUpdate(t, n) \in Costs
  BY <1>2, Zenon DEF Costs
<1>5. FullTable(t, n) \in Costs
  BY <1>3, Zenon DEF Costs
<1> QED
  BY <1>4, <1>5 DEF Event

\* The more is allowed, the more is held.
LEMMA HeldMore ==
    ASSUME NEW q, NEW vs, NEW m, NEW S, NEW T, S \subseteq T, Held(q, vs, m, S)
    PROVE  Held(q, vs, m, T)
  BY Zenon DEF Held

\* A new event that is not an offer changes nothing.
LEMMA HeldOther ==
    ASSUME NEW q \in Seq(Event), NEW vs, NEW m, NEW S, Held(q, vs, m, S), NEW e \in Event, ~Offer(m, e)
    PROVE  Held(Append(q, e), vs, m, S)
<1> DEFINE r == Append(q, e)
<1>1. /\ Len(q) \in Nat /\ Len(r) = Len(q) + 1 /\ r[Len(q) + 1] = e
      /\ \A i \in 1..Len(q) : r[i] = q[i]
  OBVIOUS
<1> HIDE DEF r
<1>2. ASSUME NEW i \in 1..Len(r), Offer(m, r[i]), \A j \in 1..Len(r) : j > i => ~Offer(m, r[j])
      PROVE  r[i].costs[Dest] \in S
  <2>1. i \in 1..Len(q) /\ r[i] = q[i]
    BY <1>1, <1>2
  <2>2. \A j \in 1..Len(q) : j > i => ~Offer(m, q[j])
    BY <1>1, <1>2
  <2> QED
    BY <1>2, <2>1, <2>2, Zenon DEF Held
<1>3. ASSUME \A i \in 1..Len(r) : ~Offer(m, r[i]), m \in DOMAIN vs
      PROVE  vs[m].advertised_routes[Dest] \in S
  <2>1. \A i \in 1..Len(q) : ~Offer(m, q[i])
    BY <1>1, <1>3
  <2> QED
    BY <1>3, <2>1, Zenon DEF Held
<1> QED
  BY <1>2, <1>3, Zenon DEF Held, r

\* A new offer replaces all before.
LEMMA HeldOffer ==
    ASSUME NEW q \in Seq(Event), NEW vs, NEW m, NEW S, NEW e \in Event, Offer(m, e), e.costs[Dest] \in S
    PROVE  Held(Append(q, e), vs, m, S)
<1> DEFINE r == Append(q, e)
<1>1. /\ Len(q) \in Nat /\ Len(r) = Len(q) + 1 /\ r[Len(q) + 1] = e
  OBVIOUS
<1> HIDE DEF r
<1>2. Len(r) \in 1..Len(r) /\ Offer(m, r[Len(r)]) /\ r[Len(r)] = e
  BY <1>1
<1>3. ASSUME NEW i \in 1..Len(r), \A j \in 1..Len(r) : j > i => ~Offer(m, r[j])
      PROVE  i = Len(r)
  BY <1>1, <1>2, <1>3
<1> QED
  BY <1>2, <1>3, Zenon DEF Held, r

\* The views of a node after an event from m.
Heard(vs, m, e) ==
    IF e.type = "connected" THEN Touch(vs, m, 0) ELSE ApplyUpdate(vs, e.from, e.costs, 0)

\* Processing an event from m leaves what will be held of m, and what is held
\* of others.
LEMMA HeldReceive ==
    ASSUME NEW q \in Seq(Event), q # <<>>, NEW vs, IsNeighborViews(vs), NEW m \in Router,
           NEW S, INF_COST \in S, Held(q, vs, m, S),
           Head(q).type = "update" => Head(q).from \in {m, NoId}
    PROVE  Held(Tail(q), Heard(vs, m, Head(q)), m, S)
<1> DEFINE r == Tail(q)
           e == Head(q)
           new == Heard(vs, m, e)
<1>1. /\ Len(q) \in Nat \ {0} /\ Len(r) = Len(q) - 1 /\ q[1] = e
      /\ \A i \in 1..Len(r) : r[i] = q[i + 1]
  OBVIOUS
<1>2. e \in Event
  OBVIOUS
<1> HIDE DEF r, e
<1>3. ASSUME NEW i \in 1..Len(r), Offer(m, r[i]), \A j \in 1..Len(r) : j > i => ~Offer(m, r[j])
      PROVE  r[i].costs[Dest] \in S
  <2>1. i + 1 \in 1..Len(q) /\ r[i] = q[i + 1]
    BY <1>1
  <2>2. ASSUME NEW j \in 1..Len(q), j > i + 1 PROVE ~Offer(m, q[j])
    <3>1. j - 1 \in 1..Len(r) /\ j - 1 > i /\ (j - 1) + 1 = j
      BY <1>1, <2>2
    <3>2. r[j - 1] = q[j]
      BY <1>1, <3>1, Zenon
    <3> QED
      BY <1>3, <3>1, <3>2, Zenon
  <2> QED
    BY <1>3, <2>1, <2>2, Zenon DEF Held
<1>4. ASSUME \A i \in 1..Len(r) : ~Offer(m, r[i]), m \in DOMAIN new
      PROVE  new[m].advertised_routes[Dest] \in S
  <2> USE NetworkAssumption, CostAssumption DEF Router
  <2>1. \A j \in 1..Len(q) : j > 1 => ~Offer(m, q[j])
    <3> SUFFICES ASSUME NEW j \in 1..Len(q), j > 1 PROVE ~Offer(m, q[j])
      BY Zenon
    <3>1. j - 1 \in 1..Len(r) /\ (j - 1) + 1 = j
      BY <1>1
    <3>2. r[j - 1] = q[j]
      BY <1>1, <3>1, Zenon
    <3> QED
      BY <1>4, <3>1, <3>2, Zenon
  <2> DEFINE old == IF m \in DOMAIN vs THEN vs[m].advertised_routes ELSE NoRoutes
  <2>2. CASE Offer(m, e)
    <3>1. 1 \in 1..Len(q) /\ e.costs[Dest] \in S
      BY <1>1, <2>1, <2>2 DEF Held
    <3>2. e.costs[Dest] \in 0..INF_COST /\ e.type = "update" /\ e.from = m /\ Dest \in DOMAIN e.costs
      BY <1>2, <2>2, EventIs, Zenon DEF Offer
    <3>3. new[m].advertised_routes = Learn(old, e.costs)
      BY <3>2, Zenon DEF Heard, ApplyUpdate
    <3>4. Learn(old, e.costs)[Dest] = e.costs[Dest]
      BY <3>2 DEF Learn
    <3> QED
      BY <3>1, <3>3, <3>4, Zenon
  <2>3. CASE ~Offer(m, e)
    <3>1. \A j \in 1..Len(q) : ~Offer(m, q[j])
      BY <1>1, <2>1, <2>3
    <3>2. old[Dest] \in S
      BY <3>1, Zenon DEF Held, NoRoutes
    <3>3. CASE e.type = "connected"
      <4>1. new[m].advertised_routes = old
        BY <3>3, Zenon DEF Heard, Touch
      <4> QED
        BY <3>2, <4>1, Zenon
    <3>4. CASE e.type = "update" /\ e.from = m
      <4>1. new[m].advertised_routes = Learn(old, e.costs)
        BY <3>4, Zenon DEF Heard, ApplyUpdate
      <4>2. Learn(old, e.costs)[Dest] = old[Dest]
        BY <2>3, <3>4, Zenon DEF Learn, Offer
      <4> QED
        BY <3>2, <4>1, <4>2, Zenon
    <3>5. CASE e.type = "update" /\ e.from = NoId
      <4>1. m \in DOMAIN vs /\ new[m] = vs[m]
        BY <1>4, <3>5, Zenon DEF Heard, ApplyUpdate
      <4> QED
        BY <3>2, <4>1, Zenon
    <3>6. e.type = "connected" \/ (e.type = "update" /\ e.from \in {m, NoId})
      BY <1>2, EventIs, Zenon DEF e
    <3> QED
      BY <3>3, <3>4, <3>5, <3>6, Zenon
  <2> QED
    BY <2>2, <2>3, Zenon
<1> QED
  BY <1>3, <1>4, Zenon DEF Held, r, e

\* What an event from m leaves of the other neighbours, and that nobody goes.
LEMMA HeardOthers ==
    ASSUME NEW e \in Event, NEW vs, IsNeighborViews(vs), NEW m \in Router,
           e.type = "update" => e.from \in {m, NoId}
    PROVE  /\ IsNeighborViews(Heard(vs, m, e))
           /\ DOMAIN vs \subseteq DOMAIN Heard(vs, m, e)
           /\ \A k \in Router \ {m} : /\ k \in DOMAIN Heard(vs, m, e) <=> k \in DOMAIN vs
                                      /\ k \in DOMAIN vs => Heard(vs, m, e)[k] = vs[k]
<1> USE NetworkAssumption
<1>1. CASE e.type = "connected"
  <2>1. Heard(vs, m, e) = Touch(vs, m, 0)
    BY <1>1, Zenon DEF Heard
  <2>2. IsNeighborViews(Touch(vs, m, 0))
    BY ViewsType, Zenon DEF Router
  <2> QED
    BY <2>1, <2>2, Zenon DEF Touch, Router
<1>2. CASE e.type # "connected"
  <2>1. e.from \in {m, NoId} /\ IsRouteCosts(e.costs)
    BY <1>2, EventIs, Zenon
  <2>2. Heard(vs, m, e) = ApplyUpdate(vs, e.from, e.costs, 0)
    BY <1>2, Zenon DEF Heard
  <2>3. IsNeighborViews(ApplyUpdate(vs, e.from, e.costs, 0))
    BY <2>1, ViewsType, Zenon DEF Router
  <2> QED
    BY <2>1, <2>2, <2>3, Zenon DEF ApplyUpdate, Router
<1> QED
  BY <1>1, <1>2, Zenon

\* The entry for Dest after recalculate_forwarding_table_locked is the best,
\* and it is dirty or as it was.
LEMMA RecalcEntry ==
    ASSUME NEW n \in Router, NEW vs, IsNeighborViews(vs), NEW t, IsForwardingTable(t)
    PROVE  /\ IsForwardingTable(Recalc(n, vs, t))
           /\ n # Dest => IsBestTo(Dest, vs, Recalc(n, vs, t))
           /\ Dest \in DOMAIN t => Dest \in DOMAIN Recalc(n, vs, t)
           /\ Dest \in DOMAIN Recalc(n, vs, t) =>
                 \/ Dest \in DOMAIN t /\ Recalc(n, vs, t)[Dest] = t[Dest]
                 \/ Recalc(n, vs, t)[Dest].dirty
<1> USE NetworkAssumption
<1> DEFINE full == Recalculated(n, vs, Order, t, 0)
           new == Recalc(n, vs, t)
<1>1. n \in Node /\ Dest \in Node
  BY Zenon DEF Router
<1>2. IsForwardingTable(full) /\ IsBest(n, vs, full)
  BY <1>1, RecalculatedType, RecalculatedIsBest, Zenon
<1>3. /\ DOMAIN t \subseteq DOMAIN full
      /\ \A d \in DOMAIN full : \/ d \in DOMAIN t /\ full[d] = t[d]
                                \/ full[d].dirty /\ full[d].last_updated = 0
  BY RecalculatedEntries
<1>4. new = [d \in DOMAIN full \cap {Dest} |-> full[d]]
  BY Zenon DEF Recalc, ForDest
<1> HIDE DEF full, new
<1>5. /\ Dest \in DOMAIN new <=> Dest \in DOMAIN full
      /\ Dest \in DOMAIN full => new[Dest] = full[Dest]
  BY <1>4, Zenon
<1>6. IsForwardingTable(new)
  BY <1>2, <1>4, Zenon DEF IsForwardingTable
<1>7. n # Dest => IsBestTo(Dest, vs, new)
  BY <1>1, <1>2, <1>5, Zenon DEF IsBest, IsBestTo
<1> QED
  BY <1>3, <1>5, <1>6, <1>7, Zenon DEF new

\* The network starts with views that offer nothing.
LEMMA NetworkInitIInv == NetworkInit => NetworkIInv
<1> SUFFICES ASSUME NetworkInit PROVE NetworkIInv
  BY Zenon
<1> USE NetworkAssumption, CostAssumption
<1>1. \A n \in Router : IsNeighborViews(InitViews(n))
  BY DEF InitViews, IsNeighborViews, NeighborView, NoRoutes, Router
<1>2. IsForwardingTable(<<>>)
  BY DEF IsForwardingTable
<1>3. \A n \in Router : /\ IsForwardingTable(Recalc(n, InitViews(n), <<>>))
                        /\ n # Dest => IsBestTo(Dest, InitViews(n), Recalc(n, InitViews(n), <<>>))
  BY <1>1, <1>2, RecalcEntry, Zenon
<1>4. NetworkTyped
  <2>1. queue \in [Router -> [Router -> Seq(Event)]]
    BY DEF NetworkInit
  <2>2. /\ up \subseteq Links /\ registered \subseteq identified /\ identified \subseteq Channels
        /\ changes \in 0..MaxLinkChanges /\ early \subseteq Channels
    <3>1. up = Links /\ registered = Channels /\ identified = Channels /\ changes = 0 /\ early = {}
      BY Zenon DEF NetworkInit
    <3>2. changes \in 0..MaxLinkChanges
      BY <3>1
    <3> QED
      BY <3>1, <3>2, Zenon
  <2>3. /\ DOMAIN views = Router /\ DOMAIN table = Router
        /\ \A n \in Router : views[n] = InitViews(n) /\ table[n] = Recalc(n, InitViews(n), <<>>)
    BY Zenon DEF NetworkInit
  <2> QED
    BY <1>1, <1>3, <2>1, <2>2, <2>3, Zenon DEF NetworkTyped
<1>5. EventsAreOf
  BY DEF NetworkInit, EventsAreOf
<1>6. BestToDest
  BY <1>3, Zenon DEF NetworkInit, BestToDest
<1>7. OffersAreCurrent
  <2> SUFFICES ASSUME NEW m \in Router, NEW n \in Router, NEW S, INF_COST \in S
               PROVE  Held(queue[m][n], views[n], m, S)
    BY Zenon DEF OffersAreCurrent
  <2>1. queue[m][n] = <<>> /\ views[n] = InitViews(n)
    BY Zenon DEF NetworkInit
  <2>2. m \in DOMAIN InitViews(n) => InitViews(n)[m].advertised_routes[Dest] = INF_COST
    BY Zenon DEF InitViews, NoRoutes, Router
  <2> QED
    BY <2>1, <2>2 DEF Held
<1> QED
  BY <1>4, <1>5, <1>6, <1>7, Zenon DEF NetworkIInv

\* A node replaces its views and recalculates: what it will hold of the
\* others stays, and what it says changes only together with the dirty flag.
LEMMA SetViewsKeeps ==
    ASSUME NetworkIInv, NEW n \in Router, NEW vs, IsNeighborViews(vs), SetViews(n, vs),
           UNCHANGED <<up, identified, registered, changes, early>>,
           queue' \in [Router -> [Router -> Seq(Event)]], EventsAreOf',
           \A k, l \in Router : l # n => queue'[k][l] = queue[k][l],
           \A k \in Router : {k, n} \in up =>
               \A S : INF_COST \in S /\ Held(queue[k][n], views[n], k, S) => Held(queue'[k][n], vs, k, S),
           \A k \in Router : {n, k} \in up /\ k \in DOMAIN views[n] => k \in DOMAIN vs
    PROVE  NetworkIInv'
<1> DEFINE t == Recalc(n, vs, table[n])
<1>1. NetworkTyped /\ EventsAreOf /\ BestToDest /\ OffersAreCurrent
  BY Zenon DEF NetworkIInv
<1>2. /\ DOMAIN views' = Router /\ views'[n] = vs /\ \A k \in Router \ {n} : views'[k] = views[k]
      /\ DOMAIN table' = Router /\ table'[n] = t /\ \A k \in Router \ {n} : table'[k] = table[k]
  BY <1>1, Zenon DEF SetViews, NetworkTyped
<1>3. /\ IsForwardingTable(t)
      /\ n # Dest => IsBestTo(Dest, vs, t)
      /\ Dest \in DOMAIN table[n] => Dest \in DOMAIN t
      /\ Dest \in DOMAIN t => (Dest \in DOMAIN table[n] /\ t[Dest] = table[n][Dest]) \/ t[Dest].dirty
  BY <1>1, RecalcEntry, Zenon DEF NetworkTyped
<1> HIDE DEF t
<1>4. NetworkTyped'
  BY <1>1, <1>2, <1>3, Zenon DEF NetworkTyped
<1>5. BestToDest'
  BY <1>1, <1>2, <1>3, Zenon DEF BestToDest
<1>6. OffersAreCurrent'
  <2> SUFFICES ASSUME NEW k \in Router, NEW l \in Router, {k, l} \in up, <<k, l>> \notin early
               PROVE  /\ Announced(k)' => Held(queue'[k][l], views'[l], k, {INF_COST, Says(k, l)'})
                      /\ Unheard(k, l)' => Held(queue'[k][l], views'[l], k, {INF_COST})
    BY Zenon DEF OffersAreCurrent
  <2>1. \A S : INF_COST \in S /\ Held(queue[k][l], views[l], k, S) => Held(queue'[k][l], views'[l], k, S)
    BY <1>2, Zenon
  <2>2. Announced(k)' => Announced(k) /\ Says(k, l)' = Says(k, l)
    <3>1. CASE k = n
      BY <1>2, <1>3, <3>1, Zenon DEF Announced, Says, CostFor
    <3>2. CASE k # n
      BY <1>2, <3>2, Zenon DEF Announced, Says, CostFor
    <3> QED
      BY <3>1, <3>2, Zenon
  <2>3. Unheard(k, l)' => Unheard(k, l)
    <3>1. CASE k = n
      BY <1>2, <3>1, Zenon DEF Unheard
    <3>2. CASE k # n
      BY <1>2, <3>2, Zenon DEF Unheard
    <3> QED
      BY <3>1, <3>2, Zenon
  <2>4. Announced(k) => Held(queue[k][l], views[l], k, {INF_COST, Says(k, l)})
    BY <1>1, Zenon DEF OffersAreCurrent
  <2>5. Unheard(k, l) => Held(queue[k][l], views[l], k, {INF_COST})
    BY <1>1, Zenon DEF OffersAreCurrent
  <2> QED
    BY <2>1, <2>2, <2>3, <2>4, <2>5, Zenon
<1> QED
  BY <1>1, <1>4, <1>5, <1>6, Zenon DEF NetworkIInv

\* One event is taken from a queue.
LEMMA ReceiveNetwork ==
    ASSUME NetworkIInv, NEW m \in Router, NEW n \in Router, Receive(m, n)
    PROVE  NetworkIInv'
<1> DEFINE q == queue[m][n]
           vs == Heard(views[n], m, Head(q))
<1>1. NetworkTyped /\ EventsAreOf
  BY Zenon DEF NetworkIInv
<1>2. q \in Seq(Event) /\ q # <<>> /\ IsNeighborViews(views[n])
  BY <1>1, Zenon DEF Receive, Take, NetworkTyped
<1>3. queue' = [queue EXCEPT ![m][n] = Tail(q)] /\ SetViews(n, vs)
  BY Zenon DEF Receive, Take, Heard
<1>4. Head(q) \in Event /\ (Head(q).type = "update" => Head(q).from \in {m, NoId})
  BY <1>1, <1>2 DEF EventsAreOf
<1>5. /\ queue' \in [Router -> [Router -> Seq(Event)]] /\ queue'[m][n] = Tail(q)
      /\ \A k, l \in Router : k # m \/ l # n => queue'[k][l] = queue[k][l]
  BY <1>1, <1>2, <1>3 DEF NetworkTyped
<1>6. EventsAreOf'
  <2> SUFFICES ASSUME NEW k \in Router, NEW l \in Router, NEW i \in 1..Len(queue'[k][l]),
                      queue'[k][l][i].type = "update"
               PROVE  queue'[k][l][i].from \in {k, NoId}
    BY Zenon DEF EventsAreOf
  <2>1. CASE k = m /\ l = n
    <3>1. Len(Tail(q)) = Len(q) - 1 /\ Len(q) \in Nat /\ \A j \in 1..Len(Tail(q)) : Tail(q)[j] = q[j + 1]
      BY <1>2
    <3>2. i \in 1..Len(Tail(q)) /\ queue'[k][l][i] = Tail(q)[i]
      BY <1>5, <2>1, Zenon
    <3>3. i + 1 \in 1..Len(q) /\ queue'[k][l][i] = q[i + 1]
      BY <3>1, <3>2
    <3> QED
      BY <1>1, <2>1, <3>3 DEF EventsAreOf
  <2>2. CASE ~(k = m /\ l = n)
    BY <1>1, <1>5, <2>2, ZenonT(40) DEF EventsAreOf
  <2> QED
    BY <2>1, <2>2, Zenon
<1>7. /\ IsNeighborViews(vs)
      /\ DOMAIN views[n] \subseteq DOMAIN vs
      /\ \A k \in Router \ {m} : /\ k \in DOMAIN vs <=> k \in DOMAIN views[n]
                                 /\ k \in DOMAIN views[n] => vs[k] = views[n][k]
  BY <1>2, <1>4, HeardOthers, SMTT(30)
<1>8. \A S : INF_COST \in S /\ Held(q, views[n], m, S) => Held(Tail(q), vs, m, S)
  BY <1>2, <1>4, HeldReceive, Zenon
<1> HIDE DEF vs, q
<1>9. ASSUME NEW k \in Router, NEW S, INF_COST \in S, Held(queue[k][n], views[n], k, S)
      PROVE  Held(queue'[k][n], vs, k, S)
  <2>1. CASE k = m
    BY <1>5, <1>8, <1>9, <2>1, Zenon DEF q
  <2>2. CASE k # m
    BY <1>5, <1>7, <1>9, <2>2, Zenon DEF Held
  <2> QED
    BY <2>1, <2>2, Zenon
<1>10. UNCHANGED <<up, identified, registered, changes, early>>
  BY Zenon DEF Receive
<1> QED
  BY <1>3, <1>5, <1>6, <1>7, <1>9, <1>10, SetViewsKeeps, Zenon

\* A neighbour expires, which is not connected any more or has no id.
LEMMA ExpireNetwork ==
    ASSUME NetworkIInv, NEW n \in Router, NEW m \in Node, Expire(n, m)
    PROVE  NetworkIInv'
<1> DEFINE vs == Erase(views[n], {m})
<1>1. NetworkTyped /\ EventsAreOf
  BY Zenon DEF NetworkIInv
<1>2. UNCHANGED <<up, identified, registered, changes, queue, early>> /\ SetViews(n, vs)
  BY <1>1, Zenon DEF Expire, DropView, SetViews, NetworkTyped
<1>3. IsNeighborViews(vs)
  BY <1>1, ViewsType, Zenon DEF NetworkTyped
<1>4. \A k \in Router : {k, n} \in up => k # m
  BY NetworkAssumption, Zenon DEF Expire, DropView, Router
<1>5. \A k \in Router : k # m => /\ k \in DOMAIN vs <=> k \in DOMAIN views[n]
                                 /\ k \in DOMAIN vs => vs[k] = views[n][k]
  BY Zenon DEF Erase
<1> HIDE DEF vs
<1>6. ASSUME NEW k \in Router, {k, n} \in up, NEW S, Held(queue[k][n], views[n], k, S)
      PROVE  Held(queue'[k][n], vs, k, S)
  BY <1>2, <1>4, <1>5, <1>6, Zenon DEF Held
<1>7. \A k \in Router : {n, k} \in up /\ k \in DOMAIN views[n] => k \in DOMAIN vs
  <2>1. \A k : {n, k} = {k, n}
    BY Zenon
  <2> QED
    BY <1>4, <1>5, <2>1, Zenon
<1>8. queue' \in [Router -> [Router -> Seq(Event)]] /\ EventsAreOf'
  BY <1>1, <1>2, Zenon DEF NetworkTyped, EventsAreOf
<1> QED
  BY <1>2, <1>3, <1>6, <1>7, <1>8, SetViewsKeeps, Zenon

\* A node sends what it says to its receivers, and possibly clears its flag.
LEMMA SendKeeps ==
    ASSUME NetworkIInv, NEW n \in Router, NEW costs, Send(n, costs),
           UNCHANGED <<up, identified, registered, changes, views>>,
           \A m \in Receivers(n) :
               /\ \A id \in Node : Update(id, costs[m]) \in Event
               /\ Dest \in DOMAIN costs[m] /\ costs[m][Dest] = Says(n, m),
           DOMAIN table' = Router,
           \A k \in Router : IsForwardingTable(table'[k]) /\ (k # n => table'[k] = table[k]),
           Dest \in DOMAIN table[n] /\ Dest \in DOMAIN table'[n] /\ SameRoute(table'[n][Dest], table[n][Dest])
    PROVE  NetworkIInv'
<1> USE NetworkAssumption
<1>1. NetworkTyped /\ EventsAreOf /\ BestToDest /\ OffersAreCurrent
  BY Zenon DEF NetworkIInv
<1>2. /\ queue \in [Router -> [Router -> Seq(Event)]]
      /\ early' = early \ {<<n, m>> : m \in {x \in Receivers(n) : RemotePeerId(x, n) = n}}
      /\ queue' = [queue EXCEPT ![n] = [m \in Router |->
            IF m \in Receivers(n) THEN Append(queue[n][m], Update(RemotePeerId(m, n), costs[m])) ELSE queue[n][m]]]
  BY <1>1, Zenon DEF Send, NetworkTyped
<1>3. \A k, l \in Router : k # n => queue'[k][l] = queue[k][l]
  BY <1>2, Zenon
<1>4. \A l \in Router : queue'[n][l] =
          IF l \in Receivers(n) THEN Append(queue[n][l], Update(RemotePeerId(l, n), costs[l])) ELSE queue[n][l]
  BY <1>2, Zenon
<1>5. \A l : RemotePeerId(l, n) \in {n, NoId} /\ RemotePeerId(l, n) \in Node
  BY Zenon DEF RemotePeerId, Router
<1>6. \A l \in Receivers(n) : Update(RemotePeerId(l, n), costs[l]) \in Event
  BY <1>5, Zenon
<1>7. queue' \in [Router -> [Router -> Seq(Event)]]
  <2> DEFINE row == [m \in Router |->
          IF m \in Receivers(n) THEN Append(queue[n][m], Update(RemotePeerId(m, n), costs[m])) ELSE queue[n][m]]
  <2>1. row \in [Router -> Seq(Event)]
    <3> SUFFICES ASSUME NEW m \in Router
                 PROVE  (IF m \in Receivers(n) THEN Append(queue[n][m], Update(RemotePeerId(m, n), costs[m]))
                                               ELSE queue[n][m]) \in Seq(Event)
      BY Zenon
    <3> QED
      BY <1>2, <1>6
  <2> HIDE DEF row
  <2>2. queue' = [queue EXCEPT ![n] = row]
    BY <1>2, Zenon DEF row
  <2>3. queue \in [Router -> [Router -> Seq(Event)]]
    BY <1>2, Zenon
  <2> QED
    BY <2>1, <2>2, <2>3, Zenon
<1>8. NetworkTyped'
  BY <1>1, <1>2, <1>7, Zenon DEF NetworkTyped
<1>9. EventsAreOf'
  <2> SUFFICES ASSUME NEW k \in Router, NEW l \in Router, NEW i \in 1..Len(queue'[k][l]),
                      queue'[k][l][i].type = "update"
               PROVE  queue'[k][l][i].from \in {k, NoId}
    BY Zenon DEF EventsAreOf
  <2>1. CASE k = n /\ l \in Receivers(n)
    <3> DEFINE e == Update(RemotePeerId(l, n), costs[l])
    <3>1. queue'[k][l] = Append(queue[n][l], e) /\ queue[n][l] \in Seq(Event)
      BY <1>2, <1>4, <2>1, Zenon
    <3>2. e.from \in {k, NoId}
      BY <1>5, <2>1, Zenon DEF Update
    <3> HIDE DEF e
    <3>3. CASE i \in 1..Len(queue[n][l])
      BY <1>1, <2>1, <3>1, <3>3 DEF EventsAreOf
    <3>4. CASE i \notin 1..Len(queue[n][l])
      <4>1. queue'[k][l][i] = e
        BY <3>1, <3>4, SMTT(30)
      <4> QED
        BY <3>2, <4>1, Zenon
    <3> QED
      BY <3>3, <3>4, Zenon
  <2>2. CASE ~(k = n /\ l \in Receivers(n))
    <3>1. queue'[k][l] = queue[k][l]
      BY <1>3, <1>4, <2>2, Zenon
    <3> QED
      BY <1>1, <3>1, Zenon DEF EventsAreOf
  <2> QED
    BY <2>1, <2>2, Zenon
<1>10. BestToDest'
  <2> SUFFICES ASSUME NEW k \in Router \ {Dest} PROVE IsBestTo(Dest, views[k], table'[k])
    BY Zenon DEF BestToDest
  <2>1. Dest \in Node /\ IsNeighborViews(views[k]) /\ IsBestTo(Dest, views[k], table[k])
    BY <1>1, Zenon DEF BestToDest, NetworkTyped, Router
  <2>2. CASE k = n
    BY <2>1, <2>2, BestIsStable, Zenon
  <2>3. CASE k # n
    BY <2>1, <2>3, Zenon
  <2> QED
    BY <2>2, <2>3, Zenon
<1>11. \A k, l \in Router : Says(k, l)' = Says(k, l)
  BY Zenon DEF Says, CostFor, SameRoute
<1>12. \A k, l \in Router : Unheard(k, l)' <=> Unheard(k, l)
  BY Zenon DEF Unheard
<1>13. OffersAreCurrent'
  <2> SUFFICES ASSUME NEW k \in Router, NEW l \in Router, {k, l} \in up, <<k, l>> \notin early'
               PROVE  /\ Announced(k)' => Held(queue'[k][l], views[l], k, {INF_COST, Says(k, l)})
                      /\ Unheard(k, l) => Held(queue'[k][l], views[l], k, {INF_COST})
    BY <1>11, <1>12, ZenonT(40) DEF OffersAreCurrent
  <2>1. <<k, l>> \notin early =>
            /\ Announced(k) => Held(queue[k][l], views[l], k, {INF_COST, Says(k, l)})
            /\ Unheard(k, l) => Held(queue[k][l], views[l], k, {INF_COST})
    BY <1>1, Zenon DEF OffersAreCurrent
  <2>2. CASE k # n
    <3>1. queue'[k][l] = queue[k][l] /\ (Announced(k)' => Announced(k)) /\ <<k, l>> \notin early
      BY <1>2, <1>3, <2>2, Zenon DEF Announced
    <3> QED
      BY <2>1, <3>1, Zenon
  <2>3. CASE k = n /\ l \notin Receivers(n)
    <3>1. queue'[k][l] = queue[k][l] /\ Unheard(k, l) /\ <<k, l>> \notin early
      <4>1. {l, k} = {k, l}
        BY Zenon
      <4>2. queue'[k][l] = queue[k][l] /\ Unheard(k, l)
        BY <1>4, <2>3, <4>1, Zenon DEF Receivers, Unheard
      <4>3. \A x \in Receivers(n) : <<k, l>> # <<n, x>>
        BY <2>3
      <4> QED
        BY <1>2, <4>2, <4>3, Zenon
    <3>2. Held(queue[k][l], views[l], k, {INF_COST, Says(k, l)})
      BY <2>1, <3>1, HeldMore, Zenon
    <3> QED
      BY <2>1, <3>1, <3>2, Zenon
  <2>4. CASE k = n /\ l \in Receivers(n)
    <3> DEFINE e == Update(RemotePeerId(l, n), costs[l])
    <3>1. /\ queue'[k][l] = Append(queue[k][l], e) /\ queue[k][l] \in Seq(Event) /\ e \in Event
          /\ e.type = "update" /\ e.from = RemotePeerId(l, n) /\ e.costs = costs[l]
      BY <1>2, <1>4, <1>6, <2>4, Zenon DEF Update
    <3> HIDE DEF e
    <3>2. CASE <<l, n>> \in identified
      <4>1. Offer(k, e) /\ e.costs[Dest] = Says(k, l)
        BY <2>4, <3>1, <3>2, Zenon DEF Offer, RemotePeerId
      <4>2. Held(queue'[k][l], views[l], k, {INF_COST, Says(k, l)})
        <5>1. \A S : e.costs[Dest] \in S => Held(Append(queue[k][l], e), views[l], k, S)
          BY <3>1, <4>1, HeldOffer, Zenon
        <5> QED
          BY <3>1, <4>1, <5>1, Zenon
      <4>3. ~Unheard(k, l)
        BY <2>4, <3>2, Zenon DEF Unheard, Receivers
      <4> QED
        BY <4>2, <4>3, Zenon
    <3>3. CASE <<l, n>> \notin identified
      <4>1. Unheard(k, l) /\ ~Offer(k, e) /\ <<k, l>> \notin early
        BY <1>2, <2>4, <3>1, <3>3, Zenon DEF Unheard, Offer, RemotePeerId, Router
      <4>2. Held(queue'[k][l], views[l], k, {INF_COST})
        BY <2>1, <3>1, <4>1, HeldOther, Zenon
      <4>3. Held(queue'[k][l], views[l], k, {INF_COST, Says(k, l)})
        BY <4>2, HeldMore, Zenon
      <4> QED
        BY <4>2, <4>3, Zenon
    <3> QED
      BY <3>2, <3>3, Zenon
  <2> QED
    BY <2>2, <2>3, <2>4, Zenon
<1> QED
  BY <1>8, <1>9, <1>10, <1>13, Zenon DEF NetworkIInv

\* The triggered update announces what is dirty.
LEMMA SendTriggeredNetwork ==
    ASSUME NetworkIInv, NEW n \in Router, SendTriggered(n)
    PROVE  NetworkIInv'
<1> USE NetworkAssumption
<1> DEFINE costs == [m \in DOMAIN views[n] |-> TriggeredUpdate(table[n], m)]
<1>1. NetworkTyped /\ IsForwardingTable(table[n])
  BY Zenon DEF NetworkIInv, NetworkTyped
<1>2. /\ Dest \in DOMAIN table[n] /\ table[n][Dest].dirty /\ Send(n, costs)
      /\ table' = [table EXCEPT ![n] = Cleared(table[n])]
      /\ UNCHANGED <<up, identified, registered, changes, views>>
  BY Zenon DEF SendTriggered, ClearDirty
<1>3. /\ IsForwardingTable(Cleared(table[n])) /\ Dest \in DOMAIN Cleared(table[n])
      /\ SameRoute(Cleared(table[n])[Dest], table[n][Dest])
  BY <1>1, <1>2, ClearedEntries, Zenon
<1>4. /\ DOMAIN table' = Router /\ table'[n] = Cleared(table[n])
      /\ \A k \in Router : IsForwardingTable(table'[k]) /\ (k # n => table'[k] = table[k])
  BY <1>1, <1>2, <1>3, Zenon DEF NetworkTyped
<1>5. ASSUME NEW m \in Receivers(n)
      PROVE  /\ \A id \in Node : Update(id, costs[m]) \in Event
             /\ Dest \in DOMAIN costs[m] /\ costs[m][Dest] = Says(n, m)
  <2>1. costs[m] = TriggeredUpdate(table[n], m)
    BY Zenon DEF Receivers
  <2> HIDE DEF costs
  <2>2. \A id \in Node : Update(id, costs[m]) \in Event
    BY <1>1, <2>1, UpdateIsEvent, Zenon
  <2>3. Dest \in DOMAIN costs[m] /\ costs[m][Dest] = Says(n, m)
    BY <1>2, <2>1, Zenon DEF TriggeredUpdate, RoutesToSend, Says
  <2> QED
    BY <2>2, <2>3, Zenon
<1> HIDE DEF costs
<1> QED
  BY <1>2, <1>3, <1>4, <1>5, SendKeeps, Zenon

\* The full table repeats what has been announced.
LEMMA SendFullNetwork ==
    ASSUME NetworkIInv, NEW n \in Router, SendFull(n)
    PROVE  NetworkIInv'
<1> DEFINE costs == [m \in DOMAIN views[n] |-> FullTable(table[n], m)]
<1>1. NetworkTyped /\ IsForwardingTable(table[n])
  BY Zenon DEF NetworkIInv, NetworkTyped
<1>2. /\ Dest \in DOMAIN table[n] /\ Send(n, costs) /\ table' = table
      /\ UNCHANGED <<up, identified, registered, changes, views>>
  BY Zenon DEF SendFull
<1>3. /\ DOMAIN table' = Router
      /\ \A k \in Router : IsForwardingTable(table'[k]) /\ (k # n => table'[k] = table[k])
      /\ SameRoute(table'[n][Dest], table[n][Dest])
  BY <1>1, <1>2, Zenon DEF NetworkTyped, SameRoute
<1>4. ASSUME NEW m \in Receivers(n)
      PROVE  /\ \A id \in Node : Update(id, costs[m]) \in Event
             /\ Dest \in DOMAIN costs[m] /\ costs[m][Dest] = Says(n, m)
  <2>1. costs[m] = FullTable(table[n], m)
    BY Zenon DEF Receivers
  <2> HIDE DEF costs
  <2>2. \A id \in Node : Update(id, costs[m]) \in Event
    BY <1>1, <2>1, UpdateIsEvent, Zenon
  <2>3. Dest \in DOMAIN costs[m] /\ costs[m][Dest] = Says(n, m)
    BY <1>2, <2>1, Zenon DEF FullTable, Says
  <2> QED
    BY <2>2, <2>3, Zenon
<1> HIDE DEF costs
<1> QED
  BY <1>2, <1>3, <1>4, SendKeeps, Zenon

\* Without its entry a node says what it said of the dead route.
LEMMA ForgetDeadNetwork ==
    ASSUME NetworkIInv, NEW n \in Router, ForgetDead(n)
    PROVE  NetworkIInv'
<1> USE NetworkAssumption, CostAssumption
<1> DEFINE t == Erase(table[n], {Dest})
<1>1. NetworkTyped /\ EventsAreOf /\ BestToDest /\ OffersAreCurrent /\ IsForwardingTable(table[n])
  BY Zenon DEF NetworkIInv, NetworkTyped
<1>2. /\ Dest \in DOMAIN table[n] /\ table[n][Dest].cost >= INF_COST /\ ~table[n][Dest].dirty
      /\ table' = [table EXCEPT ![n] = t]
      /\ UNCHANGED <<up, identified, registered, changes, views, queue, early>>
  BY Zenon DEF ForgetDead
<1>3. IsForwardingTable(t) /\ Dest \notin DOMAIN t
  BY <1>1, Zenon DEF IsForwardingTable, Erase
<1> HIDE DEF t
<1>4. /\ DOMAIN table' = Router /\ table'[n] = t
      /\ \A k \in Router : IsForwardingTable(table'[k]) /\ (k # n => table'[k] = table[k])
  BY <1>1, <1>2, <1>3, Zenon DEF NetworkTyped
<1>5. NetworkTyped' /\ EventsAreOf'
  BY <1>1, <1>2, <1>4, Zenon DEF NetworkTyped, EventsAreOf
<1>6. BestToDest'
  <2> SUFFICES ASSUME NEW k \in Router \ {Dest} PROVE IsBestTo(Dest, views[k], table'[k])
    BY <1>2, Zenon DEF BestToDest
  <2>1. Dest \in Node /\ IsNeighborViews(views[k]) /\ IsBestTo(Dest, views[k], table[k])
    BY <1>1, Zenon DEF BestToDest, NetworkTyped, Router
  <2>2. CASE k = n
    BY <1>2, <1>3, <1>4, <2>1, <2>2, BestIsStable, Zenon
  <2>3. CASE k # n
    BY <1>4, <2>1, <2>3, Zenon
  <2> QED
    BY <2>2, <2>3, Zenon
<1>7. ASSUME NEW k \in Router, NEW l \in Router
      PROVE  Says(k, l)' = Says(k, l) /\ (Announced(k)' => Announced(k))
  <2>1. CASE k = n
    <3>1. table[n][Dest].cost = INF_COST
      BY <1>1, <1>2 DEF IsForwardingTable, RouteEntry
    <3> QED
      BY <1>2, <1>3, <1>4, <2>1, <3>1, Zenon DEF Says, CostFor, Announced
  <2>2. CASE k # n
    BY <1>4, <2>2, Zenon DEF Says, CostFor, Announced
  <2> QED
    BY <2>1, <2>2, Zenon
<1>8. \A k, l \in Router : Unheard(k, l)' <=> Unheard(k, l)
  BY <1>2, Zenon DEF Unheard
<1>9. OffersAreCurrent'
  BY <1>1, <1>2, <1>7, <1>8, Zenon DEF OffersAreCurrent
<1> QED
  BY <1>5, <1>6, <1>9, Zenon DEF NetworkIInv

\* The tables stay, and so does what the nodes say.
LEMMA SameTables ==
    ASSUME NetworkIInv, UNCHANGED <<views, table>>
    PROVE  /\ BestToDest'
           /\ \A k, l \in Router : Says(k, l)' = Says(k, l) /\ (Announced(k)' <=> Announced(k))
<1>1. BestToDest'
  BY Zenon DEF NetworkIInv, BestToDest
<1>2. \A k, l \in Router : Says(k, l)' = Says(k, l) /\ (Announced(k)' <=> Announced(k))
  BY Zenon DEF Says, CostFor, Announced
<1> QED
  BY <1>1, <1>2, Zenon

\* A broken connection holds nobody to anything.
LEMMA LinkDownNetwork ==
    ASSUME NetworkIInv, NEW m \in Router, NEW n \in Router, m # n, LinkDown(m, n)
    PROVE  NetworkIInv'
<1>1. NetworkTyped /\ EventsAreOf /\ OffersAreCurrent /\ queue \in [Router -> [Router -> Seq(Event)]]
  BY Zenon DEF NetworkIInv, NetworkTyped
<1>2. PICK i \in 0..Len(queue[m][n]), j \in 0..Len(queue[n][m]) :
          queue' = [queue EXCEPT ![m][n] = SubSeq(@, 1, i), ![n][m] = SubSeq(@, 1, j)]
  BY Zenon DEF LinkDown
<1>3. /\ up' = up \ {{m, n}} /\ changes < MaxLinkChanges /\ changes' = changes + 1
      /\ identified' = identified \ {<<m, n>>, <<n, m>>} /\ registered' = registered \ {<<m, n>>, <<n, m>>}
      /\ early' = early \ {<<m, n>>, <<n, m>>} /\ UNCHANGED <<views, table>>
  BY Zenon DEF LinkDown
<1> DEFINE p == SubSeq(queue[m][n], 1, i)
           q == SubSeq(queue[n][m], 1, j)
<1>4. /\ p \in Seq(Event) /\ Len(p) = i /\ \A x \in 1..i : p[x] = queue[m][n][x]
      /\ q \in Seq(Event) /\ Len(q) = j /\ \A x \in 1..j : q[x] = queue[n][m][x]
  <2>1. ASSUME NEW s \in Seq(Event), NEW z \in 0..Len(s)
        PROVE  SubSeq(s, 1, z) \in Seq(Event) /\ Len(SubSeq(s, 1, z)) = z /\ \A x \in 1..z : SubSeq(s, 1, z)[x] = s[x]
    OBVIOUS
  <2>2. queue[m][n] \in Seq(Event) /\ queue[n][m] \in Seq(Event)
    BY <1>1, Zenon
  <2> QED
    BY <2>1, <2>2, Zenon
<1>5. queue' = [queue EXCEPT ![m][n] = p, ![n][m] = q]
  BY <1>1, <1>2, Zenon
<1> HIDE DEF p, q
<1>6. /\ queue' \in [Router -> [Router -> Seq(Event)]]
      /\ queue'[m][n] = p /\ queue'[n][m] = q
      /\ \A k, l \in Router : <<k, l>> \notin {<<m, n>>, <<n, m>>} => queue'[k][l] = queue[k][l]
  BY <1>1, <1>4, <1>5, Zenon
<1>7. NetworkTyped'
  <2>1. changes' \in 0..MaxLinkChanges
    BY <1>1, <1>3, NetworkAssumption DEF NetworkTyped
  <2> QED
    BY <1>1, <1>3, <1>6, <2>1, Zenon DEF NetworkTyped
<1>8. EventsAreOf'
  <2> SUFFICES ASSUME NEW k \in Router, NEW l \in Router, NEW x \in 1..Len(queue'[k][l]),
                      queue'[k][l][x].type = "update"
               PROVE  queue'[k][l][x].from \in {k, NoId}
    BY Zenon DEF EventsAreOf
  <2>1. x \in 1..Len(queue[k][l]) /\ queue'[k][l][x] = queue[k][l][x]
    <3>1. CASE <<k, l>> = <<m, n>>
      BY <1>1, <1>4, <1>6, <3>1
    <3>2. CASE <<k, l>> = <<n, m>>
      BY <1>1, <1>4, <1>6, <3>2
    <3>3. CASE <<k, l>> \notin {<<m, n>>, <<n, m>>}
      BY <1>6, <3>3, Zenon
    <3> QED
      BY <3>1, <3>2, <3>3, Zenon
  <2> QED
    BY <1>1, <2>1, Zenon DEF EventsAreOf
<1>9. OffersAreCurrent'
  <2> SUFFICES ASSUME NEW k \in Router, NEW l \in Router, {k, l} \in up, {k, l} # {m, n}, <<k, l>> \notin early'
               PROVE  /\ Announced(k)' => Held(queue'[k][l], views[l], k, {INF_COST, Says(k, l)'})
                      /\ Unheard(k, l)' => Held(queue'[k][l], views[l], k, {INF_COST})
    BY <1>3, Zenon DEF OffersAreCurrent
  <2>1. <<k, l>> \notin {<<m, n>>, <<n, m>>} /\ <<l, k>> \notin {<<m, n>>, <<n, m>>}
    BY Zenon
  <2>2. queue'[k][l] = queue[k][l] /\ <<k, l>> \notin early
    BY <1>3, <1>6, <2>1, Zenon
  <2>3. Unheard(k, l)' => Unheard(k, l)
    BY <1>3, <2>1, Zenon DEF Unheard
  <2>4. Says(k, l)' = Says(k, l) /\ (Announced(k)' <=> Announced(k))
    BY <1>3, SameTables, Zenon
  <2> QED
    BY <1>1, <2>2, <2>3, <2>4, Zenon DEF OffersAreCurrent
<1> QED
  BY <1>3, <1>7, <1>8, <1>9, SameTables, Zenon DEF NetworkIInv

\* The ends of a connection that comes back hold nothing of each other, or it
\* is early.
LEMMA LinkUpNetwork ==
    ASSUME NetworkIInv, NEW m \in Router, NEW n \in Router, {<<m, n>>, <<n, m>>} \subseteq Channels, LinkUp(m, n)
    PROVE  NetworkIInv'
<1>1. NetworkTyped /\ EventsAreOf /\ OffersAreCurrent
  BY Zenon DEF NetworkIInv
<1>2. /\ {m, n} \in Breakable /\ up' = up \cup {{m, n}} /\ changes < MaxLinkChanges /\ changes' = changes + 1
      /\ UNCHANGED <<identified, registered, views, table, queue>>
      /\ early' = early \cup {c \in {<<m, n>>, <<n, m>>} : ~Forgotten(c[1], c[2])}
  BY Zenon DEF LinkUp
<1>3. NetworkTyped'
  <2>1. changes' \in 0..MaxLinkChanges
    BY <1>1, <1>2, NetworkAssumption DEF NetworkTyped
  <2>2. early' \subseteq Channels
    BY <1>1, <1>2, Zenon DEF NetworkTyped
  <2>3. up' \subseteq Links
    BY <1>1, <1>2, NetworkAssumption, Zenon DEF NetworkTyped
  <2> QED
    BY <1>1, <1>2, <2>1, <2>2, <2>3, Zenon DEF NetworkTyped
<1>4. EventsAreOf'
  BY <1>1, <1>2, Zenon DEF EventsAreOf
<1>5. OffersAreCurrent'
  <2> SUFFICES ASSUME NEW k \in Router, NEW l \in Router, {k, l} \in up', <<k, l>> \notin early'
               PROVE  /\ Announced(k)' => Held(queue'[k][l], views'[l], k, {INF_COST, Says(k, l)'})
                      /\ Unheard(k, l)' => Held(queue'[k][l], views'[l], k, {INF_COST})
    BY Zenon DEF OffersAreCurrent
  <2>1. <<k, l>> \notin early /\ (<<k, l>> \in {<<m, n>>, <<n, m>>} => Forgotten(k, l))
    BY <1>2
  <2>2. CASE {k, l} \in up
    <3>1. Unheard(k, l)' => Unheard(k, l)
      BY <1>2, Zenon DEF Unheard
    <3>2. Says(k, l)' = Says(k, l) /\ (Announced(k)' <=> Announced(k))
      BY <1>2, SameTables, Zenon
    <3> QED
      BY <1>1, <1>2, <2>1, <2>2, <3>1, <3>2, Zenon DEF OffersAreCurrent
  <2>3. CASE {k, l} = {m, n}
    <3>1. Forgotten(k, l)
      BY <2>1, <2>3, Zenon
    <3>2. queue[k][l] = <<>> /\ k \notin DOMAIN views[l]
      BY <3>1, Zenon DEF Forgotten
    <3>3. \A S : Held(<<>>, views[l], k, S)
      BY <3>2 DEF Held
    <3> QED
      BY <1>2, <3>2, <3>3, Zenon
  <2> QED
    BY <1>2, <2>2, <2>3, Zenon
<1> QED
  BY <1>2, <1>3, <1>4, <1>5, SameTables, Zenon DEF NetworkIInv

\* Knowing the id of the other end changes only what is to come.
LEMMA IdentifyNetwork ==
    ASSUME NetworkIInv, NEW m \in Router, NEW n \in Router, <<n, m>> \in Channels, Identify(m, n)
    PROVE  NetworkIInv'
<1>1. NetworkTyped /\ EventsAreOf /\ OffersAreCurrent
  BY Zenon DEF NetworkIInv
<1>2. /\ identified' = identified \cup {<<n, m>>}
      /\ UNCHANGED <<up, registered, changes, views, table, queue, early>>
  BY Zenon DEF Identify
<1>3. NetworkTyped' /\ EventsAreOf'
  BY <1>1, <1>2, Zenon DEF NetworkTyped, EventsAreOf
<1>4. \A k, l \in Router : Unheard(k, l)' => Unheard(k, l)
  BY <1>2, Zenon DEF Unheard
<1>5. OffersAreCurrent'
  BY <1>1, <1>2, <1>4, SameTables, Zenon DEF OffersAreCurrent
<1> QED
  BY <1>2, <1>3, <1>5, SameTables, Zenon DEF NetworkIInv

\* on_peer_connected offers nothing.
LEMMA RegisterNetwork ==
    ASSUME NetworkIInv, NEW m \in Router, NEW n \in Router, Register(m, n)
    PROVE  NetworkIInv'
<1>1. NetworkTyped /\ EventsAreOf /\ OffersAreCurrent /\ queue \in [Router -> [Router -> Seq(Event)]]
  BY Zenon DEF NetworkIInv, NetworkTyped
<1>2. /\ <<n, m>> \in identified /\ registered' = registered \cup {<<n, m>>}
      /\ queue' = [queue EXCEPT ![m][n] = Append(@, Connected)]
      /\ UNCHANGED <<up, identified, changes, views, table, early>>
  BY Zenon DEF Register
<1>3. Connected \in Event /\ Connected.type # "update" /\ \A k : ~Offer(k, Connected)
  BY DEF Event, Connected, Offer
<1>4. /\ queue' \in [Router -> [Router -> Seq(Event)]]
      /\ queue'[m][n] = Append(queue[m][n], Connected)
      /\ \A k, l \in Router : k # m \/ l # n => queue'[k][l] = queue[k][l]
  BY <1>1, <1>2, <1>3
<1>5. NetworkTyped'
  BY <1>1, <1>2, <1>4, Zenon DEF NetworkTyped
<1>6. EventsAreOf'
  <2> SUFFICES ASSUME NEW k \in Router, NEW l \in Router, NEW x \in 1..Len(queue'[k][l]),
                      queue'[k][l][x].type = "update"
               PROVE  queue'[k][l][x].from \in {k, NoId}
    BY Zenon DEF EventsAreOf
  <2>1. x \in 1..Len(queue[k][l]) /\ queue'[k][l][x] = queue[k][l][x]
    <3>1. CASE k = m /\ l = n
      <4> DEFINE q == queue[m][n]
      <4>1. q \in Seq(Event) /\ queue'[k][l] = Append(q, Connected)
        BY <1>1, <1>4, <3>1, Zenon
      <4>2. /\ Len(q) \in Nat /\ Len(Append(q, Connected)) = Len(q) + 1
            /\ Append(q, Connected)[Len(q) + 1] = Connected
            /\ \A i \in 1..Len(q) : Append(q, Connected)[i] = q[i]
        BY <4>1
      <4> HIDE DEF q
      <4>3. x # Len(q) + 1
        BY <1>3, <4>1, <4>2, Zenon
      <4> QED
        BY <3>1, <4>1, <4>2, <4>3 DEF q
    <3>2. CASE k # m \/ l # n
      BY <1>4, <3>2, Zenon
    <3> QED
      BY <3>1, <3>2, Zenon
  <2> QED
    BY <1>1, <2>1, Zenon DEF EventsAreOf
<1>7. \A k, l \in Router : \A S : Held(queue[k][l], views[l], k, S) => Held(queue'[k][l], views[l], k, S)
  <2> SUFFICES ASSUME NEW k \in Router, NEW l \in Router, NEW S, Held(queue[k][l], views[l], k, S)
               PROVE  Held(queue'[k][l], views[l], k, S)
    BY Zenon
  <2>1. queue[k][l] \in Seq(Event)
    BY <1>1, Zenon
  <2>2. Held(Append(queue[k][l], Connected), views[l], k, S)
    BY <1>3, <2>1, HeldOther, Zenon
  <2> QED
    BY <1>4, <2>2, Zenon
<1>8. \A k, l \in Router : Unheard(k, l)' => Unheard(k, l)
  BY <1>2, Zenon DEF Unheard
<1>9. OffersAreCurrent'
  BY <1>1, <1>2, <1>7, <1>8, SameTables, Zenon DEF OffersAreCurrent
<1> QED
  BY <1>2, <1>5, <1>6, <1>9, SameTables, Zenon DEF NetworkIInv

\* Every step of the network keeps the invariant.
LEMMA NetworkNextIInv == NetworkIInv /\ [NetworkNext]_networkVars => NetworkIInv'
<1> SUFFICES ASSUME NetworkIInv, [NetworkNext]_networkVars PROVE NetworkIInv'
  BY Zenon
<1>1. CASE UNCHANGED networkVars
  <2>1. UNCHANGED <<up, identified, registered, changes, views, table, queue, early>>
    BY <1>1, Zenon DEF networkVars
  <2>2. NetworkTyped' /\ EventsAreOf' /\ \A k, l \in Router : Unheard(k, l)' <=> Unheard(k, l)
    BY <2>1, Zenon DEF NetworkIInv, NetworkTyped, EventsAreOf, Unheard
  <2>3. OffersAreCurrent'
    BY <2>1, <2>2, SameTables, Zenon DEF NetworkIInv, OffersAreCurrent
  <2> QED
    BY <2>1, <2>2, <2>3, SameTables, Zenon DEF NetworkIInv
<1>2. \A c \in Channels : /\ c[1] \in Router /\ c[2] \in Router /\ c[1] # c[2]
                            /\ <<c[2], c[1]>> \in Channels /\ {<<c[1], c[2]>>, <<c[2], c[1]>>} \subseteq Channels
  <2> SUFFICES ASSUME NEW c \in Channels
               PROVE  /\ c[1] \in Router /\ c[2] \in Router /\ c[1] # c[2]
                      /\ <<c[2], c[1]>> \in Channels /\ {<<c[1], c[2]>>, <<c[2], c[1]>>} \subseteq Channels
    BY Zenon
  <2>1. c[1] \in Router /\ c[2] \in Router /\ c[1] # c[2] /\ {c[1], c[2]} \in Links
    BY Zenon DEF Channels
  <2>2. {c[2], c[1]} = {c[1], c[2]}
    BY Zenon
  <2>3. <<c[2], c[1]>> \in Channels /\ <<c[1], c[2]>> \in Channels
    BY <2>1, <2>2, Zenon DEF Channels
  <2> QED
    BY <2>1, <2>3, Zenon
<1>3. CASE \E c \in Channels : Receive(c[1], c[2]) \/ LinkDown(c[1], c[2]) \/ LinkUp(c[1], c[2])
                                   \/ Identify(c[1], c[2]) \/ Register(c[1], c[2])
  BY <1>2, <1>3, ReceiveNetwork, LinkDownNetwork, LinkUpNetwork, IdentifyNetwork, RegisterNetwork, Zenon
<1>4. CASE \E n \in Router : SendTriggered(n) \/ SendFull(n) \/ ForgetDead(n)
  BY <1>4, SendTriggeredNetwork, SendFullNetwork, ForgetDeadNetwork, Zenon
<1>5. CASE \E n \in Router, m \in Node : Expire(n, m)
  BY <1>5, ExpireNetwork, Zenon
<1> QED
  BY <1>1, <1>3, <1>4, <1>5, Zenon DEF NetworkNext

\* The invariant holds of every behaviour of the network.
LEMMA NetworkSafety == NetworkSpec => []NetworkIInv
  BY NetworkInitIInv, NetworkNextIInv, PTL DEF NetworkSpec

\* For every set of connections and however often they break and return: over
\* a working connection, a node that has processed the updates of a neighbour
\* with nothing left to announce holds what the neighbour says, or nothing.
THEOREM NetworkIsCurrent == NetworkSpec => []ViewsAreCurrent
<1>1. NetworkIInv => ViewsAreCurrent
  <2> SUFFICES ASSUME NetworkIInv PROVE ViewsAreCurrent
    BY Zenon
  <2>1. NetworkTypeOK
    <3>1. ASSUME NEW m \in Router, NEW n \in Router, NEW i \in 1..Len(queue[m][n])
          PROVE  queue[m][n][i].type = "update" => IsRouteCosts(queue[m][n][i].costs)
      <4>1. queue[m][n] \in Seq(Event)
        BY Zenon DEF NetworkIInv, NetworkTyped
      <4>2. queue[m][n][i] \in Event
        BY <4>1
      <4> QED
        BY <4>2, EventIs, Zenon
    <3> QED
      BY <3>1, Zenon DEF NetworkIInv, NetworkTyped, NetworkTypeOK
  <2>2. ASSUME NEW m \in Router, NEW n \in Router, {m, n} \in up, <<m, n>> \notin early,
               m \in DOMAIN views[n], Told(m, n)
        PROVE  views[n][m].advertised_routes[Dest] \in {INF_COST, Says(m, n)}
    <3>1. Announced(m) /\ queue[m][n] = <<>>
      BY <2>2, Zenon DEF Told, Announced
    <3>2. Held(queue[m][n], views[n], m, {INF_COST, Says(m, n)})
      BY <2>2, <3>1, Zenon DEF NetworkIInv, OffersAreCurrent
    <3> QED
      BY <2>2, <3>1, <3>2 DEF Held
  <2> QED
    BY <2>1, <2>2, Zenon DEF ViewsAreCurrent
<1> QED
  BY <1>1, NetworkSafety, PTL

\* A next hop that has told all it has to say has a route that is shorter by
\* one, unless the connection to it came back early and it has been silent
\* since.
RoutesDescend ==
    \A m \in Router \ {Dest}, n \in Router \ {Dest} :
        HasRoute(m) /\ table[m][Dest].next_hop = n /\ {n, m} \in up /\ <<n, m>> \notin early /\ Told(n, m) =>
            HasRoute(n) /\ table[n][Dest].cost = table[m][Dest].cost - 1

\* For every set of connections and however often they break and return: the
\* cost falls from every node to its next hop, once the updates between them
\* are processed.
THEOREM NetworkDescends == NetworkSpec => []RoutesDescend
<1>1. NetworkIInv /\ ViewsAreCurrent => RoutesDescend
  <2> USE NetworkAssumption, CostAssumption
  <2> SUFFICES ASSUME NetworkIInv, ViewsAreCurrent,
                      NEW m \in Router \ {Dest}, NEW n \in Router \ {Dest},
                      HasRoute(m), table[m][Dest].next_hop = n, {n, m} \in up, <<n, m>> \notin early, Told(n, m)
               PROVE  HasRoute(n) /\ table[n][Dest].cost = table[m][Dest].cost - 1
    BY Zenon DEF RoutesDescend
  <2>1. /\ IsBestTo(Dest, views[m], table[m]) /\ IsNeighborViews(views[m])
        /\ IsForwardingTable(table[m]) /\ IsForwardingTable(table[n])
    BY Zenon DEF NetworkIInv, BestToDest, NetworkTyped
  <2>2. Dest \in DOMAIN table[m] /\ table[m][Dest].cost < INF_COST
    BY Zenon DEF HasRoute
  <2>3. Dest \notin DOMAIN views[m]
    BY <2>1, Zenon DEF IsBestTo
  <2>4. n \in Via(views[m], Dest) /\ table[m][Dest].cost = TotalCost(views[m], n, Dest)
    BY <2>1, <2>2, <2>3 DEF IsBestTo
  <2> DEFINE offer == views[m][n].advertised_routes[Dest]
  <2>5. n \in DOMAIN views[m] /\ table[m][Dest].cost = offer + 1 /\ offer + 1 < INF_COST
    BY <2>2, <2>4, Zenon DEF Via, TotalCost
  <2>6. offer \in 0..INF_COST
    BY <2>1, <2>5 DEF IsNeighborViews, NeighborView, Router
  <2>7. offer \in {INF_COST, Says(n, m)}
    BY <2>5, Zenon DEF ViewsAreCurrent
  <2> HIDE DEF offer
  <2>8. offer = Says(n, m) /\ offer < INF_COST
    BY <2>5, <2>6, <2>7
  <2>9. Dest \in DOMAIN table[n] /\ offer = table[n][Dest].cost
    BY <2>8 DEF Says, CostFor
  <2> QED
    BY <2>5, <2>6, <2>8, <2>9 DEF HasRoute
<1> QED
  BY <1>1, NetworkSafety, NetworkIsCurrent, PTL

\* Following the next hops from a node of S never leaves S, and the updates
\* between the nodes on the way are processed.
Loops(S) ==
    \A m \in S : /\ HasRoute(m) /\ table[m][Dest].next_hop \in S
                 /\ {table[m][Dest].next_hop, m} \in up /\ <<table[m][Dest].next_hop, m>> \notin early
                 /\ Told(table[m][Dest].next_hop, m)

NoSettledLoop == \A S \in SUBSET (Router \ {Dest}) : Loops(S) => S = {}

\* For every set of connections and however often they break and return: no
\* routing loop outlives the updates between its nodes.  The node of a loop with
\* the least cost would have a next hop in the loop with a smaller one.
THEOREM NetworkIsLoopFree == NetworkSpec => []NoSettledLoop
<1>1. NetworkIInv /\ RoutesDescend => NoSettledLoop
  <2> SUFFICES ASSUME NetworkIInv, RoutesDescend,
                      NEW S \in SUBSET (Router \ {Dest}), Loops(S), S # {}
               PROVE  FALSE
    BY Zenon DEF NoSettledLoop
  <2> DEFINE cost(n) == table[n][Dest].cost
             hop(n) == table[n][Dest].next_hop
             C == {cost(n) : n \in S}
  <2>1. \A n \in S : cost(n) \in Nat
    <3> SUFFICES ASSUME NEW n \in S PROVE cost(n) \in Nat
      BY Zenon
    <3>1. IsForwardingTable(table[n]) /\ Dest \in DOMAIN table[n]
      BY Zenon DEF NetworkIInv, NetworkTyped, Loops, HasRoute
    <3> QED
      BY <3>1, CostAssumption DEF IsForwardingTable, RouteEntry
  <2>2. \A n \in S : hop(n) \in S /\ cost(hop(n)) = cost(n) - 1
    <3> SUFFICES ASSUME NEW n \in S PROVE hop(n) \in S /\ cost(hop(n)) = cost(n) - 1
      BY Zenon
    <3>1. /\ HasRoute(n) /\ hop(n) \in S /\ {hop(n), n} \in up /\ <<hop(n), n>> \notin early /\ Told(hop(n), n)
          /\ table[n][Dest].next_hop = hop(n) /\ n \in Router \ {Dest} /\ hop(n) \in Router \ {Dest}
      BY Zenon DEF Loops
    <3> HIDE DEF hop
    <3> QED
      BY <3>1, Zenon DEF RoutesDescend
  <2> HIDE DEF cost, hop
  <2>3. PICK c \in C : \A x \in C : c <= x
    <3>1. C \subseteq Nat /\ C # {}
      BY <2>1, Zenon
    <3> HIDE DEF C
    <3> QED
      BY <3>1, LeastNat, Zenon
  <2>4. PICK n \in S : c = cost(n)
    BY <2>3, Zenon
  <2>5. hop(n) \in S /\ cost(hop(n)) = cost(n) - 1 /\ cost(n) <= cost(hop(n))
    BY <2>2, <2>3, <2>4, Zenon
  <2> QED
    BY <2>1, <2>5
<1> QED
  BY <1>1, NetworkSafety, NetworkDescends, PTL

-----------------------------------------------------------------------------
(* What the protocol computes.                                             *)

\* The nodes of X and their neighbours.
Around(X) == X \cup {n \in Router : \E m \in X : {m, n} \in up}

\* g is Within up to n.
Layers(g, n) ==
    /\ DOMAIN g = 0..n /\ g[0] = {Dest}
    /\ \A k \in 1..n : g[k] = Around(g[k - 1])

\* The nodes at most n connections away from Dest can be found layer by layer.
LEMMA LayersExist == \A n \in Nat : \E g : Layers(g, n)
<1> DEFINE Bad == {n \in Nat : ~\E g : Layers(g, n)}
<1> SUFFICES ASSUME Bad # {} PROVE FALSE
  BY Zenon
<1>1. PICK n \in Bad : \A y \in Bad : n <= y
  <2>1. Bad \subseteq Nat
    BY Zenon
  <2> HIDE DEF Bad
  <2> QED
    BY <2>1, LeastNat, Zenon
<1>2. CASE n = 0
  <2> DEFINE g == [k \in 0..0 |-> {Dest}]
  <2>1. Layers(g, 0)
    BY DEF Layers
  <2> QED
    BY <1>1, <1>2, <2>1, Zenon
<1>3. CASE n # 0
  <2>1. n - 1 \in Nat /\ n \in Nat /\ ~(n <= n - 1)
    BY <1>1, <1>3
  <2>2. PICK g : Layers(g, n - 1)
    BY <1>1, <2>1, Zenon
  <2> DEFINE h == [k \in 0..n |-> IF k = n THEN Around(g[n - 1]) ELSE g[k]]
  <2>3. DOMAIN h = 0..n /\ h[0] = {Dest}
    BY <2>1, <2>2 DEF Layers
  <2>4. ASSUME NEW k \in 1..n
        PROVE  h[k] = Around(h[k - 1])
    <3>1. h[k - 1] = g[k - 1]
      BY <2>1
    <3>2. CASE k = n
      <4>1. h[k] = Around(g[n - 1])
        BY <2>1, <3>2
      <4> HIDE DEF h
      <4> QED
        BY <3>1, <3>2, <4>1, Zenon
    <3>3. CASE k # n
      <4>1. k \in 1..n - 1 /\ h[k] = g[k]
        BY <2>1, <3>3
      <4> HIDE DEF h
      <4> QED
        BY <2>2, <3>1, <4>1, Zenon DEF Layers
    <3> QED
      BY <3>2, <3>3, Zenon
  <2> HIDE DEF h
  <2>5. Layers(h, n)
    BY <2>3, <2>4, Zenon DEF Layers
  <2> QED
    BY <1>1, <2>5, Zenon
<1> QED
  BY <1>2, <1>3, Zenon

\* The layers do not depend on how far they are followed.
LEMMA LayersAgree ==
    ASSUME NEW n \in Nat, NEW m \in Nat, NEW g, NEW h, Layers(g, n), Layers(h, m)
    PROVE  \A k \in 0..n : k \in 0..m => g[k] = h[k]
<1> SUFFICES ASSUME NEW k \in 0..n, k \in 0..m PROVE g[k] = h[k]
  BY Zenon
<1> DEFINE Bad == {j \in Nat : j \in 0..n /\ j \in 0..m /\ g[j] # h[j]}
<1> SUFFICES ASSUME Bad # {} PROVE FALSE
  <2>1. k \in Nat
    OBVIOUS
  <2> QED
    BY <2>1, Zenon
<1>1. PICK j \in Bad : \A y \in Bad : j <= y
  <2>1. Bad \subseteq Nat
    BY Zenon
  <2> HIDE DEF Bad
  <2> QED
    BY <2>1, LeastNat, Zenon
<1>2. j # 0
  BY <1>1, Zenon DEF Layers
<1>3. j - 1 \in Nat /\ j - 1 \in 0..n /\ j - 1 \in 0..m /\ j \in 1..n /\ j \in 1..m /\ ~(j <= j - 1)
  BY <1>1, <1>2
<1>4. g[j - 1] = h[j - 1]
  BY <1>1, <1>3, Zenon
<1>5. g[j] = Around(g[j - 1]) /\ h[j] = Around(h[j - 1])
  BY <1>3, Zenon DEF Layers
<1>6. g[j] # h[j]
  BY <1>1, Zenon
<1> QED
  BY <1>4, <1>5, <1>6, Zenon

\* Within satisfies its recursive definition.
LEMMA WithinIs ==
    /\ Within[0] = {Dest}
    /\ \A k \in Nat \ {0} : Within[k] = Around(Within[k - 1])
<1> DEFINE L(n) == CHOOSE g : Layers(g, n)
           f == [n \in Nat |-> L(n)[n]]
           body(w) == [k \in Nat |-> IF k = 0 THEN {Dest} ELSE Around(w[k - 1])]
<1>1. \A n \in Nat : Layers(L(n), n)
  BY LayersExist, Zenon
<1> HIDE DEF L
<1>2. ASSUME NEW k \in Nat
      PROVE  f[k] = IF k = 0 THEN {Dest} ELSE Around(f[k - 1])
  <2>1. f[k] = L(k)[k] /\ Layers(L(k), k)
    BY <1>1, Zenon
  <2>2. CASE k = 0
    BY <2>1, <2>2, Zenon DEF Layers
  <2>3. CASE k # 0
    <3>1. k - 1 \in Nat /\ k \in 1..k /\ k - 1 \in 0..k /\ k - 1 \in 0..k - 1
      BY <2>3
    <3>2. f[k - 1] = L(k - 1)[k - 1] /\ Layers(L(k - 1), k - 1)
      BY <1>1, <3>1, Zenon
    <3>3. L(k)[k - 1] = L(k - 1)[k - 1]
      <4> DEFINE j == k - 1
      <4>1. j \in Nat /\ j \in 0..k /\ j \in 0..j
        BY <3>1
      <4> HIDE DEF j
      <4> DEFINE g == L(k)
                 h == L(j)
      <4>2. Layers(g, k) /\ Layers(h, j)
        BY <1>1, <4>1, Zenon
      <4> HIDE DEF g, h
      <4>3. \A i \in 0..k : i \in 0..j => g[i] = h[i]
        BY <4>1, <4>2, LayersAgree
      <4> QED
        BY <4>1, <4>3, Zenon DEF j, g, h
    <3> HIDE DEF f
    <3> QED
      BY <2>1, <2>3, <3>1, <3>2, <3>3, Zenon DEF Layers
  <2> QED
    BY <2>2, <2>3, Zenon
<1>3. f = body(f)
  <2>1. f = [k \in Nat |-> f[k]]
    BY Zenon
  <2> HIDE DEF f
  <2>2. [k \in Nat |-> f[k]] = body(f)
    BY <1>2, Zenon
  <2> QED
    BY <2>1, <2>2, Zenon
<1>4. Within = CHOOSE w : w = body(w)
  BY Zenon DEF Within, Around
<1> HIDE DEF f
<1>5. Within = body(Within)
  <2> HIDE DEF body
  <2> QED
    BY <1>3, <1>4, Zenon
<1>6. \A k \in Nat : Within[k] = IF k = 0 THEN {Dest} ELSE Around(Within[k - 1])
  <2> DEFINE w == Within
  <2>1. w = body(w)
    BY <1>5, Zenon
  <2> HIDE DEF w
  <2>2. \A k \in Nat : w[k] = body(w)[k]
    BY <2>1, Zenon
  <2> QED
    BY <2>2, Zenon DEF w
<1> HIDE DEF body
<1>7. 0 \in Nat /\ \A k \in Nat \ {0} : k \in Nat /\ k # 0
  OBVIOUS
<1> QED
  BY <1>6, <1>7, Zenon

\* A node within reach stays within a longer reach.
LEMMA WithinGrows == \A j \in Nat : \A k \in Nat : j <= k => Within[j] \subseteq Within[k]
<1> SUFFICES ASSUME NEW j \in Nat PROVE \A k \in Nat : j <= k => Within[j] \subseteq Within[k]
  BY Zenon
<1> DEFINE Bad == {k \in Nat : j <= k /\ ~(Within[j] \subseteq Within[k])}
<1> SUFFICES ASSUME Bad # {} PROVE FALSE
  BY Zenon
<1>1. PICK k \in Bad : \A y \in Bad : k <= y
  <2>1. Bad \subseteq Nat
    BY Zenon
  <2> HIDE DEF Bad
  <2> QED
    BY <2>1, LeastNat, Zenon
<1>2. k # j
  BY <1>1, Zenon
<1>3. k \in Nat \ {0} /\ k - 1 \in Nat /\ j <= k - 1 /\ ~(k <= k - 1)
  BY <1>1, <1>2
<1>4. Within[j] \subseteq Within[k - 1]
  BY <1>1, <1>3, Zenon
<1>5. Within[k - 1] \subseteq Within[k]
  BY <1>3, WithinIs, Zenon DEF Around
<1> QED
  BY <1>1, <1>4, <1>5, Zenon

\* Every node has exactly the nodes it is connected to as its neighbours, and
\* holds what they say: the updates have nothing left to change.
Settled ==
    \A n \in Router :
        /\ DOMAIN views[n] = {m \in Router : {m, n} \in up}
        /\ \A m \in DOMAIN views[n] : views[n][m].advertised_routes[Dest] = Says(m, n)

\* In a settled network a neighbour of Dest goes there directly.
LEMMA SettledNear ==
    ASSUME NetworkIInv, Settled, NEW n \in Router \ {Dest}, {Dest, n} \in up
    PROVE  HasRoute(n) /\ table[n][Dest].cost = 1 /\ table[n][Dest].next_hop = Dest
<1> USE NetworkAssumption, CostAssumption
<1>1. IsBestTo(Dest, views[n], table[n]) /\ Dest \in DOMAIN views[n]
  BY Zenon DEF NetworkIInv, BestToDest, Settled, Router
<1>2. Dest \in DOMAIN table[n] /\ table[n][Dest].cost = 1 /\ table[n][Dest].next_hop = Dest
  BY <1>1, Zenon DEF IsBestTo
<1> QED
  BY <1>2 DEF HasRoute

\* In a settled network the next hop is connected, and it is Dest or has a
\* route that is shorter by one.
LEMMA SettledHop ==
    ASSUME NetworkIInv, Settled, NEW n \in Router \ {Dest}, HasRoute(n),
           NEW h, h = table[n][Dest].next_hop
    PROVE  /\ table[n][Dest].cost \in 1..INF_COST - 1
           /\ h \in Router /\ {h, n} \in up
           /\ \/ h = Dest /\ table[n][Dest].cost = 1
              \/ h # Dest /\ HasRoute(h) /\ table[h][Dest].cost = table[n][Dest].cost - 1
<1> USE NetworkAssumption, CostAssumption
<1>1. /\ IsBestTo(Dest, views[n], table[n]) /\ IsNeighborViews(views[n])
      /\ DOMAIN views[n] = {m \in Router : {m, n} \in up}
      /\ \A m \in DOMAIN views[n] : views[n][m].advertised_routes[Dest] = Says(m, n)
  BY Zenon DEF NetworkIInv, BestToDest, NetworkTyped, Settled
<1>2. Dest \in DOMAIN table[n] /\ table[n][Dest].cost < INF_COST
  BY Zenon DEF HasRoute
<1>3. CASE Dest \in DOMAIN views[n]
  <2>1. h = Dest /\ table[n][Dest].cost = 1
    BY <1>1, <1>3, Zenon DEF IsBestTo
  <2>2. Dest \in Router /\ {Dest, n} \in up
    BY <1>1, <1>3, Zenon
  <2> QED
    BY <1>2, <2>1, <2>2
<1>4. CASE Dest \notin DOMAIN views[n]
  <2> DEFINE offer == views[n][h].advertised_routes[Dest]
  <2>1. h \in Via(views[n], Dest) /\ table[n][Dest].cost = TotalCost(views[n], h, Dest)
    <3>1. Via(views[n], Dest) # {}
      BY <1>1, <1>2, <1>4 DEF IsBestTo
    <3> QED
      BY <1>1, <1>4, <3>1, Zenon DEF IsBestTo
  <2>2. h \in DOMAIN views[n] /\ table[n][Dest].cost = offer + 1
    BY <2>1, Zenon DEF Via, TotalCost
  <2>3. offer = Says(h, n) /\ h \in Router /\ {h, n} \in up /\ h # Dest
    BY <1>1, <1>4, <2>2, Zenon
  <2>4. offer \in 0..INF_COST
    <3>1. ASSUME NEW vs, IsNeighborViews(vs), NEW x \in DOMAIN vs
          PROVE  vs[x].advertised_routes[Dest] \in 0..INF_COST
      BY <3>1 DEF IsNeighborViews, NeighborView, Router
    <3> QED
      BY <1>1, <2>2, <3>1, Zenon
  <2> HIDE DEF offer
  <2>5. offer # INF_COST /\ offer < INF_COST /\ table[n][Dest].cost \in 1..INF_COST - 1 /\ offer = table[n][Dest].cost - 1
    BY <1>2, <2>2, <2>4
  <2>6. Dest \in DOMAIN table[h] /\ table[h][Dest].cost = offer
    BY <2>3, <2>5, Zenon DEF Says, CostFor
  <2> QED
    BY <2>3, <2>5, <2>6, Zenon DEF HasRoute
<1> QED
  BY <1>3, <1>4, Zenon

\* In a settled network a node has a route at most one longer than those of
\* its neighbours: poison reverse hides a route only from the node it goes
\* through.
LEMMA SettledNeighbor ==
    ASSUME NetworkIInv, Settled, NEW n \in Router \ {Dest}, NEW m \in Router \ {Dest}, {m, n} \in up,
           HasRoute(m), table[m][Dest].cost + 1 < INF_COST
    PROVE  HasRoute(n) /\ table[n][Dest].cost <= table[m][Dest].cost + 1
<1> USE NetworkAssumption, CostAssumption
<1>1. /\ IsBestTo(Dest, views[n], table[n]) /\ IsForwardingTable(table[m])
      /\ m \in DOMAIN views[n] /\ views[n][m].advertised_routes[Dest] = Says(m, n)
  BY Zenon DEF NetworkIInv, BestToDest, NetworkTyped, Settled
<1>2. Dest \in DOMAIN table[m] /\ table[m][Dest].cost \in 1..INF_COST - 1
  BY SettledHop, Zenon DEF HasRoute
<1>3. CASE Dest \in DOMAIN views[n]
  <2>1. Dest \in DOMAIN table[n] /\ table[n][Dest].cost = 1
    BY <1>1, <1>3, Zenon DEF IsBestTo
  <2> QED
    BY <1>2, <2>1 DEF HasRoute
<1>4. CASE table[m][Dest].next_hop = n
  <2>1. HasRoute(n) /\ table[n][Dest].cost = table[m][Dest].cost - 1
    BY <1>4, SettledHop, Zenon
  <2> QED
    BY <1>2, <2>1
<1>5. CASE Dest \notin DOMAIN views[n] /\ table[m][Dest].next_hop # n
  <2>1. TotalCost(views[n], m, Dest) = table[m][Dest].cost + 1
    BY <1>1, <1>2, <1>5, Zenon DEF TotalCost, Says, CostFor
  <2>2. m \in Via(views[n], Dest)
    BY <1>1, <2>1, Zenon DEF Via
  <2>3. Dest \in DOMAIN table[n] /\ table[n][Dest].cost <= table[m][Dest].cost + 1
    BY <1>1, <1>5, <2>1, <2>2, Zenon DEF IsBestTo
  <2>4. IsForwardingTable(table[n])
    BY Zenon DEF NetworkIInv, NetworkTyped
  <2>5. table[n][Dest].cost \in Nat
    BY <2>3, <2>4 DEF IsForwardingTable, RouteEntry
  <2> QED
    BY <1>2, <2>3, <2>5 DEF HasRoute
<1> QED
  BY <1>3, <1>4, <1>5, Zenon

\* Within consists of nodes.
LEMMA WithinAreRouters == \A k \in Nat : Within[k] \subseteq Router
<1> DEFINE Bad == {k \in Nat : ~(Within[k] \subseteq Router)}
<1> SUFFICES ASSUME Bad # {} PROVE FALSE
  BY Zenon
<1>1. PICK k \in Bad : \A y \in Bad : k <= y
  <2>1. Bad \subseteq Nat
    BY Zenon
  <2> HIDE DEF Bad
  <2> QED
    BY <2>1, LeastNat, Zenon
<1>2. k # 0
  BY <1>1, WithinIs, NetworkAssumption, Zenon
<1>3. k \in Nat \ {0} /\ k - 1 \in Nat /\ ~(k <= k - 1)
  BY <1>1, <1>2
<1>4. Within[k - 1] \subseteq Router
  BY <1>1, <1>3, Zenon
<1> QED
  BY <1>1, <1>3, <1>4, WithinIs, Zenon DEF Around

\* The costs of routes are natural numbers.
LEMMA RouteCost ==
    ASSUME NetworkIInv, NEW n \in Router, HasRoute(n)
    PROVE  table[n][Dest].cost \in Nat /\ table[n][Dest].cost < INF_COST
<1>1. IsForwardingTable(table[n]) /\ Dest \in DOMAIN table[n] /\ table[n][Dest].cost < INF_COST
  BY Zenon DEF NetworkIInv, NetworkTyped, HasRoute
<1>2. table[n][Dest].cost \in Nat
  BY <1>1, CostAssumption DEF IsForwardingTable, RouteEntry
<1> QED
  BY <1>1, <1>2, Zenon

\* In a settled network a route of cost k is at least as long as the way.
LEMMA SettledReaches ==
    ASSUME NetworkIInv, Settled
    PROVE  \A k \in Nat : \A n \in Router \ {Dest} : HasRoute(n) /\ table[n][Dest].cost = k => n \in Within[k]
<1> DEFINE Bad == {k \in Nat : \E n \in Router \ {Dest} : HasRoute(n) /\ table[n][Dest].cost = k /\ n \notin Within[k]}
<1> SUFFICES ASSUME Bad # {} PROVE FALSE
  BY Zenon
<1>1. PICK k \in Bad : \A y \in Bad : k <= y
  <2>1. Bad \subseteq Nat
    BY Zenon
  <2> HIDE DEF Bad
  <2> QED
    BY <2>1, LeastNat, Zenon
<1>2. PICK n \in Router \ {Dest} : HasRoute(n) /\ table[n][Dest].cost = k /\ n \notin Within[k]
  BY <1>1, Zenon
<1> DEFINE h == table[n][Dest].next_hop
<1>3. /\ k \in 1..INF_COST - 1 /\ h \in Router /\ {h, n} \in up
      /\ \/ h = Dest /\ k = 1
         \/ h # Dest /\ HasRoute(h) /\ table[h][Dest].cost = k - 1
  BY <1>2, SettledHop, Zenon
<1> HIDE DEF h
<1>4. k \in Nat \ {0} /\ k - 1 \in Nat /\ ~(k <= k - 1) /\ (k = 1 => k - 1 = 0)
  BY <1>3
<1>5. h \in Within[k - 1]
  <2>1. CASE h = Dest /\ k = 1
    BY <1>4, <2>1, WithinIs, Zenon
  <2>2. CASE h # Dest /\ HasRoute(h) /\ table[h][Dest].cost = k - 1
    BY <1>1, <1>3, <1>4, <2>2, Zenon
  <2> QED
    BY <1>3, <2>1, <2>2, Zenon
<1>6. n \in Within[k]
  BY <1>3, <1>4, <1>5, WithinIs, Zenon DEF Around
<1> QED
  BY <1>2, <1>6, Zenon

\* In a settled network a node has a route that is no longer than the way.
LEMMA SettledFinds ==
    ASSUME NetworkIInv, Settled
    PROVE  \A k \in Nat : k < INF_COST => \A n \in Within[k] \ {Dest} : HasRoute(n) /\ table[n][Dest].cost <= k
<1> USE NetworkAssumption, CostAssumption
<1> DEFINE Short(n, k) == HasRoute(n) /\ table[n][Dest].cost <= k
           Bad == {k \in Nat : k < INF_COST /\ \E n \in Within[k] \ {Dest} : ~Short(n, k)}
<1> SUFFICES ASSUME Bad # {} PROVE FALSE
  BY Zenon
<1>1. PICK k \in Bad : \A y \in Bad : k <= y
  <2>1. Bad \subseteq Nat
    BY Zenon
  <2> HIDE DEF Bad
  <2> QED
    BY <2>1, LeastNat, Zenon
<1>2. PICK n \in Within[k] \ {Dest} : ~Short(n, k)
  BY <1>1, Zenon
<1>3. k # 0
  BY <1>2, WithinIs, Zenon
<1>4. k \in Nat \ {0} /\ k - 1 \in Nat /\ ~(k <= k - 1) /\ k < INF_COST /\ k - 1 < INF_COST
  BY <1>1, <1>3
<1>5. \A m \in Within[k - 1] \ {Dest} : Short(m, k - 1)
  BY <1>1, <1>4, Zenon
<1>6. n \notin Within[k - 1]
  <2> SUFFICES ASSUME n \in Within[k - 1] PROVE FALSE
    BY Zenon
  <2>1. HasRoute(n) /\ table[n][Dest].cost <= k - 1
    BY <1>2, <1>5, Zenon
  <2>2. n \in Router
    BY <1>4, WithinAreRouters, Zenon
  <2>3. table[n][Dest].cost \in Nat
    BY <2>1, <2>2, RouteCost, Zenon
  <2>4. table[n][Dest].cost <= k
    BY <1>4, <2>1, <2>3
  <2> QED
    BY <1>2, <2>1, <2>4, Zenon
<1>7. PICK m \in Within[k - 1] : n \in Router /\ {m, n} \in up
  <2>1. n \in Around(Within[k - 1])
    BY <1>2, <1>4, WithinIs, Zenon
  <2> QED
    BY <1>6, <2>1, Zenon DEF Around
<1>8. CASE m = Dest
  <2>1. HasRoute(n) /\ table[n][Dest].cost = 1
    BY <1>2, <1>7, <1>8, SettledNear, Zenon
  <2>2. 1 <= k
    BY <1>4
  <2> QED
    BY <1>2, <2>1, <2>2, Zenon
<1>9. CASE m # Dest
  <2>1. m \in Router
    BY <1>4, WithinAreRouters, Zenon
  <2>2. HasRoute(m) /\ table[m][Dest].cost <= k - 1
    BY <1>5, <1>9, Zenon
  <2>3. table[m][Dest].cost \in Nat
    BY <2>1, <2>2, RouteCost, Zenon
  <2>4. table[m][Dest].cost + 1 < INF_COST /\ table[m][Dest].cost + 1 <= k
    BY <1>4, <2>2, <2>3
  <2>5. HasRoute(n) /\ table[n][Dest].cost <= table[m][Dest].cost + 1
    BY <1>2, <1>7, <1>9, <2>1, <2>2, <2>4, SettledNeighbor, Zenon
  <2>6. table[n][Dest].cost \in Nat
    BY <1>7, <2>5, RouteCost, Zenon
  <2>7. table[n][Dest].cost <= k
    BY <1>4, <2>3, <2>4, <2>5, <2>6
  <2> QED
    BY <1>2, <2>5, <2>7, Zenon
<1> QED
  BY <1>8, <1>9, Zenon

\* For every set of connections and whatever has happened to them: where the
\* updates have nothing left to change, every forwarding table is right.  A
\* least counterexample, in the length of a route or of a way, has a next hop
\* or a neighbour that is another one.
THEOREM NetworkSettlesRight == NetworkSpec => [](Settled => Converged)
<1>1. NetworkIInv => (Settled => Converged)
  <2> SUFFICES ASSUME NetworkIInv, Settled PROVE Converged
    BY Zenon
  <2> USE NetworkAssumption, CostAssumption
  <2>1. ASSUME NEW k \in 1..INF_COST - 1, NEW n \in Within[k] \ Within[k - 1]
        PROVE  /\ HasRoute(n) /\ table[n][Dest].cost = k
               /\ {n, table[n][Dest].next_hop} \in up /\ table[n][Dest].next_hop \in Within[k - 1]
    <3> DEFINE h == table[n][Dest].next_hop
    <3>1. k \in Nat /\ k - 1 \in Nat /\ 0 \in Nat /\ 0 <= k - 1 /\ k < INF_COST /\ k - 1 < INF_COST
      BY <2>1
    <3>2. n \in Router
      BY <2>1, <3>1, WithinAreRouters, Zenon
    <3>3. n # Dest
      <4>1. {Dest} \subseteq Within[k - 1]
        BY <3>1, WithinIs, WithinGrows, Zenon
      <4> QED
        BY <2>1, <4>1, Zenon
    <3>4. HasRoute(n) /\ table[n][Dest].cost <= k
      BY <2>1, <3>1, <3>3, SettledFinds, Zenon
    <3>5. table[n][Dest].cost \in Nat
      BY <3>2, <3>4, RouteCost, Zenon
    <3>6. n \in Within[table[n][Dest].cost]
      BY <3>2, <3>3, <3>4, <3>5, SettledReaches, Zenon
    <3>7. ~(table[n][Dest].cost <= k - 1)
      BY <2>1, <3>1, <3>5, <3>6, WithinGrows, Zenon
    <3>8. table[n][Dest].cost = k
      BY <3>1, <3>4, <3>5, <3>7
    <3>9. /\ h \in Router /\ {h, n} \in up
          /\ \/ h = Dest /\ k = 1
             \/ h # Dest /\ HasRoute(h) /\ table[h][Dest].cost = k - 1
      BY <3>2, <3>3, <3>4, <3>8, SettledHop, Zenon
    <3> HIDE DEF h
    <3>10. h \in Within[k - 1]
      <4>1. CASE h = Dest /\ k = 1
        BY <3>1, <4>1, WithinIs
      <4>2. CASE h # Dest /\ HasRoute(h) /\ table[h][Dest].cost = k - 1
        BY <3>1, <3>9, <4>2, SettledReaches, Zenon
      <4> QED
        BY <3>9, <4>1, <4>2, Zenon
    <3>11. {n, h} = {h, n}
      BY Zenon
    <3> QED
      BY <3>4, <3>8, <3>9, <3>10, <3>11, Zenon DEF h
  <2>2. ASSUME NEW n \in Router \ Within[INF_COST - 1], HasRoute(n) PROVE FALSE
    <3>1. INF_COST - 1 \in Nat /\ 0 \in Nat /\ 0 <= INF_COST - 1
      OBVIOUS
    <3>2. n # Dest
      BY <2>2, <3>1, WithinIs, WithinGrows, Zenon
    <3>3. table[n][Dest].cost \in Nat /\ table[n][Dest].cost < INF_COST
      BY <2>2, RouteCost, Zenon
    <3>4. table[n][Dest].cost <= INF_COST - 1
      BY <3>3
    <3>5. n \in Within[table[n][Dest].cost]
      BY <2>2, <3>2, <3>3, SettledReaches, Zenon
    <3> QED
      BY <2>2, <3>1, <3>3, <3>4, <3>5, WithinGrows, Zenon
  <2> QED
    BY <2>1, <2>2, Zenon DEF Converged
<1> QED
  BY <1>1, NetworkSafety, PTL
-----------------------------------------------------------------------------
(* One router, one destination, no clock: UntimedRouter.                   *)

\* The views, the table and the updates of a router as far as they concern
\* Dest, with every time stamp 0.
UntimedView(v) ==
    [advertised_routes |-> [d \in Node |-> IF d = Dest THEN v.advertised_routes[d] ELSE INF_COST],
     last_heard_from |-> 0]

UntimedViews(vs) == [n \in DOMAIN vs |-> UntimedView(vs[n])]

UntimedEntry(e) == [next_hop |-> e.next_hop, cost |-> e.cost, dirty |-> e.dirty, last_updated |-> 0]

UntimedTable(t) == [d \in DOMAIN t \cap {Dest} |-> UntimedEntry(t[d])]

Said(updates) == {[to |-> m.to, cost |-> m.costs[Dest]] : m \in {x \in updates : Dest \in DOMAIN x.costs}}

Untimed == INSTANCE UntimedRouter
           WITH views <- UntimedViews(neighbor_views_), table <- UntimedTable(forwarding_table_),
                said <- Said(outgoing)

\* BestRoute reads nothing of the views but what they offer for the
\* destination.
LEMMA UntimedBest ==
    ASSUME NEW vs, IsNeighborViews(vs), NEW order \in IterationOrder
    PROVE  /\ Dest \in Known(Self, UntimedViews(vs)) <=> Dest \in Known(Self, vs)
           /\ Dest \in Known(Self, vs) =>
                 BestRoute(Self, UntimedViews(vs), order, Dest) = BestRoute(Self, vs, order, Dest)
<1> DEFINE us == UntimedViews(vs)
<1>0. Dest \in Node
  BY NetworkAssumption, Zenon DEF Router
<1>1. DOMAIN us = DOMAIN vs
  BY Zenon DEF UntimedViews
<1>2. \A n \in DOMAIN vs : TotalCost(us, n, Dest) = TotalCost(vs, n, Dest)
  BY <1>0, Zenon DEF UntimedViews, UntimedView, TotalCost
<1> HIDE DEF us
<1>3. Via(us, Dest) = Via(vs, Dest)
  BY <1>1, <1>2, Zenon DEF Via
<1>4. \A n \in Via(vs, Dest) : TotalCost(us, n, Dest) = TotalCost(vs, n, Dest)
  BY <1>2, Zenon DEF Via
<1>5. FirstBest(us, order, Dest) = FirstBest(vs, order, Dest)
  BY <1>3, <1>4, Zenon DEF FirstBest
<1>6. Dest \in Known(Self, us) <=> Dest \in Known(Self, vs)
  BY <1>0, <1>1, <1>3, Zenon DEF Known
<1>7. ASSUME Dest \in Known(Self, vs)
      PROVE  BestRoute(Self, us, order, Dest) = BestRoute(Self, vs, order, Dest)
  <2>1. CASE Dest \in DOMAIN vs
    BY <2>1, <1>1, Zenon DEF BestRoute
  <2>2. CASE Dest \notin DOMAIN vs /\ Dest = Self
    BY <2>2, <1>1, Zenon DEF BestRoute
  <2>3. CASE Dest \notin DOMAIN vs /\ Dest # Self
    <3>1. Via(vs, Dest) # {}
      BY <1>7, <2>3, Zenon DEF Known
    <3>2. FirstBest(vs, order, Dest) \in Via(vs, Dest)
      BY <1>0, <3>1, FirstBestIsBest, Zenon
    <3>3. TotalCost(us, FirstBest(us, order, Dest), Dest) = TotalCost(vs, FirstBest(vs, order, Dest), Dest)
      BY <1>4, <1>5, <3>2, Zenon
    <3> QED BY <2>3, <1>1, <1>5, <3>3, Zenon DEF BestRoute
  <2> QED BY <2>1, <2>2, <2>3, Zenon
<1> QED BY <1>6, <1>7, Zenon DEF us
\* recalculate_forwarding_table_locked treats every destination by itself,
\* and what it does to the route does not depend on the clock.
LEMMA UntimedRecalc ==
    ASSUME NEW vs, IsNeighborViews(vs), NEW order \in IterationOrder, NEW tbl, NEW now
    PROVE  UntimedTable(Recalculated(Self, vs, order, tbl, now)) =
              ForDest(Recalculated(Self, UntimedViews(vs), order, UntimedTable(tbl), 0))
<1> DEFINE us == UntimedViews(vs)
           ut == UntimedTable(tbl)
           new == Recalculated(Self, vs, order, tbl, now)
           unew == Recalculated(Self, us, order, ut, 0)
<1>1. DOMAIN new = DOMAIN tbl \cup Known(Self, vs) /\ DOMAIN unew = DOMAIN ut \cup Known(Self, us)
  BY Zenon DEF Recalculated
<1>2. /\ Dest \in Known(Self, us) <=> Dest \in Known(Self, vs)
      /\ Dest \in Known(Self, vs) => BestRoute(Self, us, order, Dest) = BestRoute(Self, vs, order, Dest)
  BY UntimedBest
<1>3. /\ Dest \in DOMAIN ut <=> Dest \in DOMAIN tbl
      /\ Dest \in DOMAIN tbl => ut[Dest] = UntimedEntry(tbl[Dest])
  BY Zenon DEF UntimedTable
<1>4. ASSUME Dest \in Known(Self, vs)
      PROVE  unew[Dest] = UntimedEntry(new[Dest])
  <2> DEFINE r == BestRoute(Self, vs, order, Dest)
  <2>1. /\ new[Dest] = IF Dest \in DOMAIN tbl /\ SameRoute(tbl[Dest], r) THEN tbl[Dest] ELSE NewEntry(r, now)
        /\ unew[Dest] = IF Dest \in DOMAIN ut /\ SameRoute(ut[Dest], r) THEN ut[Dest] ELSE NewEntry(r, 0)
    <3> HIDE DEF ut, us
    <3> QED BY <1>2, <1>4, Zenon DEF Recalculated
  <2> HIDE DEF r, ut, new, unew
  <2>2. NewEntry(r, 0) = UntimedEntry(NewEntry(r, now))
    BY DEF NewEntry, UntimedEntry
  <2>3. Dest \in DOMAIN tbl => (SameRoute(ut[Dest], r) <=> SameRoute(tbl[Dest], r))
    BY <1>3 DEF SameRoute, UntimedEntry
  <2> QED BY <1>3, <2>1, <2>2, <2>3, Zenon
<1>5. ASSUME Dest \in DOMAIN tbl, Dest \notin Known(Self, vs)
      PROVE  unew[Dest] = UntimedEntry(new[Dest])
  <2>1. new[Dest] = LostEntry(tbl[Dest], now) /\ unew[Dest] = LostEntry(ut[Dest], 0)
    <3> HIDE DEF ut, us
    <3> QED BY <1>2, <1>3, <1>5, Zenon DEF Recalculated
  <2> HIDE DEF ut, new, unew
  <2>2. LostEntry(UntimedEntry(tbl[Dest]), 0) = UntimedEntry(LostEntry(tbl[Dest], now))
    BY DEF LostEntry, UntimedEntry
  <2> QED BY <1>3, <1>5, <2>1, <2>2, Zenon
<1> HIDE DEF us, ut, new, unew
<1>6. DOMAIN new \cap {Dest} = DOMAIN unew \cap {Dest}
  BY <1>1, <1>2, <1>3, Zenon
<1>7. \A d \in DOMAIN new \cap {Dest} : unew[d] = UntimedEntry(new[d])
  BY <1>1, <1>4, <1>5, Zenon
<1>8. UntimedTable(new) = ForDest(unew)
  BY <1>6, <1>7, Zenon DEF UntimedTable, ForDest
<1> QED BY <1>8, Zenon DEF us, ut, new, unew

\* The cost that a view keeps of an update.
KeptCost(costs) == IF costs[Dest] >= INF_COST THEN INF_COST ELSE costs[Dest]

OfferOf(costs) == [d \in {Dest} |-> KeptCost(costs)]

\* What the events do to the views, seen for Dest: an update that says
\* nothing of Dest is a sign of life, one that does is an offer.
LEMMA UntimedUpdates ==
    ASSUME NEW vs, IsNeighborViews(vs), NEW p \in Node, NEW now
    PROVE  /\ UntimedViews(Touch(vs, p, now)) = Touch(UntimedViews(vs), p, 0)
           /\ \A S : UntimedViews(Erase(vs, S)) = Erase(UntimedViews(vs), S)
           /\ p \in DOMAIN vs => UntimedViews(Touch(vs, p, now)) = UntimedViews(vs)
           /\ \A costs : IsRouteCosts(costs) /\ Dest \in DOMAIN costs =>
                 /\ KeptCost(costs) \in 0..INF_COST
                 /\ UntimedViews(ApplyUpdate(vs, p, costs, now)) =
                       ApplyUpdate(UntimedViews(vs), p, OfferOf(costs), 0)
           /\ \A costs : IsRouteCosts(costs) /\ Dest \notin DOMAIN costs =>
                 UntimedViews(ApplyUpdate(vs, p, costs, now)) = Touch(UntimedViews(vs), p, 0)
<1>0. Dest \in Node
  BY NetworkAssumption, Zenon DEF Router
<1> DEFINE us == UntimedViews(vs)
           old == IF p \in DOMAIN vs THEN vs[p].advertised_routes ELSE NoRoutes
           uold == IF p \in DOMAIN us THEN us[p].advertised_routes ELSE NoRoutes
           Only(routes) == [d \in Node |-> IF d = Dest THEN routes[d] ELSE INF_COST]
           View(routes, t) == [advertised_routes |-> routes, last_heard_from |-> t]
<1>1. DOMAIN us = DOMAIN vs /\ \A n \in DOMAIN vs : us[n] = UntimedView(vs[n])
  BY Zenon DEF UntimedViews
<1>2. uold = Only(old)
  <2>1. CASE p \in DOMAIN vs
    <3>1. us[p] = UntimedView(vs[p])
      BY <2>1, <1>1, Zenon
    <3> HIDE DEF us
    <3>2. \A v : UntimedView(v).advertised_routes = Only(v.advertised_routes)
      BY Zenon DEF UntimedView
    <3>3. us[p].advertised_routes = Only(vs[p].advertised_routes)
      BY <3>1, <3>2
    <3> QED BY <2>1, <1>1, <3>3, Zenon
  <2>2. CASE p \notin DOMAIN vs
    BY <2>2, <1>0, <1>1, Zenon DEF NoRoutes
  <2> QED BY <2>1, <2>2, Zenon
<1>3. \A routes, t : UntimedView(View(routes, t)) = View(Only(routes), 0)
  BY Zenon DEF UntimedView
<1>4. /\ Touch(vs, p, now) = [m \in DOMAIN vs \cup {p} |-> IF m # p THEN vs[m] ELSE View(old, now)]
      /\ Touch(us, p, 0) = [m \in DOMAIN us \cup {p} |-> IF m # p THEN us[m] ELSE View(uold, 0)]
  BY Zenon DEF Touch
<1>5. \A costs :
        /\ ApplyUpdate(vs, p, costs, now) =
             [m \in DOMAIN vs \cup {p} |-> IF m # p THEN vs[m] ELSE View(Learn(old, costs), now)]
        /\ ApplyUpdate(us, p, costs, 0) =
             [m \in DOMAIN us \cup {p} |-> IF m # p THEN us[m] ELSE View(Learn(uold, costs), 0)]
  BY Zenon DEF ApplyUpdate
<1> HIDE DEF us, old, uold, Only, View
<1>6. \A routes, t : UntimedViews([m \in DOMAIN vs \cup {p} |-> IF m # p THEN vs[m] ELSE View(routes, t)]) =
          [m \in DOMAIN us \cup {p} |-> IF m # p THEN us[m] ELSE View(Only(routes), 0)]
  BY <1>1, <1>3, Zenon DEF UntimedViews
<1>7. UntimedViews(Touch(vs, p, now)) = Touch(us, p, 0)
  BY <1>2, <1>4, <1>6, Zenon
<1>8. \A S : UntimedViews(Erase(vs, S)) = Erase(us, S)
  BY <1>1, Zenon DEF UntimedViews, Erase
<1>9. p \in DOMAIN vs => UntimedViews(Touch(vs, p, now)) = us
  <2> SUFFICES ASSUME p \in DOMAIN vs PROVE Touch(us, p, 0) = us
    BY <1>7, Zenon
  <2>1. us[p] = View(uold, 0)
    <3>1. p \in DOMAIN us /\ us[p] = UntimedView(vs[p])
      BY <1>1, Zenon
    <3>2. \A v : UntimedView(v) = View(UntimedView(v).advertised_routes, 0)
      BY Zenon DEF UntimedView, View
    <3> QED BY <3>1, <3>2, Zenon DEF uold
  <2>2. us = [m \in DOMAIN us |-> us[m]] /\ DOMAIN us \cup {p} = DOMAIN us
    BY <1>1, Zenon DEF us, UntimedViews
  <2> QED BY <1>4, <2>1, <2>2, Zenon
<1>10. ASSUME NEW costs, IsRouteCosts(costs), Dest \in DOMAIN costs
       PROVE  /\ KeptCost(costs) \in 0..INF_COST
              /\ UntimedViews(ApplyUpdate(vs, p, costs, now)) = ApplyUpdate(us, p, OfferOf(costs), 0)
  <2> DEFINE c == KeptCost(costs)
  <2>1. c \in 0..INF_COST
    BY <1>10, CostAssumption DEF IsRouteCosts, KeptCost
  <2>2. c >= INF_COST => c = INF_COST
    BY <2>1, CostAssumption
  <2>4. Only(Learn(old, costs)) = Learn(uold, [d \in {Dest} |-> c])
    <3>1. Learn(old, costs)[Dest] = c
      BY <1>0, <1>10, Zenon DEF Learn, KeptCost
    <3> HIDE DEF c
    <3>2. Learn(uold, [d \in {Dest} |-> c]) = [d \in Node |-> IF d # Dest THEN uold[d] ELSE c]
      BY <2>2, Zenon DEF Learn
    <3>3. \A d \in Node : d # Dest => uold[d] = INF_COST
      BY <1>2, Zenon DEF Only
    <3> QED BY <3>1, <3>2, <3>3, Zenon DEF Only
  <2> HIDE DEF c
  <2>5. UntimedViews(ApplyUpdate(vs, p, costs, now)) =
          [m \in DOMAIN us \cup {p} |-> IF m # p THEN us[m] ELSE View(Only(Learn(old, costs)), 0)]
    BY <1>5, <1>6, Zenon
  <2>6. ApplyUpdate(us, p, [d \in {Dest} |-> c], 0) =
          [m \in DOMAIN us \cup {p} |-> IF m # p THEN us[m] ELSE View(Learn(uold, [d \in {Dest} |-> c]), 0)]
    BY <1>5, Zenon
  <2>7. UntimedViews(ApplyUpdate(vs, p, costs, now)) = ApplyUpdate(us, p, [d \in {Dest} |-> c], 0)
    BY <2>4, <2>5, <2>6, Zenon
  <2> QED BY <2>1, <2>7, Zenon DEF OfferOf, c
<1>11. ASSUME NEW costs, IsRouteCosts(costs), Dest \notin DOMAIN costs
       PROVE  UntimedViews(ApplyUpdate(vs, p, costs, now)) = Touch(us, p, 0)
  <2>1. Only(Learn(old, costs)) = uold
    BY <1>0, <1>2, <1>11, Zenon DEF Only, Learn
  <2>2. UntimedViews(ApplyUpdate(vs, p, costs, now)) =
          [m \in DOMAIN us \cup {p} |-> IF m # p THEN us[m] ELSE View(Only(Learn(old, costs)), 0)]
    BY <1>5, <1>6, Zenon
  <2> QED BY <1>4, <2>1, <2>2, Zenon
<1> QED BY <1>7, <1>8, <1>9, <1>10, <1>11, Zenon DEF us

\* The same for the update of one neighbour.
LEMMA UntimedOffers ==
    ASSUME NEW vs, IsNeighborViews(vs), NEW p \in Node, NEW costs, IsRouteCosts(costs), NEW now
    PROVE  /\ Dest \in DOMAIN costs =>
                 /\ KeptCost(costs) \in 0..INF_COST
                 /\ UntimedViews(ApplyUpdate(vs, p, costs, now)) =
                       ApplyUpdate(UntimedViews(vs), p, OfferOf(costs), 0)
           /\ Dest \notin DOMAIN costs =>
                 UntimedViews(ApplyUpdate(vs, p, costs, now)) = Touch(UntimedViews(vs), p, 0)
<1>1. \A x : IsRouteCosts(x) /\ Dest \in DOMAIN x =>
                 /\ KeptCost(x) \in 0..INF_COST
                 /\ UntimedViews(ApplyUpdate(vs, p, x, now)) =
                       ApplyUpdate(UntimedViews(vs), p, OfferOf(x), 0)
  BY UntimedUpdates
<1>2. \A x : IsRouteCosts(x) /\ Dest \notin DOMAIN x =>
                 UntimedViews(ApplyUpdate(vs, p, x, now)) = Touch(UntimedViews(vs), p, 0)
  BY UntimedUpdates
<1> QED BY <1>1, <1>2, Zenon

\* What the maintenance does to the table and reads of it, seen for Dest.
LEMMA UntimedSends ==
    ASSUME NEW tbl, IsForwardingTable(tbl)
    PROVE  LET ut == UntimedTable(tbl)
           IN  /\ Dest \in DOMAIN ut <=> Dest \in DOMAIN tbl
               /\ Dest \in DOMAIN tbl => /\ ut[Dest].cost = tbl[Dest].cost
                                         /\ ut[Dest].dirty = tbl[Dest].dirty
               /\ UntimedTable(Cleared(tbl)) = Cleared(ut)
               /\ Dest \in RoutesToSend(ut) <=> Dest \in RoutesToSend(tbl)
               /\ \A n : Dest \in DOMAIN tbl => CostFor(ut, n, Dest) = CostFor(tbl, n, Dest)
               /\ \A S : UntimedTable(Erase(tbl, S)) = IF Dest \in S THEN Erase(ut, {Dest}) ELSE ut
<1> DEFINE ut == UntimedTable(tbl)
<1>1. /\ DOMAIN ut = DOMAIN tbl \cap {Dest}
      /\ \A d \in DOMAIN ut : d \in DOMAIN tbl /\ ut[d] = UntimedEntry(tbl[d])
  BY Zenon DEF UntimedTable
<1>2. \A e : /\ UntimedEntry(e).next_hop = e.next_hop /\ UntimedEntry(e).cost = e.cost
             /\ UntimedEntry(e).dirty = e.dirty
  BY Zenon DEF UntimedEntry
<1> HIDE DEF ut
<1>3. \A d \in DOMAIN ut : /\ ut[d].next_hop = tbl[d].next_hop /\ ut[d].cost = tbl[d].cost
                           /\ ut[d].dirty = tbl[d].dirty
  BY <1>1, <1>2
<1>4. \A d \in DOMAIN ut : d \in RoutesToSend(ut) <=> d \in RoutesToSend(tbl)
  BY <1>1, <1>3, Zenon DEF RoutesToSend
<1>5. UntimedTable(Cleared(tbl)) = Cleared(ut)
  <2>1. DOMAIN Cleared(tbl) = DOMAIN tbl /\ DOMAIN Cleared(ut) = DOMAIN ut
    BY Zenon DEF Cleared
  <2>2. ASSUME NEW d \in DOMAIN ut
        PROVE  UntimedEntry(Cleared(tbl)[d]) = Cleared(ut)[d]
    <3>1. d \in DOMAIN tbl /\ ut[d] = UntimedEntry(tbl[d]) /\ tbl[d] \in RouteEntry
      BY <1>1, Zenon DEF IsForwardingTable
    <3>2. /\ Cleared(tbl)[d] = IF d \in RoutesToSend(tbl) THEN [tbl[d] EXCEPT !.dirty = FALSE] ELSE tbl[d]
          /\ Cleared(ut)[d] = IF d \in RoutesToSend(ut) THEN [ut[d] EXCEPT !.dirty = FALSE] ELSE ut[d]
      BY <3>1, Zenon DEF Cleared
    <3>3. \A e \in RouteEntry :
             UntimedEntry([e EXCEPT !.dirty = FALSE]) = [UntimedEntry(e) EXCEPT !.dirty = FALSE]
      <4> SUFFICES ASSUME NEW e \in RouteEntry
                   PROVE  UntimedEntry([e EXCEPT !.dirty = FALSE]) = [UntimedEntry(e) EXCEPT !.dirty = FALSE]
        BY Zenon
      <4> DEFINE Clean(r) == [r EXCEPT !.dirty = FALSE]
      <4>1. \A r \in RouteEntry : /\ Clean(r) \in RouteEntry
                                  /\ Clean(r).next_hop = r.next_hop /\ Clean(r).cost = r.cost
                                  /\ Clean(r).dirty = FALSE /\ Clean(r).last_updated = r.last_updated
        BY Zenon DEF RouteEntry
      <4> HIDE DEF Clean
      <4>2. \A r \in RouteEntry : UntimedEntry(r) \in RouteEntry /\ UntimedEntry(r).last_updated = 0
        BY Zenon, 0 \in Nat DEF RouteEntry, UntimedEntry
      <4> DEFINE x == UntimedEntry(Clean(e))
                 y == Clean(UntimedEntry(e))
      <4>3. /\ x \in RouteEntry /\ y \in RouteEntry
            /\ x.next_hop = y.next_hop /\ x.cost = y.cost /\ x.dirty = y.dirty
            /\ x.last_updated = y.last_updated
        <5>1. Clean(e) \in RouteEntry /\ UntimedEntry(e) \in RouteEntry
          BY <4>1, <4>2, Zenon
        <5>2. /\ x \in RouteEntry /\ x.next_hop = e.next_hop /\ x.cost = e.cost
              /\ x.dirty = FALSE /\ x.last_updated = 0
          BY <1>2, <4>1, <4>2, <5>1
        <5>3. /\ y \in RouteEntry /\ y.next_hop = e.next_hop /\ y.cost = e.cost
              /\ y.dirty = FALSE /\ y.last_updated = 0
          BY <1>2, <4>1, <4>2, <5>1
        <5> HIDE DEF x, y
        <5> QED BY <5>2, <5>3, Zenon
      <4> HIDE DEF x, y
      <4>4. x = y
        BY <4>3 DEF RouteEntry
      <4> QED BY <4>4, Zenon DEF x, y, Clean
    <3> QED BY <1>4, <3>1, <3>2, <3>3, Zenon
  <2>3. Cleared(ut) = [d \in DOMAIN ut |-> Cleared(ut)[d]]
    BY Zenon DEF Cleared
  <2> QED BY <1>1, <2>1, <2>2, <2>3, Zenon DEF UntimedTable
<1>6. \A n : Dest \in DOMAIN tbl => CostFor(ut, n, Dest) = CostFor(tbl, n, Dest)
  BY <1>1, <1>3, Zenon DEF CostFor
<1>7. ASSUME NEW S
      PROVE  UntimedTable(Erase(tbl, S)) = IF Dest \in S THEN Erase(ut, {Dest}) ELSE ut
  <2>1. DOMAIN Erase(tbl, S) = DOMAIN tbl \ S /\ \A d \in DOMAIN tbl \ S : Erase(tbl, S)[d] = tbl[d]
    BY Zenon DEF Erase
  <2>2. CASE Dest \in S
    <3>1. DOMAIN Erase(tbl, S) \cap {Dest} = {} /\ DOMAIN ut \ {Dest} = {}
      BY <1>1, <2>1, <2>2, Zenon
    <3> QED BY <2>2, <3>1, Zenon DEF UntimedTable, Erase
  <2>3. CASE Dest \notin S
    <3>1. DOMAIN Erase(tbl, S) \cap {Dest} = DOMAIN ut
      BY <1>1, <2>1, <2>3, Zenon
    <3>2. \A d \in DOMAIN ut : UntimedEntry(Erase(tbl, S)[d]) = ut[d]
      BY <1>1, <2>1, <2>3, Zenon
    <3>3. ut = [d \in DOMAIN ut |-> ut[d]]
      BY Zenon DEF ut, UntimedTable
    <3> QED BY <2>3, <3>1, <3>2, <3>3, Zenon DEF UntimedTable
  <2> QED BY <2>2, <2>3, Zenon
<1>8. Dest \in DOMAIN ut <=> Dest \in DOMAIN tbl
  BY <1>1, Zenon
<1>9. Dest \in RoutesToSend(ut) <=> Dest \in RoutesToSend(tbl)
  BY <1>4, <1>8, Zenon DEF RoutesToSend
<1>10. Dest \in DOMAIN tbl => ut[Dest].cost = tbl[Dest].cost /\ ut[Dest].dirty = tbl[Dest].dirty
  BY <1>3, <1>8, Zenon
<1> QED BY <1>5, <1>6, <1>7, <1>8, <1>9, <1>10, Zenon DEF ut

\* What the updates of send_triggered_updates and broadcast_full_table say
\* about Dest.
LEMMA UntimedSaid ==
    ASSUME NEW tbl, NEW S
    PROVE  /\ Said({[to |-> n, costs |-> TriggeredUpdate(tbl, n)] : n \in S}) =
                 IF Dest \in RoutesToSend(tbl) THEN {[to |-> n, cost |-> CostFor(tbl, n, Dest)] : n \in S} ELSE {}
           /\ Said({[to |-> n, costs |-> FullTable(tbl, n)] : n \in S}) =
                 IF Dest \in DOMAIN tbl THEN {[to |-> n, cost |-> CostFor(tbl, n, Dest)] : n \in S} ELSE {}
<1> DEFINE T(n) == [to |-> n, costs |-> TriggeredUpdate(tbl, n)]
           F(n) == [to |-> n, costs |-> FullTable(tbl, n)]
           Tell == {[to |-> n, cost |-> CostFor(tbl, n, Dest)] : n \in S}
<1>1. \A n : /\ T(n).to = n /\ F(n).to = n
             /\ Dest \in DOMAIN T(n).costs <=> Dest \in RoutesToSend(tbl)
             /\ Dest \in DOMAIN F(n).costs <=> Dest \in DOMAIN tbl
             /\ Dest \in RoutesToSend(tbl) => T(n).costs[Dest] = CostFor(tbl, n, Dest)
             /\ Dest \in DOMAIN tbl => F(n).costs[Dest] = CostFor(tbl, n, Dest)
  BY Zenon DEF TriggeredUpdate, FullTable
<1> HIDE DEF T, F
<1>2. Said({T(n) : n \in S}) = IF Dest \in RoutesToSend(tbl) THEN Tell ELSE {}
  BY <1>1 DEF Said
<1>3. Said({F(n) : n \in S}) = IF Dest \in DOMAIN tbl THEN Tell ELSE {}
  BY <1>1 DEF Said
<1> QED BY <1>2, <1>3, Zenon DEF T, F

\* The operators of RouteTable that UntimedRouter uses are those the router
\* uses.
LEMMA UntimedOperators ==
    /\ \A vs, p, t : Untimed!Touch(vs, p, t) = Touch(vs, p, t)
    /\ \A f, S : Untimed!Erase(f, S) = Erase(f, S)
    /\ \A vs, p, costs, t : Untimed!ApplyUpdate(vs, p, costs, t) = ApplyUpdate(vs, p, costs, t)
    /\ \A vs, order, tbl, t :
          Untimed!Recalculated(Self, vs, order, tbl, t) = Recalculated(Self, vs, order, tbl, t)
    /\ \A tbl : Untimed!RoutesToSend(tbl) = RoutesToSend(tbl)
    /\ \A tbl : Untimed!Cleared(tbl) = Cleared(tbl)
    /\ \A tbl, n, d : Untimed!CostFor(tbl, n, d) = CostFor(tbl, n, d)
    /\ \A f : Untimed!ForDest(f) = ForDest(f)
<1>1. \A vs, p, t : Untimed!Touch(vs, p, t) = Touch(vs, p, t)
  BY Zenon DEF Untimed!Touch, Untimed!NoRoutes, Touch, NoRoutes
<1>2. \A f, S : Untimed!Erase(f, S) = Erase(f, S)
  BY Zenon DEF Untimed!Erase, Erase
<1>3. \A vs, p, costs, t : Untimed!ApplyUpdate(vs, p, costs, t) = ApplyUpdate(vs, p, costs, t)
  BY Zenon DEF Untimed!ApplyUpdate, Untimed!Learn, Untimed!NoRoutes, ApplyUpdate, Learn, NoRoutes
<1>4. ASSUME NEW vs, NEW order, NEW tbl, NEW t
      PROVE  Untimed!Recalculated(Self, vs, order, tbl, t) = Recalculated(Self, vs, order, tbl, t)
  <2>1. /\ \A d : Untimed!FirstBest(vs, order, d) = FirstBest(vs, order, d)
        /\ \A n, d : Untimed!TotalCost(vs, n, d) = TotalCost(vs, n, d)
    BY Zenon DEF Untimed!FirstBest, Untimed!Via, Untimed!TotalCost, FirstBest, Via, TotalCost
  <2>2. \A d : Untimed!BestRoute(Self, vs, order, d) = BestRoute(Self, vs, order, d)
    BY <2>1, Zenon DEF Untimed!BestRoute, BestRoute
  <2>3. Untimed!Known(Self, vs) = Known(Self, vs)
    BY Zenon DEF Untimed!Known, Untimed!Via, Untimed!TotalCost, Known, Via, TotalCost
  <2>4. /\ \A e : Untimed!LostEntry(e, t) = LostEntry(e, t) /\ Untimed!NewEntry(e, t) = NewEntry(e, t)
        /\ \A e, r : Untimed!SameRoute(e, r) <=> SameRoute(e, r)
    BY Zenon DEF Untimed!LostEntry, Untimed!NewEntry, Untimed!SameRoute, LostEntry, NewEntry, SameRoute
  <2> DEFINE New(d) == IF d \in Known(Self, vs)
                       THEN IF d \in DOMAIN tbl /\ SameRoute(tbl[d], BestRoute(Self, vs, order, d))
                            THEN tbl[d] ELSE NewEntry(BestRoute(Self, vs, order, d), t)
                       ELSE LostEntry(tbl[d], t)
             UntimedNew(d) == IF d \in Untimed!Known(Self, vs)
                       THEN IF d \in DOMAIN tbl /\ Untimed!SameRoute(tbl[d], Untimed!BestRoute(Self, vs, order, d))
                            THEN tbl[d] ELSE Untimed!NewEntry(Untimed!BestRoute(Self, vs, order, d), t)
                       ELSE Untimed!LostEntry(tbl[d], t)
  <2>5. \A d : UntimedNew(d) = New(d)
    BY <2>2, <2>3, <2>4
  <2>6. /\ Recalculated(Self, vs, order, tbl, t) = [d \in DOMAIN tbl \cup Known(Self, vs) |-> New(d)]
        /\ Untimed!Recalculated(Self, vs, order, tbl, t) =
              [d \in DOMAIN tbl \cup Untimed!Known(Self, vs) |-> UntimedNew(d)]
    BY Zenon DEF Untimed!Recalculated, Recalculated
  <2> HIDE DEF New, UntimedNew
  <2> QED BY <2>3, <2>5, <2>6, Zenon
<1>5. \A tbl : Untimed!RoutesToSend(tbl) = RoutesToSend(tbl)
  BY Zenon DEF Untimed!RoutesToSend, RoutesToSend
<1>6. \A tbl : Untimed!Cleared(tbl) = Cleared(tbl)
  BY <1>5, Zenon DEF Untimed!Cleared, Cleared
<1>7. /\ \A tbl, n, d : Untimed!CostFor(tbl, n, d) = CostFor(tbl, n, d)
      /\ \A f : Untimed!ForDest(f) = ForDest(f)
  BY Zenon DEF Untimed!CostFor, CostFor, Untimed!ForDest, ForDest
<1> QED BY <1>1, <1>2, <1>3, <1>4, <1>5, <1>6, <1>7, Zenon

\* The iteration order of neighbor_views_ is always one of Orders.
LEMMA OrderIsKnown == Spec => [](order_ \in Orders)
<1>1. Init => order_ \in Orders
  <2>1. (CHOOSE o \in Orders : TRUE) \in Orders
    BY RouterAssumption, Zenon
  <2> QED BY <2>1, Zenon DEF Init
<1>2. order_ \in Orders /\ [Next]_vars => (order_ \in Orders)'
  BY Zenon DEF Next, PeerConnected, PeerDisconnected, RoutingUpdate, DataPacket, Recalculate,
               OrdersAfterInsert, Maintenance, Tick, vars
<1> QED BY <1>1, <1>2, PTL DEF Spec

\* An event that ends in recalculate_forwarding_table_locked is a step of
\* UntimedRouter.
LEMMA UntimedEvent ==
    ASSUME RouterIInv, NEW vs, IsNeighborViews(vs), NEW order \in Orders,
           Recalculate(vs, order), outgoing' = {}
    PROVE  Untimed!Hear(UntimedViews(vs))
<1>1. order \in IterationOrder
  BY RouterAssumption, Zenon
<1>2. UntimedTable(forwarding_table_') =
         ForDest(Recalculated(Self, UntimedViews(vs), order, UntimedTable(forwarding_table_), 0))
  BY <1>1, UntimedRecalc, Zenon DEF Recalculate
<1>3. UntimedTable(forwarding_table_') = Untimed!Recalc(UntimedViews(vs), order)
  BY <1>2, UntimedOperators, Zenon DEF Untimed!Recalc
<1>4. UntimedViews(neighbor_views_') = UntimedViews(vs)
  BY Zenon DEF Recalculate
<1>5. Said(outgoing') = {}
  BY Zenon DEF Said
<1> QED BY <1>3, <1>4, <1>5, Zenon DEF Untimed!Hear

\* run_periodic_maintenance is a step of UntimedRouter.  A dead route that
\* is forgotten has been announced: the hold exceeds the debounce.
LEMMA UntimedMaintenance ==
    ASSUME RouterIInv, order_ \in Orders, Maintenance
    PROVE  Untimed!Maintain(Expired, TriggerDue, FullUpdateDue)
<1> USE RouterAssumption
<1>0. TypeOK /\ order_ \in IterationOrder /\ Self \in Node
  BY Zenon DEF RouterIInv, TypeOK
<1> DEFINE us == UntimedViews(neighbor_views_)
           ut == UntimedTable(forwarding_table_)
           live == Untimed!Erase(us, Expired)
           lost == IF Expired = {} THEN ut ELSE Untimed!Recalc(live, order_)
           sent == IF TriggerDue THEN Untimed!Cleared(lost) ELSE lost
<1>1. live = UntimedViews(LiveViews) /\ DOMAIN live = DOMAIN LiveViews
  <2>1. UntimedViews(LiveViews) = Erase(us, Expired)
    BY <1>0, UntimedUpdates, Zenon DEF LiveViews, TypeOK
  <2>2. DOMAIN UntimedViews(LiveViews) = DOMAIN LiveViews
    BY Zenon DEF UntimedViews
  <2> QED BY <2>1, <2>2, UntimedOperators, Zenon
<1>2. IsForwardingTable(ExpiredTable) /\ IsForwardingTable(SentTable) /\ IsNeighborViews(LiveViews)
  BY MaintenanceTables, Zenon
<1>3. lost = UntimedTable(ExpiredTable)
  <2>1. CASE Expired = {}
    BY <2>1, Zenon DEF ExpiredTable
  <2>2. CASE Expired # {}
    <3>1. ExpiredTable = Recalculated(Self, LiveViews, order_, forwarding_table_, clock)
      BY <2>2, Zenon DEF ExpiredTable
    <3>2. UntimedTable(ExpiredTable) = ForDest(Recalculated(Self, UntimedViews(LiveViews), order_, ut, 0))
      BY <1>0, <1>2, <3>1, UntimedRecalc, Zenon
    <3>3. Untimed!Recalc(UntimedViews(LiveViews), order_) =
             ForDest(Recalculated(Self, UntimedViews(LiveViews), order_, ut, 0))
      BY UntimedOperators, Zenon DEF Untimed!Recalc
    <3> QED BY <1>1, <2>2, <3>2, <3>3, Zenon
  <2> QED BY <2>1, <2>2, Zenon
<1>4. sent = UntimedTable(SentTable)
  <2>1. UntimedTable(Cleared(ExpiredTable)) = Cleared(lost)
    BY <1>2, <1>3, UntimedSends, Zenon
  <2> QED BY <1>3, <2>1, UntimedOperators, Zenon DEF SentTable
<1> HIDE DEF lost, sent, live
<1>5. Said(outgoing') =
         (IF TriggerDue /\ Dest \in Untimed!RoutesToSend(lost) THEN Untimed!Tell(lost, DOMAIN live) ELSE {})
         \cup (IF FullUpdateDue /\ Dest \in DOMAIN sent THEN Untimed!Tell(sent, DOMAIN live) ELSE {})
  <2>1. Said(outgoing') = Said(Triggered) \cup Said(Full)
    <3>1. \A A, B : Said(A \cup B) = Said(A) \cup Said(B)
      BY Zenon DEF Said
    <3> QED BY <3>1, Zenon DEF Maintenance
  <2>2. \A tbl : IsForwardingTable(tbl) /\ Dest \in DOMAIN tbl =>
           {[to |-> n, cost |-> CostFor(tbl, n, Dest)] : n \in DOMAIN live} =
              Untimed!Tell(UntimedTable(tbl), DOMAIN live)
    <3> SUFFICES ASSUME NEW tbl, IsForwardingTable(tbl), Dest \in DOMAIN tbl
                 PROVE  {[to |-> n, cost |-> CostFor(tbl, n, Dest)] : n \in DOMAIN live} =
                           Untimed!Tell(UntimedTable(tbl), DOMAIN live)
      BY Zenon
    <3>1. \A n : CostFor(tbl, n, Dest) = Untimed!CostFor(UntimedTable(tbl), n, Dest)
      BY UntimedSends, UntimedOperators, Zenon
    <3> QED BY <3>1, Zenon DEF Untimed!Tell
  <2>3. Said({}) = {}
    BY Zenon DEF Said
  <2>4. Said(Triggered) =
           IF TriggerDue /\ Dest \in Untimed!RoutesToSend(lost) THEN Untimed!Tell(lost, DOMAIN live) ELSE {}
    <3>1. Dest \in Untimed!RoutesToSend(lost) <=> Dest \in RoutesToSend(ExpiredTable)
      BY <1>2, <1>3, UntimedSends, UntimedOperators, Zenon
    <3>2. Dest \in RoutesToSend(ExpiredTable) => Dest \in DOMAIN ExpiredTable
      BY Zenon DEF RoutesToSend
    <3>3. CASE TriggerDue /\ RoutesToSend(ExpiredTable) # {}
      <4>1. Said(Triggered) = IF Dest \in RoutesToSend(ExpiredTable)
               THEN {[to |-> n, cost |-> CostFor(ExpiredTable, n, Dest)] : n \in DOMAIN live} ELSE {}
        BY <1>1, <3>3, UntimedSaid, Zenon DEF Triggered
      <4> QED BY <1>2, <1>3, <2>2, <3>1, <3>2, <3>3, <4>1, Zenon
    <3>4. CASE ~(TriggerDue /\ RoutesToSend(ExpiredTable) # {})
      BY <2>3, <3>1, <3>4, Zenon DEF Triggered
    <3> QED BY <3>3, <3>4, Zenon
  <2>5. Said(Full) = IF FullUpdateDue /\ Dest \in DOMAIN sent THEN Untimed!Tell(sent, DOMAIN live) ELSE {}
    <3>1. Dest \in DOMAIN sent <=> Dest \in DOMAIN SentTable
      BY <1>2, <1>4, UntimedSends, Zenon
    <3>2. CASE FullUpdateDue
      <4>1. Said(Full) = IF Dest \in DOMAIN SentTable
               THEN {[to |-> n, cost |-> CostFor(SentTable, n, Dest)] : n \in DOMAIN live} ELSE {}
        BY <1>1, <3>2, UntimedSaid, Zenon DEF Full
      <4> QED BY <1>2, <1>4, <2>2, <3>1, <3>2, <4>1, Zenon
    <3>3. CASE ~FullUpdateDue
      BY <2>3, <3>3, Zenon DEF Full
    <3> QED BY <3>2, <3>3, Zenon
  <2> QED BY <2>1, <2>4, <2>5, Zenon
<1>6. \/ UntimedTable(forwarding_table_') = sent
      \/ /\ Dest \in DOMAIN sent
         /\ sent[Dest].cost >= INF_COST /\ ~sent[Dest].dirty
         /\ UntimedTable(forwarding_table_') = Untimed!Erase(sent, {Dest})
  <2>1. UntimedTable(forwarding_table_') = IF Dest \in DeadRoutes(SentTable) THEN Erase(sent, {Dest}) ELSE sent
    BY <1>2, <1>4, UntimedSends, Zenon DEF Maintenance
  <2>2. ASSUME Dest \in DeadRoutes(SentTable)
        PROVE  Dest \in DOMAIN sent /\ sent[Dest].cost >= INF_COST /\ ~sent[Dest].dirty
    <3>1. /\ Dest \in DOMAIN SentTable /\ SentTable[Dest].cost >= INF_COST
          /\ clock > SentTable[Dest].last_updated + DEAD_ROUTE_HOLD
      BY <2>2, Zenon DEF DeadRoutes
    <3>2. ASSUME SentTable[Dest].dirty PROVE FALSE
      <4>1. /\ ~TriggerDue /\ Dest \in DOMAIN ExpiredTable /\ ExpiredTable[Dest].dirty
            /\ clock > ExpiredTable[Dest].last_updated + DEAD_ROUTE_HOLD
        BY <3>1, <3>2, MaintenanceTables, Zenon
      <4>2. Dest \in DOMAIN forwarding_table_ /\ ExpiredTable[Dest] = forwarding_table_[Dest]
        <5>1. ExpiredTable[Dest].last_updated # clock
          BY <1>0, <4>1 DEF TypeOK
        <5> QED BY <4>1, <5>1, MaintenanceTables, Zenon
      <4>3. /\ trigger_pending_
            /\ trigger_deadline_ <= forwarding_table_[Dest].last_updated + TRIGGER_DEBOUNCE
        BY <4>1, <4>2, Zenon DEF RouterIInv, ChangeIsScheduled
      <4>4. forwarding_table_[Dest].last_updated \in Nat
        BY <1>0, <4>2, Zenon DEF TypeOK, IsForwardingTable, RouteEntry
      <4> QED BY <1>0, <4>1, <4>2, <4>3, <4>4, HoldAssumption DEF TypeOK, TriggerDue
    <3> QED BY <1>2, <1>4, <3>1, <3>2, UntimedSends, Zenon
  <2> QED BY <2>1, <2>2, UntimedOperators, Zenon
<1>7. UntimedViews(neighbor_views_') = live
  BY <1>1, Zenon DEF Maintenance
<1> QED BY <1>5, <1>6, <1>7, Zenon DEF Untimed!Maintain, live, lost, sent

\* Every step of a router is, for every destination and without the clock, a
\* step of UntimedRouter: the steps RouterNetwork builds the protocol from.
\* So entries for different destinations do not influence each other, and
\* what the timers add is only when a step is taken.
THEOREM RouterIsUntimed == Spec => Untimed!UntimedSpec
<1>1. Init => Untimed!UntimedInit
  <2> SUFFICES ASSUME Init PROVE Untimed!UntimedInit
    BY Zenon
  <2> DEFINE e == [next_hop |-> Self, cost |-> 0, dirty |-> FALSE, last_updated |-> 0]
  <2>1. UntimedViews(neighbor_views_) = [n \in {} |-> <<>>]
    <3>1. DOMAIN neighbor_views_ = {}
      BY Zenon DEF Init
    <3> QED BY <3>1, Zenon DEF UntimedViews
  <2>2. UntimedTable(forwarding_table_) = Untimed!ForDest([d \in {Self} |-> e])
    <3>1. UntimedEntry(e) = e
      BY Zenon DEF UntimedEntry
    <3>2. DOMAIN forwarding_table_ = {Self} /\ \A d \in {Self} : forwarding_table_[d] = e
      BY Zenon DEF Init
    <3> HIDE DEF e
    <3> QED BY <3>1, <3>2, Zenon DEF UntimedTable, Untimed!ForDest
  <2>3. Said(outgoing) = {}
    BY Zenon DEF Init, Said
  <2> QED BY <2>1, <2>2, <2>3, Zenon DEF Untimed!UntimedInit
<1>2. ASSUME RouterIInv, order_ \in Orders, Next
      PROVE  Untimed!UntimedNext
  <2> USE RouterAssumption
  <2>0. TypeOK /\ IsNeighborViews(neighbor_views_) /\ clock \in Nat /\ Peers \subseteq Node
    BY <1>2, Zenon DEF RouterIInv, TypeOK
  <2> DEFINE us == UntimedViews(neighbor_views_)
  <2>1. ASSUME NEW p \in Peers, PeerConnected(p) PROVE Untimed!UntimedNext
    <3>1. PICK o \in Orders : Recalculate(Touch(neighbor_views_, p, clock), o)
      BY <1>2, <2>1, Zenon DEF PeerConnected, OrdersAfterInsert
    <3>2. p \in Node /\ IsNeighborViews(Touch(neighbor_views_, p, clock))
      BY <2>0, ViewsType, Zenon
    <3>3. Untimed!Hear(UntimedViews(Touch(neighbor_views_, p, clock)))
      BY <1>2, <2>1, <3>1, <3>2, UntimedEvent, Zenon DEF PeerConnected, TakeEvent
    <3>4. UntimedViews(Touch(neighbor_views_, p, clock)) = Untimed!Touch(us, p, 0)
      BY <2>0, <3>2, UntimedUpdates, UntimedOperators, Zenon
    <3> QED BY <3>2, <3>3, <3>4, Zenon DEF Untimed!UntimedNext, Untimed!Connect
  <2>2. ASSUME NEW p \in Peers, PeerDisconnected(p) PROVE Untimed!UntimedNext
    <3>1. p \in Node /\ IsNeighborViews(Erase(neighbor_views_, {p}))
      BY <2>0, ViewsType, Zenon
    <3>2. Untimed!Hear(UntimedViews(Erase(neighbor_views_, {p})))
      BY <1>2, <2>2, <3>1, UntimedEvent, Zenon DEF PeerDisconnected, TakeEvent
    <3>3. UntimedViews(Erase(neighbor_views_, {p})) = Untimed!Erase(us, {p})
      BY <2>0, <3>1, UntimedUpdates, UntimedOperators, Zenon
    <3> QED BY <3>1, <3>2, <3>3, Zenon DEF Untimed!UntimedNext, Untimed!Disconnect
  <2>3. ASSUME NEW p \in Peers, NEW costs \in Updates, RoutingUpdate(p, costs) PROVE Untimed!UntimedNext
    <3> DEFINE new == ApplyUpdate(neighbor_views_, p, costs, clock)
    <3>1. PICK o \in Orders : Recalculate(new, o)
      BY <1>2, <2>3, Zenon DEF RoutingUpdate, OrdersAfterInsert
    <3>2. p \in Node /\ p # Self /\ IsRouteCosts(costs) /\ IsNeighborViews(new)
      BY <2>0, <2>3, ViewsType, Zenon DEF RoutingUpdate
    <3>3. Untimed!Hear(UntimedViews(new))
      BY <1>2, <2>3, <3>1, <3>2, UntimedEvent, Zenon DEF RoutingUpdate, TakeEvent
    <3>4. CASE Dest \in DOMAIN costs
      <4>1. /\ KeptCost(costs) \in 0..INF_COST
            /\ UntimedViews(new) = ApplyUpdate(us, p, OfferOf(costs), 0)
        BY <2>0, <3>2, <3>4, UntimedOffers, Zenon
      <4>2. Untimed!Offer(p, KeptCost(costs))
        BY <3>3, <4>1, UntimedOperators, Zenon DEF Untimed!Offer, OfferOf
      <4> QED BY <3>2, <4>1, <4>2, Zenon DEF Untimed!UntimedNext
    <3>5. CASE Dest \notin DOMAIN costs
      <4>1. UntimedViews(new) = Untimed!Touch(us, p, 0)
        BY <2>0, <3>2, <3>5, UntimedOffers, UntimedOperators, Zenon
      <4> QED BY <3>2, <3>3, <4>1, Zenon DEF Untimed!UntimedNext, Untimed!Connect
    <3> QED BY <3>4, <3>5, Zenon
  <2>4. Said({}) = {}
    BY Zenon DEF Said
  <2>5. ASSUME NEW p \in Peers, DataPacket(p) PROVE Untimed!UntimedNext
    <3>1. p \in Node /\ p \in DOMAIN neighbor_views_
      BY <2>0, <2>5, Zenon DEF DataPacket
    <3>2. UntimedViews(neighbor_views_') = us
      BY <2>0, <2>5, <3>1, UntimedUpdates, Zenon DEF DataPacket
    <3>3. UntimedTable(forwarding_table_') = UntimedTable(forwarding_table_) /\ Said(outgoing') = {}
      BY <2>4, <2>5, Zenon DEF DataPacket, TakeEvent
    <3> QED BY <3>2, <3>3, Zenon DEF Untimed!UntimedNext, Untimed!Idle
  <2>6. CASE Maintenance
    <3>1. Untimed!Maintain(Expired, TriggerDue, FullUpdateDue)
      BY <1>2, <2>6, UntimedMaintenance, Zenon
    <3>2. Expired \in SUBSET DOMAIN us
      BY Zenon DEF Expired, UntimedViews
    <3>3. TriggerDue \in BOOLEAN /\ FullUpdateDue \in BOOLEAN
      BY <2>0, SMT DEF TriggerDue, FullUpdateDue, TypeOK
    <3> QED BY <3>1, <3>2, <3>3, Zenon DEF Untimed!UntimedNext
  <2>7. CASE Tick
    <3>1. /\ UntimedViews(neighbor_views_') = us
          /\ UntimedTable(forwarding_table_') = UntimedTable(forwarding_table_) /\ Said(outgoing') = {}
      BY <2>4, <2>7, Zenon DEF Tick
    <3> QED BY <3>1, Zenon DEF Untimed!UntimedNext, Untimed!Idle
  <2> QED BY <1>2, <2>1, <2>2, <2>3, <2>5, <2>6, <2>7, Zenon DEF Next
<1>3. UNCHANGED vars => UNCHANGED Untimed!untimedVars
  BY Zenon DEF vars, Untimed!untimedVars
<1>4. RouterIInv /\ order_ \in Orders /\ [Next]_vars => [Untimed!UntimedNext]_(Untimed!untimedVars)
  BY <1>2, <1>3, Zenon
<1>5. Spec => []RouterIInv
  BY RouterInitIInv, RouterNextIInv, PTL DEF Spec
<1> QED BY <1>1, <1>4, <1>5, OrderIsKnown, PTL DEF Spec, Untimed!UntimedSpec

=============================================================================
