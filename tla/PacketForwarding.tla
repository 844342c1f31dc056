-------------------------- MODULE PacketForwarding --------------------------
(***************************************************************************)
(* The data plane of the mesh: MeshRouter::route_data_packet on every      *)
(* node, with what MeshNode does when a packet is for it.  Packets are     *)
(* unencrypted, every node has a handler that replies, and requests are    *)
(* still tracked when their responses arrive (RequestTracker is about the  *)
(* timeouts).  The forwarding tables are RouterNetwork's subject: here     *)
(* determine_next_hop may return any result of a set, one result where the *)
(* routes are stable and several where they change.                        *)
(*                                                                         *)
(* What the applications send and what may go wrong meanwhile is load,     *)
(* which is chosen from Loads at the beginning.                            *)
(***************************************************************************)
EXTENDS Naturals, Sequences, FiniteSets

CONSTANTS Node,
          Everyone,      \* the empty destination id of a broadcast
          Neighbors,     \* Neighbors[n]: the keys of n's neighbor_views_
          REPLY_TTL,     \* the TTL of responses, 15 in the code
          UINT32_MAX,    \* TTLs are uint32
          Loads          \* of a load: sends, the packets sent, with their initial TTL;
                         \*   hops[n][d], the results determine_next_hop may give, {} or {h};
                         \*   expire, may packets be under way longer than keys are remembered?
                         \*   faults, the bound on faults of each kind

FaultKind == {"lose", "duplicate"}

Packet == [id : Nat, from : Node, to : Node \cup {Everyone}, ttl : 1..UINT32_MAX, expect_response : BOOLEAN]

ASSUME ForwardingAssumption ==
    /\ Everyone \notin Node
    /\ Neighbors \in [Node -> SUBSET Node]
    /\ UINT32_MAX \in Nat /\ REPLY_TTL \in 1..UINT32_MAX
    /\ \A l \in Loads :
          /\ l.sends \subseteq Packet
          /\ \A n, d \in Node : \A H \in l.hops[n][d] : H \subseteq Neighbors[n] \cup {n} /\ \A g, h \in H : g = h
          /\ l.expire \in BOOLEAN
          /\ l.faults \in [FaultKind -> Nat]

Sends == UNION {l.sends : l \in Loads}

ASSUME IdsAreUnique == \A p, q \in Sends : p.id = q.id => p = q

\* Requests and responses are not told apart.
FaultyKey(p) == <<p.id, FALSE>>

Key(p) == <<p.id, p.expect_response>>
Ids == {p.id : p \in Sends}
Keys == Ids \X BOOLEAN

VARIABLES
    load,
    sent,        \* the packets that have been sent
    net,         \* how many of each copy are under way: UDP may reorder and duplicate them
    seen,        \* seen_packet_ids_ of every node, oldest key first
    tracked,     \* the ids in request_tracker_ of every node
    answers,     \* answers[i][n]: responses of n handed to the requester of i
    delivered,   \* delivered[n][k]: calls of on_packet_for_me_cb_
    relays,      \* relays[n][k]: copies from others that n has let pass on since it last forgot k
    faults       \* faults of each kind so far

vars == <<load, sent, net, seen, tracked, answers, delivered, relays, faults>>

NothingUnderway == [c \in {} |-> 0]

\* One more of every copy in S, and one less of copy c.
With(B, S) == [e \in DOMAIN B \cup S |-> (IF e \in DOMAIN B THEN B[e] ELSE 0) + (IF e \in S THEN 1 ELSE 0)]
Without(B, c) == [e \in {d \in DOMAIN B : d # c \/ B[d] > 1} |-> IF e = c THEN B[e] - 1 ELSE B[e]]

Init ==
    /\ load \in Loads
    /\ sent = {}
    /\ net = NothingUnderway
    /\ seen = [n \in Node |-> <<>>]
    /\ tracked = [n \in Node |-> {}]
    /\ answers = [i \in Ids |-> [n \in Node |-> 0]]
    /\ delivered = [n \in Node |-> [k \in Keys |-> 0]]
    /\ relays = [n \in Node |-> [k \in Keys |-> 0]]
    /\ faults = [f \in FaultKind |-> 0]

-----------------------------------------------------------------------------
(* TimedDedupSet.                                                          *)

Contains(s, k) == \E i \in 1..Len(s) : s[i] = k

Insert(s, k) == IF Contains(s, k) THEN s ELSE Append(s, k)

-----------------------------------------------------------------------------
(* route_data_packet, from the duplicate check on.                         *)

\* The TTL is not counted down.
FaultyDecremented(ttl) == ttl

\* set_ttl(ttl() - 1) on a uint32.
Decremented(ttl) == IF ttl = 0 THEN UINT32_MAX ELSE ttl - 1

NextHopChoices(n, p) == IF p.to = Everyone THEN {Neighbors[n]} ELSE load.hops[n][p.to]

\* The TTL is checked one too early.
FaultyLastHop(n, src, p, hops) ==
    IF Decremented(p.ttl) <= 1 THEN {}
    ELSE {[src |-> n, dst |-> h, pkt |-> [p EXCEPT !.ttl = Decremented(@)]] : h \in hops \ {src, n}}

\* The copies n sends of a packet that came from src, which is n for its own
\* packets, when hops are the next hops.
Copies(n, src, p, hops) ==
    IF Decremented(p.ttl) <= 0 THEN {}
    ELSE {[src |-> n, dst |-> h, pkt |-> [p EXCEPT !.ttl = Decremented(@)]] : h \in hops \ {src, n}}

\* Duplicates are not dropped.
FaultyPasses(n, src, p) == TRUE

\* Packets of others are dropped when their key has been seen.
Passes(n, src, p) == src = n \/ ~Contains(seen[n], Key(p))

-----------------------------------------------------------------------------
(* The operations.                                                         *)

\* send_message, broadcast_message, send_request_async, broadcast_request: a
\* request is tracked before its packet is sent.  A packet to oneself stops
\* before the forwarding.
Send(p) ==
    /\ p \in load.sends \ sent
    /\ sent' = sent \cup {p}
    /\ tracked' = [tracked EXCEPT ![p.from] = IF p.expect_response THEN @ \cup {p.id} ELSE @]
    /\ IF p.to = p.from THEN UNCHANGED <<seen, net>>
       ELSE /\ seen' = [seen EXCEPT ![p.from] = Insert(@, Key(p))]
            /\ \E H \in NextHopChoices(p.from, p) :
                  net' = With(net, Copies(p.from, p.from, p, H))
    /\ UNCHANGED <<load, answers, delivered, relays, faults>>

Reply(n, p) == [id |-> p.id, from |-> n, to |-> p.from, ttl |-> REPLY_TTL, expect_response |-> FALSE]

\* A completed request stays tracked.
FaultyCompleted(p) == {}

\* The ids that leave the tracker with response p: complete_request erases a
\* request, a broadcast stays.
Completed(p) == {q.id : q \in {q \in Sends : q.id = p.id /\ q.to # Everyone}}

\* handle_packet for a copy c of a data packet.  A packet for this node goes
\* to handle_incoming_packet: a tracked id makes it a response, otherwise the
\* handler replies if a response is expected.  Only then comes the duplicate
\* check, for packets that are not for this node alone.
Receive(c) ==
    LET n       == c.dst
        p       == c.pkt
        forMe   == p.from # n /\ p.to \in {n, Everyone}
        answer  == forMe /\ p.id \in tracked[n]
        replies == forMe /\ ~answer /\ p.expect_response
        onward  == p.from # n /\ p.to # n /\ Passes(n, c.src, p)
    IN  /\ c \in DOMAIN net
        /\ delivered' = [delivered EXCEPT ![n][Key(p)] = IF forMe THEN @ + 1 ELSE @]
        /\ answers' = [answers EXCEPT ![p.id][p.from] = IF answer THEN @ + 1 ELSE @]
        /\ tracked' = [tracked EXCEPT ![n] = IF answer THEN @ \ Completed(p) ELSE @]
        /\ relays' = [relays EXCEPT ![n][Key(p)] = IF onward THEN @ + 1 ELSE @]
        /\ seen' = [seen EXCEPT ![n] =
                       LET s == IF replies THEN Insert(@, Key(Reply(n, p))) ELSE @
                       IN  IF onward THEN Insert(s, Key(p)) ELSE s]
        /\ \E R \in (IF replies THEN NextHopChoices(n, Reply(n, p)) ELSE {{}}),
              H \in (IF onward THEN NextHopChoices(n, p) ELSE {{}}) :
              net' = With(With(Without(net, c), Copies(n, n, Reply(n, p), R)), Copies(n, c.src, p, H))
        /\ UNCHANGED <<load, sent, faults>>

Fault(f) ==
    /\ faults[f] < load.faults[f]
    /\ faults' = [faults EXCEPT ![f] = @ + 1]

\* seen_packet_ids_.cleanup(): the keys older than 30 s, the first i, go.
Cleanup(n) ==
    /\ load.expire
    /\ \E i \in 1..Len(seen[n]) :
          /\ seen' = [seen EXCEPT ![n] = SubSeq(@, i + 1, Len(@))]
          /\ relays' = [relays EXCEPT ![n] = [k \in Keys |-> IF Contains(SubSeq(seen[n], 1, i), k) THEN 0 ELSE @[k]]]
    /\ UNCHANGED <<load, sent, net, tracked, answers, delivered, faults>>

\* A datagram, or a packet on a connection that breaks.
Lose(c) ==
    /\ c \in DOMAIN net
    /\ Fault("lose")
    /\ net' = Without(net, c)
    /\ UNCHANGED <<load, sent, seen, tracked, answers, delivered, relays>>

Duplicate(c) ==
    /\ c \in DOMAIN net
    /\ Fault("duplicate")
    /\ net' = With(net, {c})
    /\ UNCHANGED <<load, sent, seen, tracked, answers, delivered, relays>>

Next ==
    \/ \E p \in Sends : Send(p)
    \/ \E c \in DOMAIN net : Receive(c)
    \/ \E n \in Node : Cleanup(n)
    \/ \E c \in DOMAIN net : Lose(c)
    \/ \E c \in DOMAIN net : Duplicate(c)

\* The transport delivers what is not lost, and the routing threads run.
Fairness == WF_vars(\E c \in DOMAIN net : Receive(c))

Spec == Init /\ [][Next]_vars /\ Fairness

-----------------------------------------------------------------------------
(* Properties.                                                             *)

TypeOK ==
    /\ load \in Loads
    /\ sent \subseteq load.sends
    /\ net \in [DOMAIN net -> Nat \ {0}]
    /\ \A c \in DOMAIN net : c.src \in Node /\ c.dst \in Neighbors[c.src] /\ c.pkt \in Packet
    /\ \A n \in Node : \A i \in 1..Len(seen[n]) : seen[n][i] \in Keys
    /\ tracked \in [Node -> SUBSET Ids]
    /\ answers \in [Ids -> [Node -> Nat]]
    /\ delivered \in [Node -> [Keys -> Nat]]
    /\ relays \in [Node -> [Keys -> Nat]]
    /\ faults \in [FaultKind -> Nat]

\* As long as it remembers a request or response id, a node passes on what
\* others send it under that id only once: whatever the topology and the
\* routes, floods and loops do not multiply packets.  No copy is ever sent
\* with TTL 0, from which the next node would count down to UINT32_MAX.
PassedOnOnce == TypeOK /\ \A n \in Node, k \in Keys : relays[n][k] <= 1

\* A packet for one node, and the response to it, is handed to the node at
\* most once, unless the transport itself has duplicated a copy, however the
\* routes change while it is under way.
UnicastAtMostOnce ==
    \A p \in Sends : p.to # Everyone =>
        /\ delivered[p.to][Key(p)] <= 1 + faults["duplicate"]
        /\ answers[p.id][p.to] <= 1

\* Every packet stops: neither loops in the routes, nor cycles in the
\* topology, nor keys forgotten after 30 s keep a packet going for ever.
EventuallyQuiet == <>[](net = NothingUnderway)

\* No packet is lost or outlived by its keys, and every route is stable.
Calm ==
    /\ load.faults["lose"] = 0 /\ ~load.expire
    /\ \A n, d \in Node : Cardinality(load.hops[n][d]) = 1

\* A broadcast whose TTL exceeds the length of every path from the sender
\* reaches every other node, though a node only passes on the first copy it
\* gets, which may have come the longer way and have less TTL left.
BroadcastReachesAll ==
    \A p \in Sends : p.to = Everyone =>
        []<>(Calm /\ p \in sent => \A n \in Node \ {p.from} : delivered[n][Key(p)] > 0)

\* Along stable routes a request to one node gets its response, although both
\* carry the same id past the duplicate checks of the nodes between; and a
\* broadcast request gets those of all neighbours.  (The responses of the
\* nodes behind a neighbour have the key of its own, and are dropped by it if
\* they come later.)
RequestAnswered ==
    \A p \in Sends : p.expect_response /\ p.to # p.from =>
        []<>(Calm /\ p \in sent =>
            \A n \in (IF p.to = Everyone THEN Neighbors[p.from] ELSE {p.to}) : answers[p.id][n] > 0)
=============================================================================
