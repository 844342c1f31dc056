-------------------------- MODULE IdentityExchange --------------------------
(***************************************************************************)
(* How MeshNode exchanges public keys when messages are encrypted.  Every  *)
(* node has an application thread, which sends packets, and a routing      *)
(* thread, which handles the packets that arrive and runs the callbacks of *)
(* identity requests.  Both use the IdentityManager, whose mu_ covers one  *)
(* call at a time: a key may be added between the application's has_key    *)
(* and its buffer_outgoing_packet.  id_request_cooldowns_ has no lock.     *)
(*                                                                         *)
(* A node may run without encryption: it sends and reads plain packets,    *)
(* and it has no certificate, so that the key its peers store is empty.    *)
(*                                                                         *)
(* Encryption is abstracted to who has whose key; a packet that is         *)
(* secured with the destination's key can be read there, once the          *)
(* signature can be verified.                                              *)
(***************************************************************************)
EXTENDS Naturals, FiniteSets

CONSTANTS Node,
          None,
          MayBePlain,     \* the nodes that may run without encryption
          Sends           \* the packets of the applications: id, from, to, expect_response

Identity == [kind : {"request", "response"}, from : Node, to : Node, number : Nat]

ASSUME IdentityAssumption ==
    /\ None \notin Node /\ None \notin Sends /\ None \notin Identity
    /\ MayBePlain \subseteq Node
    /\ \A s \in Sends : s.from \in Node /\ s.to \in Node \ {s.from} /\ s.expect_response \in BOOLEAN
    /\ \A s, t \in Sends : s.id = t.id => s = t

Ids == {s.id : s \in Sends}
Packet == [id : Ids, from : Node, to : Node, reply : BOOLEAN, expect_response : BOOLEAN,
           payload : {"whole", "empty"}]

VARIABLES
    plain,                       \* the nodes without encryption
    trusted_keys_,               \* the peers whose key, or empty key, a node has
    pending_outgoing_packets_,
    pending_incoming_packets_,
    id_request_cooldowns_,       \* the peers a node has asked less than 5 s ago
    asked,                       \* how often a node has asked a peer
    tracked,                     \* the identity requests in a node's request_tracker_
    sent,                        \* the members of Sends that have been sent
    sending,                     \* the packet the application thread found no key for
    buffered,                    \* the application threads that have buffered it
    deciding,                    \* those that have found no cool-down and will ask
    installing,                  \* the identity message a routing thread has taken a key from
    net,                         \* packets and identity messages under way
    handled,                     \* the packets that were handled, decrypted if need be
    dropped,                     \* history: the packets secure_packet has failed for
    lost                         \* history: what was lost, and the identity requests that timed out

keys == <<trusted_keys_, pending_outgoing_packets_, pending_incoming_packets_>>
asking == <<id_request_cooldowns_, asked, tracked>>
application == <<sent, sending, buffered, deciding>>
history == <<plain, dropped, lost>>
vars == <<keys, asking, application, installing, net, handled, history>>

Init ==
    /\ plain \in SUBSET MayBePlain
    /\ trusted_keys_ = [n \in Node |-> {}]
    /\ pending_outgoing_packets_ = [n \in Node |-> {}]
    /\ pending_incoming_packets_ = [n \in Node |-> {}]
    /\ id_request_cooldowns_ = [n \in Node |-> {}]
    /\ asked = [n \in Node |-> [p \in Node |-> 0]]
    /\ tracked = [n \in Node |-> {}]
    /\ sent = {}
    /\ sending = [n \in Node |-> None]
    /\ buffered = {}
    /\ deciding = {}
    /\ installing = [n \in Node |-> None]
    /\ net = {}
    /\ handled = {}
    /\ dropped = {}
    /\ lost = {}

-----------------------------------------------------------------------------
(* should_send_identity_request and send_identity_request.                 *)

Request(n, p, k) == [kind |-> "request", from |-> n, to |-> p, number |-> k]

\* The time is noted before it is compared.
FaultyMayAsk(n, p) == FALSE

MayAsk(n, p) == p \notin id_request_cooldowns_[n]

AskNow(n, p, others) ==
    LET k == asked[n][p] + 1
    IN  /\ id_request_cooldowns_' = [id_request_cooldowns_ EXCEPT ![n] = @ \cup {p}]
        /\ asked' = [asked EXCEPT ![n][p] = k]
        /\ tracked' = [tracked EXCEPT ![n] = @ \cup {Request(n, p, k)}]
        /\ net' = others \cup {Request(n, p, k)}

\* The node asks unless it has asked a moment ago; others is what else is
\* under way.
Ask(n, p, others) ==
    IF MayAsk(n, p) THEN AskNow(n, p, others) ELSE net' = others /\ UNCHANGED asking

-----------------------------------------------------------------------------
(* secure_packet: the key it needs is that of the receiver, and it is not  *)
(* empty.                                                                  *)

Secured(p) == p.to \in trusted_keys_[p.from] /\ p.to \notin plain

\* What comes of packets that a node sends now.
Sendable(packets) == {p \in packets : p.from \in plain \/ Secured(p)}

-----------------------------------------------------------------------------
(* The application thread: send_message and send_request_async.            *)

\* The packet as it is made: its payload is given to secure_packet.
Made(s, payload) ==
    [id |-> s.id, from |-> s.from, to |-> s.to, reply |-> FALSE,
     expect_response |-> s.expect_response, payload |-> payload]

SendMessage(s) ==
    /\ s \in Sends \ sent /\ sending[s.from] = None
    /\ sent' = sent \cup {s}
    /\ IF s.from \in plain \/ s.to \in trusted_keys_[s.from]
       THEN LET packets == {Made(s, "whole")}
            IN  /\ net' = net \cup Sendable(packets)
                /\ dropped' = dropped \cup (packets \ Sendable(packets))
                /\ UNCHANGED sending
       ELSE sending' = [sending EXCEPT ![s.from] = s] /\ UNCHANGED <<net, dropped>>
    /\ UNCHANGED <<keys, asking, buffered, deciding, installing, handled, plain, lost>>

\* The packet is also sent.
FaultyBufferOutgoing(n) ==
    /\ sending[n] # None /\ n \notin buffered
    /\ pending_outgoing_packets_' =
           [pending_outgoing_packets_ EXCEPT ![n] = @ \cup {Made(sending[n], "empty")}]
    /\ buffered' = buffered \cup {n}
    /\ net' = net \cup {Made(sending[n], "empty")}
    /\ UNCHANGED <<trusted_keys_, pending_incoming_packets_, asking, sent, sending, deciding, installing, handled, history>>

\* The packet is buffered as it is, without the payload.
BufferOutgoing(n) ==
    /\ sending[n] # None /\ n \notin buffered
    /\ pending_outgoing_packets_' =
           [pending_outgoing_packets_ EXCEPT ![n] = @ \cup {Made(sending[n], "empty")}]
    /\ buffered' = buffered \cup {n}
    /\ UNCHANGED <<trusted_keys_, pending_incoming_packets_, asking, sent, sending, deciding, installing, net, handled, history>>

\* should_send_identity_request up to its comparison; the routing thread may
\* ask before the time is noted.
DecideToAsk(n) ==
    /\ n \in buffered \ deciding
    /\ IF MayAsk(n, sending[n].to)
       THEN deciding' = deciding \cup {n} /\ UNCHANGED <<sending, buffered>>
       ELSE /\ sending' = [sending EXCEPT ![n] = None]
            /\ buffered' = buffered \ {n}
            /\ UNCHANGED deciding
    /\ UNCHANGED <<keys, asking, sent, installing, net, handled, history>>

AskForKey(n) ==
    /\ n \in deciding
    /\ AskNow(n, sending[n].to, net)
    /\ sending' = [sending EXCEPT ![n] = None]
    /\ buffered' = buffered \ {n}
    /\ deciding' = deciding \ {n}
    /\ UNCHANGED <<keys, sent, installing, handled, history>>

-----------------------------------------------------------------------------
(* The routing thread.                                                     *)

Reply(p) == [p EXCEPT !.from = p.to, !.to = p.from, !.reply = TRUE, !.expect_response = FALSE,
                      !.payload = "whole"]

Replies(packets) == {Reply(p) : p \in {q \in packets : q.expect_response}}

Arrives(m) == m \in net /\ installing[m.to] = None

\* The handlers of packets run, and reply; a reply to a node without
\* encryption cannot be secured.
Handle(packets, others) ==
    LET replies == Replies(packets)
    IN  /\ handled' = handled \cup packets
        /\ net' = others \cup Sendable(replies)
        /\ dropped' = dropped \cup (replies \ Sendable(replies))

\* handle_incoming_packet: an encrypted packet waits for the key of its
\* sender.
ReceivePacket(m) ==
    /\ Arrives(m) /\ m \in Packet
    /\ IF m.from \in plain \cup trusted_keys_[m.to]
       THEN /\ Handle({m}, net \ {m})
            /\ UNCHANGED <<keys, asking>>
       ELSE /\ pending_incoming_packets_' = [pending_incoming_packets_ EXCEPT ![m.to] = @ \cup {m}]
            /\ Ask(m.to, m.from, net \ {m})
            /\ UNCHANGED <<trusted_keys_, pending_outgoing_packets_, handled, dropped>>
    /\ UNCHANGED <<application, installing, plain, lost>>

\* The buffered packets are left for the next one.
FaultyInstall(m) ==
    /\ trusted_keys_' = [trusted_keys_ EXCEPT ![m.to] = @ \cup {m.from}]
    /\ net' = net \ {m}
    /\ installing' = [installing EXCEPT ![m.to] = m]
    /\ UNCHANGED <<handled, dropped, pending_incoming_packets_, pending_outgoing_packets_>>

\* add_trusted_peer and handle_pending_incoming_packets.
Install(m) ==
    LET packets == {p \in pending_incoming_packets_[m.to] : p.from = m.from}
    IN  /\ trusted_keys_' = [trusted_keys_ EXCEPT ![m.to] = @ \cup {m.from}]
        /\ pending_incoming_packets_' = [pending_incoming_packets_ EXCEPT ![m.to] = @ \ packets]
        /\ handled' = handled \cup packets
        /\ net' = (net \ {m}) \cup Replies(packets)
        /\ installing' = [installing EXCEPT ![m.to] = m]
        /\ UNCHANGED <<pending_outgoing_packets_, dropped>>

ReceiveRequest(m) ==
    /\ Arrives(m) /\ m \in Identity /\ m.kind = "request"
    /\ Install(m)
    /\ UNCHANGED <<asking, application, plain, lost>>

\* A response that its request has not waited for has no handler.
ReceiveResponse(m) ==
    /\ Arrives(m) /\ m \in Identity /\ m.kind = "response"
    /\ LET request == Request(m.to, m.from, m.number)
       IN  IF request \in tracked[m.to]
           THEN /\ tracked' = [tracked EXCEPT ![m.to] = @ \ {request}]
                /\ Install(m)
           ELSE /\ net' = net \ {m}
                /\ UNCHANGED <<keys, handled, dropped, installing, tracked>>
    /\ UNCHANGED <<id_request_cooldowns_, asked, application, plain, lost>>

\* handle_pending_outgoing_packets, and the response to a request.
SendPending(n) ==
    /\ installing[n] # None
    /\ LET m        == installing[n]
           packets  == {p \in pending_outgoing_packets_[n] : p.to = m.from}
           response == [kind |-> "response", from |-> n, to |-> m.from, number |-> m.number]
       IN  /\ pending_outgoing_packets_' = [pending_outgoing_packets_ EXCEPT ![n] = @ \ packets]
           /\ net' = net \cup Sendable(packets) \cup IF m.kind = "request" THEN {response} ELSE {}
           /\ dropped' = dropped \cup (packets \ Sendable(packets))
    /\ installing' = [installing EXCEPT ![n] = None]
    /\ UNCHANGED <<trusted_keys_, pending_incoming_packets_, asking, application, handled, plain, lost>>

-----------------------------------------------------------------------------
(* Time and the network.                                                   *)

CooldownEnds(n, p) ==
    /\ p \in id_request_cooldowns_[n]
    /\ id_request_cooldowns_' = [id_request_cooldowns_ EXCEPT ![n] = @ \ {p}]
    /\ UNCHANGED <<keys, asked, tracked, application, installing, net, handled, history>>

RequestTimesOut(n, r) ==
    /\ r \in tracked[n]
    /\ tracked' = [tracked EXCEPT ![n] = @ \ {r}]
    /\ lost' = lost \cup {r}
    /\ UNCHANGED <<keys, id_request_cooldowns_, asked, application, installing, net, handled, plain, dropped>>

Lose(m) ==
    /\ m \in net
    /\ net' = net \ {m}
    /\ lost' = lost \cup {m}
    /\ UNCHANGED <<keys, asking, application, installing, handled, plain, dropped>>

Threads ==
    \/ \E n \in Node : BufferOutgoing(n) \/ DecideToAsk(n) \/ AskForKey(n) \/ SendPending(n)
    \/ \E m \in net : ReceivePacket(m) \/ ReceiveRequest(m) \/ ReceiveResponse(m)

Next ==
    \/ \E s \in Sends : SendMessage(s)
    \/ Threads
    \/ \E n, p \in Node : CooldownEnds(n, p)
    \/ \E n \in Node : \E r \in tracked[n] : RequestTimesOut(n, r)
    \/ \E m \in net : Lose(m)

\* Both threads go on with what they have begun, and what is under way
\* arrives.
Spec == Init /\ [][Next]_vars /\ WF_vars(Threads)

-----------------------------------------------------------------------------
TypeOK ==
    /\ trusted_keys_ \in [Node -> SUBSET Node]
    /\ pending_outgoing_packets_ \in [Node -> SUBSET Packet]
    /\ pending_incoming_packets_ \in [Node -> SUBSET Packet]
    /\ id_request_cooldowns_ \in [Node -> SUBSET Node]
    /\ asked \in [Node -> [Node -> Nat]]
    /\ tracked \in [Node -> SUBSET Identity]
    /\ sent \subseteq Sends
    /\ sending \in [Node -> sent \cup {None}]
    /\ deciding \subseteq buffered /\ buffered \subseteq {n \in Node : sending[n] # None}
    /\ installing \in [Node -> Identity \cup {None}]
    /\ plain \subseteq MayBePlain
    /\ net \cup lost \subseteq Packet \cup Identity
    /\ handled \cup dropped \subseteq Packet

\* Where every packet is.  One that an application thread has found no key
\* for, and not buffered yet, is with that thread.
Whereabouts ==
    {m \in net : m \in Packet} \X {"net"}
    \cup handled \X {"handled"}
    \cup {m \in lost : m \in Packet} \X {"lost"}
    \cup dropped \X {"dropped"}
    \cup (UNION {pending_outgoing_packets_[n] : n \in Node}) \X {"outgoing"}
    \cup (UNION {pending_incoming_packets_[n] : n \in Node}) \X {"incoming"}
    \cup {Made(sending[n], "whole") : n \in {x \in Node : sending[x] # None /\ x \notin buffered}} \X {"sending"}

\* Where the packet with an id, or its reply, is.
Places(id, reply) == {x \in Whereabouts : x[1].id = id /\ x[1].reply = reply}

\* However packets move between the threads, the buffers and the network,
\* each is in one place: none is handled or sent twice, and none is dropped
\* on the way except those for a node without encryption, whose key is empty.
EachPacketOnce ==
    /\ TypeOK
    /\ \A p \in dropped : p.to \in plain
    /\ \A s \in sent : Cardinality(Places(s.id, FALSE)) = 1
    /\ \A s \in sent : Cardinality(Places(s.id, TRUE)) =
          IF s.expect_response /\ \E p \in handled : p.id = s.id /\ ~p.reply THEN 1 ELSE 0

\* A packet that arrives before its sender's key is handled once the keys
\* have been exchanged, if nothing is lost or late.
ArrivedIsHandled ==
    \A n \in Node, s \in Sends :
        (\E p \in pending_incoming_packets_[n] : p.id = s.id)
            ~> (lost # {} \/ \E p \in handled : p.id = s.id /\ p.to = n)

\* A packet that is in the buffer while its receiver's key is still missing
\* is sent in the end, if nothing is lost or late.  (One that is buffered
\* after the key has come, and the buffer has been emptied, stays there.)
BufferedIsSent ==
    \A s \in Sends :
        LET Waits == \E p \in pending_outgoing_packets_[s.from] : p.id = s.id
        IN  (Waits /\ s.to \notin trusted_keys_[s.from]) ~> (lost # {} \/ ~Waits)

\* README: encryption is "transparent to message handlers".  A handler gets
\* the payload that was sent.
PayloadWhole == \A p \in handled : p.payload = "whole"
=============================================================================
