----------------------------- MODULE RpcManager -----------------------------
(***************************************************************************)
(* The connections of one RpcManager.  Attempts of connect_async advance   *)
(* on the io thread (resolve, connect, timer, completion) and on a startup *)
(* thread of their own that blocks in the handshake; accepted connections  *)
(* have a startup thread too.  The heartbeat thread removes the peers that *)
(* do not answer, and the maintenance timer connects again to the          *)
(* addresses of auto_connections_.  The maps are only touched under mu_;   *)
(* everything between two holds of mu_ may be interleaved.                 *)
(*                                                                         *)
(* An address host:port belongs to one peer, so a peer stands for its      *)
(* address; several peers may share an ip.  What a connection does with    *)
(* its requests is RpcConnection's subject: here a handshake and a         *)
(* heartbeat are answered or fail.                                         *)
(***************************************************************************)
EXTENDS Naturals, FiniteSets

CONSTANTS Peer,
          IpOf,                      \* IpOf[p]: the ip of p's sockets
          HostOf,                    \* HostOf[p]: the host of p's address as callers write it,
                                     \* its ip or a name
          NoPeer,
          MaxAttempts,               \* bound: the calls of connect_async
          Incoming,                  \* bound: the connections that are accepted
          PeersOf,                   \* bound: PeersOf[c], the peers c may be a connection to
          AutoConnections,           \* the addresses callers may give to add_auto_connection
          MAX_HEARTBEAT_FAILURES     \* 5 in the code

\* The attempts, in the order of the calls.
Outgoing == 1 .. MaxAttempts

ASSUME ManagerAssumption ==
    /\ NoPeer \notin Peer
    /\ MaxAttempts \in Nat
    /\ Outgoing \cap Incoming = {}
    /\ PeersOf \in [Outgoing \cup Incoming -> SUBSET Peer]
    /\ AutoConnections \subseteq Peer
    /\ MAX_HEARTBEAT_FAILURES \in Nat \ {0}

Conn == Outgoing \cup Incoming

VARIABLES
    remote,                \* the peer at the other end of a connection, NoPeer before it exists
    outcome,               \* what the callback of an attempt was called with; "pending" before
    thread,                \* the startup thread of a connection
    open,                  \* the connections whose socket works
    connections_by_peer_,
    connections_by_ip_,
    pending_connections_,
    auto_connections_,
    consecutive_failed,
    futures,               \* the heartbeats of this round that wait: peers and their connections
    shutdown               \* "running", then "closing" and, past the hold of mu_, "cleared"

shutting_down_ == shutdown # "running"

registry == <<connections_by_peer_, connections_by_ip_>>
attempts == <<outcome, pending_connections_>>
heartbeat == <<consecutive_failed, futures>>
vars == <<remote, thread, open, registry, attempts, auto_connections_, heartbeat, shutdown>>

Empty == [x \in {} |-> x]

Init ==
    /\ remote = [c \in Conn |-> NoPeer]
    /\ outcome = [c \in Outgoing |-> "none"]
    /\ thread = [c \in Conn |-> "none"]
    /\ open = {}
    /\ connections_by_peer_ = Empty
    /\ connections_by_ip_ = Empty
    /\ pending_connections_ = {}
    /\ auto_connections_ = {}
    /\ consecutive_failed = [p \in Peer |-> 0]
    /\ futures = {}
    /\ shutdown = "running"

-----------------------------------------------------------------------------
(* connect_async.                                                          *)

Fresh(c) == remote[c] = NoPeer

Refused(p) == p \in pending_connections_ \/ HostOf[p] \in DOMAIN connections_by_ip_

ConnectAsync(c, p) ==
    /\ Fresh(c) /\ \A d \in 1 .. c - 1 : ~Fresh(d)
    /\ p \in PeersOf[c]
    /\ remote' = [remote EXCEPT ![c] = p]
    /\ \/ /\ Refused(p)
          /\ outcome' = [outcome EXCEPT ![c] = "refused"]
          /\ UNCHANGED pending_connections_
       \/ /\ ~Refused(p)
          /\ outcome' = [outcome EXCEPT ![c] = "pending"]
          /\ pending_connections_' = pending_connections_ \cup {p}
    /\ UNCHANGED <<thread, open, registry, auto_connections_, heartbeat, shutdown>>

AddAutoConnection(p) ==
    /\ p \notin auto_connections_
    /\ auto_connections_' = auto_connections_ \cup {p}
    /\ UNCHANGED <<remote, thread, open, registry, attempts, heartbeat, shutdown>>

RemoveAutoConnection(p) ==
    /\ p \in auto_connections_
    /\ auto_connections_' = auto_connections_ \ {p}
    /\ UNCHANGED <<remote, thread, open, registry, attempts, heartbeat, shutdown>>

\* An address is tried once.
FaultyAutoConnect(c, p) ==
    /\ ~shutting_down_
    /\ p \in auto_connections_ /\ ~Refused(p) /\ \A d \in Outgoing : remote[d] # p
    /\ ConnectAsync(c, p)

\* check_for_auto_connections_locked for one address.
AutoConnect(c, p) ==
    /\ ~shutting_down_
    /\ p \in auto_connections_ /\ ~Refused(p)
    /\ ConnectAsync(c, p)

\* The pending entry is left behind.
FaultyComplete(c, result) ==
    /\ outcome' = [outcome EXCEPT ![c] = result]
    /\ open' = IF result = "connected" \/ thread[c] = "spawned" THEN open ELSE open \ {c}
    /\ UNCHANGED pending_connections_

\* The lambda complete for an attempt that is not completed yet: a failure
\* shuts the connection down.  A session that does not exist yet cannot be
\* stopped: a startup thread that has only been spawned goes on.
Complete(c, result) ==
    /\ outcome' = [outcome EXCEPT ![c] = result]
    /\ open' = IF result = "connected" \/ thread[c] = "spawned" THEN open ELSE open \ {c}
    /\ pending_connections_' = pending_connections_ \ {remote[c]}

\* The timer bounds the handshake only.
FaultyConnectTimeout(c) ==
    /\ outcome[c] = "pending" /\ thread[c] # "none"
    /\ Complete(c, "timeout")
    /\ UNCHANGED <<remote, thread, registry, auto_connections_, heartbeat, shutdown>>

ConnectTimeout(c) ==
    /\ outcome[c] = "pending"
    /\ Complete(c, "timeout")
    /\ UNCHANGED <<remote, thread, registry, auto_connections_, heartbeat, shutdown>>

\* The address does not resolve or nobody listens there.
ConnectFailed(c) ==
    /\ outcome[c] = "pending" /\ thread[c] = "none"
    /\ Complete(c, "failed")
    /\ UNCHANGED <<remote, thread, registry, auto_connections_, heartbeat, shutdown>>

TcpConnected(c) ==
    /\ outcome[c] = "pending" /\ thread[c] = "none"
    /\ thread' = [thread EXCEPT ![c] = "spawned"]
    /\ open' = open \cup {c}
    /\ UNCHANGED <<remote, registry, attempts, auto_connections_, heartbeat, shutdown>>

\* do_accept, handle_new_connection.
Accept(c, p) ==
    /\ ~shutting_down_
    /\ Fresh(c) /\ p \in PeersOf[c]
    /\ remote' = [remote EXCEPT ![c] = p]
    /\ thread' = [thread EXCEPT ![c] = "spawned"]
    /\ open' = open \cup {c}
    /\ UNCHANGED <<registry, attempts, auto_connections_, heartbeat, shutdown>>

-----------------------------------------------------------------------------
(* handle_connection_startup, on the startup thread.                       *)

StartSession(c) ==
    /\ thread[c] = "spawned"
    /\ thread' = [thread EXCEPT ![c] = "handshaking"]
    /\ UNCHANGED <<remote, open, registry, attempts, auto_connections_, heartbeat, shutdown>>

HandshakeAnswered(c) ==
    /\ thread[c] = "handshaking" /\ c \in open
    /\ thread' = [thread EXCEPT ![c] = "answered"]
    /\ UNCHANGED <<remote, open, registry, attempts, auto_connections_, heartbeat, shutdown>>

\* No answer in time, or the connection broke or was shut down.  An acceptor
\* shuts its connection down itself.
HandshakeFailed(c) ==
    /\ thread[c] = "handshaking"
    /\ thread' = [thread EXCEPT ![c] = IF c \in Outgoing THEN "failed" ELSE "ended"]
    /\ open' = IF c \in Outgoing THEN open ELSE open \ {c}
    /\ UNCHANGED <<remote, registry, attempts, auto_connections_, heartbeat, shutdown>>

\* unordered_map::insert: an existing entry stays.
Inserted(f, k, v) == [x \in DOMAIN f \cup {k} |-> IF x \in DOMAIN f THEN f[x] ELSE v]

\* add_connection_internal.
Register(c) ==
    /\ thread[c] = "answered"
    /\ thread' = [thread EXCEPT ![c] = IF c \in Outgoing THEN "added" ELSE "ended"]
    /\ connections_by_peer_' = Inserted(connections_by_peer_, remote[c], c)
    /\ connections_by_ip_' = Inserted(connections_by_ip_, IpOf[remote[c]], c)
    /\ UNCHANGED <<remote, open, attempts, auto_connections_, heartbeat, shutdown>>

\* Whether the attempt is already completed is not checked.
FaultyPostedComplete(c) ==
    /\ thread[c] \in {"added", "failed"}
    /\ thread' = [thread EXCEPT ![c] = "ended"]
    /\ Complete(c, IF thread[c] = "added" THEN "connected" ELSE "failed")
    /\ UNCHANGED <<remote, registry, auto_connections_, heartbeat, shutdown>>

\* What the startup thread has posted: complete, unless the timer was first.
PostedComplete(c) ==
    /\ thread[c] \in {"added", "failed"}
    /\ thread' = [thread EXCEPT ![c] = "ended"]
    /\ IF outcome[c] = "pending"
       THEN Complete(c, IF thread[c] = "added" THEN "connected" ELSE "failed")
       ELSE UNCHANGED <<open, attempts>>
    /\ UNCHANGED <<remote, registry, auto_connections_, heartbeat, shutdown>>

-----------------------------------------------------------------------------
(* send_heartbeats.                                                        *)

Erased(f, k) == [x \in DOMAIN f \ {k} |-> f[x]]

\* No heartbeat is sent on a connection that is known to be closed.
FaultySendHeartbeats ==
    /\ ~shutting_down_
    /\ futures = {}
    /\ futures' = {f \in {<<p, connections_by_peer_[p]>> : p \in DOMAIN connections_by_peer_} : f[2] \in open}
    /\ UNCHANGED <<remote, thread, open, registry, attempts, auto_connections_, consecutive_failed, shutdown>>

SendHeartbeats ==
    /\ ~shutting_down_
    /\ futures = {} /\ DOMAIN connections_by_peer_ # {}
    /\ futures' = {<<p, connections_by_peer_[p]>> : p \in DOMAIN connections_by_peer_}
    /\ UNCHANGED <<remote, thread, open, registry, attempts, auto_connections_, consecutive_failed, shutdown>>

\* consecutive_failed.insert({peer, 0}) does not change an existing count.
HeartbeatAnswered(p, c) ==
    /\ <<p, c>> \in futures /\ c \in open
    /\ ~shutting_down_
    /\ futures' = futures \ {<<p, c>>}
    /\ UNCHANGED <<remote, thread, open, registry, attempts, auto_connections_, consecutive_failed, shutdown>>

TooMany(failures) == failures >= MAX_HEARTBEAT_FAILURES

\* The ip is forgotten at the first failure.
FaultyHeartbeatFailed(p, c) ==
    /\ <<p, c>> \in futures
    /\ ~shutting_down_
    /\ futures' = futures \ {<<p, c>>}
    /\ connections_by_ip_' = Erased(connections_by_ip_, IpOf[p])
    /\ IF TooMany(consecutive_failed[p] + 1)
       THEN /\ connections_by_peer_' = Erased(connections_by_peer_, p)
            /\ consecutive_failed' = [consecutive_failed EXCEPT ![p] = 0]
       ELSE /\ consecutive_failed' = [consecutive_failed EXCEPT ![p] = @ + 1]
            /\ UNCHANGED connections_by_peer_
    /\ UNCHANGED <<remote, thread, open, attempts, auto_connections_, shutdown>>

\* No answer within 300 ms.
HeartbeatFailed(p, c) ==
    /\ <<p, c>> \in futures
    /\ ~shutting_down_
    /\ futures' = futures \ {<<p, c>>}
    /\ IF TooMany(consecutive_failed[p] + 1)
       THEN /\ connections_by_peer_' = Erased(connections_by_peer_, p)
            /\ consecutive_failed' = [consecutive_failed EXCEPT ![p] = 0]
       ELSE /\ consecutive_failed' = [consecutive_failed EXCEPT ![p] = @ + 1]
            /\ UNCHANGED connections_by_peer_
    /\ UNCHANGED <<remote, thread, open, connections_by_ip_, attempts, auto_connections_, shutdown>>

-----------------------------------------------------------------------------
\* remove_connection: both entries go, the connection itself is left alone.
RemoveConnection(p) ==
    /\ p \in DOMAIN connections_by_peer_
    /\ connections_by_ip_' = Erased(connections_by_ip_, IpOf[p])
    /\ connections_by_peer_' = Erased(connections_by_peer_, p)
    /\ UNCHANGED <<remote, thread, open, attempts, auto_connections_, heartbeat, shutdown>>

\* The other end closes, crashes or cannot be reached any more.
Break(c) ==
    /\ c \in open
    /\ open' = open \ {c}
    /\ UNCHANGED <<remote, thread, registry, attempts, auto_connections_, heartbeat, shutdown>>

\* shutdown, up to the hold of mu_: no connection is accepted any more.
BeginShutdown ==
    /\ ~shutting_down_
    /\ shutdown' = "closing"
    /\ UNCHANGED <<remote, thread, open, registry, attempts, auto_connections_, heartbeat>>

\* The maps are cleared and the connections that were registered shut down.
ClearConnections ==
    /\ shutdown = "closing"
    /\ shutdown' = "cleared"
    /\ connections_by_peer_' = Empty
    /\ connections_by_ip_' = Empty
    /\ auto_connections_' = {}
    /\ open' = open \ {connections_by_peer_[p] : p \in DOMAIN connections_by_peer_}
    /\ UNCHANGED <<remote, thread, attempts, heartbeat>>

-----------------------------------------------------------------------------
\* What the io thread and the startup threads do for an attempt or an
\* accepted connection and nobody else's progress can prevent.
Progress ==
    \/ \E c \in Outgoing : ConnectTimeout(c) \/ PostedComplete(c)
    \/ \E c \in Conn : StartSession(c) \/ HandshakeFailed(c) \/ Register(c)

Heartbeats ==
    \/ SendHeartbeats
    \/ \E p \in Peer, c \in Conn : HeartbeatAnswered(p, c) \/ HeartbeatFailed(p, c)

Maintenance == \E c \in Outgoing, p \in Peer : AutoConnect(c, p)

Next ==
    \/ \E c \in Outgoing, p \in Peer : ConnectAsync(c, p)
    \/ \E c \in Incoming, p \in Peer : Accept(c, p)
    \/ \E c \in Outgoing : ConnectFailed(c) \/ TcpConnected(c)
    \/ \E c \in Conn : HandshakeAnswered(c) \/ Break(c)
    \/ \E p \in Peer : RemoveConnection(p)
    \/ \E p \in AutoConnections : AddAutoConnection(p) \/ RemoveAutoConnection(p)
    \/ Progress
    \/ Heartbeats
    \/ Maintenance
    \/ BeginShutdown
    \/ ClearConnections

\* Timers fire, posted handlers and threads run, the heartbeat thread loops
\* and the maintenance timer is armed again after every cycle.  That a name
\* resolves, a peer accepts or an answer arrives is not assumed.
Fairness == WF_vars(Progress) /\ WF_vars(Heartbeats) /\ WF_vars(Maintenance)

Spec == Init /\ [][Next]_vars /\ Fairness

-----------------------------------------------------------------------------
TypeOK ==
    /\ remote \in [Conn -> Peer \cup {NoPeer}]
    /\ outcome \in [Outgoing -> {"none", "refused", "pending", "connected", "failed", "timeout"}]
    /\ thread \in [Conn -> {"none", "spawned", "handshaking", "answered", "added", "failed", "ended"}]
    /\ open \subseteq Conn
    /\ DOMAIN connections_by_peer_ \subseteq Peer
    /\ \A p \in DOMAIN connections_by_peer_ : connections_by_peer_[p] \in Conn
    /\ \A i \in DOMAIN connections_by_ip_ : connections_by_ip_[i] \in Conn
    /\ pending_connections_ \subseteq Peer
    /\ auto_connections_ \subseteq Peer
    /\ consecutive_failed \in [Peer -> 0 .. MAX_HEARTBEAT_FAILURES - 1]
    /\ futures \subseteq Peer \X Conn
    /\ shutdown \in {"running", "closing", "cleared"}

\* A pending address is that of exactly one attempt whose callback has not
\* run: an entry that outlives its attempt would refuse every later attempt,
\* and two attempts for one entry would run the duplicate that connect_async
\* is to suppress.
PendingIsExact ==
    /\ TypeOK
    /\ pending_connections_ = {remote[c] : c \in {o \in Outgoing : outcome[o] = "pending"}}
    /\ \A c, d \in Outgoing :
          outcome[c] = "pending" /\ outcome[d] = "pending" /\ remote[c] = remote[d] => c = d

\* While a peer that has its ip for itself is registered, a UDP packet from
\* that ip is attributed to it, whatever connections to it have come and gone.
UdpFromRegisteredPeer ==
    \A p \in DOMAIN connections_by_peer_ :
        (\A q \in Peer : IpOf[q] = IpOf[p] => q = p) =>
            /\ IpOf[p] \in DOMAIN connections_by_ip_
            /\ remote[connections_by_ip_[IpOf[p]]] = p

\* The callback of an attempt that was not refused on the spot runs exactly
\* once, with one result, however the timer, the resolver, the socket and the
\* startup thread race.
Attempts ==
    INSTANCE RequestOutcome WITH
        Req <- Outgoing,
        Results <- {"connected", "failed", "timeout"},
        outcome <- [c \in Outgoing |-> IF outcome[c] = "refused" THEN "none" ELSE outcome[c]]

ConnectSettlesOnce == Attempts!Spec

\* connect() blocks its caller on the callback, so every attempt's callback
\* must run in the end, even when the resolver never answers.
ConnectReturns == Attempts!Settles

\* A registered connection that is dead (broken, or shut down by a timeout
\* that raced its registration) is removed from the peers by the heartbeats,
\* unless the manager shuts down.
DeadPeerRemoved ==
    []<>(shutting_down_ \/ \A p \in DOMAIN connections_by_peer_ : connections_by_peer_[p] \in open)

AttemptsExhausted == \A c \in Outgoing : ~Fresh(c)

\* An address for automatic connection is tried again and again until some
\* connection from its ip is registered.
AutoConnectRetries ==
    \A p \in AutoConnections :
        []<>(\/ IpOf[p] \in DOMAIN connections_by_ip_
            \/ p \notin auto_connections_ \/ AttemptsExhausted \/ shutting_down_)

\* README: an address is registered "for automatic reconnection on
\* startup/disconnect".  Whenever the peer is not connected an attempt is
\* eventually made.
AutoReconnects ==
    \A p \in AutoConnections :
        []<>(\/ p \in DOMAIN connections_by_peer_
            \/ p \notin auto_connections_ \/ AttemptsExhausted \/ shutting_down_)
=============================================================================
