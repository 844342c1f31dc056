-------------------------- MODULE RpcManagerProofs --------------------------
(* Proofs about RpcManager: the pending addresses are exact, a registered   *)
(* peer is found by its ip, and an attempt's callback is called once.       *)
EXTENDS RpcManager, TLAPS

\* Nothing has happened to a connection that does not exist yet.
FreshIsIdle ==
    /\ \A c \in Outgoing : Fresh(c) => outcome[c] = "none"
    /\ \A c \in Conn : Fresh(c) => thread[c] = "none"

\* A connection is filed under the ip of its peer, and is found there as long
\* as its peer is registered.
FiledByIp ==
    /\ \A i \in DOMAIN connections_by_ip_ :
          remote[connections_by_ip_[i]] \in Peer /\ IpOf[remote[connections_by_ip_[i]]] = i
    /\ UdpFromRegisteredPeer

\* What PendingIsExact says besides the types.
Exact ==
    /\ pending_connections_ = {remote[c] : c \in {o \in Outgoing : outcome[o] = "pending"}}
    /\ \A c, d \in Outgoing :
          outcome[c] = "pending" /\ outcome[d] = "pending" /\ remote[c] = remote[d] => c = d

IInv == TypeOK /\ Exact /\ FreshIsIdle /\ FiledByIp

\* No connection exists.
LEMMA InitIInv == Init => IInv
<1> SUFFICES ASSUME Init PROVE IInv
  OBVIOUS
<1>1. TypeOK
  BY ManagerAssumption DEF Init, TypeOK, Empty
<1>2. Exact
  BY DEF Init, Exact
<1>3. FreshIsIdle
  BY DEF Init, FreshIsIdle, Conn
<1>4. FiledByIp
  BY DEF Init, FiledByIp, UdpFromRegisteredPeer, Empty
<1> QED
  BY <1>1, <1>2, <1>3, <1>4 DEF IInv

\* The registries stay right when a connection that is not in them gets its
\* peer.
LEMMA RemoteSet ==
    ASSUME IInv, NEW c \in Conn, NEW p \in Peer, Fresh(c),
           remote' = [remote EXCEPT ![c] = p], UNCHANGED registry
    PROVE  FiledByIp' /\ remote' \in [Conn -> Peer \cup {NoPeer}]
<1>1. TypeOK /\ FiledByIp
  BY DEF IInv
<1>2. connections_by_peer_' = connections_by_peer_ /\ connections_by_ip_' = connections_by_ip_
  BY DEF registry
<1>3. \A d \in Conn : remote[d] \in Peer => d # c /\ remote'[d] = remote[d]
  BY <1>1, ManagerAssumption DEF TypeOK, Fresh
<1>4. \A i \in DOMAIN connections_by_ip_ :
         /\ connections_by_ip_[i] \in Conn
         /\ remote'[connections_by_ip_[i]] = remote[connections_by_ip_[i]]
  BY <1>1, <1>3 DEF TypeOK, FiledByIp
<1>5. FiledByIp'
  BY <1>1, <1>2, <1>4 DEF FiledByIp, UdpFromRegisteredPeer
<1>6. remote' \in [Conn -> Peer \cup {NoPeer}]
  BY <1>1 DEF TypeOK
<1> QED
  BY <1>5, <1>6

\* The registries stay right when neither they nor the peers change.
LEMMA RegistryUnchanged ==
    ASSUME FiledByIp, remote' = remote, UNCHANGED registry
    PROVE  FiledByIp'
BY DEF FiledByIp, UdpFromRegisteredPeer, registry

\* connect_async makes an attempt pending only if its address is not.
LEMMA ConnectKeeps ==
    ASSUME IInv, NEW c \in Outgoing, NEW p \in Peer, ConnectAsync(c, p)
    PROVE  IInv'
<1>1. TypeOK /\ Exact /\ FreshIsIdle
  BY DEF IInv
<1>2. /\ Fresh(c) /\ c \in Conn /\ outcome[c] = "none"
      /\ remote' = [remote EXCEPT ![c] = p]
      /\ UNCHANGED <<thread, open, registry, auto_connections_, heartbeat, shutdown>>
  BY <1>1 DEF ConnectAsync, FreshIsIdle, Conn
<1>3. FiledByIp' /\ remote' \in [Conn -> Peer \cup {NoPeer}]
  BY <1>2, RemoteSet, Zenon
<1>4. /\ remote'[c] = p /\ p # NoPeer
      /\ \A d \in Conn : d # c => remote'[d] = remote[d]
      /\ \A d \in Outgoing : d \in Conn
  BY <1>1, <1>2, ManagerAssumption DEF TypeOK, Conn
<1>5. \/ /\ outcome' = [outcome EXCEPT ![c] = "refused"]
         /\ pending_connections_' = pending_connections_
      \/ /\ p \notin pending_connections_
         /\ outcome' = [outcome EXCEPT ![c] = "pending"]
         /\ pending_connections_' = pending_connections_ \cup {p}
  BY DEF ConnectAsync, Refused
<1>6. \A d \in Outgoing : d # c => outcome'[d] = outcome[d]
  BY <1>1, <1>5 DEF TypeOK
<1>7. TypeOK'
  BY <1>1, <1>2, <1>3, <1>5 DEF TypeOK, registry, heartbeat
<1>8. FreshIsIdle'
  BY <1>1, <1>2, <1>4, <1>6 DEF FreshIsIdle, Fresh
<1>9. Exact'
  <2>1. CASE outcome' = [outcome EXCEPT ![c] = "refused"] /\ pending_connections_' = pending_connections_
    <3>1. outcome'[c] = "refused"
      BY <2>1, <1>1 DEF TypeOK
    <3> QED
      BY <2>1, <3>1, <1>1, <1>2, <1>4, <1>6 DEF Exact
  <2>2. CASE /\ p \notin pending_connections_
             /\ outcome' = [outcome EXCEPT ![c] = "pending"]
             /\ pending_connections_' = pending_connections_ \cup {p}
    <3>1. outcome'[c] = "pending"
      BY <2>2, <1>1 DEF TypeOK
    <3>2. pending_connections_' = {remote'[d] : d \in {o \in Outgoing : outcome'[o] = "pending"}}
      BY <2>2, <3>1, <1>1, <1>2, <1>4, <1>6 DEF Exact
    <3>3. \A d \in Outgoing : d # c /\ outcome'[d] = "pending" => remote'[d] # p
      BY <2>2, <1>1, <1>4, <1>6 DEF Exact
    <3>4. \A a, d \in Outgoing :
             outcome'[a] = "pending" /\ outcome'[d] = "pending" /\ remote'[a] = remote'[d] => a = d
      BY <3>3, <1>1, <1>4, <1>6 DEF Exact
    <3> QED
      BY <3>2, <3>4 DEF Exact
  <2> QED
    BY <1>5, <2>1, <2>2
<1> QED
  BY <1>3, <1>7, <1>8, <1>9 DEF IInv

\* The lambda complete takes the address of its attempt, and no other's, from
\* the pending ones.
LEMMA CompleteKeeps ==
    ASSUME IInv, NEW c \in Outgoing, outcome[c] = "pending",
           NEW result \in {"connected", "failed", "timeout"}, Complete(c, result),
           remote' = remote
    PROVE  /\ Exact'
           /\ outcome' \in [Outgoing -> {"none", "refused", "pending", "connected", "failed", "timeout"}]
           /\ pending_connections_' \subseteq Peer
           /\ open' \subseteq Conn
           /\ \A d \in Outgoing : outcome[d] = "none" => outcome'[d] = "none"
<1>1. TypeOK /\ Exact
  BY DEF IInv
<1>2. /\ outcome' = [outcome EXCEPT ![c] = result]
      /\ pending_connections_' = pending_connections_ \ {remote[c]}
      /\ open' \subseteq open
  BY DEF Complete
<1>3. outcome'[c] = result /\ \A d \in Outgoing : d # c => outcome'[d] = outcome[d]
  BY <1>1, <1>2 DEF TypeOK
<1>4. Exact'
  BY <1>1, <1>2, <1>3 DEF Exact
<1>5. /\ outcome' \in [Outgoing -> {"none", "refused", "pending", "connected", "failed", "timeout"}]
      /\ pending_connections_' \subseteq Peer
      /\ open' \subseteq Conn
  BY <1>1, <1>2 DEF TypeOK
<1> QED
  BY <1>3, <1>4, <1>5

\* The connect timer, or a failure to resolve or connect.
LEMMA TimeoutKeeps ==
    ASSUME IInv, NEW c \in Outgoing, ConnectTimeout(c) \/ ConnectFailed(c)
    PROVE  IInv'
<1>1. TypeOK /\ FreshIsIdle /\ FiledByIp
  BY DEF IInv
<1>2. /\ outcome[c] = "pending"
      /\ Complete(c, "timeout") \/ Complete(c, "failed")
      /\ UNCHANGED <<remote, thread, registry, auto_connections_, heartbeat, shutdown>>
  BY DEF ConnectTimeout, ConnectFailed
<1>3. /\ Exact'
      /\ outcome' \in [Outgoing -> {"none", "refused", "pending", "connected", "failed", "timeout"}]
      /\ pending_connections_' \subseteq Peer
      /\ open' \subseteq Conn
      /\ \A d \in Outgoing : outcome[d] = "none" => outcome'[d] = "none"
  BY <1>2, CompleteKeeps
<1>4. TypeOK'
  BY <1>1, <1>2, <1>3 DEF TypeOK, registry, heartbeat
<1>5. FreshIsIdle'
  BY <1>1, <1>2, <1>3 DEF FreshIsIdle, Fresh
<1>6. FiledByIp'
  BY <1>1, <1>2, RegistryUnchanged
<1> QED
  BY <1>3, <1>4, <1>5, <1>6 DEF IInv

\* What a startup thread has posted.
LEMMA PostedKeeps == ASSUME IInv, NEW c \in Outgoing, PostedComplete(c) PROVE IInv'
<1>1. TypeOK /\ Exact /\ FreshIsIdle /\ FiledByIp
  BY DEF IInv
<1>2. /\ thread[c] \in {"added", "failed"} /\ thread' = [thread EXCEPT ![c] = "ended"]
      /\ UNCHANGED <<remote, registry, auto_connections_, heartbeat, shutdown>>
      /\ c \in Conn
  BY DEF PostedComplete, Conn
<1>3. /\ Exact'
      /\ outcome' \in [Outgoing -> {"none", "refused", "pending", "connected", "failed", "timeout"}]
      /\ pending_connections_' \subseteq Peer
      /\ open' \subseteq Conn
      /\ \A d \in Outgoing : outcome[d] = "none" => outcome'[d] = "none"
  <2>1. CASE outcome[c] = "pending"
    <3>1. Complete(c, "connected") \/ Complete(c, "failed")
      BY <2>1, Zenon DEF PostedComplete
    <3> QED
      BY <2>1, <3>1, <1>2, CompleteKeeps
  <2>2. CASE outcome[c] # "pending"
    <3>1. UNCHANGED <<open, outcome, pending_connections_>>
      BY <2>2, Zenon DEF PostedComplete, attempts
    <3> QED
      BY <3>1, <1>1, <1>2 DEF TypeOK, Exact
  <2> QED
    BY <2>1, <2>2
<1>4. TypeOK'
  BY <1>1, <1>2, <1>3 DEF TypeOK, registry, heartbeat
<1>5. FreshIsIdle'
  BY <1>1, <1>2, <1>3 DEF FreshIsIdle, Fresh, TypeOK
<1>6. FiledByIp'
  BY <1>1, <1>2, RegistryUnchanged
<1> QED
  BY <1>3, <1>4, <1>5, <1>6 DEF IInv

\* An accepted connection.
LEMMA AcceptKeeps ==
    ASSUME IInv, NEW c \in Incoming, NEW p \in Peer, Accept(c, p)
    PROVE  IInv'
<1>1. TypeOK /\ Exact /\ FreshIsIdle
  BY DEF IInv
<1>2. /\ Fresh(c) /\ c \in Conn /\ c \notin Outgoing
      /\ remote' = [remote EXCEPT ![c] = p]
      /\ thread' = [thread EXCEPT ![c] = "spawned"]
      /\ open' = open \cup {c}
      /\ UNCHANGED <<registry, attempts, auto_connections_, heartbeat, shutdown>>
  BY ManagerAssumption DEF Accept, Conn
<1>3. FiledByIp' /\ remote' \in [Conn -> Peer \cup {NoPeer}]
  BY <1>2, RemoteSet, Zenon
<1>4. /\ remote'[c] = p /\ p # NoPeer
      /\ \A d \in Conn : d # c => remote'[d] = remote[d] /\ thread'[d] = thread[d]
      /\ \A d \in Outgoing : d \in Conn
  BY <1>1, <1>2, ManagerAssumption DEF TypeOK, Conn
<1>5. TypeOK'
  BY <1>1, <1>2, <1>3 DEF TypeOK, registry, attempts, heartbeat
<1>6. FreshIsIdle'
  BY <1>1, <1>2, <1>4 DEF FreshIsIdle, Fresh, attempts
<1>7. Exact'
  BY <1>1, <1>2, <1>4 DEF Exact, attempts
<1> QED
  BY <1>3, <1>5, <1>6, <1>7 DEF IInv

\* The steps of a startup thread before it registers its connection; it only
\* exists for a connection that has a peer.
LEMMA ThreadKeeps ==
    ASSUME IInv, NEW c \in Conn,
           \/ c \in Outgoing /\ TcpConnected(c)
           \/ StartSession(c) \/ HandshakeAnswered(c) \/ HandshakeFailed(c)
    PROVE  IInv'
<1>1. TypeOK /\ Exact /\ FreshIsIdle /\ FiledByIp
  BY DEF IInv
<1>2. UNCHANGED <<remote, registry, attempts, auto_connections_, heartbeat, shutdown>>
  BY Zenon DEF TcpConnected, StartSession, HandshakeAnswered, HandshakeFailed
<1>3. ~Fresh(c)
  BY <1>1 DEF TcpConnected, StartSession, HandshakeAnswered, HandshakeFailed, FreshIsIdle
<1>4. open' \subseteq Conn
  BY <1>1 DEF TcpConnected, StartSession, HandshakeAnswered, HandshakeFailed, TypeOK
<1>5. /\ thread' \in [Conn -> {"none", "spawned", "handshaking", "answered", "added", "failed", "ended"}]
      /\ \A d \in Conn : d # c => thread'[d] = thread[d]
  BY <1>1 DEF TcpConnected, StartSession, HandshakeAnswered, HandshakeFailed, TypeOK
<1>6. TypeOK'
  BY <1>1, <1>2, <1>4, <1>5 DEF TypeOK, registry, attempts, heartbeat
<1>7. Exact'
  BY <1>1, <1>2 DEF Exact, attempts
<1>8. FreshIsIdle'
  BY <1>1, <1>2, <1>3, <1>5 DEF FreshIsIdle, Fresh, attempts
<1>9. FiledByIp'
  BY <1>1, <1>2, RegistryUnchanged
<1> QED
  BY <1>6, <1>7, <1>8, <1>9 DEF IInv

\* add_connection_internal: if the ip of a peer with an ip of its own is taken,
\* it is taken by a connection to that peer.
LEMMA RegisterKeeps == ASSUME IInv, NEW c \in Conn, Register(c) PROVE IInv'
<1>1. TypeOK /\ Exact /\ FreshIsIdle /\ FiledByIp
  BY DEF IInv
<1>2. /\ thread[c] = "answered"
      /\ thread' = [thread EXCEPT ![c] = IF c \in Outgoing THEN "added" ELSE "ended"]
      /\ connections_by_peer_' = Inserted(connections_by_peer_, remote[c], c)
      /\ connections_by_ip_' = Inserted(connections_by_ip_, IpOf[remote[c]], c)
      /\ UNCHANGED <<remote, open, attempts, auto_connections_, heartbeat, shutdown>>
  BY DEF Register
<1>3. remote[c] \in Peer
  BY <1>1, <1>2 DEF FreshIsIdle, Fresh, TypeOK
<1>4. /\ DOMAIN connections_by_peer_' = DOMAIN connections_by_peer_ \cup {remote[c]}
      /\ \A p \in DOMAIN connections_by_peer_ : connections_by_peer_'[p] = connections_by_peer_[p]
      /\ remote[c] \notin DOMAIN connections_by_peer_ => connections_by_peer_'[remote[c]] = c
  BY <1>2 DEF Inserted
<1>5. /\ DOMAIN connections_by_ip_' = DOMAIN connections_by_ip_ \cup {IpOf[remote[c]]}
      /\ \A i \in DOMAIN connections_by_ip_ : connections_by_ip_'[i] = connections_by_ip_[i]
      /\ IpOf[remote[c]] \notin DOMAIN connections_by_ip_ =>
            connections_by_ip_'[IpOf[remote[c]]] = c
  BY <1>2 DEF Inserted
<1>6. /\ thread' \in [Conn -> {"none", "spawned", "handshaking", "answered", "added", "failed", "ended"}]
      /\ \A d \in Conn : d # c => thread'[d] = thread[d]
  BY <1>1, <1>2 DEF TypeOK
<1>7. TypeOK'
  BY <1>1, <1>2, <1>3, <1>4, <1>5, <1>6 DEF TypeOK, attempts, heartbeat
<1>8. Exact'
  BY <1>1, <1>2 DEF Exact, attempts
<1>9. FreshIsIdle'
  BY <1>1, <1>2, <1>6 DEF FreshIsIdle, Fresh, attempts
<1>10. \A i \in DOMAIN connections_by_ip_' :
          /\ remote[connections_by_ip_'[i]] \in Peer
          /\ IpOf[remote[connections_by_ip_'[i]]] = i
  BY <1>1, <1>3, <1>5 DEF FiledByIp
<1>11. ASSUME NEW p \in DOMAIN connections_by_peer_',
              \A q \in Peer : IpOf[q] = IpOf[p] => q = p
       PROVE  /\ IpOf[p] \in DOMAIN connections_by_ip_'
              /\ remote[connections_by_ip_'[IpOf[p]]] = p
  <2>1. IpOf[p] \in DOMAIN connections_by_ip_'
    BY <1>1, <1>4, <1>5, <1>11 DEF FiledByIp, UdpFromRegisteredPeer
  <2> QED
    BY <2>1, <1>10, <1>11
<1>12. FiledByIp'
  BY <1>2, <1>10, <1>11 DEF FiledByIp, UdpFromRegisteredPeer
<1> QED
  BY <1>7, <1>8, <1>9, <1>12 DEF IInv

\* The steps that change the registries only by erasing: a heartbeat that
\* fails erases a peer, remove_connection a peer and its ip.
LEMMA ErasingKeeps ==
    ASSUME IInv, NEW p \in Peer, NEW c \in Conn, HeartbeatFailed(p, c) \/ RemoveConnection(p)
    PROVE  IInv'
<1>1. TypeOK /\ Exact /\ FreshIsIdle /\ FiledByIp
  BY DEF IInv
<1>2. UNCHANGED <<remote, thread, open, attempts, auto_connections_, shutdown>>
  BY Zenon DEF HeartbeatFailed, RemoveConnection
<1>3. /\ DOMAIN connections_by_peer_' \subseteq DOMAIN connections_by_peer_
      /\ \A q \in DOMAIN connections_by_peer_' : connections_by_peer_'[q] = connections_by_peer_[q]
  BY DEF HeartbeatFailed, RemoveConnection, Erased
<1>4. /\ DOMAIN connections_by_ip_' \subseteq DOMAIN connections_by_ip_
      /\ \A i \in DOMAIN connections_by_ip_' : connections_by_ip_'[i] = connections_by_ip_[i]
  BY DEF HeartbeatFailed, RemoveConnection, Erased
<1>5. \/ connections_by_ip_' = connections_by_ip_
      \/ /\ p \notin DOMAIN connections_by_peer_'
         /\ DOMAIN connections_by_ip_' = DOMAIN connections_by_ip_ \ {IpOf[p]}
  BY DEF HeartbeatFailed, RemoveConnection, Erased
<1>6. futures' \subseteq Peer \X Conn
  BY <1>1 DEF HeartbeatFailed, RemoveConnection, heartbeat, TypeOK
<1>7. consecutive_failed' \in [Peer -> 0 .. MAX_HEARTBEAT_FAILURES - 1]
  <2>1. CASE HeartbeatFailed(p, c)
    <3>1. CASE TooMany(consecutive_failed[p] + 1)
      BY <2>1, <3>1, <1>1, ManagerAssumption DEF HeartbeatFailed, TypeOK
    <3>2. CASE ~TooMany(consecutive_failed[p] + 1)
      BY <2>1, <3>2, <1>1, ManagerAssumption DEF HeartbeatFailed, TypeOK, TooMany
    <3> QED
      BY <3>1, <3>2
  <2>2. CASE RemoveConnection(p)
    BY <2>2, <1>1 DEF RemoveConnection, heartbeat, TypeOK
  <2> QED
    BY <2>1, <2>2
<1>8. TypeOK'
  BY <1>1, <1>2, <1>3, <1>4, <1>6, <1>7 DEF TypeOK, attempts
<1>9. Exact' /\ FreshIsIdle'
  BY <1>1, <1>2 DEF Exact, FreshIsIdle, Fresh, attempts
<1>10. \A i \in DOMAIN connections_by_ip_' :
          /\ remote[connections_by_ip_'[i]] \in Peer
          /\ IpOf[remote[connections_by_ip_'[i]]] = i
  BY <1>1, <1>4 DEF FiledByIp
<1>11. ASSUME NEW q \in DOMAIN connections_by_peer_',
              \A r \in Peer : IpOf[r] = IpOf[q] => r = q
       PROVE  /\ IpOf[q] \in DOMAIN connections_by_ip_'
              /\ remote[connections_by_ip_'[IpOf[q]]] = q
  <2>1. IpOf[q] \in DOMAIN connections_by_ip_
    BY <1>1, <1>3, <1>11 DEF FiledByIp, UdpFromRegisteredPeer
  <2>2. IpOf[q] \in DOMAIN connections_by_ip_'
    BY <2>1, <1>5, <1>11
  <2> QED
    BY <2>2, <1>10, <1>11
<1>12. FiledByIp'
  BY <1>2, <1>10, <1>11 DEF FiledByIp, UdpFromRegisteredPeer
<1> QED
  BY <1>8, <1>9, <1>12 DEF IInv

\* shutdown() clears both registries.
LEMMA ClearKeeps == ASSUME IInv, ClearConnections PROVE IInv'
<1>1. TypeOK /\ Exact /\ FreshIsIdle
  BY DEF IInv
<1>2. /\ connections_by_peer_' = Empty /\ connections_by_ip_' = Empty
      /\ DOMAIN Empty = {}
      /\ UNCHANGED <<remote, thread, attempts, heartbeat>>
  BY DEF ClearConnections, Empty
<1>3. TypeOK'
  BY <1>1, <1>2 DEF ClearConnections, TypeOK, attempts, heartbeat
<1>4. Exact' /\ FreshIsIdle'
  BY <1>1, <1>2 DEF Exact, FreshIsIdle, Fresh, attempts
<1>5. FiledByIp'
  BY <1>2 DEF FiledByIp, UdpFromRegisteredPeer
<1> QED
  BY <1>3, <1>4, <1>5 DEF IInv

\* The steps that leave peers, attempts, threads and registries alone.
LEMMA OtherKeeps ==
    ASSUME IInv,
           \/ SendHeartbeats
           \/ \E p \in Peer, c \in Conn : HeartbeatAnswered(p, c)
           \/ \E p \in AutoConnections : AddAutoConnection(p) \/ RemoveAutoConnection(p)
           \/ \E c \in Conn : Break(c)
           \/ BeginShutdown
           \/ UNCHANGED vars
    PROVE  IInv'
<1>1. TypeOK /\ Exact /\ FreshIsIdle /\ FiledByIp
  BY DEF IInv
<1>2. UNCHANGED <<remote, thread, registry, attempts, consecutive_failed>>
  BY Zenon DEF SendHeartbeats, HeartbeatAnswered, AddAutoConnection, RemoveAutoConnection, Break,
               BeginShutdown, vars, heartbeat
<1>3. futures' \subseteq Peer \X Conn
  <2>1. CASE SendHeartbeats
    <3>1. futures' = {<<p, connections_by_peer_[p]>> : p \in DOMAIN connections_by_peer_}
      BY <2>1 DEF SendHeartbeats
    <3> QED
      BY <3>1, <1>1 DEF TypeOK
  <2>2. CASE ~SendHeartbeats
    <3>1. futures' \subseteq futures
      BY <2>2, Zenon DEF HeartbeatAnswered, AddAutoConnection, RemoveAutoConnection, Break, BeginShutdown,
                  vars, heartbeat
    <3> QED
      BY <3>1, <1>1 DEF TypeOK
  <2> QED
    BY <2>1, <2>2
<1>4. open' \subseteq Conn /\ auto_connections_' \subseteq Peer
  BY <1>1, ManagerAssumption, Zenon
     DEF SendHeartbeats, HeartbeatAnswered, AddAutoConnection, RemoveAutoConnection, Break,
         BeginShutdown, vars, TypeOK
<1>5. shutdown' \in {"running", "closing", "cleared"}
  BY <1>1, Zenon DEF SendHeartbeats, HeartbeatAnswered, AddAutoConnection, RemoveAutoConnection, Break,
              BeginShutdown, vars, TypeOK
<1>6. TypeOK'
  BY <1>1, <1>2, <1>3, <1>4, <1>5 DEF TypeOK, registry, attempts
<1>7. Exact' /\ FreshIsIdle'
  BY <1>1, <1>2 DEF Exact, FreshIsIdle, Fresh, attempts
<1>8. FiledByIp'
  BY <1>1, <1>2, RegistryUnchanged
<1> QED
  BY <1>6, <1>7, <1>8 DEF IInv

\* Every step keeps the invariant.
LEMMA NextIInv == IInv /\ [Next]_vars => IInv'
<1> SUFFICES ASSUME IInv, [Next]_vars PROVE IInv'
  OBVIOUS
<1>1. ASSUME NEW c \in Outgoing, NEW p \in Peer, ConnectAsync(c, p) \/ AutoConnect(c, p) PROVE IInv'
  BY <1>1, ConnectKeeps DEF AutoConnect
<1>2. ASSUME NEW c \in Incoming, NEW p \in Peer, Accept(c, p) PROVE IInv'
  BY <1>2, AcceptKeeps
<1>3. ASSUME NEW c \in Outgoing,
             ConnectFailed(c) \/ TcpConnected(c) \/ ConnectTimeout(c) \/ PostedComplete(c)
      PROVE  IInv'
  <2>1. c \in Conn
    BY DEF Conn
  <2> QED
    BY <1>3, <2>1, TimeoutKeeps, ThreadKeeps, PostedKeeps
<1>4. ASSUME NEW c \in Conn,
             StartSession(c) \/ HandshakeAnswered(c) \/ HandshakeFailed(c) \/ Register(c)
      PROVE  IInv'
  BY <1>4, ThreadKeeps, RegisterKeeps
<1>5. ASSUME NEW p \in Peer, NEW c \in Conn, HeartbeatFailed(p, c) PROVE IInv'
  BY <1>5, ErasingKeeps
<1>6. ASSUME NEW p \in Peer, RemoveConnection(p) PROVE IInv'
  <2>1. PICK c \in Conn : TRUE
    BY <1>6 DEF RemoveConnection, IInv, TypeOK
  <2> QED
    BY <1>6, <2>1, ErasingKeeps
<1>7. CASE ClearConnections
  BY <1>7, ClearKeeps
<1>8. CASE \/ SendHeartbeats
           \/ \E p \in Peer, c \in Conn : HeartbeatAnswered(p, c)
           \/ \E p \in AutoConnections : AddAutoConnection(p) \/ RemoveAutoConnection(p)
           \/ \E c \in Conn : Break(c)
           \/ BeginShutdown
           \/ UNCHANGED vars
  BY <1>8, OtherKeeps
<1> QED
  BY <1>1, <1>2, <1>3, <1>4, <1>5, <1>6, <1>7, <1>8, Zenon
     DEF Next, Progress, Heartbeats, Maintenance

\* For any peers, ips, attempts and accepted connections: pending_connections_
\* holds the addresses of the attempts under way, each of one attempt.
THEOREM ManagerPending == Spec => []PendingIsExact
<1>1. IInv => PendingIsExact
  BY DEF IInv, Exact, PendingIsExact
<1> QED
  BY <1>1, InitIInv, NextIInv, PTL DEF Spec

\* For any peers, ips, attempts and accepted connections: a UDP packet from the
\* ip of a registered peer that shares it with nobody is attributed to it.
THEOREM ManagerFindsPeers == Spec => []UdpFromRegisteredPeer
<1>1. IInv => UdpFromRegisteredPeer
  BY DEF IInv, FiledByIp
<1> QED
  BY <1>1, InitIInv, NextIInv, PTL DEF Spec

\* The outcome as RequestOutcome sees it: a refused call made no attempt.
Seen == [c \in Outgoing |-> IF outcome[c] = "refused" THEN "none" ELSE outcome[c]]

\* An attempt that is completed is settled.
LEMMA CompleteSettles ==
    ASSUME IInv, NEW c \in Outgoing, outcome[c] = "pending",
           NEW result \in {"connected", "failed", "timeout"}, Complete(c, result)
    PROVE  Attempts!Next
<1>1. Seen' = [Seen EXCEPT ![c] = result] /\ Seen[c] = "pending"
  BY Zenon DEF IInv, TypeOK, Complete, Seen
<1>2. Attempts!Settle(c)
  BY <1>1, Zenon DEF Attempts!Settle, Seen
<1> QED
  BY <1>2 DEF Attempts!Next

\* A step of the manager makes an attempt, settles one that is pending, or
\* leaves all of them alone.
LEMMA StepSeen == IInv /\ [Next]_vars => [Attempts!Next]_Seen
<1> SUFFICES ASSUME IInv, [Next]_vars PROVE [Attempts!Next]_Seen
  OBVIOUS
<1>1. TypeOK /\ FreshIsIdle
  BY DEF IInv
<1>2. ASSUME UNCHANGED outcome PROVE UNCHANGED Seen
  BY <1>2 DEF Seen
<1>3. ASSUME NEW c \in Outgoing, NEW p \in Peer, ConnectAsync(c, p) PROVE [Attempts!Next]_Seen
  <2>1. outcome[c] = "none"
    BY <1>1, <1>3 DEF ConnectAsync, FreshIsIdle
  <2>2. CASE outcome' = [outcome EXCEPT ![c] = "refused"]
    <3>1. Seen' = Seen
      BY <2>1, <2>2, <1>1 DEF Seen, TypeOK
    <3> QED
      BY <3>1
  <2>3. CASE outcome' = [outcome EXCEPT ![c] = "pending"]
    <3>1. Seen' = [Seen EXCEPT ![c] = "pending"] /\ Seen[c] = "none"
      BY <2>1, <2>3, <1>1, Zenon DEF Seen, TypeOK
    <3>2. Attempts!Make(c)
      BY <3>1, Zenon DEF Attempts!Make, Seen
    <3> QED
      BY <3>2 DEF Attempts!Next
  <2> QED
    BY <1>3, <2>2, <2>3 DEF ConnectAsync
<1>4. ASSUME NEW c \in Outgoing, ConnectTimeout(c) \/ ConnectFailed(c)
      PROVE  [Attempts!Next]_Seen
  BY <1>4, CompleteSettles DEF ConnectTimeout, ConnectFailed
<1>5. ASSUME NEW c \in Outgoing, PostedComplete(c) PROVE [Attempts!Next]_Seen
  <2>1. CASE outcome[c] = "pending"
    <3>1. Complete(c, "connected") \/ Complete(c, "failed")
      BY <1>5, <2>1, Zenon DEF PostedComplete
    <3> QED
      BY <2>1, <3>1, CompleteSettles
  <2>2. CASE outcome[c] # "pending"
    BY <1>2, <1>5, <2>2, Zenon DEF PostedComplete, attempts
  <2> QED
    BY <2>1, <2>2
<1>6. ASSUME NEW c \in Conn,
             \/ TcpConnected(c) \/ StartSession(c) \/ HandshakeAnswered(c)
             \/ HandshakeFailed(c) \/ Register(c) \/ Break(c)
      PROVE  UNCHANGED outcome
  BY <1>6, Zenon
     DEF TcpConnected, StartSession, HandshakeAnswered, HandshakeFailed, Register, Break, attempts
<1>7. ASSUME NEW p \in Peer, NEW c \in Conn,
             Accept(c, p) \/ HeartbeatAnswered(p, c) \/ HeartbeatFailed(p, c)
      PROVE  UNCHANGED outcome
  BY <1>7, Zenon DEF Accept, HeartbeatAnswered, HeartbeatFailed, attempts
<1>8. ASSUME NEW p, RemoveConnection(p) \/ AddAutoConnection(p) \/ RemoveAutoConnection(p)
      PROVE  UNCHANGED outcome
  BY <1>8, Zenon DEF RemoveConnection, AddAutoConnection, RemoveAutoConnection, attempts
<1>9. ASSUME SendHeartbeats \/ BeginShutdown \/ ClearConnections \/ UNCHANGED vars
      PROVE  UNCHANGED outcome
  BY <1>9, Zenon DEF SendHeartbeats, BeginShutdown, ClearConnections, attempts, vars
<1>10. \A c \in Outgoing : c \in Conn
  BY DEF Conn
<1>11. \A c \in Incoming : c \in Conn
  BY DEF Conn
<1> QED
  BY <1>2, <1>3, <1>4, <1>5, <1>6, <1>7, <1>8, <1>9, <1>10, <1>11, Zenon
     DEF Next, Progress, Heartbeats, Maintenance, AutoConnect

\* The callback of connect_async is called at most once, with one result, for
\* any number of attempts and however timer, socket and startup thread race.
THEOREM ManagerSettlesOnce == Spec => ConnectSettlesOnce
<1>1. Init => Attempts!Init
  BY DEF Init, Attempts!Init
<1> QED
  BY <1>1, InitIInv, NextIInv, StepSeen, PTL DEF Spec, ConnectSettlesOnce, Attempts!Spec, Seen
=============================================================================
