---------------------------- MODULE RpcConnection ----------------------------
(***************************************************************************)
(* One connection seen from both of its ends: the initiator, which called  *)
(* connect_async, and the acceptor.  Each end has a session over the TCP   *)
(* stream, its pending_requests_ and a startup thread that blocks in       *)
(* RpcConnection::start.  The requests are the initiator's handshake and   *)
(* the heartbeats both ends send once they have registered the connection. *)
(* What is done under mu_ is one step; send_message releases mu_ before it *)
(* hands the message to the session, and the handshake handler answers     *)
(* before it fulfils the acceptor's promise.                               *)
(***************************************************************************)
EXTENDS Naturals, Sequences

CONSTANTS Beats       \* bound: Beats[e] are the heartbeats end e sends

Ends == {"initiator", "acceptor"}
Other(e) == IF e = "initiator" THEN "acceptor" ELSE "initiator"
Handshake == "handshake"

ASSUME ConnectionAssumption ==
    /\ DOMAIN Beats = Ends
    /\ Beats["initiator"] \cap Beats["acceptor"] = {}
    /\ Handshake \notin Beats["initiator"] \cup Beats["acceptor"]

Sends(e) == Beats[e] \cup IF e = "initiator" THEN {Handshake} ELSE {}
Request == Sends("initiator") \cup Sends("acceptor")
From(r) == IF r \in Sends("initiator") THEN "initiator" ELSE "acceptor"
Message == [id : Request, reply : BOOLEAN]

VARIABLES
    session,             \* of an end: "none", "open" or "stopped"
    startup,             \* the startup thread: "spawned", "waiting", "registered" or "failed"
    pending_requests_,   \* the entries of an end
    promise,             \* of a request: "none", "pending" or what it was set to
    unsent,              \* requests send_message has entered but not handed to the session
    expired,             \* requests whose timer has expired and whose handler will run
    failing,             \* ends that have stopped the session in shutdown() and go on to mu_
    fulfilling,          \* the handshake handler has answered and goes on to the promise
    handshake_promise_,  \* the acceptor's promise is set
    channel              \* messages on their way to an end

requests == <<pending_requests_, promise, unsent, expired>>
handshake == <<fulfilling, handshake_promise_>>
vars == <<session, startup, requests, failing, handshake, channel>>

Init ==
    /\ session = [e \in Ends |-> "none"]
    /\ startup = [e \in Ends |-> "spawned"]
    /\ pending_requests_ = {}
    /\ promise = [r \in Request |-> "none"]
    /\ unsent = {}
    /\ expired = {}
    /\ failing = {}
    /\ fulfilling = FALSE
    /\ handshake_promise_ = FALSE
    /\ channel = [e \in Ends |-> <<>>]

-----------------------------------------------------------------------------
(* send_message, on_message and the timers.                                *)

\* What the end's session does with a message: it is lost once one of the
\* sessions has stopped.
Sent(e, id, reply) ==
    IF session[e] = "open" /\ session[Other(e)] # "stopped"
    THEN [channel EXCEPT ![Other(e)] = Append(@, [id |-> id, reply |-> reply])]
    ELSE channel

\* The entry and its timer, under mu_.
Enter(r) ==
    /\ promise[r] = "none"
    /\ promise' = [promise EXCEPT ![r] = "pending"]
    /\ pending_requests_' = pending_requests_ \cup {r}
    /\ unsent' = unsent \cup {r}
    /\ UNCHANGED expired

SendHandshake ==
    /\ startup["initiator"] = "waiting"
    /\ Enter(Handshake)
    /\ UNCHANGED <<session, startup, failing, handshake, channel>>

SendHeartbeat(e, r) ==
    /\ r \in Beats[e] /\ startup[e] = "registered"
    /\ Enter(r)
    /\ UNCHANGED <<session, startup, failing, handshake, channel>>

HandToSession(r) ==
    /\ r \in unsent
    /\ unsent' = unsent \ {r}
    /\ channel' = Sent(From(r), r, FALSE)
    /\ UNCHANGED <<session, startup, pending_requests_, promise, expired, failing, handshake>>

\* The entry stays.
FaultySettle(rs, result) ==
    /\ promise' = [r \in Request |-> IF r \in rs THEN result ELSE promise[r]]
    /\ UNCHANGED pending_requests_

\* The promises of the entries rs are set and the entries erased; their
\* timers are cancelled with them.
Settle(rs, result) ==
    /\ promise' = [r \in Request |-> IF r \in rs THEN result ELSE promise[r]]
    /\ pending_requests_' = pending_requests_ \ rs

\* The timer is only armed for a session that is open.
FaultyExpire(r) ==
    /\ r \in pending_requests_ \ expired
    /\ session[From(r)] = "open"
    /\ expired' = expired \cup {r}
    /\ UNCHANGED <<session, startup, pending_requests_, promise, unsent, failing, handshake, channel>>

Expire(r) ==
    /\ r \in pending_requests_ \ expired
    /\ expired' = expired \cup {r}
    /\ UNCHANGED <<session, startup, pending_requests_, promise, unsent, failing, handshake, channel>>

\* Whether the entry is still there is not checked.
FaultyTimedOut(r) ==
    /\ r \in expired
    /\ expired' = expired \ {r}
    /\ Settle({r}, "timeout")
    /\ UNCHANGED <<session, startup, unsent, failing, handshake, channel>>

\* The timer's handler.
TimedOut(r) ==
    /\ r \in expired
    /\ expired' = expired \ {r}
    /\ Settle({r} \cap pending_requests_, "timeout")
    /\ UNCHANGED <<session, startup, unsent, failing, handshake, channel>>

Received(e) ==
    /\ session[e] = "open" /\ channel[e] # <<>>
    /\ e = "acceptor" => ~fulfilling

\* store_response for a message of the other end; the handlers ignore it.
StoreResponse(e) ==
    /\ Received(e) /\ Head(channel[e]).reply
    /\ Settle({Head(channel[e]).id} \cap pending_requests_, "response")
    /\ channel' = [channel EXCEPT ![e] = Tail(@)]
    /\ UNCHANGED <<session, startup, unsent, expired, failing, handshake>>

\* The promise is forgotten.
FaultyHandleRequest(e) ==
    /\ Received(e) /\ ~Head(channel[e]).reply
    /\ channel' = [Sent(e, Head(channel[e]).id, TRUE) EXCEPT ![e] = Tail(@)]
    /\ UNCHANGED <<session, startup, requests, failing, handshake>>

\* HeartbeatHandler and HandshakeHandler: the answer goes back.
HandleRequest(e) ==
    /\ Received(e) /\ ~Head(channel[e]).reply
    /\ channel' = [Sent(e, Head(channel[e]).id, TRUE) EXCEPT ![e] = Tail(@)]
    /\ fulfilling' = (fulfilling \/ Head(channel[e]).id = Handshake)
    /\ UNCHANGED <<session, startup, requests, failing, handshake_promise_>>

\* fulfill_handshake_promise.
FulfillHandshakePromise ==
    /\ fulfilling
    /\ fulfilling' = FALSE
    /\ handshake_promise_' = TRUE
    /\ UNCHANGED <<session, startup, requests, failing, channel>>

-----------------------------------------------------------------------------
(* start and shutdown.                                                     *)

Start(e) ==
    /\ startup[e] = "spawned"
    /\ startup' = [startup EXCEPT ![e] = "waiting"]
    /\ session' = [session EXCEPT ![e] = "open"]
    /\ UNCHANGED <<requests, failing, handshake, channel>>

\* session_->stop(), in shutdown(): what is on its way to this end is lost.
StopSession(e) ==
    /\ session' = [session EXCEPT ![e] = "stopped"]
    /\ channel' = [channel EXCEPT ![e] = <<>>]
    /\ failing' = failing \cup {e}

\* The manager shuts the connection down: its connect timer, or its shutdown().
Shutdown(e) ==
    /\ session[e] = "open"
    /\ StopSession(e)
    /\ UNCHANGED <<startup, requests, handshake>>

\* The rest of shutdown(), under mu_.
FailPending(e) ==
    /\ e \in failing
    /\ failing' = failing \ {e}
    /\ Settle({r \in pending_requests_ : From(r) = e}, "destroyed")
    /\ UNCHANGED <<session, startup, unsent, expired, handshake, channel>>

InitiatorConnected ==
    /\ startup["initiator"] = "waiting" /\ promise[Handshake] = "response"
    /\ startup' = [startup EXCEPT !["initiator"] = "registered"]
    /\ UNCHANGED <<session, requests, failing, handshake, channel>>


\* The attempt completes with a failure, which shuts the connection down.
InitiatorFails ==
    /\ startup["initiator"] = "waiting" /\ promise[Handshake] \in {"timeout", "destroyed"}
    /\ Handshake \notin unsent
    /\ startup' = [startup EXCEPT !["initiator"] = "failed"]
    /\ StopSession("initiator")
    /\ UNCHANGED <<requests, handshake>>

AcceptorConnected ==
    /\ startup["acceptor"] = "waiting" /\ handshake_promise_
    /\ startup' = [startup EXCEPT !["acceptor"] = "registered"]
    /\ UNCHANGED <<session, requests, failing, handshake, channel>>

\* wait_for returns without the promise.
AcceptorTimesOut ==
    /\ startup["acceptor"] = "waiting" /\ ~handshake_promise_
    /\ startup' = [startup EXCEPT !["acceptor"] = "failed"]
    /\ StopSession("acceptor")
    /\ UNCHANGED <<requests, handshake>>

\* The session reads the end of the stream, or an error, and stops.
ReadError(e) ==
    /\ session[e] = "open" /\ session[Other(e)] = "stopped"
    /\ session' = [session EXCEPT ![e] = "stopped"]
    /\ channel' = [channel EXCEPT ![e] = <<>>]
    /\ UNCHANGED <<startup, requests, failing, handshake>>

\* The network between the ends breaks.
Break ==
    /\ \A e \in Ends : session[e] = "open"
    /\ session' = [e \in Ends |-> "stopped"]
    /\ channel' = [e \in Ends |-> <<>>]
    /\ UNCHANGED <<startup, requests, failing, handshake>>

Next ==
    \/ SendHandshake \/ FulfillHandshakePromise
    \/ InitiatorConnected \/ InitiatorFails \/ AcceptorConnected \/ AcceptorTimesOut
    \/ Break
    \/ \E r \in Request : HandToSession(r) \/ Expire(r) \/ TimedOut(r)
    \/ \E e \in Ends : \/ StoreResponse(e) \/ HandleRequest(e) \/ Start(e) \/ Shutdown(e)
                       \/ FailPending(e) \/ ReadError(e)
                       \/ \E r \in Beats[e] : SendHeartbeat(e, r)

\* What needs neither a decision of the application nor a broken network:
\* threads run, handlers are called, timers expire, sessions see the end of
\* the stream.
Progress ==
    \/ SendHandshake \/ FulfillHandshakePromise
    \/ InitiatorConnected \/ InitiatorFails \/ AcceptorConnected \/ AcceptorTimesOut
    \/ \E r \in Request : HandToSession(r) \/ Expire(r) \/ TimedOut(r)
    \/ \E e \in Ends : \/ StoreResponse(e) \/ HandleRequest(e) \/ Start(e)
                       \/ FailPending(e) \/ ReadError(e)

Spec == Init /\ [][Next]_vars /\ WF_vars(Progress)

-----------------------------------------------------------------------------
TypeOK ==
    /\ session \in [Ends -> {"none", "open", "stopped"}]
    /\ startup \in [Ends -> {"spawned", "waiting", "registered", "failed"}]
    /\ pending_requests_ \subseteq Request
    /\ promise \in [Request -> {"none", "pending", "response", "timeout", "destroyed"}]
    /\ unsent \subseteq Request
    /\ expired \subseteq Request
    /\ failing \subseteq Ends
    /\ fulfilling \in BOOLEAN
    /\ handshake_promise_ \in BOOLEAN
    /\ channel \in [Ends -> Seq(Message)]

\* Exactly the requests whose promise is not set have an entry: none is left
\* behind after its request has been settled, and none is erased with its
\* caller still waiting.
EntriesArePending ==
    /\ TypeOK
    /\ pending_requests_ = {r \in Request : promise[r] = "pending"}

Promise(r) ==
    INSTANCE RequestOutcome WITH
        Req <- {r}, Results <- {"response", "timeout", "destroyed"},
        outcome <- [x \in {r} |-> promise[x]]

\* The promise behind the future that send_message returns is set at most
\* once, however the response, the timer's handler and shutdown() race.
SetAtMostOnce == [][\A r \in Request : Promise(r)!Next \/ promise'[r] = promise[r]]_promise

\* Whoever waits for a future of send_message goes on: also when the request
\* is sent on a session that has stopped, or while shutdown() runs.
EveryFutureReady == \A r \in Request : Promise(r)!Settles

\* The initiator registers the acceptor only after the acceptor's handler has
\* seen the handshake: its promise is set, or is about to be.
HandshakeSeen ==
    startup["initiator"] = "registered" => fulfilling \/ handshake_promise_

=============================================================================
