--------------------------- MODULE RequestTracker ---------------------------
(***************************************************************************)
(* AsyncRequestTracker as MeshNode uses it.  Requests are made by          *)
(* application threads, responses arrive on the routing thread and timer   *)
(* handlers run on the io thread.  What is done under mu_ is one step;     *)
(* fulfill_request releases mu_ between finding a request and completing   *)
(* it, and complete_request calls the callback after releasing mu_.        *)
(***************************************************************************)
EXTENDS Naturals, Sequences

CONSTANTS Request,        \* ids of send_request_async
          Broadcast,      \* ids of broadcast_request
          MaxResponses    \* bound: responses that arrive for an id

ASSUME TrackerAssumption == Request \cap Broadcast = {} /\ MaxResponses \in Nat

Ids == Request \cup Broadcast

VARIABLES
    pending_requests_,   \* requests with a callback
    broadcasts_,         \* broadcasts that still collect
    timer,               \* "off", "armed", "expired" (its handler will run) or "cancelled"
    sent,                \* ids whose packet has been sent
    arrived,             \* responses that have arrived for an id
    found,               \* the routing thread is in fulfill_request, mu_ released, for these
    answering,           \* the routing thread is about to call the callback of these
    expiring,            \* the io thread is about to call the callback of these
    callbacks,           \* the results a request's callback has been called with
    collected,           \* calls of a broadcast's on_response
    completed,           \* calls of a broadcast's on_complete
    refused              \* ids a response of which fulfill_request has returned false for

tracker == <<pending_requests_, broadcasts_>>
network == <<sent, arrived>>
threads == <<found, answering, expiring>>
results == <<callbacks, collected, completed, refused>>
vars == <<tracker, timer, network, threads, results>>

Init ==
    /\ pending_requests_ = {}
    /\ broadcasts_ = {}
    /\ timer = [r \in Ids |-> "off"]
    /\ sent = {}
    /\ arrived = [r \in Ids |-> 0]
    /\ found = {}
    /\ answering = {}
    /\ expiring = {}
    /\ callbacks = [r \in Request |-> <<>>]
    /\ collected = [r \in Broadcast |-> 0]
    /\ completed = [r \in Broadcast |-> 0]
    /\ refused = {}

-----------------------------------------------------------------------------
(* The application threads: the id is tracked first, then the packet is    *)
(* sent.                                                                   *)

TrackRequestCallback(r) ==
    /\ r \in Request /\ timer[r] = "off"
    /\ timer' = [timer EXCEPT ![r] = "armed"]
    /\ pending_requests_' = pending_requests_ \cup {r}
    /\ UNCHANGED <<broadcasts_, network, threads, results>>

TrackBroadcast(r) ==
    /\ r \in Broadcast /\ timer[r] = "off"
    /\ timer' = [timer EXCEPT ![r] = "armed"]
    /\ broadcasts_' = broadcasts_ \cup {r}
    /\ UNCHANGED <<pending_requests_, network, threads, results>>

\* The packet may be sent before the id is tracked.
FaultySendPacket(r) ==
    /\ r \notin sent
    /\ sent' = sent \cup {r}
    /\ UNCHANGED <<tracker, timer, arrived, threads, results>>

SendPacket(r) ==
    /\ timer[r] # "off" /\ r \notin sent
    /\ sent' = sent \cup {r}
    /\ UNCHANGED <<tracker, timer, arrived, threads, results>>

-----------------------------------------------------------------------------
(* The routing thread: fulfill_request for a response to r.                *)

FulfillRequest(r) ==
    /\ found \cup answering = {}
    /\ r \in sent /\ arrived[r] < MaxResponses
    /\ arrived' = [arrived EXCEPT ![r] = @ + 1]
    /\ \/ /\ r \in pending_requests_
          /\ found' = {r}
          /\ UNCHANGED <<collected, refused>>
       \/ /\ r \in broadcasts_
          /\ collected' = [collected EXCEPT ![r] = @ + 1]
          /\ UNCHANGED <<found, refused>>
       \/ /\ r \notin pending_requests_ \cup broadcasts_
          /\ refused' = refused \cup {r}
          /\ UNCHANGED <<found, collected>>
    /\ UNCHANGED <<tracker, timer, sent, answering, expiring, callbacks, completed>>

\* The request is not looked up again under mu_.
FaultyCompleteFound(r) ==
    /\ r \in found
    /\ found' = found \ {r}
    /\ pending_requests_' = pending_requests_ \ {r}
    /\ answering' = answering \cup {r}
    /\ UNCHANGED <<broadcasts_, timer, network, expiring, results>>

\* complete_request up to the release of mu_; a timeout may have won.
CompleteFound(r) ==
    /\ r \in found
    /\ found' = found \ {r}
    /\ \/ /\ r \in pending_requests_
          /\ pending_requests_' = pending_requests_ \ {r}
          /\ answering' = answering \cup {r}
          /\ UNCHANGED refused
       \/ /\ r \notin pending_requests_
          /\ refused' = refused \cup {r}
          /\ UNCHANGED <<pending_requests_, answering>>
    /\ UNCHANGED <<broadcasts_, timer, network, expiring, callbacks, collected, completed>>

\* timer->cancel() has no effect on a handler that is already due.
CallResponse(r) ==
    /\ r \in answering
    /\ timer' = [timer EXCEPT ![r] = IF @ = "armed" THEN "cancelled" ELSE @]
    /\ callbacks' = [callbacks EXCEPT ![r] = Append(@, "response")]
    /\ answering' = answering \ {r}
    /\ UNCHANGED <<tracker, network, found, expiring, collected, completed, refused>>

-----------------------------------------------------------------------------
(* The io thread.                                                          *)

\* The timer expires: its handler is queued.
Expire(r) ==
    /\ timer[r] = "armed"
    /\ timer' = [timer EXCEPT ![r] = "expired"]
    /\ UNCHANGED <<tracker, network, threads, results>>

\* The handler leaves the request to its response.
FaultyTimeoutRequest(r) ==
    /\ expiring = {}
    /\ r \in Request /\ timer[r] = "expired"
    /\ timer' = [timer EXCEPT ![r] = "cancelled"]
    /\ UNCHANGED <<tracker, network, threads, results>>

\* The handler of a request's timer, up to the release of mu_.
TimeoutRequest(r) ==
    /\ expiring = {}
    /\ r \in Request /\ timer[r] = "expired"
    /\ timer' = [timer EXCEPT ![r] = "cancelled"]
    /\ pending_requests_' = pending_requests_ \ {r}
    /\ expiring' = pending_requests_ \cap {r}
    /\ UNCHANGED <<broadcasts_, network, found, answering, results>>

CallTimeout(r) ==
    /\ r \in expiring
    /\ callbacks' = [callbacks EXCEPT ![r] = Append(@, "timeout")]
    /\ expiring' = expiring \ {r}
    /\ UNCHANGED <<tracker, timer, network, found, answering, collected, completed, refused>>

\* The entry is not erased.
FaultyFinishBroadcast(r) ==
    /\ expiring = {}
    /\ r \in broadcasts_ /\ timer[r] = "expired"
    /\ timer' = [timer EXCEPT ![r] = "cancelled"]
    /\ completed' = [completed EXCEPT ![r] = @ + 1]
    /\ UNCHANGED <<tracker, network, threads, callbacks, collected, refused>>

\* The handler of a broadcast's timer: on_complete is called under mu_.
FinishBroadcast(r) ==
    /\ expiring = {}
    /\ r \in broadcasts_ /\ timer[r] = "expired"
    /\ timer' = [timer EXCEPT ![r] = "cancelled"]
    /\ completed' = [completed EXCEPT ![r] = @ + 1]
    /\ broadcasts_' = broadcasts_ \ {r}
    /\ UNCHANGED <<pending_requests_, network, threads, callbacks, collected, refused>>

-----------------------------------------------------------------------------
Next ==
    \E r \in Ids :
        \/ TrackRequestCallback(r) \/ TrackBroadcast(r) \/ SendPacket(r)
        \/ FulfillRequest(r) \/ CompleteFound(r) \/ CallResponse(r)
        \/ Expire(r) \/ TimeoutRequest(r) \/ CallTimeout(r) \/ FinishBroadcast(r)

\* Timers expire, the io thread runs their handlers and the routing thread
\* goes on with what it has begun; responses need not arrive.
Fairness ==
    \A r \in Ids :
        /\ WF_vars(Expire(r))
        /\ WF_vars(TimeoutRequest(r) \/ CallTimeout(r) \/ FinishBroadcast(r))
        /\ WF_vars(CompleteFound(r) \/ CallResponse(r))

Spec == Init /\ [][Next]_vars /\ Fairness

-----------------------------------------------------------------------------
(* Properties.                                                             *)

TypeOK ==
    /\ pending_requests_ \subseteq Request
    /\ broadcasts_ \subseteq Broadcast
    /\ timer \in [Ids -> {"off", "armed", "expired", "cancelled"}]
    /\ sent \subseteq Ids
    /\ arrived \in [Ids -> 0..MaxResponses]
    /\ found \subseteq Request /\ answering \subseteq Request /\ expiring \subseteq Request
    /\ callbacks \in [Request -> Seq({"response", "timeout"})]
    /\ collected \in [Broadcast -> Nat]
    /\ completed \in [Broadcast -> Nat]
    /\ refused \subseteq Ids

\* How the caller sees a request.
Outcome == [r \in Request |->
    IF timer[r] = "off" THEN "none"
    ELSE IF Len(callbacks[r]) = 0 THEN "pending"
    ELSE IF Len(callbacks[r]) = 1 THEN callbacks[r][1] ELSE "settled twice"]

Promise == INSTANCE RequestOutcome
           WITH Req <- Request, Results <- {"response", "timeout"}, outcome <- Outcome

\* However the response, a duplicate of it and the timeout race for the
\* entry, the callback of a request, which sets a promise, is called at most
\* once: the tracker implements RequestOutcome.
SettledAtMostOnce == Promise!Spec

\* The callback of every tracked request is called, and the window of every
\* broadcast ends: the threads that wait for them go on, whether or not a
\* response arrives.
EverySettles ==
    /\ Promise!Settles
    /\ \A r \in Broadcast : []<>(r \notin broadcasts_)

\* A response is refused, and then taken for a new message, only after the
\* request has been claimed by another response or by its timeout: a response
\* never arrives before its request is tracked.
RefusedOnlyWhenLate ==
    \A r \in refused :
        /\ r \in Request => callbacks[r] # <<>> \/ r \in expiring
        /\ r \in Broadcast => completed[r] > 0

\* The caller of broadcast_request gets its results once, and no response is
\* added to them afterwards.
NothingAfterComplete ==
    [][\A r \in Broadcast : completed[r] > 0 =>
          collected'[r] = collected[r] /\ completed'[r] = completed[r]]_vars

=============================================================================
