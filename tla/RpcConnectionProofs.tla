------------------------ MODULE RpcConnectionProofs ------------------------
(* Proofs about RpcConnection: entries and promises agree, every promise   *)
(* is set at most once, and the initiator's handshake reaches the acceptor *)
(* before the initiator registers it.                                      *)
EXTENDS RpcConnection, TLAPS

IsAnswer(x) == x.reply /\ x.id = Handshake

NoAnswer(q) == \A k \in 1 .. Len(q) : ~IsAnswer(q[k])

\* An answer to the handshake, under way or stored, was given by a handler
\* that has set the acceptor's promise or is about to.
Answered ==
    /\ ~(fulfilling \/ handshake_promise_) =>
          NoAnswer(channel["initiator"]) /\ promise[Handshake] # "response"
    /\ startup["initiator"] = "registered" => promise[Handshake] = "response"

\* The messages an end gets: responses to its own requests, and requests of
\* the other end.
Inbound(e) == {x \in Message : From(x.id) = IF x.reply THEN e ELSE Other(e)}

Directed == \A e \in Ends : channel[e] \in Seq(Inbound(e))

IInv == EntriesArePending /\ Directed /\ Answered

\* The handshake is the initiator's request; messages carry requests.
LEMMA Requests ==
    /\ Handshake \in Request
    /\ \A e \in Ends : Other(e) \in Ends
    /\ \A e \in Ends : Other(e) # e /\ Other(Other(e)) = e
    /\ \A r \in Request : From(r) \in Ends
    /\ From(Handshake) = "initiator"
    /\ \A r \in Request, b \in BOOLEAN : [id |-> r, reply |-> b] \in Message
BY DEF Request, Sends, Ends, Other, Message, From

\* Nothing has been sent.
LEMMA InitIInv == Init => IInv
<1> SUFFICES ASSUME Init PROVE IInv
  OBVIOUS
<1>0. <<>> \in Seq(Message)
  OBVIOUS
<1>1. TypeOK
  BY <1>0, Zenon DEF Init, TypeOK
<1>2. pending_requests_ = {r \in Request : promise[r] = "pending"}
  BY DEF Init
<1>3. NoAnswer(<<>>)
  BY DEF NoAnswer
<1>4. Answered
  BY <1>3, Requests DEF Init, Answered, Ends
<1>5. Directed
  BY DEF Init, Directed
<1> QED
  BY <1>1, <1>2, <1>4, <1>5 DEF IInv, EntriesArePending

\* Entering a request keeps entries and promises in step.
LEMMA EnterKeeps ==
    ASSUME EntriesArePending, NEW r \in Request, Enter(r)
    PROVE  /\ pending_requests_' = {q \in Request : promise'[q] = "pending"}
           /\ pending_requests_' \subseteq Request /\ unsent' \subseteq Request
           /\ expired' \subseteq Request
           /\ promise' \in [Request -> {"none", "pending", "response", "timeout", "destroyed"}]
           /\ promise[r] = "none" /\ promise' = [promise EXCEPT ![r] = "pending"]
BY DEF EntriesArePending, TypeOK, Enter

\* Settling entries keeps entries and promises in step.
LEMMA SettleKeeps ==
    ASSUME EntriesArePending, NEW rs \in SUBSET pending_requests_,
           NEW result \in {"response", "timeout", "destroyed"}, Settle(rs, result)
    PROVE  /\ pending_requests_' = {q \in Request : promise'[q] = "pending"}
           /\ pending_requests_' \subseteq Request
           /\ promise' \in [Request -> {"none", "pending", "response", "timeout", "destroyed"}]
           /\ \A q \in Request : promise'[q] = IF q \in rs THEN result ELSE promise[q]
BY DEF EntriesArePending, TypeOK, Settle

\* What a session does with a message that the other end may get.
LEMMA SentKeeps ==
    ASSUME TypeOK, Directed, NEW e \in Ends, NEW r \in Request, NEW b \in BOOLEAN,
           From(r) = IF b THEN Other(e) ELSE e
    PROVE  /\ Sent(e, r, b) \in [Ends -> Seq(Message)]
           /\ Sent(e, r, b)[e] = channel[e]
           /\ Sent(e, r, b)[Other(e)] \in Seq(Inbound(Other(e)))
           /\ \/ Sent(e, r, b)[Other(e)] = channel[Other(e)]
              \/ Sent(e, r, b)[Other(e)] = Append(channel[Other(e)], [id |-> r, reply |-> b])
<1>1. /\ channel \in [Ends -> Seq(Message)] /\ Other(e) # e /\ Other(e) \in Ends
      /\ channel[Other(e)] \in Seq(Inbound(Other(e)))
  BY Requests DEF TypeOK, Directed
<1>2. [id |-> r, reply |-> b] \in Message /\ [id |-> r, reply |-> b] \in Inbound(Other(e))
  <2>1. [id |-> r, reply |-> b] \in Message
    BY Requests
  <2> QED
    BY <2>1, Requests DEF Inbound
<1>3. CASE session[e] = "open" /\ session[Other(e)] # "stopped"
  <2>1. Sent(e, r, b) = [channel EXCEPT ![Other(e)] = Append(@, [id |-> r, reply |-> b])]
    BY <1>3 DEF Sent
  <2>2. /\ Append(channel[Other(e)], [id |-> r, reply |-> b]) \in Seq(Message)
        /\ Append(channel[Other(e)], [id |-> r, reply |-> b]) \in Seq(Inbound(Other(e)))
    BY <1>1, <1>2
  <2> QED
    BY <1>1, <2>1, <2>2
<1>4. CASE ~(session[e] = "open" /\ session[Other(e)] # "stopped")
  BY <1>1, <1>4 DEF Sent
<1> QED
  BY <1>3, <1>4

\* Queues without an answer.
LEMMA NoAnswerKeeps ==
    ASSUME NEW q \in Seq(Message), NoAnswer(q), NEW x \in Message
    PROVE  /\ NoAnswer(<<>>)
           /\ q # <<>> => NoAnswer(Tail(q)) /\ ~IsAnswer(Head(q))
           /\ ~IsAnswer(x) => NoAnswer(Append(q, x))
<1>1. NoAnswer(<<>>)
  BY DEF NoAnswer
<1>2. ASSUME q # <<>> PROVE NoAnswer(Tail(q)) /\ ~IsAnswer(Head(q))
  BY <1>2 DEF NoAnswer
<1>3. ASSUME ~IsAnswer(x) PROVE NoAnswer(Append(q, x))
  BY <1>3 DEF NoAnswer
<1> QED
  BY <1>1, <1>2, <1>3

\* Every step of either end, and of the network, keeps the invariant.
LEMMA NextIInv == IInv /\ [Next]_vars => IInv'
<1> SUFFICES ASSUME IInv, [Next]_vars PROVE IInv'
  OBVIOUS
<1> USE Requests DEF IInv, EntriesArePending
<1>q. channel["initiator"] \in Seq(Message) /\ channel["acceptor"] \in Seq(Message)
  BY DEF TypeOK, Ends
<1>0. CASE UNCHANGED vars
  BY <1>0 DEF vars, requests, handshake, TypeOK, Answered, Directed
<1>1. ASSUME NEW r \in Request, Enter(r), UNCHANGED <<session, startup, failing, handshake, channel>>,
             r = Handshake => startup["initiator"] # "registered"
      PROVE  IInv'
  <2>1. promise'[Handshake] # "response" \/ promise'[Handshake] = promise[Handshake]
    BY <1>1, EnterKeeps DEF TypeOK
  <2>2. TypeOK'
    BY <1>1, EnterKeeps DEF TypeOK, handshake
  <2>3. promise[Handshake] = "response" => promise'[Handshake] = "response"
    BY <1>1, EnterKeeps DEF TypeOK
  <2>4. Answered'
    BY <1>1, <2>1, <2>3 DEF Answered, handshake
  <2>5. Directed'
    BY <1>1 DEF Directed
  <2> QED
    BY <1>1, <2>2, <2>4, <2>5, EnterKeeps
<1>2. CASE SendHandshake
  BY <1>1, <1>2 DEF SendHandshake
<1>3. ASSUME NEW e \in Ends, NEW r \in Beats[e], SendHeartbeat(e, r) PROVE IInv'
  <2>1. r \in Request /\ r # Handshake
    BY <1>3, ConnectionAssumption DEF Request, Sends, Ends
  <2> QED
    BY <1>1, <1>3, <2>1 DEF SendHeartbeat
<1>4. ASSUME NEW rs \in SUBSET pending_requests_, NEW result \in {"response", "timeout", "destroyed"},
             Settle(rs, result), UNCHANGED <<session, startup, handshake, unsent>>,
             expired' \subseteq Request, failing' \subseteq Ends,
             channel' \in [Ends -> Seq(Message)], Directed',
             ~(fulfilling \/ handshake_promise_) =>
                 NoAnswer(channel'["initiator"]) /\ (Handshake \in rs => result # "response")
      PROVE  IInv'
  <2>1. TypeOK'
    BY <1>4, SettleKeeps DEF TypeOK, handshake
  <2>2. promise'[Handshake] = IF Handshake \in rs THEN result ELSE promise[Handshake]
    BY <1>4, SettleKeeps
  <2>3. promise[Handshake] = "response" => Handshake \notin rs
    BY <1>4
  <2>4. Answered'
    BY <1>4, <2>2, <2>3 DEF Answered, handshake
  <2> QED
    BY <1>4, <2>1, <2>4, SettleKeeps
<1>5. ASSUME NEW r \in Request, TimedOut(r) PROVE IInv'
  <2>1. {r} \cap pending_requests_ \in SUBSET pending_requests_
    OBVIOUS
  <2>2. /\ expired' \subseteq Request /\ failing' \subseteq Ends /\ channel' \in [Ends -> Seq(Message)]
        /\ Directed'
    BY <1>5 DEF TimedOut, TypeOK, Directed
  <2> QED
    BY <1>4, <1>5, <2>1, <2>2 DEF TimedOut, Answered
<1>6. ASSUME NEW e \in Ends, FailPending(e) PROVE IInv'
  <2>1. {r \in pending_requests_ : From(r) = e} \in SUBSET pending_requests_
    OBVIOUS
  <2>2. /\ expired' \subseteq Request /\ failing' \subseteq Ends /\ channel' \in [Ends -> Seq(Message)]
        /\ Directed'
    BY <1>6 DEF FailPending, TypeOK, Directed
  <2> QED
    BY <1>4, <1>6, <2>1, <2>2, Zenon DEF FailPending, Answered
<1>7. ASSUME NEW e \in Ends, StoreResponse(e) PROVE IInv'
  <2> DEFINE x == Head(channel[e])
  <2>1. /\ channel[e] \in Seq(Message) /\ channel[e] \in Seq(Inbound(e)) /\ channel[e] # <<>>
        /\ x \in Inbound(e) /\ x.reply
    BY <1>7 DEF StoreResponse, Received, TypeOK, Directed
  <2>2. /\ {x.id} \cap pending_requests_ \in SUBSET pending_requests_
        /\ Settle({x.id} \cap pending_requests_, "response")
        /\ UNCHANGED <<session, startup, unsent, expired, failing, handshake>>
        /\ channel' = [channel EXCEPT ![e] = Tail(@)]
    BY <1>7 DEF StoreResponse
  <2>3. channel' \in [Ends -> Seq(Message)] /\ expired' \subseteq Request /\ failing' \subseteq Ends
    BY <2>1, <2>2 DEF TypeOK
  <2>4. Directed'
    BY <2>1, <2>2 DEF Directed, TypeOK
  <2>5. ASSUME ~(fulfilling \/ handshake_promise_)
        PROVE  NoAnswer(channel'["initiator"]) /\ Handshake \notin {x.id} \cap pending_requests_
    <3>1. NoAnswer(channel["initiator"])
      BY <2>5 DEF Answered
    <3>2. CASE e = "initiator"
      <4>1. NoAnswer(Tail(channel[e])) /\ ~IsAnswer(x)
        BY <2>1, <3>1, <3>2, NoAnswerKeeps
      <4>2. channel'["initiator"] = Tail(channel[e])
        BY <2>2, <3>2 DEF TypeOK
      <4> QED
        BY <2>1, <4>1, <4>2 DEF IsAnswer
    <3>3. CASE e # "initiator"
      <4>1. x.id # Handshake
        BY <2>1, <3>3 DEF Inbound
      <4>2. channel'["initiator"] = channel["initiator"]
        BY <2>2, <3>3 DEF TypeOK, Ends
      <4> QED
        BY <3>1, <4>1, <4>2
    <3> QED
      BY <3>2, <3>3
  <2> HIDE DEF x
  <2> QED
    BY <1>4, <2>2, <2>3, <2>4, <2>5
\* The other actions change neither entries nor promises.
<1>8. ASSUME UNCHANGED <<pending_requests_, promise>>, TypeOK', Directed',
             fulfilling \/ handshake_promise_ => fulfilling' \/ handshake_promise_',
             ~(fulfilling' \/ handshake_promise_') => NoAnswer(channel'["initiator"]),
             startup'["initiator"] = "registered" =>
                 startup["initiator"] = "registered" \/ promise[Handshake] = "response"
      PROVE  IInv'
  BY <1>8 DEF Answered
\* The steps that start or end something send nothing.
<1>9. ASSUME UNCHANGED requests, UNCHANGED handshake, failing' \subseteq Ends,
             session' \in [Ends -> {"none", "open", "stopped"}],
             startup' \in [Ends -> {"spawned", "waiting", "registered", "failed"}],
             channel' \in [Ends -> Seq(Message)],
             \A e \in Ends : channel'[e] = channel[e] \/ channel'[e] = <<>>,
             startup'["initiator"] = "registered" =>
                 startup["initiator"] = "registered" \/ promise[Handshake] = "response"
      PROVE  IInv'
  <2>1. TypeOK'
    BY <1>9 DEF TypeOK, requests, handshake
  <2>2. Directed'
    <3> SUFFICES ASSUME NEW e \in Ends PROVE channel'[e] \in Seq(Inbound(e))
      BY DEF Directed
    <3>1. <<>> \in Seq(Inbound(e)) /\ channel[e] \in Seq(Inbound(e))
      BY DEF Directed
    <3> QED
      BY <1>9, <3>1
  <2>3. NoAnswer(channel["initiator"]) => NoAnswer(channel'["initiator"])
    BY <1>9 DEF NoAnswer, Ends
  <2> QED
    BY <1>8, <1>9, <2>1, <2>2, <2>3 DEF Answered, requests, handshake
<1>10. ASSUME NEW e \in Ends, StopSession(e), UNCHANGED requests, UNCHANGED handshake,
              startup' \in [Ends -> {"spawned", "waiting", "registered", "failed"}],
              startup'["initiator"] = "registered" => startup["initiator"] = "registered"
       PROVE  IInv'
  <2>1. /\ failing' \subseteq Ends /\ session' \in [Ends -> {"none", "open", "stopped"}]
        /\ channel' = [channel EXCEPT ![e] = <<>>]
    BY <1>10 DEF StopSession, TypeOK
  <2>2. /\ channel' \in [Ends -> Seq(Message)]
        /\ \A f \in Ends : channel'[f] = channel[f] \/ channel'[f] = <<>>
    BY <2>1 DEF TypeOK
  <2> QED
    BY <1>9, <1>10, <2>1, <2>2
<1>11. ASSUME NEW e \in Ends, Start(e) PROVE IInv'
  BY <1>9, <1>11 DEF Start, TypeOK, Ends
<1>12. ASSUME NEW e \in Ends, Shutdown(e) PROVE IInv'
  BY <1>10, <1>12 DEF Shutdown, TypeOK
<1>13. ASSUME NEW e \in Ends, ReadError(e) PROVE IInv'
  <2>1. /\ channel' \in [Ends -> Seq(Message)]
        /\ \A f \in Ends : channel'[f] = channel[f] \/ channel'[f] = <<>>
    BY <1>13 DEF ReadError, TypeOK
  <2> QED
    BY <1>9, <1>13, <2>1 DEF ReadError, TypeOK
<1>14. CASE InitiatorConnected
  BY <1>9, <1>14 DEF InitiatorConnected, TypeOK, Ends
<1>15. CASE InitiatorFails
  BY <1>10, <1>15 DEF InitiatorFails, TypeOK, Ends
<1>16. CASE AcceptorConnected
  BY <1>9, <1>16 DEF AcceptorConnected, TypeOK, Ends
<1>17. CASE AcceptorTimesOut
  BY <1>10, <1>17 DEF AcceptorTimesOut, TypeOK, Ends
<1>18. CASE Break
  <2>1. /\ channel' \in [Ends -> Seq(Message)]
        /\ \A f \in Ends : channel'[f] = channel[f] \/ channel'[f] = <<>>
    BY <1>18 DEF Break
  <2> QED
    BY <1>9, <1>18, <2>1 DEF Break, TypeOK
<1>19. ASSUME NEW r \in Request, Expire(r) PROVE IInv'
  BY <1>8, <1>19 DEF Expire, TypeOK, Directed, Answered, handshake
<1>20. CASE FulfillHandshakePromise
  BY <1>8, <1>20, Zenon DEF FulfillHandshakePromise, requests, TypeOK, Directed
\* A message goes to the other end: to the initiator only a request, or an
\* answer of a handler that goes on to fulfil the promise.
<1>21. ASSUME NEW r \in Request, HandToSession(r) PROVE IInv'
  <2> DEFINE e == From(r)
  <2>1. /\ e \in Ends /\ Sent(e, r, FALSE) \in [Ends -> Seq(Message)]
        /\ Sent(e, r, FALSE)[e] = channel[e]
        /\ Sent(e, r, FALSE)[Other(e)] \in Seq(Inbound(Other(e)))
        /\ \/ Sent(e, r, FALSE)[Other(e)] = channel[Other(e)]
           \/ Sent(e, r, FALSE)[Other(e)] = Append(channel[Other(e)], [id |-> r, reply |-> FALSE])
    BY SentKeeps, Zenon
  <2>2. channel' = Sent(e, r, FALSE) /\ \A f \in Ends : f = e \/ f = Other(e)
    BY <1>21 DEF HandToSession, Ends, Other
  <2> HIDE DEF e
  <2>3. Directed'
    BY <2>1, <2>2, Zenon DEF Directed
  <2>4. [id |-> r, reply |-> FALSE] \in Message /\ ~IsAnswer([id |-> r, reply |-> FALSE])
    BY Zenon DEF IsAnswer
  <2>5. NoAnswer(channel["initiator"]) => NoAnswer(channel'["initiator"])
    BY <1>q, <2>1, <2>2, <2>4, NoAnswerKeeps, Zenon DEF Ends
  <2>6. TypeOK'
    BY <1>21, <2>1, <2>2, Zenon DEF HandToSession, TypeOK, handshake
  <2> QED
    BY <1>8, <1>21, <2>3, <2>5, <2>6, Zenon DEF HandToSession, handshake, Answered
<1>22. ASSUME NEW e \in Ends, HandleRequest(e) PROVE IInv'
  <2> DEFINE x == Head(channel[e])
             sent == Sent(e, x.id, TRUE)
  <2>1. /\ channel[e] \in Seq(Message) /\ channel[e] \in Seq(Inbound(e)) /\ channel[e] # <<>>
        /\ x \in Inbound(e) /\ ~x.reply
    BY <1>22 DEF HandleRequest, Received, TypeOK, Directed
  <2>2. x.id \in Request /\ From(x.id) = Other(e)
    BY <2>1 DEF Inbound, Message
  <2>3. /\ sent \in [Ends -> Seq(Message)]
        /\ sent[Other(e)] \in Seq(Inbound(Other(e)))
        /\ \/ sent[Other(e)] = channel[Other(e)]
           \/ sent[Other(e)] = Append(channel[Other(e)], [id |-> x.id, reply |-> TRUE])
    BY <2>2, SentKeeps, Zenon
  <2>4. /\ channel' = [sent EXCEPT ![e] = Tail(@)]
        /\ sent[e] = channel[e]
        /\ fulfilling' = (fulfilling \/ x.id = Handshake)
        /\ UNCHANGED <<session, startup, requests, failing, handshake_promise_>>
    BY <1>22, <2>2, SentKeeps, Zenon DEF HandleRequest
  <2>5. \A f \in Ends : f = e \/ f = Other(e)
    BY DEF Ends, Other
  <2> HIDE DEF sent, x
  <2>6. channel'[e] = Tail(channel[e]) /\ channel'[Other(e)] = sent[Other(e)]
    BY <2>3, <2>4
  <2>7. Directed'
    <3>1. channel'[e] \in Seq(Inbound(e)) /\ channel'[Other(e)] \in Seq(Inbound(Other(e)))
      BY <2>1, <2>3, <2>6
    <3> QED
      BY <2>5, <3>1 DEF Directed
  <2>8. channel' \in [Ends -> Seq(Message)]
    BY <2>1, <2>3, <2>4
  <2>9. TypeOK'
    BY <2>4, <2>8 DEF TypeOK, requests
  <2>10. ASSUME ~(fulfilling' \/ handshake_promise_') PROVE NoAnswer(channel'["initiator"])
    <3>1. NoAnswer(channel["initiator"]) /\ x.id # Handshake
      BY <2>4, <2>10, Zenon DEF Answered
    <3>2. [id |-> x.id, reply |-> TRUE] \in Message /\ ~IsAnswer([id |-> x.id, reply |-> TRUE])
      BY <2>2, <3>1, Zenon DEF IsAnswer
    <3>3. CASE e = "initiator"
      <4>1. NoAnswer(Tail(channel["initiator"]))
        BY <1>q, <2>1, <3>1, <3>2, <3>3, NoAnswerKeeps
      <4> QED
        BY <2>6, <3>3, <4>1
    <3>4. CASE Other(e) = "initiator"
      <4>1. NoAnswer(Append(channel["initiator"], [id |-> x.id, reply |-> TRUE]))
        BY <1>q, <3>1, <3>2, NoAnswerKeeps
      <4> QED
        BY <2>3, <2>6, <3>1, <3>4, <4>1, Zenon
    <3>5. e = "initiator" \/ Other(e) = "initiator"
      BY DEF Ends, Other
    <3> QED
      BY <3>3, <3>4, <3>5
  <2> QED
    BY <1>8, <2>4, <2>7, <2>9, <2>10, Zenon DEF requests
<1> QED
  BY <1>0, <1>2, <1>3, <1>5, <1>6, <1>7, <1>11, <1>12, <1>13, <1>14, <1>15, <1>16,
     <1>17, <1>18, <1>19, <1>20, <1>21, <1>22 DEF Next

\* pending_requests_ holds exactly the requests whose promise is not set, for
\* any number of heartbeats.
THEOREM ConnectionEntries == Spec => []EntriesArePending
<1>1. IInv => EntriesArePending
  BY DEF IInv
<1> QED
  BY <1>1, InitIInv, NextIInv, PTL DEF Spec

\* The initiator registers the acceptor only after the acceptor's handler has
\* seen its handshake, for any number of heartbeats.
THEOREM ConnectionHandshakes == Spec => []HandshakeSeen
<1>1. IInv => HandshakeSeen
  BY DEF IInv, Answered, HandshakeSeen
<1> QED
  BY <1>1, InitIInv, NextIInv, PTL DEF Spec

\* The promise of a request is set at most once, however its response, its
\* timer's handler and shutdown() race.
THEOREM ConnectionSetsOnce == Spec => SetAtMostOnce
<1> DEFINE Once == \A r \in Request : Promise(r)!Next \/ promise'[r] = promise[r]
           Moves(r) == \/ promise'[r] = promise[r]
                       \/ promise[r] = "none" /\ promise'[r] = "pending"
                       \/ /\ promise[r] = "pending"
                          /\ promise'[r] \in {"response", "timeout", "destroyed"}
<1>1. ASSUME EntriesArePending, NEW q \in Request, Enter(q) PROVE \A r \in Request : Moves(r)
  BY <1>1 DEF Enter, EntriesArePending, TypeOK
<1>2. ASSUME EntriesArePending, NEW rs \in SUBSET pending_requests_,
             NEW result \in {"response", "timeout", "destroyed"}, Settle(rs, result)
      PROVE  \A r \in Request : Moves(r)
  BY <1>2 DEF Settle, EntriesArePending, TypeOK
<1>3. ASSUME EntriesArePending, [Next]_vars PROVE \A r \in Request : Moves(r)
  <2>1. CASE UNCHANGED promise
    BY <2>1
  <2>2. CASE SendHandshake
    BY <1>1, <1>3, <2>2, Requests DEF SendHandshake
  <2>3. ASSUME NEW e \in Ends, NEW q \in Beats[e], SendHeartbeat(e, q)
        PROVE  \A r \in Request : Moves(r)
    <3>1. q \in Request
      BY <2>3 DEF Request, Sends, Ends
    <3> QED
      BY <1>1, <1>3, <2>3, <3>1 DEF SendHeartbeat
  <2>4. ASSUME NEW q \in Request, TimedOut(q) PROVE \A r \in Request : Moves(r)
    BY <1>2, <1>3, <2>4 DEF TimedOut
  <2>5. ASSUME NEW e \in Ends, StoreResponse(e) PROVE \A r \in Request : Moves(r)
    BY <1>2, <1>3, <2>5 DEF StoreResponse
  <2>6. ASSUME NEW e \in Ends, FailPending(e) PROVE \A r \in Request : Moves(r)
    BY <1>2, <1>3, <2>6 DEF FailPending
  <2> HIDE DEF Moves
  <2> QED
    BY <1>3, <2>1, <2>2, <2>3, <2>4, <2>5, <2>6, Zenon
       DEF Next, vars, requests, FulfillHandshakePromise, InitiatorConnected, InitiatorFails,
           AcceptorConnected, AcceptorTimesOut, Break, HandToSession, Expire, HandleRequest,
           Start, Shutdown, ReadError
<1>4. ASSUME EntriesArePending, EntriesArePending', NEW r \in Request, Moves(r)
      PROVE  Promise(r)!Next \/ promise'[r] = promise[r]
  <2>1. CASE promise[r] = "none" /\ promise'[r] = "pending"
    <3>1. Promise(r)!Make(r)
      BY <2>1 DEF Promise!Make
    <3> QED
      BY <3>1 DEF Promise!Next
  <2>2. CASE promise[r] = "pending" /\ promise'[r] \in {"response", "timeout", "destroyed"}
    <3>1. Promise(r)!Settle(r)
      BY <2>2, Zenon DEF Promise!Settle
    <3> QED
      BY <3>1 DEF Promise!Next
  <2> QED
    BY <1>4, <2>1, <2>2
<1>5. IInv /\ IInv' /\ [Next]_vars => [Once]_promise
  BY <1>3, <1>4 DEF IInv
<1> QED
  BY <1>5, InitIInv, NextIInv, PTL DEF Spec, SetAtMostOnce
=============================================================================
