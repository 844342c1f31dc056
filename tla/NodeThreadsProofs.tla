------------------------- MODULE NodeThreadsProofs -------------------------
(* Proofs about RequestTracker and NodeThreads: the callback of a request  *)
(* is called at most once and only late responses are refused, also among  *)
(* the threads of a node; stop() leaves nothing behind; and no thread      *)
(* waits for something that nobody is going to do.                         *)
EXTENDS NodeThreads, SequenceTheorems, TLAPS

-----------------------------------------------------------------------------
(* The tracker by itself.                                                  *)

\* A tracked request is in exactly one place: in pending_requests_, claimed
\* by the routing thread, claimed by the io thread, or settled.  Whoever
\* erases the entry owns the callback.
Owned ==
    \A r \in Request :
        /\ timer[r] = "off" => r \notin pending_requests_ \cup found \cup answering \cup expiring
                               /\ callbacks[r] = <<>>
        /\ timer[r] # "off" => \/ r \in pending_requests_ \cup answering \cup expiring
                               \/ callbacks[r] # <<>>
        /\ r \in pending_requests_ => r \notin answering \cup expiring /\ callbacks[r] = <<>>
        /\ r \in answering => r \notin expiring /\ callbacks[r] = <<>>
        /\ r \in expiring => callbacks[r] = <<>>
        /\ Len(callbacks[r]) <= 1

\* A tracked broadcast still collects or has been completed, once.
Collecting ==
    \A r \in Broadcast :
        /\ timer[r] = "off" => r \notin broadcasts_ /\ completed[r] = 0
        /\ r \in broadcasts_ => completed[r] = 0
        /\ timer[r] # "off" => r \in broadcasts_ \/ completed[r] > 0

\* Packets are sent after tracking; the routing thread does one thing at a
\* time.
InOrder ==
    /\ \A r \in sent : timer[r] # "off"
    /\ found = {} \/ answering = {}
    /\ \A q, r \in found : q = r

IInv == TypeOK /\ Owned /\ Collecting /\ InOrder /\ RefusedOnlyWhenLate

\* Nothing is tracked at the start.
LEMMA InitIInv == Init => IInv
BY TrackerAssumption DEF Init, IInv, TypeOK, Owned, Collecting, InOrder, RefusedOnlyWhenLate, Ids

\* Every step of every thread keeps the invariant.
LEMMA NextIInv == IInv /\ [Next]_vars => IInv'
<1> SUFFICES ASSUME IInv, [Next]_vars PROVE IInv'
  OBVIOUS
<1> USE TrackerAssumption DEF IInv, TypeOK, Owned, Collecting, InOrder, RefusedOnlyWhenLate, Ids,
        tracker, network, threads, results
<1>1. CASE UNCHANGED vars
  BY <1>1 DEF vars
<1>2. ASSUME NEW r \in Ids, TrackRequestCallback(r) PROVE IInv'
  BY <1>2 DEF TrackRequestCallback
<1>3. ASSUME NEW r \in Ids, TrackBroadcast(r) PROVE IInv'
  BY <1>3 DEF TrackBroadcast
<1>4. ASSUME NEW r \in Ids, SendPacket(r) PROVE IInv'
  BY <1>4 DEF SendPacket
<1>5. ASSUME NEW r \in Ids, FulfillRequest(r) PROVE IInv'
  <2>0. found = {} /\ answering = {}
    BY <1>5 DEF FulfillRequest
  <2>1. CASE r \in pending_requests_
    <3>1. found' = {r} /\ UNCHANGED <<pending_requests_, broadcasts_, timer, sent, answering, expiring, results>>
      BY <1>5, <2>1 DEF FulfillRequest
    <3>2. TypeOK'
      BY <1>5, <2>1, <3>1 DEF FulfillRequest
    <3>3. InOrder'
      BY <2>0, <3>1
    <3> QED
      BY <2>1, <3>1, <3>2, <3>3
  <2>2. CASE r \in broadcasts_
    <3>1. /\ collected' = [collected EXCEPT ![r] = @ + 1]
          /\ UNCHANGED <<tracker, timer, sent, threads, callbacks, completed, refused>>
      BY <1>5, <2>2 DEF FulfillRequest
    <3>2. TypeOK'
      BY <1>5, <2>2, <3>1 DEF FulfillRequest
    <3> QED
      BY <3>1, <3>2
  <2>3. CASE r \notin pending_requests_ \cup broadcasts_
    BY <1>5, <2>3 DEF FulfillRequest
  <2> QED
    BY <2>1, <2>2, <2>3, SMTT(30)
<1>6. ASSUME NEW r \in Ids, CompleteFound(r) PROVE IInv'
  BY <1>6 DEF CompleteFound
<1>7. ASSUME NEW r \in Ids, CallResponse(r) PROVE IInv'
  BY <1>7 DEF CallResponse
<1>8. ASSUME NEW r \in Ids, Expire(r) PROVE IInv'
  BY <1>8 DEF Expire
<1>9. ASSUME NEW r \in Ids, TimeoutRequest(r) PROVE IInv'
  BY <1>9 DEF TimeoutRequest
<1>10. ASSUME NEW r \in Ids, CallTimeout(r) PROVE IInv'
  <2>1. r \in Request /\ callbacks[r] = <<>>
    BY <1>10 DEF CallTimeout
  <2>2. callbacks'[r] = <<"timeout">> /\ callbacks'[r] # <<>>
    BY <1>10, <2>1 DEF CallTimeout
  <2> QED
    BY <1>10, <2>1, <2>2 DEF CallTimeout
<1>11. ASSUME NEW r \in Ids, FinishBroadcast(r) PROVE IInv'
  BY <1>11 DEF FinishBroadcast
<1> QED
  BY <1>1, <1>2, <1>3, <1>4, <1>5, <1>6, <1>7, <1>8, <1>9, <1>10, <1>11, Zenon DEF Next

\* A response that fulfill_request turns away came after the request had been
\* answered, had timed out, or had its window closed.
THEOREM TrackerSafety == Spec => [](TypeOK /\ RefusedOnlyWhenLate)
<1>1. IInv => TypeOK /\ RefusedOnlyWhenLate
  BY DEF IInv
<1> QED
  BY <1>1, InitIInv, NextIInv, PTL DEF Spec

\* No step adds a response to a broadcast that has been completed, or completes
\* it again: its entry was erased with on_complete.
LEMMA StepAfterComplete ==
    ASSUME IInv, [Next]_vars
    PROVE  \A r \in Broadcast : completed[r] > 0 =>
              collected'[r] = collected[r] /\ completed'[r] = completed[r]
<1> SUFFICES ASSUME NEW b \in Broadcast, completed[b] > 0
             PROVE  collected'[b] = collected[b] /\ completed'[b] = completed[b]
  OBVIOUS
<1>1. b \notin broadcasts_
  BY DEF IInv, TypeOK, Collecting
<1> USE DEF tracker, network, threads, results
<1>2. CASE UNCHANGED vars
  BY <1>2 DEF vars
<1>3. ASSUME NEW r \in Ids, FulfillRequest(r) PROVE UNCHANGED <<collected[b], completed[b]>>
  BY <1>1, <1>3 DEF FulfillRequest, IInv, TypeOK
<1>4. ASSUME NEW r \in Ids, FinishBroadcast(r) PROVE UNCHANGED <<collected[b], completed[b]>>
  BY <1>1, <1>4 DEF FinishBroadcast, IInv, TypeOK
<1>5. ASSUME NEW r \in Ids,
             \/ TrackRequestCallback(r) \/ TrackBroadcast(r) \/ SendPacket(r) \/ CompleteFound(r)
             \/ CallResponse(r) \/ Expire(r) \/ TimeoutRequest(r) \/ CallTimeout(r)
      PROVE  UNCHANGED <<collected[b], completed[b]>>
  BY <1>5 DEF TrackRequestCallback, TrackBroadcast, SendPacket, CompleteFound, CallResponse, Expire,
              TimeoutRequest, CallTimeout
<1> QED
  BY <1>2, <1>3, <1>4, <1>5 DEF Next

\* For any broadcasts and responses: the results of broadcast_request are given
\* once and no response is added to them afterwards.
THEOREM TrackerCompletesOnce == Spec => NothingAfterComplete
BY InitIInv, NextIInv, StepAfterComplete, PTL DEF Spec, NothingAfterComplete

-----------------------------------------------------------------------------
(* The refinement of RequestOutcome.                                       *)

\* A sequence of at most one element is empty or has exactly one.
LEMMA ShortSeq ==
    ASSUME NEW S, NEW s \in Seq(S), Len(s) <= 1, s # <<>>
    PROVE  Len(s) = 1
<1>1. Len(s) \in Nat \ {0}
  BY EmptySeq
<1>2. \A n \in Nat \ {0} : n <= 1 => n = 1
  OBVIOUS
<1> QED
  BY <1>1, <1>2, Zenon

\* In a state of the invariant, the outcome of a request is what its one
\* callback was called with.
LEMMA OutcomeCases ==
    ASSUME IInv, NEW r \in Request
    PROVE  /\ timer[r] = "off" => Outcome[r] = "none"
           /\ timer[r] # "off" /\ callbacks[r] = <<>> => Outcome[r] = "pending"
           /\ timer[r] # "off" /\ callbacks[r] # <<>> => Outcome[r] = callbacks[r][1]
<1>1. callbacks[r] \in Seq({"response", "timeout"}) /\ Len(callbacks[r]) <= 1
  BY DEF IInv, TypeOK, Owned
<1>2. callbacks[r] # <<>> => Len(callbacks[r]) = 1 /\ Len(callbacks[r]) # 0
  BY <1>1, ShortSeq
<1>3. Outcome[r] = IF timer[r] = "off" THEN "none"
                   ELSE IF Len(callbacks[r]) = 0 THEN "pending"
                   ELSE IF Len(callbacks[r]) = 1 THEN callbacks[r][1] ELSE "settled twice"
  BY DEF Outcome
<1>4. callbacks[r] = <<>> => Len(callbacks[r]) = 0
  OBVIOUS
<1> HIDE DEF Outcome
<1>5. ASSUME timer[r] = "off" PROVE Outcome[r] = "none"
  BY <1>3, <1>5
<1>6. ASSUME timer[r] # "off", callbacks[r] = <<>> PROVE Outcome[r] = "pending"
  BY <1>3, <1>4, <1>6
<1>7. ASSUME timer[r] # "off", callbacks[r] # <<>> PROVE Outcome[r] = callbacks[r][1]
  BY <1>2, <1>3, <1>7, Zenon
<1> QED
  BY <1>5, <1>6, <1>7

\* An Outcome that changes at one request only.
LEMMA OutcomeUpdate ==
    ASSUME NEW r \in Request, NEW x, Outcome'[r] = x,
           \A q \in Request : q # r => Outcome'[q] = Outcome[q]
    PROVE  Outcome' = [Outcome EXCEPT ![r] = x]
<1>1. Outcome = [q \in Request |-> Outcome[q]] /\ Outcome' = [q \in Request |-> Outcome'[q]]
  BY Zenon DEF Outcome
<1> HIDE DEF Outcome
<1> QED
  BY <1>1

\* Calling a callback with x settles the request.
LEMMA CallSettles ==
    ASSUME IInv, IInv', NEW r \in Request, NEW x \in {"response", "timeout"},
           callbacks[r] = <<>>, timer[r] # "off",
           callbacks' = [callbacks EXCEPT ![r] = Append(@, x)],
           \A q \in Request : timer[q] = "off" <=> timer'[q] = "off"
    PROVE  Promise!Settle(r)
<1>1. callbacks'[r] = <<x>>
  BY DEF IInv, TypeOK
<1>2. \A q \in Request : q # r => callbacks'[q] = callbacks[q]
  BY DEF IInv, TypeOK
<1>3. Outcome[r] = "pending"
  BY OutcomeCases
<1>4. Outcome'[r] = x
  <2>1. Len(callbacks'[r]) = 1 /\ Len(callbacks'[r]) # 0 /\ callbacks'[r][1] = x
    BY <1>1
  <2>2. timer'[r] # "off"
    OBVIOUS
  <2>3. Outcome'[r] = IF timer'[r] = "off" THEN "none"
                      ELSE IF Len(callbacks'[r]) = 0 THEN "pending"
                      ELSE IF Len(callbacks'[r]) = 1 THEN callbacks'[r][1] ELSE "settled twice"
    BY DEF Outcome
  <2> QED
    BY <2>1, <2>2, <2>3, Zenon
<1>5. ASSUME NEW q \in Request, q # r PROVE Outcome'[q] = Outcome[q]
  <2>1. Outcome'[q] = IF timer'[q] = "off" THEN "none"
                      ELSE IF Len(callbacks'[q]) = 0 THEN "pending"
                      ELSE IF Len(callbacks'[q]) = 1 THEN callbacks'[q][1] ELSE "settled twice"
    BY DEF Outcome
  <2>2. Outcome[q] = IF timer[q] = "off" THEN "none"
                     ELSE IF Len(callbacks[q]) = 0 THEN "pending"
                     ELSE IF Len(callbacks[q]) = 1 THEN callbacks[q][1] ELSE "settled twice"
    BY DEF Outcome
  <2>3. callbacks'[q] = callbacks[q]
    BY <1>2, <1>5
  <2>4. timer[q] = "off" <=> timer'[q] = "off"
    OBVIOUS
  <2> QED
    BY <2>1, <2>2, <2>3, <2>4, Zenon
<1>6. Outcome' = [Outcome EXCEPT ![r] = x]
  BY <1>4, <1>5, OutcomeUpdate
<1> QED
  BY <1>3, <1>6, Zenon DEF Promise!Settle

\* Every step of the tracker is a step of RequestOutcome or leaves the
\* outcomes alone.
LEMMA StepRefines ==
    ASSUME IInv, IInv', [Next]_vars
    PROVE  [Promise!Next]_Outcome
<1> USE TrackerAssumption DEF Ids, tracker, network, threads, results
<1>1. ASSUME UNCHANGED callbacks, \A q \in Request : timer[q] = "off" <=> timer'[q] = "off"
      PROVE  UNCHANGED Outcome
  BY <1>1, Zenon DEF Outcome
<1>2. CASE UNCHANGED vars
  BY <1>1, <1>2 DEF vars
<1>3. ASSUME NEW r \in Ids, TrackRequestCallback(r) PROVE [Promise!Next]_Outcome
  <2>1. Outcome[r] = "none" /\ callbacks[r] = <<>>
    BY <1>3 DEF TrackRequestCallback, Outcome, IInv, Owned
  <2>2. /\ timer'[r] # "off" /\ callbacks'[r] = <<>> /\ UNCHANGED callbacks
        /\ \A q \in Request : q # r => timer'[q] = timer[q]
    BY <1>3, <2>1 DEF TrackRequestCallback, IInv, TypeOK
  <2>3. Outcome'[r] = "pending"
    BY <1>3, <2>2 DEF Outcome, TrackRequestCallback
  <2>4. \A q \in Request : q # r => Outcome'[q] = Outcome[q]
    BY <2>2, Zenon DEF Outcome
  <2>5. Outcome' = [Outcome EXCEPT ![r] = "pending"]
    BY <1>3, <2>3, <2>4, OutcomeUpdate DEF TrackRequestCallback
  <2> QED
    BY <1>3, <2>1, <2>5, Zenon DEF Promise!Next, Promise!Make, TrackRequestCallback
<1>4. ASSUME NEW r \in Ids, CallResponse(r) PROVE [Promise!Next]_Outcome
  <2>1. r \in Request /\ callbacks[r] = <<>> /\ timer[r] # "off"
    BY <1>4 DEF CallResponse, IInv, TypeOK, Owned
  <2>2. \A q \in Request : timer[q] = "off" <=> timer'[q] = "off"
    BY <1>4 DEF CallResponse, IInv, TypeOK
  <2>3. Promise!Settle(r)
    BY <1>4, <2>1, <2>2, CallSettles, Zenon DEF CallResponse
  <2> QED
    BY <2>1, <2>3 DEF Promise!Next
<1>5. ASSUME NEW r \in Ids, CallTimeout(r) PROVE [Promise!Next]_Outcome
  <2>1. r \in Request /\ callbacks[r] = <<>> /\ timer[r] # "off"
    BY <1>5 DEF CallTimeout, IInv, TypeOK, Owned
  <2>2. Promise!Settle(r)
    BY <1>5, <2>1, CallSettles, Zenon DEF CallTimeout
  <2> QED
    BY <2>1, <2>2 DEF Promise!Next
<1>6. ASSUME NEW r \in Ids,
             \/ TrackBroadcast(r) \/ SendPacket(r) \/ FulfillRequest(r) \/ CompleteFound(r)
             \/ Expire(r) \/ TimeoutRequest(r) \/ FinishBroadcast(r)
      PROVE  UNCHANGED Outcome
  <2>1. UNCHANGED callbacks
    BY <1>6 DEF TrackBroadcast, SendPacket, FulfillRequest, CompleteFound, Expire, TimeoutRequest,
                FinishBroadcast
  <2>2. \A q \in Request : timer[q] = "off" <=> timer'[q] = "off"
    BY <1>6 DEF TrackBroadcast, SendPacket, FulfillRequest, CompleteFound, Expire, TimeoutRequest,
                FinishBroadcast, IInv, TypeOK
  <2> QED
    BY <1>1, <2>1, <2>2
<1> QED
  BY <1>2, <1>3, <1>4, <1>5, <1>6 DEF Next

\* For any number of requests, responses and threads' steps between them: the
\* callback given to track_request_callback is called at most once.
THEOREM TrackerSettlesOnce == Spec => SettledAtMostOnce
<1>1. Init => Promise!Init
  BY DEF Init, Promise!Init, Outcome, Ids
<1> QED
  BY <1>1, InitIInv, NextIInv, StepRefines, PTL DEF Spec, SettledAtMostOnce, Promise!Spec

-----------------------------------------------------------------------------
(* The node's threads.                                                     *)

\* Whatever thread takes it, a step of the node is a step of the tracker or
\* leaves the tracker alone.
LEMMA NodeStepsTracker == [NodeNext]_nodeVars => [Next]_vars
<1> SUFFICES ASSUME [NodeNext]_nodeVars PROVE [Next]_vars
  OBVIOUS
<1> USE ThreadsAssumption DEF Ids
<1>1. CASE UNCHANGED nodeVars
  BY <1>1 DEF nodeVars
<1>2. CASE start \/ Stop \/ Join \/ MaintenanceDue
  BY <1>2 DEF start, Stop, Join, MaintenanceDue
<1>3. ASSUME NEW r \in Ids, Application(r) \/ Timers(r) PROVE Next
  BY <1>3 DEF Application, Timers, Next
<1>4. ASSUME NEW e \in Event, Push(e) PROVE UNCHANGED vars
  BY <1>4 DEF Push
<1>5. CASE PopEvent
  BY <1>5 DEF PopEvent, Next
<1>6. CASE Fulfil
  BY <1>6 DEF Fulfil, Next
<1>7. CASE HandlerSends
  BY <1>7 DEF HandlerSends, Next
<1>8. CASE CheckRunning \/ PopTimeout \/ HandlerReturns \/ Upkeep
  BY <1>8 DEF CheckRunning, PopTimeout, HandlerReturns, Upkeep
<1>9. CASE HeartbeatRound \/ FallAsleep \/ WakeUp \/ BeginShutdown \/ ShutdownCall
  BY <1>9 DEF HeartbeatRound, FallAsleep, WakeUp, BeginShutdown, ShutdownCall, Clear, NotifyAll,
              JoinHeartbeat
<1> QED
  BY <1>1, <1>2, <1>3, <1>4, <1>5, <1>6, <1>7, <1>8, <1>9 DEF NodeNext, RoutingThread

\* The thread exists from start() to the join, and it is the only one that
\* takes the tracker's steps for a response.
Joined ==
    /\ ~running_ /\ stop = "idle" => loop = "none"
    /\ found \cup answering # {} => loop = "fulfil"

NodeInv == IInv /\ ThreadsTypeOK /\ Joined

\* No thread has been started.
LEMMA NodeInitInv == NodeInit => NodeInv
<1> SUFFICES ASSUME NodeInit PROVE NodeInv
  OBVIOUS
<1>1. IInv
  BY InitIInv DEF NodeInit
<1>2. event_queue_ \in Seq(Event) /\ Len(event_queue_) <= QueueBound
  BY ThreadsAssumption DEF NodeInit
<1>3. ThreadsTypeOK
  BY <1>1, <1>2, Zenon DEF NodeInit, ThreadsTypeOK, IInv
<1>4. Joined
  BY DEF NodeInit, Init, Joined
<1> QED
  BY <1>1, <1>3, <1>4 DEF NodeInv

\* Every step of every thread keeps it.
LEMMA NodeNextInv == NodeInv /\ [NodeNext]_nodeVars => NodeInv'
<1> SUFFICES ASSUME NodeInv, [NodeNext]_nodeVars PROVE NodeInv'
  OBVIOUS
<1>0. IInv'
  BY NodeStepsTracker, NextIInv DEF NodeInv
<1>t. TypeOK'
  BY <1>0 DEF IInv
<1> SUFFICES ThreadsTypeOK' /\ Joined'
  BY <1>0 DEF NodeInv
<1> USE ThreadsAssumption DEF NodeInv, ThreadsTypeOK, Joined, routing, beats
<1>1. CASE UNCHANGED nodeVars
  BY <1>t, <1>1 DEF nodeVars, vars, threads
<1>2. CASE start \/ Stop \/ Join \/ MaintenanceDue
  BY <1>t, <1>2, Zenon DEF start, Stop, Join, MaintenanceDue, vars, threads
<1>3. ASSUME NEW r \in Ids, Application(r) \/ Timers(r) PROVE ThreadsTypeOK' /\ Joined'
  <2>1. UNCHANGED <<found, answering, routing, beats>>
    BY <1>3 DEF Application, Timers, TrackRequestCallback, TrackBroadcast, SendPacket, Expire,
                TimeoutRequest, CallTimeout, FinishBroadcast, threads
  <2> QED
    BY <1>t, <2>1
<1>4. ASSUME NEW e \in Event, Push(e) PROVE ThreadsTypeOK' /\ Joined'
  BY <1>t, <1>4 DEF Push, vars, threads
<1>5. CASE PopEvent
  <2>1. event_queue_' \in Seq(Event) /\ Len(event_queue_') <= QueueBound
    BY <1>5 DEF PopEvent
  <2>2. loop = "pop" /\ found \cup answering = {} /\ UNCHANGED <<running_, due, stop, beats>>
    BY <1>5 DEF PopEvent
  <2>3. \/ loop' = "fulfil"
        \/ loop' \in {"handler", "upkeep"} /\ UNCHANGED <<found, answering>>
    BY <1>5 DEF PopEvent, TrackRequestCallback, vars, threads
  <2> QED
    BY <1>t, <2>1, <2>2, <2>3
<1>6. CASE Fulfil
  <2>1. CASE \E r \in Request : CompleteFound(r) \/ CallResponse(r)
    <3>1. loop = "fulfil" /\ UNCHANGED <<routing, beats>>
      <4>1. found \cup answering # {}
        BY <2>1 DEF CompleteFound, CallResponse
      <4> QED
        BY <1>6, <4>1 DEF Fulfil
    <3> QED
      BY <1>t, <3>1
  <2>2. CASE found \cup answering = {} /\ Goto("upkeep") /\ UNCHANGED vars
    BY <1>t, <1>6, <2>2 DEF Fulfil, Goto, vars, threads
  <2> QED
    BY <1>6, <2>1, <2>2 DEF Fulfil
<1>7. CASE HandlerSends
  BY <1>t, <1>7 DEF HandlerSends, Goto, SendPacket, threads
<1>8. CASE CheckRunning \/ PopTimeout \/ HandlerReturns \/ Upkeep
  BY <1>t, <1>8, Zenon DEF CheckRunning, PopTimeout, HandlerReturns, Upkeep, Goto, vars, threads
<1>9. CASE HeartbeatRound \/ FallAsleep \/ WakeUp \/ BeginShutdown \/ ShutdownCall
  BY <1>t, <1>9 DEF HeartbeatRound, FallAsleep, WakeUp, BeginShutdown, ShutdownCall, Clear,
                    NotifyAll, JoinHeartbeat, vars, threads
<1> QED
  BY <1>1, <1>2, <1>3, <1>4, <1>5, <1>6, <1>7, <1>8, <1>9 DEF NodeNext, RoutingThread

\* Also when responses queue for the routing thread, and handlers make requests
\* there: only a late response is refused.
THEOREM NodeRefusesOnlyLate == NodeSpec => []RefusedOnlyWhenLate
<1>1. NodeInv => RefusedOnlyWhenLate
  BY DEF NodeInv, IInv
<1> QED
  BY <1>1, NodeInitInv, NodeNextInv, PTL DEF NodeSpec

\* Also among the threads of a node: nothing is added to the results of a
\* broadcast that has been completed.
THEOREM NodeCompletesOnce == NodeSpec => NothingAfterComplete
<1>1. ASSUME NodeInv, [NodeNext]_nodeVars
      PROVE  [\A r \in Broadcast : completed[r] > 0 =>
                collected'[r] = collected[r] /\ completed'[r] = completed[r]]_vars
  BY <1>1, NodeStepsTracker, StepAfterComplete DEF NodeInv
<1> QED
  BY <1>1, NodeInitInv, NodeNextInv, PTL DEF NodeSpec, NothingAfterComplete

\* For any requests, handlers and events: when stop() has returned, the
\* routing thread handles nothing and calls nobody back.
THEOREM NodeStops == NodeSpec => []NothingAfterStop
<1>1. NodeInv => NothingAfterStop
  BY DEF NodeInv, Joined, NothingAfterStop
<1> QED
  BY <1>1, NodeInitInv, NodeNextInv, PTL DEF NodeSpec

\* With requests made on the routing thread as well, from handlers that wait
\* for them there: a callback is called at most once.
THEOREM NodeSettlesOnce == NodeSpec => SettledAtMostOnce
<1>1. NodeInit => Promise!Init
  BY DEF NodeInit, Init, Promise!Init, Outcome, Ids
<1>2. ASSUME NodeInv, NodeInv', [NodeNext]_nodeVars PROVE [Promise!Next]_Outcome
  BY <1>2, NodeStepsTracker, StepRefines DEF NodeInv
<1> QED
  BY <1>1, <1>2, NodeInitInv, NodeNextInv, PTL DEF NodeSpec, SettledAtMostOnce, Promise!Spec

-----------------------------------------------------------------------------
(* Nobody waits for something that cannot come: the part of EverySettles   *)
(* and StopReturns that is an invariant.                                   *)

\* The timer of r runs, or its handler is queued.
Due(r) == timer[r] \in {"armed", "expired"}

\* What is in the maps of the tracker has its timer.
Timed == \A r \in pending_requests_ \cup broadcasts_ : Due(r)

\* A timer is cancelled, or its handler run, only with the entry removed.
LEMMA NextTimed == ASSUME IInv, Timed, [Next]_vars PROVE Timed'
<1> USE TrackerAssumption DEF Timed, Due
<1>0. /\ pending_requests_ \subseteq Request /\ broadcasts_ \subseteq Broadcast
      /\ timer \in [Ids -> {"off", "armed", "expired", "cancelled"}]
      /\ \A r \in answering : r \in Request /\ r \notin pending_requests_
  BY DEF IInv, TypeOK, Owned
<1>1. CASE UNCHANGED <<tracker, timer>>
  BY <1>1 DEF tracker
<1>2. ASSUME NEW r \in Ids, TrackRequestCallback(r) \/ TrackBroadcast(r) PROVE Timed'
  <2>1. CASE TrackRequestCallback(r)
    BY <1>0, <2>1 DEF TrackRequestCallback, Ids
  <2>2. CASE TrackBroadcast(r)
    BY <1>0, <2>2 DEF TrackBroadcast, Ids
  <2> QED BY <1>2, <2>1, <2>2, Zenon
<1>3. ASSUME NEW r \in Ids, CompleteFound(r) PROVE Timed'
  BY <1>0, <1>3 DEF CompleteFound
<1>4. ASSUME NEW r \in Ids, CallResponse(r) PROVE Timed'
  <2>1. r \notin pending_requests_ \cup broadcasts_
    BY <1>0, <1>4 DEF CallResponse
  <2> QED BY <1>0, <1>4, <2>1 DEF CallResponse, tracker
<1>5. ASSUME NEW r \in Ids, Expire(r) PROVE Timed'
  BY <1>0, <1>5 DEF Expire, tracker, Ids
<1>6. ASSUME NEW r \in Ids, TimeoutRequest(r) PROVE Timed'
  BY <1>0, <1>6 DEF TimeoutRequest, Ids
<1>7. ASSUME NEW r \in Ids, FinishBroadcast(r) PROVE Timed'
  BY <1>0, <1>7 DEF FinishBroadcast, Ids
<1>8. ASSUME NEW r \in Ids, SendPacket(r) \/ FulfillRequest(r) \/ CallTimeout(r) PROVE Timed'
  <2>1. UNCHANGED <<tracker, timer>>
    BY <1>8, Zenon DEF SendPacket, FulfillRequest, CallTimeout
  <2> QED BY <1>1, <2>1, Zenon
<1>9. CASE UNCHANGED vars
  BY <1>1, <1>9, Zenon DEF vars
<1> QED BY <1>2, <1>3, <1>4, <1>5, <1>6, <1>7, <1>8, <1>9, Zenon DEF Next

\* What makes the handlers and the heartbeat thread wake up: a handler waits
\* for a request that is tracked, and the notification of shutdown() cannot
\* fall between the predicate and the sleep.
Woken ==
    /\ loop \in {"handler", "blocked"} => timer[InHandler] # "off"
    /\ shutdown = "cleared" => heartbeat # "deciding"
    /\ shutdown = "notified" => heartbeat \in {"round", "ended"}

\* A timer that was started stays started.
LEMMA TimersStayOn == ASSUME IInv, [Next]_vars, NEW q \in Ids, timer[q] # "off" PROVE timer'[q] # "off"
<1>1. timer \in [Ids -> {"off", "armed", "expired", "cancelled"}]
  BY Zenon DEF IInv, TypeOK
<1>2. \/ UNCHANGED timer
      \/ \E r \in Ids : timer' = [timer EXCEPT ![r] = "armed"]
      \/ \E r \in Ids : timer' = [timer EXCEPT ![r] = "expired"]
      \/ \E r \in Ids : timer' = [timer EXCEPT ![r] = "cancelled"]
      \/ \E r \in Ids : timer' = [timer EXCEPT ![r] = IF @ = "armed" THEN "cancelled" ELSE @]
  BY Zenon DEF Next, vars, TrackRequestCallback, TrackBroadcast, SendPacket, FulfillRequest, CompleteFound,
               CallResponse, Expire, TimeoutRequest, CallTimeout, FinishBroadcast
<1> QED BY <1>1, <1>2

\* Every step of a node's threads keeps it.
LEMMA NextWoken == ASSUME NodeInv, Woken, [NodeNext]_nodeVars PROVE Woken'
<1>0. InHandler \in Ids /\ IInv /\ [Next]_vars
  BY ThreadsAssumption, NodeStepsTracker, Zenon DEF Ids, NodeInv
<1>1. timer[InHandler] # "off" => timer'[InHandler] # "off"
  BY <1>0, TimersStayOn, Zenon
<1>2. loop' \in {"handler", "blocked"} => timer'[InHandler] # "off"
  <2>1. CASE loop \in {"handler", "blocked"}
    BY <1>1, <2>1, Zenon DEF Woken
  <2>2. CASE loop \notin {"handler", "blocked"} /\ loop' \in {"handler", "blocked"}
    <3>1. PopEvent /\ loop' = "handler"
      BY <2>2 DEF NodeNext, nodeVars, routing, start, Stop, Join, MaintenanceDue, Application, Timers, Push,
                  RoutingThread, CheckRunning, PopEvent, PopTimeout, Fulfil, HandlerSends, HandlerReturns,
                  Upkeep, Goto, HeartbeatRound, FallAsleep, WakeUp, BeginShutdown, ShutdownCall, Clear,
                  NotifyAll, JoinHeartbeat
    <3>2. TrackRequestCallback(InHandler)
      BY <3>1 DEF PopEvent
    <3> QED BY <1>0, <3>2 DEF TrackRequestCallback, IInv, TypeOK
  <2> QED BY <2>1, <2>2, Zenon
<1>3. /\ shutdown' = "cleared" => heartbeat' # "deciding"
      /\ shutdown' = "notified" => heartbeat' \in {"round", "ended"}
  <2>1. CASE UNCHANGED beats
    BY <2>1 DEF Woken, beats
  <2>2. CASE HeartbeatRound \/ FallAsleep \/ WakeUp \/ BeginShutdown \/ ShutdownCall
    BY <2>2 DEF Woken, NodeInv, ThreadsTypeOK, HeartbeatRound, FallAsleep, WakeUp, BeginShutdown,
                ShutdownCall, Clear, NotifyAll, JoinHeartbeat
  <2>3. CASE UNCHANGED nodeVars
    BY <2>1, <2>3, Zenon DEF nodeVars
  <2>4. CASE start \/ Stop \/ Join \/ MaintenanceDue \/ RoutingThread
    <3>1. UNCHANGED beats
      BY <2>4, Zenon DEF start, Stop, Join, MaintenanceDue, RoutingThread, CheckRunning, PopEvent, PopTimeout,
                         Fulfil, HandlerSends, HandlerReturns, Upkeep, Goto
    <3> QED BY <2>1, <3>1, Zenon
  <2>5. CASE (\E r \in Ids : Application(r) \/ Timers(r)) \/ (\E e \in Event : Push(e))
    <3>1. UNCHANGED beats
      BY <2>5, Zenon DEF Application, Timers, Push
    <3> QED BY <2>1, <3>1, Zenon
  <2> QED BY <2>2, <2>3, <2>4, <2>5, Zenon DEF NodeNext
<1> QED BY <1>2, <1>3, Zenon DEF Woken

\* A request whose callback has not been called is still timed, or a thread
\* is about to call it; a broadcast still collects only while it is timed; a
\* handler that waits on the routing thread is released by the io thread,
\* although its response would have to be handled by the routing thread; and
\* the heartbeat thread is awake once shutdown() has notified it.
NobodyWaitsInVain ==
    /\ \A r \in Request : timer[r] # "off" /\ callbacks[r] = <<>> => Due(r) \/ r \in answering \cup expiring
    /\ \A r \in broadcasts_ : Due(r)
    /\ loop = "blocked" /\ callbacks[InHandler] = <<>> => Due(InHandler) \/ InHandler \in expiring
    /\ shutdown = "notified" => heartbeat \in {"round", "ended"}

\* For any requests, handlers and events, every wait of the node's threads
\* has somebody who will end it: no interleaving loses a timer, a claimed
\* callback or the notification of shutdown().
THEOREM NodeNeverWaitsInVain == NodeSpec => []NobodyWaitsInVain
<1>1. NodeInit => Timed /\ Woken
  BY Zenon DEF NodeInit, Init, Timed, Woken
<1>2. NodeInv /\ Timed /\ Woken /\ [NodeNext]_nodeVars => (Timed /\ Woken)'
  BY NodeStepsTracker, NextTimed, NextWoken, Zenon DEF NodeInv
<1>3. NodeInv /\ Timed /\ Woken => NobodyWaitsInVain
  <2> SUFFICES ASSUME NodeInv, Timed, Woken PROVE NobodyWaitsInVain
    BY Zenon
  <2>1. \A r \in Request : timer[r] # "off" /\ callbacks[r] = <<>> => Due(r) \/ r \in answering \cup expiring
    BY Zenon DEF NodeInv, IInv, Owned, Timed
  <2>2. loop = "blocked" => answering = {}
    BY DEF NodeInv, Joined
  <2>3. loop = "blocked" /\ callbacks[InHandler] = <<>> => Due(InHandler) \/ InHandler \in expiring
    BY <2>1, <2>2, ThreadsAssumption, Zenon DEF Woken
  <2> QED BY <2>1, <2>3, Zenon DEF NobodyWaitsInVain, Timed, Woken
<1> QED BY <1>1, <1>2, <1>3, NodeInitInv, NodeNextInv, PTL DEF NodeSpec
=============================================================================
