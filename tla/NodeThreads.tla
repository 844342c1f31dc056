---------------------------- MODULE NodeThreads ----------------------------
(***************************************************************************)
(* The threads of one MeshNode around its request tracker: the routing     *)
(* thread, which start() creates and stop() joins and which takes one      *)
(* event after the other from event_queue_; the io thread, which pushes    *)
(* events and runs the handlers of timers; the heartbeat thread, which     *)
(* sleeps on a condition variable between its rounds; and the application. *)
(*                                                                         *)
(* The handler of a message runs on the routing thread.  It may make a     *)
(* request and wait for its future, as ping does: the response then waits  *)
(* in event_queue_ behind the handler.                                     *)
(***************************************************************************)
EXTENDS RequestTracker

CONSTANTS InHandler,     \* the request a message handler makes and waits for
          QueueBound     \* bound: events in event_queue_

ASSUME ThreadsAssumption == InHandler \in Request /\ QueueBound \in Nat

\* Besides the responses: the message with that handler, and any other event.
Message == "message"
OtherEvent == "other"
Event == Ids \cup {Message, OtherEvent}

VARIABLES
    running_,
    loop,          \* the routing thread: "none" before start() and after the join, "check",
                   \* "pop", "fulfil", "handler", "blocked", "upkeep" or "done"
    event_queue_,
    due,           \* next_maintenance_time has passed
    stop,          \* stop(): "idle" or "joining"
    heartbeat,     \* the heartbeat thread: "round", "deciding" (to sleep, with mu_), "asleep", "ended"
    shutdown       \* RpcManager::shutdown(): "idle", "flagged", "cleared", "notified" or "returned"

routing == <<running_, loop, event_queue_, due, stop>>
beats == <<heartbeat, shutdown>>
nodeVars == <<vars, routing, beats>>

\* Bound: either requests are made or the manager is shut down.
NodeInit ==
    /\ Init
    /\ running_ = FALSE
    /\ loop = "none"
    /\ event_queue_ = <<>>
    /\ due = FALSE
    /\ stop = "idle"
    /\ \/ heartbeat = "round" /\ shutdown = "idle"
       \/ heartbeat = "ended" /\ shutdown = "returned"

-----------------------------------------------------------------------------
(* The application and the io thread.                                      *)

start ==
    /\ ~running_ /\ loop = "none" /\ stop = "idle"
    /\ running_' = TRUE
    /\ loop' = "check"
    /\ UNCHANGED <<vars, event_queue_, due, stop, beats>>

\* stop() returns without the join.
FaultyStop ==
    /\ stop = "idle"
    /\ running_' = FALSE
    /\ UNCHANGED <<vars, loop, event_queue_, due, stop, beats>>

Stop ==
    /\ stop = "idle"
    /\ running_' = FALSE
    /\ stop' = "joining"
    /\ UNCHANGED <<vars, loop, event_queue_, due, beats>>

Join ==
    /\ stop = "joining" /\ loop \in {"none", "done"}
    /\ stop' = "idle"
    /\ loop' = "none"
    /\ UNCHANGED <<vars, running_, event_queue_, due, beats>>

Application(r) ==
    /\ shutdown = "returned" /\ r # InHandler
    /\ TrackRequestCallback(r) \/ TrackBroadcast(r) \/ SendPacket(r)
    /\ UNCHANGED <<routing, beats>>

Queued(e) == Len(SelectSeq(event_queue_, LAMBDA x : x = e))

Push(e) ==
    /\ Len(event_queue_) < QueueBound
    /\ e \in Ids => e \in sent /\ arrived[e] + Queued(e) < MaxResponses
    /\ e \notin Ids => Queued(e) = 0
    /\ e = Message => shutdown = "returned" /\ timer[InHandler] = "off"
    /\ event_queue_' = Append(event_queue_, e)
    /\ UNCHANGED <<vars, running_, loop, due, stop, beats>>

Timers(r) ==
    /\ Expire(r) \/ TimeoutRequest(r) \/ CallTimeout(r) \/ FinishBroadcast(r)
    /\ UNCHANGED <<routing, beats>>

MaintenanceDue ==
    /\ ~due
    /\ due' = TRUE
    /\ UNCHANGED <<vars, running_, loop, event_queue_, stop, beats>>

-----------------------------------------------------------------------------
(* processing_loop.                                                        *)

Goto(l) == loop' = l /\ UNCHANGED <<running_, event_queue_, due, stop, beats>>

CheckRunning ==
    /\ loop = "check"
    /\ Goto(IF running_ THEN "pop" ELSE "done")
    /\ UNCHANGED vars

\* pop_for returns the first event, for which the handling begins: the packet
\* of a response goes to fulfill_request.
PopEvent ==
    /\ loop = "pop" /\ event_queue_ # <<>>
    /\ event_queue_' = Tail(event_queue_)
    /\ LET e == Head(event_queue_)
       IN  \/ e \in Ids /\ FulfillRequest(e) /\ loop' = "fulfil"
           \/ e = Message /\ TrackRequestCallback(InHandler) /\ loop' = "handler"
           \/ e = OtherEvent /\ loop' = "upkeep" /\ UNCHANGED vars
    /\ UNCHANGED <<running_, due, stop, beats>>

\* The time until the next maintenance has passed without an event.
PopTimeout ==
    /\ loop = "pop" /\ event_queue_ = <<>>
    /\ Goto("upkeep")
    /\ UNCHANGED vars

Fulfil ==
    /\ loop = "fulfil"
    /\ \/ (\E r \in Request : CompleteFound(r) \/ CallResponse(r)) /\ UNCHANGED <<routing, beats>>
       \/ found \cup answering = {} /\ Goto("upkeep") /\ UNCHANGED vars

HandlerSends ==
    /\ loop = "handler"
    /\ SendPacket(InHandler)
    /\ Goto("blocked")

\* future.get() returns.
HandlerReturns ==
    /\ loop = "blocked" /\ callbacks[InHandler] # <<>>
    /\ Goto("upkeep")
    /\ UNCHANGED vars

\* Maintenance waits for an empty queue.
FaultyUpkeep ==
    /\ loop = "upkeep"
    /\ loop' = "check"
    /\ due' = (due /\ event_queue_ # <<>>)
    /\ UNCHANGED <<vars, running_, event_queue_, stop, beats>>

\* run_periodic_maintenance, when it is due.
Upkeep ==
    /\ loop = "upkeep"
    /\ loop' = "check"
    /\ due' = FALSE
    /\ UNCHANGED <<vars, running_, event_queue_, stop, beats>>

-----------------------------------------------------------------------------
(* The heartbeat thread and RpcManager::shutdown().                        *)

\* A round, and the predicate of wait_for: evaluated with mu_, which is
\* released when the thread is asleep.
HeartbeatRound ==
    /\ heartbeat = "round"
    /\ heartbeat' = IF shutdown = "idle" THEN "deciding" ELSE "ended"
    /\ UNCHANGED <<vars, routing, shutdown>>

FallAsleep ==
    /\ heartbeat = "deciding"
    /\ heartbeat' = "asleep"
    /\ UNCHANGED <<vars, routing, shutdown>>

\* 10 s have passed.
WakeUp ==
    /\ heartbeat = "asleep"
    /\ heartbeat' = "round"
    /\ UNCHANGED <<vars, routing, shutdown>>

\* shutting_down_ is set without mu_.
BeginShutdown ==
    /\ shutdown = "idle"
    /\ shutdown' = "flagged"
    /\ UNCHANGED <<vars, routing, heartbeat>>

\* mu_ is not taken.
FaultyClear ==
    /\ shutdown = "flagged"
    /\ shutdown' = "cleared"
    /\ UNCHANGED <<vars, routing, heartbeat>>

\* The maps are cleared under mu_.
Clear ==
    /\ shutdown = "flagged" /\ heartbeat # "deciding"
    /\ shutdown' = "cleared"
    /\ UNCHANGED <<vars, routing, heartbeat>>

NotifyAll ==
    /\ shutdown = "cleared"
    /\ shutdown' = "notified"
    /\ heartbeat' = IF heartbeat = "asleep" THEN "round" ELSE heartbeat
    /\ UNCHANGED <<vars, routing>>

JoinHeartbeat ==
    /\ shutdown = "notified" /\ heartbeat = "ended"
    /\ shutdown' = "returned"
    /\ UNCHANGED <<vars, routing, heartbeat>>

-----------------------------------------------------------------------------
RoutingThread ==
    CheckRunning \/ PopEvent \/ PopTimeout \/ Fulfil \/ HandlerSends \/ HandlerReturns \/ Upkeep

ShutdownCall == Clear \/ NotifyAll \/ JoinHeartbeat

NodeNext ==
    \/ start \/ Stop \/ Join \/ MaintenanceDue
    \/ \E r \in Ids : Application(r) \/ Timers(r)
    \/ \E e \in Event : Push(e)
    \/ RoutingThread
    \/ HeartbeatRound \/ FallAsleep \/ WakeUp
    \/ BeginShutdown \/ ShutdownCall

\* The threads run, timers expire and calls go on.  Nobody need send, start or
\* stop anything, and the heartbeat thread's 10 s are not relied upon.
NodeFairness ==
    /\ WF_nodeVars(RoutingThread)
    /\ WF_nodeVars(Join)
    /\ WF_nodeVars(\E r \in Ids : Timers(r))
    /\ WF_nodeVars(HeartbeatRound \/ FallAsleep)
    /\ WF_nodeVars(ShutdownCall)

NodeSpec == NodeInit /\ [][NodeNext]_nodeVars /\ NodeFairness

-----------------------------------------------------------------------------
ThreadsTypeOK ==
    /\ TypeOK
    /\ running_ \in BOOLEAN
    /\ loop \in {"none", "check", "pop", "fulfil", "handler", "blocked", "upkeep", "done"}
    /\ event_queue_ \in Seq(Event) /\ Len(event_queue_) <= QueueBound
    /\ due \in BOOLEAN
    /\ stop \in {"idle", "joining"}
    /\ heartbeat \in {"round", "deciding", "asleep", "ended"}
    /\ shutdown \in {"idle", "flagged", "cleared", "notified", "returned"}

\* Once stop() has returned, and until start() is called again, the routing
\* thread is gone: no event is handled and no callback of the tracker is about
\* to be called on it, so what the handlers use may be destroyed.
NothingAfterStop ==
    /\ ThreadsTypeOK
    /\ ~running_ /\ stop = "idle" => loop = "none" /\ found \cup answering = {}

\* stop() returns although nobody wakes the routing thread up, with events
\* still in the queue, and with a handler waiting for a response that only the
\* routing thread could hand to it.  shutdown() returns without waiting for the
\* heartbeat thread's 10 s to pass: its notification cannot fall between the
\* predicate and the sleep.
StopReturns == []<>(stop = "idle") /\ []<>(shutdown \in {"idle", "returned"})

\* While the router runs, a response or message in the queue is handled and maintenance
\* that is due is run, however many other events keep arriving.
RouterGoesOn ==
    /\ \A e \in Ids \cup {Message} : []<>(Queued(e) = 0 \/ ~running_)
    /\ []<>(~due \/ ~running_)
=============================================================================
