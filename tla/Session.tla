------------------------------- MODULE Session -------------------------------
(***************************************************************************)
(* GenericSession: messages are sent from any thread and posted to the     *)
(* strand, whose handlers run in order on the io thread; the completion    *)
(* handlers of the stream's reads and writes run on the io thread too, in  *)
(* any order with the strand's.  A handler is one step.  A message is      *)
(* opaque: its frame (id, length, payload) is written and read as a whole. *)
(***************************************************************************)
EXTENDS Naturals, FiniteSets, Sequences, Functions

CONSTANTS Message,     \* the messages that are sent, each once
          MaxStops     \* bound: the calls of stop() by the session's owner

ASSUME SessionAssumption == MaxStops \in Nat /\ {"start", "stop"} \cap Message = {}

VARIABLES
    strand_,     \* what is posted: "start", "stop" or a message
    outbox_,
    open,        \* the stream is open
    writes,      \* the writes whose handler has not run: message and status
    reading,     \* what the session waits to read; "ended" after an error
    stops,       \* calls of stop() by the owner
    posted,      \* the messages in the order in which they were sent
    wire         \* the messages the stream has written completely

vars == <<strand_, outbox_, open, writes, reading, stops, posted, wire>>

Status == {"running", "written", "error"}

\* make_tcp_session or make_ssl_session, and start().
Init ==
    /\ strand_ = <<"start">>
    /\ outbox_ = <<>>
    /\ open = TRUE
    /\ writes = {}
    /\ reading = "nothing"
    /\ stops = 0
    /\ posted = <<>>
    /\ wire = <<>>

-----------------------------------------------------------------------------
AsyncSendMessage(m) ==
    /\ m \notin Range(posted)
    /\ posted' = Append(posted, m)
    /\ strand_' = Append(strand_, m)
    /\ UNCHANGED <<outbox_, open, writes, reading, stops, wire>>

Stop ==
    /\ stops < MaxStops
    /\ stops' = stops + 1
    /\ strand_' = Append(strand_, "stop")
    /\ UNCHANGED <<outbox_, open, writes, reading, posted, wire>>

RunStart ==
    /\ strand_ # <<>> /\ Head(strand_) = "start"
    /\ strand_' = Tail(strand_)
    /\ reading' = "handshake"
    /\ UNCHANGED <<outbox_, open, writes, stops, posted, wire>>

\* do_write: the write of the front message goes to the stream; a closed stream answers
\* with an error.
DoWrite(q) ==
    IF q = <<>> THEN {} ELSE {[msg |-> Head(q), status |-> IF open THEN "running" ELSE "error"]}

\* A write is begun for every message.
FaultyRunSend(m) ==
    /\ strand_ # <<>> /\ Head(strand_) = m
    /\ strand_' = Tail(strand_)
    /\ outbox_' = Append(outbox_, m)
    /\ writes' = writes \cup DoWrite(<<m>>)
    /\ UNCHANGED <<open, reading, stops, posted, wire>>

RunSend(m) ==
    /\ strand_ # <<>> /\ Head(strand_) = m
    /\ strand_' = Tail(strand_)
    /\ outbox_' = Append(outbox_, m)
    /\ writes' = writes \cup IF outbox_ = <<>> THEN DoWrite(<<m>>) ELSE {}
    /\ UNCHANGED <<open, reading, stops, posted, wire>>

\* cancel() aborts the running writes; the reads fail in ReadFails.
RunStop ==
    /\ strand_ # <<>> /\ Head(strand_) = "stop"
    /\ strand_' = Tail(strand_)
    /\ open' = FALSE
    /\ IF open
       THEN /\ outbox_' = <<>>
            /\ writes' = {[w EXCEPT !.status = IF @ = "running" THEN "error" ELSE @] : w \in writes}
       ELSE UNCHANGED <<outbox_, writes>>
    /\ UNCHANGED <<reading, stops, posted, wire>>

-----------------------------------------------------------------------------
(* The stream and the handlers of its completions.                         *)

StreamWrites(w) ==
    /\ w \in writes /\ w.status = "running"
    /\ writes' = (writes \ {w}) \cup {[w EXCEPT !.status = "written"]}
    /\ wire' = Append(wire, w.msg)
    /\ UNCHANGED <<strand_, outbox_, open, reading, stops, posted>>

StreamFails(w) ==
    /\ w \in writes /\ w.status = "running"
    /\ writes' = (writes \ {w}) \cup {[w EXCEPT !.status = "error"]}
    /\ UNCHANGED <<strand_, outbox_, open, reading, stops, posted, wire>>

OnWriteError(w) ==
    /\ w \in writes /\ w.status = "error"
    /\ writes' = writes \ {w}
    /\ strand_' = Append(strand_, "stop")
    /\ UNCHANGED <<outbox_, open, reading, stops, posted, wire>>

\* pop_front of an empty deque is undefined: what the deque holds then may be
\* anything.
Popped(q) == IF q = <<>> THEN {<<>>} \cup {<<m>> : m \in Message} ELSE {Tail(q)}

\* The next message waits for another send.
FaultyOnWritten(w) ==
    /\ w \in writes /\ w.status = "written"
    /\ outbox_' \in Popped(outbox_)
    /\ writes' = writes \ {w}
    /\ UNCHANGED <<strand_, open, reading, stops, posted, wire>>

OnWritten(w) ==
    /\ w \in writes /\ w.status = "written"
    /\ outbox_' \in Popped(outbox_)
    /\ writes' = (writes \ {w}) \cup DoWrite(outbox_')
    /\ UNCHANGED <<strand_, open, reading, stops, posted, wire>>

\* The handlers of the TLS handshake, of a header of acceptable length and of
\* a payload.
ReadCompletes ==
    /\ open
    /\ \/ reading \in {"handshake", "payload"} /\ reading' = "header"
       \/ reading = "header" /\ reading' = "payload"
    /\ UNCHANGED <<strand_, outbox_, open, writes, stops, posted, wire>>

\* An error, the end of the stream, or a header with a length over 10 MB.
ReadFails ==
    /\ reading \in {"handshake", "header", "payload"}
    /\ reading' = "ended"
    /\ strand_' = Append(strand_, "stop")
    /\ UNCHANGED <<outbox_, open, writes, stops, posted, wire>>

IoThread ==
    \/ RunStart \/ RunStop
    \/ \E m \in Message : RunSend(m)
    \/ \E w \in writes : StreamWrites(w) \/ OnWriteError(w) \/ OnWritten(w)

Next ==
    \/ \E m \in Message : AsyncSendMessage(m)
    \/ Stop
    \/ IoThread
    \/ \E w \in writes : StreamFails(w)
    \/ ReadCompletes \/ ReadFails

\* The io thread runs what is posted to it and the completions of a stream
\* that goes on writing; nothing is assumed of the reads.
Spec == Init /\ [][Next]_vars /\ WF_vars(IoThread)

-----------------------------------------------------------------------------
TypeOK ==
    /\ strand_ \in Seq({"start", "stop"} \cup Message)
    /\ outbox_ \in Seq(Message)
    /\ open \in BOOLEAN
    /\ writes \subseteq [msg : Message, status : Status]
    /\ reading \in {"nothing", "handshake", "header", "payload", "ended"}
    /\ stops \in 0 .. MaxStops
    /\ posted \in Seq(Message)
    /\ wire \in Seq(Message)

\* While the stream is open at most one write is under way, of the front of
\* the outbox, and one is under way whenever the outbox is not empty, unless
\* the session is about to stop: two would mix their bytes on the stream,
\* none would leave the outbox stuck.
OneWriteOfTheFront ==
    /\ TypeOK
    /\ open =>
            /\ \A w \in writes : outbox_ # <<>> /\ w.msg = Head(outbox_)
            /\ Cardinality(writes) <= 1
            /\ outbox_ # <<>> => writes # {} \/ "stop" \in Range(strand_)

\* The peer gets the messages in the order in which they were sent, without
\* gap or repetition, whatever is stopped or fails when.
WireInOrder == \E n \in 0 .. Len(posted) : wire = SubSeq(posted, 1, n)

\* A message that is sent is written, unless the stream closes.
SentIsWritten ==
    \A m \in Message : m \in Range(posted) ~> m \in Range(wire) \/ ~open

=============================================================================
