----------------------- MODULE IdentityExchangeProofs -----------------------
(* Proofs about IdentityExchange: each packet is in one place, and none    *)
(* waits for a key that nobody is fetching.                                *)
EXTENDS IdentityExchange, FiniteSetTheorems, TLAPS

\* Packet p is in some node's buffer, or with the application thread that
\* sends it.
Outgoing(p) == \E n \in Node : p \in pending_outgoing_packets_[n]
Incoming(p) == \E n \in Node : p \in pending_incoming_packets_[n]
WithThread(p) == \E n \in Node : sending[n] # None /\ n \notin buffered /\ p = Made(sending[n], "whole")

\* Packet p is in place w.
At(p, w) ==
    \/ w = "net" /\ p \in net /\ p \in Packet
    \/ w = "handled" /\ p \in handled
    \/ w = "lost" /\ p \in lost /\ p \in Packet
    \/ w = "dropped" /\ p \in dropped
    \/ w = "outgoing" /\ Outgoing(p)
    \/ w = "incoming" /\ Incoming(p)
    \/ w = "sending" /\ WithThread(p)

\* p is s or the reply to it.
Belongs(p, s) ==
    /\ p \in Packet /\ p.id = s.id
    /\ ~p.reply => p.from = s.from /\ p.to = s.to /\ p.expect_response = s.expect_response
    /\ p.reply => p.from = s.to /\ p.to = s.from /\ ~p.expect_response

SameKey(p, q) == p.id = q.id /\ p.reply = q.reply

\* Every packet is in at most one place, and comes from a packet that was
\* sent; what was sent is in some place, and so is its reply once it was
\* handled.
InOnePlace ==
    /\ \A p, q, v, w : At(p, v) /\ At(q, w) /\ SameKey(p, q) => p = q /\ v = w
    /\ \A p, w : At(p, w) => \E s \in sent : Belongs(p, s)
    /\ \A s \in sent : \E p, w : At(p, w) /\ p.id = s.id /\ ~p.reply
    /\ \A s \in sent :
          (\E p, w : At(p, w) /\ p.id = s.id /\ p.reply)
              <=> s.expect_response /\ \E p \in handled : p.id = s.id /\ ~p.reply

\* What the threads know of the packets and keys they work on.
Bookkeeping ==
    /\ \A n \in Node : \A p \in pending_outgoing_packets_[n] : p.from = n
    /\ \A n \in Node : \A p \in pending_incoming_packets_[n] : p.to = n /\ p.from \notin plain
    /\ \A n \in Node : sending[n] # None => sending[n].from = n
    /\ \A n \in Node : installing[n] # None => installing[n] \in Identity /\ installing[n].from \in trusted_keys_[n]
    /\ \A p \in dropped : p.to \in plain

IInv == TypeOK /\ InOnePlace /\ Bookkeeping

\* A buffer or a thread that does not change has what it had.
LEMMA SameBuffers ==
    /\ UNCHANGED pending_outgoing_packets_ => \A p : Outgoing(p)' <=> Outgoing(p)
    /\ UNCHANGED pending_incoming_packets_ => \A p : Incoming(p)' <=> Incoming(p)
    /\ UNCHANGED <<sending, buffered>> => \A p : WithThread(p)' <=> WithThread(p)
  BY Zenon DEF Outgoing, Incoming, WithThread

\* A step that changes no buffer, and what is under way or lost only in
\* identity messages, moves no packet.
LEMMA AtStays ==
    ASSUME UNCHANGED <<pending_outgoing_packets_, pending_incoming_packets_, handled, dropped>>,
           \A p : WithThread(p)' <=> WithThread(p),
           \A p \in Packet : (p \in net' <=> p \in net) /\ (p \in lost' <=> p \in lost)
    PROVE  \A p, w : At(p, w)' <=> At(p, w)
  BY SameBuffers DEF At

\* A step that takes H from the network or from the buffers to handled, sends
\* B except D, and drops D.
Answers(H, x, B, D) ==
    /\ x \in {"net", "incoming"} /\ B \subseteq Packet /\ D \subseteq B
    /\ UNCHANGED <<pending_outgoing_packets_, sending, buffered, lost>>
    /\ handled' = handled \cup H /\ dropped' = dropped \cup D
    /\ \A p \in Packet : p \in net' <=> (p \in net /\ ~(p \in H /\ x = "net")) \/ p \in B \ D
    /\ \A p : Incoming(p)' <=> Incoming(p) /\ ~(p \in H /\ x = "incoming")

\* The packets it moves.
LEMMA AtHandles ==
    ASSUME NEW H, NEW x, NEW B, NEW D, Answers(H, x, B, D)
    PROVE  \A p, w : At(p, w)' <=> \/ At(p, w) /\ ~(p \in H /\ w = x)
                                   \/ p \in H /\ w = "handled"
                                   \/ p \in B \ D /\ w = "net"
                                   \/ p \in B \cap D /\ w = "dropped"
<1>1. CASE x = "net"
  BY <1>1, SameBuffers DEF Answers, At
<1>2. CASE x = "incoming"
  BY <1>2, SameBuffers DEF Answers, At
<1> QED
  BY <1>1, <1>2, Zenon DEF Answers

\* Packets are not identity messages.
LEMMA Disjoint == \A m : ~(m \in Packet /\ m \in Identity)
<1> SUFFICES ASSUME NEW m, m \in Packet, m \in Identity PROVE FALSE
  BY Zenon
<1>1. DOMAIN m = {"id", "from", "to", "reply", "expect_response", "payload"}
  BY Zenon DEF Packet
<1>2. DOMAIN m = {"kind", "from", "to", "number"}
  BY Zenon DEF Identity
<1> QED
  BY <1>1, <1>2

\* The packet an application makes.
LEMMA MadeIs ==
    ASSUME NEW s \in Sends, NEW payload \in {"whole", "empty"}
    PROVE  Belongs(Made(s, payload), s) /\ ~Made(s, payload).reply
  BY IdentityAssumption, Zenon DEF Made, Belongs, Packet, Ids

\* The reply to a packet.
LEMMA ReplyIs ==
    ASSUME NEW p, NEW s, Belongs(p, s), ~p.reply
    PROVE  /\ Belongs(Reply(p), s) /\ Reply(p).reply
           /\ Reply(p).id = p.id /\ Reply(p).from = p.to /\ Reply(p).to = p.from
  BY Zenon DEF Reply, Belongs, Packet

\* A step in which R leaves its places, and A comes: the packets of A replace
\* the ones of R, or are sent in the step, or are replies to what is handled
\* in the step.
Leaves(R, A) ==
    /\ \A p, w : <<p, w>> \in R => At(p, w)
    /\ \A p, v : <<p, v>> \in R => \E q, w : <<q, w>> \in A /\ SameKey(p, q)

Comes(R, A) ==
    /\ \A p, w : <<p, w>> \in A => \E s \in sent' : Belongs(p, s)
    /\ \A p, q, v, w : <<p, v>> \in A /\ <<q, w>> \in A /\ SameKey(p, q) => p = q /\ v = w
    /\ \A p, q, v, w : <<p, v>> \in A /\ At(q, w) /\ SameKey(p, q) => <<q, w>> \in R
    /\ \A s \in sent' \ sent : \E p, w : <<p, w>> \in A /\ p.id = s.id /\ ~p.reply

Replied(R, A) ==
    /\ \A p, v : <<p, v>> \in A /\ p.reply =>
          \/ \E q, w : <<q, w>> \in R /\ SameKey(p, q)
          \/ \E q \in handled' : q.id = p.id /\ ~q.reply /\ q.expect_response
    /\ \A p \in handled' \ handled : ~p.reply /\ p.expect_response =>
          \E q, w : <<q, w>> \in A /\ q.id = p.id /\ q.reply

Exchanged(R, A) == \A p, w : At(p, w)' <=> (At(p, w) /\ <<p, w>> \notin R) \/ <<p, w>> \in A

\* Such a step keeps packets in one place.
LEMMA Moved ==
    ASSUME InOnePlace, sent \subseteq Sends, sent' \subseteq Sends, sent \subseteq sent', handled \subseteq handled',
           NEW R, NEW A, Exchanged(R, A), Leaves(R, A), Comes(R, A), Replied(R, A)
    PROVE  InOnePlace'
<1> USE DEF Exchanged, Leaves, Comes, Replied
<1>0. \A s, t \in Sends : s.id = t.id => s = t
  BY IdentityAssumption, Zenon
<1>1. ASSUME NEW p, NEW q, NEW v, NEW w, At(p, v)', At(q, w)', SameKey(p, q) PROVE p = q /\ v = w
  <2>1. CASE <<p, v>> \in A /\ <<q, w>> \in A
    BY <1>1, <2>1, Zenon
  <2>2. CASE <<p, v>> \in A /\ <<q, w>> \notin A
    BY <1>1, <2>2, Zenon
  <2>3. CASE <<p, v>> \notin A /\ <<q, w>> \in A
    BY <1>1, <2>3, Zenon DEF SameKey
  <2>4. CASE <<p, v>> \notin A /\ <<q, w>> \notin A
    BY <1>1, <2>4, Zenon DEF InOnePlace
  <2> QED
    BY <2>1, <2>2, <2>3, <2>4, Zenon
<1>2. ASSUME NEW p, NEW w, At(p, w)' PROVE \E s \in sent' : Belongs(p, s)
  BY <1>2, Zenon DEF InOnePlace
<1>3. ASSUME NEW p, NEW w, At(p, w) PROVE \E q, v : At(q, v)' /\ SameKey(p, q)
  <2>1. CASE <<p, w>> \in R
    BY <2>1, Zenon
  <2>2. CASE <<p, w>> \notin R
    BY <1>3, <2>2, Zenon DEF SameKey
  <2> QED
    BY <2>1, <2>2, Zenon
<1>4. ASSUME NEW s \in sent' PROVE \E p, w : At(p, w)' /\ p.id = s.id /\ ~p.reply
  <2>1. CASE s \in sent
    <3>1. PICK p, w : At(p, w) /\ p.id = s.id /\ ~p.reply
      BY <2>1, Zenon DEF InOnePlace
    <3>2. PICK q, v : At(q, v)' /\ SameKey(p, q)
      BY <1>3, <3>1, Zenon
    <3> QED
      BY <3>1, <3>2, Zenon DEF SameKey
  <2>2. CASE s \notin sent
    BY <2>2, Zenon
  <2> QED
    BY <2>1, <2>2, Zenon
<1>5. ASSUME NEW s \in sent', NEW p, NEW w, At(p, w)', p.id = s.id
      PROVE  Belongs(p, s)
  BY <1>0, <1>2, <1>5 DEF Belongs
<1>6. ASSUME NEW s \in sent', NEW p, NEW w, At(p, w), p.id = s.id
      PROVE  s \in sent
  <2>1. PICK t \in sent : Belongs(p, t)
    BY <1>6, Zenon DEF InOnePlace
  <2>2. s.id = t.id /\ s \in Sends /\ t \in Sends
    BY <1>6, <2>1, Zenon DEF Belongs
  <2>3. s = t
    BY <1>0, <2>2, Zenon
  <2> QED
    BY <2>3, Zenon
<1>7. ASSUME NEW s \in sent', NEW p, NEW w, At(p, w)', p.id = s.id, p.reply
      PROVE  s.expect_response /\ \E q \in handled' : q.id = s.id /\ ~q.reply
  <2>1. ASSUME NEW q, NEW v, At(q, v), SameKey(p, q)
        PROVE  s.expect_response /\ \E r \in handled' : r.id = s.id /\ ~r.reply
    <3>1. s \in sent /\ q.id = s.id /\ q.reply
      BY <1>6, <1>7, <2>1, Zenon DEF SameKey
    <3> QED
      BY <2>1, <3>1, Zenon DEF InOnePlace
  <2>2. CASE At(p, w)
    BY <2>1, <2>2 DEF SameKey
  <2>3. CASE \E q, v : <<q, v>> \in R /\ SameKey(p, q)
    BY <2>1, <2>3, Zenon
  <2>4. CASE \E q \in handled' : q.id = p.id /\ ~q.reply /\ q.expect_response
    <3>1. PICK q \in handled' : q.id = p.id /\ ~q.reply /\ q.expect_response
      BY <2>4, Zenon
    <3>2. At(q, "handled")'
      BY Zenon DEF At
    <3>3. Belongs(q, s)
      BY <1>5, <1>7, <3>1, <3>2, Zenon
    <3> QED
      BY <1>7, <3>1, <3>3, Zenon DEF Belongs
  <2> QED
    BY <1>7, <2>2, <2>3, <2>4, Zenon
<1>8. ASSUME NEW s \in sent', s.expect_response, NEW p \in handled', p.id = s.id, ~p.reply
      PROVE  \E q, w : At(q, w)' /\ q.id = s.id /\ q.reply
  <2>1. CASE p \in handled
    <3>1. At(p, "handled")
      BY <2>1, Zenon DEF At
    <3>2. s \in sent
      BY <1>6, <1>8, <3>1, Zenon
    <3>3. PICK q, w : At(q, w) /\ q.id = s.id /\ q.reply
      BY <1>8, <2>1, <3>2, Zenon DEF InOnePlace
    <3>4. PICK r, v : At(r, v)' /\ SameKey(q, r)
      BY <1>3, <3>3, Zenon
    <3> QED
      BY <3>3, <3>4, Zenon DEF SameKey
  <2>2. CASE p \notin handled
    <3>1. At(p, "handled")'
      BY Zenon DEF At
    <3>2. p.expect_response
      BY <1>5, <1>8, <3>1 DEF Belongs
    <3> QED
      BY <1>8, <2>2, <3>2, Zenon
  <2> QED
    BY <2>1, <2>2, Zenon
<1> QED
  BY <1>1, <1>2, <1>4, <1>7, <1>8 DEF InOnePlace

\* A step that moves no packet.
LEMMA Unmoved ==
    ASSUME InOnePlace, UNCHANGED <<sent, handled>>, \A p, w : At(p, w)' <=> At(p, w)
    PROVE  InOnePlace'
  BY Zenon DEF InOnePlace

\* At the start there are no packets.
LEMMA InitIInv == Init => IInv
<1> SUFFICES ASSUME Init PROVE IInv
  BY Zenon
<1>1. TypeOK
  BY Zenon DEF Init, TypeOK
<1>2. \A p, w : ~At(p, w)
  BY Zenon DEF Init, At, Outgoing, Incoming, WithThread
<1>3. InOnePlace
  BY <1>2, Zenon DEF Init, InOnePlace
<1>4. Bookkeeping
  BY Zenon DEF Init, Bookkeeping
<1> QED
  BY <1>1, <1>3, <1>4, Zenon DEF IInv

\* send_message: the new packet is sent, cannot be secured, or is with the
\* application thread.
LEMMA SendMessageKeeps == ASSUME IInv, NEW s \in Sends, SendMessage(s) PROVE IInv'
<1>1. TypeOK /\ InOnePlace /\ Bookkeeping
  BY Zenon DEF IInv
<1>2. /\ s \notin sent /\ sending[s.from] = None /\ sent' = sent \cup {s}
      /\ UNCHANGED <<keys, asking, buffered, deciding, installing, handled, plain, lost>>
  BY Zenon DEF SendMessage
<1>3. UNCHANGED <<trusted_keys_, pending_outgoing_packets_, pending_incoming_packets_,
                  id_request_cooldowns_, asked, tracked>>
  BY <1>2, Zenon DEF keys, asking
<1>4. s.from \in Node /\ s.to \in Node /\ s # None
  BY IdentityAssumption, Zenon
<1>5. sent \subseteq Sends /\ sent' \subseteq Sends /\ s.from \notin buffered
  BY <1>1, <1>2, Zenon DEF TypeOK
<1> DEFINE p0 == Made(s, "whole")
<1>6. Belongs(p0, s) /\ ~p0.reply /\ p0.id = s.id /\ p0.from = s.from /\ p0.to = s.to /\ p0 \in Packet
  BY MadeIs, Zenon DEF Belongs
<1> HIDE DEF p0
<1>7. \A q, w : At(q, w) => q.id # s.id
  <2> SUFFICES ASSUME NEW q, NEW w, At(q, w), q.id = s.id PROVE FALSE
    BY Zenon
  <2>1. PICK t \in sent : Belongs(q, t)
    BY <1>1, Zenon DEF InOnePlace
  <2>2. t.id = s.id /\ t \in Sends
    BY <1>5, <2>1, Zenon DEF Belongs
  <2>3. t = s
    BY <2>2, IdentityAssumption, Zenon
  <2> QED
    BY <1>2, <2>3, Zenon
<1>8. ASSUME NEW x, \A p, w : At(p, w)' <=> At(p, w) \/ <<p, w>> = <<p0, x>>
      PROVE  InOnePlace'
  <2> DEFINE R == {}
             A == {<<p0, x>>}
  <2>1. \A p, w : At(p, w)' <=> (At(p, w) /\ <<p, w>> \notin R) \/ <<p, w>> \in A
    BY <1>8, Zenon
  <2>2. \A p, w : <<p, w>> \in A => p = p0 /\ w = x
    BY Zenon
  <2>3. <<p0, x>> \in A /\ \A p, w : <<p, w>> \notin R
    BY Zenon
  <2> HIDE DEF R, A
  <2>4. \A p, w : <<p, w>> \in A => \E t \in sent' : Belongs(p, t)
    BY <1>2, <1>6, <2>2, Zenon
  <2>5. \A p, q, v, w : <<p, v>> \in A /\ At(q, w) /\ SameKey(p, q) => <<q, w>> \in R
    BY <1>6, <1>7, <2>2 DEF SameKey
  <2>6. \A t \in sent' \ sent : \E p, w : <<p, w>> \in A /\ p.id = t.id /\ ~p.reply
    BY <1>2, <1>6, <2>3, Zenon
  <2>7. sent \subseteq sent' /\ handled' = handled /\ handled \subseteq handled'
    BY <1>2, Zenon
  <2>8. Exchanged(R, A) /\ Leaves(R, A)
    BY <2>1, <2>3, Zenon DEF Exchanged, Leaves
  <2>9. Comes(R, A)
    <3>1. \A p, q, v, w : <<p, v>> \in A /\ <<q, w>> \in A => p = q /\ v = w
      BY <2>2
    <3> QED
      BY <2>4, <2>5, <2>6, <3>1, Zenon DEF Comes
  <2>10. Replied(R, A)
    BY <1>6, <2>2, <2>7, Zenon DEF Replied
  <2> QED
    BY <1>1, <1>5, <2>7, <2>8, <2>9, <2>10, Moved, Zenon
<1>9. CASE s.from \in plain \/ s.to \in trusted_keys_[s.from]
  <2>1. /\ net' = net \cup Sendable({p0}) /\ dropped' = dropped \cup ({p0} \ Sendable({p0})) /\ sending' = sending
    BY <1>9, Zenon DEF SendMessage, p0
  <2>2. Sendable({p0}) \subseteq {p0}
    BY Zenon DEF Sendable
  <2>3. TypeOK'
    BY <1>1, <1>2, <1>3, <1>5, <1>6, <2>1, <2>2, Zenon DEF TypeOK
  <2>4. p0 \notin Sendable({p0}) => p0.to \in plain
    BY <1>6, <1>9, Zenon DEF Sendable, Secured
  <2>5. Bookkeeping'
    BY <1>1, <1>2, <1>3, <2>1, <2>4 DEF Bookkeeping
  <2>6. InOnePlace'
    <3>1. CASE p0 \in Sendable({p0})
      <4>1. net' = net \cup {p0} /\ dropped' = dropped
        BY <2>1, <2>2, <3>1, Zenon
      <4>2. \A p, w : At(p, w)' <=> At(p, w) \/ (p = p0 /\ w = "net")
        BY <1>2, <1>3, <1>6, <2>1, <4>1, SameBuffers DEF At
      <4> QED
        BY <1>8, <4>2, Zenon
    <3>2. CASE p0 \notin Sendable({p0})
      <4>1. net' = net /\ dropped' = dropped \cup {p0}
        BY <2>1, <2>2, <3>2, Zenon
      <4>2. \A p, w : At(p, w)' <=> At(p, w) \/ (p = p0 /\ w = "dropped")
        BY <1>2, <1>3, <2>1, <4>1, SameBuffers DEF At
      <4> QED
        BY <1>8, <4>2, Zenon
    <3> QED
      BY <3>1, <3>2, Zenon
  <2> QED
    BY <2>3, <2>5, <2>6, Zenon DEF IInv
<1>10. CASE ~(s.from \in plain \/ s.to \in trusted_keys_[s.from])
  <2>1. sending' = [sending EXCEPT ![s.from] = s] /\ UNCHANGED <<net, dropped>>
    BY <1>10, Zenon DEF SendMessage
  <2>2. sending'[s.from] = s /\ \A n \in Node \ {s.from} : sending'[n] = sending[n]
    BY <1>1, <1>4, <2>1, Zenon DEF TypeOK
  <2>3. TypeOK'
    <3>1. sending' \in [Node -> sent' \cup {None}]
      BY <1>1, <1>2, <2>1, Zenon DEF TypeOK
    <3>2. buffered' \subseteq {n \in Node : sending'[n] # None}
      BY <1>1, <1>2, <1>5, <2>2, Zenon DEF TypeOK
    <3> QED
      BY <1>1, <1>2, <1>3, <1>5, <2>1, <3>1, <3>2, Zenon DEF TypeOK
  <2>4. Bookkeeping'
    BY <1>1, <1>2, <1>3, <2>1, <2>2 DEF Bookkeeping
  <2>5. \A p, w : At(p, w)' <=> At(p, w) \/ (p = p0 /\ w = "sending")
    <3>1. \A p : WithThread(p)' <=> WithThread(p) \/ p = p0
      BY <1>2, <1>4, <1>5, <2>2, Zenon DEF p0, WithThread
    <3> QED
      BY <1>2, <1>3, <2>1, <3>1, SameBuffers DEF At
  <2> QED
    BY <1>8, <2>3, <2>4, <2>5, Zenon DEF IInv
<1> QED
  BY <1>9, <1>10, Zenon

\* buffer_outgoing_packet: from the application thread to the buffer.
LEMMA BufferOutgoingKeeps == ASSUME IInv, NEW n \in Node, BufferOutgoing(n) PROVE IInv'
<1>1. TypeOK /\ InOnePlace /\ Bookkeeping
  BY Zenon DEF IInv
<1> DEFINE s == sending[n]
           p0 == Made(s, "whole")
           p1 == Made(s, "empty")
<1>2. /\ s # None /\ n \notin buffered /\ buffered' = buffered \cup {n}
      /\ pending_outgoing_packets_' = [pending_outgoing_packets_ EXCEPT ![n] = @ \cup {p1}]
      /\ UNCHANGED <<trusted_keys_, pending_incoming_packets_, asking, sent, sending, deciding, installing, net, handled, history>>
  BY Zenon DEF BufferOutgoing
<1>3. UNCHANGED <<id_request_cooldowns_, asked, tracked, plain, dropped, lost>>
  BY <1>2, Zenon DEF asking, history
<1>4. s \in sent /\ s \in Sends /\ s.from = n
  BY <1>1, <1>2 DEF TypeOK, Bookkeeping
<1>5. /\ Belongs(p0, s) /\ ~p0.reply /\ p0.id = s.id
      /\ Belongs(p1, s) /\ ~p1.reply /\ p1.id = s.id /\ p1.from = n /\ p1 \in Packet
  BY <1>4, MadeIs, Zenon DEF Belongs
<1>6. At(p0, "sending")
  BY <1>2, Zenon DEF At, WithThread
<1>7. /\ \A k \in Node : sending[k] # None => sending[k] \in Sends /\ sending[k].from = k
  BY <1>1 DEF TypeOK, Bookkeeping
<1>8. \A k \in Node : sending[k] # None /\ Made(sending[k], "whole") = p0 => k = n
  <2> SUFFICES ASSUME NEW k \in Node, sending[k] # None, Made(sending[k], "whole") = p0 PROVE k = n
    BY Zenon
  <2>1. Made(sending[k], "whole").from = k /\ p0.from = n
    BY <1>4, <1>7, Zenon DEF Made
  <2> QED
    BY <2>1, Zenon
<1> HIDE DEF p0, p1
<1>9. TypeOK'
  BY <1>1, <1>2, <1>3, <1>5 DEF TypeOK
<1>10. Bookkeeping'
  BY <1>1, <1>2, <1>3, <1>5 DEF Bookkeeping, TypeOK
<1>11. \A p, w : At(p, w)' <=> (At(p, w) /\ ~(p = p0 /\ w = "sending")) \/ (p = p1 /\ w = "outgoing")
  <2>1. \A p : Outgoing(p)' <=> Outgoing(p) \/ p = p1
    BY <1>1, <1>2, Zenon DEF TypeOK, Outgoing
  <2>2. \A p : WithThread(p)' <=> WithThread(p) /\ p # p0
    BY <1>2, <1>8, Zenon DEF p0, WithThread
  <2> QED
    BY <1>2, <1>3, <2>1, <2>2, SameBuffers DEF At
<1> DEFINE R == {<<p0, "sending">>}
           A == {<<p1, "outgoing">>}
<1>12. /\ \A p, w : <<p, w>> \in R <=> p = p0 /\ w = "sending"
       /\ \A p, w : <<p, w>> \in A <=> p = p1 /\ w = "outgoing"
       /\ \A p, w : At(p, w)' <=> (At(p, w) /\ <<p, w>> \notin R) \/ <<p, w>> \in A
  BY <1>11, Zenon
<1> HIDE DEF R, A
<1>13. \A p, w : <<p, w>> \in R => At(p, w)
  BY <1>6, <1>12, Zenon
<1>14. \A p, q, v, w : <<p, v>> \in A /\ At(q, w) /\ SameKey(p, q) => <<q, w>> \in R
  <2> SUFFICES ASSUME NEW q, NEW w, At(q, w), SameKey(p1, q) PROVE q = p0 /\ w = "sending"
    BY <1>12
  <2>1. SameKey(p0, q)
    BY <1>5, Zenon DEF SameKey, Belongs, Packet
  <2> QED
    BY <1>1, <1>6, <2>1, Zenon DEF InOnePlace
<1>15. \A p, v : <<p, v>> \in R => \E q, w : <<q, w>> \in A /\ SameKey(p, q)
  <2>1. SameKey(p0, p1)
    BY <1>5, Zenon DEF SameKey, Belongs, Packet
  <2> QED
    BY <1>12, <2>1, Zenon
<1>16. sent' = sent /\ handled' = handled /\ sent \subseteq Sends
  BY <1>1, <1>2, Zenon DEF TypeOK
<1>17. InOnePlace'
  <2>1. Exchanged(R, A) /\ Leaves(R, A)
    BY <1>12, <1>13, <1>15, Zenon DEF Exchanged, Leaves
  <2>2. Comes(R, A)
    BY <1>4, <1>5, <1>12, <1>14, <1>16 DEF Comes
  <2>3. Replied(R, A)
    BY <1>5, <1>12, <1>16, Zenon DEF Replied
  <2> QED
    BY <1>1, <1>16, <2>1, <2>2, <2>3, Moved, Zenon
<1> QED
  BY <1>9, <1>10, <1>17, Zenon DEF IInv

\* An identity request is sent: it is not a packet.
LEMMA AskNowIs ==
    ASSUME TypeOK, NEW n \in Node, NEW p \in Node, NEW others, AskNow(n, p, others)
    PROVE  /\ id_request_cooldowns_' \in [Node -> SUBSET Node]
           /\ asked' \in [Node -> [Node -> Nat]]
           /\ tracked' \in [Node -> SUBSET Identity]
           /\ \E r \in Identity : r \notin Packet /\ net' = others \cup {r}
<1> DEFINE k == asked[n][p] + 1
           r == Request(n, p, k)
<1>1. k \in Nat
  BY DEF TypeOK
<1>2. r \in Identity
  BY <1>1, Zenon DEF Request, Identity
<1>3. r \notin Packet
  BY <1>2, Disjoint, Zenon
<1>4. /\ id_request_cooldowns_' = [id_request_cooldowns_ EXCEPT ![n] = @ \cup {p}]
      /\ asked' = [asked EXCEPT ![n][p] = k]
      /\ tracked' = [tracked EXCEPT ![n] = @ \cup {r}]
      /\ net' = others \cup {r}
  BY Zenon DEF AskNow
<1> HIDE DEF k, r
<1> QED
  BY <1>1, <1>2, <1>3, <1>4 DEF TypeOK

\* should_send_identity_request moves nothing.
LEMMA DecideToAskKeeps == ASSUME IInv, NEW n \in Node, DecideToAsk(n) PROVE IInv'
<1>1. TypeOK /\ InOnePlace /\ Bookkeeping
  BY Zenon DEF IInv
<1>2. /\ n \in buffered \ deciding
      /\ UNCHANGED <<trusted_keys_, pending_outgoing_packets_, pending_incoming_packets_, id_request_cooldowns_,
                     asked, tracked, sent, installing, net, handled, plain, dropped, lost>>
  BY Zenon DEF DecideToAsk, keys, asking, history
<1>3. CASE deciding' = deciding \cup {n} /\ UNCHANGED <<sending, buffered>>
  <2>1. TypeOK'
    BY <1>1, <1>2, <1>3, Zenon DEF TypeOK
  <2>2. Bookkeeping'
    BY <1>1, <1>2, <1>3, Zenon DEF Bookkeeping
  <2>3. \A p, w : At(p, w)' <=> At(p, w)
    BY <1>2, <1>3, SameBuffers, AtStays, Zenon
  <2> QED
    BY <1>1, <1>2, <2>1, <2>2, <2>3, Unmoved, Zenon DEF IInv
<1>4. CASE sending' = [sending EXCEPT ![n] = None] /\ buffered' = buffered \ {n} /\ UNCHANGED deciding
  <2>1. sending'[n] = None /\ \A k \in Node \ {n} : sending'[k] = sending[k]
    BY <1>1, <1>4, Zenon DEF TypeOK
  <2>2. TypeOK'
    <3>1. sending' \in [Node -> sent' \cup {None}]
      BY <1>1, <1>2, <1>4, Zenon DEF TypeOK
    <3>2. deciding' \subseteq buffered' /\ buffered' \subseteq {k \in Node : sending'[k] # None}
      BY <1>1, <1>2, <1>4, <2>1, Zenon DEF TypeOK
    <3> QED
      BY <1>1, <1>2, <3>1, <3>2, Zenon DEF TypeOK
  <2>3. Bookkeeping'
    BY <1>1, <1>2, <2>1 DEF Bookkeeping
  <2>4. \A p : WithThread(p)' <=> WithThread(p)
    BY <1>2, <1>4, <2>1, Zenon DEF WithThread
  <2>5. \A p, w : At(p, w)' <=> At(p, w)
    BY <1>2, <2>4, AtStays, Zenon
  <2> QED
    BY <1>1, <1>2, <2>2, <2>3, <2>5, Unmoved, Zenon DEF IInv
<1> QED
  BY <1>3, <1>4, Zenon DEF DecideToAsk

\* send_identity_request moves no packet.
LEMMA AskForKeyKeeps == ASSUME IInv, NEW n \in Node, AskForKey(n) PROVE IInv'
<1>1. TypeOK /\ InOnePlace /\ Bookkeeping
  BY Zenon DEF IInv
<1>2. /\ n \in deciding /\ AskNow(n, sending[n].to, net)
      /\ sending' = [sending EXCEPT ![n] = None] /\ buffered' = buffered \ {n} /\ deciding' = deciding \ {n}
      /\ UNCHANGED <<trusted_keys_, pending_outgoing_packets_, pending_incoming_packets_, sent, installing,
                     handled, plain, dropped, lost>>
  BY Zenon DEF AskForKey, keys, history
<1>3. n \in buffered /\ sending[n] # None /\ sending[n].to \in Node
  BY <1>1, <1>2, IdentityAssumption, Zenon DEF TypeOK
<1>4. /\ id_request_cooldowns_' \in [Node -> SUBSET Node] /\ asked' \in [Node -> [Node -> Nat]]
      /\ tracked' \in [Node -> SUBSET Identity]
      /\ \E r \in Identity : r \notin Packet /\ net' = net \cup {r}
  BY <1>1, <1>2, <1>3, AskNowIs, Zenon
<1>5. sending'[n] = None /\ \A k \in Node \ {n} : sending'[k] = sending[k]
  BY <1>1, <1>2, Zenon DEF TypeOK
<1>6. TypeOK'
  <2>1. sending' \in [Node -> sent' \cup {None}]
    BY <1>1, <1>2, Zenon DEF TypeOK
  <2>2. deciding' \subseteq buffered' /\ buffered' \subseteq {k \in Node : sending'[k] # None}
    BY <1>1, <1>2, <1>5, Zenon DEF TypeOK
  <2> QED
    BY <1>1, <1>2, <1>4, <2>1, <2>2 DEF TypeOK
<1>7. Bookkeeping'
  BY <1>1, <1>2, <1>5, Zenon DEF Bookkeeping
<1>8. \A p : WithThread(p)' <=> WithThread(p)
  BY <1>2, <1>3, <1>5, Zenon DEF WithThread
<1>9. \A p \in Packet : p \in net' <=> p \in net
  BY <1>4, Zenon
<1>10. \A p, w : At(p, w)' <=> At(p, w)
  BY <1>2, <1>8, <1>9, AtStays, Zenon
<1> QED
  BY <1>1, <1>2, <1>6, <1>7, <1>10, Unmoved, Zenon DEF IInv

\* The packets of H leave place x: those of D go to z and the others to y.
Moves(H, x, y, D, z) ==
    /\ \A p \in H : At(p, x)
    /\ \A p, w : At(p, w)' <=> \/ At(p, w) /\ ~(p \in H /\ w = x)
                               \/ p \in H \ D /\ w = y
                               \/ p \in H \cap D /\ w = z

\* Packets that move stay in one place.
LEMMA MovesKeeps ==
    ASSUME InOnePlace, sent \subseteq Sends, UNCHANGED <<sent, handled>>,
           NEW H, NEW x, NEW y, NEW D, NEW z, Moves(H, x, y, D, z)
    PROVE  InOnePlace'
<1> DEFINE R == H \X {x}
           A == ((H \ D) \X {y}) \cup ((H \cap D) \X {z})
<1>1. \A p, w : <<p, w>> \in R <=> p \in H /\ w = x
  BY Zenon
<1>2. \A p, w : <<p, w>> \in A <=> (p \in H \ D /\ w = y) \/ (p \in H \cap D /\ w = z)
  BY Zenon
<1> HIDE DEF R, A
<1>3. Exchanged(R, A)
  <2> SUFFICES ASSUME NEW p, NEW w
               PROVE  At(p, w)' <=> (At(p, w) /\ <<p, w>> \notin R) \/ <<p, w>> \in A
    BY Zenon DEF Exchanged
  <2>1. At(p, w)' <=> \/ At(p, w) /\ ~(p \in H /\ w = x)
                      \/ p \in H \ D /\ w = y
                      \/ p \in H \cap D /\ w = z
    BY Zenon DEF Moves
  <2>2. /\ <<p, w>> \in R <=> p \in H /\ w = x
        /\ <<p, w>> \in A <=> (p \in H \ D /\ w = y) \/ (p \in H \cap D /\ w = z)
    BY <1>1, <1>2
  <2> QED
    BY <2>1, <2>2, Zenon
<1>4. \A p, w : <<p, w>> \in A => p \in H /\ At(p, x)
  BY <1>2, Zenon DEF Moves
<1>5. Leaves(R, A)
  <2>1. ASSUME NEW p, NEW w, <<p, w>> \in R PROVE At(p, w)
    BY <1>1, <2>1 DEF Moves
  <2>2. ASSUME NEW p, NEW v, <<p, v>> \in R PROVE \E q, w : <<q, w>> \in A /\ SameKey(p, q)
    <3>1. SameKey(p, p)
      BY Zenon DEF SameKey
    <3>2. <<p, y>> \in A \/ <<p, z>> \in A
      BY <1>1, <1>2, <2>2, Zenon
    <3> QED
      BY <3>1, <3>2, Zenon
  <2> QED
    BY <2>1, <2>2, Zenon DEF Leaves
<1>6. \A p, w : <<p, w>> \in A => \E s \in sent' : Belongs(p, s)
  BY <1>4, Zenon DEF InOnePlace
<1>7. \A p, q, v, w : <<p, v>> \in A /\ <<q, w>> \in A /\ SameKey(p, q) => p = q /\ v = w
  <2> SUFFICES ASSUME NEW p, NEW q, NEW v, NEW w, <<p, v>> \in A, <<q, w>> \in A, SameKey(p, q)
               PROVE  p = q /\ v = w
    BY Zenon
  <2>1. p = q
    BY <1>4, Zenon DEF InOnePlace
  <2> QED
    BY <1>2, <2>1
<1>8. \A p, q, v, w : <<p, v>> \in A /\ At(q, w) /\ SameKey(p, q) => <<q, w>> \in R
  <2> SUFFICES ASSUME NEW p, NEW q, NEW v, NEW w, <<p, v>> \in A, At(q, w), SameKey(p, q)
               PROVE  <<q, w>> \in R
    BY Zenon
  <2>1. p \in H /\ At(p, x)
    BY <1>4, Zenon
  <2>2. p = q /\ x = w
    BY <2>1, Zenon DEF InOnePlace
  <2> QED
    BY <1>1, <2>1, <2>2, Zenon
<1>9. Comes(R, A)
  BY <1>6, <1>7, <1>8, Zenon DEF Comes
<1>10. Replied(R, A)
  <2>1. \A p, v : <<p, v>> \in A => <<p, x>> \in R /\ SameKey(p, p)
    BY <1>1, <1>4, Zenon DEF SameKey
  <2>2. handled' \ handled = {}
    BY Zenon
  <2> QED
    BY <2>1, <2>2, Zenon DEF Replied
<1> QED
  BY <1>3, <1>5, <1>9, <1>10, Moved, Zenon

\* The packets of H are handled; the replies of D cannot be secured, the
\* others are sent.
Handles(H, x, D) ==
    /\ x # "handled" /\ handled' = handled \cup H
    /\ \A p \in H : At(p, x)
    /\ \A p, w : At(p, w)' <=> \/ At(p, w) /\ ~(p \in H /\ w = x)
                               \/ p \in H /\ w = "handled"
                               \/ p \in Replies(H) \ D /\ w = "net"
                               \/ p \in Replies(H) \cap D /\ w = "dropped"

\* A packet that is about to be handled is no reply if it expects one, and no
\* reply to it is anywhere.
LEMMA NotReplied ==
    ASSUME InOnePlace, NEW H, NEW x, NEW D, Handles(H, x, D), NEW p \in H, p.expect_response
    PROVE  /\ \E s \in sent : Belongs(p, s)
           /\ ~p.reply
           /\ \A q, w : ~(At(q, w) /\ q.id = p.id /\ q.reply)
<1>1. At(p, x) /\ x # "handled"
  BY Zenon DEF Handles
<1>2. PICK s \in sent : Belongs(p, s)
  BY <1>1, Zenon DEF InOnePlace
<1>3. ~p.reply /\ p.id = s.id /\ p.reply \in BOOLEAN
  BY <1>2, Zenon DEF Belongs, Packet
<1>4. ASSUME NEW q, NEW w, At(q, w), q.id = p.id, q.reply PROVE FALSE
  <2>1. PICK r \in handled : r.id = s.id /\ ~r.reply
    BY <1>3, <1>4, Zenon DEF InOnePlace
  <2>2. At(r, "handled")
    BY Zenon DEF At
  <2>3. PICK t \in sent : Belongs(r, t)
    BY <2>2, Zenon DEF InOnePlace
  <2>4. r.reply \in BOOLEAN
    BY <2>3, Zenon DEF Belongs, Packet
  <2>5. SameKey(r, p)
    BY <1>3, <2>1, <2>4, Zenon DEF SameKey
  <2> QED
    BY <1>1, <2>2, <2>5, Zenon DEF InOnePlace
<1> QED
  BY <1>2, <1>3, <1>4, Zenon

\* Packets that are handled, and their replies, are in one place.
LEMMA HandlesKeeps ==
    ASSUME InOnePlace, sent \subseteq Sends, UNCHANGED sent, NEW H, NEW x, NEW D, Handles(H, x, D)
    PROVE  InOnePlace'
<1> DEFINE B == Replies(H)
           R == H \X {x}
           A == (H \X {"handled"}) \cup ((B \ D) \X {"net"}) \cup ((B \cap D) \X {"dropped"})
<1>1. \A p, w : <<p, w>> \in R <=> p \in H /\ w = x
  BY Zenon
<1>2. \A p, w : <<p, w>> \in A <=> \/ p \in H /\ w = "handled"
                                   \/ p \in B \ D /\ w = "net"
                                   \/ p \in B \cap D /\ w = "dropped"
  BY Zenon
<1>3. \A p \in H : At(p, x) /\ SameKey(p, p)
  BY Zenon DEF Handles, SameKey
<1>4. ASSUME NEW r \in B
      PROVE  \E p \in H : /\ p.expect_response /\ ~p.reply /\ r = Reply(p) /\ r.id = p.id /\ r.reply
                          /\ \E s \in sent : Belongs(r, s)
                          /\ \A q, w : ~(At(q, w) /\ q.id = r.id /\ q.reply)
  <2>1. PICK p \in H : p.expect_response /\ r = Reply(p)
    BY Zenon DEF Replies
  <2>2. /\ \E s \in sent : Belongs(p, s)
        /\ ~p.reply
        /\ \A q, w : ~(At(q, w) /\ q.id = p.id /\ q.reply)
    BY <2>1, NotReplied, Zenon
  <2>3. PICK s \in sent : Belongs(p, s)
    BY <2>2, Zenon
  <2>4. Belongs(r, s) /\ r.reply /\ r.id = p.id
    BY <2>1, <2>2, <2>3, ReplyIs, Zenon
  <2> QED
    BY <2>1, <2>2, <2>4, Zenon
<1>5. ASSUME NEW p \in H, p.expect_response, ~p.reply PROVE \E r \in B : r.id = p.id /\ r.reply
  <2>1. Reply(p) \in B
    BY <1>5, Zenon DEF Replies
  <2>2. PICK s \in sent : Belongs(p, s)
    BY <1>3, Zenon DEF InOnePlace
  <2> QED
    BY <1>5, <2>1, <2>2, ReplyIs, Zenon
<1> HIDE DEF R, A, B
<1>6. Exchanged(R, A)
  <2> SUFFICES ASSUME NEW p, NEW w
               PROVE  At(p, w)' <=> (At(p, w) /\ <<p, w>> \notin R) \/ <<p, w>> \in A
    BY Zenon DEF Exchanged
  <2>1. At(p, w)' <=> \/ At(p, w) /\ ~(p \in H /\ w = x)
                      \/ p \in H /\ w = "handled"
                      \/ p \in B \ D /\ w = "net"
                      \/ p \in B \cap D /\ w = "dropped"
    BY Zenon DEF Handles, B
  <2>2. <<p, w>> \in R <=> p \in H /\ w = x
    BY <1>1
  <2>3. <<p, w>> \in A <=> \/ p \in H /\ w = "handled"
                           \/ p \in B \ D /\ w = "net"
                           \/ p \in B \cap D /\ w = "dropped"
    BY <1>2, Zenon
  <2> QED
    BY <2>1, <2>2, <2>3, Zenon
<1>7. Leaves(R, A)
  <2>1. \A p, w : <<p, w>> \in R => At(p, w)
    BY <1>1, <1>3
  <2>2. \A p, v : <<p, v>> \in R => <<p, "handled">> \in A /\ SameKey(p, p)
    BY <1>1, <1>2, <1>3, Zenon
  <2> QED
    BY <2>1, <2>2, Zenon DEF Leaves
<1>8. \A p, w : <<p, w>> \in A => p \in H \/ p \in B
  BY <1>2, Zenon
<1>9. \A p \in H, r \in B : ~SameKey(p, r)
  BY <1>3, <1>4, Zenon DEF SameKey
<1>10. \A p, w : <<p, w>> \in A => \E s \in sent' : Belongs(p, s)
  <2>1. \A p \in H : \E s \in sent : Belongs(p, s)
    BY <1>3, Zenon DEF InOnePlace
  <2>2. \A p \in B : \E s \in sent : Belongs(p, s)
    BY <1>4, Zenon
  <2> QED
    BY <1>8, <2>1, <2>2, Zenon
<1>11. \A p, q, v, w : <<p, v>> \in A /\ <<q, w>> \in A /\ SameKey(p, q) => p = q /\ v = w
  <2> SUFFICES ASSUME NEW p, NEW q, NEW v, NEW w, <<p, v>> \in A, <<q, w>> \in A, SameKey(p, q)
               PROVE  p = q /\ v = w
    BY Zenon
  <2>1. CASE p \in H /\ q \in H
    <3>1. p = q
      BY <1>3, <2>1, Zenon DEF InOnePlace
    <3>2. p \notin B
      BY <1>3, <1>9, <2>1, Zenon
    <3> QED
      BY <1>2, <3>1, <3>2
  <2>2. CASE p \in B /\ q \in B
    <3>1. PICK a \in H : ~a.reply /\ p = Reply(a) /\ p.id = a.id /\ a.expect_response
      BY <1>4, <2>2, Zenon
    <3>2. PICK b \in H : ~b.reply /\ q = Reply(b) /\ q.id = b.id /\ b.expect_response
      BY <1>4, <2>2, Zenon
    <3>3. a.reply \in BOOLEAN /\ b.reply \in BOOLEAN
      <4>1. (\E s \in sent : Belongs(a, s)) /\ \E s \in sent : Belongs(b, s)
        BY <1>3, Zenon DEF InOnePlace
      <4> QED
        BY <4>1, Zenon DEF Belongs, Packet
    <3>4. SameKey(a, b)
      BY <3>1, <3>2, <3>3, Zenon DEF SameKey
    <3>5. p = q
      BY <1>3, <3>1, <3>2, <3>4, Zenon DEF InOnePlace
    <3>6. p \notin H
      BY <1>3, <1>9, <2>2, Zenon
    <3> QED
      BY <1>2, <3>5, <3>6
  <2>3. CASE (p \in H /\ q \in B) \/ (p \in B /\ q \in H)
    BY <1>9, <2>3, Zenon DEF SameKey
  <2> QED
    BY <1>8, <2>1, <2>2, <2>3, Zenon
<1>12. \A p, q, v, w : <<p, v>> \in A /\ At(q, w) /\ SameKey(p, q) => <<q, w>> \in R
  <2> SUFFICES ASSUME NEW p, NEW q, NEW v, NEW w, <<p, v>> \in A, At(q, w), SameKey(p, q)
               PROVE  <<q, w>> \in R
    BY Zenon
  <2>1. CASE p \in H
    <3>1. p = q /\ w = x
      BY <1>3, <2>1, Zenon DEF InOnePlace
    <3> QED
      BY <1>1, <2>1, <3>1, Zenon
  <2>2. CASE p \in B
    BY <1>4, <2>2, Zenon DEF SameKey
  <2> QED
    BY <1>8, <2>1, <2>2, Zenon
<1>13. Comes(R, A)
  BY <1>10, <1>11, <1>12, Zenon DEF Comes
<1>14. Replied(R, A)
  <2>1. ASSUME NEW p, NEW v, <<p, v>> \in A
        PROVE  \/ \E q, w : <<q, w>> \in R /\ SameKey(p, q)
               \/ \E q \in handled' : q.id = p.id /\ ~q.reply /\ q.expect_response
    <3>1. CASE p \in H
      BY <1>1, <1>3, <3>1, Zenon
    <3>2. CASE p \in B
      BY <1>4, <3>2, Zenon DEF Handles
    <3> QED
      BY <1>8, <2>1, <3>1, <3>2, Zenon
  <2>2. ASSUME NEW p \in handled' \ handled, ~p.reply, p.expect_response
        PROVE  \E q, w : <<q, w>> \in A /\ q.id = p.id /\ q.reply
    <3>1. p \in H
      BY Zenon DEF Handles
    <3>2. PICK r \in B : r.id = p.id /\ r.reply
      BY <1>5, <2>2, <3>1, Zenon
    <3>3. <<r, "net">> \in A \/ <<r, "dropped">> \in A
      BY <1>2, Zenon
    <3> QED
      BY <3>2, <3>3, Zenon
  <2> QED
    BY <2>1, <2>2, Zenon DEF Replied
<1>15. sent' \subseteq Sends /\ sent \subseteq sent' /\ handled \subseteq handled'
  BY Zenon DEF Handles
<1> QED
  BY <1>6, <1>7, <1>13, <1>14, <1>15, Moved, Zenon

\* A reply is a packet, back to where the packet came from.
LEMMA ReplyType ==
    ASSUME NEW p \in Packet
    PROVE  Reply(p) \in Packet /\ Reply(p).from = p.to /\ Reply(p).to = p.from
  BY Zenon DEF Reply, Packet

\* Asking for a key sends no packet.
LEMMA AskIs ==
    ASSUME TypeOK, NEW n \in Node, NEW p \in Node, NEW others, Ask(n, p, others)
    PROVE  /\ id_request_cooldowns_' \in [Node -> SUBSET Node]
           /\ asked' \in [Node -> [Node -> Nat]]
           /\ tracked' \in [Node -> SUBSET Identity]
           /\ net' \subseteq others \cup Identity
           /\ \A q \in Packet : q \in net' <=> q \in others
<1>1. CASE MayAsk(n, p)
  <2>1. AskNow(n, p, others)
    BY <1>1, Zenon DEF Ask
  <2> QED
    BY <2>1, AskNowIs
<1>2. CASE ~MayAsk(n, p)
  <2>1. net' = others /\ UNCHANGED <<id_request_cooldowns_, asked, tracked>>
    BY <1>2, Zenon DEF Ask, asking
  <2> QED
    BY <2>1, Zenon DEF TypeOK
<1> QED
  BY <1>1, <1>2, Zenon

\* handle_incoming_packet: the packet is handled, or waits for its sender's
\* key.
LEMMA ReceivePacketKeeps == ASSUME IInv, NEW m \in net, ReceivePacket(m) PROVE IInv'
<1>1. TypeOK /\ InOnePlace /\ Bookkeeping
  BY Zenon DEF IInv
<1>2. /\ m \in Packet
      /\ UNCHANGED <<sent, sending, buffered, deciding, installing, plain, lost>>
  BY Zenon DEF ReceivePacket, application
<1>3. m.to \in Node /\ m.from \in Node
  BY <1>2, Zenon DEF Packet
<1>4. At(m, "net") /\ sent \subseteq Sends
  BY <1>1, <1>2, Zenon DEF At, TypeOK
<1>5. CASE m.from \in plain \cup trusted_keys_[m.to]
  <2> DEFINE B == Replies({m})
             D == B \ Sendable(B)
  <2>1. /\ handled' = handled \cup {m} /\ net' = (net \ {m}) \cup Sendable(B) /\ dropped' = dropped \cup D
        /\ UNCHANGED <<trusted_keys_, pending_outgoing_packets_, pending_incoming_packets_,
                       id_request_cooldowns_, asked, tracked>>
    BY <1>5, Zenon DEF ReceivePacket, Handle, keys, asking
  <2>2. \A r \in B : r \in Packet /\ r.from = m.to /\ r.to = m.from
    BY <1>2, ReplyType, Zenon DEF Replies
  <2>3. Sendable(B) = B \ D
    BY Zenon DEF Sendable
  <2>4. \A r \in D : r.to \in plain
    BY <1>5, <2>2, Zenon DEF Sendable, Secured
  <2> HIDE DEF D
  <2>5. TypeOK'
    <3>1. Sendable(B) \subseteq Packet /\ B \cap D \subseteq Packet
      BY <2>2, <2>3, Zenon
    <3>2. D \subseteq Packet
      BY <2>2, Zenon DEF D
    <3> QED
      BY <1>1, <1>2, <2>1, <3>1, <3>2, Zenon DEF TypeOK
  <2>6. Bookkeeping'
    BY <1>1, <1>2, <2>1, <2>4, Zenon DEF Bookkeeping
  <2>7. D \subseteq B
    BY Zenon DEF D
  <2> HIDE DEF B
  <2> DEFINE H == {m}
             x == "net"
  <2>8. Handles(H, x, D)
    <3>1. \A p \in Packet : p \in net' <=> (p \in net /\ ~(p \in H /\ x = "net")) \/ p \in B \ D
      BY <2>1, <2>3, Zenon
    <3>2. \A p : Incoming(p)' <=> Incoming(p) /\ ~(p \in H /\ x = "incoming")
      BY <2>1, SameBuffers, Zenon
    <3>3. B \subseteq Packet /\ x \in {"net", "incoming"} /\ x # "handled"
      BY <2>2, Zenon
    <3>4. /\ UNCHANGED <<pending_outgoing_packets_, sending, buffered, lost>>
          /\ handled' = handled \cup H /\ dropped' = dropped \cup D
      BY <1>2, <2>1, Zenon
    <3>5. \A p \in H : At(p, x)
      BY <1>4, Zenon
    <3>6. B = Replies(H)
      BY Zenon DEF B
    <3> HIDE DEF H, x
    <3>7. \A p, w : At(p, w)' <=> \/ At(p, w) /\ ~(p \in H /\ w = x)
                                  \/ p \in H /\ w = "handled"
                                  \/ p \in B \ D /\ w = "net"
                                  \/ p \in B \cap D /\ w = "dropped"
      <4>1. Answers(H, x, B, D)
        BY <2>7, <3>1, <3>2, <3>3, <3>4, Zenon DEF Answers
      <4> QED
        BY <4>1, AtHandles
    <3> QED
      BY <3>3, <3>4, <3>5, <3>6, <3>7, Zenon DEF Handles
  <2> QED
    BY <1>1, <1>2, <1>4, <2>5, <2>6, <2>8, HandlesKeeps, Zenon DEF IInv
<1>6. CASE m.from \notin plain \cup trusted_keys_[m.to]
  <2>1. /\ pending_incoming_packets_' = [pending_incoming_packets_ EXCEPT ![m.to] = @ \cup {m}]
        /\ Ask(m.to, m.from, net \ {m})
        /\ UNCHANGED <<trusted_keys_, pending_outgoing_packets_, handled, dropped>>
    BY <1>6, Zenon DEF ReceivePacket
  <2>2. /\ id_request_cooldowns_' \in [Node -> SUBSET Node]
        /\ asked' \in [Node -> [Node -> Nat]]
        /\ tracked' \in [Node -> SUBSET Identity]
        /\ net' \subseteq (net \ {m}) \cup Identity
        /\ \A q \in Packet : q \in net' <=> q \in net \ {m}
    BY <1>1, <1>3, <2>1, AskIs, Zenon
  <2>3. /\ pending_incoming_packets_'[m.to] = pending_incoming_packets_[m.to] \cup {m}
        /\ \A k \in Node \ {m.to} : pending_incoming_packets_'[k] = pending_incoming_packets_[k]
    BY <1>1, <1>3, <2>1, Zenon DEF TypeOK
  <2>4. TypeOK'
    <3>1. pending_incoming_packets_' \in [Node -> SUBSET Packet]
      BY <1>1, <1>2, <1>3, <2>1, Zenon DEF TypeOK
    <3> QED
      BY <1>1, <1>2, <2>1, <2>2, <3>1, Zenon DEF TypeOK
  <2>5. Bookkeeping'
    BY <1>1, <1>2, <1>3, <1>6, <2>1, <2>3 DEF Bookkeeping
  <2>6. Moves({m}, "net", "incoming", {}, "incoming")
    <3>1. \A p : Incoming(p)' <=> Incoming(p) \/ p = m
      BY <1>3, <2>3, Zenon DEF Incoming
    <3>2. \A p, w : At(p, w)' <=> (At(p, w) /\ ~(p = m /\ w = "net")) \/ (p = m /\ w = "incoming")
      BY <1>2, <2>1, <2>2, <3>1, SameBuffers DEF At
    <3> QED
      BY <1>4, <3>2, Zenon DEF Moves
  <2> QED
    BY <1>1, <1>2, <1>4, <2>1, <2>4, <2>5, <2>6, MovesKeeps, Zenon DEF IInv
<1> QED
  BY <1>5, <1>6, Zenon

\* add_trusted_peer and handle_pending_incoming_packets: what waited for the
\* key is handled.
LEMMA InstallKeeps ==
    ASSUME IInv, NEW m \in net, m \in Identity, Install(m), tracked' \in [Node -> SUBSET Identity],
           UNCHANGED <<id_request_cooldowns_, asked, application, plain, lost>>
    PROVE  IInv'
<1> DEFINE n == m.to
           H == {p \in pending_incoming_packets_[n] : p.from = m.from}
           B == Replies(H)
<1>1. TypeOK /\ InOnePlace /\ Bookkeeping
  BY Zenon DEF IInv
<1>2. /\ trusted_keys_' = [trusted_keys_ EXCEPT ![n] = @ \cup {m.from}]
      /\ pending_incoming_packets_' = [pending_incoming_packets_ EXCEPT ![n] = @ \ H]
      /\ handled' = handled \cup H
      /\ net' = (net \ {m}) \cup B
      /\ installing' = [installing EXCEPT ![n] = m]
      /\ UNCHANGED <<pending_outgoing_packets_, dropped>>
  BY Zenon DEF Install
<1>3. UNCHANGED <<sent, sending, buffered, deciding>>
  BY Zenon DEF application
<1>4. n \in Node /\ m.from \in Node /\ m \notin Packet
  BY Disjoint, Zenon DEF Identity
<1>5. H \subseteq Packet /\ H \subseteq pending_incoming_packets_[n] /\ \A p \in H : At(p, "incoming")
  BY <1>1, <1>4, Zenon DEF TypeOK, At, Incoming
<1>6. B \subseteq Packet
  BY <1>5, ReplyType, Zenon DEF Replies
<1> HIDE DEF n, H, B
<1>7. /\ pending_incoming_packets_'[n] = pending_incoming_packets_[n] \ H
      /\ \A k \in Node \ {n} : pending_incoming_packets_'[k] = pending_incoming_packets_[k]
  BY <1>1, <1>2, <1>4, Zenon DEF TypeOK
<1>8. TypeOK'
  <2>1. /\ trusted_keys_' \in [Node -> SUBSET Node]
        /\ pending_incoming_packets_' \in [Node -> SUBSET Packet]
        /\ installing' \in [Node -> Identity \cup {None}]
    BY <1>1, <1>2, <1>4 DEF TypeOK
  <2> QED
    BY <1>1, <1>2, <1>3, <1>5, <1>6, <2>1, Zenon DEF TypeOK
<1>9. Bookkeeping'
  <2>1. /\ installing'[n] = m /\ m.from \in trusted_keys_'[n]
        /\ \A k \in Node \ {n} : installing'[k] = installing[k] /\ trusted_keys_'[k] = trusted_keys_[k]
    BY <1>1, <1>2, <1>4, Zenon DEF TypeOK
  <2>2. \A k \in Node : pending_incoming_packets_'[k] \subseteq pending_incoming_packets_[k]
    BY <1>7, Zenon
  <2>3. \A k \in Node : installing'[k] # None => installing'[k] \in Identity /\ installing'[k].from \in trusted_keys_'[k]
    BY <1>1, <2>1, Zenon DEF Bookkeeping
  <2> QED
    BY <1>1, <1>2, <1>3, <2>2, <2>3, Zenon DEF Bookkeeping
<1>10. Handles(H, "incoming", {})
  <2>1. \A p : Incoming(p)' <=> Incoming(p) /\ p \notin H
    <3>1. \A k \in Node : \A p \in pending_incoming_packets_[k] : p.to = k
      BY <1>1, Zenon DEF Bookkeeping
    <3>2. \A k \in Node, p \in H : p \in pending_incoming_packets_[k] => k = n
      BY <1>4, <1>5, <3>1, Zenon
    <3> QED
      BY <1>4, <1>5, <1>7, <3>2, Zenon DEF Incoming
  <2>2. \A p, w : At(p, w)' <=> \/ At(p, w) /\ ~(p \in H /\ w = "incoming")
                                \/ p \in H /\ w = "handled"
                                \/ p \in B \ {} /\ w = "net"
                                \/ p \in B \cap {} /\ w = "dropped"
    <3>1. \A p \in Packet : p \in net' <=> (p \in net /\ ~(p \in H /\ "incoming" = "net")) \/ p \in B \ {}
      BY <1>2, <1>4, Zenon
    <3>2. \A p : Incoming(p)' <=> Incoming(p) /\ ~(p \in H /\ "incoming" = "incoming")
      BY <2>1, Zenon
    <3>3. dropped' = dropped \cup {} /\ {} \subseteq B
      BY <1>2, Zenon
    <3>4. Answers(H, "incoming", B, {})
      BY <1>2, <1>3, <1>6, <3>1, <3>2, <3>3, Zenon DEF Answers
    <3> QED
      BY <3>4, AtHandles
  <2> QED
    BY <1>2, <1>5, <2>2, Zenon DEF Handles, B
<1>11. InOnePlace'
  <2>1. sent \subseteq Sends
    BY <1>1, Zenon DEF TypeOK
  <2> QED
    BY <1>1, <1>3, <1>10, <2>1, HandlesKeeps, Zenon
<1> QED
  BY <1>8, <1>9, <1>11, Zenon DEF IInv

\* The handler of an identity request.
LEMMA ReceiveRequestKeeps == ASSUME IInv, NEW m \in net, ReceiveRequest(m) PROVE IInv'
<1>1. tracked' \in [Node -> SUBSET Identity]
  BY Zenon DEF ReceiveRequest, asking, IInv, TypeOK
<1> QED
  BY <1>1, InstallKeeps, Zenon DEF ReceiveRequest, asking

\* The callback of an identity request: a late response is discarded.
LEMMA ReceiveResponseKeeps == ASSUME IInv, NEW m \in net, ReceiveResponse(m) PROVE IInv'
<1> DEFINE request == Request(m.to, m.from, m.number)
<1>1. TypeOK /\ InOnePlace /\ Bookkeeping
  BY Zenon DEF IInv
<1>2. m \in Identity /\ m \notin Packet /\ UNCHANGED <<id_request_cooldowns_, asked, application, plain, lost>>
  BY Disjoint, Zenon DEF ReceiveResponse
<1>3. CASE request \in tracked[m.to]
  <2>1. tracked' = [tracked EXCEPT ![m.to] = @ \ {request}] /\ Install(m)
    BY <1>3, Zenon DEF ReceiveResponse
  <2>2. tracked' \in [Node -> SUBSET Identity]
    BY <1>1, <2>1, Zenon DEF TypeOK
  <2> QED
    BY <1>2, <2>1, <2>2, InstallKeeps, Zenon
<1>4. CASE request \notin tracked[m.to]
  <2>1. /\ net' = net \ {m}
        /\ UNCHANGED <<trusted_keys_, pending_outgoing_packets_, pending_incoming_packets_, handled, dropped,
                       installing, tracked, sent, sending, buffered, deciding>>
    BY <1>2, <1>4, Zenon DEF ReceiveResponse, keys, application
  <2>2. TypeOK'
    BY <1>1, <1>2, <2>1, Zenon DEF TypeOK
  <2>3. Bookkeeping'
    BY <1>1, <1>2, <2>1, Zenon DEF Bookkeeping
  <2>4. \A p, w : At(p, w)' <=> At(p, w)
    BY <1>2, <2>1, SameBuffers, AtStays, Zenon
  <2> QED
    BY <1>1, <2>1, <2>2, <2>3, <2>4, Unmoved, Zenon DEF IInv
<1> QED
  BY <1>3, <1>4, Zenon

\* handle_pending_outgoing_packets: what waited for the key is sent, unless
\* the key is empty.
LEMMA SendPendingKeeps == ASSUME IInv, NEW n \in Node, SendPending(n) PROVE IInv'
<1> DEFINE m == installing[n]
           H == {p \in pending_outgoing_packets_[n] : p.to = m.from}
           D == H \ Sendable(H)
           response == [kind |-> "response", from |-> n, to |-> m.from, number |-> m.number]
           answer == IF m.kind = "request" THEN {response} ELSE {}
<1>1. TypeOK /\ InOnePlace /\ Bookkeeping
  BY Zenon DEF IInv
<1>2. /\ m # None
      /\ pending_outgoing_packets_' = [pending_outgoing_packets_ EXCEPT ![n] = @ \ H]
      /\ net' = net \cup Sendable(H) \cup answer
      /\ dropped' = dropped \cup D
      /\ installing' = [installing EXCEPT ![n] = None]
  BY Zenon DEF SendPending
<1>3. UNCHANGED <<trusted_keys_, pending_incoming_packets_, id_request_cooldowns_, asked, tracked,
                  sent, sending, buffered, deciding, handled, plain, lost>>
  BY Zenon DEF SendPending, asking, application
<1>4. m \in Identity /\ m.from \in trusted_keys_[n]
  BY <1>1, <1>2, Zenon DEF Bookkeeping
<1>5. answer \subseteq Identity /\ answer \cap Packet = {}
  <2>1. response \in Identity
    BY <1>4, Zenon DEF Identity
  <2> QED
    BY <2>1, Disjoint, Zenon
<1>6. H \subseteq Packet /\ H \subseteq pending_outgoing_packets_[n] /\ \A p \in H : At(p, "outgoing")
  BY <1>1, Zenon DEF TypeOK, At, Outgoing
<1>7. \A p \in D : p.to \in plain
  BY <1>1, <1>4, Zenon DEF Sendable, Secured, Bookkeeping
<1>8. Sendable(H) = H \ D /\ D \subseteq H
  BY Zenon DEF Sendable
<1> HIDE DEF m, H, D, answer
<1>9. /\ pending_outgoing_packets_'[n] = pending_outgoing_packets_[n] \ H
      /\ \A k \in Node \ {n} : pending_outgoing_packets_'[k] = pending_outgoing_packets_[k]
  BY <1>1, <1>2, Zenon DEF TypeOK
<1>10. TypeOK'
  <2>1. /\ pending_outgoing_packets_' \in [Node -> SUBSET Packet]
        /\ installing' \in [Node -> Identity \cup {None}]
    BY <1>1, <1>2, Zenon DEF TypeOK
  <2> QED
    BY <1>1, <1>2, <1>3, <1>5, <1>6, <1>8, <2>1, Zenon DEF TypeOK
<1>11. Bookkeeping'
  <2>1. installing'[n] = None /\ \A k \in Node \ {n} : installing'[k] = installing[k]
    BY <1>1, <1>2, Zenon DEF TypeOK
  <2>2. \A k \in Node : pending_outgoing_packets_'[k] \subseteq pending_outgoing_packets_[k]
    BY <1>9, Zenon
  <2>3. \A k \in Node : installing'[k] # None => installing'[k] \in Identity /\ installing'[k].from \in trusted_keys_'[k]
    BY <1>1, <1>3, <2>1, Zenon DEF Bookkeeping
  <2> QED
    BY <1>1, <1>2, <1>3, <1>7, <2>2, <2>3, Zenon DEF Bookkeeping
<1>12. Moves(H, "outgoing", "net", D, "dropped")
  <2>1. \A p : Outgoing(p)' <=> Outgoing(p) /\ p \notin H
    <3>1. \A k \in Node : \A p \in pending_outgoing_packets_[k] : p.from = k
      BY <1>1, Zenon DEF Bookkeeping
    <3>2. \A k \in Node, p \in H : p \in pending_outgoing_packets_[k] => k = n
      BY <1>6, <3>1, Zenon
    <3> QED
      BY <1>6, <1>9, <3>2, Zenon DEF Outgoing
  <2>2. \A p \in Packet : p \in net' <=> p \in net \/ p \in H \ D
    BY <1>2, <1>5, <1>8, Zenon
  <2>3. \A p, w : At(p, w)' <=> \/ At(p, w) /\ ~(p \in H /\ w = "outgoing")
                                \/ p \in H \ D /\ w = "net"
                                \/ p \in H \cap D /\ w = "dropped"
    BY <1>2, <1>3, <1>6, <1>8, <2>1, <2>2, SameBuffers DEF At
  <2> QED
    BY <1>6, <2>3, Zenon DEF Moves
<1>13. InOnePlace'
  <2>1. sent \subseteq Sends
    BY <1>1, Zenon DEF TypeOK
  <2> QED
    BY <1>1, <1>3, <1>12, <2>1, MovesKeeps, Zenon
<1> QED
  BY <1>10, <1>11, <1>13, Zenon DEF IInv

\* A cool-down ends; an identity request times out.
LEMMA TimeKeeps ==
    ASSUME IInv, NEW n \in Node, (\E p \in Node : CooldownEnds(n, p)) \/ \E r \in tracked[n] : RequestTimesOut(n, r)
    PROVE  IInv'
<1>1. TypeOK /\ InOnePlace /\ Bookkeeping
  BY Zenon DEF IInv
<1>2. /\ UNCHANGED <<trusted_keys_, pending_outgoing_packets_, pending_incoming_packets_, asked,
                     sent, sending, buffered, deciding, installing, net, handled, plain, dropped>>
      /\ id_request_cooldowns_' \in [Node -> SUBSET Node] /\ tracked' \in [Node -> SUBSET Identity]
      /\ lost \subseteq lost' /\ lost' \subseteq lost \cup Identity
  <2>1. CASE \E p \in Node : CooldownEnds(n, p)
    BY <1>1, <2>1 DEF CooldownEnds, keys, application, history, TypeOK
  <2>2. CASE \E r \in tracked[n] : RequestTimesOut(n, r)
    BY <1>1, <2>2 DEF RequestTimesOut, keys, application, TypeOK
  <2> QED
    BY <2>1, <2>2, Zenon
<1>3. TypeOK'
  BY <1>1, <1>2, Zenon DEF TypeOK
<1>4. Bookkeeping'
  BY <1>1, <1>2, Zenon DEF Bookkeeping
<1>5. \A p \in Packet : p \in lost' <=> p \in lost
  BY <1>2, Disjoint, Zenon
<1>6. \A p, w : At(p, w)' <=> At(p, w)
  BY <1>2, <1>5, SameBuffers, AtStays, Zenon
<1> QED
  BY <1>1, <1>2, <1>3, <1>4, <1>6, Unmoved, Zenon DEF IInv

\* A packet or an identity message is lost.
LEMMA LoseKeeps == ASSUME IInv, NEW m \in net, Lose(m) PROVE IInv'
<1>1. TypeOK /\ InOnePlace /\ Bookkeeping
  BY Zenon DEF IInv
<1>2. /\ net' = net \ {m} /\ lost' = lost \cup {m}
      /\ UNCHANGED <<trusted_keys_, pending_outgoing_packets_, pending_incoming_packets_, id_request_cooldowns_,
                     asked, tracked, sent, sending, buffered, deciding, installing, handled, plain, dropped>>
  BY Zenon DEF Lose, keys, asking, application
<1>3. TypeOK'
  BY <1>1, <1>2, Zenon DEF TypeOK
<1>4. Bookkeeping'
  BY <1>1, <1>2, Zenon DEF Bookkeeping
<1>5. InOnePlace'
  <2>1. CASE m \in Packet
    <3>1. At(m, "net") /\ sent \subseteq Sends
      BY <1>1, <2>1, Zenon DEF At, TypeOK
    <3>2. \A p, w : At(p, w)' <=> (At(p, w) /\ ~(p = m /\ w = "net")) \/ (p = m /\ w = "lost")
      BY <1>2, <2>1, SameBuffers DEF At
    <3>3. Moves({m}, "net", "lost", {}, "lost")
      BY <3>1, <3>2, Zenon DEF Moves
    <3> QED
      BY <1>1, <1>2, <3>1, <3>3, MovesKeeps, Zenon
  <2>2. CASE m \notin Packet
    <3>1. \A p, w : At(p, w)' <=> At(p, w)
      BY <1>2, <2>2, SameBuffers, AtStays, Zenon
    <3> QED
      BY <1>1, <1>2, <3>1, Unmoved, Zenon
  <2> QED
    BY <2>1, <2>2, Zenon
<1> QED
  BY <1>3, <1>4, <1>5, Zenon DEF IInv

\* Every step keeps the invariant.
LEMMA NextIInv == ASSUME IInv, [Next]_vars PROVE IInv'
<1>1. ASSUME NEW s \in Sends, SendMessage(s) PROVE IInv'
  BY <1>1, SendMessageKeeps, Zenon
<1>2. ASSUME NEW n \in Node, BufferOutgoing(n) PROVE IInv'
  BY <1>2, BufferOutgoingKeeps, Zenon
<1>3. ASSUME NEW n \in Node, DecideToAsk(n) PROVE IInv'
  BY <1>3, DecideToAskKeeps, Zenon
<1>4. ASSUME NEW n \in Node, AskForKey(n) PROVE IInv'
  BY <1>4, AskForKeyKeeps, Zenon
<1>5. ASSUME NEW n \in Node, SendPending(n) PROVE IInv'
  BY <1>5, SendPendingKeeps, Zenon
<1>6. ASSUME NEW m \in net, ReceivePacket(m) PROVE IInv'
  BY <1>6, ReceivePacketKeeps, Zenon
<1>7. ASSUME NEW m \in net, ReceiveRequest(m) PROVE IInv'
  BY <1>7, ReceiveRequestKeeps, Zenon
<1>8. ASSUME NEW m \in net, ReceiveResponse(m) PROVE IInv'
  BY <1>8, ReceiveResponseKeeps, Zenon
<1>9. ASSUME NEW n \in Node, (\E p \in Node : CooldownEnds(n, p)) \/ \E r \in tracked[n] : RequestTimesOut(n, r)
      PROVE  IInv'
  BY <1>9, TimeKeeps, Zenon
<1>10. ASSUME NEW m \in net, Lose(m) PROVE IInv'
  BY <1>10, LoseKeeps, Zenon
<1>11. CASE UNCHANGED vars
  <2>1. UNCHANGED <<trusted_keys_, pending_outgoing_packets_, pending_incoming_packets_, id_request_cooldowns_,
                    asked, tracked, sent, sending, buffered, deciding, installing, net, handled, plain, dropped, lost>>
    BY <1>11, Zenon DEF vars, keys, asking, application, history
  <2>2. \A p, w : At(p, w)' <=> At(p, w)
    BY <2>1, SameBuffers, AtStays, Zenon
  <2>3. InOnePlace'
    BY <2>1, <2>2, Unmoved, Zenon DEF IInv
  <2>4. TypeOK'
    BY <2>1, Zenon DEF IInv, TypeOK
  <2>5. Bookkeeping'
    BY <2>1, Zenon DEF IInv, Bookkeeping
  <2> QED
    BY <2>3, <2>4, <2>5, Zenon DEF IInv
<1> QED
  BY <1>1, <1>2, <1>3, <1>4, <1>5, <1>6, <1>7, <1>8, <1>9, <1>10, <1>11, Zenon DEF Next, Threads

\* The invariant says that each packet is in one place.
LEMMA IInvOnce == IInv => EachPacketOnce
<1> SUFFICES ASSUME IInv PROVE EachPacketOnce
  BY Zenon
<1>1. TypeOK /\ InOnePlace /\ Bookkeeping
  BY Zenon DEF IInv
<1>2. \A p, w : <<p, w>> \in Whereabouts <=> At(p, w)
  BY DEF Whereabouts, At, Outgoing, Incoming, WithThread
<1>3. \A x \in Whereabouts : x = <<x[1], x[2]>>
  BY DEF Whereabouts
<1> HIDE DEF Whereabouts
<1>4. \A x, y \in Whereabouts : SameKey(x[1], y[1]) => x = y
  <2> SUFFICES ASSUME NEW x \in Whereabouts, NEW y \in Whereabouts, SameKey(x[1], y[1]) PROVE x = y
    BY Zenon
  <2>1. At(x[1], x[2]) /\ At(y[1], y[2])
    BY <1>2, <1>3, Zenon
  <2>2. x[1] = y[1] /\ x[2] = y[2]
    BY <1>1, <2>1, Zenon DEF InOnePlace
  <2> QED
    BY <1>3, <2>2, Zenon
<1>5. ASSUME NEW id, NEW reply, NEW p, NEW w, At(p, w), p.id = id, p.reply = reply
      PROVE  Cardinality(Places(id, reply)) = 1
  <2>1. <<p, w>> \in Places(id, reply)
    BY <1>2, <1>5, Zenon DEF Places
  <2>2. \A x \in Places(id, reply) : x = <<p, w>>
    BY <1>2, <1>4, <1>5, Zenon DEF Places, SameKey
  <2>3. Places(id, reply) = {<<p, w>>}
    BY <2>1, <2>2, Zenon
  <2> QED
    BY <2>3, FS_Singleton, Zenon
<1>6. ASSUME NEW p, NEW w, At(p, w) PROVE p.reply \in BOOLEAN
  <2>1. PICK s \in sent : Belongs(p, s)
    BY <1>1, <1>6, Zenon DEF InOnePlace
  <2> QED
    BY <2>1, Zenon DEF Belongs, Packet
<1>7. ASSUME NEW s \in sent PROVE Cardinality(Places(s.id, FALSE)) = 1
  <2>1. PICK p, w : At(p, w) /\ p.id = s.id /\ ~p.reply
    BY <1>1, Zenon DEF InOnePlace
  <2>2. p.reply = FALSE
    BY <1>6, <2>1, Zenon
  <2> QED
    BY <1>5, <2>1, <2>2, Zenon
<1>8. ASSUME NEW s \in sent
      PROVE  Cardinality(Places(s.id, TRUE)) =
                IF s.expect_response /\ \E p \in handled : p.id = s.id /\ ~p.reply THEN 1 ELSE 0
  <2>1. CASE s.expect_response /\ \E p \in handled : p.id = s.id /\ ~p.reply
    <3>1. PICK p, w : At(p, w) /\ p.id = s.id /\ p.reply
      BY <1>1, <2>1, Zenon DEF InOnePlace
    <3>2. p.reply = TRUE
      BY <1>6, <3>1, Zenon
    <3> QED
      BY <1>5, <2>1, <3>1, <3>2, Zenon
  <2>2. CASE ~(s.expect_response /\ \E p \in handled : p.id = s.id /\ ~p.reply)
    <3>1. \A p, w : ~(At(p, w) /\ p.id = s.id /\ p.reply)
      BY <1>1, <2>2, Zenon DEF InOnePlace
    <3>2. Places(s.id, TRUE) = {}
      <4> SUFFICES ASSUME NEW x \in Places(s.id, TRUE) PROVE FALSE
        BY Zenon
      <4>1. x \in Whereabouts /\ x[1].id = s.id /\ x[1].reply = TRUE
        BY Zenon DEF Places
      <4>2. At(x[1], x[2])
        BY <1>2, <1>3, <4>1, Zenon
      <4> QED
        BY <3>1, <4>1, <4>2, Zenon
    <3> QED
      BY <2>2, <3>2, FS_EmptySet, Zenon
  <2> QED
    BY <2>1, <2>2, Zenon
<1> QED
  BY <1>1, <1>7, <1>8, Zenon DEF EachPacketOnce, Bookkeeping

\* However MeshNode's packets move between its threads, the IdentityManager's
\* buffers and the network, each is in one place, and so is its reply once
\* it was handled.
THEOREM PacketsAreInOnePlace == Spec => []EachPacketOnce
<1>1. Spec => []IInv
  BY InitIInv, NextIInv, PTL DEF Spec
<1> QED
  BY <1>1, IInvOnce, PTL

-----------------------------------------------------------------------------
(* A packet waits only while the exchange that will release it goes on:    *)
(* the part of ArrivedIsHandled and BufferedIsSent that is an invariant.   *)

Response(n, p, k) == [kind |-> "response", from |-> p, to |-> n, number |-> k]

\* n has asked p for its key and waits for the answer, which has not been
\* sent, is being sent, or is under way.
UnderWay(n, p) ==
    \E k \in Nat : /\ Request(n, p, k) \in tracked[n]
                   /\ \/ Request(n, p, k) \in net
                      \/ installing[p] = Request(n, p, k)
                      \/ Response(n, p, k) \in net

\* What has been asked is answered, unless something is lost or late.
Asked ==
    /\ \A n \in Node : \A p \in id_request_cooldowns_[n] : asked[n][p] > 0
    /\ \A n, p \in Node : lost = {} /\ asked[n][p] > 0 => p \in trusted_keys_[n] \/ UnderWay(n, p)

\* What waits has made its node ask, or the application thread is about to.
IncomingAsked ==
    \A n \in Node : \A p \in pending_incoming_packets_[n] : p.from \notin trusted_keys_[n] /\ asked[n][p.from] > 0

OutgoingAsked ==
    \A n \in Node : \A p \in pending_outgoing_packets_[n] :
        asked[n][p.to] > 0 \/ (n \in buffered /\ sending[n].to = p.to)

\* A step that begins exchanges, or continues them, and forgets no key.
Continues ==
    /\ \A n \in Node : trusted_keys_[n] \subseteq trusted_keys_'[n]
    /\ lost \subseteq lost'
    /\ \A n \in Node : \A p \in id_request_cooldowns_'[n] : p \in id_request_cooldowns_[n] \/ asked'[n][p] > 0
    /\ \A n, p \in Node : asked[n][p] > 0 => asked'[n][p] > 0
    /\ \A n, p \in Node : asked'[n][p] > 0 => asked[n][p] > 0 \/ UnderWay(n, p)'
    /\ \A n, p \in Node : UnderWay(n, p) => p \in trusted_keys_'[n] \/ UnderWay(n, p)'

\* Such a step leaves no question unanswered.
LEMMA ContinuesKeeps == ASSUME TypeOK, Asked, Continues PROVE Asked'
<1>1. \A n \in Node : id_request_cooldowns_[n] \subseteq Node
  BY Zenon DEF TypeOK
<1>2. ASSUME NEW n \in Node, NEW p \in id_request_cooldowns_'[n] PROVE asked'[n][p] > 0
  BY <1>1, <1>2, Zenon DEF Asked, Continues
<1>3. ASSUME NEW n \in Node, NEW p \in Node, lost' = {}, asked'[n][p] > 0
      PROVE  p \in trusted_keys_'[n] \/ UnderWay(n, p)'
  <2>1. lost = {}
    BY <1>3, Zenon DEF Continues
  <2>2. asked[n][p] > 0 \/ UnderWay(n, p)'
    BY <1>3, Zenon DEF Continues
  <2> QED BY <2>1, <2>2, Zenon DEF Asked, Continues
<1> QED BY <1>2, <1>3, Zenon DEF Asked

\* A step that leaves the asking alone and takes no identity message from the
\* network, or from the routing thread, only continues.
LEMMA IdleContinues ==
    ASSUME UNCHANGED <<asking, trusted_keys_, installing, lost>>,
           \A m \in Identity : m \in net => m \in net', TypeOK
    PROVE  Continues
<1>1. ASSUME NEW n \in Node, NEW p \in Node, NEW k \in Nat
      PROVE  Request(n, p, k) \in Identity /\ Response(n, p, k) \in Identity
  BY Zenon DEF Request, Response, Identity
<1>2. \A n, p \in Node : UnderWay(n, p) => UnderWay(n, p)'
  BY <1>1, Zenon DEF UnderWay, asking
<1> QED BY <1>2, Zenon DEF Continues, asking

\* send_identity_request begins an exchange.
LEMMA AskNowContinues ==
    ASSUME TypeOK, NEW a \in Node, NEW b \in Node, NEW others, AskNow(a, b, others),
           \A m \in Identity : m \in net => m \in others, UNCHANGED <<trusted_keys_, installing, lost>>
    PROVE  Continues /\ asked'[a][b] > 0
<1> DEFINE c == asked[a][b] + 1
           r == Request(a, b, c)
<1>1. /\ id_request_cooldowns_' = [id_request_cooldowns_ EXCEPT ![a] = @ \cup {b}]
      /\ asked' = [asked EXCEPT ![a][b] = c]
      /\ tracked' = [tracked EXCEPT ![a] = @ \cup {r}]
      /\ net' = others \cup {r}
  BY Zenon DEF AskNow
<1>2. c \in Nat /\ c > 0
  BY DEF TypeOK
<1>3. ASSUME NEW n \in Node, NEW p \in Node, NEW k \in Nat
      PROVE  Request(n, p, k) \in Identity /\ Response(n, p, k) \in Identity
  BY Zenon DEF Request, Response, Identity
<1> HIDE DEF c
<1>4. /\ asked'[a][b] = c
      /\ \A n, p \in Node : <<n, p>> # <<a, b>> => asked'[n][p] = asked[n][p]
  <2>1. asked \in [Node -> [Node -> Nat]]
    BY Zenon DEF TypeOK
  <2> QED BY <1>1, <2>1
<1>5. \A n \in Node : tracked[n] \subseteq tracked'[n] /\ r \in tracked'[a]
  BY <1>1, Zenon DEF TypeOK
<1> HIDE DEF r
<1>6. \A n, p \in Node : UnderWay(n, p) => UnderWay(n, p)'
  <2> SUFFICES ASSUME NEW n \in Node, NEW p \in Node, UnderWay(n, p) PROVE UnderWay(n, p)'
    BY Zenon
  <2>1. PICK k \in Nat : /\ Request(n, p, k) \in tracked[n]
                         /\ \/ Request(n, p, k) \in net
                            \/ installing[p] = Request(n, p, k)
                            \/ Response(n, p, k) \in net
    BY Zenon DEF UnderWay
  <2>2. Request(n, p, k) \in tracked'[n]
    BY <1>5, <2>1, Zenon
  <2>3. \/ Request(n, p, k) \in net'
        \/ installing'[p] = Request(n, p, k)
        \/ Response(n, p, k) \in net'
    BY <1>1, <1>3, <2>1, Zenon
  <2> QED BY <2>2, <2>3, Zenon DEF UnderWay
<1>7. UnderWay(a, b)'
  <2>1. Request(a, b, c) \in tracked'[a] /\ Request(a, b, c) \in net'
    BY <1>1, <1>5, Zenon DEF r
  <2> QED BY <1>2, <2>1, Zenon DEF UnderWay
<1>8. \A n \in Node : \A p \in id_request_cooldowns_'[n] : p \in id_request_cooldowns_[n] \/ (n = a /\ p = b)
  BY <1>1, Zenon DEF TypeOK
<1>9. /\ \A n, p \in Node : asked[n][p] > 0 => asked'[n][p] > 0
      /\ \A n, p \in Node : asked'[n][p] > 0 => asked[n][p] > 0 \/ UnderWay(n, p)'
  BY <1>2, <1>4, <1>7, Zenon
<1> QED BY <1>2, <1>4, <1>6, <1>8, <1>9, Zenon DEF Continues

\* should_send_identity_request, then send_identity_request: afterwards the
\* peer has been asked.
LEMMA AskContinues ==
    ASSUME TypeOK, Asked, NEW a \in Node, NEW b \in Node, NEW others, Ask(a, b, others),
           \A m \in Identity : m \in net => m \in others, UNCHANGED <<trusted_keys_, installing, lost>>
    PROVE  Continues /\ asked'[a][b] > 0
<1>1. CASE MayAsk(a, b)
  <2>1. AskNow(a, b, others)
    BY <1>1, Zenon DEF Ask
  <2> QED BY <2>1, AskNowContinues, Zenon
<1>2. CASE ~MayAsk(a, b)
  <2>1. net' = others /\ UNCHANGED asking
    BY <1>2, Zenon DEF Ask
  <2>2. Continues
    BY <2>1, IdleContinues, Zenon
  <2>3. asked[a][b] > 0
    BY <1>2, Zenon DEF MayAsk, Asked
  <2> QED BY <2>1, <2>2, <2>3, Zenon DEF asking
<1> QED BY <1>1, <1>2, Zenon

\* A message of an exchange is one of its two kinds, and says which exchange
\* it belongs to.
LEMMA MessageIs ==
    ASSUME NEW n \in Node, NEW p \in Node, NEW k \in Nat
    PROVE  /\ Request(n, p, k) \in Identity /\ Response(n, p, k) \in Identity
           /\ Request(n, p, k) # None /\ Request(n, p, k).kind = "request" /\ Response(n, p, k).kind = "response"
           /\ Request(n, p, k).from = n /\ Request(n, p, k).to = p /\ Request(n, p, k).number = k
           /\ Response(n, p, k).from = p /\ Response(n, p, k).to = n /\ Response(n, p, k).number = k
<1>1. Request(n, p, k) \in Identity /\ Response(n, p, k) \in Identity
  BY Zenon DEF Request, Response, Identity
<1>2. Request(n, p, k) # None
  BY <1>1, IdentityAssumption, Zenon
<1> QED BY <1>1, <1>2, Zenon DEF Request, Response

\* add_trusted_peer leaves the other exchanges where they are; the request
\* that brought the key is now with the routing thread.
LEMMA InstallContinues ==
    ASSUME TypeOK, NEW m \in Identity, Arrives(m), Install(m), UNCHANGED <<id_request_cooldowns_, asked, lost>>,
           \/ m.kind = "request" /\ UNCHANGED tracked
           \/ m.kind = "response" /\ tracked' = [tracked EXCEPT ![m.to] = @ \ {Request(m.to, m.from, m.number)}]
    PROVE  Continues
<1>1. m.to \in Node /\ m.from \in Node /\ m.number \in Nat /\ installing[m.to] = None
  BY Zenon DEF Identity, Arrives
<1>2. /\ trusted_keys_' = [trusted_keys_ EXCEPT ![m.to] = @ \cup {m.from}]
      /\ installing' = [installing EXCEPT ![m.to] = m]
      /\ \A x : x \in net /\ x # m => x \in net'
  BY Zenon DEF Install
<1>3. ASSUME NEW n \in Node, NEW p \in Node, UnderWay(n, p), p \notin trusted_keys_'[n] PROVE UnderWay(n, p)'
  <2>1. PICK k \in Nat : /\ Request(n, p, k) \in tracked[n]
                         /\ \/ Request(n, p, k) \in net
                            \/ installing[p] = Request(n, p, k)
                            \/ Response(n, p, k) \in net
    BY <1>3, Zenon DEF UnderWay
  <2>2. ~(n = m.to /\ p = m.from)
    BY <1>1, <1>2, <1>3, Zenon DEF TypeOK
  <2> DEFINE q == Request(n, p, k)
             z == Response(n, p, k)
             u == Request(m.to, m.from, m.number)
  <2>a. q # None /\ q.kind = "request" /\ q.from = n /\ q.to = p /\ z.from = p /\ z.to = n
    BY MessageIs
  <2>b. u.from = m.to /\ u.to = m.from
    BY Zenon DEF Request
  <2>c. tracked \in [Node -> SUBSET Identity] /\ installing \in [Node -> Identity \cup {None}]
    BY Zenon DEF TypeOK
  <2> HIDE DEF q, z, u
  <2>3. z # m
    BY <2>2, <2>a
  <2>4. q \in tracked'[n]
    <3>1. q # u
      BY <2>2, <2>a, <2>b
    <3>2. q \in tracked[n]
      BY <2>1, Zenon DEF q
    <3>3. tracked' = tracked \/ tracked' = [tracked EXCEPT ![m.to] = @ \ {u}]
      BY Zenon DEF u
    <3> QED BY <1>1, <2>c, <3>1, <3>2, <3>3
  <2>5. q = m => installing'[p] = q
    BY <1>1, <1>2, <2>a, <2>c
  <2>6. installing[p] = q => installing'[p] = q
    <3>1. ASSUME installing[p] = q PROVE p # m.to
      BY <1>1, <2>a, <3>1
    <3> QED BY <1>1, <1>2, <2>c, <3>1
  <2> USE DEF q, z
  <2>7. \/ Request(n, p, k) \in net'
        \/ installing'[p] = Request(n, p, k)
        \/ Response(n, p, k) \in net'
    BY <1>2, <2>1, <2>3, <2>5, <2>6, Zenon
  <2> QED BY <2>4, <2>7, Zenon DEF UnderWay
<1>4. \A n \in Node : trusted_keys_[n] \subseteq trusted_keys_'[n]
  BY <1>1, <1>2, Zenon DEF TypeOK
<1> QED BY <1>3, <1>4, Zenon DEF Continues

\* handle_pending_outgoing_packets, and the response to a request: the
\* exchange goes on with the response.
LEMMA SendPendingContinues == ASSUME TypeOK, NEW a \in Node, SendPending(a) PROVE Continues
<1>1. /\ installing' = [installing EXCEPT ![a] = None]
      /\ UNCHANGED <<trusted_keys_, asking, lost>>
      /\ \A x \in net : x \in net'
      /\ installing[a].kind = "request" => Response(installing[a].from, a, installing[a].number) \in net'
  BY Zenon DEF SendPending, Response
<1>2. ASSUME NEW n \in Node, NEW p \in Node, UnderWay(n, p) PROVE UnderWay(n, p)'
  <2>1. PICK k \in Nat : /\ Request(n, p, k) \in tracked[n]
                         /\ \/ Request(n, p, k) \in net
                            \/ installing[p] = Request(n, p, k)
                            \/ Response(n, p, k) \in net
    BY <1>2, Zenon DEF UnderWay
  <2>2. p = a /\ installing[p] = Request(n, p, k) => Response(n, p, k) \in net'
    <3> SUFFICES ASSUME p = a, installing[p] = Request(n, p, k) PROVE Response(n, p, k) \in net'
      BY Zenon
    <3>1. installing[a].kind = "request" /\ installing[a].from = n /\ installing[a].number = k
      BY DEF Request
    <3>2. Response(installing[a].from, a, installing[a].number) = Response(n, p, k)
      BY <3>1, Zenon
    <3> QED BY <1>1, <3>1, <3>2
  <2>3. p # a => installing'[p] = installing[p]
    BY <1>1, Zenon DEF TypeOK
  <2>4. Request(n, p, k) \in tracked'[n]
    BY <1>1, <2>1, Zenon DEF asking
  <2>5. \/ Request(n, p, k) \in net'
        \/ installing'[p] = Request(n, p, k)
        \/ Response(n, p, k) \in net'
    BY <1>1, <2>1, <2>2, <2>3, Zenon
  <2> QED BY <2>4, <2>5, Zenon DEF UnderWay
<1> QED BY <1>1, <1>2, Zenon DEF Continues, asking

\* A step that buffers an incoming packet only with its sender asked, and
\* adds no key without taking the sender's packets.
LEMMA IncomingKeeps ==
    ASSUME TypeOK, IncomingAsked, \A n, p \in Node : asked[n][p] > 0 => asked'[n][p] > 0,
           \A n \in Node : \A p \in pending_incoming_packets_'[n] :
               \/ p \in pending_incoming_packets_[n] /\ (p.from \in trusted_keys_'[n] => p.from \in trusted_keys_[n])
               \/ p.from \notin trusted_keys_'[n] /\ asked'[n][p.from] > 0
    PROVE  IncomingAsked'
<1>0. \A n \in Node : pending_incoming_packets_[n] \subseteq Packet
  BY Zenon DEF TypeOK
<1>1. \A n \in Node : \A p \in pending_incoming_packets_[n] : p.from \in Node
  BY <1>0 DEF Packet
<1> QED BY <1>1, Zenon DEF IncomingAsked

\* A step that buffers an outgoing packet only in the application thread,
\* which goes on until the receiver was asked.
LEMMA OutgoingKeeps ==
    ASSUME TypeOK, OutgoingAsked, \A n, p \in Node : asked[n][p] > 0 => asked'[n][p] > 0,
           \A n \in Node : \A p \in pending_outgoing_packets_'[n] :
               \/ p \in pending_outgoing_packets_[n]
               \/ n \in buffered' /\ sending'[n].to = p.to,
           \A n \in buffered : \/ n \in buffered' /\ sending'[n] = sending[n]
                               \/ asked'[n][sending[n].to] > 0
    PROVE  OutgoingAsked'
<1>0. \A n \in Node : pending_outgoing_packets_[n] \subseteq Packet
  BY Zenon DEF TypeOK
<1>1. \A n \in Node : \A p \in pending_outgoing_packets_[n] : p.to \in Node
  BY <1>0 DEF Packet
<1> SUFFICES ASSUME NEW n \in Node, NEW p \in pending_outgoing_packets_'[n]
             PROVE  asked'[n][p.to] > 0 \/ (n \in buffered' /\ sending'[n].to = p.to)
  BY Zenon DEF OutgoingAsked
<1>2. CASE p \in pending_outgoing_packets_[n]
  <2>1. CASE asked[n][p.to] > 0
    BY <1>1, <1>2, <2>1, Zenon
  <2>2. CASE n \in buffered /\ sending[n].to = p.to
    BY <2>2
  <2> QED BY <1>2, <2>1, <2>2, Zenon DEF OutgoingAsked
<1> QED BY <1>2, Zenon

\* A step that changes no buffer, key or question, and no application thread
\* that has buffered its packet.
LEMMA WaitingStays ==
    ASSUME TypeOK, IncomingAsked, OutgoingAsked, UNCHANGED <<pending_incoming_packets_, trusted_keys_, asked>>,
           \A n \in Node : pending_outgoing_packets_'[n] \subseteq pending_outgoing_packets_[n],
           \A n \in buffered : n \in buffered' /\ sending'[n] = sending[n]
    PROVE  IncomingAsked' /\ OutgoingAsked'
<1>1. IncomingAsked'
  BY Zenon DEF IncomingAsked
<1> QED BY <1>1, OutgoingKeeps, Zenon

\* The application thread.
LEMMA ApplicationWaits ==
    ASSUME IInv, Asked, IncomingAsked, OutgoingAsked,
           \/ \E s \in Sends : SendMessage(s)
           \/ \E n \in Node : BufferOutgoing(n) \/ DecideToAsk(n) \/ AskForKey(n)
    PROVE  Asked' /\ IncomingAsked' /\ OutgoingAsked'
<1>0. TypeOK
  BY Zenon DEF IInv
<1>1. ASSUME NEW s \in Sends, SendMessage(s) PROVE Asked' /\ IncomingAsked' /\ OutgoingAsked'
  <2>1. /\ UNCHANGED <<keys, asking, buffered, installing, lost>>
        /\ \A m \in Identity : m \in net => m \in net'
        /\ sending[s.from] = None /\ (sending' = sending \/ sending' = [sending EXCEPT ![s.from] = s])
    BY <1>1, Zenon DEF SendMessage
  <2>2. Asked'
    BY <1>0, <2>1, IdleContinues, ContinuesKeeps, Zenon DEF keys
  <2>3. \A n \in buffered : n \in Node /\ n # s.from
    BY <1>0, <2>1, Zenon DEF TypeOK
  <2>4. \A n \in buffered : n \in buffered' /\ sending'[n] = sending[n]
    BY <1>0, <2>1, <2>3, Zenon DEF TypeOK
  <2> QED BY <1>0, <2>1, <2>2, <2>4, WaitingStays, Zenon DEF keys, asking
<1>2. ASSUME NEW n \in Node, BufferOutgoing(n) PROVE Asked' /\ IncomingAsked' /\ OutgoingAsked'
  <2>1. /\ UNCHANGED <<trusted_keys_, pending_incoming_packets_, asking, sending, installing, net, lost>>
        /\ buffered' = buffered \cup {n}
        /\ pending_outgoing_packets_' = [pending_outgoing_packets_ EXCEPT ![n] = @ \cup {Made(sending[n], "empty")}]
    BY <1>2, Zenon DEF BufferOutgoing, history
  <2>2. Asked'
    BY <1>0, <2>1, IdleContinues, ContinuesKeeps, Zenon
  <2>3. IncomingAsked'
    BY <2>1, Zenon DEF IncomingAsked, asking
  <2>4. Made(sending[n], "empty").to = sending[n].to
    BY Zenon DEF Made
  <2>5. \A x \in Node : \A p \in pending_outgoing_packets_'[x] :
            p \in pending_outgoing_packets_[x] \/ (x = n /\ p = Made(sending[n], "empty"))
    BY <1>0, <2>1, Zenon DEF TypeOK
  <2>6. \A x \in Node : \A p \in pending_outgoing_packets_'[x] :
            p \in pending_outgoing_packets_[x] \/ (x \in buffered' /\ sending'[x].to = p.to)
    BY <2>1, <2>4, <2>5, Zenon
  <2> QED BY <1>0, <2>1, <2>2, <2>3, <2>6, OutgoingKeeps, Zenon DEF asking
<1>3. ASSUME NEW n \in Node, DecideToAsk(n) PROVE Asked' /\ IncomingAsked' /\ OutgoingAsked'
  <2>1. UNCHANGED <<keys, asking, installing, net, lost>>
    BY <1>3, Zenon DEF DecideToAsk, history
  <2>2. Asked'
    BY <1>0, <2>1, IdleContinues, ContinuesKeeps, Zenon DEF keys
  <2>3. IncomingAsked'
    BY <2>1, Zenon DEF IncomingAsked, asking, keys
  <2>4. CASE MayAsk(n, sending[n].to)
    BY <1>0, <1>3, <2>1, <2>2, <2>4, WaitingStays, Zenon DEF DecideToAsk, keys, asking
  <2>5. CASE ~MayAsk(n, sending[n].to)
    <3>1. sending' = [sending EXCEPT ![n] = None] /\ buffered' = buffered \ {n}
      BY <1>3, <2>5, Zenon DEF DecideToAsk
    <3>2. asked[n][sending[n].to] > 0
      BY <2>5, Zenon DEF MayAsk, Asked
    <3>3. \A x \in buffered : x # n => x \in buffered' /\ sending'[x] = sending[x]
      BY <1>0, <3>1, Zenon DEF TypeOK
    <3> QED BY <1>0, <2>1, <2>2, <2>3, <3>2, <3>3, OutgoingKeeps, Zenon DEF keys, asking
  <2> QED BY <2>4, <2>5, Zenon
<1>4. ASSUME NEW n \in Node, AskForKey(n) PROVE Asked' /\ IncomingAsked' /\ OutgoingAsked'
  <2>1. /\ AskNow(n, sending[n].to, net) /\ UNCHANGED <<keys, installing, lost>> /\ n \in deciding
        /\ sending' = [sending EXCEPT ![n] = None] /\ buffered' = buffered \ {n}
    BY <1>4, Zenon DEF AskForKey, history
  <2>2. sending[n] \in Sends
    BY <1>0, <2>1, Zenon DEF TypeOK
  <2>3. sending[n].to \in Node
    BY <2>2, IdentityAssumption, Zenon
  <2>4. Continues /\ asked'[n][sending[n].to] > 0
    BY <1>0, <2>1, <2>3, AskNowContinues, Zenon DEF keys
  <2>5. Asked'
    BY <1>0, <2>4, ContinuesKeeps, Zenon
  <2>6. \A x, p \in Node : asked[x][p] > 0 => asked'[x][p] > 0
    BY <2>4, Zenon DEF Continues
  <2>7. IncomingAsked'
    BY <1>0, <2>1, <2>6, IncomingKeeps, Zenon DEF keys
  <2>8. \A x \in buffered : x # n => x \in buffered' /\ sending'[x] = sending[x]
    BY <1>0, <2>1, Zenon DEF TypeOK
  <2> QED BY <1>0, <2>1, <2>4, <2>5, <2>6, <2>7, <2>8, OutgoingKeeps, Zenon DEF keys
<1> QED BY <1>1, <1>2, <1>3, <1>4, Zenon

\* add_trusted_peer and handle_pending_incoming_packets: the packets that
\* waited for the key wait no more.
LEMMA InstallWaits ==
    ASSUME TypeOK, IncomingAsked, OutgoingAsked, NEW m \in Identity, Install(m),
           UNCHANGED <<asked, sending, buffered>>
    PROVE  IncomingAsked' /\ OutgoingAsked'
<1> DEFINE packets == {p \in pending_incoming_packets_[m.to] : p.from = m.from}
<1>1. /\ trusted_keys_' = [trusted_keys_ EXCEPT ![m.to] = @ \cup {m.from}]
      /\ pending_incoming_packets_' = [pending_incoming_packets_ EXCEPT ![m.to] = @ \ packets]
      /\ pending_outgoing_packets_' = pending_outgoing_packets_ /\ m.to \in Node
  BY Zenon DEF Install, Identity
<1>2. \A n \in Node : \A p \in pending_incoming_packets_'[n] :
          p \in pending_incoming_packets_[n] /\ ~(n = m.to /\ p \in packets)
  BY <1>1, Zenon DEF TypeOK
<1>3. \A n \in Node : \A x \in trusted_keys_'[n] : x \in trusted_keys_[n] \/ (n = m.to /\ x = m.from)
  BY <1>1, Zenon DEF TypeOK
<1>4. IncomingAsked'
  BY <1>2, <1>3, IncomingKeeps, Zenon
<1> QED BY <1>1, <1>4, OutgoingKeeps, Zenon

\* The routing thread.
LEMMA RoutingWaits ==
    ASSUME IInv, Asked, IncomingAsked, OutgoingAsked,
           \/ \E n \in Node : SendPending(n)
           \/ \E m \in net : ReceivePacket(m) \/ ReceiveRequest(m) \/ ReceiveResponse(m)
    PROVE  Asked' /\ IncomingAsked' /\ OutgoingAsked'
<1>0. TypeOK
  BY Zenon DEF IInv
<1>1. ASSUME NEW n \in Node, SendPending(n) PROVE Asked' /\ IncomingAsked' /\ OutgoingAsked'
  <2> DEFINE packets == {p \in pending_outgoing_packets_[n] : p.to = installing[n].from}
  <2>1. /\ UNCHANGED <<trusted_keys_, pending_incoming_packets_, asking, application>>
        /\ pending_outgoing_packets_' = [pending_outgoing_packets_ EXCEPT ![n] = @ \ packets]
    BY <1>1, Zenon DEF SendPending
  <2> HIDE DEF packets
  <2>2. Asked'
    BY <1>0, <1>1, SendPendingContinues, ContinuesKeeps, Zenon
  <2>3. \A x \in Node : pending_outgoing_packets_'[x] \subseteq pending_outgoing_packets_[x]
    BY <1>0, <2>1, Zenon DEF TypeOK
  <2> QED BY <1>0, <2>1, <2>2, <2>3, WaitingStays, Zenon DEF asking, application
<1>2. ASSUME NEW m \in net, ReceivePacket(m) PROVE Asked' /\ IncomingAsked' /\ OutgoingAsked'
  <2>1. m \in Packet /\ UNCHANGED <<application, installing, lost>>
    BY <1>2, Zenon DEF ReceivePacket
  <2>2. m.from \in Node /\ m.to \in Node
    BY <2>1 DEF Packet
  <2>3. \A x \in Identity : x \in net => x \in net \ {m}
    BY <2>1, Disjoint, Zenon
  <2>4. CASE m.from \in plain \cup trusted_keys_[m.to]
    <3>1. UNCHANGED <<keys, asking>> /\ \A x \in net \ {m} : x \in net'
      BY <1>2, <2>4, Zenon DEF ReceivePacket, Handle
    <3>2. Asked'
      BY <1>0, <2>1, <2>3, <3>1, IdleContinues, ContinuesKeeps, Zenon DEF keys
    <3> QED BY <1>0, <2>1, <3>1, <3>2, WaitingStays, Zenon DEF keys, asking, application
  <2>5. CASE m.from \notin plain \cup trusted_keys_[m.to]
    <3>1. /\ pending_incoming_packets_' = [pending_incoming_packets_ EXCEPT ![m.to] = @ \cup {m}]
          /\ Ask(m.to, m.from, net \ {m})
          /\ UNCHANGED <<trusted_keys_, pending_outgoing_packets_>>
      BY <1>2, <2>5, Zenon DEF ReceivePacket
    <3>2. Continues /\ asked'[m.to][m.from] > 0
      BY <1>0, <2>1, <2>2, <2>3, <3>1, AskContinues, Zenon
    <3>3. Asked'
      BY <1>0, <3>2, ContinuesKeeps, Zenon
    <3>4. \A x, p \in Node : asked[x][p] > 0 => asked'[x][p] > 0
      BY <3>2, Zenon DEF Continues
    <3>5. \A n \in Node : \A p \in pending_incoming_packets_'[n] :
              p \in pending_incoming_packets_[n] \/ (n = m.to /\ p = m)
      BY <1>0, <2>2, <3>1, Zenon DEF TypeOK
    <3>6. \A n \in Node : \A p \in pending_incoming_packets_'[n] :
              \/ p \in pending_incoming_packets_[n] /\ (p.from \in trusted_keys_'[n] => p.from \in trusted_keys_[n])
              \/ p.from \notin trusted_keys_'[n] /\ asked'[n][p.from] > 0
      BY <2>5, <3>1, <3>2, <3>5, Zenon
    <3>7. IncomingAsked'
      BY <1>0, <3>4, <3>6, IncomingKeeps, Zenon
    <3>8. OutgoingAsked'
      BY <1>0, <2>1, <3>1, <3>4, OutgoingKeeps, Zenon DEF application
    <3> QED BY <3>3, <3>7, <3>8, Zenon
  <2> QED BY <2>4, <2>5, Zenon
<1>3. ASSUME NEW m \in net, ReceiveRequest(m) PROVE Asked' /\ IncomingAsked' /\ OutgoingAsked'
  <2>1. /\ m \in Identity /\ Arrives(m) /\ m.kind = "request" /\ Install(m)
        /\ UNCHANGED <<id_request_cooldowns_, asked, tracked, sending, buffered, lost>>
    BY <1>3, Zenon DEF ReceiveRequest, asking, application
  <2>2. Asked'
    BY <1>0, <2>1, InstallContinues, ContinuesKeeps, Zenon
  <2> QED BY <1>0, <2>1, <2>2, InstallWaits, Zenon
<1>4. ASSUME NEW m \in net, ReceiveResponse(m) PROVE Asked' /\ IncomingAsked' /\ OutgoingAsked'
  <2>1. /\ m \in Identity /\ Arrives(m) /\ m.kind = "response"
        /\ UNCHANGED <<id_request_cooldowns_, asked, application, lost>>
    BY <1>4, Zenon DEF ReceiveResponse
  <2>2. CASE Request(m.to, m.from, m.number) \in tracked[m.to]
    <3>1. Install(m) /\ tracked' = [tracked EXCEPT ![m.to] = @ \ {Request(m.to, m.from, m.number)}]
      BY <1>4, <2>2, Zenon DEF ReceiveResponse
    <3>2. Asked'
      BY <1>0, <2>1, <3>1, InstallContinues, ContinuesKeeps, Zenon
    <3> QED BY <1>0, <2>1, <3>1, <3>2, InstallWaits, Zenon DEF application
  <2>3. CASE Request(m.to, m.from, m.number) \notin tracked[m.to]
    <3>1. net' = net \ {m} /\ UNCHANGED <<keys, installing, tracked>>
      BY <1>4, <2>3, Zenon DEF ReceiveResponse
    <3>2. ASSUME NEW n \in Node, NEW p \in Node, UnderWay(n, p) PROVE UnderWay(n, p)'
      <4>1. PICK k \in Nat : /\ Request(n, p, k) \in tracked[n]
                             /\ \/ Request(n, p, k) \in net
                                \/ installing[p] = Request(n, p, k)
                                \/ Response(n, p, k) \in net
        BY <3>2, Zenon DEF UnderWay
      <4>2. Request(n, p, k) # m
        BY <2>1 DEF Request
      <4>3. Response(n, p, k) # m
        <5>1. ASSUME Response(n, p, k) = m PROVE m.to = n /\ m.from = p /\ m.number = k
          BY <5>1 DEF Response
        <5> QED BY <2>3, <4>1, <5>1, Zenon
      <4> QED BY <3>1, <4>1, <4>2, <4>3, Zenon DEF UnderWay
    <3>3. Continues
      BY <2>1, <3>1, <3>2, Zenon DEF Continues, keys
    <3>4. Asked'
      BY <1>0, <3>3, ContinuesKeeps, Zenon
    <3> QED BY <1>0, <2>1, <3>1, <3>4, WaitingStays, Zenon DEF keys, application
  <2> QED BY <2>2, <2>3, Zenon
<1> QED BY <1>1, <1>2, <1>3, <1>4, Zenon

\* Time, the network, and every other step.
LEMMA NextWaits ==
    ASSUME IInv, Asked, IncomingAsked, OutgoingAsked, [Next]_vars
    PROVE  Asked' /\ IncomingAsked' /\ OutgoingAsked'
<1>0. TypeOK
  BY Zenon DEF IInv
<1>1. ASSUME NEW n \in Node, NEW p \in Node, CooldownEnds(n, p) PROVE Asked' /\ IncomingAsked' /\ OutgoingAsked'
  <2>1. /\ id_request_cooldowns_' = [id_request_cooldowns_ EXCEPT ![n] = @ \ {p}]
        /\ UNCHANGED <<keys, asked, tracked, application, installing, net, lost>>
    BY <1>1, Zenon DEF CooldownEnds, history
  <2>2. \A x \in Node : id_request_cooldowns_'[x] \subseteq id_request_cooldowns_[x]
    BY <1>0, <2>1, Zenon DEF TypeOK
  <2>3. \A x, y \in Node : UnderWay(x, y) => UnderWay(x, y)'
    BY <2>1, Zenon DEF UnderWay
  <2>4. Continues
    BY <2>1, <2>2, <2>3, Zenon DEF Continues, keys
  <2>5. Asked'
    BY <1>0, <2>4, ContinuesKeeps, Zenon
  <2> QED BY <1>0, <2>1, <2>5, WaitingStays, Zenon DEF keys, application
<1>2. ASSUME UNCHANGED <<keys, id_request_cooldowns_, asked, application>>, lost' # {}
      PROVE  Asked' /\ IncomingAsked' /\ OutgoingAsked'
  <2>1. Asked'
    BY <1>2, Zenon DEF Asked
  <2> QED BY <1>0, <1>2, <2>1, WaitingStays, Zenon DEF keys, application
<1>3. ASSUME NEW n \in Node, NEW r \in tracked[n], RequestTimesOut(n, r)
      PROVE  Asked' /\ IncomingAsked' /\ OutgoingAsked'
  BY <1>2, <1>3, Zenon DEF RequestTimesOut
<1>4. ASSUME NEW m \in net, Lose(m) PROVE Asked' /\ IncomingAsked' /\ OutgoingAsked'
  BY <1>2, <1>4, Zenon DEF Lose, asking
<1>5. CASE UNCHANGED vars
  <2>1. UNCHANGED <<trusted_keys_, pending_outgoing_packets_, pending_incoming_packets_, asking, application,
                    installing, net, lost>>
    BY <1>5, Zenon DEF vars, keys, history
  <2>2. Asked'
    BY <1>0, <2>1, IdleContinues, ContinuesKeeps, Zenon
  <2> QED BY <1>0, <2>1, <2>2, WaitingStays, Zenon DEF asking, application
<1> QED BY <1>1, <1>3, <1>4, <1>5, ApplicationWaits, RoutingWaits, Zenon DEF Next, Threads

\* If nothing is lost or late, a packet is in a buffer only while the
\* exchange that will release it goes on.  handle_incoming_packet has
\* buffered it for a key that is still missing, and the node has asked for
\* that key.  A packet that waits to be sent has the receiver asked too, or
\* its application thread is between buffer_outgoing_packet and
\* send_identity_request; else the receiver's key has come, while it was
\* being buffered or since, and handle_pending_outgoing_packets has run or
\* will run for it.
WaitsForExchange ==
    /\ \A n \in Node : \A p \in pending_incoming_packets_[n] : p.from \notin trusted_keys_[n]
    /\ lost = {} =>
          /\ \A n \in Node : \A p \in pending_incoming_packets_[n] : UnderWay(n, p.from)
          /\ \A n \in Node : \A p \in pending_outgoing_packets_[n] :
                \/ p.to \in trusted_keys_[n]
                \/ UnderWay(n, p.to)
                \/ n \in buffered /\ sending[n].to = p.to

\* No packet is left in a buffer of the IdentityManager with nobody on the
\* way to fetch the key it waits for.
THEOREM PacketsWaitForExchange == Spec => []WaitsForExchange
<1>1. ASSUME Init PROVE IInv /\ Asked /\ IncomingAsked /\ OutgoingAsked
  <2>1. Asked
    <3>1. \A n, p \in Node : ~(asked[n][p] > 0)
      BY <1>1 DEF Init
    <3> QED BY <1>1, <3>1, Zenon DEF Init, Asked
  <2> QED BY <1>1, <2>1, InitIInv, Zenon DEF Init, IncomingAsked, OutgoingAsked
<1>2. ASSUME IInv, Asked, IncomingAsked, OutgoingAsked, [Next]_vars
      PROVE  (IInv /\ Asked /\ IncomingAsked /\ OutgoingAsked)'
  BY <1>2, NextIInv, NextWaits, Zenon
<1>3. ASSUME IInv, Asked, IncomingAsked, OutgoingAsked PROVE WaitsForExchange
  <2>0. \A n \in Node : pending_incoming_packets_[n] \subseteq Packet /\ pending_outgoing_packets_[n] \subseteq Packet
    BY <1>3, Zenon DEF IInv, TypeOK
  <2>1. \A n \in Node : /\ \A p \in pending_incoming_packets_[n] : p.from \in Node
                        /\ \A p \in pending_outgoing_packets_[n] : p.to \in Node
    BY <2>0 DEF Packet
  <2> QED BY <1>3, <2>1, Zenon DEF Asked, IncomingAsked, OutgoingAsked, WaitsForExchange
<1>4. Spec => [](IInv /\ Asked /\ IncomingAsked /\ OutgoingAsked)
  BY <1>1, <1>2, PTL DEF Spec
<1> QED BY <1>3, <1>4, PTL
=============================================================================
