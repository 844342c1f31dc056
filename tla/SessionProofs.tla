---------------------------- MODULE SessionProofs ----------------------------
(* Proofs about Session: one write at a time, of the front of the outbox,   *)
(* and the wire in the order of the sends.                                  *)
EXTENDS Session, FiniteSetTheorems, TLAPS

\* What OneWriteOfTheFront says, without a cardinality.
FrontOnly ==
    open =>
        /\ \A w \in writes : outbox_ # <<>> /\ w.msg = outbox_[1]
        /\ \A v, w \in writes : v = w
        /\ outbox_ # <<>> => writes # {} \/ \E i \in 1 .. Len(strand_) : strand_[i] = "stop"

\* Nothing is written once the stream is closed.
ClosedIsSilent == ~open => \A w \in writes : w.status # "running"

Distinct == \A i, j \in 1 .. Len(posted) : posted[i] = posted[j] => i = j

WireIsPrefix ==
    Len(wire) <= Len(posted) /\ \A i \in 1 .. Len(wire) : wire[i] = posted[i]

\* The first c messages have been popped.  They are on the wire, with the front
\* of the outbox when its write is complete.
OnTheWire(c) ==
    /\ \A w \in writes : Len(wire) = IF w.status = "written" THEN c + 1 ELSE c
    /\ writes = {} => Len(wire) = c

\* The outbox holds the messages sent after the first c.
InTheOutbox(c) ==
    /\ c + Len(outbox_) <= Len(posted)
    /\ \A i \in 1 .. Len(outbox_) : outbox_[i] = posted[c + i]

\* The strand holds the messages sent after the first b, and in order.
OnTheStrand(b) ==
    /\ \A k \in b + 1 .. Len(posted) : \E i \in 1 .. Len(strand_) : strand_[i] = posted[k]
    /\ \A i \in 1 .. Len(strand_) : strand_[i] \in Message =>
            \E k \in b + 1 .. Len(posted) : strand_[i] = posted[k]
    /\ \A i, j \in 1 .. Len(strand_), k, l \in 1 .. Len(posted) :
            i < j /\ strand_[i] = posted[k] /\ strand_[j] = posted[l] => k < l

\* c messages have been popped and b have left the strand.
Line(c, b) ==
    b = c + Len(outbox_) /\ OnTheWire(c) /\ InTheOutbox(c) /\ OnTheStrand(b)

InLine == open => \E c \in 0 .. Len(wire), b \in 0 .. Len(posted) : Line(c, b)

IInv == TypeOK /\ FrontOnly /\ ClosedIsSilent /\ Distinct /\ WireIsPrefix /\ InLine

\* "start" and "stop" are not messages.
LEMMA NotMessages == "start" \notin Message /\ "stop" \notin Message
BY SessionAssumption

\* No message has been sent.
LEMMA InitIInv == Init => IInv
<1> SUFFICES ASSUME Init PROVE IInv
  OBVIOUS
<1>1. strand_ = <<"start">> /\ Len(strand_) = 1 /\ strand_[1] = "start"
  BY DEF Init
<1>2. TypeOK
  BY <1>1, SessionAssumption DEF Init, TypeOK
<1>3. FrontOnly /\ ClosedIsSilent /\ Distinct /\ WireIsPrefix
  BY DEF Init, FrontOnly, ClosedIsSilent, Distinct, WireIsPrefix
<1>4. Line(0, 0)
  BY <1>1, NotMessages DEF Init, Line, OnTheWire, InTheOutbox, OnTheStrand
<1>5. InLine
  BY <1>4 DEF Init, InLine
<1> QED
  BY <1>2, <1>3, <1>5 DEF IInv

\* The same strand holds the same messages.
LEMMA StrandUnchanged ==
    ASSUME NEW b, OnTheStrand(b), strand_' = strand_, posted' = posted
    PROVE  OnTheStrand(b)'
BY DEF OnTheStrand

\* Posting a stop leaves the messages on the strand as they are.
LEMMA PostStop ==
    ASSUME TypeOK, NEW b \in Nat, OnTheStrand(b),
           strand_' = Append(strand_, "stop"), posted' = posted
    PROVE  OnTheStrand(b)'
<1>1. /\ Len(strand_') = Len(strand_) + 1
      /\ \A i \in 1 .. Len(strand_) : strand_'[i] = strand_[i]
      /\ strand_'[Len(strand_) + 1] = "stop"
      /\ Len(strand_) \in Nat /\ Len(posted) \in Nat
  BY DEF TypeOK
<1>2. \A k \in 1 .. Len(posted) : posted[k] # "stop"
  BY NotMessages DEF TypeOK
<1>3. \A i \in 1 .. Len(strand_') : i \in 1 .. Len(strand_) \/ i = Len(strand_) + 1
  BY <1>1
<1> QED
  BY <1>1, <1>2, <1>3, NotMessages DEF OnTheStrand

\* Sending a message puts it at the end of the strand and of what was sent.
LEMMA PostMessage ==
    ASSUME TypeOK, NEW b \in 0 .. Len(posted), OnTheStrand(b), NEW m \in Message,
           m \notin Range(posted),
           strand_' = Append(strand_, m), posted' = Append(posted, m)
    PROVE  OnTheStrand(b)'
<1>1. /\ Len(strand_') = Len(strand_) + 1
      /\ \A i \in 1 .. Len(strand_) : strand_'[i] = strand_[i]
      /\ strand_'[Len(strand_) + 1] = m
      /\ Len(strand_) \in Nat
  BY DEF TypeOK
<1>2. /\ Len(posted') = Len(posted) + 1
      /\ \A i \in 1 .. Len(posted) : posted'[i] = posted[i]
      /\ posted'[Len(posted) + 1] = m
      /\ Len(posted) \in Nat
  BY DEF TypeOK
<1>3. \A k \in 1 .. Len(posted) : posted[k] # m /\ posted[k] \in Message
  BY DEF TypeOK, Range
<1>4. ASSUME NEW i \in 1 .. Len(strand_), strand_[i] = m PROVE FALSE
  <2>1. PICK k \in b + 1 .. Len(posted) : strand_[i] = posted[k]
    BY <1>4 DEF OnTheStrand
  <2>2. k \in 1 .. Len(posted)
    BY <1>2
  <2>3. posted[k] # m
    BY <2>2, <1>3
  <2> QED
    BY <2>1, <2>3, <1>4
<1>5. \A k \in b + 1 .. Len(posted') : \E i \in 1 .. Len(strand_') : strand_'[i] = posted'[k]
  BY <1>1, <1>2 DEF OnTheStrand
<1>6. \A i \in 1 .. Len(strand_') : strand_'[i] \in Message =>
          \E k \in b + 1 .. Len(posted') : strand_'[i] = posted'[k]
  BY <1>1, <1>2 DEF OnTheStrand
<1>7. ASSUME NEW i \in 1 .. Len(strand_'), NEW j \in 1 .. Len(strand_'),
             NEW k \in 1 .. Len(posted'), NEW l \in 1 .. Len(posted'),
             i < j, strand_'[i] = posted'[k], strand_'[j] = posted'[l]
      PROVE  k < l
  <2>1. i \in 1 .. Len(strand_) /\ k \in 1 .. Len(posted)
    BY <1>1, <1>2, <1>4, <1>7
  <2>2. CASE l = Len(posted) + 1
    BY <2>1, <2>2, <1>2
  <2>3. CASE l \in 1 .. Len(posted)
    <3>1. j \in 1 .. Len(strand_)
      BY <2>3, <1>1, <1>2, <1>3, <1>7
    <3> QED
      BY <3>1, <2>1, <2>3, <1>1, <1>2, <1>7 DEF OnTheStrand
  <2> QED
    BY <2>2, <2>3, <1>2
<1>8. \A i, j \in 1 .. Len(strand_'), k, l \in 1 .. Len(posted') :
          i < j /\ strand_'[i] = posted'[k] /\ strand_'[j] = posted'[l] => k < l
  BY <1>7, SMTT(30)
<1> QED
  BY <1>5, <1>6, <1>8, Zenon DEF OnTheStrand

\* Running what is not a message leaves the messages on the strand as they are.
LEMMA RunOther ==
    ASSUME TypeOK, NEW b \in Nat, OnTheStrand(b),
           strand_ # <<>>, Head(strand_) \notin Message,
           strand_' = Tail(strand_), posted' = posted
    PROVE  OnTheStrand(b)'
<1>1. /\ Len(strand_) \in Nat \ {0} /\ Len(strand_') = Len(strand_) - 1
      /\ \A i \in 1 .. Len(strand_') : strand_'[i] = strand_[i + 1]
      /\ strand_[1] \notin Message
  BY DEF TypeOK
<1>2. \A k \in 1 .. Len(posted) : posted[k] \in Message
  BY DEF TypeOK
<1>3. Len(posted) \in Nat
  BY DEF TypeOK
<1>4. ASSUME NEW k \in b + 1 .. Len(posted)
      PROVE  \E i \in 1 .. Len(strand_') : strand_'[i] = posted[k]
  <2>1. PICK i \in 1 .. Len(strand_) : strand_[i] = posted[k]
    BY DEF OnTheStrand
  <2>2. i # 1
    BY <2>1, <1>1, <1>2, <1>3
  <2>3. i - 1 \in 1 .. Len(strand_') /\ strand_'[i - 1] = strand_[i]
    BY <2>2, <1>1
  <2> QED
    BY <2>1, <2>3, Zenon
<1>5. \A i \in 1 .. Len(strand_') : i + 1 \in 1 .. Len(strand_)
  BY <1>1
<1> QED
  BY <1>1, <1>4, <1>5, SMTT(30) DEF OnTheStrand

\* The first message on the strand is the next that was sent.
LEMMA RunMessage ==
    ASSUME TypeOK, Distinct, NEW b \in 0 .. Len(posted), OnTheStrand(b), NEW m \in Message,
           strand_ # <<>>, Head(strand_) = m,
           strand_' = Tail(strand_), posted' = posted
    PROVE  /\ b + 1 <= Len(posted) /\ posted[b + 1] = m
           /\ OnTheStrand(b + 1)'
<1>1. /\ Len(strand_) \in Nat \ {0} /\ Len(strand_') = Len(strand_) - 1
      /\ \A i \in 1 .. Len(strand_') : strand_'[i] = strand_[i + 1]
      /\ strand_[1] = m
  BY DEF TypeOK
<1>2. Len(posted) \in Nat
  BY DEF TypeOK
<1>3. PICK n \in b + 1 .. Len(posted) : m = posted[n]
  BY <1>1 DEF OnTheStrand
<1>4. n = b + 1
  <2>1. PICK i \in 1 .. Len(strand_) : strand_[i] = posted[b + 1]
    BY <1>2, <1>3 DEF OnTheStrand
  <2>2. CASE i = 1
    BY <2>1, <2>2, <1>1, <1>2, <1>3 DEF Distinct
  <2>3. CASE 1 < i
    <3>1. n < b + 1
      BY <2>1, <2>3, <1>1, <1>2, <1>3, SMTT(30) DEF OnTheStrand
    <3> QED
      BY <3>1, <1>2, <1>3
  <2> QED
    BY <2>2, <2>3, <1>1
<1>5. ASSUME NEW k \in b + 1 + 1 .. Len(posted)
      PROVE  \E i \in 1 .. Len(strand_') : strand_'[i] = posted[k]
  <2>1. PICK i \in 1 .. Len(strand_) : strand_[i] = posted[k]
    BY <1>2 DEF OnTheStrand
  <2>2. i # 1
    BY <2>1, <1>1, <1>2, <1>3, <1>4 DEF Distinct
  <2>3. i - 1 \in 1 .. Len(strand_') /\ strand_'[i - 1] = strand_[i]
    BY <2>2, <1>1
  <2> QED
    BY <2>1, <2>3, Zenon
<1>6. ASSUME NEW i \in 1 .. Len(strand_'), strand_'[i] \in Message
      PROVE  \E k \in b + 1 + 1 .. Len(posted) : strand_'[i] = posted[k]
  <2>1. i + 1 \in 1 .. Len(strand_) /\ strand_'[i] = strand_[i + 1] /\ 1 < i + 1
    BY <1>1
  <2>2. PICK k \in b + 1 .. Len(posted) : strand_[i + 1] = posted[k]
    BY <2>1, <1>6 DEF OnTheStrand
  <2>3. n < k
    BY <2>1, <2>2, <1>1, <1>2, <1>3 DEF OnTheStrand
  <2> QED
    BY <2>1, <2>2, <2>3, <1>2, <1>4
<1>7. \A i \in 1 .. Len(strand_') : i + 1 \in 1 .. Len(strand_)
  BY <1>1
<1>8. \A i, j \in 1 .. Len(strand_'), k, l \in 1 .. Len(posted) :
          i < j /\ strand_'[i] = posted[k] /\ strand_'[j] = posted[l] => k < l
  BY <1>1, <1>7 DEF OnTheStrand
<1> QED
  BY <1>2, <1>3, <1>4, <1>5, <1>6, <1>8 DEF OnTheStrand

\* Sending a message.
LEMMA SendKeeps == ASSUME IInv, NEW m \in Message, AsyncSendMessage(m) PROVE IInv'
<1> USE DEF AsyncSendMessage
<1>1. TypeOK
  BY DEF IInv
<1>2. /\ Len(posted') = Len(posted) + 1 /\ Len(posted) \in Nat
      /\ \A i \in 1 .. Len(posted) : posted'[i] = posted[i]
      /\ posted'[Len(posted) + 1] = m
      /\ \A i \in 1 .. Len(posted) : posted[i] # m
  BY <1>1 DEF TypeOK, Range
<1>3. /\ Len(strand_') = Len(strand_) + 1 /\ Len(strand_) \in Nat
      /\ \A i \in 1 .. Len(strand_) : strand_'[i] = strand_[i]
  BY <1>1 DEF TypeOK
<1>4. TypeOK'
  BY <1>1 DEF TypeOK
<1>5. FrontOnly'
  BY <1>3 DEF IInv, FrontOnly
<1>6. ClosedIsSilent'
  BY DEF IInv, ClosedIsSilent
<1>7. Distinct'
  BY <1>2 DEF IInv, Distinct
<1>8. Len(wire) \in Nat
  BY <1>1 DEF TypeOK
<1>9. WireIsPrefix'
  BY <1>2, <1>8 DEF IInv, WireIsPrefix
<1>10. ASSUME open PROVE \E c \in 0 .. Len(wire'), b \in 0 .. Len(posted') : Line(c, b)'
  <2>1. PICK c \in 0 .. Len(wire), b \in 0 .. Len(posted) : Line(c, b)
    BY <1>10 DEF IInv, InLine
  <2>2. OnTheStrand(b)'
    BY <2>1, <1>1, PostMessage DEF Line
  <2>3. OnTheWire(c)'
    BY <2>1 DEF Line, OnTheWire
  <2>4. Len(outbox_) \in Nat
    BY <1>1 DEF TypeOK
  <2>5. InTheOutbox(c)'
    BY <2>1, <2>4, <1>2, <1>8, SMTT(30) DEF Line, InTheOutbox
  <2>6. b \in 0 .. Len(posted') /\ c \in 0 .. Len(wire')
    BY <1>2
  <2>7. Line(c, b)'
    BY <2>1, <2>2, <2>3, <2>5 DEF Line
  <2> QED
    BY <2>6, <2>7
<1>11. InLine'
  BY <1>10 DEF InLine
<1> QED
  BY <1>4, <1>5, <1>6, <1>7, <1>9, <1>11 DEF IInv

\* A call of stop(), by the owner or after a read that failed.
LEMMA StopKeeps == ASSUME IInv, Stop \/ ReadFails PROVE IInv'
<1>1. TypeOK
  BY DEF IInv
<1>2. /\ strand_' = Append(strand_, "stop")
      /\ UNCHANGED <<outbox_, open, writes, posted, wire>>
  BY Zenon DEF Stop, ReadFails
<1>3. /\ Len(strand_') = Len(strand_) + 1 /\ Len(strand_) \in Nat
      /\ \A i \in 1 .. Len(strand_) : strand_'[i] = strand_[i]
  BY <1>1, <1>2 DEF TypeOK
<1>4. strand_' \in Seq({"start", "stop"} \cup Message)
  BY <1>1, <1>2 DEF TypeOK
<1>5. TypeOK'
  BY <1>4, <1>1, SessionAssumption DEF TypeOK, Stop, ReadFails
<1>6. FrontOnly'
  BY <1>2, <1>3 DEF IInv, FrontOnly
<1>7. ClosedIsSilent' /\ Distinct' /\ WireIsPrefix'
  BY <1>2 DEF IInv, ClosedIsSilent, Distinct, WireIsPrefix
<1>8. ASSUME open PROVE \E c \in 0 .. Len(wire'), b \in 0 .. Len(posted') : Line(c, b)'
  <2>1. PICK c \in 0 .. Len(wire), b \in 0 .. Len(posted) : Line(c, b)
    BY <1>8 DEF IInv, InLine
  <2>2. OnTheStrand(b)'
    BY <2>1, <1>1, <1>2, PostStop DEF Line
  <2>3. OnTheWire(c)' /\ InTheOutbox(c)'
    BY <2>1, <1>2 DEF Line, OnTheWire, InTheOutbox
  <2>4. Line(c, b)'
    BY <2>1, <2>2, <2>3, <1>2 DEF Line
  <2> QED
    BY <2>4, <1>2
<1>9. InLine'
  BY <1>2, <1>8 DEF InLine
<1> QED
  BY <1>5, <1>6, <1>7, <1>9 DEF IInv

\* Running the start.
LEMMA StartKeeps == ASSUME IInv, RunStart PROVE IInv'
<1> USE DEF RunStart
<1>1. TypeOK
  BY DEF IInv
<1>2. TypeOK'
  BY <1>1 DEF TypeOK
<1>3. /\ Len(strand_) \in Nat \ {0} /\ Len(strand_') = Len(strand_) - 1
      /\ \A i \in 1 .. Len(strand_') : strand_'[i] = strand_[i + 1]
      /\ strand_[1] = "start"
  BY <1>1 DEF TypeOK
<1>4. ASSUME NEW i \in 1 .. Len(strand_), strand_[i] = "stop"
      PROVE  \E j \in 1 .. Len(strand_') : strand_'[j] = "stop"
  <2>1. i - 1 \in 1 .. Len(strand_') /\ strand_'[i - 1] = "stop"
    BY <1>3, <1>4
  <2> QED
    BY <2>1, Zenon
<1>5. FrontOnly'
  BY <1>4 DEF IInv, FrontOnly
<1>6. ClosedIsSilent' /\ Distinct' /\ WireIsPrefix'
  BY DEF IInv, ClosedIsSilent, Distinct, WireIsPrefix
<1>7. ASSUME open PROVE \E c \in 0 .. Len(wire'), b \in 0 .. Len(posted') : Line(c, b)'
  <2>1. PICK c \in 0 .. Len(wire), b \in 0 .. Len(posted) : Line(c, b)
    BY <1>7 DEF IInv, InLine
  <2>2. OnTheStrand(b)'
    BY <2>1, <1>1, RunOther, NotMessages DEF Line
  <2>3. OnTheWire(c)' /\ InTheOutbox(c)'
    BY <2>1 DEF Line, OnTheWire, InTheOutbox
  <2>4. Line(c, b)'
    BY <2>1, <2>2, <2>3 DEF Line
  <2> QED
    BY <2>4
<1>8. InLine'
  BY <1>7 DEF InLine
<1> QED
  BY <1>2, <1>5, <1>6, <1>8 DEF IInv

\* Running a stop closes the stream and aborts what is being written.
LEMMA RunStopKeeps == ASSUME IInv, RunStop PROVE IInv'
<1> USE DEF RunStop
<1>1. TypeOK
  BY DEF IInv
<1>2. /\ writes' \subseteq [msg : Message, status : Status]
      /\ \A w \in writes' : w.status # "running"
      /\ outbox_' \in Seq(Message)
  <2>1. CASE open
    <3>1. /\ writes' = {[w EXCEPT !.status = IF @ = "running" THEN "error" ELSE @] : w \in writes}
          /\ outbox_' = <<>>
      BY <2>1, Zenon
    <3>2. \A w \in writes :
             LET x == [w EXCEPT !.status = IF @ = "running" THEN "error" ELSE @]
             IN  x \in [msg : Message, status : Status] /\ x.status # "running"
      BY <1>1, SMTT(30) DEF TypeOK, Status
    <3>3. \A x \in writes' : x \in [msg : Message, status : Status] /\ x.status # "running"
      BY <3>1, <3>2, Zenon
    <3>4. outbox_' \in Seq(Message)
      BY <3>1
    <3> QED
      BY <3>3, <3>4, Zenon
  <2>2. CASE ~open
    <3>1. writes' = writes /\ outbox_' = outbox_
      BY <2>2, Zenon
    <3> QED
      BY <1>1, <2>2, <3>1 DEF TypeOK, IInv, ClosedIsSilent
  <2> QED
    BY <2>1, <2>2
<1>3. strand_' \in Seq({"start", "stop"} \cup Message)
  BY <1>1 DEF TypeOK
<1>4. open' = FALSE /\ UNCHANGED <<reading, stops, posted, wire>>
  BY Zenon
<1>5. TypeOK'
  BY <1>1, <1>2, <1>3, <1>4, Zenon DEF TypeOK
<1>6. ClosedIsSilent'
  BY <1>2, Zenon DEF ClosedIsSilent
<1>7. FrontOnly' /\ InLine' /\ Distinct' /\ WireIsPrefix'
  BY <1>4, Zenon DEF IInv, FrontOnly, InLine, Distinct, WireIsPrefix
<1> QED
  BY <1>5, <1>6, <1>7 DEF IInv

\* The write that do_write begins.
LEMMA BegunWrite ==
    ASSUME NEW q \in Seq(Message), q # <<>>
    PROVE  /\ DoWrite(q) = {[msg |-> q[1], status |-> IF open THEN "running" ELSE "error"]}
           /\ DoWrite(q) \subseteq [msg : Message, status : Status]
BY DEF DoWrite, Status

\* A message that leaves the strand goes to the end of the outbox, and is
\* written at once if it is alone there.
LEMMA RunSendKeeps == ASSUME IInv, NEW m \in Message, RunSend(m) PROVE IInv'
<1>1. TypeOK
  BY DEF IInv
<1>2. /\ strand_ # <<>> /\ Head(strand_) = m /\ strand_' = Tail(strand_)
      /\ outbox_' = Append(outbox_, m)
      /\ UNCHANGED <<open, reading, stops, posted, wire>>
  BY DEF RunSend
<1> DEFINE begun == [msg |-> m, status |-> IF open THEN "running" ELSE "error"]
<1>3. outbox_ = <<>> => writes' = writes \cup {begun}
  <2>1. <<m>> \in Seq(Message) /\ <<m>> # <<>> /\ <<m>>[1] = m
    OBVIOUS
  <2>2. DoWrite(<<m>>) = {begun}
    BY <2>1, BegunWrite, Zenon
  <2> QED
    BY <2>2 DEF RunSend
<1>4. outbox_ # <<>> => writes' = writes
  BY DEF RunSend
<1>5. begun \in [msg : Message, status : Status]
  BY DEF Status
<1>6. writes' \subseteq [msg : Message, status : Status]
  BY <1>1, <1>3, <1>4, <1>5 DEF TypeOK
<1>7. /\ outbox_' \in Seq(Message) /\ Len(outbox_) \in Nat
      /\ Len(outbox_') = Len(outbox_) + 1
      /\ \A i \in 1 .. Len(outbox_) : outbox_'[i] = outbox_[i]
      /\ outbox_'[Len(outbox_) + 1] = m
  BY <1>1, <1>2 DEF TypeOK
<1>8. strand_' \in Seq({"start", "stop"} \cup Message)
  BY <1>1, <1>2 DEF TypeOK
<1>9. TypeOK'
  BY <1>1, <1>2, <1>6, <1>7, <1>8 DEF TypeOK
<1>10. ClosedIsSilent'
  BY <1>2, <1>3, <1>4 DEF IInv, ClosedIsSilent
<1>11. Distinct' /\ WireIsPrefix'
  BY <1>2, SMTT(30) DEF IInv, Distinct, WireIsPrefix
<1>12. ASSUME NEW i \in 1 .. Len(strand_), strand_[i] = "stop"
       PROVE  \E j \in 1 .. Len(strand_') : strand_'[j] = "stop"
  <2>1. /\ Len(strand_) \in Nat \ {0} /\ Len(strand_') = Len(strand_) - 1
        /\ \A j \in 1 .. Len(strand_') : strand_'[j] = strand_[j + 1]
        /\ strand_[1] # "stop"
    BY <1>1, <1>2, NotMessages DEF TypeOK
  <2>2. i - 1 \in 1 .. Len(strand_') /\ strand_'[i - 1] = "stop"
    BY <2>1, <1>12
  <2> QED
    BY <2>2
<1>13. ASSUME open, outbox_ = <<>>
       PROVE  writes = {} /\ writes' = {begun} /\ begun.status = "running" /\ Len(outbox_) = 0
  BY <1>3, <1>13 DEF IInv, FrontOnly
<1>14. outbox_ # <<>> => Len(outbox_) > 0 /\ outbox_'[1] = outbox_[1]
  BY <1>1, <1>7 DEF TypeOK
<1>15. outbox_' # <<>>
  BY <1>7
<1>16. FrontOnly'
  <2>1. CASE outbox_ = <<>>
    <3>1. outbox_'[1] = m
      BY <2>1, <1>7
    <3>2. begun.msg = m
      OBVIOUS
    <3> HIDE DEF begun
    <3> QED
      BY <2>1, <3>1, <3>2, <1>2, <1>13, <1>15, SMTT(30) DEF FrontOnly
  <2>2. CASE outbox_ # <<>>
    BY <2>2, <1>2, <1>4, <1>12, <1>14, <1>15 DEF IInv, FrontOnly
  <2> QED
    BY <2>1, <2>2
<1>17. ASSUME open PROVE \E c \in 0 .. Len(wire'), b \in 0 .. Len(posted') : Line(c, b)'
  <2>1. PICK c \in 0 .. Len(wire), b \in 0 .. Len(posted) : Line(c, b)
    BY <1>17 DEF IInv, InLine
  <2>2. Distinct /\ OnTheStrand(b) /\ b = c + Len(outbox_)
    BY <2>1 DEF IInv, Line
  <2>3. b + 1 <= Len(posted) /\ posted[b + 1] = m /\ OnTheStrand(b + 1)'
    BY <2>2, <1>1, <1>2, RunMessage
  <2>4. Len(wire) \in Nat /\ Len(posted) \in Nat
    BY <1>1 DEF TypeOK
  <2>5. InTheOutbox(c)'
    BY <2>1, <2>2, <2>3, <2>4, <1>2, <1>7, SMTT(30) DEF Line, InTheOutbox
  <2>6. OnTheWire(c)'
    <3>1. CASE outbox_ = <<>>
      BY <3>1, <2>1, <1>2, <1>13, <1>17 DEF Line, OnTheWire
    <3>2. CASE outbox_ # <<>>
      BY <3>2, <2>1, <1>2, <1>4 DEF Line, OnTheWire
    <3> QED
      BY <3>1, <3>2
  <2>7. b + 1 = c + Len(outbox_') /\ b + 1 \in 0 .. Len(posted')
    BY <2>2, <2>3, <2>4, <1>2, <1>7, SMTT(30)
  <2>8. Line(c, b + 1)'
    BY <2>3, <2>5, <2>6, <2>7 DEF Line
  <2> QED
    BY <2>7, <2>8, <1>2
<1>18. InLine'
  BY <1>2, <1>17 DEF InLine
<1> QED
  BY <1>9, <1>10, <1>11, <1>16, <1>18 DEF IInv

\* The stream has written the front of the outbox, the next on the wire.
LEMMA StreamWritesKeeps == ASSUME IInv, NEW w \in writes, StreamWrites(w) PROVE IInv'
<1> DEFINE x == [w EXCEPT !.status = "written"]
<1>1. TypeOK
  BY DEF IInv
<1>2. /\ w.status = "running" /\ writes' = (writes \ {w}) \cup {x} /\ wire' = Append(wire, w.msg)
      /\ UNCHANGED <<strand_, outbox_, open, reading, stops, posted>>
  BY DEF StreamWrites
<1>3. /\ x \in [msg : Message, status : Status] /\ x.msg = w.msg /\ x.status = "written"
      /\ w.msg \in Message
  BY <1>1 DEF TypeOK, Status
<1>4. open
  BY <1>2 DEF IInv, ClosedIsSilent
<1>5. writes = {w} /\ outbox_ # <<>> /\ w.msg = outbox_[1]
  BY <1>4 DEF IInv, FrontOnly
<1>6. writes' = {x}
  BY <1>2, <1>5
<1> HIDE DEF x
<1>7. /\ Len(wire') = Len(wire) + 1 /\ Len(wire) \in Nat /\ wire' \in Seq(Message)
      /\ \A i \in 1 .. Len(wire) : wire'[i] = wire[i]
      /\ wire'[Len(wire) + 1] = w.msg
  BY <1>1, <1>2, <1>3 DEF TypeOK
<1>8. TypeOK'
  BY <1>1, <1>2, <1>3, <1>6, <1>7 DEF TypeOK
<1>9. FrontOnly' /\ ClosedIsSilent' /\ Distinct'
  BY <1>2, <1>3, <1>4, <1>5, <1>6 DEF IInv, FrontOnly, ClosedIsSilent, Distinct
<1>10. PICK c \in 0 .. Len(wire), b \in 0 .. Len(posted) : Line(c, b)
  BY <1>4 DEF IInv, InLine
<1>11. Len(wire) = c
  BY <1>2, <1>10 DEF Line, OnTheWire
<1>12. Len(outbox_) \in Nat \ {0} /\ Len(posted) \in Nat
  BY <1>1, <1>5 DEF TypeOK
<1>13. c + 1 <= Len(posted) /\ posted[c + 1] = w.msg
  BY <1>5, <1>10, <1>12 DEF Line, InTheOutbox
<1>14. WireIsPrefix'
  BY <1>2, <1>7, <1>11, <1>13 DEF IInv, WireIsPrefix
<1>15. OnTheWire(c)'
  BY <1>3, <1>6, <1>7, <1>11 DEF OnTheWire
<1>16. InTheOutbox(c)' /\ b = c + Len(outbox_')
  BY <1>2, <1>10 DEF Line, InTheOutbox
<1>17. OnTheStrand(b)'
  BY <1>2, <1>10, StrandUnchanged DEF Line
<1>18. Line(c, b)'
  BY <1>15, <1>16, <1>17 DEF Line
<1>19. c \in 0 .. Len(wire') /\ b \in 0 .. Len(posted')
  BY <1>2, <1>7
<1>20. InLine'
  BY <1>18, <1>19 DEF InLine
<1> QED
  BY <1>8, <1>9, <1>14, <1>20 DEF IInv

\* The stream cannot write the front of the outbox.
LEMMA StreamFailsKeeps == ASSUME IInv, NEW w \in writes, StreamFails(w) PROVE IInv'
<1> DEFINE x == [w EXCEPT !.status = "error"]
<1>1. TypeOK
  BY DEF IInv
<1>2. /\ w.status = "running" /\ writes' = (writes \ {w}) \cup {x}
      /\ UNCHANGED <<strand_, outbox_, open, reading, stops, posted, wire>>
  BY DEF StreamFails
<1>3. x \in [msg : Message, status : Status] /\ x.msg = w.msg /\ x.status = "error"
  BY <1>1, Zenon DEF TypeOK, Status
<1>4. open
  BY <1>2 DEF IInv, ClosedIsSilent
<1>5. writes = {w} /\ outbox_ # <<>> /\ w.msg = outbox_[1]
  BY <1>4 DEF IInv, FrontOnly
<1>6. writes' = {x}
  BY <1>2, <1>5
<1> HIDE DEF x
<1>7. TypeOK'
  BY <1>1, <1>2, <1>3, <1>6 DEF TypeOK
<1>8. FrontOnly' /\ ClosedIsSilent' /\ Distinct' /\ WireIsPrefix'
  BY <1>2, <1>3, <1>4, <1>5, <1>6
     DEF IInv, FrontOnly, ClosedIsSilent, Distinct, WireIsPrefix
<1>9. PICK c \in 0 .. Len(wire), b \in 0 .. Len(posted) : Line(c, b)
  BY <1>4 DEF IInv, InLine
<1>10. OnTheWire(c)'
  BY <1>2, <1>3, <1>6, <1>9 DEF Line, OnTheWire
<1>11. InTheOutbox(c)' /\ b = c + Len(outbox_')
  BY <1>2, <1>9 DEF Line, InTheOutbox
<1>12. OnTheStrand(b)'
  BY <1>2, <1>9, StrandUnchanged DEF Line
<1>13. Line(c, b)'
  BY <1>10, <1>11, <1>12 DEF Line
<1>14. InLine'
  BY <1>2, <1>13 DEF InLine
<1> QED
  BY <1>7, <1>8, <1>14 DEF IInv

\* The handler of a failed write posts a stop and leaves the outbox alone.
LEMMA WriteErrorKeeps == ASSUME IInv, NEW w \in writes, OnWriteError(w) PROVE IInv'
<1>1. TypeOK
  BY DEF IInv
<1>2. /\ w.status = "error" /\ writes' = writes \ {w} /\ strand_' = Append(strand_, "stop")
      /\ UNCHANGED <<outbox_, open, reading, stops, posted, wire>>
  BY DEF OnWriteError
<1>3. /\ strand_' \in Seq({"start", "stop"} \cup Message)
      /\ Len(strand_) + 1 \in 1 .. Len(strand_') /\ strand_'[Len(strand_) + 1] = "stop"
  BY <1>1, <1>2 DEF TypeOK
<1>4. TypeOK'
  BY <1>1, <1>2, <1>3 DEF TypeOK
<1>5. \E i \in 1 .. Len(strand_') : strand_'[i] = "stop"
  BY <1>3
<1>6. FrontOnly'
  BY <1>2, <1>5 DEF IInv, FrontOnly
<1>7. ClosedIsSilent' /\ Distinct' /\ WireIsPrefix'
  BY <1>2 DEF IInv, ClosedIsSilent, Distinct, WireIsPrefix
<1>8. ASSUME open PROVE \E c \in 0 .. Len(wire'), b \in 0 .. Len(posted') : Line(c, b)'
  <2>1. PICK c \in 0 .. Len(wire), b \in 0 .. Len(posted) : Line(c, b)
    BY <1>8 DEF IInv, InLine
  <2>2. OnTheStrand(b)'
    BY <2>1, <1>1, <1>2, PostStop DEF Line
  <2>3. Len(wire) = c
    BY <2>1, <1>2 DEF Line, OnTheWire
  <2>4. writes' = {}
    BY <1>2, <1>8 DEF IInv, FrontOnly
  <2>5. OnTheWire(c)' /\ InTheOutbox(c)'
    BY <2>1, <2>3, <2>4, <1>2 DEF Line, OnTheWire, InTheOutbox
  <2>6. Line(c, b)'
    BY <2>1, <2>2, <2>5, <1>2 DEF Line
  <2> QED
    BY <2>6, <1>2
<1>9. InLine'
  BY <1>2, <1>8 DEF InLine
<1> QED
  BY <1>4, <1>6, <1>7, <1>9 DEF IInv

\* The handler of a write pops the front of the outbox and begins the next
\* write.  The outbox is empty only if the stream was closed in between.
LEMMA WrittenKeeps == ASSUME IInv, NEW w \in writes, OnWritten(w) PROVE IInv'
<1>1. TypeOK
  BY DEF IInv
<1>2. /\ w.status = "written" /\ outbox_' \in Popped(outbox_)
      /\ writes' = (writes \ {w}) \cup DoWrite(outbox_')
      /\ UNCHANGED <<strand_, open, reading, stops, posted, wire>>
  BY DEF OnWritten
<1>3. outbox_' \in Seq(Message)
  <2>1. CASE outbox_ = <<>>
    <3>1. outbox_' \in {<<>>} \cup {<<m>> : m \in Message}
      BY <2>1, <1>2, Zenon DEF Popped
    <3>2. <<>> \in Seq(Message) /\ \A m \in Message : <<m>> \in Seq(Message)
      OBVIOUS
    <3> QED
      BY <3>1, <3>2, Zenon
  <2>2. CASE outbox_ # <<>>
    <3>1. outbox_' = Tail(outbox_)
      BY <2>2, <1>2, Zenon DEF Popped
    <3> QED
      BY <2>2, <3>1, <1>1 DEF TypeOK
  <2> QED
    BY <2>1, <2>2
<1> DEFINE begun == [msg |-> outbox_'[1], status |-> IF open THEN "running" ELSE "error"]
<1>4. outbox_' = <<>> => writes' = writes \ {w}
  BY <1>2 DEF DoWrite
<1>5. outbox_' # <<>> => /\ writes' = (writes \ {w}) \cup {begun}
                         /\ begun \in [msg : Message, status : Status]
  BY <1>2, <1>3, BegunWrite, Zenon
<1>6. begun.msg = outbox_'[1] /\ begun.status = IF open THEN "running" ELSE "error"
  OBVIOUS
<1> HIDE DEF begun
<1>7. writes' \subseteq [msg : Message, status : Status]
  BY <1>1, <1>4, <1>5 DEF TypeOK
<1>8. TypeOK'
  BY <1>1, <1>2, <1>3, <1>7 DEF TypeOK
<1>9. ClosedIsSilent'
  BY <1>2, <1>4, <1>5, <1>6 DEF IInv, ClosedIsSilent
<1>10. Distinct' /\ WireIsPrefix'
  BY <1>2 DEF IInv, Distinct, WireIsPrefix
<1>11. ASSUME open
       PROVE  writes = {w} /\ outbox_ # <<>> /\ outbox_' = Tail(outbox_)
  BY <1>2, <1>11 DEF IInv, FrontOnly, Popped
<1>12. ASSUME open
       PROVE  writes' = IF outbox_' = <<>> THEN {} ELSE {begun}
  BY <1>4, <1>5, <1>11, <1>12
<1>13. FrontOnly'
  BY <1>2, <1>6, <1>12, SMTT(30) DEF FrontOnly
<1>14. ASSUME open PROVE \E c \in 0 .. Len(wire'), b \in 0 .. Len(posted') : Line(c, b)'
  <2>1. PICK c \in 0 .. Len(wire), b \in 0 .. Len(posted) : Line(c, b)
    BY <1>14 DEF IInv, InLine
  <2>2. Len(wire) = c + 1
    BY <2>1, <1>2 DEF Line, OnTheWire
  <2>3. outbox_ # <<>> /\ outbox_' = Tail(outbox_) /\ outbox_ \in Seq(Message)
    BY <1>1, <1>11, <1>14, Zenon DEF TypeOK
  <2>4. Len(posted) \in Nat
    BY <1>1 DEF TypeOK
  <2>5. /\ Len(outbox_) \in Nat \ {0} /\ Len(outbox_') = Len(outbox_) - 1
        /\ \A i \in 1 .. Len(outbox_') : outbox_'[i] = outbox_[i + 1]
    BY <2>3
  <2>6. OnTheWire(c + 1)'
    <3>1. \A v \in writes' : v.status = "running"
      BY <1>6, <1>12, <1>14
    <3>2. Len(wire') = c + 1
      BY <2>2, <1>2
    <3> QED
      BY <3>1, <3>2 DEF OnTheWire
  <2>7. InTheOutbox(c + 1)'
    <3>1. ASSUME NEW i \in 1 .. Len(outbox_') PROVE outbox_'[i] = posted[(c + 1) + i]
      <4>1. i + 1 \in 1 .. Len(outbox_) /\ (c + 1) + i = c + (i + 1)
        BY <2>5
      <4>2. outbox_[i + 1] = posted[c + (i + 1)]
        BY <4>1, <2>1 DEF Line, InTheOutbox
      <4> QED
        BY <4>1, <4>2, <2>5
    <3>2. (c + 1) + Len(outbox_') <= Len(posted)
      BY <2>1, <2>5, <2>4 DEF Line, InTheOutbox
    <3> QED
      BY <3>1, <3>2, <1>2 DEF InTheOutbox
  <2>8. OnTheStrand(b)'
    BY <2>1, <1>2, StrandUnchanged DEF Line
  <2>9. b = (c + 1) + Len(outbox_') /\ c + 1 \in 0 .. Len(wire')
    BY <2>1, <2>2, <2>5, <1>2 DEF Line
  <2>10. Line(c + 1, b)'
    BY <2>6, <2>7, <2>8, <2>9 DEF Line
  <2> QED
    BY <2>9, <2>10, <1>2
<1>15. InLine'
  BY <1>2, <1>14 DEF InLine
<1> QED
  BY <1>8, <1>9, <1>10, <1>13, <1>15 DEF IInv

\* Every step keeps the invariant.
LEMMA NextIInv == IInv /\ [Next]_vars => IInv'
<1> SUFFICES ASSUME IInv, [Next]_vars PROVE IInv'
  OBVIOUS
<1>1. ASSUME NEW m \in Message, AsyncSendMessage(m) \/ RunSend(m) PROVE IInv'
  BY <1>1, SendKeeps, RunSendKeeps
<1>2. CASE Stop \/ ReadFails
  BY <1>2, StopKeeps
<1>3. CASE RunStart
  BY <1>3, StartKeeps
<1>4. CASE RunStop
  BY <1>4, RunStopKeeps
<1>5. ASSUME NEW w \in writes,
             StreamWrites(w) \/ StreamFails(w) \/ OnWriteError(w) \/ OnWritten(w)
      PROVE  IInv'
  BY <1>5, StreamWritesKeeps, StreamFailsKeeps, WriteErrorKeeps, WrittenKeeps
<1>6. CASE ReadCompletes \/ UNCHANGED vars
  <2>1. UNCHANGED <<strand_, outbox_, open, writes, stops, posted, wire>>
    BY <1>6, Zenon DEF ReadCompletes, vars
  <2>2. reading' \in {"nothing", "handshake", "header", "payload", "ended"}
    BY <1>6 DEF ReadCompletes, vars, IInv, TypeOK
  <2>3. TypeOK'
    BY <2>1, <2>2 DEF IInv, TypeOK
  <2>4. FrontOnly' /\ ClosedIsSilent' /\ Distinct' /\ WireIsPrefix'
    BY <2>1 DEF IInv, FrontOnly, ClosedIsSilent, Distinct, WireIsPrefix
  <2>5. ASSUME NEW c, NEW b, Line(c, b) PROVE Line(c, b)'
    BY <2>1, <2>5, StrandUnchanged DEF Line, OnTheWire, InTheOutbox
  <2>6. InLine'
    BY <2>1, <2>5 DEF IInv, InLine
  <2> QED
    BY <2>3, <2>4, <2>6 DEF IInv
<1> QED
  BY <1>1, <1>2, <1>3, <1>4, <1>5, <1>6, Zenon DEF Next, IoThread

\* The invariant says what the properties say.
LEMMA IInvImplies == IInv => OneWriteOfTheFront /\ WireInOrder
<1> SUFFICES ASSUME IInv PROVE OneWriteOfTheFront /\ WireInOrder
  OBVIOUS
<1>1. TypeOK
  BY DEF IInv
<1>2. ASSUME open PROVE Cardinality(writes) <= 1
  <2>1. CASE writes = {}
    BY <2>1, FS_EmptySet
  <2>2. CASE writes # {}
    <3>1. PICK w \in writes : TRUE
      BY <2>2
    <3>2. writes = {w}
      BY <1>2, <3>1 DEF IInv, FrontOnly
    <3>3. Cardinality({w}) = 1
      BY FS_Singleton
    <3> QED
      BY <3>2, <3>3
  <2> QED
    BY <2>1, <2>2
<1>3. outbox_ # <<>> => Head(outbox_) = outbox_[1]
  BY <1>1 DEF TypeOK
<1>4. \A i \in 1 .. Len(strand_) : strand_[i] \in Range(strand_)
  BY <1>1 DEF TypeOK, Range
<1>5. OneWriteOfTheFront
  BY <1>1, <1>2, <1>3, <1>4 DEF IInv, FrontOnly, OneWriteOfTheFront
<1>6. /\ Len(wire) \in Nat /\ Len(posted) \in Nat /\ Len(wire) <= Len(posted)
      /\ \A i \in 1 .. Len(wire) : wire[i] = posted[i]
  BY <1>1 DEF IInv, TypeOK, WireIsPrefix
<1>7. wire = SubSeq(posted, 1, Len(wire)) /\ Len(wire) \in 0 .. Len(posted)
  BY <1>1, <1>6 DEF TypeOK
<1>8. WireInOrder
  BY <1>7, Zenon DEF WireInOrder
<1> QED
  BY <1>5, <1>8

\* GenericSession keeps at most one write on an open stream, of the front of
\* the outbox, for any messages, failures and stops.
THEOREM SessionWritesOne == Spec => []OneWriteOfTheFront
<1>1. Spec => []IInv
  BY InitIInv, NextIInv, PTL DEF Spec
<1> QED
  BY <1>1, IInvImplies, PTL

\* What GenericSession has put on the wire is a prefix of what was sent, for
\* any messages, failures and stops.
THEOREM SessionKeepsOrder == Spec => []WireInOrder
<1>1. Spec => []IInv
  BY InitIInv, NextIInv, PTL DEF Spec
<1> QED
  BY <1>1, IInvImplies, PTL
=============================================================================
