-------------------------- MODULE FecStreamProofs --------------------------
(* Proofs about FecStream: what the decoder remembers is bounded, no group  *)
(* of which k frames came is missed, and none is returned for fewer.        *)
EXTENDS FecStream, FiniteSetTheorems, TLAPS

\* The slots of a group, none for one that is not in the table.
Slots(g) == IF g \in DOMAIN recv_groups_ THEN recv_groups_[g] ELSE {}

\* A group with k slots does not stay in the table.
FewSlots == \A g \in Group : Cardinality(Slots(g)) < k

\* Until a group is returned or forgotten its slots are the frames that came.
AllKept ==
    \A g \in Group : deliveries[g] = 0 /\ g \notin forgotten =>
        {f.seq : f \in ArrivedOf(g)} = Slots(g)

\* The encoder has passed the frames that are under way or came: it sends no
\* frame twice.
SentBefore ==
    \A f \in network \cup arrived :
        \/ f.run < run
        \/ f.run = run /\ f.group < send_group_id_
        \/ f.run = run /\ f.group = send_group_id_ /\ f.seq < send_seq_

\* The copies under way of frames of g that came.
Copies(g) == network \cap ArrivedOf(g)

\* Returned groups and slots are paid for with frames that came; a copy of one
\* can pay again, and was counted when it was made.
PaidFor ==
    \A g \in Group :
        k * deliveries[g] + Cardinality(Slots(g)) + Cardinality(Copies(g))
            <= Cardinality(ArrivedOf(g)) + duplicates

IInv ==
    /\ GroupsAreQueued
    /\ IsFiniteSet(arrived)
    /\ FewSlots /\ AllKept /\ SentBefore /\ PaidFor

\* A sequence's elements are in its range, and only they.
LEMMA InRange ==
    ASSUME NEW S, NEW q \in Seq(S)
    PROVE  \A x : x \in Range(q) <=> \E i \in 1 .. Len(q) : q[i] = x
BY DEF Range

\* Slots are finite sets.
LEMMA SlotsFinite ==
    ASSUME TypeOK, NEW g
    PROVE  /\ Slots(g) \subseteq Seqno /\ IsFiniteSet(Slots(g))
           /\ Cardinality(Slots(g)) \in Nat
<1>1. Slots(g) \subseteq Seqno
  BY Zenon DEF TypeOK, Slots
<1>2. IsFiniteSet(Seqno)
  BY FS_Interval, StreamAssumption DEF Seqno
<1>3. IsFiniteSet(Slots(g))
  BY <1>1, <1>2, FS_Subset, Zenon
<1> QED
  BY <1>1, <1>3, FS_CardinalityType, Zenon

\* So are the frames of a group that came, and the copies of them.
LEMMA ArrivedFinite ==
    ASSUME IsFiniteSet(arrived), NEW g
    PROVE  /\ IsFiniteSet(ArrivedOf(g)) /\ Cardinality(ArrivedOf(g)) \in Nat
           /\ IsFiniteSet(Copies(g)) /\ Cardinality(Copies(g)) \in Nat
<1>1. ArrivedOf(g) \subseteq arrived /\ Copies(g) \subseteq arrived
  BY Zenon DEF ArrivedOf, Copies
<1>2. IsFiniteSet(ArrivedOf(g)) /\ IsFiniteSet(Copies(g))
  BY <1>1, FS_Subset, Zenon
<1> QED
  BY <1>2, FS_CardinalityType, Zenon

\* Nothing has been sent.
LEMMA InitIInv == Init => IInv
<1> SUFFICES ASSUME Init PROVE IInv
  BY Zenon
<1>1. recv_groups_ = <<>> /\ DOMAIN recv_groups_ = {}
  BY DEF Init
<1>2. recv_group_order_ \in Seq(Group) /\ Len(recv_group_order_) = 0
  BY DEF Init
<1>3. TypeOK
  BY <1>1, <1>2, StreamAssumption DEF Init, TypeOK, Run
<1>4. GroupsAreQueued
  BY <1>1, <1>2, <1>3, StreamAssumption DEF GroupsAreQueued
<1>5. \A g : Slots(g) = {} /\ ArrivedOf(g) = {} /\ Copies(g) = {}
  BY <1>1, Zenon DEF Init, Slots, ArrivedOf, Copies
<1>6. IsFiniteSet({}) /\ Cardinality({}) = 0
  BY FS_EmptySet, Zenon
<1>7. FewSlots
  BY <1>5, <1>6, StreamAssumption DEF FewSlots
<1>8. AllKept
  BY <1>5, Zenon DEF AllKept
<1>9. SentBefore
  BY Zenon DEF Init, SentBefore
<1>10. \A g \in Group : deliveries[g] = 0
  BY Zenon DEF Init
<1>11. PaidFor
  <2>1. k * 0 = 0 /\ duplicates = 0
    BY StreamAssumption DEF Init
  <2> QED
    BY <2>1, <1>5, <1>6, <1>10 DEF PaidFor
<1>12. IsFiniteSet(arrived)
  BY <1>6, Zenon DEF Init
<1> QED
  BY <1>4, <1>7, <1>8, <1>9, <1>11, <1>12, Zenon DEF IInv

\* What decode does: the slots of the frame's group are filled or, when they
\* are k, returned; another group is left alone or forgotten.
LEMMA DecodeEffect ==
    ASSUME TypeOK, NEW f \in Frame, decode(f)
    PROVE  LET filled  == Slots(f.group) \cup {f.seq}
               deliver == f.seq \notin Slots(f.group) /\ Cardinality(filled) >= k
           IN  /\ Slots(f.group)' = IF deliver THEN {} ELSE filled
               /\ deliveries' = IF deliver THEN [deliveries EXCEPT ![f.group] = @ + 1] ELSE deliveries
               /\ arrived' = arrived \cup {f}
               /\ \A g \in Group \ {f.group} :
                     Slots(g)' = Slots(g) \/ (Slots(g)' = {} /\ g \in forgotten')
               /\ forgotten \subseteq forgotten'
<1> DEFINE memory  == Memory(f.group)
           slots   == IF f.group \in DOMAIN recv_groups_ THEN recv_groups_[f.group] ELSE {}
           filled  == slots \cup {f.seq}
           kept    == (DOMAIN recv_groups_ \ memory.erase) \cup {f.group}
           groups  == [g \in kept |-> IF g = f.group THEN filled ELSE recv_groups_[g]]
           deliver == f.seq \notin slots /\ Complete(filled)
<1>1. /\ recv_groups_' = IF deliver THEN Delivered(groups, f.group) ELSE groups
      /\ deliveries' = IF deliver THEN [deliveries EXCEPT ![f.group] = @ + 1] ELSE deliveries
      /\ arrived' = arrived \cup {f}
      /\ forgotten' = forgotten \cup (memory.erase \cap DOMAIN recv_groups_)
  BY Zenon DEF decode
<1>2. slots = Slots(f.group)
  BY Zenon DEF Slots
<1>3. deliver <=> f.seq \notin Slots(f.group) /\ Cardinality(Slots(f.group) \cup {f.seq}) >= k
  BY <1>2, Zenon DEF Complete
<1> HIDE DEF memory, slots, deliver
<1>4. /\ DOMAIN groups = kept /\ groups[f.group] = filled
      /\ \A g \in kept \ {f.group} : groups[g] = recv_groups_[g]
  BY Zenon
<1>5. /\ ~deliver => recv_groups_' = groups
      /\ deliver => recv_groups_' = [g \in kept \ {f.group} |-> groups[g]]
  BY <1>1, <1>4, Zenon DEF Delivered
<1> HIDE DEF groups
<1>6. /\ deliver => f.group \notin DOMAIN recv_groups_'
      /\ ~deliver => f.group \in DOMAIN recv_groups_' /\ recv_groups_'[f.group] = filled
  BY <1>4, <1>5, Zenon
<1>7. Slots(f.group)' = IF deliver THEN {} ELSE filled
  BY <1>6, Zenon DEF Slots
<1>8. ASSUME NEW g \in Group \ {f.group}
      PROVE  Slots(g)' = Slots(g) \/ (Slots(g)' = {} /\ g \in forgotten')
  <2>1. /\ g \in DOMAIN recv_groups_' <=> g \in DOMAIN recv_groups_ \ memory.erase
        /\ g \in DOMAIN recv_groups_' => recv_groups_'[g] = recv_groups_[g]
    BY <1>4, <1>5, Zenon
  <2> QED
    BY <2>1, <1>1, Zenon DEF Slots
<1> QED
  BY <1>1, <1>2, <1>3, <1>7, <1>8, Zenon

\* The queue of ids stays within its limit and keeps an id of every group in
\* the table.
LEMMA DecodeQueues ==
    ASSUME GroupsAreQueued, NEW f \in Frame, decode(f)
    PROVE  /\ recv_group_order_' \in Seq(Group)
           /\ Len(recv_group_order_') <= kMaxReceiveGroups
           /\ DOMAIN recv_groups_' \subseteq Range(recv_group_order_')
           /\ DOMAIN recv_groups_' \subseteq Group
           /\ forgotten' \subseteq Group
           /\ \A g \in DOMAIN recv_groups_' : recv_groups_'[g] \subseteq Seqno
<1> DEFINE memory == Memory(f.group)
           kept   == (DOMAIN recv_groups_ \ memory.erase) \cup {f.group}
           pushed == Append(recv_group_order_, f.group)
<1>1. TypeOK /\ f.group \in Group /\ f.seq \in Seqno
  BY Zenon DEF GroupsAreQueued, Frame
<1>2. /\ recv_group_order_' = memory.order
      /\ DOMAIN recv_groups_' \subseteq kept
      /\ forgotten' = forgotten \cup (memory.erase \cap DOMAIN recv_groups_)
  BY Zenon DEF decode, Delivered
<1>3. \A g \in DOMAIN recv_groups_' : recv_groups_'[g] \subseteq Seqno
  BY <1>1, Zenon DEF decode, Delivered, TypeOK
<1>4. /\ pushed \in Seq(Group) /\ Len(pushed) = Len(recv_group_order_) + 1
      /\ Len(recv_group_order_) \in Nat
      /\ \A i \in 1 .. Len(recv_group_order_) : pushed[i] = recv_group_order_[i]
      /\ pushed[Len(recv_group_order_) + 1] = f.group
  BY <1>1 DEF TypeOK
<1>5. \A x : x \in Range(recv_group_order_) <=>
                \E i \in 1 .. Len(recv_group_order_) : recv_group_order_[i] = x
  BY <1>1, InRange, Zenon DEF TypeOK
<1>6. CASE f.group \in DOMAIN recv_groups_
  <2>1. memory.order = recv_group_order_ /\ memory.erase = {}
    BY <1>6, Zenon DEF Memory
  <2> QED
    BY <2>1, <1>1, <1>2, <1>3, <1>6, Zenon DEF GroupsAreQueued, TypeOK
<1>7. CASE f.group \notin DOMAIN recv_groups_
  <2>1. CASE Len(pushed) > kMaxReceiveGroups
    <3>1. memory.order = Tail(pushed) /\ memory.erase = {Head(pushed)} \ {f.group}
      BY <1>7, <2>1, Zenon DEF Memory, remember_receive_group
    <3> HIDE DEF memory
    <3>2. /\ Tail(pushed) \in Seq(Group) /\ Len(Tail(pushed)) = Len(recv_group_order_)
          /\ \A i \in 1 .. Len(recv_group_order_) : Tail(pushed)[i] = pushed[i + 1]
          /\ Head(pushed) = pushed[1]
      BY <1>4
    <3> HIDE DEF pushed
    <3>3. Len(recv_group_order_) \in 1 .. kMaxReceiveGroups
      BY <2>1, <1>4, StreamAssumption DEF GroupsAreQueued
    <3>4. \A i \in 1 .. Len(recv_group_order_) : Tail(pushed)[i] \in Range(recv_group_order_')
      <4>1. \A x : x \in Range(Tail(pushed)) <=> \E i \in 1 .. Len(Tail(pushed)) : Tail(pushed)[i] = x
        BY <3>2, InRange, Zenon
      <4>2. recv_group_order_' = Tail(pushed)
        BY <3>1, <1>2, Zenon
      <4> QED
        BY <4>1, <4>2, <3>2, Zenon
    <3>5. f.group \in Range(recv_group_order_')
      <4>1. Tail(pushed)[Len(recv_group_order_)] = f.group
        BY <3>2, <3>3, <1>4
      <4>2. Len(recv_group_order_) \in 1 .. Len(recv_group_order_)
        BY <3>3
      <4>3. Tail(pushed)[Len(recv_group_order_)] \in Range(recv_group_order_')
        BY <4>2, <3>4, Zenon
      <4> QED
        BY <4>1, <4>3, Zenon
    <3>6. ASSUME NEW g \in DOMAIN recv_groups_, g \notin memory.erase
          PROVE  g \in Range(recv_group_order_')
      <4>1. g \in Range(recv_group_order_)
        BY Zenon DEF GroupsAreQueued
      <4>2. PICK i \in 1 .. Len(recv_group_order_) : recv_group_order_[i] = g
        BY <4>1, <1>5, Zenon
      <4>3. CASE i = 1
        BY <4>2, <4>3, <3>1, <3>2, <3>5, <3>6, <1>4, Zenon
      <4>4. CASE i # 1
        <5>1. i - 1 \in 1 .. Len(recv_group_order_) /\ Tail(pushed)[i - 1] = g
          BY <4>2, <4>4, <3>2, <1>4
        <5> QED
          BY <5>1, <3>4, Zenon
      <4> QED
        BY <4>3, <4>4, Zenon
    <3>7. DOMAIN recv_groups_' \subseteq Range(recv_group_order_')
      BY <3>5, <3>6, <1>2, Zenon
    <3>8. DOMAIN recv_groups_' \subseteq Group /\ forgotten' \subseteq Group
      BY <1>1, <1>2, Zenon DEF TypeOK
    <3> QED
      BY <3>1, <3>2, <3>3, <3>7, <3>8, <1>2, <1>3
  <2>2. CASE ~(Len(pushed) > kMaxReceiveGroups)
    <3>1. memory.order = pushed /\ memory.erase = {}
      BY <1>7, <2>2, Zenon DEF Memory, remember_receive_group
    <3> HIDE DEF memory, pushed
    <3>2. Len(pushed) <= kMaxReceiveGroups
      BY <2>2, <1>4, StreamAssumption
    <3>3. f.group \in Range(pushed) /\ Range(recv_group_order_) \subseteq Range(pushed)
      <4>1. \A x : x \in Range(pushed) <=> \E i \in 1 .. Len(pushed) : pushed[i] = x
        BY <1>4, InRange, Zenon
      <4> QED
        BY <4>1, <1>4, <1>5
    <3> QED
      BY <3>1, <3>2, <3>3, <1>1, <1>2, <1>3, <1>4, Zenon DEF GroupsAreQueued, TypeOK
  <2> QED
    BY <2>1, <2>2, Zenon
<1> QED
  BY <1>6, <1>7, Zenon

\* A frame that arrives, with or without a copy staying on its way.
LEMMA ReceiveKeeps == ASSUME IInv, NEW f \in Frame, Receive(f) PROVE IInv'
<1> DEFINE g0      == f.group
           slots   == Slots(g0)
           filled  == slots \cup {f.seq}
           deliver == f.seq \notin slots /\ Cardinality(filled) >= k
<1>1. TypeOK /\ GroupsAreQueued /\ IsFiniteSet(arrived)
  BY Zenon DEF IInv, GroupsAreQueued
<1>2. /\ f \in network /\ decode(f) /\ UNCHANGED sender
      /\ \/ network' = network \ {f} /\ duplicates' = duplicates
         \/ network' = network /\ duplicates' = duplicates + 1 /\ Faults < MaxFaults
  BY Zenon DEF Receive
<1>3. g0 \in Group /\ f.seq \in Seqno
  BY Zenon DEF Frame
<1>4. /\ Slots(g0)' = IF deliver THEN {} ELSE filled
      /\ deliveries' = IF deliver THEN [deliveries EXCEPT ![g0] = @ + 1] ELSE deliveries
      /\ arrived' = arrived \cup {f}
      /\ \A g \in Group \ {g0} :
            Slots(g)' = Slots(g) \/ (Slots(g)' = {} /\ g \in forgotten')
      /\ forgotten \subseteq forgotten'
  BY <1>1, <1>2, DecodeEffect, Zenon
<1>5. /\ IsFiniteSet(slots) /\ Cardinality(slots) \in Nat /\ Cardinality(slots) < k
      /\ IsFiniteSet(filled)
      /\ Cardinality(filled) = IF f.seq \in slots THEN Cardinality(slots) ELSE Cardinality(slots) + 1
  BY <1>1, <1>3, SlotsFinite, FS_AddElement, Zenon DEF IInv, FewSlots
<1>6. IsFiniteSet({}) /\ Cardinality({}) = 0
  BY FS_EmptySet, Zenon
<1> HIDE DEF g0, slots, filled, deliver
<1>7. IsFiniteSet(arrived')
  BY <1>1, <1>4, FS_AddElement, Zenon
<1>8. /\ deliveries' \in [Group -> Nat]
      /\ deliveries'[g0] = IF deliver THEN deliveries[g0] + 1 ELSE deliveries[g0]
      /\ \A g \in Group \ {g0} : deliveries'[g] = deliveries[g]
      /\ \A g \in Group : deliveries[g] \in Nat
  BY <1>1, <1>3, <1>4 DEF TypeOK
<1>9. duplicates' \in 0 .. MaxFaults
  BY <1>1, <1>2, StreamAssumption DEF Faults, TypeOK, Run
<1>10. GroupsAreQueued'
  <2>1. /\ recv_group_order_' \in Seq(Group)
        /\ Len(recv_group_order_') <= kMaxReceiveGroups
        /\ DOMAIN recv_groups_' \subseteq Range(recv_group_order_')
        /\ DOMAIN recv_groups_' \subseteq Group
        /\ forgotten' \subseteq Group
        /\ \A g \in DOMAIN recv_groups_' : recv_groups_'[g] \subseteq Seqno
    BY <1>1, <1>2, DecodeQueues, Zenon
  <2>2. network' \subseteq Frame /\ arrived' \subseteq Frame
    BY <1>1, <1>2, <1>4, Zenon DEF TypeOK
  <2>3. UNCHANGED <<run, send_group_id_, send_seq_>>
    BY <1>2, Zenon DEF sender
  <2>4. TypeOK'
    BY <2>1, <2>2, <2>3, <1>1, <1>8, <1>9, Zenon DEF TypeOK
  <2> QED
    BY <2>1, <2>4, Zenon DEF GroupsAreQueued
<1>11. FewSlots'
  <2>1. Cardinality(Slots(g0)') < k
    <3>1. CASE deliver
      BY <3>1, <1>4, <1>6, StreamAssumption
    <3>2. CASE ~deliver
      BY <3>2, <1>4, <1>5, StreamAssumption DEF deliver
    <3> QED
      BY <3>1, <3>2, Zenon
  <2>2. \A g \in Group \ {g0} : Cardinality(Slots(g)') < k
    BY <1>4, <1>6, StreamAssumption DEF IInv, FewSlots
  <2> QED
    BY <2>1, <2>2, Zenon DEF FewSlots
<1>12. /\ ArrivedOf(g0)' = ArrivedOf(g0) \cup {f}
       /\ \A g \in Group \ {g0} : ArrivedOf(g)' = ArrivedOf(g) /\ f \notin ArrivedOf(g)
       /\ f \in ArrivedOf(g0) <=> f \in arrived
  BY <1>4, Zenon DEF ArrivedOf, g0
<1>13. AllKept'
  <2>1. ASSUME deliveries'[g0] = 0, g0 \notin forgotten'
        PROVE  {x.seq : x \in ArrivedOf(g0)'} = Slots(g0)'
    <3>1. ~deliver /\ deliveries[g0] = 0 /\ g0 \notin forgotten
      BY <2>1, <1>3, <1>4, <1>8
    <3>2. {x.seq : x \in ArrivedOf(g0)} = slots
      BY <3>1, <1>3, Zenon DEF IInv, AllKept, slots
    <3> QED
      BY <3>1, <3>2, <1>4, <1>12, Zenon DEF filled
  <2>2. ASSUME NEW g \in Group \ {g0}, deliveries'[g] = 0, g \notin forgotten'
        PROVE  {x.seq : x \in ArrivedOf(g)'} = Slots(g)'
    <3>1. deliveries[g] = 0 /\ g \notin forgotten /\ Slots(g)' = Slots(g)
      BY <2>2, <1>4, <1>8, Zenon
    <3> QED
      BY <3>1, <1>12, Zenon DEF IInv, AllKept
  <2> QED
    BY <2>1, <2>2, Zenon DEF AllKept
<1>14. SentBefore'
  BY <1>2, <1>4, Zenon DEF IInv, SentBefore, sender
<1>15. PaidFor'
  <2>1. ASSUME NEW g \in Group \ {g0}
        PROVE  k * deliveries'[g] + Cardinality(Slots(g)') + Cardinality(Copies(g)')
                   <= Cardinality(ArrivedOf(g)') + duplicates'
    <3>1. Copies(g)' = Copies(g)
      BY <1>2, <1>12, Zenon DEF Copies
    <3>2. Cardinality(Slots(g)') <= Cardinality(Slots(g)) /\ Cardinality(Slots(g)') \in Nat
      BY <1>1, <1>4, <1>6, SlotsFinite
    <3>3. /\ Cardinality(Slots(g)) \in Nat /\ Cardinality(Copies(g)) \in Nat
          /\ Cardinality(ArrivedOf(g)) \in Nat
      BY <1>1, SlotsFinite, ArrivedFinite, Zenon
    <3>4. duplicates' \in Nat /\ duplicates \in Nat /\ duplicates <= duplicates'
      BY <1>1, <1>2, <1>9 DEF TypeOK
    <3>5. k * deliveries[g] + Cardinality(Slots(g)) + Cardinality(Copies(g))
              <= Cardinality(ArrivedOf(g)) + duplicates
      BY Zenon DEF IInv, PaidFor
    <3>6. k * deliveries[g] \in Nat /\ deliveries'[g] = deliveries[g]
      BY <1>8, StreamAssumption
    <3> QED
      BY <3>1, <3>2, <3>3, <3>4, <3>5, <3>6, <1>12
  <2>2. k * deliveries'[g0] + Cardinality(Slots(g0)') <= k * deliveries[g0] + Cardinality(slots) + 1
    <3>1. CASE deliver
      <4>1. Cardinality(slots) + 1 = k
        BY <3>1, <1>5, StreamAssumption DEF deliver
      <4>2. k * (deliveries[g0] + 1) = k * deliveries[g0] + k
        BY <1>3, <1>8, StreamAssumption
      <4>3. k * deliveries[g0] \in Nat
        BY <1>3, <1>8, StreamAssumption
      <4> QED
        BY <3>1, <4>1, <4>2, <4>3, <1>4, <1>5, <1>6, <1>8
    <3>2. CASE ~deliver
      <4>1. k * deliveries[g0] \in Nat
        BY <1>3, <1>8, StreamAssumption
      <4> QED
        BY <3>2, <4>1, <1>4, <1>5, <1>8
    <3> QED
      BY <3>1, <3>2, Zenon
  <2>3. /\ IsFiniteSet(ArrivedOf(g0)) /\ Cardinality(ArrivedOf(g0)) \in Nat
        /\ IsFiniteSet(Copies(g0)) /\ Cardinality(Copies(g0)) \in Nat
    BY <1>1, ArrivedFinite, Zenon
  <2>4. Cardinality(ArrivedOf(g0)') =
            IF f \in arrived THEN Cardinality(ArrivedOf(g0)) ELSE Cardinality(ArrivedOf(g0)) + 1
    BY <2>3, <1>12, FS_AddElement, Zenon
  <2>5. f \in Copies(g0) <=> f \in arrived
    BY <1>2, <1>12, Zenon DEF Copies
  <2>6. k * deliveries[g0] + Cardinality(slots) + Cardinality(Copies(g0))
            <= Cardinality(ArrivedOf(g0)) + duplicates
    BY <1>3, Zenon DEF IInv, PaidFor, slots
  <2>7. /\ k * deliveries[g0] \in Nat /\ k * deliveries'[g0] \in Nat
        /\ Cardinality(Slots(g0)') \in Nat /\ duplicates \in Nat
    <3>1. deliveries[g0] \in Nat /\ deliveries'[g0] \in Nat
      BY <1>3, <1>8, Zenon
    <3>2. Cardinality(Slots(g0)') \in Nat
      BY <1>4, <1>5, <1>6
    <3> QED
      BY <3>1, <3>2, <1>1, StreamAssumption DEF TypeOK
  <2>8. k * deliveries'[g0] + Cardinality(Slots(g0)') + Cardinality(Copies(g0)')
            <= Cardinality(ArrivedOf(g0)') + duplicates'
    <3>1. CASE network' = network \ {f} /\ duplicates' = duplicates
      <4>1. Copies(g0)' = Copies(g0) \ {f}
        BY <3>1, <1>12, Zenon DEF Copies
      <4>2. Cardinality(Copies(g0)') =
                IF f \in arrived THEN Cardinality(Copies(g0)) - 1 ELSE Cardinality(Copies(g0))
        BY <4>1, <2>3, <2>5, FS_RemoveElement, Zenon
      <4> QED
        BY <4>2, <2>2, <2>3, <2>4, <2>6, <2>7, <3>1, <1>5
    <3>2. CASE network' = network /\ duplicates' = duplicates + 1
      <4>1. Copies(g0)' = Copies(g0) \cup {f}
        BY <3>2, <1>2, <1>12, Zenon DEF Copies
      <4>2. Cardinality(Copies(g0)') =
                IF f \in arrived THEN Cardinality(Copies(g0)) ELSE Cardinality(Copies(g0)) + 1
        BY <4>1, <2>3, <2>5, FS_AddElement, Zenon
      <4> QED
        BY <4>2, <2>2, <2>3, <2>4, <2>6, <2>7, <3>2, <1>5
    <3> QED
      BY <3>1, <3>2, <1>2, Zenon
  <2> QED
    BY <2>1, <2>8, Zenon DEF PaidFor
<1> QED
  BY <1>7, <1>10, <1>11, <1>13, <1>14, <1>15, Zenon DEF IInv

\* The encoder sends frames that are new, so that none of them has come.
LEMMA EncodeKeeps == ASSUME IInv, encode PROVE IInv'
<1> DEFINE new == Frames(send_group_id_, send_seq_)
<1>1. TypeOK
  BY Zenon DEF IInv, GroupsAreQueued
<1>2. network' = network \cup new /\ UNCHANGED <<run, duplicates, receiver>>
  BY Zenon DEF encode
<1>3. UNCHANGED <<recv_groups_, recv_group_order_, arrived, forgotten, deliveries>>
  BY <1>2, Zenon DEF receiver
<1>4. send_group_id_ \in Group
  BY <1>1, StreamAssumption DEF encode, TypeOK, Group
<1>5. \A x \in new : /\ x.run = run /\ x.group = send_group_id_
                     /\ x.seq \in send_seq_ .. k + m - 1
                     /\ ~EndsGroup(send_seq_) => x.seq = send_seq_
                     /\ x \in Frame
  <2>1. send_seq_ \in 0 .. k - 1 /\ run \in Run /\ send_seq_ .. k + m - 1 \subseteq Seqno
    BY <1>1, StreamAssumption DEF TypeOK, Seqno
  <2>2. send_seq_ \in send_seq_ .. k + m - 1
    BY <2>1, StreamAssumption
  <2> QED
    BY <2>1, <2>2, <1>4 DEF Frames, Frame
<1> HIDE DEF new
<1>6. \/ EndsGroup(send_seq_) /\ send_group_id_' = send_group_id_ + 1 /\ send_seq_' = 0
      \/ ~EndsGroup(send_seq_) /\ send_seq_' = send_seq_ + 1 /\ send_group_id_' = send_group_id_
  BY Zenon DEF encode
<1>7. send_group_id_' \in 0 .. MaxGroup /\ send_seq_' \in 0 .. k - 1
  BY <1>1, <1>4, <1>6, StreamAssumption DEF TypeOK, Group, EndsGroup
<1>8. TypeOK'
  BY <1>1, <1>2, <1>3, <1>5, <1>7, Zenon DEF TypeOK
<1>9. GroupsAreQueued' /\ IsFiniteSet(arrived')
  BY <1>3, <1>8, Zenon DEF IInv, GroupsAreQueued
<1>10. FewSlots' /\ AllKept'
  BY <1>3, Zenon DEF IInv, FewSlots, AllKept, Slots, ArrivedOf
<1>11. SentBefore'
  <2>1. ASSUME NEW x \in network \cup arrived
        PROVE  \/ x.run < run'
               \/ x.run = run' /\ x.group < send_group_id_'
               \/ x.run = run' /\ x.group = send_group_id_' /\ x.seq < send_seq_'
    <3>1. x.group \in Nat /\ x.seq \in Nat /\ x.run \in Nat /\ send_seq_ \in Nat /\ send_group_id_ \in Nat
      BY <1>1, StreamAssumption DEF TypeOK, Frame, Group, Seqno, Run
    <3> QED
      BY <3>1, <1>2, <1>6 DEF IInv, SentBefore
  <2>2. ASSUME NEW x \in new
        PROVE  \/ x.run = run' /\ x.group < send_group_id_'
               \/ x.run = run' /\ x.group = send_group_id_' /\ x.seq < send_seq_'
    BY <1>1, <1>2, <1>4, <1>5, <1>6, StreamAssumption DEF TypeOK, Group
  <2> QED
    BY <2>1, <2>2, <1>2, <1>3, Zenon DEF SentBefore
<1>12. ASSUME NEW x \in new, x \in arrived PROVE FALSE
  <2>1. /\ x.run = run /\ x.group = send_group_id_ /\ x.seq >= send_seq_ /\ x.seq \in Int
        /\ send_seq_ \in Int /\ send_group_id_ \in Int /\ run \in Int
    BY <1>1, <1>4, <1>5, StreamAssumption DEF TypeOK, Run, Group
  <2>2. \/ x.run < run \/ x.group < send_group_id_ \/ x.seq < send_seq_
    BY <1>12, Zenon DEF IInv, SentBefore
  <2> QED
    BY <2>1, <2>2
<1>13. \A g : Copies(g)' = Copies(g)
  BY <1>2, <1>3, <1>12, Zenon DEF Copies, ArrivedOf
<1>14. \A g : Slots(g)' = Slots(g) /\ ArrivedOf(g)' = ArrivedOf(g)
  BY <1>3, Zenon DEF Slots, ArrivedOf
<1>15. PaidFor'
  BY <1>2, <1>3, <1>13, <1>14, Zenon DEF IInv, PaidFor
<1> QED
  BY <1>9, <1>10, <1>11, <1>15, Zenon DEF IInv

\* A new encoder has a new number.
LEMMA RestartKeeps == ASSUME IInv, Restart PROVE IInv'
<1>1. TypeOK
  BY Zenon DEF IInv, GroupsAreQueued
<1>2. /\ run' = run + 1 /\ send_group_id_' = 0 /\ send_seq_' = 0 /\ Faults < MaxFaults
      /\ UNCHANGED <<network, duplicates, recv_groups_, recv_group_order_, arrived, forgotten, deliveries>>
  BY Zenon DEF Restart, receiver
<1>3. TypeOK'
  BY <1>1, <1>2, StreamAssumption DEF TypeOK, Faults, Run
<1>4. GroupsAreQueued' /\ IsFiniteSet(arrived')
  BY <1>2, <1>3, Zenon DEF IInv, GroupsAreQueued
<1>5. FewSlots' /\ AllKept'
  BY <1>2, Zenon DEF IInv, FewSlots, AllKept, Slots, ArrivedOf
<1>6. SentBefore'
  BY <1>1, <1>2, StreamAssumption DEF IInv, SentBefore, TypeOK, Frame, Run
<1>7. \A g : Slots(g)' = Slots(g) /\ ArrivedOf(g)' = ArrivedOf(g) /\ Copies(g)' = Copies(g)
  BY <1>2, Zenon DEF Slots, ArrivedOf, Copies
<1>8. PaidFor'
  BY <1>2, <1>7, Zenon DEF IInv, PaidFor
<1> QED
  BY <1>4, <1>5, <1>6, <1>8, Zenon DEF IInv

\* Every step keeps the invariant.
LEMMA NextIInv == IInv /\ [Next]_vars => IInv'
<1> SUFFICES ASSUME IInv, [Next]_vars PROVE IInv'
  BY Zenon
<1>1. CASE UNCHANGED vars
  <2>1. /\ UNCHANGED <<run, send_group_id_, send_seq_, network, duplicates>>
        /\ UNCHANGED <<recv_groups_, recv_group_order_, arrived, forgotten, deliveries>>
    BY <1>1, Zenon DEF vars, sender, receiver
  <2>2. GroupsAreQueued' /\ IsFiniteSet(arrived')
    BY <2>1, Zenon DEF IInv, GroupsAreQueued, TypeOK
  <2>3. \A g : Slots(g)' = Slots(g) /\ ArrivedOf(g)' = ArrivedOf(g) /\ Copies(g)' = Copies(g)
    BY <2>1, Zenon DEF Slots, ArrivedOf, Copies
  <2>4. FewSlots' /\ AllKept' /\ PaidFor'
    BY <2>1, <2>3, Zenon DEF IInv, FewSlots, AllKept, PaidFor
  <2>5. SentBefore'
    BY <2>1, Zenon DEF IInv, SentBefore
  <2> QED
    BY <2>2, <2>4, <2>5, Zenon DEF IInv
<1> QED
  BY <1>1, EncodeKeeps, RestartKeeps, ReceiveKeeps, Zenon DEF Next

\* The invariant says what the properties say.
LEMMA IInvImplies == IInv => GroupsAreQueued /\ AnyKDelivered /\ ReturnedForKFrames
<1> SUFFICES ASSUME IInv PROVE GroupsAreQueued /\ AnyKDelivered /\ ReturnedForKFrames
  BY Zenon
<1>1. GroupsAreQueued /\ TypeOK /\ IsFiniteSet(arrived)
  BY Zenon DEF IInv, GroupsAreQueued
<1>2. ASSUME NEW g \in Group, Cardinality({f.seq : f \in ArrivedOf(g)}) >= k
      PROVE  g \in Returned \cup forgotten
  <2>1. SUFFICES ASSUME g \notin Returned, g \notin forgotten PROVE FALSE
    BY Zenon
  <2>2. deliveries[g] = 0
    BY <2>1, <1>1 DEF Returned, TypeOK
  <2>3. {f.seq : f \in ArrivedOf(g)} = Slots(g)
    BY <2>1, <2>2, Zenon DEF IInv, AllKept
  <2>4. Cardinality(Slots(g)) < k /\ Cardinality(Slots(g)) \in Nat
    BY <1>1, SlotsFinite, Zenon DEF IInv, FewSlots
  <2>5. Cardinality(Slots(g)) >= k
    BY <1>2, <2>3, Zenon
  <2> QED
    BY <2>4, <2>5, StreamAssumption
<1>3. ASSUME NEW g \in Group
      PROVE  k * deliveries[g] <= Cardinality(ArrivedOf(g)) + duplicates
  <2>1. /\ Cardinality(Slots(g)) \in Nat /\ Cardinality(Copies(g)) \in Nat
        /\ Cardinality(ArrivedOf(g)) \in Nat /\ duplicates \in Nat
    BY <1>1, SlotsFinite, ArrivedFinite, SMTT(30) DEF TypeOK
  <2>2. k * deliveries[g] \in Nat
    BY <1>1, StreamAssumption DEF TypeOK
  <2>3. k * deliveries[g] + Cardinality(Slots(g)) + Cardinality(Copies(g))
            <= Cardinality(ArrivedOf(g)) + duplicates
    BY Zenon DEF IInv, PaidFor
  <2> QED
    BY <2>1, <2>2, <2>3
<1> QED
  BY <1>1, <1>2, <1>3, Zenon DEF AnyKDelivered, ReturnedForKFrames

\* For any shape of the groups, any limit and whatever is lost, reordered,
\* duplicated or restarted: the memory of FecCodec's decoder is bounded.
THEOREM DecoderIsBounded == Spec => []GroupsAreQueued
BY InitIInv, NextIInv, IInvImplies, PTL DEF Spec

\* Under the same conditions, a group of which k frames came is returned unless
\* it was pushed out.
THEOREM DecoderRecovers == Spec => []AnyKDelivered
BY InitIInv, NextIInv, IInvImplies, PTL DEF Spec

\* Under the same conditions, every time a group is returned is paid for with k
\* frames that came.
THEOREM DecoderReturnsForK == Spec => []ReturnedForKFrames
BY InitIInv, NextIInv, IInvImplies, PTL DEF Spec

-----------------------------------------------------------------------------
(* A group that is pushed out.                                             *)

\* The sender was not restarted, and parity frames and duplicates are few.
Calm == run = 1 /\ m + duplicates <= k

\* What put a group's id into the queue: the entry in the table, and the
\* entries that were returned.
Weight(g) == deliveries[g] + IF g \in DOMAIN recv_groups_ THEN 1 ELSE 0

\* g has no place, at most one and at most two places in q.
Absent(q, g) == \A i \in 1 .. Len(q) : q[i] # g
Single(q, g) == \A i, j \in 1 .. Len(q) : q[i] = g /\ q[j] = g => i = j
Double(q, g) == \A h, i, j \in 1 .. Len(q) : h < i /\ i < j => ~(q[h] = g /\ q[i] = g /\ q[j] = g)

\* g has at most w places in q, and at most two.
Places(q, g, w) == (w = 0 => Absent(q, g)) /\ (w <= 1 => Single(q, g)) /\ Double(q, g)

NoEmptyEntry == \A g \in DOMAIN recv_groups_ : recv_groups_[g] # {}

\* A group has no more places in the queue than entries that put it there.
QueuedByEntries == Calm => \A g \in Group : Places(recv_group_order_, g, Weight(g))

Light == Calm => \A g \in Group : Weight(g) \in 0 .. 2

QueueInv == IInv /\ NoEmptyEntry /\ QueuedByEntries

\* A new id takes a place behind the others.
LEMMA PlacesAppend ==
    ASSUME NEW S, NEW q \in Seq(S), NEW x \in S, NEW g, NEW w \in Nat, Places(q, g, w), g = x => w <= 1
    PROVE  Places(Append(q, x), g, IF g = x THEN w + 1 ELSE w)
<1> DEFINE p == Append(q, x)
<1>1. /\ Len(q) \in Nat /\ Len(p) = Len(q) + 1
      /\ \A i \in 1 .. Len(q) : p[i] = q[i]
      /\ p[Len(q) + 1] = x
  OBVIOUS
<1>2. \A i \in 1 .. Len(p) : i \in 1 .. Len(q) \/ i = Len(q) + 1
  BY <1>1
<1> HIDE DEF p
<1>3. CASE g # x
  <2>1. \A i \in 1 .. Len(p) : p[i] = g => i \in 1 .. Len(q) /\ q[i] = g
    BY <1>1, <1>2, <1>3, Zenon
  <2>2. (Absent(q, g) => Absent(p, g)) /\ (Single(q, g) => Single(p, g)) /\ (Double(q, g) => Double(p, g))
    BY <2>1, Zenon DEF Absent, Single, Double
  <2> QED
    BY <1>3, <2>2, Zenon DEF Places, p
<1>4. CASE g = x
  <2>1. \A i \in 1 .. Len(p) : p[i] = g => i = Len(q) + 1 \/ (i \in 1 .. Len(q) /\ q[i] = g)
    BY <1>1, <1>2, Zenon
  <2>2. Absent(q, g) => Single(p, g)
    BY <2>1, Zenon DEF Absent, Single
  <2>3. Single(q, g) => Double(p, g)
    <3> SUFFICES ASSUME Single(q, g), NEW h \in 1 .. Len(p), NEW i \in 1 .. Len(p), NEW j \in 1 .. Len(p),
                        h < i, i < j, p[h] = g, p[i] = g, p[j] = g
                 PROVE  FALSE
      BY Zenon DEF Double
    <3>1. h \in 1 .. Len(q) /\ i \in 1 .. Len(q)
      BY <1>1
    <3>2. q[h] = g /\ q[i] = g
      BY <1>1, <3>1, Zenon
    <3> QED
      BY <3>1, <3>2 DEF Single
  <2>4. (w + 1 = 0 => FALSE) /\ (w + 1 <= 1 => w = 0)
    OBVIOUS
  <2> QED
    BY <1>4, <2>2, <2>3, <2>4, Zenon DEF Places, p
<1> QED
  BY <1>3, <1>4, Zenon

\* When the first id is removed its group has a place less.
LEMMA PlacesTail ==
    ASSUME NEW S, NEW p \in Seq(S), Len(p) >= 1, NEW g, NEW w \in 0 .. 2, Places(p, g, w)
    PROVE  /\ Places(Tail(p), g, w)
           /\ p[1] = g /\ w > 0 => Places(Tail(p), g, w - 1)
<1> DEFINE t == Tail(p)
<1>1. /\ Len(p) \in Nat /\ Len(t) \in Nat /\ Len(t) = Len(p) - 1
      /\ \A i \in 1 .. Len(t) : i + 1 \in 1 .. Len(p) /\ t[i] = p[i + 1]
  OBVIOUS
<1> HIDE DEF t
<1>2. Absent(p, g) => Absent(t, g)
  BY <1>1, Zenon DEF Absent
<1>3. Single(p, g) => Single(t, g)
  BY <1>1 DEF Single
<1>4. Double(p, g) => Double(t, g)
  <2> SUFFICES ASSUME Double(p, g), NEW h \in 1 .. Len(t), NEW i \in 1 .. Len(t), NEW j \in 1 .. Len(t),
                      h < i, i < j, t[h] = g, t[i] = g, t[j] = g
               PROVE  FALSE
    BY Zenon DEF Double
  <2>1. /\ h + 1 \in 1 .. Len(p) /\ i + 1 \in 1 .. Len(p) /\ j + 1 \in 1 .. Len(p)
        /\ h + 1 < i + 1 /\ i + 1 < j + 1
        /\ p[h + 1] = g /\ p[i + 1] = g /\ p[j + 1] = g
    BY <1>1
  <2> QED
    BY <2>1, Zenon DEF Double
<1>5. p[1] = g /\ Single(p, g) => Absent(t, g)
  <2> SUFFICES ASSUME p[1] = g, Single(p, g), NEW i \in 1 .. Len(t), t[i] = g PROVE FALSE
    BY Zenon DEF Absent
  <2>1. 1 \in 1 .. Len(p) /\ i + 1 \in 1 .. Len(p) /\ p[i + 1] = g /\ i + 1 # 1
    BY <1>1
  <2> QED
    BY <2>1, Zenon DEF Single
<1>6. p[1] = g /\ Double(p, g) => Single(t, g)
  <2>1. ASSUME p[1] = g, Double(p, g), NEW i \in 1 .. Len(t), NEW j \in 1 .. Len(t), i < j, t[i] = g, t[j] = g
        PROVE  FALSE
    <3>1. /\ 1 \in 1 .. Len(p) /\ i + 1 \in 1 .. Len(p) /\ j + 1 \in 1 .. Len(p)
          /\ 1 < i + 1 /\ i + 1 < j + 1 /\ p[i + 1] = g /\ p[j + 1] = g
      BY <1>1, <2>1
    <3> QED
      BY <2>1, <3>1, Zenon DEF Double
  <2> QED
    BY <2>1 DEF Single
<1>7. Places(t, g, w)
  BY <1>2, <1>3, <1>4, Zenon DEF Places
<1>8. ASSUME p[1] = g, w > 0 PROVE Places(t, g, w - 1)
  <2>1. w - 1 = 0 => w <= 1
    OBVIOUS
  <2> QED
    BY <1>3, <1>4, <1>5, <1>6, <1>8, <2>1, Zenon DEF Places
<1> QED
  BY <1>7, <1>8, Zenon DEF t

\* A queue in which no id has more than two places has at least half as many
\* different ids as places.
LEMMA HalfAreDifferent ==
    ASSUME NEW S, NEW q \in Seq(S), \A g \in S : Double(q, g)
    PROVE  /\ IsFiniteSet(Range(q))
           /\ Len(q) <= 2 * Cardinality(Range(q))
<1> DEFINE D == 1 .. Len(q)
           R == Range(q)
           Again(i) == \E j \in D : j < i /\ q[j] = q[i]
           F == [i \in D |-> <<q[i], IF Again(i) THEN 1 ELSE 0>>]
<1>1. Len(q) \in Nat /\ IsFiniteSet(D) /\ Cardinality(D) = Len(q)
  <2>1. Len(q) \in Nat
    OBVIOUS
  <2> QED
    BY <2>1, FS_Interval
<1>2. /\ \A i \in D : q[i] \in R /\ q[i] \in S
      /\ \A x \in R : \E i \in D : q[i] = x
  BY InRange
<1>3. IsFiniteSet(R)
  <2>1. [i \in D |-> q[i]] \in Surjection(D, R)
    BY <1>2, Zenon DEF Surjection
  <2> QED
    BY <1>1, <2>1, FS_Surjection, Zenon
<1>4. IsFiniteSet({0, 1}) /\ Cardinality({0, 1}) = 2
  <2>1. IsFiniteSet({0}) /\ Cardinality({0}) = 1
    BY FS_Singleton, Zenon
  <2>2. 1 \notin {0} /\ {0, 1} = {0} \cup {1}
    OBVIOUS
  <2>3. IsFiniteSet({0} \cup {1}) /\ Cardinality({0} \cup {1}) = Cardinality({0}) + 1
    BY <2>1, <2>2, FS_AddElement, Zenon
  <2> QED
    BY <2>1, <2>2, <2>3
<1>5. IsFiniteSet(R \X {0, 1}) /\ Cardinality(R \X {0, 1}) = Cardinality(R) * 2
  BY <1>3, <1>4, FS_Product, Zenon
<1>6. F \in Injection(D, R \X {0, 1})
  <2>1. F \in [D -> R \X {0, 1}]
    BY <1>2, Zenon
  <2>2. ASSUME NEW i \in D, NEW j \in D, i < j, F[i] = F[j] PROVE FALSE
    <3>1. q[i] = q[j] /\ (Again(i) <=> Again(j))
      BY <2>2
    <3>2. Again(j)
      BY <2>2, <3>1, Zenon
    <3>3. PICK h \in D : h < i /\ q[h] = q[i]
      BY <3>1, <3>2, Zenon
    <3>4. Double(q, q[i])
      BY <1>2, Zenon
    <3> QED
      BY <2>2, <3>1, <3>3, <3>4, Zenon DEF Double
  <2>3. \A i, j \in D : F[i] = F[j] => i = j
    <3> SUFFICES ASSUME NEW i \in D, NEW j \in D, F[i] = F[j] PROVE i = j
      BY Zenon
    <3>1. i \in Int /\ j \in Int
      OBVIOUS
    <3> HIDE DEF F
    <3>2. ~(i < j) /\ ~(j < i)
      BY <2>2, Zenon
    <3> QED
      BY <3>1, <3>2
  <2> HIDE DEF F
  <2> QED
    BY <2>1, <2>3, Zenon DEF Injection, IsInjective
<1> HIDE DEF F, D, R
<1>7. Cardinality(D) <= Cardinality(R \X {0, 1})
  BY <1>5, <1>6, FS_Injection, Zenon
<1>8. Cardinality(R) \in Nat
  BY <1>3, FS_CardinalityType, Zenon
<1> QED
  BY <1>1, <1>3, <1>5, <1>7, <1>8 DEF R

\* What decode does to the queue and to what a group's places are owed to: the
\* first frame of a group queues its id, and the id that leaves a full queue
\* takes the entry of its group with it.
LEMMA DecodeWeighs ==
    ASSUME GroupsAreQueued, NEW f \in Frame, decode(f)
    PROVE  LET pushed == Append(recv_group_order_, f.group)
           IN  \/ /\ recv_group_order_' = recv_group_order_
                  /\ \A g \in Group : Weight(g)' = Weight(g) /\ (g # f.group => (g \in DOMAIN recv_groups_' <=> g \in DOMAIN recv_groups_))
               \/ /\ Weight(f.group)' = Weight(f.group) + 1
                  /\ recv_group_order_' = pushed
                  /\ \A g \in Group \ {f.group} :
                        Weight(g)' = Weight(g) /\ (g \in DOMAIN recv_groups_' <=> g \in DOMAIN recv_groups_)
               \/ /\ Weight(f.group)' = Weight(f.group) + 1
                  /\ Len(recv_group_order_) = kMaxReceiveGroups
                  /\ recv_group_order_' = Tail(pushed)
                  /\ \A g \in Group \ {f.group} :
                        \/ Weight(g)' = Weight(g) /\ (g \in DOMAIN recv_groups_' <=> g \in DOMAIN recv_groups_)
                        \/ Weight(g) > 0 /\ Weight(g)' = Weight(g) - 1 /\ pushed[1] = g
<1> DEFINE memory  == Memory(f.group)
           slots   == IF f.group \in DOMAIN recv_groups_ THEN recv_groups_[f.group] ELSE {}
           filled  == slots \cup {f.seq}
           kept    == (DOMAIN recv_groups_ \ memory.erase) \cup {f.group}
           groups  == [g \in kept |-> IF g = f.group THEN filled ELSE recv_groups_[g]]
           deliver == f.seq \notin slots /\ Complete(filled)
           pushed  == Append(recv_group_order_, f.group)
<1>1. TypeOK /\ f.group \in Group /\ Len(recv_group_order_) \in Nat /\ Len(recv_group_order_) <= kMaxReceiveGroups
  BY DEF GroupsAreQueued, TypeOK, Frame
<1>2. /\ recv_group_order_' = memory.order
      /\ recv_groups_' = IF deliver THEN Delivered(groups, f.group) ELSE groups
      /\ deliveries' = IF deliver THEN [deliveries EXCEPT ![f.group] = @ + 1] ELSE deliveries
  BY Zenon DEF decode
<1>3. /\ deliver => DOMAIN recv_groups_' = kept \ {f.group}
      /\ ~deliver => DOMAIN recv_groups_' = kept
  BY <1>2, Zenon DEF Delivered
<1>4. /\ Len(pushed) = Len(recv_group_order_) + 1 /\ Head(pushed) = pushed[1]
  BY <1>1 DEF TypeOK
<1>5. /\ f.group \in DOMAIN recv_groups_ => memory.order = recv_group_order_ /\ memory.erase = {}
      /\ f.group \notin DOMAIN recv_groups_ /\ Len(pushed) > kMaxReceiveGroups =>
            memory.order = Tail(pushed) /\ memory.erase = {Head(pushed)} \ {f.group}
      /\ f.group \notin DOMAIN recv_groups_ /\ ~(Len(pushed) > kMaxReceiveGroups) =>
            memory.order = pushed /\ memory.erase = {}
  BY Zenon DEF Memory, remember_receive_group
<1> HIDE DEF memory, groups, deliver, pushed
<1>6. \A g \in Group : deliveries[g] \in Nat
  BY <1>1, Zenon DEF TypeOK
<1>7. /\ deliver => deliveries'[f.group] = deliveries[f.group] + 1
      /\ ~deliver => deliveries'[f.group] = deliveries[f.group]
      /\ \A g \in Group \ {f.group} : deliveries'[g] = deliveries[g]
  BY <1>1, <1>2, Zenon DEF TypeOK
<1>8. Weight(f.group)' = deliveries[f.group] + 1
  BY <1>3, <1>6, <1>7, <1>1 DEF Weight
<1>9. \A g \in Group \ {f.group} :
          /\ Weight(g)' = deliveries[g] + IF g \in DOMAIN recv_groups_ /\ g \notin memory.erase THEN 1 ELSE 0
          /\ g \in DOMAIN recv_groups_' <=> g \in DOMAIN recv_groups_ /\ g \notin memory.erase
  BY <1>3, <1>7, Zenon DEF Weight
<1>10. CASE f.group \in DOMAIN recv_groups_
  BY <1>2, <1>5, <1>8, <1>9, <1>10 DEF Weight
<1>11. CASE f.group \notin DOMAIN recv_groups_ /\ ~(Len(pushed) > kMaxReceiveGroups)
  <2>1. Weight(f.group)' = Weight(f.group) + 1
    BY <1>1, <1>6, <1>8, <1>11 DEF Weight
  <2> QED
    BY <1>2, <1>5, <1>9, <1>11, <2>1 DEF Weight, pushed
<1>12. CASE f.group \notin DOMAIN recv_groups_ /\ Len(pushed) > kMaxReceiveGroups
  <2>1. Weight(f.group)' = Weight(f.group) + 1
    BY <1>1, <1>6, <1>8, <1>12 DEF Weight
  <2>2. Len(recv_group_order_) = kMaxReceiveGroups
    BY <1>1, <1>4, <1>12, StreamAssumption
  <2>3. ASSUME NEW g \in Group \ {f.group}
        PROVE  \/ Weight(g)' = Weight(g) /\ (g \in DOMAIN recv_groups_' <=> g \in DOMAIN recv_groups_)
               \/ Weight(g) > 0 /\ Weight(g)' = Weight(g) - 1 /\ pushed[1] = g
    <3>1. CASE g \in DOMAIN recv_groups_ /\ g \in memory.erase
      <4>1. pushed[1] = g /\ Weight(g) = deliveries[g] + 1 /\ Weight(g)' = deliveries[g] + 0
        BY <1>4, <1>5, <1>9, <1>12, <3>1, Zenon DEF Weight
      <4> QED
        BY <1>6, <4>1
    <3>2. CASE ~(g \in DOMAIN recv_groups_ /\ g \in memory.erase)
      BY <1>9, <3>2, Zenon DEF Weight
    <3> QED
      BY <3>1, <3>2, Zenon
  <2> QED
    BY <1>2, <1>5, <1>12, <2>1, <2>2, <2>3, Zenon DEF pushed
<1> QED
  BY <1>10, <1>11, <1>12, Zenon

\* A group has at most k + m frames; with few duplicates they are enough to
\* return it twice, or once and to begin it again.
LEMMA WeightBound == IInv /\ NoEmptyEntry => Light
<1> SUFFICES ASSUME IInv, NoEmptyEntry, Calm, NEW g \in Group PROVE Weight(g) \in 0 .. 2
  BY Zenon DEF Light
<1> DEFINE d == deliveries[g]
           a == Cardinality(ArrivedOf(g))
           s == Cardinality(Slots(g))
           c == Cardinality(Copies(g))
<1>1. TypeOK /\ IsFiniteSet(arrived)
  BY Zenon DEF IInv, GroupsAreQueued
<1>2. d \in Nat /\ duplicates \in Nat /\ k \in Nat \ {0} /\ m \in Nat
  BY <1>1, StreamAssumption DEF TypeOK
<1>3. a \in Nat /\ s \in Nat /\ c \in Nat /\ IsFiniteSet(Slots(g))
  BY <1>1, SlotsFinite, ArrivedFinite, Zenon
<1>4. k * d + s + c <= a + duplicates
  BY Zenon DEF IInv, PaidFor
<1>5. a <= k + m
  <2>1. IsFiniteSet(Seqno) /\ Cardinality(Seqno) = k + m
    <3>1. 0 \in Int /\ k + m - 1 \in Int /\ ~(0 > k + m - 1) /\ (k + m - 1) - 0 + 1 = k + m
      BY <1>2
    <3>2. /\ IsFiniteSet(0 .. k + m - 1)
          /\ Cardinality(0 .. k + m - 1) = IF 0 > k + m - 1 THEN 0 ELSE (k + m - 1) - 0 + 1
      BY <3>1, FS_Interval, Zenon
    <3> QED
      BY <3>1, <3>2, Zenon DEF Seqno
  <2>2. \A f \in ArrivedOf(g) : f \in Frame /\ f.group = g /\ f.run = 1 /\ f.seq \in Seqno
    <3> SUFFICES ASSUME NEW f \in ArrivedOf(g) PROVE f \in Frame /\ f.group = g /\ f.run = 1 /\ f.seq \in Seqno
      BY Zenon
    <3>1. f \in Frame /\ f.group = g /\ f \in arrived
      BY <1>1, Zenon DEF ArrivedOf, TypeOK
    <3>2. f.run \in Nat /\ f.run >= 1 /\ f.seq \in Seqno
      BY <3>1 DEF Frame, Run
    <3>3. f.run < 1 \/ f.run = 1
      BY <3>1, Zenon DEF IInv, SentBefore, Calm
    <3> QED
      BY <3>1, <3>2, <3>3
  <2>3. \A e, f \in ArrivedOf(g) : e.seq = f.seq => e = f
    BY <2>2 DEF Frame
  <2>4. [f \in ArrivedOf(g) |-> f.seq] \in Injection(ArrivedOf(g), Seqno)
    BY <2>2, <2>3, Zenon DEF Injection, IsInjective
  <2> QED
    BY <2>1, <2>4, FS_Injection
<1>6. m + duplicates <= k
  BY Zenon DEF Calm
<1>7. g \in DOMAIN recv_groups_ => s >= 1
  <2> SUFFICES ASSUME g \in DOMAIN recv_groups_, s = 0 PROVE FALSE
    BY <1>3
  <2>1. Slots(g) = {}
    BY <1>3, FS_EmptySet, Zenon
  <2> QED
    BY <2>1, Zenon DEF Slots, NoEmptyEntry
<1> HIDE DEF d, a, s, c
<1>8. k * d + s <= 2 * k
  BY <1>2, <1>3, <1>4, <1>5, <1>6
<1>9. d <= 2
  <2> SUFFICES ASSUME d >= 3 PROVE FALSE
    BY <1>2
  <2>1. k * d >= 3 * k
    BY <1>2
  <2> QED
    BY <1>2, <1>3, <1>8, <2>1
<1>10. s >= 1 => d <= 1
  <2> SUFFICES ASSUME s >= 1, d = 2 PROVE FALSE
    BY <1>2, <1>9
  <2>1. k * d = 2 * k
    BY <1>2
  <2> QED
    BY <1>2, <1>3, <1>8, <2>1
<1>11. Weight(g) = d + IF g \in DOMAIN recv_groups_ THEN 1 ELSE 0
  BY Zenon DEF Weight, d
<1> QED
  BY <1>2, <1>7, <1>9, <1>10, <1>11

\* The entry of a group has the slot of its first frame.
LEMMA DecodeFills == ASSUME NoEmptyEntry, NEW f \in Frame, decode(f) PROVE NoEmptyEntry'
  BY Zenon DEF NoEmptyEntry, decode, Delivered

\* A frame that arrives keeps the ids in as many places as there were entries.
LEMMA ReceiveQueues == ASSUME QueueInv, NEW f \in Frame, Receive(f), Light' PROVE QueuedByEntries'
<1> DEFINE q      == recv_group_order_
           pushed == Append(q, f.group)
<1>1. GroupsAreQueued /\ TypeOK /\ Light /\ QueuedByEntries
  BY WeightBound, Zenon DEF QueueInv, IInv, GroupsAreQueued
<1>2. decode(f) /\ f.group \in Group /\ q \in Seq(Group)
  BY <1>1, Zenon DEF Receive, Frame, TypeOK
<1>3. SUFFICES ASSUME Calm', NEW g \in Group PROVE Places(q', g, Weight(g)')
  BY Zenon DEF QueuedByEntries
<1>4. Calm
  <2>1. run' = run /\ duplicates' >= duplicates /\ duplicates \in Nat
    BY <1>1 DEF Receive, sender, TypeOK
  <2>2. duplicates' \in Nat
    BY <1>1 DEF Receive, TypeOK
  <2>3. run' = 1 /\ m + duplicates' <= k
    BY <1>3, Zenon DEF Calm
  <2>4. m + duplicates <= k
    <3>1. \A a, b, c, d \in Nat : a + b <= c /\ b >= d => a + d <= c
      OBVIOUS
    <3>2. m \in Nat /\ k \in Nat
      BY StreamAssumption, Zenon
    <3> QED
      BY <2>1, <2>2, <2>3, <3>1, <3>2, Zenon
  <2> QED
    BY <2>1, <2>3, <2>4, Zenon DEF Calm
<1>5. Weight(g) \in 0 .. 2 /\ Weight(g)' \in 0 .. 2 /\ Places(q, g, Weight(g))
  BY <1>1, <1>3, <1>4, Zenon DEF Light, QueuedByEntries
<1>6. CASE q' = q /\ Weight(g)' = Weight(g)
  BY <1>5, <1>6, Zenon
<1>7. ASSUME Weight(f.group)' = Weight(f.group) + 1
      PROVE  Places(pushed, g, IF g = f.group THEN Weight(g) + 1 ELSE Weight(g))
  <2>1. g = f.group => Weight(g) <= 1
    BY <1>5, <1>7
  <2> QED
    BY <1>2, <1>5, <2>1, PlacesAppend
<1>8. CASE /\ Weight(f.group)' = Weight(f.group) + 1 /\ q' = pushed
           /\ g # f.group => Weight(g)' = Weight(g)
  BY <1>7, <1>8, Zenon
<1>9. CASE /\ Weight(f.group)' = Weight(f.group) + 1 /\ q' = Tail(pushed)
           /\ g # f.group => \/ Weight(g)' = Weight(g)
                             \/ Weight(g) > 0 /\ Weight(g)' = Weight(g) - 1 /\ pushed[1] = g
  <2> DEFINE w == IF g = f.group THEN Weight(g) + 1 ELSE Weight(g)
  <2>1. pushed \in Seq(Group) /\ Len(pushed) >= 1
    BY <1>2
  <2>2. w \in 0 .. 2
    BY <1>5, <1>9, Zenon
  <2>3. Places(pushed, g, w)
    BY <1>7, <1>9, Zenon
  <2> HIDE DEF pushed, w
  <2>4. Places(Tail(pushed), g, w) /\ (pushed[1] = g /\ w > 0 => Places(Tail(pushed), g, w - 1))
    BY <2>1, <2>2, <2>3, PlacesTail, Zenon
  <2> QED
    BY <1>9, <2>4, Zenon DEF w
<1> QED
  BY <1>1, <1>2, <1>6, <1>8, <1>9, DecodeWeighs, Zenon

\* Nothing is queued at the start.
LEMMA InitQueue == Init => QueueInv
<1> SUFFICES ASSUME Init PROVE QueueInv
  BY Zenon
<1>1. recv_group_order_ = <<>> /\ Len(recv_group_order_) = 0 /\ DOMAIN recv_groups_ = {}
  BY DEF Init
<1>2. NoEmptyEntry
  BY <1>1, Zenon DEF NoEmptyEntry
<1>3. QueuedByEntries
  BY <1>1 DEF QueuedByEntries, Places, Absent, Single, Double
<1> QED
  BY <1>2, <1>3, InitIInv, Zenon DEF QueueInv

\* Every step keeps the stronger invariant.
LEMMA NextQueue == QueueInv /\ [Next]_vars => QueueInv'
<1> SUFFICES ASSUME QueueInv, [Next]_vars PROVE QueueInv'
  BY Zenon
<1>1. IInv'
  BY NextIInv, Zenon DEF QueueInv
<1>2. CASE UNCHANGED receiver /\ (Calm' => Calm)
  <2>1. UNCHANGED <<recv_groups_, recv_group_order_, deliveries>>
    BY <1>2, Zenon DEF receiver
  <2>2. NoEmptyEntry'
    BY <2>1, Zenon DEF QueueInv, NoEmptyEntry
  <2>3. \A g : Weight(g)' = Weight(g)
    BY <2>1, Zenon DEF Weight
  <2>4. QueuedByEntries'
    BY <1>2, <2>1, <2>3, Zenon DEF QueueInv, QueuedByEntries
  <2> QED
    BY <1>1, <2>2, <2>4, Zenon DEF QueueInv
<1>3. CASE UNCHANGED vars
  <2>1. UNCHANGED <<receiver, run, duplicates>>
    BY <1>3, Zenon DEF vars, sender
  <2> QED
    BY <1>2, <2>1, Zenon DEF Calm
<1>4. CASE encode
  <2>1. UNCHANGED <<receiver, run, duplicates>>
    BY <1>4, Zenon DEF encode
  <2> QED
    BY <1>2, <2>1, Zenon DEF Calm
<1>5. CASE Restart
  <2>1. UNCHANGED receiver /\ run' = run + 1 /\ run \in Nat \ {0}
    BY <1>5 DEF Restart, QueueInv, IInv, GroupsAreQueued, TypeOK, Run
  <2>2. ~Calm'
    BY <2>1 DEF Calm
  <2> QED
    BY <1>2, <2>1, <2>2, Zenon
<1>6. ASSUME NEW f \in Frame, Receive(f) PROVE QueueInv'
  <2>1. NoEmptyEntry'
    BY <1>6, DecodeFills, Zenon DEF QueueInv, Receive
  <2>2. Light'
    <3>1. (IInv /\ NoEmptyEntry => Light)'
      BY WeightBound, PTL
    <3> QED
      BY <1>1, <2>1, <3>1, Zenon
  <2>3. QueuedByEntries'
    BY <1>6, <2>2, ReceiveQueues, Zenon
  <2> QED
    BY <1>1, <2>1, <2>3, Zenon DEF QueueInv
<1> QED
  BY <1>3, <1>4, <1>5, <1>6, Zenon DEF Next

\* A group leaves the table without being returned only when its id leaves the
\* full queue, in which every other id has at most two places.
LEMMA PushesOut ==
    ASSUME QueueInv, QueueInv', [Next]_vars, NEW g \in DOMAIN recv_groups_ \ DOMAIN recv_groups_',
           run = 1, m + duplicates' <= k, g \notin Returned'
    PROVE  2 * Cardinality(Range(recv_group_order_') \ {g}) >= kMaxReceiveGroups
<1> DEFINE q == recv_group_order_'
<1>1. PICK f \in Frame : Receive(f)
  BY Zenon DEF Next, encode, Restart, vars, receiver
<1>2. GroupsAreQueued /\ TypeOK /\ TypeOK' /\ g \in Group /\ decode(f) /\ f.group \in Group
  BY <1>1, Zenon DEF QueueInv, IInv, GroupsAreQueued, TypeOK, Receive, Frame
<1>3. Calm'
  BY <1>1, Zenon DEF Calm, Receive, sender
<1>4. q \in Seq(Group) /\ \A h \in Group : Places(q, h, Weight(h)')
  BY <1>2, <1>3, Zenon DEF QueueInv, QueuedByEntries, TypeOK
<1>5. deliveries'[g] = 0 /\ deliveries[g] \in Nat
  BY <1>2 DEF Returned, TypeOK
<1>6. Weight(g)' = 0 /\ Weight(g) = deliveries[g] + 1
  BY <1>5 DEF Weight
<1>7. Weight(g)' # Weight(g) /\ Weight(g)' # Weight(g) + 1
  BY <1>5, <1>6
<1>8. g # f.group
  BY <1>2, <1>7, DecodeWeighs, Zenon
<1>9. Len(recv_group_order_) = kMaxReceiveGroups /\ q = Tail(Append(recv_group_order_, f.group))
  BY <1>2, <1>7, <1>8, DecodeWeighs, Zenon
<1>10. Len(q) = kMaxReceiveGroups
  <2> DEFINE pushed == Append(recv_group_order_, f.group)
  <2>1. pushed \in Seq(Group) /\ Len(pushed) = Len(recv_group_order_) + 1 /\ Len(recv_group_order_) \in Nat
    BY <1>2 DEF TypeOK
  <2>2. Len(Tail(pushed)) = Len(pushed) - 1
    <3>1. pushed # <<>>
      BY <2>1
    <3> HIDE DEF pushed
    <3> QED
      BY <2>1, <3>1
  <2> HIDE DEF pushed
  <2> QED
    BY <1>9, <2>1, <2>2 DEF pushed
<1>11. Range(q) \ {g} = Range(q)
  <2>1. Absent(q, g)
    BY <1>2, <1>4, <1>6, Zenon DEF Places
  <2> QED
    BY <1>4, <2>1, InRange, Zenon DEF Absent
<1>12. \A h \in Group : Double(q, h)
  BY <1>4, Zenon DEF Places
<1> HIDE DEF q
<1>13. IsFiniteSet(Range(q)) /\ Len(q) <= 2 * Cardinality(Range(q))
  BY <1>4, <1>12, HalfAreDifferent, Zenon
<1>14. Cardinality(Range(q)) \in Nat
  BY <1>13, FS_CardinalityType, Zenon
<1> QED
  BY <1>10, <1>11, <1>13, <1>14, StreamAssumption, Zenon DEF q

\* For any shape of the groups, any limit and whatever is lost and reordered:
\* while parity frames and duplicates are no more than k, FecCodec's decoder
\* gives up an incomplete group only after half as many others as it remembers.
THEOREM DecoderForgetsLate == Spec => PushedOutByMany
<1>1. ASSUME QueueInv, QueueInv', [Next]_vars
      PROVE  [\A g \in DOMAIN recv_groups_ \ DOMAIN recv_groups_' :
                run = 1 /\ m + duplicates' <= k /\ g \notin Returned' =>
                    2 * Cardinality(Range(recv_group_order_') \ {g}) >= kMaxReceiveGroups]_vars
  BY <1>1, PushesOut, Zenon
<1> QED
  BY <1>1, InitQueue, NextQueue, PTL DEF Spec, PushedOutByMany
=============================================================================
