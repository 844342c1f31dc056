------------------------------ MODULE FecStream ------------------------------
(***************************************************************************)
(* The encoder UdpTransport keeps for an endpoint, the datagrams on their  *)
(* way, and the decoder the other node keeps for that endpoint.  Datagrams *)
(* may be lost, reordered and duplicated, and the sending process may be   *)
(* restarted, which starts a new encoder at group 0 while the decoder of   *)
(* the other node lives on.  FecCodec shows what k frames of one group     *)
(* decode to; here a frame is its place in the stream.  (A group that was  *)
(* incomplete when the sender restarted is completed with the frames of    *)
(* the new group of that number: what it decodes to is neither.)           *)
(***************************************************************************)
EXTENDS Naturals, Sequences, FiniteSets, Functions

CONSTANTS k, m,               \* data and parity frames of a group
          kMaxReceiveGroups,  \* how many group ids the decoder remembers
          MaxGroup,           \* bound: groups the first encoder starts
          MaxGroupAgain,      \* bound: groups an encoder starts after a restart
          MaxFaults           \* bound: restarts and duplicated datagrams together

ASSUME StreamAssumption ==
    /\ k \in Nat \ {0}
    /\ m \in Nat \ {0}
    /\ k + m <= 254
    /\ kMaxReceiveGroups \in Nat \ {0}
    /\ MaxGroup \in Nat /\ MaxGroupAgain \in 0 .. MaxGroup /\ MaxFaults \in Nat

Group == 0 .. MaxGroup - 1
Seqno == 0 .. k + m - 1
Run == 1 .. MaxFaults + 1
Frame == [run : Run, group : Group, seq : Seqno]

VARIABLES run,                \* the sending process
          send_group_id_, send_seq_,
          network,            \* datagrams on their way; one that never arrives is lost
          duplicates,         \* datagrams duplicated so far
          recv_groups_,       \* of a remembered group: the slots that are filled
          recv_group_order_,
          arrived,            \* history: the frames the decoder has been given
          forgotten,          \* history: the groups erased before they were delivered
          deliveries          \* history: how often decode returned a group

sender   == <<run, send_group_id_, send_seq_>>
receiver == <<recv_groups_, recv_group_order_, arrived, forgotten, deliveries>>
vars     == <<sender, network, duplicates, receiver>>

Init ==
    /\ run = 1
    /\ send_group_id_ = 0
    /\ send_seq_ = 0
    /\ network = {}
    /\ duplicates = 0
    /\ recv_groups_ = <<>>
    /\ recv_group_order_ = <<>>
    /\ arrived = {}
    /\ forgotten = {}
    /\ deliveries = [g \in Group |-> 0]

-----------------------------------------------------------------------------
\* The packet with number seq is the last one of its group.
EndsGroup(seq) == seq + 1 = k

\* The frames send_packet sends for it: the data frame, and behind the last
\* one the parity frames.
Frames(g, seq) ==
    {[run |-> run, group |-> g, seq |-> q] : q \in IF EndsGroup(seq) THEN seq .. k + m - 1 ELSE {seq}}

Faults == (run - 1) + duplicates

\* A payload that is too long throws before anything changes.
encode ==
    /\ send_group_id_ < IF run = 1 THEN MaxGroup ELSE MaxGroupAgain
    /\ network' = network \cup Frames(send_group_id_, send_seq_)
    /\ IF EndsGroup(send_seq_)
       THEN send_group_id_' = send_group_id_ + 1 /\ send_seq_' = 0
       ELSE send_seq_' = send_seq_ + 1 /\ UNCHANGED send_group_id_
    /\ UNCHANGED <<run, duplicates, receiver>>

\* The peer's process ends and a new one binds the same endpoint.
Restart ==
    /\ Faults < MaxFaults
    /\ run' = run + 1
    /\ send_group_id_' = 0
    /\ send_seq_' = 0
    /\ UNCHANGED <<network, duplicates, receiver>>

-----------------------------------------------------------------------------
\* The queue grows without bound.
FaultyRemember(order, group_id) == [order |-> Append(order, group_id), erase |-> {}]

\* remember_receive_group: the new order and the groups it erases.
remember_receive_group(order, group_id) ==
    LET pushed == Append(order, group_id)
    IN  IF Len(pushed) > kMaxReceiveGroups
        THEN [order |-> Tail(pushed), erase |-> {Head(pushed)} \ {group_id}]
        ELSE [order |-> pushed, erase |-> {}]

\* Every frame of a group queues its id again.
FaultyMemory(group_id) == remember_receive_group(recv_group_order_, group_id)

\* Only the first frame of a group that is not in the table is remembered.
Memory(group_id) ==
    IF group_id \in DOMAIN recv_groups_ THEN [order |-> recv_group_order_, erase |-> {}]
    ELSE remember_receive_group(recv_group_order_, group_id)

\* A complete group waits for one more frame.
FaultyComplete(slots) == Cardinality(slots) > k

\* try_deliver has k slots to work with.
Complete(slots) == Cardinality(slots) >= k

\* The group is kept, with its frames, after it was delivered.
FaultyDelivered(groups, group_id) == groups

\* The delivered flag is set on an entry that is erased at once.
Delivered(groups, group_id) == [g \in DOMAIN groups \ {group_id} |-> groups[g]]

\* decode, for the frame f.
decode(f) ==
    LET memory  == Memory(f.group)
        slots   == IF f.group \in DOMAIN recv_groups_ THEN recv_groups_[f.group] ELSE {}
        filled  == slots \cup {f.seq}
        kept    == (DOMAIN recv_groups_ \ memory.erase) \cup {f.group}
        groups  == [g \in kept |-> IF g = f.group THEN filled ELSE recv_groups_[g]]
        deliver == f.seq \notin slots /\ Complete(filled)
    IN  /\ recv_group_order_' = memory.order
        /\ recv_groups_' = IF deliver THEN Delivered(groups, f.group) ELSE groups
        /\ deliveries' = IF deliver THEN [deliveries EXCEPT ![f.group] = @ + 1] ELSE deliveries
        /\ arrived' = arrived \cup {f}
        /\ forgotten' = forgotten \cup (memory.erase \cap DOMAIN recv_groups_)

\* A datagram arrives; the network may keep a copy.
Receive(f) ==
    /\ f \in network
    /\ \/ network' = network \ {f} /\ UNCHANGED duplicates
       \/ /\ Faults < MaxFaults
          /\ duplicates' = duplicates + 1
          /\ UNCHANGED network
    /\ decode(f)
    /\ UNCHANGED sender

Next == encode \/ Restart \/ \E f \in Frame : Receive(f)

Spec == Init /\ [][Next]_vars

-----------------------------------------------------------------------------
\* The types of encoder, network and decoder; the encoder's seq stays below k.
TypeOK ==
    /\ run \in Run
    /\ send_group_id_ \in 0 .. MaxGroup
    /\ send_seq_ \in 0 .. k - 1
    /\ network \subseteq Frame
    /\ duplicates \in 0 .. MaxFaults
    /\ DOMAIN recv_groups_ \subseteq Group
    /\ \A g \in DOMAIN recv_groups_ : recv_groups_[g] \subseteq Seqno
    /\ recv_group_order_ \in Seq(Group)
    /\ arrived \subseteq Frame
    /\ forgotten \subseteq Group
    /\ deliveries \in [Group -> Nat]

\* The groups that decode has returned.
Returned == {g \in Group : deliveries[g] > 0}

ArrivedOf(g) == {f \in arrived : f.group = g}

\* The decoder's memory is bounded: the queue of ids never exceeds its limit,
\* and no group is in the table without an id in the queue that will erase it,
\* although a group's id may be queued again after it was delivered.
GroupsAreQueued ==
    /\ TypeOK
    /\ Len(recv_group_order_) <= kMaxReceiveGroups
    /\ DOMAIN recv_groups_ \subseteq Range(recv_group_order_)

\* Any k frames of a group are enough, in whatever order they arrive and
\* whatever else arrives between them: a group of which k frames arrived has
\* been returned unless it was pushed out of the decoder's memory.
AnyKDelivered ==
    \A g \in Group :
        Cardinality({f.seq : f \in ArrivedOf(g)}) >= k => g \in Returned \cup forgotten

\* A group is returned again only for k further frames: with fewer than k
\* parity frames, only when the network duplicates datagrams or the sender
\* has been restarted.  (The delivered flag does not see to it: the entry that
\* carries it is erased.)
ReturnedForKFrames ==
    \A g \in Group :
        k * deliveries[g] <= Cardinality(ArrivedOf(g)) + duplicates

\* A group that has not been returned is pushed out only by groups that came
\* after it, and by no fewer than half as many as the decoder remembers (a
\* group can take two places in the queue, before and after it was returned),
\* as long as the sender is not restarted and the parity frames and duplicates
\* are no more than k, too few for a third place.
PushedOutByMany ==
    [][\A g \in DOMAIN recv_groups_ \ DOMAIN recv_groups_' :
         run = 1 /\ m + duplicates' <= k /\ g \notin Returned' =>
             2 * Cardinality(Range(recv_group_order_') \ {g}) >= kMaxReceiveGroups]_vars
==============================================================================
