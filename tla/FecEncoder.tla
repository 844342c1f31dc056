----------------------------- MODULE FecEncoder -----------------------------
(***************************************************************************)
(* FecCodec::encode on the one encoder UdpTransport keeps for an endpoint, *)
(* called by several threads: the routing thread, the heartbeat thread     *)
(* (its keep-alives) and application threads all reach send_packet, which  *)
(* takes no lock.  The accesses to the encoder's members are unordered; an *)
(* outcome of the race that needs no torn access is an interleaving of the *)
(* header, the buffering with the increment, and the test with the reset.  *)
(***************************************************************************)
EXTENDS Naturals, Sequences

CONSTANTS Thread,
          k,            \* data frames of a group
          MaxPackets    \* bound: calls of encode

VARIABLES
    send_group_id_, send_seq_,
    send_buf_,      \* the group and number of the frame each buffered payload was sent in
    pc,             \* a thread is "idle", has made its header or has counted its packet
    frame,          \* the header a thread has made
    packets         \* calls of encode begun

vars == <<send_group_id_, send_seq_, send_buf_, pc, frame, packets>>

Init ==
    /\ send_group_id_ = 0
    /\ send_seq_ = 0
    /\ send_buf_ = <<>>
    /\ pc = [t \in Thread |-> "idle"]
    /\ frame = [t \in Thread |-> <<0, 0>>]
    /\ packets = 0

\* make_header reads the group and the number.
MakeHeader(t) ==
    /\ pc[t] = "idle" /\ packets < MaxPackets
    /\ frame' = [frame EXCEPT ![t] = <<send_group_id_, send_seq_>>]
    /\ pc' = [pc EXCEPT ![t] = "header"]
    /\ packets' = packets + 1
    /\ UNCHANGED <<send_group_id_, send_seq_, send_buf_>>

\* send_buf_.push_back, ++send_seq_ (a uint8_t)
Count(t) ==
    /\ pc[t] = "header"
    /\ send_buf_' = Append(send_buf_, frame[t])
    /\ send_seq_' = (send_seq_ + 1) % 256
    /\ pc' = [pc EXCEPT ![t] = "counted"]
    /\ UNCHANGED <<send_group_id_, frame, packets>>

\* if (send_seq_ == k_): the parity frames are made from send_buf_, and the reset.
Return(t) ==
    /\ pc[t] = "counted"
    /\ pc' = [pc EXCEPT ![t] = "idle"]
    /\ \/ /\ send_seq_ = k
          /\ send_group_id_' = send_group_id_ + 1
          /\ send_seq_' = 0
          /\ send_buf_' = <<>>
       \/ /\ send_seq_ # k
          /\ UNCHANGED <<send_group_id_, send_seq_, send_buf_>>
    /\ UNCHANGED <<frame, packets>>

Next == \E t \in Thread : MakeHeader(t) \/ Count(t) \/ Return(t)

Spec == Init /\ [][Next]_vars

-----------------------------------------------------------------------------
\* "parity_frames is filled when the kth packet completes the group"
\* (FecCodec.h:50): once every call of encode has returned, fewer than k
\* packets wait for their parity frames.  When two threads count their packets
\* before either tests the count, it steps over k, and no group is completed
\* until it has wrapped around.
ParityWithKth == (\A t \in Thread : pc[t] = "idle") => Len(send_buf_) < k
=============================================================================
