----------------------- MODULE PacketForwardingProofs -----------------------
(* Proofs about PacketForwarding: a node passes a packet on once as long   *)
(* as it remembers its key, a packet for one node is handed over once, and *)
(* a broadcast spreads until it is everywhere or its TTL is used up.       *)
EXTENDS PacketForwarding, FiniteSetTheorems, TLAPS

Copy == [src : Node, dst : Node, pkt : Packet]

\* q is p with another TTL.
CopyOf(q, p) ==
    q.id = p.id /\ q.from = p.from /\ q.to = p.to /\ q.expect_response = p.expect_response

\* q is a response to p.
ReplyTo(q, p) ==
    p.expect_response /\ q.id = p.id /\ q.to = p.from /\ ~q.expect_response

\* Nothing is under way between nodes that are not neighbours, or that was not
\* sent or is not a response to what was sent.
MayBeUnderway(B, S) ==
    /\ B \in [DOMAIN B -> Nat \ {0}]
    /\ DOMAIN B \subseteq Copy
    /\ \A c \in DOMAIN B :
          /\ c.dst \in Neighbors[c.src] /\ c.dst # c.src
          /\ \E p \in S : CopyOf(c.pkt, p) \/ ReplyTo(c.pkt, p)

Underway == MayBeUnderway(net, sent)

\* A key whose packet was passed on, and that was not forgotten, is remembered.
Remembered == \A n \in Node, k \in Keys : relays[n][k] <= 1 /\ (relays[n][k] > 0 => Contains(seen[n], k))

\* The copies of B with key k, told apart by numbers.
Numbered(B, k) == {x \in (DOMAIN B) \X Nat : Key(x[1].pkt) = k /\ 1 <= x[2] /\ x[2] <= B[x[1]]}

Unicast == {p \in Sends : p.to # Everyone}

\* A packet for one node is on its way or has been handed over: a node that
\* does not keep it sends it to at most one next hop.
Counted ==
    \A p \in Unicast :
        /\ IsFiniteSet(Numbered(net, Key(p)))
        /\ Cardinality(Numbered(net, Key(p))) + delivered[p.to][Key(p)]
              <= (IF p \in sent THEN 1 ELSE 0) + faults["duplicate"]

\* The tracker has the ids of sent requests only, and lets go of a request to
\* one node with its response.
Tracking ==
    /\ \A n \in Node : \A i \in tracked[n] : \E p \in sent : p.id = i /\ p.from = n
    /\ \A p \in Unicast :
          /\ answers[p.id][p.to] <= 1
          /\ answers[p.id][p.to] > 0 => p \in sent /\ p.id \notin tracked[p.from]

Typed ==
    /\ load \in Loads
    /\ sent \subseteq load.sends
    /\ seen \in [Node -> Seq(Keys)]
    /\ tracked \in [Node -> SUBSET Ids]
    /\ answers \in [Ids -> [Node -> Nat]]
    /\ delivered \in [Node -> [Keys -> Nat]]
    /\ relays \in [Node -> [Keys -> Nat]]
    /\ faults \in [FaultKind -> Nat]

IInv == Typed /\ Underway /\ Remembered /\ Counted /\ Tracking

-----------------------------------------------------------------------------
(* The copies under way.                                                   *)

\* One more of every copy of a set, as a node sends them.
LEMMA AddCopies ==
    ASSUME NEW B, B \in [DOMAIN B -> Nat \ {0}], NEW S
    PROVE  /\ With(B, S) \in [DOMAIN B \cup S -> Nat \ {0}]
           /\ DOMAIN With(B, S) = DOMAIN B \cup S
           /\ \A e \in DOMAIN B \cup S :
                 With(B, S)[e] =
                     (IF e \in DOMAIN B THEN B[e] ELSE 0) + (IF e \in S THEN 1 ELSE 0)
<1>1. With(B, S) = [e \in DOMAIN B \cup S |->
          (IF e \in DOMAIN B THEN B[e] ELSE 0) + (IF e \in S THEN 1 ELSE 0)]
  BY Zenon DEF With
<1>2. \A e \in DOMAIN B : B[e] \in Nat \ {0}
  BY Zenon
<1> QED
  BY <1>1, <1>2

\* One less of a copy, as it arrives or is lost.
LEMMA RemoveCopy ==
    ASSUME NEW B, B \in [DOMAIN B -> Nat \ {0}], NEW c \in DOMAIN B
    PROVE  /\ Without(B, c) \in [DOMAIN Without(B, c) -> Nat \ {0}]
           /\ DOMAIN Without(B, c) = {e \in DOMAIN B : e # c \/ B[c] > 1}
           /\ \A e \in DOMAIN Without(B, c) :
                 Without(B, c)[e] = IF e = c THEN B[c] - 1 ELSE B[e]
<1> DEFINE E == {e \in DOMAIN B : e # c \/ B[c] > 1}
<1>1. \A e \in DOMAIN B : B[e] \in Nat \ {0}
  BY Zenon
<1>2. {d \in DOMAIN B : d # c \/ B[d] > 1} = E
  BY Zenon
<1>3. Without(B, c) = [e \in E |-> IF e = c THEN B[e] - 1 ELSE B[e]]
  BY <1>2, Zenon DEF Without
<1>4. \A e \in E : (IF e = c THEN B[e] - 1 ELSE B[e]) \in Nat \ {0}
  BY <1>1
<1> HIDE DEF E
<1>5. Without(B, c) \in [E -> Nat \ {0}] /\ DOMAIN Without(B, c) = E
  BY <1>3, <1>4, Zenon
<1>6. \A e \in E : Without(B, c)[e] = IF e = c THEN B[c] - 1 ELSE B[e]
  BY <1>3, Zenon
<1> QED
  BY <1>5, <1>6, Zenon DEF E

\* Copies with other keys do not count.
LEMMA AddOthers ==
    ASSUME NEW B, B \in [DOMAIN B -> Nat \ {0}], NEW S, NEW k, \A c \in S : Key(c.pkt) # k
    PROVE  Numbered(With(B, S), k) = Numbered(B, k)
<1> DEFINE A == With(B, S)
<1>0. /\ DOMAIN A = DOMAIN B \cup S
      /\ \A e \in DOMAIN B \cup S :
            A[e] = (IF e \in DOMAIN B THEN B[e] ELSE 0) + (IF e \in S THEN 1 ELSE 0)
  BY AddCopies, Zenon
<1>1. \A e \in DOMAIN B : B[e] \in Nat /\ (e \notin S => A[e] = B[e])
  BY <1>0
<1> HIDE DEF A
<1>2. ASSUME NEW x PROVE x \in Numbered(A, k) <=> x \in Numbered(B, k)
  BY <1>0, <1>1, Zenon DEF Numbered
<1> QED
  BY <1>2, Zenon DEF A

\* One copy more.
LEMMA AddOne ==
    ASSUME NEW B, B \in [DOMAIN B -> Nat \ {0}], NEW c, NEW k, Key(c.pkt) = k,
           IsFiniteSet(Numbered(B, k))
    PROVE  /\ IsFiniteSet(Numbered(With(B, {c}), k))
           /\ Cardinality(Numbered(With(B, {c}), k)) = Cardinality(Numbered(B, k)) + 1
<1> DEFINE A == With(B, {c})
           i == IF c \in DOMAIN B THEN B[c] + 1 ELSE 1
<1>0. /\ DOMAIN A = DOMAIN B \cup {c}
      /\ \A e \in DOMAIN B \cup {c} :
            A[e] = (IF e \in DOMAIN B THEN B[e] ELSE 0) + (IF e \in {c} THEN 1 ELSE 0)
  BY AddCopies, Zenon
<1> HIDE DEF A
<1>b. \A e \in DOMAIN B : B[e] \in Nat \ {0}
  BY Zenon
<1>1. \A e \in DOMAIN B : B[e] \in Nat \ {0} /\ (e # c => A[e] = B[e])
  BY <1>0, <1>b
<1>2. A[c] = i /\ i \in Nat /\ i > 0
  BY <1>0, <1>1
<1>i. c \in DOMAIN B => i = B[c] + 1
  BY Zenon
<1>j. c \notin DOMAIN B => i = 1
  BY Zenon
<1> HIDE DEF i
<1>3. Numbered(A, k) = Numbered(B, k) \cup {<<c, i>>}
  <2>1. ASSUME NEW x \in Numbered(A, k) PROVE x \in Numbered(B, k) \cup {<<c, i>>}
    <3>1. x \in (DOMAIN B \cup {c}) \X Nat /\ Key(x[1].pkt) = k /\ 1 <= x[2] /\ x[2] <= A[x[1]]
      BY <1>0, <2>1, Zenon DEF Numbered
    <3>2. CASE x[1] # c
      BY <3>1, <3>2, <1>1, Zenon DEF Numbered
    <3>3. CASE x[1] = c /\ x[2] = i
      BY <3>1, <3>3
    <3>4. CASE x[1] = c /\ x[2] # i
      <4>1. c \in DOMAIN B /\ x[2] <= B[c]
        BY <3>1, <3>4, <1>1, <1>2, <1>i, <1>j
      <4> QED
        BY <3>1, <3>4, <4>1, Zenon DEF Numbered
    <3> QED
      BY <3>2, <3>3, <3>4, Zenon
  <2>2. ASSUME NEW x \in Numbered(B, k) PROVE x \in Numbered(A, k)
    <3>1. x \in (DOMAIN B) \X Nat /\ Key(x[1].pkt) = k /\ 1 <= x[2] /\ x[2] <= B[x[1]]
      BY <2>2, Zenon DEF Numbered
    <3>2. B[x[1]] <= A[x[1]]
      BY <3>1, <1>1, <1>2, <1>i
    <3> QED
      BY <3>1, <3>2, <1>0, <1>1, <1>2 DEF Numbered
  <2>3. <<c, i>> \in Numbered(A, k)
    BY <1>0, <1>2 DEF Numbered
  <2> QED
    BY <2>1, <2>2, <2>3, Zenon
<1>4. <<c, i>> \notin Numbered(B, k)
  BY <1>1, <1>i DEF Numbered
<1>5. /\ IsFiniteSet(Numbered(B, k) \cup {<<c, i>>})
      /\ Cardinality(Numbered(B, k) \cup {<<c, i>>}) = Cardinality(Numbered(B, k)) + 1
  BY <1>4, FS_AddElement, SMTT(30)
<1> QED
  BY <1>3, <1>5, Zenon DEF A

\* One copy less.
LEMMA RemoveOne ==
    ASSUME NEW B, B \in [DOMAIN B -> Nat \ {0}], NEW c \in DOMAIN B, NEW k,
           IsFiniteSet(Numbered(B, k))
    PROVE  /\ IsFiniteSet(Numbered(Without(B, c), k))
           /\ Cardinality(Numbered(Without(B, c), k)) =
                 Cardinality(Numbered(B, k)) - (IF Key(c.pkt) = k THEN 1 ELSE 0)
<1> DEFINE A == Without(B, c)
<1>0. /\ DOMAIN A = {e \in DOMAIN B : e # c \/ B[c] > 1}
      /\ \A e \in DOMAIN A : A[e] = IF e = c THEN B[c] - 1 ELSE B[e]
  BY RemoveCopy, Zenon
<1>1. \A e \in DOMAIN B : B[e] \in Nat \ {0}
  BY Zenon
<1>2. /\ DOMAIN A \subseteq DOMAIN B
      /\ \A e \in DOMAIN B : e # c => e \in DOMAIN A /\ A[e] = B[e]
      /\ c \in DOMAIN A => A[c] = B[c] - 1
      /\ c \notin DOMAIN A => B[c] = 1
  BY <1>0, <1>1
<1> HIDE DEF A
<1>3. Numbered(A, k) = Numbered(B, k) \ {<<c, B[c]>>}
  <2>1. ASSUME NEW x \in Numbered(A, k) PROVE x \in Numbered(B, k) /\ x # <<c, B[c]>>
    <3>1. x \in (DOMAIN A) \X Nat /\ Key(x[1].pkt) = k /\ 1 <= x[2] /\ x[2] <= A[x[1]]
      BY <2>1, Zenon DEF Numbered
    <3>2. A[x[1]] <= B[x[1]] /\ (x[1] = c => A[x[1]] < B[c])
      BY <3>1, <1>1, <1>2
    <3> QED
      BY <3>1, <3>2, <1>1, <1>2 DEF Numbered
  <2>2. ASSUME NEW x \in Numbered(B, k), x # <<c, B[c]>> PROVE x \in Numbered(A, k)
    <3>1. x \in (DOMAIN B) \X Nat /\ Key(x[1].pkt) = k /\ 1 <= x[2] /\ x[2] <= B[x[1]]
      BY <2>2, Zenon DEF Numbered
    <3>2. x[1] = c => x[2] < B[c]
      BY <3>1, <2>2, <1>1
    <3>3. x[1] \in DOMAIN A /\ x[2] <= A[x[1]]
      BY <3>1, <3>2, <1>1, <1>2
    <3> QED
      BY <3>1, <3>3, Zenon DEF Numbered
  <2> QED
    BY <2>1, <2>2, Zenon
<1>4. <<c, B[c]>> \in Numbered(B, k) <=> Key(c.pkt) = k
  BY <1>1 DEF Numbered
<1>5. /\ IsFiniteSet(Numbered(B, k) \ {<<c, B[c]>>})
      /\ <<c, B[c]>> \in Numbered(B, k) =>
            Cardinality(Numbered(B, k) \ {<<c, B[c]>>}) = Cardinality(Numbered(B, k)) - 1
      /\ Cardinality(Numbered(B, k)) \in Nat
  BY FS_RemoveElement, FS_CardinalityType, Zenon
<1>6. CASE Key(c.pkt) = k
  BY <1>3, <1>4, <1>5, <1>6, Zenon DEF A
<1>7. CASE Key(c.pkt) # k
  <2>1. Numbered(A, k) = Numbered(B, k)
    BY <1>3, <1>4, <1>7, Zenon
  <2> QED
    BY <2>1, <1>5, <1>7 DEF A
<1> QED
  BY <1>6, <1>7, Zenon

\* At most one copy more.
LEMMA AddAtMostOne ==
    ASSUME NEW B, B \in [DOMAIN B -> Nat \ {0}], NEW S, \A c, d \in S : c = d, NEW k,
           IsFiniteSet(Numbered(B, k))
    PROVE  /\ IsFiniteSet(Numbered(With(B, S), k))
           /\ Cardinality(Numbered(With(B, S), k)) <= Cardinality(Numbered(B, k)) + 1
<1>1. Cardinality(Numbered(B, k)) \in Nat
  BY FS_CardinalityType, Zenon
<1>2. CASE \A c \in S : Key(c.pkt) # k
  <2>1. Numbered(With(B, S), k) = Numbered(B, k)
    BY <1>2, AddOthers, Zenon
  <2> QED
    BY <1>1, <2>1
<1>3. CASE \E c \in S : Key(c.pkt) = k
  <2>1. PICK c \in S : Key(c.pkt) = k
    BY <1>3, Zenon
  <2>2. S = {c}
    BY Zenon
  <2>3. /\ IsFiniteSet(Numbered(With(B, {c}), k))
        /\ Cardinality(Numbered(With(B, {c}), k)) = Cardinality(Numbered(B, k)) + 1
    BY <2>1, AddOne, Zenon
  <2> QED
    BY <1>1, <2>2, <2>3
<1> QED
  BY <1>2, <1>3, Zenon

-----------------------------------------------------------------------------
(* The copies a node sends.                                                *)

\* Next hops are neighbours or the node itself, and a packet for one node has
\* at most one.
LEMMA Hops ==
    ASSUME load \in Loads, NEW n \in Node, NEW p \in Packet, NEW H \in NextHopChoices(n, p)
    PROVE  H \subseteq Neighbors[n] \cup {n} /\ (p.to # Everyone => \A g, h \in H : g = h)
<1>1. p.to \in Node \cup {Everyone}
  BY Zenon DEF Packet
<1>2. CASE p.to = Everyone
  BY <1>2, Zenon DEF NextHopChoices
<1>3. CASE p.to # Everyone
  <2>1. p.to \in Node /\ H \in load.hops[n][p.to]
    BY <1>1, <1>3, Zenon DEF NextHopChoices
  <2> QED
    BY <2>1, ForwardingAssumption
<1> QED
  BY <1>2, <1>3, Zenon

\* Copies go to neighbours and differ from the packet in the TTL, which is
\* never 0.
LEMMA CopiesAre ==
    ASSUME NEW n \in Node, NEW src, NEW p \in Packet, NEW H, H \subseteq Neighbors[n] \cup {n}
    PROVE  /\ \A c \in Copies(n, src, p, H) :
                 /\ c \in Copy /\ c.src = n /\ c.dst \in Neighbors[n] /\ c.dst # n /\ c.dst \in H
                 /\ CopyOf(c.pkt, p) /\ Key(c.pkt) = Key(p)
           /\ (\A g, h \in H : g = h) => \A c, d \in Copies(n, src, p, H) : c = d
<1> DEFINE q == [p EXCEPT !.ttl = Decremented(@)]
<1>1. \A c \in Copies(n, src, p, H) :
         /\ ~(Decremented(p.ttl) <= 0)
         /\ \E h \in H \ {src, n} : c = [src |-> n, dst |-> h, pkt |-> q]
  BY Zenon DEF Copies
<1>2. ASSUME ~(Decremented(p.ttl) <= 0) PROVE q \in Packet /\ CopyOf(q, p) /\ Key(q) = Key(p)
  <2>1. p.ttl \in Nat /\ UINT32_MAX \in Nat /\ p.ttl <= UINT32_MAX /\ p.ttl > 0
    BY ForwardingAssumption DEF Packet
  <2>2. Decremented(p.ttl) \in 1..UINT32_MAX
    BY <1>2, <2>1 DEF Decremented
  <2> QED
    BY <2>2, Zenon DEF Packet, CopyOf, Key
<1>3. Neighbors[n] \subseteq Node
  BY ForwardingAssumption, Zenon
<1> HIDE DEF q
<1> QED
  BY <1>1, <1>2, <1>3 DEF Copy

\* More copies of what may be under way.
LEMMA MoreUnderway ==
    ASSUME NEW B, NEW T, MayBeUnderway(B, T), NEW n \in Node, NEW S,
           \A c \in S : /\ c \in Copy /\ c.src = n /\ c.dst \in Neighbors[n] /\ c.dst # n
                        /\ \E p \in T : CopyOf(c.pkt, p) \/ ReplyTo(c.pkt, p)
    PROVE  MayBeUnderway(With(B, S), T)
<1> DEFINE A == With(B, S)
<1>1. B \in [DOMAIN B -> Nat \ {0}]
  BY Zenon DEF MayBeUnderway
<1>2. A \in [DOMAIN A -> Nat \ {0}] /\ DOMAIN A = DOMAIN B \cup S
  BY <1>1, AddCopies, Zenon
<1> HIDE DEF A
<1> QED
  BY <1>2, Zenon DEF MayBeUnderway, A

\* One copy less of what may be under way.
LEMMA LessUnderway ==
    ASSUME NEW B, NEW T, MayBeUnderway(B, T), NEW c \in DOMAIN B
    PROVE  MayBeUnderway(Without(B, c), T)
<1> DEFINE A == Without(B, c)
<1>1. B \in [DOMAIN B -> Nat \ {0}]
  BY Zenon DEF MayBeUnderway
<1>2. A \in [DOMAIN A -> Nat \ {0}] /\ DOMAIN A \subseteq DOMAIN B
  BY <1>1, RemoveCopy, Zenon
<1> HIDE DEF A
<1> QED
  BY <1>2, Zenon DEF MayBeUnderway, A

\* What is under way with the key of a packet for one node is a copy of it:
\* responses have another key.
LEMMA SameKey ==
    ASSUME IInv, NEW q, NEW s \in sent, CopyOf(q, s) \/ ReplyTo(q, s),
           NEW p \in Sends, Key(q) = Key(p)
    PROVE  CopyOf(q, p) /\ p = s
<1>1. s \in Sends
  BY Zenon DEF IInv, Typed, Sends
<1>2. q.id = s.id /\ q.id = p.id /\ q.expect_response = p.expect_response
  BY Zenon DEF CopyOf, ReplyTo, Key
<1>3. p = s
  BY <1>1, <1>2, IdsAreUnique, Zenon
<1> QED
  BY <1>2, <1>3, Zenon DEF CopyOf, ReplyTo

-----------------------------------------------------------------------------
(* The invariant.                                                          *)

\* Nothing has been sent.
LEMMA InitIInv == Init => IInv
<1> SUFFICES ASSUME Init PROVE IInv
  BY Zenon
<1>1. Typed
  BY DEF Init, Typed
<1>2. net = [e \in {} |-> 1]
  BY Zenon DEF Init, NothingUnderway
<1>3. Underway
  BY <1>2, Zenon DEF Underway, MayBeUnderway
<1>4. Remembered
  BY DEF Init, Remembered
<1>5. ASSUME NEW p \in Unicast
      PROVE  /\ IsFiniteSet(Numbered(net, Key(p))) /\ Cardinality(Numbered(net, Key(p))) = 0
             /\ p.to \in Node /\ Key(p) \in Keys /\ p.id \in Ids
  <2>1. Numbered(net, Key(p)) = {}
    BY <1>2, Zenon DEF Numbered
  <2>2. p \in Packet
    BY ForwardingAssumption DEF Unicast, Sends
  <2> QED
    BY <2>1, <2>2, FS_EmptySet, Zenon DEF Unicast, Packet, Key, Keys, Ids
<1>6. Counted
  BY <1>5 DEF Init, Counted, FaultKind
<1>7. Tracking
  BY <1>5 DEF Init, Tracking
<1> QED
  BY <1>1, <1>3, <1>4, <1>6, <1>7, Zenon DEF IInv

\* What the packets of the applications are.
LEMMA SendsType ==
    ASSUME NEW p \in Sends
    PROVE  /\ p \in Packet /\ p.id \in Ids /\ p.from \in Node /\ Key(p) \in Keys
           /\ p \in Unicast => p.to \in Node
BY ForwardingAssumption DEF Sends, Ids, Packet, Key, Keys, Unicast

\* The keys a node remembers, with one more.
LEMMA InsertKey ==
    ASSUME NEW s \in Seq(Keys), NEW k \in Keys
    PROVE  /\ Insert(s, k) \in Seq(Keys)
           /\ Contains(Insert(s, k), k)
           /\ \A j : Contains(s, j) => Contains(Insert(s, k), j)
<1>1. CASE Contains(s, k)
  BY <1>1, Zenon DEF Insert
<1>2. CASE ~Contains(s, k)
  <2>1. Insert(s, k) = Append(s, k) /\ Len(Append(s, k)) = Len(s) + 1 /\ Len(s) \in Nat
    BY <1>2 DEF Insert
  <2>2. Append(s, k)[Len(s) + 1] = k /\ \A i \in 1..Len(s) : Append(s, k)[i] = s[i]
    OBVIOUS
  <2> QED
    BY <2>1, <2>2 DEF Contains
<1> QED
  BY <1>1, <1>2, Zenon

\* A send puts at most one copy of a packet for one node on its way.
LEMMA SendKeeps == ASSUME IInv, NEW p \in Sends, Send(p) PROVE IInv'
<1>1. p \in load.sends /\ p \notin sent /\ sent' = sent \cup {p}
  BY Zenon DEF Send
<1>2. /\ UNCHANGED <<load, answers, delivered, relays, faults>>
      /\ tracked' = [tracked EXCEPT ![p.from] = IF p.expect_response THEN @ \cup {p.id} ELSE @]
  BY Zenon DEF Send
<1>3. p \in Packet /\ p.id \in Ids /\ p.from \in Node /\ Key(p) \in Keys
  BY SendsType, Zenon
<1>4. PICK S : /\ net' = With(net, S) \/ (S = {} /\ net' = net)
               /\ \A c \in S : /\ c \in Copy /\ c.src = p.from /\ c.dst \in Neighbors[p.from] /\ c.dst # p.from
                               /\ CopyOf(c.pkt, p) /\ Key(c.pkt) = Key(p)
               /\ p.to # Everyone => \A c, d \in S : c = d
  <2>1. CASE p.to = p.from
    <3>1. net' = net
      BY <2>1, Zenon DEF Send
    <3> WITNESS {}
    <3> QED
      BY <3>1, Zenon
  <2>2. CASE p.to # p.from
    <3>1. PICK H \in NextHopChoices(p.from, p) : net' = With(net, Copies(p.from, p.from, p, H))
      BY <2>2, Zenon DEF Send
    <3>2. H \subseteq Neighbors[p.from] \cup {p.from} /\ (p.to # Everyone => \A g, h \in H : g = h)
      BY <1>3, Hops DEF IInv, Typed
    <3> WITNESS Copies(p.from, p.from, p, H)
    <3> QED
      BY <3>1, <3>2, <1>3, CopiesAre
  <2> QED
    BY <2>1, <2>2, Zenon
<1>5. \A n \in Node : /\ seen'[n] \in Seq(Keys)
                      /\ \A j : Contains(seen[n], j) => Contains(seen'[n], j)
  <2>1. CASE p.to = p.from
    BY <2>1, Zenon DEF Send, IInv, Typed
  <2>2. CASE p.to # p.from
    <3>1. seen' = [seen EXCEPT ![p.from] = Insert(@, Key(p))] /\ seen \in [Node -> Seq(Keys)]
      BY <2>2, Zenon DEF Send, IInv, Typed
    <3> QED
      BY <3>1, <1>3, InsertKey, Zenon
  <2> QED
    BY <2>1, <2>2, Zenon
<1>6. seen' \in [Node -> Seq(Keys)]
  <2>1. seen \in [Node -> Seq(Keys)] /\ seen[p.from] \in Seq(Keys)
    BY <1>3, Zenon DEF IInv, Typed
  <2>2. Insert(seen[p.from], Key(p)) \in Seq(Keys)
    BY <1>3, <2>1, InsertKey, Zenon
  <2> QED
    BY <2>1, <2>2, Zenon DEF Send
<1>7. Typed'
  BY <1>1, <1>2, <1>3, <1>6, Zenon DEF IInv, Typed
<1>8. Underway'
  <2>1. MayBeUnderway(net, sent')
    BY <1>1, Zenon DEF IInv, Underway, MayBeUnderway
  <2>2. MayBeUnderway(With(net, S), sent')
    BY <1>1, <1>3, <1>4, <2>1, MoreUnderway
  <2> QED
    BY <1>4, <2>1, <2>2, Zenon DEF Underway
<1>9. Remembered'
  BY <1>2, <1>5, Zenon DEF IInv, Remembered
<1>10. Counted'
  <2> SUFFICES ASSUME NEW q \in Unicast
               PROVE  /\ IsFiniteSet(Numbered(net', Key(q)))
                      /\ Cardinality(Numbered(net', Key(q))) + delivered[q.to][Key(q)]
                           <= (IF q \in sent' THEN 1 ELSE 0) + faults["duplicate"]
    BY <1>2, Zenon DEF Counted
  <2>1. /\ IsFiniteSet(Numbered(net, Key(q)))
        /\ Cardinality(Numbered(net, Key(q))) + delivered[q.to][Key(q)]
             <= (IF q \in sent THEN 1 ELSE 0) + faults["duplicate"]
        /\ net \in [DOMAIN net -> Nat \ {0}]
    BY Zenon DEF IInv, Counted, Underway, MayBeUnderway
  <2>2. /\ Cardinality(Numbered(net, Key(q))) \in Nat
        /\ delivered[q.to][Key(q)] \in Nat /\ faults["duplicate"] \in Nat
    BY <2>1, SendsType, FS_CardinalityType DEF IInv, Typed, Unicast, FaultKind
  <2>3. CASE q = p
    <3>1. \A c, d \in S : c = d
      BY <1>4, <2>3, Zenon DEF Unicast
    <3>2. /\ IsFiniteSet(Numbered(net', Key(q)))
          /\ Cardinality(Numbered(net', Key(q))) <= Cardinality(Numbered(net, Key(q))) + 1
      BY <1>4, <2>1, <2>2, <3>1, AddAtMostOne
    <3>3. Cardinality(Numbered(net', Key(q))) \in Nat
      BY <3>2, FS_CardinalityType, Zenon
    <3> QED
      BY <2>1, <2>2, <2>3, <3>2, <3>3, <1>1
  <2>4. CASE q # p
    <3>1. Key(p) # Key(q)
      BY <2>4, IdsAreUnique, Zenon DEF Key, Unicast
    <3>2. Numbered(net', Key(q)) = Numbered(net, Key(q))
      BY <1>4, <2>1, <3>1, AddOthers
    <3> QED
      BY <2>1, <2>4, <3>2, <1>1, Zenon
  <2> QED
    BY <2>3, <2>4, Zenon
<1>11. Tracking'
  <2>1. ASSUME NEW n \in Node, NEW i \in tracked'[n] PROVE \E q \in sent' : q.id = i /\ q.from = n
    BY <1>1, <1>2, <1>3, <2>1 DEF IInv, Tracking, Typed
  <2>2. ASSUME NEW q \in Unicast, answers[q.id][q.to] > 0 PROVE q \in sent' /\ q.id \notin tracked'[q.from]
    <3>1. q \in sent /\ q.id \notin tracked[q.from]
      BY <2>2, Zenon DEF IInv, Tracking
    <3>2. q.id # p.id
      BY <3>1, <1>1, IdsAreUnique, Zenon DEF Unicast
    <3> QED
      BY <1>1, <1>2, <1>3, <3>1, <3>2, SendsType, SMTT(30) DEF IInv, Typed, Unicast
  <2> QED
    BY <1>2, <2>1, <2>2, Zenon DEF IInv, Tracking
<1> QED
  BY <1>7, <1>8, <1>9, <1>10, <1>11, Zenon DEF IInv

\* A counter goes up by one, or not.
LEMMA CountUp ==
    ASSUME NEW A, NEW C, NEW f \in [A -> [C -> Nat]], NEW a \in A, NEW b \in C, NEW P \in BOOLEAN,
           NEW g, g = [f EXCEPT ![a][b] = IF P THEN @ + 1 ELSE @]
    PROVE  /\ g \in [A -> [C -> Nat]]
           /\ \A x \in A, y \in C :
                 g[x][y] = IF P /\ x = a /\ y = b THEN f[x][y] + 1 ELSE f[x][y]
<1> DEFINE v == IF P THEN f[a][b] + 1 ELSE f[a][b]
<1>1. f[a] \in [C -> Nat] /\ v \in Nat
  OBVIOUS
<1>2. g = [f EXCEPT ![a] = [f[a] EXCEPT ![b] = v]]
  BY Zenon
<1> HIDE DEF v
<1>3. [f[a] EXCEPT ![b] = v] \in [C -> Nat]
  BY <1>1, Zenon
<1>4. g \in [A -> [C -> Nat]]
  BY <1>2, <1>3, Zenon
<1>5. ASSUME NEW x \in A, NEW y \in C
      PROVE  g[x][y] = IF x = a /\ y = b THEN v ELSE f[x][y]
  BY <1>1, <1>2
<1> QED
  BY <1>4, <1>5 DEF v

\* A copy that is received is handed over or goes on to at most one next hop,
\* if it is for one node; it is passed on only if its key is not remembered.
LEMMA ReceiveKeeps == ASSUME IInv, NEW c \in DOMAIN net, Receive(c) PROVE IInv'
<1> DEFINE n == c.dst
           p == c.pkt
           forMe == p.from # n /\ p.to \in {n, Everyone}
           answer == forMe /\ p.id \in tracked[n]
           replies == forMe /\ ~answer /\ p.expect_response
           onward == p.from # n /\ p.to # n /\ Passes(n, c.src, p)
           r == Reply(n, p)
<1>1. /\ c \in DOMAIN net /\ net \in [DOMAIN net -> Nat \ {0}] /\ c \in Copy /\ c.dst # c.src
      /\ \E s \in sent : CopyOf(c.pkt, s) \/ ReplyTo(c.pkt, s)
  BY Zenon DEF IInv, Underway, MayBeUnderway
<1>2. PICK s \in sent : CopyOf(c.pkt, s) \/ ReplyTo(c.pkt, s)
  BY <1>1, Zenon
<1>3. s \in Sends /\ s.id \in Ids /\ s.from \in Node
  BY SendsType, Zenon DEF IInv, Typed, Sends
<1>4. /\ n \in Node /\ p \in Packet /\ p.id = s.id /\ p.from \in Node /\ p.to \in Node \cup {Everyone}
      /\ p.id \in Ids /\ Key(p) \in Keys /\ p.expect_response \in BOOLEAN
  BY <1>1, <1>2, <1>3, Zenon DEF Copy, Packet, CopyOf, ReplyTo, Key, Keys
<1>5. r \in Packet /\ Key(r) \in Keys /\ Key(r) = <<p.id, FALSE>>
  BY <1>4, ForwardingAssumption, Zenon DEF Reply, Packet, Key, Keys
<1>6. /\ delivered' = [delivered EXCEPT ![n][Key(p)] = IF forMe THEN @ + 1 ELSE @]
      /\ answers' = [answers EXCEPT ![p.id][p.from] = IF answer THEN @ + 1 ELSE @]
      /\ tracked' = [tracked EXCEPT ![n] = IF answer THEN @ \ Completed(p) ELSE @]
      /\ relays' = [relays EXCEPT ![n][Key(p)] = IF onward THEN @ + 1 ELSE @]
      /\ seen' = [seen EXCEPT ![n] =
                       LET z == IF replies THEN Insert(@, Key(r)) ELSE @
                       IN  IF onward THEN Insert(z, Key(p)) ELSE z]
      /\ UNCHANGED <<load, sent, faults>>
  BY Zenon DEF Receive
<1>7. PICK R \in (IF replies THEN NextHopChoices(n, r) ELSE {{}}),
           H \in (IF onward THEN NextHopChoices(n, p) ELSE {{}}) :
              net' = With(With(Without(net, c), Copies(n, n, r, R)), Copies(n, c.src, p, H))
  BY Zenon DEF Receive
<1> HIDE DEF r
<1>l. load \in Loads
  BY Zenon DEF IInv, Typed
<1> HIDE DEF replies, onward
<1>8. R \subseteq Neighbors[n] \cup {n} /\ (~replies => R = {})
  BY <1>4, <1>5, <1>7, <1>l, Hops, Zenon
<1>9. /\ H \subseteq Neighbors[n] \cup {n} /\ (~onward => H = {})
      /\ p.to # Everyone => \A g, h \in H : g = h
  BY <1>4, <1>7, <1>l, Hops
<1> USE DEF replies, onward
<1> DEFINE CR == Copies(n, n, r, R)
           CH == Copies(n, c.src, p, H)
<1>10. /\ \A x \in CR : /\ x \in Copy /\ x.src = n /\ x.dst \in Neighbors[n] /\ x.dst # n /\ replies
                        /\ CopyOf(x.pkt, r) /\ Key(x.pkt) = Key(r)
       /\ \A x \in CH : /\ x \in Copy /\ x.src = n /\ x.dst \in Neighbors[n] /\ x.dst # n /\ onward
                        /\ CopyOf(x.pkt, p) /\ Key(x.pkt) = Key(p)
       /\ p.to # Everyone => \A x, y \in CH : x = y
  <2> HIDE DEF replies, onward, CR, CH
  <2>1. \A x \in CR : /\ x \in Copy /\ x.src = n /\ x.dst \in Neighbors[n] /\ x.dst # n /\ x.dst \in R
                      /\ CopyOf(x.pkt, r) /\ Key(x.pkt) = Key(r)
    BY <1>4, <1>5, <1>8, CopiesAre, Zenon DEF CR
  <2>2. \A x \in CH : /\ x \in Copy /\ x.src = n /\ x.dst \in Neighbors[n] /\ x.dst # n /\ x.dst \in H
                      /\ CopyOf(x.pkt, p) /\ Key(x.pkt) = Key(p)
    BY <1>4, <1>9, CopiesAre, Zenon DEF CH
  <2>3. p.to # Everyone => \A x, y \in CH : x = y
    BY <1>4, <1>9, CopiesAre, Zenon DEF CH
  <2> QED
    BY <2>1, <2>2, <2>3, <1>8, <1>9, Zenon
<1> HIDE DEF CR, CH
<1> DEFINE B1 == Without(net, c)
           B2 == With(B1, CR)
<1>11. net' = With(B2, CH)
  BY <1>7, Zenon DEF CR, CH
<1>12. /\ MayBeUnderway(B1, sent) /\ MayBeUnderway(B2, sent) /\ MayBeUnderway(net', sent)
       /\ B1 \in [DOMAIN B1 -> Nat \ {0}] /\ B2 \in [DOMAIN B2 -> Nat \ {0}]
  <2>1. MayBeUnderway(B1, sent)
    BY <1>1, LessUnderway, Zenon DEF IInv, Underway
  <2>2. \A x \in CR : \E q \in sent : CopyOf(x.pkt, q) \/ ReplyTo(x.pkt, q)
    <3> SUFFICES ASSUME NEW x \in CR PROVE ReplyTo(x.pkt, s)
      BY Zenon
    <3>1. p.expect_response /\ CopyOf(x.pkt, r)
      BY <1>10, Zenon
    <3> QED
      BY <3>1, <1>2, Zenon DEF r, Reply, CopyOf, ReplyTo
  <2>3. \A x \in CH : \E q \in sent : CopyOf(x.pkt, q) \/ ReplyTo(x.pkt, q)
    <3> SUFFICES ASSUME NEW x \in CH PROVE CopyOf(x.pkt, s) \/ ReplyTo(x.pkt, s)
      BY Zenon
    <3>1. CopyOf(x.pkt, p)
      BY <1>10, Zenon
    <3> QED
      BY <3>1, <1>2, Zenon DEF CopyOf, ReplyTo
  <2> HIDE DEF B1
  <2>4. MayBeUnderway(B2, sent)
    BY <2>1, <2>2, <1>4, <1>10, MoreUnderway, Zenon
  <2> HIDE DEF B2
  <2>5. MayBeUnderway(net', sent)
    BY <2>3, <2>4, <1>4, <1>10, <1>11, MoreUnderway, Zenon
  <2> QED
    BY <2>1, <2>4, <2>5, Zenon DEF MayBeUnderway
<1>13. Underway'
  BY <1>6, <1>12, Zenon DEF Underway
<1>14. /\ seen' \in [Node -> Seq(Keys)]
       /\ \A m \in Node : \A k : Contains(seen[m], k) => Contains(seen'[m], k)
       /\ onward => Contains(seen'[n], Key(p))
  <2> DEFINE z == IF replies THEN Insert(seen[n], Key(r)) ELSE seen[n]
             y == IF onward THEN Insert(z, Key(p)) ELSE z
  <2>1. seen' = [seen EXCEPT ![n] = y] /\ seen \in [Node -> Seq(Keys)] /\ seen[n] \in Seq(Keys)
    BY <1>4, <1>6, Zenon DEF IInv, Typed
  <2> HIDE DEF replies, onward
  <2>2. z \in Seq(Keys) /\ \A k : Contains(seen[n], k) => Contains(z, k)
    BY <1>5, <2>1, InsertKey, Zenon
  <2> HIDE DEF z
  <2>3. y \in Seq(Keys) /\ (\A k : Contains(z, k) => Contains(y, k)) /\ (onward => Contains(y, Key(p)))
    BY <1>4, <2>2, InsertKey, Zenon
  <2> HIDE DEF y
  <2> QED
    BY <1>4, <2>1, <2>2, <2>3, Zenon
<1>15. Typed'
  <2>0. forMe \in BOOLEAN /\ answer \in BOOLEAN /\ onward \in BOOLEAN
    BY Zenon
  <2> HIDE DEF forMe, answer, onward
  <2>1. delivered' \in [Node -> [Keys -> Nat]]
    BY <1>4, <1>6, <2>0, CountUp, SMTT(30) DEF IInv, Typed
  <2>2. answers' \in [Ids -> [Node -> Nat]]
    <3>1. /\ answers \in [Ids -> [Node -> Nat]] /\ p.id \in Ids /\ p.from \in Node
          /\ answers' = [answers EXCEPT ![p.id][p.from] = IF answer THEN @ + 1 ELSE @]
      BY <1>4, <1>6, Zenon DEF IInv, Typed
    <3> QED
      BY <2>0, <3>1, CountUp
  <2>3. relays' \in [Node -> [Keys -> Nat]]
    BY <1>4, <1>6, <2>0, CountUp, SMTT(30) DEF IInv, Typed
  <2>4. tracked' \in [Node -> SUBSET Ids]
    BY <1>4, <1>6, SMTT(30) DEF IInv, Typed
  <2> QED
    BY <2>1, <2>2, <2>3, <2>4, <1>6, <1>14, Zenon DEF IInv, Typed
<1>16. Remembered'
  <2>1. onward => ~Contains(seen[n], Key(p))
    BY <1>1, Zenon DEF Passes
  <2> SUFFICES ASSUME NEW m \in Node, NEW k \in Keys
               PROVE  relays'[m][k] <= 1 /\ (relays'[m][k] > 0 => Contains(seen'[m], k))
    BY Zenon DEF Remembered
  <2>2. relays[m][k] <= 1 /\ (relays[m][k] > 0 => Contains(seen[m], k)) /\ relays[m][k] \in Nat
    BY Zenon DEF IInv, Typed, Remembered
  <2> HIDE DEF onward
  <2>3. CASE onward /\ m = n /\ k = Key(p)
    <3>1. relays'[m][k] = relays[m][k] + 1
      BY <2>3, <1>4, <1>6, Zenon DEF IInv, Typed
    <3> QED
      BY <2>1, <2>2, <2>3, <3>1, <1>14
  <2>4. CASE ~(onward /\ m = n /\ k = Key(p))
    <3>1. relays'[m][k] = relays[m][k]
      BY <2>4, <1>4, <1>6, Zenon DEF IInv, Typed
    <3> QED
      BY <2>2, <3>1, <1>14, Zenon
  <2> QED
    BY <2>3, <2>4, Zenon
<1>17. Counted'
  <2> SUFFICES ASSUME NEW q \in Unicast
               PROVE  /\ IsFiniteSet(Numbered(net', Key(q)))
                      /\ Cardinality(Numbered(net', Key(q))) + delivered'[q.to][Key(q)]
                           <= (IF q \in sent THEN 1 ELSE 0) + faults["duplicate"]
    BY <1>6, Zenon DEF Counted
  <2> DEFINE k == Key(q)
             most == (IF q \in sent THEN 1 ELSE 0) + faults["duplicate"]
  <2>1. /\ q \in Sends /\ q.to \in Node /\ q.to # Everyone /\ k \in Keys
        /\ delivered[q.to][k] \in Nat /\ most \in Nat
    BY SendsType DEF IInv, Typed, Unicast, FaultKind
  <2>2. IsFiniteSet(Numbered(net, k)) /\ Cardinality(Numbered(net, k)) + delivered[q.to][k] <= most
    BY Zenon DEF IInv, Counted
  <2> HIDE DEF most, k
  <2>3. /\ IsFiniteSet(Numbered(B1, k))
        /\ Cardinality(Numbered(B1, k)) = Cardinality(Numbered(net, k)) - (IF Key(p) = k THEN 1 ELSE 0)
    BY <1>1, <2>2, RemoveOne, Zenon
  <2>4. Cardinality(Numbered(net, k)) \in Nat /\ Cardinality(Numbered(B1, k)) \in Nat
    BY <2>2, <2>3, FS_CardinalityType, Zenon
  <2> HIDE DEF B1
  <2>5. Numbered(B2, k) = Numbered(B1, k)
    <3>1. ASSUME NEW x \in CR PROVE Key(x.pkt) # k
      <4>1. replies /\ Key(x.pkt) = Key(r)
        BY <1>10, Zenon
      <4>2. CopyOf(p, s) /\ s.expect_response
        BY <1>2, <4>1, Zenon DEF CopyOf, ReplyTo
      <4>3. Key(r) = k => q = s
        BY <1>3, <1>4, <1>5, <2>1, IdsAreUnique, Zenon DEF Key, k
      <4>4. Key(r) = k => ~q.expect_response
        BY <1>5, Zenon DEF Key, k
      <4> QED
        BY <4>1, <4>2, <4>3, <4>4, Zenon
    <3> QED
      BY <1>12, <3>1, AddOthers, Zenon
  <2> HIDE DEF B2
  <2>6. CASE Key(p) # k
    <3>1. Numbered(net', k) = Numbered(B2, k)
      BY <1>10, <1>11, <1>12, <2>6, AddOthers
    <3>2. delivered'[q.to][k] = delivered[q.to][k]
      BY <1>4, <1>6, <2>1, <2>6, Zenon DEF IInv, Typed
    <3> QED
      BY <2>2, <2>3, <2>4, <2>5, <2>6, <3>1, <3>2 DEF k, most
  <2>7. CASE Key(p) = k
    <3>1. p.to = q.to /\ p.to # Everyone
      BY <1>2, <2>1, <2>7, SameKey DEF CopyOf, k
    <3>2. CASE onward
      <4>1. delivered'[q.to][k] = delivered[q.to][k]
        BY <1>4, <1>6, <2>1, <2>7, <3>1, <3>2, Zenon DEF IInv, Typed
      <4>2. /\ IsFiniteSet(Numbered(net', k))
            /\ Cardinality(Numbered(net', k)) <= Cardinality(Numbered(B2, k)) + 1
        BY <1>10, <1>11, <1>12, <2>3, <2>5, <3>1, AddAtMostOne, Zenon
      <4>3. Cardinality(Numbered(net', k)) \in Nat
        BY <4>2, FS_CardinalityType, Zenon
      <4>4. Cardinality(Numbered(net', k)) <= Cardinality(Numbered(net, k))
        BY <2>3, <2>4, <2>5, <2>7, <4>2, <4>3
      <4>5. Cardinality(Numbered(net', k)) + delivered'[q.to][k] <= most
        BY <2>1, <2>2, <2>4, <4>1, <4>3, <4>4
      <4> QED
        BY <4>2, <4>5, Zenon DEF k, most
    <3>3. CASE ~onward
      <4>1. delivered'[q.to][k] <= delivered[q.to][k] + 1 /\ delivered'[q.to][k] \in Nat
        <5> HIDE DEF forMe
        <5>1. delivered'[q.to][k] \in {delivered[q.to][k], delivered[q.to][k] + 1}
          BY <1>4, <1>6, <2>1, <2>7, Zenon DEF IInv, Typed
        <5> QED
          BY <2>1, <5>1
      <4>2. CH = {}
        BY <1>10, <3>3, Zenon
      <4>3. Numbered(net', k) = Numbered(B2, k)
        BY <1>11, <1>12, <4>2, AddOthers, Zenon
      <4>4. Cardinality(Numbered(net', k)) = Cardinality(Numbered(net, k)) - 1 /\ IsFiniteSet(Numbered(net', k))
        BY <2>3, <2>5, <2>7, <4>3, Zenon
      <4>5. Cardinality(Numbered(net', k)) + delivered'[q.to][k] <= most
        BY <2>1, <2>2, <2>4, <4>1, <4>4
      <4> QED
        BY <4>4, <4>5, Zenon DEF k, most
    <3> QED
      BY <3>2, <3>3, Zenon
  <2> QED
    BY <2>6, <2>7, Zenon
<1>18. Tracking'
  <2>1. ASSUME NEW m \in Node PROVE tracked'[m] \subseteq tracked[m]
    BY <1>4, <1>6, Zenon DEF IInv, Typed
  <2>2. ASSUME NEW m \in Node, NEW i \in tracked'[m] PROVE \E q \in sent : q.id = i /\ q.from = m
    BY <2>1, <2>2 DEF IInv, Tracking
  <2>3. ASSUME NEW q \in Unicast
        PROVE  /\ answers'[q.id][q.to] <= 1
               /\ answers'[q.id][q.to] > 0 => q \in sent /\ q.id \notin tracked'[q.from]
    <3>1. /\ q \in Sends /\ q.to \in Node /\ q.to # Everyone /\ q.id \in Ids /\ q.from \in Node
          /\ answers[q.id][q.to] \in Nat /\ answers[q.id][q.to] <= 1
          /\ answers[q.id][q.to] > 0 => q \in sent /\ q.id \notin tracked[q.from]
      BY SendsType DEF IInv, Typed, Unicast, Tracking
    <3>2. CASE answer /\ p.id = q.id
      <4>1. p.id \in tracked[n]
        BY <3>2, Zenon
      <4>2. PICK t \in sent : t.id = p.id /\ t.from = n
        BY <1>4, <4>1 DEF IInv, Tracking
      <4>3. t \in Sends
        BY Zenon DEF IInv, Typed, Sends
      <4>t. t = q
        BY <3>1, <3>2, <4>2, <4>3, IdsAreUnique, Zenon
      <4>4. answers[q.id][q.to] = 0
        BY <3>1, <3>2, <4>1, <4>2, <4>t
      <4>5. q.id \in Completed(p)
        BY <3>1, <3>2, Zenon DEF Completed
      <4>6. tracked'[n] = tracked[n] \ Completed(p)
        BY <1>4, <1>6, <3>2, Zenon DEF IInv, Typed
      <4>7. answers'[q.id][q.to] \in {answers[q.id][q.to], answers[q.id][q.to] + 1}
        BY <1>4, <1>6, <3>1, Zenon DEF IInv, Typed
      <4> QED
        BY <4>2, <4>t, <4>4, <4>5, <4>6, <4>7
    <3>3. CASE ~(answer /\ p.id = q.id)
      <4>1. answers'[q.id][q.to] = answers[q.id][q.to]
        <5> HIDE DEF answer
        <5> QED
          BY <1>4, <1>6, <3>1, <3>3, Zenon DEF IInv, Typed
      <4> QED
        BY <2>1, <3>1, <4>1, Zenon
    <3> QED
      BY <3>2, <3>3, Zenon
  <2> QED
    BY <1>6, <2>2, <2>3, Zenon DEF Tracking
<1> QED
  BY <1>13, <1>15, <1>16, <1>17, <1>18, Zenon DEF IInv

\* What is forgotten may be passed on again.
LEMMA CleanupKeeps == ASSUME IInv, NEW n \in Node, Cleanup(n) PROVE IInv'
<1>1. PICK i \in 1..Len(seen[n]) :
          /\ seen' = [seen EXCEPT ![n] = SubSeq(@, i + 1, Len(@))]
          /\ relays' = [relays EXCEPT ![n] = [k \in Keys |-> IF Contains(SubSeq(seen[n], 1, i), k) THEN 0 ELSE @[k]]]
  BY Zenon DEF Cleanup
<1>2. UNCHANGED <<load, sent, net, tracked, answers, delivered, faults>>
  BY Zenon DEF Cleanup
<1> DEFINE s == seen[n]
           t == SubSeq(s, i + 1, Len(s))
<1>3. s \in Seq(Keys) /\ Len(s) \in Nat /\ i \in Nat /\ i <= Len(s)
  <2>1. s \in Seq(Keys)
    BY Zenon DEF IInv, Typed
  <2> QED
    BY <2>1
<1>4. t \in Seq(Keys) /\ Len(t) = Len(s) - i /\ \A j \in 1..Len(t) : t[j] = s[i + j]
  BY <1>3, SMTT(30)
<1>5. \A k : Contains(s, k) => Contains(SubSeq(s, 1, i), k) \/ Contains(t, k)
  <2> SUFFICES ASSUME NEW k, NEW j \in 1..Len(s), s[j] = k
               PROVE  Contains(SubSeq(s, 1, i), k) \/ Contains(t, k)
    BY Zenon DEF Contains
  <2>1. CASE j <= i
    <3>1. Len(SubSeq(s, 1, i)) = i /\ SubSeq(s, 1, i)[j] = s[j]
      BY <1>3, <2>1
    <3> QED
      BY <1>3, <2>1, <3>1 DEF Contains
  <2>2. CASE j > i
    <3>1. j - i \in 1..Len(t) /\ t[j - i] = s[j]
      BY <1>3, <1>4, <2>2, SMTT(30)
    <3> QED
      BY <3>1, Zenon DEF Contains
  <2> QED
    BY <1>3, <2>1, <2>2
<1>6. seen' = [seen EXCEPT ![n] = t]
  BY <1>1, Zenon
<1> HIDE DEF t
<1>7. Typed'
  BY <1>1, <1>2, <1>4, <1>6, SMTT(30) DEF IInv, Typed
<1>8. Remembered'
  <2> SUFFICES ASSUME NEW m \in Node, NEW k \in Keys
               PROVE  relays'[m][k] <= 1 /\ (relays'[m][k] > 0 => Contains(seen'[m], k))
    BY Zenon DEF Remembered
  <2>1. relays[m][k] <= 1 /\ (relays[m][k] > 0 => Contains(seen[m], k)) /\ relays[m][k] \in Nat
    BY Zenon DEF IInv, Typed, Remembered
  <2>2. CASE m # n
    BY <1>1, <1>6, <2>1, <2>2, Zenon DEF IInv, Typed
  <2>3. CASE m = n
    <3>1. seen'[n] = t /\ relays'[n][k] = IF Contains(SubSeq(s, 1, i), k) THEN 0 ELSE relays[n][k]
      BY <1>1, <1>6, Zenon DEF IInv, Typed
    <3> QED
      BY <1>5, <2>1, <2>3, <3>1
  <2> QED
    BY <2>2, <2>3, Zenon
<1>9. Underway' /\ Counted' /\ Tracking'
  BY <1>2, Zenon DEF IInv, Underway, Counted, Tracking
<1> QED
  BY <1>7, <1>8, <1>9, Zenon DEF IInv

\* A lost copy is one less.
LEMMA LoseKeeps == ASSUME IInv, NEW c \in DOMAIN net, Lose(c) PROVE IInv'
<1>1. /\ net' = Without(net, c)
      /\ faults' = [faults EXCEPT !["lose"] = @ + 1]
      /\ UNCHANGED <<load, sent, seen, tracked, answers, delivered, relays>>
  BY Zenon DEF Lose, Fault
<1>2. c \in DOMAIN net /\ net \in [DOMAIN net -> Nat \ {0}]
  BY Zenon DEF IInv, Underway, MayBeUnderway
<1>3. Typed' /\ faults'["duplicate"] = faults["duplicate"]
  BY <1>1 DEF IInv, Typed, FaultKind
<1>4. Underway'
  BY <1>1, <1>2, LessUnderway, Zenon DEF IInv, Underway
<1>5. Counted'
  <2> SUFFICES ASSUME NEW q \in Unicast
               PROVE  /\ IsFiniteSet(Numbered(net', Key(q)))
                      /\ Cardinality(Numbered(net', Key(q))) + delivered[q.to][Key(q)]
                           <= (IF q \in sent THEN 1 ELSE 0) + faults["duplicate"]
    BY <1>1, <1>3, Zenon DEF Counted
  <2> DEFINE most == (IF q \in sent THEN 1 ELSE 0) + faults["duplicate"]
  <2>1. /\ IsFiniteSet(Numbered(net, Key(q)))
        /\ Cardinality(Numbered(net, Key(q))) + delivered[q.to][Key(q)] <= most
        /\ delivered[q.to][Key(q)] \in Nat /\ most \in Nat
    BY SendsType DEF IInv, Typed, Counted, Unicast, FaultKind
  <2>2. /\ IsFiniteSet(Numbered(net', Key(q)))
        /\ Cardinality(Numbered(net', Key(q))) =
              Cardinality(Numbered(net, Key(q))) - (IF Key(c.pkt) = Key(q) THEN 1 ELSE 0)
    BY <1>1, <1>2, <2>1, RemoveOne, Zenon
  <2>3. Cardinality(Numbered(net, Key(q))) \in Nat
    BY <2>1, FS_CardinalityType, Zenon
  <2> HIDE DEF most
  <2>4. Cardinality(Numbered(net', Key(q))) + delivered[q.to][Key(q)] <= most
    BY <2>1, <2>2, <2>3
  <2> QED
    BY <2>2, <2>4, Zenon DEF most
<1>6. Remembered' /\ Tracking'
  BY <1>1, Zenon DEF IInv, Remembered, Tracking
<1> QED
  BY <1>3, <1>4, <1>5, <1>6, Zenon DEF IInv

\* A duplicated copy is one more, and one fault more.
LEMMA DuplicateKeeps == ASSUME IInv, NEW c \in DOMAIN net, Duplicate(c) PROVE IInv'
<1>1. /\ net' = With(net, {c})
      /\ faults' = [faults EXCEPT !["duplicate"] = @ + 1]
      /\ UNCHANGED <<load, sent, seen, tracked, answers, delivered, relays>>
  BY Zenon DEF Duplicate, Fault
<1>2. c \in DOMAIN net /\ net \in [DOMAIN net -> Nat \ {0}]
  BY Zenon DEF IInv, Underway, MayBeUnderway
<1>3. Typed' /\ faults'["duplicate"] = faults["duplicate"] + 1
  BY <1>1 DEF IInv, Typed, FaultKind
<1>4. Underway'
  <2>1. /\ c \in Copy /\ c.dst \in Neighbors[c.src] /\ c.dst # c.src
        /\ \E p \in sent : CopyOf(c.pkt, p) \/ ReplyTo(c.pkt, p)
    BY <1>2, Zenon DEF IInv, Underway, MayBeUnderway
  <2>2. c.src \in Node
    BY <2>1, Zenon DEF Copy
  <2>3. MayBeUnderway(With(net, {c}), sent)
    BY <2>1, <2>2, MoreUnderway DEF IInv, Underway
  <2> QED
    BY <1>1, <2>3, Zenon DEF Underway
<1>5. Counted'
  <2> SUFFICES ASSUME NEW q \in Unicast
               PROVE  /\ IsFiniteSet(Numbered(net', Key(q)))
                      /\ Cardinality(Numbered(net', Key(q))) + delivered[q.to][Key(q)]
                           <= (IF q \in sent THEN 1 ELSE 0) + (faults["duplicate"] + 1)
    BY <1>1, <1>3, Zenon DEF Counted
  <2> DEFINE one == IF q \in sent THEN 1 ELSE 0
  <2>1. /\ IsFiniteSet(Numbered(net, Key(q))) /\ one \in Nat
        /\ Cardinality(Numbered(net, Key(q))) + delivered[q.to][Key(q)] <= one + faults["duplicate"]
        /\ delivered[q.to][Key(q)] \in Nat /\ faults["duplicate"] \in Nat
    BY SendsType, Zenon DEF IInv, Typed, Counted, Unicast, FaultKind
  <2>2. \A x, y \in {c} : x = y
    BY Zenon
  <2>3. /\ IsFiniteSet(Numbered(net', Key(q)))
        /\ Cardinality(Numbered(net', Key(q))) <= Cardinality(Numbered(net, Key(q))) + 1
    BY <1>1, <1>2, <2>1, <2>2, AddAtMostOne, Zenon
  <2>4. Cardinality(Numbered(net, Key(q))) \in Nat /\ Cardinality(Numbered(net', Key(q))) \in Nat
    BY <2>1, <2>3, FS_CardinalityType, Zenon
  <2> HIDE DEF one
  <2>5. Cardinality(Numbered(net', Key(q))) + delivered[q.to][Key(q)] <= one + (faults["duplicate"] + 1)
    BY <2>1, <2>3, <2>4
  <2> QED
    BY <2>3, <2>5, Zenon DEF one
<1>6. Remembered' /\ Tracking'
  BY <1>1, Zenon DEF IInv, Remembered, Tracking
<1> QED
  BY <1>3, <1>4, <1>5, <1>6, Zenon DEF IInv

\* Every step keeps the invariant.
LEMMA NextIInv == IInv /\ [Next]_vars => IInv'
<1> SUFFICES ASSUME IInv, [Next]_vars PROVE IInv'
  BY Zenon
<1>1. CASE UNCHANGED vars
  <2>1. Typed' /\ Underway'
    BY <1>1, Zenon DEF vars, IInv, Typed, Underway, MayBeUnderway
  <2>2. Remembered' /\ Tracking'
    BY <1>1, Zenon DEF vars, IInv, Remembered, Tracking
  <2>3. Counted'
    BY <1>1, Zenon DEF vars, IInv, Counted
  <2> QED
    BY <2>1, <2>2, <2>3, Zenon DEF IInv
<1> QED
  BY <1>1, SendKeeps, ReceiveKeeps, CleanupKeeps, LoseKeeps, DuplicateKeeps, Zenon DEF Next

\* For any topology, any routes that change at any moment, any loads and any
\* losses and duplicates: as long as a node remembers the key of a packet it
\* passes on what others send it under that key only once.
THEOREM ForwardsOnce == Spec => []PassedOnOnce
<1>1. IInv => PassedOnOnce
  <2> SUFFICES ASSUME IInv PROVE PassedOnOnce
    BY Zenon
  <2>1. /\ net \in [DOMAIN net -> Nat \ {0}]
        /\ \A c \in DOMAIN net : c.src \in Node /\ c.dst \in Neighbors[c.src] /\ c.pkt \in Packet
    BY DEF IInv, Underway, MayBeUnderway, Copy
  <2>2. \A n \in Node : \A i \in 1..Len(seen[n]) : seen[n][i] \in Keys
    BY DEF IInv, Typed
  <2> QED
    BY <2>1, <2>2, Zenon DEF IInv, Typed, Remembered, PassedOnOnce, TypeOK
<1> QED
  BY <1>1, InitIInv, NextIInv, PTL DEF Spec

\* Under the same conditions: a packet for one node is handed to it at most
\* once, but for copies the transport made, and its response is at most once.
THEOREM DeliversOnce == Spec => []UnicastAtMostOnce
<1>1. IInv => UnicastAtMostOnce
  <2> SUFFICES ASSUME IInv, NEW p \in Sends, p.to # Everyone
               PROVE  /\ delivered[p.to][Key(p)] <= 1 + faults["duplicate"]
                      /\ answers[p.id][p.to] <= 1
    BY Zenon DEF UnicastAtMostOnce
  <2>1. p \in Unicast
    BY Zenon DEF Unicast
  <2>2. /\ IsFiniteSet(Numbered(net, Key(p)))
        /\ Cardinality(Numbered(net, Key(p))) + delivered[p.to][Key(p)]
              <= (IF p \in sent THEN 1 ELSE 0) + faults["duplicate"]
        /\ answers[p.id][p.to] <= 1
    BY <2>1, Zenon DEF IInv, Counted, Tracking
  <2>3. /\ Cardinality(Numbered(net, Key(p))) \in Nat
        /\ delivered[p.to][Key(p)] \in Nat /\ faults["duplicate"] \in Nat
    BY <2>1, <2>2, SendsType, FS_CardinalityType, Zenon DEF IInv, Typed, FaultKind
  <2> QED
    BY <2>2, <2>3
<1> QED
  BY <1>1, InitIInv, NextIInv, PTL DEF Spec


-----------------------------------------------------------------------------
(* How far a broadcast gets: the part of BroadcastReachesAll that is an    *)
(* invariant.                                                              *)

\* The nodes that have broadcast p, and the copies of it under way.
Got(p) == {n \in Node : n = p.from \/ delivered[n][Key(p)] > 0}

CopiesUnderway(p) == {c \in DOMAIN net : Key(c.pkt) = Key(p)}

\* No copy has been lost, and keys are remembered as long as packets are
\* under way.
Undisturbed == ~load.expire /\ faults["lose"] = 0

\* The nodes of G have p, and the copies of U are under way: the neighbours
\* of G are reached or about to be, unless the TTL was used up.  A copy has
\* lost no more of its TTL than there are nodes that have p.
Spreads(G, U, p) ==
    /\ IsFiniteSet(G)
    /\ \A c \in U : c.src \in G /\ Cardinality(G) + c.pkt.ttl >= p.ttl
    /\ \A n \in G : \A h \in Neighbors[n] \ {n} :
          h \in G \/ (\E c \in U : c.dst = h) \/ Cardinality(G) >= p.ttl

\* A node remembers the key of a broadcast exactly if it has it.
FloodIInv ==
    /\ \A p \in Sends \ sent : \A n \in Node : delivered[n][Key(p)] = 0
    /\ \A p \in Sends : \A n \in Node : p.to = Everyone /\ Contains(seen[n], Key(p)) => p \in sent /\ n \in Got(p)
    /\ Undisturbed => \A p \in sent : p.to = Everyone =>
          Spreads(Got(p), CopiesUnderway(p), p) /\ \A n \in Got(p) : Contains(seen[n], Key(p))

\* A copy that comes to a node that has p, or goes to no new node.
LEMMA SpreadsAgain ==
    ASSUME NEW G, NEW U, NEW p, Spreads(G, U, p), NEW V, V \subseteq U, \A c \in U : c \in V \/ c.dst \in G
    PROVE  Spreads(G, V, p)
<1>1. ASSUME NEW n \in G, NEW h \in Neighbors[n] \ {n}
      PROVE  h \in G \/ (\E c \in V : c.dst = h) \/ Cardinality(G) >= p.ttl
  <2>1. h \in G \/ (\E c \in U : c.dst = h) \/ Cardinality(G) >= p.ttl
    BY Zenon DEF Spreads
  <2> QED BY <2>1, Zenon
<1> QED BY <1>1, Zenon DEF Spreads

\* The first copy that comes to n: its copies go to all other neighbours of
\* n, or it was the last of at least p.ttl nodes.
LEMMA SpreadsFurther ==
    ASSUME NEW G, NEW U, NEW p, Spreads(G, U, p), p.ttl \in Nat,
           NEW c \in U, NEW n, n \notin G, c.dst = n, \A x \in U : x.pkt.ttl \in Nat \ {0},
           NEW V, \A x \in U : x \in V \/ x.dst = n,
           \A x \in V : x \in U \/ (x.src = n /\ x.pkt.ttl = c.pkt.ttl - 1),
           c.pkt.ttl > 1 => \A h \in Neighbors[n] \ {c.src, n} : \E x \in V : x.dst = h
    PROVE  Spreads(G \cup {n}, V, p)
<1>1. IsFiniteSet(G) /\ Cardinality(G) \in Nat
  BY FS_CardinalityType, Zenon DEF Spreads
<1>2. IsFiniteSet(G \cup {n}) /\ Cardinality(G \cup {n}) = Cardinality(G) + 1
  BY <1>1, FS_AddElement, Zenon
<1> DEFINE g == Cardinality(G)
           k == Cardinality(G \cup {n})
           t == c.pkt.ttl
<1>3. k = g + 1 /\ g \in Nat /\ t \in Nat \ {0} /\ c.src \in G /\ g + t >= p.ttl
  BY <1>1, <1>2, Zenon DEF Spreads
<1>4. ASSUME NEW x \in V PROVE x.src \in G \cup {n} /\ k + x.pkt.ttl >= p.ttl
  <2>1. CASE x \in U
    <3>1. x.src \in G /\ g + x.pkt.ttl >= p.ttl /\ x.pkt.ttl \in Nat
      BY <2>1, Zenon DEF Spreads
    <3> HIDE DEF g, k
    <3> QED BY <1>3, <3>1
  <2>2. CASE x \notin U
    <3>1. x.src = n /\ x.pkt.ttl = t - 1
      BY <1>4, <2>2, Zenon
    <3> HIDE DEF g, k, t
    <3> QED BY <1>3, <3>1
  <2> QED BY <2>1, <2>2, Zenon
<1>5. ASSUME NEW m \in G, NEW h \in Neighbors[m] \ {m}
      PROVE  h \in G \cup {n} \/ (\E x \in V : x.dst = h) \/ k >= p.ttl
  <2>1. h \in G \/ (\E x \in U : x.dst = h) \/ g >= p.ttl
    BY Zenon DEF Spreads
  <2>2. g >= p.ttl => k >= p.ttl
    <3> HIDE DEF g, k
    <3> QED BY <1>3
  <2>3. (\E x \in U : x.dst = h) => h = n \/ \E x \in V : x.dst = h
    BY Zenon
  <2> HIDE DEF g, k
  <2> QED BY <2>1, <2>2, <2>3, Zenon
<1>6. ASSUME NEW h \in Neighbors[n] \ {n}
      PROVE  h \in G \cup {n} \/ (\E x \in V : x.dst = h) \/ k >= p.ttl
  <2>1. CASE t > 1
    BY <1>3, <2>1, Zenon
  <2>2. CASE ~(t > 1)
    <3>1. k >= p.ttl
      <4> HIDE DEF g, k, t
      <4> QED BY <1>3, <2>2
    <3> QED BY <3>1, Zenon
  <2> QED BY <2>1, <2>2, Zenon
<1> QED BY <1>2, <1>4, <1>5, <1>6, Zenon DEF Spreads

\* The sender of p sends it to all its neighbours.
LEMMA SpreadsFirst ==
    ASSUME NEW a, NEW U, NEW p, p.ttl \in Nat \ {0}, \A x \in U : x.src = a /\ x.pkt.ttl = p.ttl - 1,
           p.ttl > 1 => \A h \in Neighbors[a] \ {a} : \E x \in U : x.dst = h
    PROVE  Spreads({a}, U, p)
<1>1. IsFiniteSet({a}) /\ Cardinality({a}) = 1
  BY FS_Singleton, Zenon
<1>2. ASSUME NEW x \in U PROVE Cardinality({a}) + x.pkt.ttl >= p.ttl
  BY <1>1
<1>3. p.ttl > 1 \/ Cardinality({a}) >= p.ttl
  BY <1>1
<1> QED BY <1>1, <1>2, <1>3, Zenon DEF Spreads

\* What is under way when copies are added.
LEMMA AddedCopies ==
    ASSUME NEW B, B \in [DOMAIN B -> Nat \ {0}], NEW S, NEW A, A = With(B, S)
    PROVE  DOMAIN A = DOMAIN B \cup S
<1>1. DOMAIN With(B, S) = DOMAIN B \cup S
  BY AddCopies, Zenon
<1> QED BY <1>1, Zenon

\* What is under way when a copy is taken.
LEMMA RemovedCopy ==
    ASSUME NEW B, B \in [DOMAIN B -> Nat \ {0}], NEW c \in DOMAIN B, NEW A, A = Without(B, c)
    PROVE  /\ A \in [DOMAIN A -> Nat \ {0}] /\ DOMAIN A \subseteq DOMAIN B
           /\ \A x \in DOMAIN B : x = c \/ x \in DOMAIN A
<1>1. A \in [DOMAIN A -> Nat \ {0}]
  BY RemoveCopy, Zenon
<1>2. DOMAIN A = {e \in DOMAIN B : e # c \/ B[c] > 1}
  BY RemoveCopy, Zenon
<1> QED BY <1>1, <1>2, Zenon

\* What a node remembers after one more key.
LEMMA InsertOnly ==
    ASSUME NEW s \in Seq(Keys), NEW k \in Keys, NEW j
    PROVE  Contains(Insert(s, k), j) <=> Contains(s, j) \/ j = k
<1>1. Contains(s, j) \/ j = k => Contains(Insert(s, k), j)
  BY InsertKey, Zenon
<1>2. ASSUME Contains(Insert(s, k), j), ~Contains(s, k) PROVE Contains(s, j) \/ j = k
  <2>1. Insert(s, k) = Append(s, k) /\ Len(Append(s, k)) = Len(s) + 1 /\ Len(s) \in Nat
    BY <1>2 DEF Insert
  <2>2. Append(s, k)[Len(s) + 1] = k /\ \A i \in 1..Len(s) : Append(s, k)[i] = s[i]
    OBVIOUS
  <2>3. PICK i \in 1..(Len(s) + 1) : Append(s, k)[i] = j
    BY <1>2, <2>1, Zenon DEF Contains
  <2>4. i \in 1..Len(s) \/ i = Len(s) + 1
    BY <2>1
  <2> QED BY <2>2, <2>3, <2>4, Zenon DEF Contains
<1>3. Contains(s, k) => Insert(s, k) = s
  BY Zenon DEF Insert
<1> QED BY <1>1, <1>2, <1>3, Zenon

\* The TTL of the copies a node sends, and where they go.
LEMMA CopiesTtl ==
    ASSUME NEW n, NEW src, NEW p \in Packet, NEW H, NEW x \in Copies(n, src, p, H)
    PROVE  x.pkt.ttl = p.ttl - 1
<1> DEFINE q == [p EXCEPT !.ttl = Decremented(@)]
<1>1. p.ttl \in Nat \ {0}
  BY ForwardingAssumption DEF Packet
<1>2. Decremented(p.ttl) = p.ttl - 1
  BY <1>1 DEF Decremented
<1>3. q.ttl = Decremented(p.ttl)
  BY Zenon DEF Packet
<1> HIDE DEF q
<1>4. \E h \in H \ {src, n} : x = [src |-> n, dst |-> h, pkt |-> q]
  BY Zenon DEF Copies, q
<1>5. x.pkt = q
  BY <1>4
<1> QED BY <1>2, <1>3, <1>5, Zenon

LEMMA CopiesReach ==
    ASSUME NEW n, NEW src, NEW p \in Packet, NEW H, p.ttl > 1, NEW h \in H, h # src, h # n
    PROVE  \E x \in Copies(n, src, p, H) : x.dst = h
<1> DEFINE x == [src |-> n, dst |-> h, pkt |-> [p EXCEPT !.ttl = Decremented(@)]]
<1>1. p.ttl \in Nat \ {0}
  BY ForwardingAssumption DEF Packet
<1>2. ~(Decremented(p.ttl) <= 0)
  BY <1>1 DEF Decremented
<1>3. x \in Copies(n, src, p, H) /\ x.dst = h
  BY <1>2, Zenon DEF Copies
<1> QED BY <1>3, Zenon

\* The part of the invariant that is about broadcast p.
FloodOf(p) ==
    /\ p \notin sent => \A n \in Node : delivered[n][Key(p)] = 0
    /\ p.to = Everyone => \A n \in Node : Contains(seen[n], Key(p)) => p \in sent /\ n \in Got(p)
    /\ Undisturbed /\ p \in sent /\ p.to = Everyone =>
          Spreads(Got(p), CopiesUnderway(p), p) /\ \A n \in Got(p) : Contains(seen[n], Key(p))

\* The invariant is about each packet by itself.
LEMMA FloodEach == ASSUME IInv PROVE FloodIInv <=> \A p \in Sends : FloodOf(p)
<1>1. sent \subseteq Sends
  BY Zenon DEF IInv, Typed, Sends
<1> QED BY <1>1, Zenon DEF FloodIInv, FloodOf

\* A step that is not about p, except that a node may forget its key.
LEMMA FloodStays ==
    ASSUME NEW p \in Sends, FloodOf(p), p \in sent' <=> p \in sent, Undisturbed' => Undisturbed,
           \A n \in Node : delivered'[n][Key(p)] = delivered[n][Key(p)],
           \A n \in Node : Contains(seen'[n], Key(p)) => Contains(seen[n], Key(p)),
           Undisturbed' => /\ CopiesUnderway(p)' = CopiesUnderway(p)
                           /\ \A n \in Node : Contains(seen[n], Key(p)) => Contains(seen'[n], Key(p))
    PROVE  FloodOf(p)'
<1>1. Got(p)' = Got(p)
  BY Zenon DEF Got
<1>2. Got(p) \subseteq Node
  BY Zenon DEF Got
<1>3. ASSUME Undisturbed', p \in sent', p.to = Everyone
      PROVE  Spreads(Got(p), CopiesUnderway(p), p)' /\ \A n \in Got(p)' : Contains(seen'[n], Key(p))
  BY <1>1, <1>2, <1>3, Zenon DEF FloodOf
<1> QED BY <1>1, <1>3, Zenon DEF FloodOf

\* Packets that were sent with the same key are the same.
LEMMA OneKey == ASSUME NEW p \in Sends, NEW q \in Sends, Key(p) = Key(q) PROVE p = q
  BY IdsAreUnique, Zenon DEF Key

\* send_packet for a broadcast.
LEMMA SendFlood == ASSUME IInv, FloodIInv, NEW q \in Sends, Send(q), NEW p \in Sends PROVE FloodOf(p)'
<1>0. FloodOf(p) /\ FloodOf(q)
  BY FloodEach, Zenon
<1>1. /\ q \notin sent /\ sent' = sent \cup {q} /\ UNCHANGED <<load, delivered, faults>>
      /\ q \in Packet /\ q.from \in Node /\ Key(q) \in Keys /\ load \in Loads
      /\ net \in [DOMAIN net -> Nat \ {0}] /\ seen \in [Node -> Seq(Keys)]
  BY SendsType, Zenon DEF Send, IInv, Typed, Underway, MayBeUnderway
<1>2. \A n \in Node : seen'[n] = seen[n] \/ (n = q.from /\ q.to # q.from /\ seen'[n] = Insert(seen[n], Key(q)))
  BY <1>1, Zenon DEF Send
<1>3. \A n \in Node : \A j : Contains(seen'[n], j) => Contains(seen[n], j) \/ (n = q.from /\ j = Key(q))
  BY <1>1, <1>2, InsertOnly, Zenon
<1>4. \A n \in Node : \A j : Contains(seen[n], j) => Contains(seen'[n], j)
  <2> SUFFICES ASSUME NEW n \in Node, NEW j, Contains(seen[n], j) PROVE Contains(seen'[n], j)
    BY Zenon
  <2>1. CASE seen'[n] = seen[n]
    BY <2>1, Zenon
  <2>2. CASE seen'[n] = Insert(seen[n], Key(q))
    <3>1. seen[n] \in Seq(Keys)
      BY <1>1, Zenon
    <3>2. Contains(Insert(seen[n], Key(q)), j)
      BY <1>1, <3>1, InsertKey, Zenon
    <3> QED BY <2>2, <3>2, Zenon
  <2> QED BY <1>2, <2>1, <2>2, Zenon
<1>5. CASE p # q
  <2>1. Key(p) # Key(q)
    BY <1>5, OneKey, Zenon
  <2>2. CopiesUnderway(p)' = CopiesUnderway(p)
    <3>1. CASE q.to = q.from
      BY <3>1, Zenon DEF Send, CopiesUnderway
    <3>2. CASE q.to # q.from
      <4>1. PICK H \in NextHopChoices(q.from, q) : net' = With(net, Copies(q.from, q.from, q, H))
        BY <3>2, Zenon DEF Send
      <4>2. H \subseteq Neighbors[q.from] \cup {q.from}
        BY <1>1, Hops, Zenon
      <4>3. \A x \in Copies(q.from, q.from, q, H) : Key(x.pkt) = Key(q)
        BY <1>1, <4>2, CopiesAre, Zenon
      <4> DEFINE U == Copies(q.from, q.from, q, H)
      <4> HIDE DEF U
      <4>4. DOMAIN net' = DOMAIN net \cup U
        BY <1>1, <4>1, AddedCopies, Zenon DEF U
      <4>5. \A x \in U : Key(x.pkt) # Key(p)
        BY <2>1, <4>3, Zenon DEF U
      <4> QED BY <4>4, <4>5, Zenon DEF CopiesUnderway
    <3> QED BY <3>1, <3>2, Zenon
  <2>3. (p \in sent' <=> p \in sent) /\ (Undisturbed' => Undisturbed)
    BY <1>1, <1>5, Zenon DEF Undisturbed
  <2>4. \A n \in Node : delivered'[n][Key(p)] = delivered[n][Key(p)]
    BY <1>1, Zenon
  <2>5. \A n \in Node : Contains(seen'[n], Key(p)) <=> Contains(seen[n], Key(p))
    BY <1>3, <1>4, <2>1
  <2> QED BY <1>0, <2>2, <2>3, <2>4, <2>5, FloodStays, Zenon
<1>6. CASE p = q
  <2>1. Got(p)' = {q.from}
    <3>1. \A n \in Node : delivered'[n][Key(q)] = 0
      BY <1>0, <1>1, Zenon DEF FloodOf
    <3>2. \A n \in Node : ~(delivered'[n][Key(q)] > 0)
      BY <3>1
    <3> QED BY <1>1, <1>6, <3>2, Zenon DEF Got
  <2>2. \A n \in Node : p.to = Everyone /\ Contains(seen'[n], Key(p)) => p \in sent' /\ n \in Got(p)'
    BY <1>0, <1>1, <1>3, <1>6, <2>1, Zenon DEF FloodOf
  <2>3. ASSUME p.to = Everyone
        PROVE  Spreads(Got(p), CopiesUnderway(p), p)' /\ \A n \in Got(p)' : Contains(seen'[n], Key(p))
    <3>1. q.to # q.from /\ q.to = Everyone
      BY <1>1, <1>6, <2>3, ForwardingAssumption, Zenon
    <3>2. net' = With(net, Copies(q.from, q.from, q, Neighbors[q.from]))
      BY <3>1, Zenon DEF Send, NextHopChoices
    <3> DEFINE a == q.from
               H == Neighbors[a]
               U == Copies(a, a, q, H)
    <3>a. a \in Node /\ q \in Packet /\ H \subseteq Neighbors[a] \cup {a}
      BY <1>1, Zenon
    <3>b. net' = With(net, U)
      BY <3>2, Zenon
    <3> HIDE DEF a, H, U
    <3>3. DOMAIN net' = DOMAIN net \cup U
      BY <1>1, <3>b, AddedCopies, Zenon
    <3>4. \A x \in U : Key(x.pkt) = Key(q) /\ x.src = a
      BY <3>a, CopiesAre, Zenon DEF U
    <3>5. \A x \in DOMAIN net : Key(x.pkt) # Key(q)
      <4> SUFFICES ASSUME NEW x \in DOMAIN net, Key(x.pkt) = Key(q) PROVE FALSE
        BY Zenon
      <4>1. PICK s \in sent : CopyOf(x.pkt, s) \/ ReplyTo(x.pkt, s)
        BY Zenon DEF IInv, Underway, MayBeUnderway
      <4>2. q = s
        BY <4>1, SameKey
      <4> QED BY <1>1, <4>1, <4>2, Zenon
    <3>6. /\ \A x \in U : x.pkt.ttl = q.ttl - 1
          /\ q.ttl > 1 => \A h \in H \ {a} : \E x \in U : x.dst = h
      <4>1. ASSUME NEW x \in U PROVE x.pkt.ttl = q.ttl - 1
        BY <3>a, CopiesTtl DEF U
      <4>2. ASSUME q.ttl > 1, NEW h \in H \ {a} PROVE \E x \in U : x.dst = h
        BY <3>a, <4>2, CopiesReach DEF U
      <4> QED BY <4>1, <4>2, Zenon
    <3>7. q.ttl \in Nat \ {0}
      BY <1>1, ForwardingAssumption DEF Packet
    <3>8. CopiesUnderway(p)' = U
      BY <1>6, <3>3, <3>4, <3>5, Zenon DEF CopiesUnderway
    <3>9. Spreads({a}, U, q)
      <4>1. q.ttl > 1 => \A h \in Neighbors[a] \ {a} : \E x \in U : x.dst = h
        BY <3>6, Zenon DEF H
      <4> QED BY <3>4, <3>6, <3>7, <4>1, SpreadsFirst, Zenon
    <3>10. Contains(seen'[q.from], Key(q))
      <4>1. seen'[q.from] = Insert(seen[q.from], Key(q))
        BY <1>1, <3>1, Zenon DEF Send
      <4>2. seen[q.from] \in Seq(Keys)
        BY <1>1, Zenon
      <4> QED BY <1>1, <4>1, <4>2, InsertKey, Zenon
    <3> QED BY <1>6, <2>1, <3>8, <3>9, <3>10, Zenon DEF a
  <2> QED BY <1>1, <1>6, <2>2, <2>3, Zenon DEF FloodOf
<1> QED BY <1>5, <1>6, Zenon

\* What receiving a copy does to broadcast p, whose copy it is or not.
LEMMA ReceiveIs ==
    ASSUME IInv, NEW c \in DOMAIN net, Receive(c), NEW p \in Sends, p.to = Everyone
    PROVE  /\ c \in DOMAIN net /\ c \in Copy /\ c.dst # c.src /\ UNCHANGED <<load, sent, faults>>
           /\ Key(c.pkt) # Key(p) =>
                 /\ \A n \in Node : /\ delivered'[n][Key(p)] = delivered[n][Key(p)]
                                    /\ Contains(seen'[n], Key(p)) <=> Contains(seen[n], Key(p))
                 /\ CopiesUnderway(p)' = CopiesUnderway(p)
           /\ Key(c.pkt) = Key(p) =>
                 /\ p \in sent /\ CopyOf(c.pkt, p)
                 /\ \A n \in Node : delivered'[n][Key(p)] =
                        IF n = c.dst /\ n # p.from THEN delivered[n][Key(p)] + 1 ELSE delivered[n][Key(p)]
                 /\ LET first == c.dst # p.from /\ ~Contains(seen[c.dst], Key(p))
                        sends == IF first THEN Copies(c.dst, c.src, c.pkt, Neighbors[c.dst]) ELSE {}
                    IN  /\ \A n \in Node : Contains(seen'[n], Key(p)) <=>
                              Contains(seen[n], Key(p)) \/ (n = c.dst /\ first)
                        /\ CopiesUnderway(p)' \subseteq CopiesUnderway(p) \cup sends
                        /\ \A x \in CopiesUnderway(p) : x = c \/ x \in CopiesUnderway(p)'
                        /\ sends \subseteq CopiesUnderway(p)'
<1> DEFINE n == c.dst
           q == c.pkt
           forMe == q.from # n /\ q.to \in {n, Everyone}
           answer == forMe /\ q.id \in tracked[n]
           replies == forMe /\ ~answer /\ q.expect_response
           onward == q.from # n /\ q.to # n /\ Passes(n, c.src, q)
           r == Reply(n, q)
<1>1. /\ c \in DOMAIN net /\ net \in [DOMAIN net -> Nat \ {0}] /\ c \in Copy /\ c.dst # c.src
      /\ \E s \in sent : CopyOf(c.pkt, s) \/ ReplyTo(c.pkt, s)
  BY Zenon DEF IInv, Underway, MayBeUnderway
<1>2. PICK s \in sent : CopyOf(c.pkt, s) \/ ReplyTo(c.pkt, s)
  BY <1>1, Zenon
<1>3. s \in Sends /\ s.id \in Ids /\ s.from \in Node /\ p \in Packet /\ p.from \in Node /\ Key(p) \in Keys
  BY SendsType, Zenon DEF IInv, Typed, Sends
<1>4. /\ n \in Node /\ q \in Packet /\ q.id = s.id /\ q.from \in Node
      /\ q.id \in Ids /\ Key(q) \in Keys /\ q.expect_response \in BOOLEAN
  BY <1>1, <1>2, <1>3, Zenon DEF Copy, Packet, CopyOf, ReplyTo, Key, Keys
<1>5. r \in Packet /\ Key(r) \in Keys /\ Key(r) = <<q.id, FALSE>>
  BY <1>4, ForwardingAssumption, Zenon DEF Reply, Packet, Key, Keys
<1>6. /\ delivered' = [delivered EXCEPT ![n][Key(q)] = IF forMe THEN @ + 1 ELSE @]
      /\ seen' = [seen EXCEPT ![n] =
                       LET z == IF replies THEN Insert(@, Key(r)) ELSE @
                       IN  IF onward THEN Insert(z, Key(q)) ELSE z]
      /\ UNCHANGED <<load, sent, faults>>
  BY Zenon DEF Receive
<1>7. PICK R \in (IF replies THEN NextHopChoices(n, r) ELSE {{}}),
           H \in (IF onward THEN NextHopChoices(n, q) ELSE {{}}) :
              net' = With(With(Without(net, c), Copies(n, n, r, R)), Copies(n, c.src, q, H))
  BY Zenon DEF Receive
<1>8. replies => Key(r) # Key(p)
  <2> SUFFICES ASSUME replies, Key(r) = Key(p) PROVE FALSE
    BY Zenon
  <2>1. p.id = q.id /\ p.expect_response = FALSE /\ q.expect_response
    BY <1>5, Zenon DEF Key
  <2>2. p = s
    BY <1>3, <1>4, <2>1, IdsAreUnique, Zenon
  <2> QED BY <1>2, <2>1, <2>2, Zenon DEF CopyOf, ReplyTo
<1>9. Key(q) = Key(p) => p = s /\ CopyOf(q, p)
  BY <1>2, SameKey, Zenon
<1> HIDE DEF r, replies
<1>10. load \in Loads /\ seen \in [Node -> Seq(Keys)] /\ delivered \in [Node -> [Keys -> Nat]]
  BY Zenon DEF IInv, Typed
<1>11. R \subseteq Neighbors[n] \cup {n} /\ (~replies => R = {})
  BY <1>4, <1>5, <1>7, <1>10, Hops, Zenon
<1> DEFINE CR == Copies(n, n, r, R)
           CH == Copies(n, c.src, q, H)
<1>12. \A x \in CR : Key(x.pkt) # Key(p)
  <2>1. \A x \in CR : Key(x.pkt) = Key(r) /\ x.dst \in R
    BY <1>4, <1>5, <1>11, CopiesAre, Zenon
  <2> QED BY <1>8, <1>11, <2>1, Zenon
<1>13. H \subseteq Neighbors[n] \cup {n} /\ (~onward => H = {})
  <2> HIDE DEF onward
  <2> QED BY <1>4, <1>7, <1>10, Hops
<1>14. \A x \in CH : Key(x.pkt) = Key(q)
  BY <1>4, <1>13, CopiesAre, Zenon
<1> HIDE DEF CR, CH
<1> DEFINE B1 == Without(net, c)
           B2 == With(B1, CR)
<1>15. /\ B1 \in [DOMAIN B1 -> Nat \ {0}] /\ DOMAIN B1 \subseteq DOMAIN net
       /\ \A x \in DOMAIN net : x = c \/ x \in DOMAIN B1
  <2>1. B1 = Without(net, c)
    OBVIOUS
  <2> HIDE DEF B1
  <2> QED BY <1>1, <2>1, RemovedCopy, Zenon
<1>16. net' = With(B2, CH)
  BY <1>7, Zenon DEF CR, CH
<1> HIDE DEF B1
<1>17. DOMAIN B2 = DOMAIN B1 \cup CR /\ B2 \in [DOMAIN B2 -> Nat \ {0}]
  BY <1>15, AddCopies, Zenon
<1> HIDE DEF B2
<1>18. DOMAIN net' = DOMAIN B2 \cup CH
  BY <1>16, <1>17, AddedCopies, Zenon
<1>19. /\ CopiesUnderway(p)' \subseteq CopiesUnderway(p) \cup {x \in CH : Key(q) = Key(p)}
       /\ \A x \in CopiesUnderway(p) : x = c \/ x \in CopiesUnderway(p)'
       /\ Key(q) = Key(p) => CH \subseteq CopiesUnderway(p)'
  BY <1>12, <1>14, <1>15, <1>17, <1>18, Zenon DEF CopiesUnderway
<1>20. \A m \in Node : Contains(seen'[m], Key(p)) <=> Contains(seen[m], Key(p)) \/ (m = n /\ onward /\ Key(q) = Key(p))
  <2> DEFINE z == IF replies THEN Insert(seen[n], Key(r)) ELSE seen[n]
             y == IF onward THEN Insert(z, Key(q)) ELSE z
  <2>1. seen' = [seen EXCEPT ![n] = y] /\ seen[n] \in Seq(Keys)
    BY <1>4, <1>6, <1>10, Zenon
  <2>2. z \in Seq(Keys) /\ (Contains(z, Key(p)) <=> Contains(seen[n], Key(p)))
    BY <1>5, <1>8, <2>1, InsertKey, InsertOnly, Zenon
  <2> HIDE DEF z, onward
  <2>3. Contains(y, Key(p)) <=> Contains(z, Key(p)) \/ (onward /\ Key(q) = Key(p))
    BY <1>4, <2>2, InsertOnly, Zenon
  <2> HIDE DEF y
  <2> QED BY <1>4, <1>10, <2>1, <2>2, <2>3, Zenon
<1>21. CASE Key(q) # Key(p)
  <2>1. \A m \in Node : delivered'[m][Key(p)] = delivered[m][Key(p)]
    <3> HIDE DEF forMe
    <3> QED BY <1>3, <1>4, <1>6, <1>10, <1>21, Zenon
  <2>2. CopiesUnderway(p)' = CopiesUnderway(p)
    <3>1. c \notin CopiesUnderway(p)
      BY <1>21, Zenon DEF CopiesUnderway
    <3> QED BY <1>19, <1>21, <3>1, Zenon
  <2> QED BY <1>1, <1>6, <1>20, <1>21, <2>1, <2>2, Zenon
<1>22. CASE Key(q) = Key(p)
  <2>1. q.from = p.from /\ q.to = Everyone /\ n # Everyone /\ p \in sent /\ CopyOf(q, p)
    BY <1>2, <1>4, <1>9, <1>22, ForwardingAssumption, Zenon DEF CopyOf
  <2>2. forMe <=> n # p.from
    BY <2>1, Zenon
  <2>3. onward <=> n # p.from /\ ~Contains(seen[n], Key(p))
    BY <1>1, <1>22, <2>1, Zenon DEF Passes
  <2> HIDE DEF forMe, onward
  <2>4. \A m \in Node : delivered'[m][Key(p)] =
            IF m = n /\ m # p.from THEN delivered[m][Key(p)] + 1 ELSE delivered[m][Key(p)]
    <3>1. delivered' = [delivered EXCEPT ![n][Key(p)] = IF n # p.from THEN @ + 1 ELSE @]
      BY <1>6, <1>22, <2>2, Zenon
    <3> QED BY <1>3, <1>4, <1>10, <3>1, Zenon
  <2>5. onward => H = Neighbors[n]
    BY <1>7, <2>1, Zenon DEF NextHopChoices
  <2>6. ~onward => CH = {}
    BY <1>13, Zenon DEF CH, Copies
  <2>7. onward => CH = Copies(n, c.src, q, Neighbors[n])
    BY <2>5, Zenon DEF CH
  <2> QED BY <1>1, <1>6, <1>19, <1>20, <1>22, <2>1, <2>3, <2>4, <2>6, <2>7, Zenon
<1> QED BY <1>21, <1>22, Zenon

\* handle_packet for a copy of a broadcast: a node that has it drops the
\* copy, the others pass it on.
LEMMA ReceiveFlood ==
    ASSUME IInv, FloodIInv, NEW c \in DOMAIN net, Receive(c), NEW p \in Sends PROVE FloodOf(p)'
<1>0. FloodOf(p)
  BY FloodEach, Zenon
<1>1. CASE p.to # Everyone
  <2>1. c \in DOMAIN net /\ c \in Copy /\ UNCHANGED sent
    BY Zenon DEF IInv, Underway, MayBeUnderway, Receive
  <2>2. ASSUME p \notin sent, NEW n \in Node PROVE delivered'[n][Key(p)] = 0
    <3>1. PICK s \in sent : CopyOf(c.pkt, s) \/ ReplyTo(c.pkt, s)
      BY <2>1, Zenon DEF IInv, Underway, MayBeUnderway
    <3>2. Key(c.pkt) # Key(p)
      BY <2>2, <3>1, SameKey, Zenon
    <3>3. Key(p) \in Keys /\ delivered \in [Node -> [Keys -> Nat]]
      BY SendsType, Zenon DEF IInv, Typed
    <3>4. \E v : delivered' = [delivered EXCEPT ![c.dst][Key(c.pkt)] = v]
      BY Zenon DEF Receive
    <3>5. delivered'[n][Key(p)] = delivered[n][Key(p)]
      BY <3>2, <3>3, <3>4, Zenon
    <3> QED BY <1>0, <2>2, <3>5, Zenon DEF FloodOf
  <2> QED BY <1>1, <2>1, <2>2, Zenon DEF FloodOf
<1>2. CASE p.to = Everyone /\ Key(c.pkt) # Key(p)
  <2>1. /\ \A n \in Node : /\ delivered'[n][Key(p)] = delivered[n][Key(p)]
                           /\ Contains(seen'[n], Key(p)) <=> Contains(seen[n], Key(p))
        /\ CopiesUnderway(p)' = CopiesUnderway(p) /\ UNCHANGED <<load, sent, faults>>
    BY <1>2, ReceiveIs, Zenon
  <2>2. (p \in sent' <=> p \in sent) /\ (Undisturbed' => Undisturbed)
    BY <2>1, Zenon DEF Undisturbed
  <2> QED BY <1>0, <2>1, <2>2, FloodStays, Zenon
<1>3. CASE p.to = Everyone /\ Key(c.pkt) = Key(p)
  <2> DEFINE m == c.dst
             G == Got(p)
             U == CopiesUnderway(p)
             first == c.dst # p.from /\ ~Contains(seen[c.dst], Key(p))
             sends == IF first THEN Copies(c.dst, c.src, c.pkt, Neighbors[c.dst]) ELSE {}
  <2>1. /\ c \in DOMAIN net /\ c \in Copy /\ c.dst # c.src /\ UNCHANGED <<load, sent, faults>>
        /\ p \in sent /\ CopyOf(c.pkt, p)
        /\ \A n \in Node : delivered'[n][Key(p)] =
               IF n = c.dst /\ n # p.from THEN delivered[n][Key(p)] + 1 ELSE delivered[n][Key(p)]
    BY <1>3, ReceiveIs, Zenon
  <2>2. /\ \A n \in Node : Contains(seen'[n], Key(p)) <=> Contains(seen[n], Key(p)) \/ (n = c.dst /\ first)
        /\ CopiesUnderway(p)' \subseteq CopiesUnderway(p) \cup sends
        /\ \A x \in CopiesUnderway(p) : x = c \/ x \in CopiesUnderway(p)'
        /\ sends \subseteq CopiesUnderway(p)'
    BY <1>3, ReceiveIs, Zenon
  <2>3. m \in Node /\ c.src \in Node /\ c.pkt \in Packet /\ p.from \in Node /\ p \in Packet /\ Key(p) \in Keys
    BY <2>1, SendsType, Zenon DEF Copy
  <2>4. \A n \in Node : delivered[n][Key(p)] \in Nat
    BY <2>3, Zenon DEF IInv, Typed
  <2>5. Got(p)' = G \cup {m}
    <3>1. \A n \in Node : delivered'[n][Key(p)] > 0 <=> delivered[n][Key(p)] > 0 \/ (n = m /\ n # p.from)
      BY <2>1, <2>4
    <3> QED BY <2>3, <3>1, Zenon DEF Got
  <2>6. G \subseteq Node
    BY Zenon DEF Got
  <2>7. \A n \in Node : Contains(seen'[n], Key(p)) => p \in sent' /\ n \in Got(p)'
    BY <1>0, <1>3, <2>1, <2>2, <2>5, Zenon DEF FloodOf
  <2>8. ASSUME Undisturbed'
        PROVE  Spreads(Got(p), CopiesUnderway(p), p)' /\ \A n \in Got(p)' : Contains(seen'[n], Key(p))
    <3>1. Spreads(G, U, p) /\ \A n \in G : Contains(seen[n], Key(p))
      BY <1>0, <1>3, <2>1, <2>8, Zenon DEF FloodOf, Undisturbed
    <3>2. \A n \in Node : Contains(seen[n], Key(p)) => n \in G
      BY <1>0, <1>3, Zenon DEF FloodOf
    <3>3. CASE m \in G
      <4>1. ~first
        BY <3>1, <3>3, Zenon
      <4>2. CopiesUnderway(p)' \subseteq U /\ \A x \in U : x \in CopiesUnderway(p)' \/ x.dst \in G
        BY <2>2, <3>3, <4>1, Zenon
      <4> DEFINE V == CopiesUnderway(p)'
      <4> HIDE DEF G, U, V
      <4>3. Spreads(G, V, p)
        BY <3>1, <4>2, SpreadsAgain, Zenon DEF V
      <4>4. Got(p)' = G
        BY <2>5, <3>3, Zenon
      <4>5. \A n \in Got(p)' : Contains(seen'[n], Key(p))
        BY <2>2, <2>6, <3>1, <4>4, Zenon
      <4> QED BY <4>3, <4>4, <4>5, Zenon DEF V
    <3>4. CASE m \notin G
      <4>1. m # p.from
        BY <2>3, <3>4, Zenon DEF Got
      <4>2. first
        BY <2>3, <3>2, <3>4, <4>1, Zenon
      <4>3. sends = Copies(m, c.src, c.pkt, Neighbors[m])
        BY <4>2, Zenon
      <4>4. c \in U /\ \A x \in U : x.pkt.ttl \in Nat \ {0}
        <5>1. \A x \in U : x \in Copy
          BY Zenon DEF IInv, Underway, MayBeUnderway, CopiesUnderway
        <5>2. \A x \in Copy : x.pkt.ttl \in Nat \ {0}
          BY ForwardingAssumption DEF Copy, Packet
        <5> QED BY <1>3, <2>1, <5>1, <5>2, Zenon DEF CopiesUnderway
      <4>5. p.ttl \in Nat
        BY <2>3, ForwardingAssumption DEF Packet
      <4> DEFINE V == CopiesUnderway(p)'
                 K == Neighbors[m]
                 S == Copies(m, c.src, c.pkt, K)
      <4>6. (\A x \in V : x \in U \/ x \in S) /\ (\A x \in U : x \in V \/ x.dst = m) /\ S \subseteq V
        BY <2>2, <4>3, Zenon
      <4> HIDE DEF G, U, V, m, K, S, sends, first
      <4>7. ASSUME NEW x \in S PROVE x.src = m /\ x.pkt.ttl = c.pkt.ttl - 1
        <5>1. K \subseteq Neighbors[m] \cup {m}
          BY Zenon DEF K
        <5>2. x.src = m
          BY <2>3, <5>1, CopiesAre, Zenon DEF S
        <5>3. x.pkt.ttl = c.pkt.ttl - 1
          BY <2>3, CopiesTtl DEF S
        <5> QED BY <5>2, <5>3, Zenon
      <4>8. ASSUME c.pkt.ttl > 1, NEW h \in K \ {c.src, m} PROVE \E x \in V : x.dst = h
        <5>1. \E x \in S : x.dst = h
          BY <2>3, <4>8, CopiesReach DEF S
        <5> QED BY <4>6, <5>1, Zenon
      <4>9. /\ \A x \in V : x \in U \/ (x.src = m /\ x.pkt.ttl = c.pkt.ttl - 1)
            /\ c.pkt.ttl > 1 => \A h \in Neighbors[m] \ {c.src, m} : \E x \in V : x.dst = h
        BY <4>6, <4>7, <4>8, Zenon DEF K
      <4>10. c.dst = m
        BY Zenon DEF m
      <4>11. Spreads(G \cup {m}, V, p)
        <5>1. \A x \in U : x \in V \/ x.dst = m
          BY <4>6, Zenon
        <5> QED BY <3>1, <3>4, <4>4, <4>5, <4>9, <4>10, <5>1, SpreadsFurther, SMTT(30)
      <4>12. \A n \in Got(p)' : Contains(seen'[n], Key(p))
        BY <2>2, <2>3, <2>5, <2>6, <3>1, <4>2, <4>10, Zenon
      <4> QED BY <2>5, <4>11, <4>12, Zenon DEF V
    <3> QED BY <3>3, <3>4, Zenon
  <2> QED BY <1>3, <2>1, <2>7, <2>8, Zenon DEF FloodOf
<1> QED BY <1>1, <1>2, <1>3, Zenon

\* cleanup, lost and duplicated copies, and every other step.
LEMMA NextFlood == ASSUME IInv, FloodIInv, [Next]_vars PROVE FloodIInv'
<1>0. IInv'
  BY NextIInv, Zenon
<1> SUFFICES ASSUME NEW p \in Sends PROVE FloodOf(p)'
  <2>1. FloodIInv' <=> \A p \in Sends : FloodOf(p)'
    <3>1. sent' \subseteq Sends
      BY <1>0, Zenon DEF IInv, Typed, Sends
    <3> QED BY <3>1, Zenon DEF FloodIInv, FloodOf
  <2> QED BY <2>1, Zenon
<1>1. FloodOf(p) /\ net \in [DOMAIN net -> Nat \ {0}]
  BY FloodEach, Zenon DEF IInv, Underway, MayBeUnderway
<1>2. ASSUME UNCHANGED <<load, sent, delivered, seen, faults>>, CopiesUnderway(p)' = CopiesUnderway(p)
      PROVE  FloodOf(p)'
  BY <1>1, <1>2, FloodStays, Zenon DEF Undisturbed
<1>3. ASSUME NEW n \in Node, Cleanup(n) PROVE FloodOf(p)'
  <2>1. load.expire /\ UNCHANGED <<load, sent, delivered>> /\ seen \in [Node -> Seq(Keys)]
    BY <1>3, Zenon DEF Cleanup, IInv, Typed
  <2>2. PICK i \in 1..Len(seen[n]) : seen' = [seen EXCEPT ![n] = SubSeq(@, i + 1, Len(@))]
    BY <1>3, Zenon DEF Cleanup
  <2>3. ASSUME NEW j, Contains(SubSeq(seen[n], i + 1, Len(seen[n])), j) PROVE Contains(seen[n], j)
    <3> DEFINE s == seen[n]
    <3>1. s \in Seq(Keys) /\ i \in 1..Len(s)
      BY <2>1, Zenon
    <3> HIDE DEF s
    <3>2. PICK k \in 1..Len(SubSeq(s, i + 1, Len(s))) : SubSeq(s, i + 1, Len(s))[k] = j
      BY <2>3, Zenon DEF Contains, s
    <3>3. k + i \in 1..Len(s) /\ s[k + i] = j
      BY <3>1, <3>2
    <3> QED BY <3>3, Zenon DEF Contains, s
  <2>4. \A x \in Node : Contains(seen'[x], Key(p)) => Contains(seen[x], Key(p))
    BY <2>1, <2>2, <2>3, Zenon
  <2>5. ~Undisturbed'
    BY <2>1, Zenon DEF Undisturbed
  <2> QED BY <1>1, <2>1, <2>4, <2>5, FloodStays, Zenon
<1>4. ASSUME NEW c \in DOMAIN net, Lose(c) PROVE FloodOf(p)'
  <2>1. UNCHANGED <<load, sent, delivered, seen>> /\ faults' = [faults EXCEPT !["lose"] = @ + 1]
    BY <1>4, Zenon DEF Lose, Fault
  <2>2. faults'["lose"] # 0
    BY <2>1 DEF IInv, Typed, FaultKind
  <2>3. ~Undisturbed'
    BY <2>2, Zenon DEF Undisturbed
  <2> QED BY <1>1, <2>1, <2>3, FloodStays, Zenon
<1>5. ASSUME NEW c \in DOMAIN net, Duplicate(c) PROVE FloodOf(p)'
  <2>1. /\ UNCHANGED <<load, sent, delivered, seen>> /\ faults' = [faults EXCEPT !["duplicate"] = @ + 1]
        /\ net' = With(net, {c})
    BY <1>5, Zenon DEF Duplicate, Fault
  <2>2. DOMAIN net' = DOMAIN net
    <3>1. DOMAIN net' = DOMAIN net \cup {c}
      BY <1>1, <2>1, AddedCopies, Zenon
    <3> QED BY <1>1, <3>1, Zenon
  <2>3. CopiesUnderway(p)' = CopiesUnderway(p)
    BY <2>2, Zenon DEF CopiesUnderway
  <2>4. faults'["lose"] = faults["lose"]
    BY <2>1 DEF IInv, Typed, FaultKind
  <2> QED BY <1>1, <2>1, <2>3, <2>4, FloodStays, Zenon DEF Undisturbed
<1>6. CASE UNCHANGED vars
  BY <1>2, <1>6, Zenon DEF vars, CopiesUnderway
<1> QED BY <1>3, <1>4, <1>5, <1>6, SendFlood, ReceiveFlood, Zenon DEF Next

\* A flood that is over has been handed to every node that a path leads to,
\* or to as many nodes as its TTL, if no copy was lost and no key forgotten:
\* although a node drops all copies but the first, whose TTL may be less than
\* that of one it drops, and never sends one back to where it came from.
FloodIsComplete ==
    \A p \in sent :
        p.to = Everyone /\ Undisturbed /\ CopiesUnderway(p) = {} =>
            \/ \A n \in Got(p) : Neighbors[n] \subseteq Got(p)
            \/ Cardinality(Got(p)) >= p.ttl

\* In every network, whatever its cycles.  In particular a TTL that is no less
\* than the number of nodes suffices for all of them, whichever copies come
\* first.
THEOREM FloodsAreComplete == Spec => []FloodIsComplete
<1>1. ASSUME Init PROVE IInv /\ FloodIInv
  <2>1. IInv
    BY <1>1, InitIInv, Zenon
  <2>2. \A p \in Sends : \A n \in Node : delivered[n][Key(p)] = 0
    BY <1>1, SendsType, Zenon DEF Init
  <2>3. \A n \in Node : \A k : ~Contains(seen[n], k)
    <3>1. \A n \in Node : Len(seen[n]) = 0
      BY <1>1 DEF Init
    <3> QED BY <3>1 DEF Contains
  <2> QED BY <1>1, <2>1, <2>2, <2>3, Zenon DEF FloodIInv, Init
<1>2. ASSUME IInv, FloodIInv, [Next]_vars PROVE (IInv /\ FloodIInv)'
  BY <1>2, NextIInv, NextFlood, Zenon
<1>3. ASSUME IInv, FloodIInv PROVE FloodIsComplete
  <2> SUFFICES ASSUME NEW p \in sent, p.to = Everyone, Undisturbed, CopiesUnderway(p) = {},
                      ~(Cardinality(Got(p)) >= p.ttl), NEW n \in Got(p), NEW h \in Neighbors[n]
               PROVE  h \in Got(p)
    BY Zenon DEF FloodIsComplete
  <2>1. Spreads(Got(p), CopiesUnderway(p), p)
    BY <1>3, Zenon DEF FloodIInv
  <2> QED BY <2>1, Zenon DEF Spreads
<1>4. Spec => [](IInv /\ FloodIInv)
  BY <1>1, <1>2, PTL DEF Spec
<1> QED BY <1>3, <1>4, PTL
=============================================================================
