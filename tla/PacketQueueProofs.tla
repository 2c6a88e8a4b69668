----------------------- MODULE PacketQueueProofs ------------------------
(***************************************************************************)
(* What the operations of the packet manager do to the three lists, for     *)
(* every pool: each moves one packet and disturbs no other.  The lists have *)
(* the capacity of the pool, so `add' can't be refused by the unused list;  *)
(* that is why the pool loses nothing although free() ignores its result.   *)
(***************************************************************************)
EXTENDS PacketQueue, FiniteSetTheorems, SequenceTheorems, TLAPS

(* Removing an entry removes its packet and keeps the others, once each.     *)
LEMMA WithoutRemoves ==
  ASSUME NEW q \in Queue, NEW i \in DOMAIN q
  PROVE  /\ Without(q, i) \in Queue
         /\ Len(Without(q, i)) = Len(q) - 1
         /\ q[i].pkt \in Packet
         /\ Distinct(q) => /\ Distinct(Without(q, i))
                           /\ PacketsOf(Without(q, i)) = PacketsOf(q) \ {q[i].pkt}
<1> DEFINE r == Without(q, i)
<1>1. /\ Len(q) \in Nat /\ DOMAIN q = 1 .. Len(q) /\ i \in 1 .. Len(q)
      /\ \A k \in 1 .. Len(q) : q[k] \in Entry
  BY LenProperties, ElementOfSeq DEF Queue
<1>2. r \in [1 .. (Len(q) - 1) -> Entry]
  BY <1>1 DEF Without
<1>3. r \in Queue /\ Len(r) = Len(q) - 1 /\ DOMAIN r = 1 .. (Len(q) - 1)
  <2> HIDE DEF r
  <2>1. Len(q) - 1 \in Nat
    BY <1>1
  <2>2. r \in Seq(Entry) /\ DOMAIN r = 1 .. (Len(q) - 1)
    BY <1>2, <2>1, SeqDef
  <2>3. Len(r) \in Nat /\ DOMAIN r = 1 .. Len(r)
    BY <2>2, LenProperties
  <2>4. Len(r) = Len(q) - 1
    BY <2>1, <2>2, <2>3
  <2> QED BY <2>2, <2>4 DEF Queue
<1>4. \A k \in DOMAIN r : r[k] = IF k < i THEN q[k] ELSE q[k + 1]
  BY <1>3 DEF Without
<1>5. ASSUME Distinct(q) PROVE Distinct(r)
  BY <1>1, <1>3, <1>4, <1>5 DEF Distinct
<1>6. ASSUME Distinct(q) PROVE PacketsOf(r) = PacketsOf(q) \ {q[i].pkt}
  <2>1. PacketsOf(r) \subseteq PacketsOf(q) \ {q[i].pkt}
    BY <1>1, <1>3, <1>4, <1>6 DEF Distinct, PacketsOf
  <2>2. ASSUME NEW k \in DOMAIN q, k # i PROVE q[k].pkt \in PacketsOf(r)
    <3>1. CASE k < i
      BY <1>1, <1>3, <1>4, <2>2, <3>1 DEF PacketsOf
    <3>2. CASE k > i
      <4>1. k - 1 \in DOMAIN r /\ r[k - 1] = q[k]
        BY <1>1, <1>3, <1>4, <2>2, <3>2
      <4> QED BY <4>1 DEF PacketsOf
    <3> QED BY <1>1, <2>2, <3>1, <3>2
  <2> QED BY <2>1, <2>2 DEF PacketsOf
<1>7. q[i].pkt \in Packet
  BY <1>1 DEF Entry
<1> QED BY <1>3, <1>5, <1>6, <1>7

(* A list that holds packets of the pool once each, but not p, has room.     *)
LEMMA RoomForOutsider ==
  ASSUME NEW q \in Queue, Distinct(q), NEW p \in Packet, p \notin PacketsOf(q)
  PROVE  ~Full(q)
<1> DEFINE f == [i \in 1 .. Len(q) |-> q[i].pkt]
           Rest == Packet \ {p}
<1>1. Len(q) \in Nat /\ DOMAIN q = 1 .. Len(q) /\ \A k \in 1 .. Len(q) : q[k] \in Entry
  BY LenProperties, ElementOfSeq DEF Queue
<1>2. IsFiniteSet(Rest) /\ Cardinality(Rest) = PoolSize - 1 /\ PoolSize \in Nat
  BY PoolIsFinite, FS_RemoveElement, FS_CardinalityType
<1>3. f \in [1 .. Len(q) -> Rest]
  BY <1>1 DEF PacketsOf, Entry
<1>4. \A x, y \in 1 .. Len(q) : f[x] = f[y] => x = y
  BY <1>1 DEF Distinct
<1>5. IsFiniteSet(1 .. Len(q)) /\ Cardinality(1 .. Len(q)) = Len(q)
  BY <1>1, FS_Interval
<1> HIDE DEF f, Rest
<1>6. ASSUME PoolSize = Len(q) PROVE FALSE
  <2>1. Cardinality(Rest) < Cardinality(1 .. Len(q))
    <3>1. Cardinality(Rest) < Len(q)
      BY <1>1, <1>2, <1>6
    <3> QED BY <1>5, <3>1, Zenon
  <2> QED BY <1>2, <1>3, <1>4, <1>5, <2>1, FS_PigeonHole
<1> QED BY <1>6 DEF Full

(* Adding a packet to a list with room adds that packet and nothing else.    *)
LEMMA AddedAdds ==
  ASSUME NEW q \in Queue, ~Full(q), Distinct(q),
         NEW p \in Packet, p \notin PacketsOf(q),
         NEW pri \in Priority, NEW at \in Clock
  PROVE  /\ Added(q, p, pri, at) \in Queue
         /\ Distinct(Added(q, p, pri, at))
         /\ PacketsOf(Added(q, p, pri, at)) = PacketsOf(q) \union {p}
<1> DEFINE e == [pkt |-> p, pri |-> pri, at |-> at]
           r == Append(q, e)
<1>1. e \in Entry /\ e.pkt = p
  BY DEF Entry
<1>2. Len(q) \in Nat /\ DOMAIN q = 1 .. Len(q)
  BY LenProperties DEF Queue
<1>3. r \in Queue /\ DOMAIN r = 1 .. (Len(q) + 1) /\ r[Len(q) + 1] = e
      /\ \A k \in 1 .. Len(q) : r[k] = q[k]
  BY <1>1, <1>2, AppendProperties, LenProperties DEF Queue
<1>4. Added(q, p, pri, at) = r
  BY DEF Added
<1> HIDE DEF e, r
<1>5. Distinct(r)
  BY <1>1, <1>2, <1>3 DEF Distinct, PacketsOf
<1>6. PacketsOf(r) = PacketsOf(q) \union {p}
  <2>1. PacketsOf(r) \subseteq PacketsOf(q) \union {p}
    BY <1>1, <1>2, <1>3 DEF PacketsOf
  <2>2. ASSUME NEW k \in DOMAIN q PROVE q[k].pkt \in PacketsOf(r)
    BY <1>2, <1>3 DEF PacketsOf
  <2>3. p \in PacketsOf(r)
    BY <1>1, <1>2, <1>3 DEF PacketsOf
  <2> QED BY <2>1, <2>2, <2>3 DEF PacketsOf
<1> QED BY <1>3, <1>4, <1>5, <1>6

------------------------------------------------------------------------
(* The manager's methods.  `outside' is where the packets are that no list   *)
(* holds: each method moves one packet across that border, or from list to   *)
(* list, and Conserved survives.                                            *)
Out(m, p, outside) ==
  m \in Manager /\ Conserved(m, outside) /\ p \in outside /\ p \in Packet

(* free: always takes the packet back.                                      *)
LEMMA FreedTakesBack ==
  ASSUME NEW m, NEW p, NEW outside, Out(m, p, outside)
  PROVE  /\ Freed(m, p) \in Manager
         /\ Conserved(Freed(m, p), outside \ {p})
         /\ PacketsOf(Freed(m, p).unused) = PacketsOf(m.unused) \union {p}
         /\ Freed(m, p).send = m.send /\ Freed(m, p).rx = m.rx
<1>1. /\ m.unused \in Queue /\ Distinct(m.unused)
      /\ p \in Packet /\ p \notin PacketsOf(m.unused)
      /\ p \notin PacketsOf(m.send) /\ p \notin PacketsOf(m.rx)
  BY DEF Out, Conserved, Manager
<1>2. ~Full(m.unused)
  BY <1>1, RoomForOutsider
<1>3. 0 \in Priority /\ 0 \in Clock
  BY Priorities, ClockSize DEF Clock
<1> DEFINE u == Added(m.unused, p, 0, 0)
<1>4. u \in Queue /\ Distinct(u) /\ PacketsOf(u) = PacketsOf(m.unused) \union {p}
  BY <1>1, <1>2, <1>3, AddedAdds
<1> HIDE DEF u
<1>5. Freed(m, p) = [m EXCEPT !.unused = u]
  BY DEF Freed, u
<1>6. Freed(m, p) \in Manager /\ Freed(m, p).unused = u
      /\ Freed(m, p).send = m.send /\ Freed(m, p).rx = m.rx
  BY <1>4, <1>5 DEF Out, Manager
<1> QED BY <1>1, <1>4, <1>6 DEF Out, Conserved

(* allocNew: hands out one packet of the pool.                              *)
LEMMA AllocHandsOut ==
  ASSUME NEW m \in Manager, NEW outside, Conserved(m, outside), CanAlloc(m)
  PROVE  /\ AllocRest(m) \in Manager
         /\ AllocPkt(m) \in Packet \ outside
         /\ AllocPkt(m) \in PacketsOf(m.unused)
         /\ Conserved(AllocRest(m), outside \union {AllocPkt(m)})
         /\ PacketsOf(AllocRest(m).unused) = PacketsOf(m.unused) \ {AllocPkt(m)}
         /\ AllocRest(m).send = m.send /\ AllocRest(m).rx = m.rx
<1> DEFINE u == Without(m.unused, 1)
<1>1. m.unused \in Queue /\ 1 \in DOMAIN m.unused
  BY EmptySeq, LenProperties DEF Manager, CanAlloc, Queue
<1>2. /\ u \in Queue /\ Distinct(u) /\ m.unused[1].pkt \in Packet
      /\ PacketsOf(u) = PacketsOf(m.unused) \ {m.unused[1].pkt}
  BY <1>1, WithoutRemoves DEF Conserved
<1> HIDE DEF u
<1>3. AllocPkt(m) = m.unused[1].pkt /\ AllocPkt(m) \in PacketsOf(m.unused)
  BY <1>1 DEF AllocPkt, PacketsOf
<1>4. AllocRest(m) = [m EXCEPT !.unused = u]
  BY DEF AllocRest, u
<1>5. AllocRest(m) \in Manager /\ AllocRest(m).unused = u
      /\ AllocRest(m).send = m.send /\ AllocRest(m).rx = m.rx
  BY <1>2, <1>4 DEF Manager
<1> QED BY <1>2, <1>3, <1>5 DEF Conserved

(* queueOutbound: into the send queue, or back to the pool when it is full.  *)
LEMMA QueuedOutboundQueues ==
  ASSUME NEW m, NEW p, NEW outside, Out(m, p, outside),
         NEW pri \in Priority, NEW at \in Clock
  PROVE  LET n == QueuedOutbound(m, p, pri, at) IN
         /\ n \in Manager
         /\ Conserved(n, outside \ {p})
         /\ n.rx = m.rx
         /\ PacketsOf(n.send) \in {PacketsOf(m.send), PacketsOf(m.send) \union {p}}
<1>1. CASE Full(m.send)
  BY <1>1, FreedTakesBack DEF QueuedOutbound
<1>2. CASE ~Full(m.send)
  <2> DEFINE s == Added(m.send, p, pri, at)
  <2>1. /\ m.send \in Queue /\ Distinct(m.send) /\ p \in Packet
        /\ p \notin PacketsOf(m.unused) /\ p \notin PacketsOf(m.send) /\ p \notin PacketsOf(m.rx)
    BY DEF Out, Conserved, Manager
  <2>2. s \in Queue /\ Distinct(s) /\ PacketsOf(s) = PacketsOf(m.send) \union {p}
    BY <1>2, <2>1, AddedAdds
  <2> HIDE DEF s
  <2>3. QueuedOutbound(m, p, pri, at) = [m EXCEPT !.send = s]
    BY <1>2 DEF QueuedOutbound, s
  <2>4. [m EXCEPT !.send = s] \in Manager
    BY <2>2 DEF Out, Manager
  <2> QED BY <2>1, <2>2, <2>3, <2>4 DEF Out, Conserved, Manager
<1> QED BY <1>1, <1>2

(* queueInbound: the same for the queue of delayed packets.                  *)
LEMMA QueuedInboundQueues ==
  ASSUME NEW m, NEW p, NEW outside, Out(m, p, outside), NEW at \in Clock
  PROVE  LET n == QueuedInbound(m, p, at) IN
         /\ n \in Manager
         /\ Conserved(n, outside \ {p})
         /\ n.send = m.send
         /\ PacketsOf(n.rx) \in {PacketsOf(m.rx), PacketsOf(m.rx) \union {p}}
<1>1. CASE Full(m.rx)
  BY <1>1, FreedTakesBack DEF QueuedInbound
<1>2. CASE ~Full(m.rx)
  <2> DEFINE s == Added(m.rx, p, 0, at)
  <2>1. /\ m.rx \in Queue /\ Distinct(m.rx) /\ p \in Packet /\ 0 \in Priority
        /\ p \notin PacketsOf(m.unused) /\ p \notin PacketsOf(m.send) /\ p \notin PacketsOf(m.rx)
    BY Priorities DEF Out, Conserved, Manager
  <2>2. s \in Queue /\ Distinct(s) /\ PacketsOf(s) = PacketsOf(m.rx) \union {p}
    BY <1>2, <2>1, AddedAdds
  <2> HIDE DEF s
  <2>3. QueuedInbound(m, p, at) = [m EXCEPT !.rx = s]
    BY <1>2 DEF QueuedInbound, s
  <2>4. [m EXCEPT !.rx = s] \in Manager
    BY <2>2 DEF Out, Manager
  <2> QED BY <2>1, <2>2, <2>3, <2>4 DEF Out, Conserved, Manager
<1> QED BY <1>1, <1>2

(* removeOutboundByIdx and getNextOutbound: one packet leaves the queue.     *)
LEMMA SendWithoutRemoves ==
  ASSUME NEW m \in Manager, NEW outside, Conserved(m, outside), NEW i \in DOMAIN m.send
  PROVE  LET n == SendWithout(m, i)
             p == m.send[i].pkt IN
         /\ n \in Manager /\ p \in Packet \ outside /\ p \in PacketsOf(m.send)
         /\ Conserved(n, outside \union {p})
         /\ PacketsOf(n.send) = PacketsOf(m.send) \ {p}
         /\ n.unused = m.unused /\ n.rx = m.rx
<1> DEFINE s == Without(m.send, i)
           p == m.send[i].pkt
<1>1. m.send \in Queue
  BY DEF Manager
<1>2. s \in Queue /\ Distinct(s) /\ p \in Packet /\ PacketsOf(s) = PacketsOf(m.send) \ {p}
  BY <1>1, WithoutRemoves DEF Conserved
<1>3. p \in PacketsOf(m.send)
  BY DEF PacketsOf
<1> HIDE DEF s, p
<1>4. SendWithout(m, i) = [m EXCEPT !.send = s]
  BY DEF SendWithout, s
<1>5. SendWithout(m, i) \in Manager /\ SendWithout(m, i).send = s
      /\ SendWithout(m, i).unused = m.unused /\ SendWithout(m, i).rx = m.rx
  BY <1>2, <1>4 DEF Manager
<1>6. p \notin outside /\ Conserved(SendWithout(m, i), outside \union {p})
  BY <1>2, <1>3, <1>5 DEF Conserved
<1> QED BY <1>2, <1>3, <1>5, <1>6 DEF p

(* getNextInbound.                                                          *)
LEMMA RxWithoutRemoves ==
  ASSUME NEW m \in Manager, NEW outside, Conserved(m, outside), NEW i \in DOMAIN m.rx
  PROVE  LET n == RxWithout(m, i)
             p == m.rx[i].pkt IN
         /\ n \in Manager /\ p \in Packet \ outside /\ p \in PacketsOf(m.rx)
         /\ Conserved(n, outside \union {p})
         /\ PacketsOf(n.rx) = PacketsOf(m.rx) \ {p}
         /\ n.unused = m.unused /\ n.send = m.send
<1> DEFINE s == Without(m.rx, i)
           p == m.rx[i].pkt
<1>1. m.rx \in Queue
  BY DEF Manager
<1>2. s \in Queue /\ Distinct(s) /\ p \in Packet /\ PacketsOf(s) = PacketsOf(m.rx) \ {p}
  BY <1>1, WithoutRemoves DEF Conserved
<1>3. p \in PacketsOf(m.rx)
  BY DEF PacketsOf
<1> HIDE DEF s, p
<1>4. RxWithout(m, i) = [m EXCEPT !.rx = s]
  BY DEF RxWithout, s
<1>5. RxWithout(m, i) \in Manager /\ RxWithout(m, i).rx = s
      /\ RxWithout(m, i).unused = m.unused /\ RxWithout(m, i).send = m.send
  BY <1>2, <1>4 DEF Manager
<1>6. p \notin outside /\ Conserved(RxWithout(m, i), outside \union {p})
  BY <1>2, <1>3, <1>5 DEF Conserved
<1> QED BY <1>2, <1>3, <1>5, <1>6 DEF p
========================================================================
