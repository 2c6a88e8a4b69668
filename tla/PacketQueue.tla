-------------------------- MODULE PacketQueue --------------------------
(***************************************************************************)
(* PacketQueue and StaticPoolPacketManager: a pool of preallocated packets *)
(* that move between the list of unused ones, the send queue and the       *)
(* queue of delayed inbound ones.  The three lists are PacketQueues of the *)
(* pool's size.  Each operator takes the manager's state m and returns the *)
(* state the C++ method leaves behind.                                     *)
(***************************************************************************)
EXTENDS Millis, Sequences, FiniteSets

CONSTANTS
  Packet,                       \* the packets of the pool
  PoolSize,                     \* how many there are; the capacity of each queue
  Priority                      \* priorities in use, 0 the most important (uint8_t)

(* get() starts from min_pri = 0xFF and asks for a smaller one, so priority *)
(* 255 would never be selected; no caller passes it.                        *)
ASSUME Priorities == Priority \subseteq 0 .. 254 /\ 0 \in Priority
ASSUME PoolIsFinite == IsFiniteSet(Packet) /\ PoolSize = Cardinality(Packet)

Entry == [pkt : Packet, pri : Priority, at : Clock]
Queue == Seq(Entry)
PacketsOf(q) == { q[i].pkt : i \in DOMAIN q }
Distinct(q) == \A i, j \in DOMAIN q : q[i].pkt = q[j].pkt => i = j

(* The entries that are not scheduled for the future.                      *)
Due(q, now) == { i \in DOMAIN q : ~After(q[i].at, now) }

(* countBefore(now) > 0, with its sentinel: the last value of the counter   *)
(* counts every entry, whatever its schedule.                               *)
AnyBefore(q, now) == IF now = W - 1 THEN q # << >> ELSE Due(q, now) # {}

(* i is the entry get() selects: the most important of the due ones, the   *)
(* first in the table among equals.                                         *)
IsNext(q, now, i) ==
  /\ i \in Due(q, now)
  /\ \A j \in Due(q, now) : \/ q[i].pri < q[j].pri
                            \/ q[i].pri = q[j].pri /\ i <= j

(* removeByIdx, and the tail of get(): the entries behind i move up.        *)
Without(q, i) == [k \in 1 .. (Len(q) - 1) |-> IF k < i THEN q[k] ELSE q[k + 1]]

(* add: refused when the table is full.                                     *)
Full(q) == Len(q) = PoolSize
Added(q, p, pri, at) ==
  IF Full(q) THEN q ELSE Append(q, [pkt |-> p, pri |-> pri, at |-> at])

------------------------------------------------------------------------
Manager == [unused : Queue, send : Queue, rx : Queue]

(* allocNew takes the first unused packet; the caller has tested that       *)
(* there is one.                                                            *)
CanAlloc(m) == m.unused # << >>
AllocPkt(m) == m.unused[1].pkt
AllocRest(m) == [m EXCEPT !.unused = Without(@, 1)]

(* free: the result of add is not looked at.                                *)
Freed(m, p) == [m EXCEPT !.unused = Added(@, p, 0, 0)]

QueuedOutbound(m, p, pri, at) ==
  IF Full(m.send) THEN Freed(m, p) ELSE [m EXCEPT !.send = Added(@, p, pri, at)]

QueuedInbound(m, p, at) ==
  IF Full(m.rx) THEN Freed(m, p) ELSE [m EXCEPT !.rx = Added(@, p, 0, at)]

(* Mutant of SendWithout: the entry stays in the table.                     *)
SendKept(m, i) == m

(* getNextOutbound / removeOutboundByIdx and getNextInbound.                *)
SendWithout(m, i) == [m EXCEPT !.send = Without(@, i)]
RxWithout(m, i) == [m EXCEPT !.rx = Without(@, i)]

------------------------------------------------------------------------
(* Each packet of the pool is in one place of one list, or `outside'.       *)
Conserved(m, outside) ==
  /\ Distinct(m.unused) /\ Distinct(m.send) /\ Distinct(m.rx)
  /\ PacketsOf(m.unused) \intersect PacketsOf(m.send) = {}
  /\ PacketsOf(m.unused) \intersect PacketsOf(m.rx) = {}
  /\ PacketsOf(m.send) \intersect PacketsOf(m.rx) = {}
  /\ (PacketsOf(m.unused) \union PacketsOf(m.send) \union PacketsOf(m.rx))
       = Packet \ outside
========================================================================
