------------------------ MODULE DispatcherProofs ------------------------
(***************************************************************************)
(* The Dispatcher keeps the pool's packets, for every pool size, clock      *)
(* width, delay and duty cycle.  The invariant needs one fact that neither  *)
(* TypeOK nor PoolConserved states: past the first part of loop() there is  *)
(* no outbound packet, so checkSend never overwrites one.                   *)
(***************************************************************************)
EXTENDS Dispatcher, PacketQueueProofs

FreeToSend == pc # "tx" => ~Sending
IInv == TypeOK /\ PoolConserved /\ FreeToSend

------------------------------------------------------------------------
(* Arithmetic on the clock and on the budget.                               *)
LEMMA ClockWraps == \A x \in Int : x % W \in Clock
BY ClockSize DEF Clock

LEMMA Shares == \A n \in Nat, d \in Nat \ {0} : n \div d \in Nat
OBVIOUS

LEMMA ClockIsNat == Clock \subseteq Nat /\ 0 \in Clock
BY ClockSize DEF Clock

LEMMA FutureIsClock ==
  ASSUME NEW t \in Clock, NEW d \in Int
  PROVE  FutureMillis(t, d) \in Clock
BY ClockWraps, ClockIsNat DEF FutureMillis

LEMMA SinceIsNat ==
  ASSUME NEW a \in Clock, NEW b \in Clock
  PROVE  Since(a, b) \in Nat
<1>1. a - b \in Int
  BY ClockIsNat
<1>2. Since(a, b) \in Clock
  BY <1>1, ClockWraps DEF Since
<1> QED BY <1>2, ClockIsNat

LEMMA BudgetType ==
  ASSUME TypeOK
  PROVE  MaxBudget \in Nat /\ UpdatedBudget \in 0 .. MaxBudget /\ UpdatedAt \in Clock
<1>1. MaxBudget \in Nat
  BY BudgetConstants, Shares DEF MaxBudget
<1>2. Refill \in Nat
  BY BudgetConstants, Shares, SinceIsNat DEF Refill, TypeOK
<1> QED BY <1>1, <1>2 DEF TypeOK, UpdatedBudget, UpdatedAt, MinOf

LEMMA WhenRefilledType ==
  ASSUME TypeOK, NEW missing \in Nat
  PROVE  WhenRefilled(missing) \in Clock
<1>1. missing * BudgetFactor \in Int
  BY BudgetConstants
<1> QED BY <1>1, FutureIsClock DEF WhenRefilled, TypeOK

LEMMA NeededType == NeededBudget \in Nat
BY BudgetConstants, Shares DEF NeededBudget

------------------------------------------------------------------------
(* A packet of its own that onRecvPacket queues.                            *)
LEMMA AnsweredConserves ==
  ASSUME NEW m \in Manager, NEW outside, Conserved(m, outside),
         now \in Clock, NEW n \in Answered(m)
  PROVE  /\ n \in Manager /\ Conserved(n, outside)
         /\ n.rx = m.rx
         /\ PacketsOf(n.send) \subseteq PacketsOf(m.send) \union PacketsOf(m.unused)
<1>0. CanAlloc(m)
  BY DEF Answered
<1>1. PICK pri \in Priority, d \in TxDelay :
        n = QueuedOutbound(AllocRest(m), AllocPkt(m), pri, FutureMillis(now, d))
  BY DEF Answered
<1>2. FutureMillis(now, d) \in Clock
  BY FutureIsClock, DelayConstants
<1> DEFINE k == AllocRest(m)
           p == AllocPkt(m)
<1>3. /\ k \in Manager /\ p \in Packet \ outside /\ p \in PacketsOf(m.unused)
      /\ Conserved(k, outside \union {p}) /\ k.rx = m.rx /\ k.send = m.send
  BY <1>0, AllocHandsOut
<1> HIDE DEF k, p
<1>4. Out(k, p, outside \union {p})
  BY <1>3 DEF Out
<1> DEFINE at == FutureMillis(now, d)
           queued == QueuedOutbound(k, p, pri, at)
<1>5. n = queued /\ at \in Clock
  BY <1>1, <1>2 DEF k, p
<1> HIDE DEF at
<1>6. /\ queued \in Manager /\ Conserved(queued, (outside \union {p}) \ {p})
      /\ queued.rx = k.rx
      /\ PacketsOf(queued.send) \in {PacketsOf(k.send), PacketsOf(k.send) \union {p}}
  BY <1>4, <1>5, QueuedOutboundQueues, ZenonT(40)
<1> HIDE DEF queued
<1>7. (outside \union {p}) \ {p} = outside
  BY <1>3
<1> QED BY <1>3, <1>5, <1>6, <1>7

(* onRecvPacket's side effects: a packet taken back from the send queue, or  *)
(* one or two taken from the pool and queued.                               *)
LEMMA SideEffectsConserve ==
  ASSUME NEW m \in Manager, NEW outside, Conserved(m, outside),
         now \in Clock, NEW n \in SideEffects(m)
  PROVE  /\ n \in Manager /\ Conserved(n, outside)
         /\ n.rx = m.rx
         /\ PacketsOf(n.send) \subseteq PacketsOf(m.send) \union PacketsOf(m.unused)
<1>1. CASE n = m
  BY <1>1
<1>2. CASE n \in TakenBack(m)
  <2>1. PICK i \in DOMAIN m.send : n = Freed(SendWithout(m, i), m.send[i].pkt)
    BY <1>2 DEF TakenBack
  <2> DEFINE k == SendWithout(m, i)
             p == m.send[i].pkt
  <2>2. /\ k \in Manager /\ p \in Packet \ outside
        /\ Conserved(k, outside \union {p}) /\ k.rx = m.rx
        /\ PacketsOf(k.send) = PacketsOf(m.send) \ {p}
    BY SendWithoutRemoves
  <2> HIDE DEF k, p
  <2>3. Out(k, p, outside \union {p})
    BY <2>2 DEF Out
  <2>4. /\ Freed(k, p) \in Manager /\ Conserved(Freed(k, p), (outside \union {p}) \ {p})
        /\ Freed(k, p).send = k.send /\ Freed(k, p).rx = k.rx
    BY <2>3, FreedTakesBack
  <2>5. (outside \union {p}) \ {p} = outside
    BY <2>2
  <2>6. n = Freed(k, p)
    BY <2>1 DEF k, p
  <2> QED BY <2>2, <2>4, <2>5, <2>6
<1>3. CASE n \in Answered(m)
  BY <1>3, AnsweredConserves
<1>4. ASSUME NEW k \in Answered(m), n \in Answered(k)
      PROVE  /\ n \in Manager /\ Conserved(n, outside) /\ n.rx = m.rx
             /\ PacketsOf(n.send) \subseteq PacketsOf(m.send) \union PacketsOf(m.unused)
  <2>1. /\ k \in Manager /\ Conserved(k, outside) /\ k.rx = m.rx
        /\ PacketsOf(k.send) \subseteq PacketsOf(m.send) \union PacketsOf(m.unused)
    BY <1>4, AnsweredConserves
  <2>2. /\ n \in Manager /\ Conserved(n, outside) /\ n.rx = k.rx
        /\ PacketsOf(n.send) \subseteq PacketsOf(k.send) \union PacketsOf(k.unused)
    BY <1>4, <2>1, AnsweredConserves
  <2>3. PacketsOf(k.send) \union PacketsOf(k.unused) \subseteq PacketsOf(m.send) \union PacketsOf(m.unused)
    BY <2>1 DEF Conserved
  <2> QED BY <2>1, <2>2, <2>3
<1> QED BY <1>1, <1>2, <1>3, <1>4 DEF SideEffects

(* Processing a packet that is in no list leaves it in the pool, in the send *)
(* queue or in the hands of the layer above.                                *)
LEMMA ProcessConserves ==
  ASSUME TypeOK, NEW m \in Manager, NEW outside, NEW p \in Packet,
         p \notin outside, Conserved(m, outside \union {p}), ProcessRecvPacket(m, p)
  PROVE  /\ mgr' \in Manager
         /\ \/ held' = held /\ Conserved(mgr', outside)
            \/ held' = held \union {p} /\ Conserved(mgr', outside \union {p})
         /\ mgr'.rx = m.rx
         /\ PacketsOf(mgr'.send) \subseteq PacketsOf(m.send) \union PacketsOf(m.unused) \union {p}
<1>1. PICK n \in SideEffects(m) :
        ActionRelease(n, p) \/ ActionManualHold(n, p) \/ ActionRetransmit(n, p)
  BY DEF ProcessRecvPacket
<1>2. /\ n \in Manager /\ Conserved(n, outside \union {p}) /\ n.rx = m.rx
      /\ PacketsOf(n.send) \subseteq PacketsOf(m.send) \union PacketsOf(m.unused)
  <2>1. now \in Clock
    BY DEF TypeOK
  <2> QED BY ONLY <2>1, m \in Manager, n \in SideEffects(m), Conserved(m, outside \union {p}),
                 SideEffectsConserve
<1>3. Out(n, p, outside \union {p})
  BY <1>2 DEF Out
<1>4. (outside \union {p}) \ {p} = outside
  OBVIOUS
<1>5. CASE ActionRelease(n, p)
  <2> DEFINE freed == Freed(n, p)
  <2>1. mgr' = freed /\ held' = held
    BY <1>5 DEF ActionRelease
  <2>2. /\ freed \in Manager /\ Conserved(freed, (outside \union {p}) \ {p})
        /\ freed.send = n.send /\ freed.rx = n.rx
    BY ONLY <1>3, FreedTakesBack
  <2> HIDE DEF freed
  <2> QED BY <1>2, <1>4, <2>1, <2>2
<1>6. CASE ActionManualHold(n, p)
  BY <1>2, <1>6 DEF ActionManualHold
<1>7. CASE ActionRetransmit(n, p)
  <2>1. PICK pri \in Priority, d \in TxDelay :
          mgr' = QueuedOutbound(n, p, pri, FutureMillis(now, d)) /\ held' = held
    BY <1>7 DEF ActionRetransmit
  <2>2. FutureMillis(now, d) \in Clock
    BY FutureIsClock, DelayConstants DEF TypeOK
  <2> DEFINE at == FutureMillis(now, d)
             queued == QueuedOutbound(n, p, pri, at)
  <2>3. mgr' = queued /\ at \in Clock
    BY <2>1, <2>2
  <2> HIDE DEF at
  <2>4. /\ queued \in Manager /\ Conserved(queued, (outside \union {p}) \ {p})
        /\ queued.rx = n.rx
        /\ PacketsOf(queued.send) \in {PacketsOf(n.send), PacketsOf(n.send) \union {p}}
    BY ONLY <1>3, <2>3, pri \in Priority, QueuedOutboundQueues
  <2> HIDE DEF queued
  <2> QED BY <1>2, <1>4, <2>1, <2>3, <2>4
<1> QED BY <1>1, <1>5, <1>6, <1>7

------------------------------------------------------------------------
(* The constructor's pool holds each packet once.                           *)
LEMMA InitEstablishes == Init => IInv
<1> SUFFICES ASSUME Init PROVE IInv
  OBVIOUS
<1>1. PoolSize \in Nat
  BY PoolIsFinite, FS_CardinalityType
<1>2. PICK order \in Bijection(1 .. PoolSize, Packet) :
        mgr = [unused |-> [i \in 1 .. PoolSize |-> [pkt |-> order[i], pri |-> 0, at |-> 0]],
               send |-> << >>, rx |-> << >>]
  BY DEF Init
<1>3. /\ order \in [1 .. PoolSize -> Packet]
      /\ \A i, j \in 1 .. PoolSize : order[i] = order[j] => i = j
      /\ \A p \in Packet : \E i \in 1 .. PoolSize : order[i] = p
  BY DEF Bijection, Injection, Surjection, IsInjective
<1> DEFINE u == [i \in 1 .. PoolSize |-> [pkt |-> order[i], pri |-> 0, at |-> 0]]
<1>4. u \in [1 .. PoolSize -> Entry]
  BY <1>3, Priorities, ClockIsNat DEF Entry
<1>5. /\ Distinct(u) /\ PacketsOf(u) = Packet
      /\ Distinct(<< >>) /\ PacketsOf(<< >>) = {}
  BY <1>3 DEF Distinct, PacketsOf
<1> HIDE DEF u
<1>6. u \in Queue /\ << >> \in Queue
  BY <1>1, <1>4, SeqDef, EmptySeq DEF Queue
<1>7. mgr.unused = u /\ mgr.send = << >> /\ mgr.rx = << >> /\ mgr \in Manager
  BY <1>2, <1>6 DEF u, Manager
<1>8. /\ held = {} /\ outbound = NoPacket /\ pc = "tx" /\ lag = 0
      /\ now \in BootTime /\ radio = "listening" /\ receiving = FALSE
      /\ next_tx_time = now /\ cad_busy_start = 0
      /\ tx_budget_ms = MaxBudget /\ last_budget_update = now
  BY DEF Init
<1>9. PoolConserved
  BY <1>5, <1>7, <1>8 DEF PoolConserved, Conserved, OnAir, Sending
<1>10. MaxBudget \in Nat
  BY BudgetConstants, Shares DEF MaxBudget
<1>11. TypeOK
  <2>1. lag \in 0 .. MaxLag /\ tx_budget_ms \in 0 .. MaxBudget
    BY <1>8, <1>10, EnvironmentBounds
  <2> QED BY <1>7, <1>8, <2>1, ClockIsNat, EnvironmentBounds DEF TypeOK
<1> QED BY <1>8, <1>9, <1>11 DEF IInv, FreeToSend

------------------------------------------------------------------------
(* Steps that move no packet.                                               *)
LEMMA QuietStep ==
  ASSUME IInv, TypeOK', UNCHANGED <<mgr, held, outbound>>, pc' = "tx" \/ ~Sending
  PROVE  IInv'
BY DEF IInv, PoolConserved, OnAir, Sending, FreeToSend

(* The environment, and the guards that end a pass early.                   *)
LEMMA EnvironmentStep ==
  ASSUME IInv, Tick \/ RadioTxDone \/ ChannelChanges
  PROVE  IInv'
<1>1. UNCHANGED <<mgr, held, outbound, pc>>
  BY DEF Tick, RadioTxDone, ChannelChanges
<1>2. TypeOK'
  <2>1. ASSUME Tick PROVE TypeOK'
    <3>1. now + 1 \in Int
      BY ClockIsNat DEF IInv, TypeOK
    <3>2. now' \in Clock /\ lag' \in 0 .. MaxLag
      BY <2>1, <3>1, ClockWraps, EnvironmentBounds DEF Tick, IInv, TypeOK
    <3> QED BY <2>1, <3>2 DEF Tick, IInv, TypeOK, radioVars, txVars, budgetVars
  <2>2. ASSUME RadioTxDone PROVE TypeOK'
    BY <2>2 DEF RadioTxDone, IInv, TypeOK, txVars, budgetVars
  <2>3. ASSUME ChannelChanges PROVE TypeOK'
    BY <2>3 DEF ChannelChanges, IInv, TypeOK, txVars, budgetVars
  <2> QED BY <2>1, <2>2, <2>3
<1> QED BY <1>1, <1>2, QuietStep DEF IInv, FreeToSend

(* Steps of the layers above and of parts 2 and 3 of the loop change the     *)
(* manager and `held' only; they are right when these two still fit.        *)
LEMMA PacketStep ==
  ASSUME IInv, mgr' \in Manager, held' \subseteq Packet,
         Conserved(mgr', held' \union OnAir), held' \intersect OnAir = {},
         UNCHANGED <<now, lag, outbound, radioVars, txVars, budgetVars>>,
         pc' \in {"tx", "inbound", "recv", "send"}, pc' = "tx" \/ ~Sending
  PROVE  IInv'
<1>1. OnAir' = OnAir /\ Sending' = Sending
  BY DEF OnAir, Sending
<1>2. TypeOK'
  BY DEF IInv, TypeOK, radioVars, txVars, budgetVars
<1> QED BY <1>1, <1>2 DEF IInv, PoolConserved, FreeToSend

LEMMA AppStep ==
  ASSUME IInv, App
  PROVE  IInv'
<1> DEFINE outside == held \union OnAir
<1>1. /\ mgr \in Manager /\ Conserved(mgr, outside) /\ held \subseteq Packet /\ now \in Clock
      /\ held \intersect OnAir = {}
  BY DEF IInv, TypeOK, PoolConserved
<1>2. CanAlloc(mgr) =>
        /\ AllocRest(mgr) \in Manager /\ AllocPkt(mgr) \in Packet \ outside
        /\ Conserved(AllocRest(mgr), outside \union {AllocPkt(mgr)})
        /\ Out(AllocRest(mgr), AllocPkt(mgr), outside \union {AllocPkt(mgr)})
        /\ (outside \union {AllocPkt(mgr)}) \ {AllocPkt(mgr)} = outside
  <2> HIDE DEF outside
  <2> QED BY <1>1, AllocHandsOut DEF Out
<1>3. ASSUME NEW pri \in Priority, NEW d \in TxDelay, NEW valid \in BOOLEAN,
             AppSend(pri, d, valid)
      PROVE  IInv'
  <2>1. FutureMillis(now, d) \in Clock
    BY <1>1, FutureIsClock, DelayConstants
  <2>2. mgr' \in Manager /\ Conserved(mgr', outside)
    <3> DEFINE at == FutureMillis(now, d)
               p == AllocPkt(mgr)
               m == AllocRest(mgr)
               queued == QueuedOutbound(m, p, pri, at)
               freed == Freed(m, p)
    <3>1. mgr' = IF valid THEN queued ELSE freed
      BY <1>3 DEF AppSend
    <3>2. /\ Out(m, p, outside \union {p}) /\ at \in Clock
          /\ (outside \union {p}) \ {p} = outside
      BY <1>2, <1>3, <2>1 DEF AppSend
    <3> HIDE DEF at, p, m, outside
    <3>3. queued \in Manager /\ Conserved(queued, (outside \union {p}) \ {p})
      BY <3>2, QueuedOutboundQueues
    <3>4. freed \in Manager /\ Conserved(freed, (outside \union {p}) \ {p})
      BY <3>2, FreedTakesBack
    <3> QED BY <3>1, <3>2, <3>3, <3>4
  <2> QED BY <1>1, <1>3, <2>2, PacketStep DEF AppSend
<1>4. ASSUME AppHold PROVE IInv'
  <2>1. held' \union OnAir = outside \union {AllocPkt(mgr)}
    BY <1>4 DEF AppHold
  <2>2. mgr' \in Manager /\ Conserved(mgr', held' \union OnAir)
    BY <1>2, <1>4, <2>1 DEF AppHold
  <2>3. held' \subseteq Packet /\ held' \intersect OnAir = {}
    BY <1>1, <1>2, <1>4 DEF AppHold
  <2> QED BY <1>4, <2>2, <2>3, PacketStep DEF AppHold
<1>5. ASSUME NEW p \in held, AppRelease(p) PROVE IInv'
  <2>1. Out(mgr, p, outside)
    BY <1>1 DEF Out
  <2>2. Freed(mgr, p) \in Manager /\ Conserved(Freed(mgr, p), outside \ {p})
    BY <2>1, FreedTakesBack
  <2>3. outside \ {p} = held' \union OnAir
    BY <1>1, <1>5 DEF AppRelease
  <2>4. mgr' = Freed(mgr, p) /\ held' = held \ {p}
    BY <1>5 DEF AppRelease
  <2>5. mgr' \in Manager /\ Conserved(mgr', held' \union OnAir)
    BY <2>2, <2>3, <2>4
  <2> QED BY <1>1, <1>5, <2>4, <2>5, PacketStep DEF AppRelease
<1> QED BY <1>3, <1>4, <1>5 DEF App

(* Part 1: the outbound packet goes back to the pool.                       *)
LEMMA OutboundStep ==
  ASSUME IInv, LoopOutbound \/ LoopReturnsEarly
  PROVE  IInv'
<1>1. CASE LoopReturnsEarly
  <2>1. TypeOK'
    BY <1>1, EnvironmentBounds
       DEF LoopReturnsEarly, IInv, TypeOK, radioVars, txVars, budgetVars
  <2> QED BY <1>1, <2>1, QuietStep DEF LoopReturnsEarly
<1>2. CASE LoopOutbound /\ ~Sending
  <2>1. UNCHANGED <<mgr, outbound, radio, next_tx_time, budgetVars>>
    BY <1>2 DEF LoopOutbound, SendComplete, SendTimedOut
  <2>2. TypeOK'
    BY <1>2, <2>1 DEF LoopOutbound, IInv, TypeOK, budgetVars
  <2> QED BY <1>2, <2>1, <2>2, QuietStep DEF LoopOutbound
<1>3. CASE LoopOutbound /\ Sending
  <2>1. /\ SendComplete \/ SendTimedOut
        /\ mgr' = Freed(mgr, outbound.pkt) /\ outbound' = NoPacket
        /\ radio' = "listening" /\ pc' = "inbound"
        /\ UNCHANGED <<now, lag, held, receiving, cad_busy_start>>
    BY <1>3 DEF LoopOutbound
  <2>2. /\ mgr \in Manager /\ Conserved(mgr, held \union {outbound.pkt})
        /\ outbound.pkt \in Packet /\ outbound.pkt \notin held
    BY <1>3 DEF IInv, TypeOK, PoolConserved, OnAir, Sending, Outbound
  <2>3. (held \union {outbound.pkt}) \ {outbound.pkt} = held
    BY <2>2
  <2>4. Freed(mgr, outbound.pkt) \in Manager /\ Conserved(Freed(mgr, outbound.pkt), held)
    <3>1. Out(mgr, outbound.pkt, held \union {outbound.pkt})
      BY <2>2 DEF Out
    <3> QED BY <2>3, <3>1, FreedTakesBack
  <2>5. OnAir' = {} /\ ~Sending'
    BY <2>1 DEF OnAir, Sending
  <2>6. PoolConserved'
    BY <2>1, <2>4, <2>5 DEF PoolConserved
  <2>7. /\ next_tx_time' \in Clock /\ tx_budget_ms' \in 0 .. MaxBudget
        /\ last_budget_update' \in Clock
    <3>1. ASSUME SendTimedOut
          PROVE  /\ next_tx_time' \in Clock /\ tx_budget_ms' \in 0 .. MaxBudget
                 /\ last_budget_update' \in Clock
      BY <3>1 DEF SendTimedOut, IInv, TypeOK, budgetVars
    <3>2. ASSUME SendComplete
          PROVE  /\ next_tx_time' \in Clock /\ tx_budget_ms' \in 0 .. MaxBudget
                 /\ last_budget_update' \in Clock
      <4> DEFINE t == Since(now, outbound.start)
                 left == IF t > UpdatedBudget THEN 0 ELSE UpdatedBudget - t
      <4>1. t \in Nat
        BY <1>3, SinceIsNat DEF IInv, TypeOK, Sending, Outbound
      <4>2. TypeOK /\ UpdatedBudget \in 0 .. MaxBudget /\ UpdatedAt \in Clock /\ MaxBudget \in Nat
        BY BudgetType DEF IInv
      <4> HIDE DEF t
      <4>3. left \in 0 .. MaxBudget
        BY <4>1, <4>2
      <4>4. /\ tx_budget_ms' = left /\ last_budget_update' = UpdatedAt
            /\ next_tx_time' = IF left < MinReserve THEN WhenRefilled(MinReserve - left) ELSE now
        BY <3>2 DEF SendComplete, t
      <4> HIDE DEF left
      <4>5. ASSUME left < MinReserve PROVE WhenRefilled(MinReserve - left) \in Clock
        <5>1. MinReserve - left \in Nat
          BY <4>2, <4>3, <4>5, BudgetConstants
        <5> QED BY <4>2, <5>1, WhenRefilledType
      <4> QED BY <4>2, <4>3, <4>4, <4>5 DEF TypeOK
    <3> QED BY <2>1, <3>1, <3>2
  <2>8. TypeOK'
    BY <2>1, <2>4, <2>7 DEF IInv, TypeOK
  <2> QED BY <2>5, <2>6, <2>8 DEF IInv, FreeToSend
<1> QED BY <1>1, <1>2, <1>3

(* Parts 2 and 3: a delayed packet, then a newly received one.              *)
LEMMA ReceiveStep ==
  ASSUME IInv, LoopInbound \/ CheckRecv
  PROVE  IInv'
<1> DEFINE outside == held \union OnAir
<1>1. /\ mgr \in Manager /\ Conserved(mgr, outside) /\ held \subseteq Packet /\ now \in Clock
      /\ held \intersect OnAir = {} /\ TypeOK
  BY DEF IInv, TypeOK, PoolConserved
<1>2. /\ pc' \in {"recv", "send"} /\ ~Sending
      /\ UNCHANGED <<now, lag, outbound, radioVars, txVars, budgetVars>>
  BY DEF LoopInbound, CheckRecv, IInv, FreeToSend
<1>3. ASSUME UNCHANGED <<mgr, held>> PROVE IInv'
  BY <1>1, <1>2, <1>3, PacketStep
<1>4. ASSUME NEW m \in Manager, NEW p \in Packet, p \notin outside,
             Conserved(m, outside \union {p}), ProcessRecvPacket(m, p)
      PROVE  IInv'
  <2>1. /\ mgr' \in Manager
        /\ \/ held' = held /\ Conserved(mgr', outside)
           \/ held' = held \union {p} /\ Conserved(mgr', outside \union {p})
    <3> HIDE DEF outside
    <3> QED BY <1>1, <1>4, ProcessConserves
  <2>2. (held \union {p}) \union OnAir = outside \union {p}
    OBVIOUS
  <2>3. held' \subseteq Packet /\ held' \intersect OnAir = {}
    BY <1>1, <1>4, <2>1
  <2>4. Conserved(mgr', held' \union OnAir)
    BY <2>1, <2>2
  <2> QED BY <1>2, <2>1, <2>3, <2>4, PacketStep
<1>5. CASE LoopInbound
  <2>1. ASSUME NEW i \in DOMAIN mgr.rx, ProcessRecvPacket(RxWithout(mgr, i), mgr.rx[i].pkt)
        PROVE  IInv'
    <3> DEFINE m == RxWithout(mgr, i)
               p == mgr.rx[i].pkt
    <3>1. m \in Manager /\ p \in Packet \ outside /\ Conserved(m, outside \union {p})
      <4> HIDE DEF outside
      <4> QED BY <1>1, RxWithoutRemoves
    <3> QED BY <1>4, <2>1, <3>1
  <2> QED BY <1>3, <1>5, <2>1 DEF LoopInbound
<1>6. CASE CheckRecv
  <2> DEFINE m == AllocRest(mgr)
             p == AllocPkt(mgr)
  <2>1. CASE UNCHANGED <<mgr, held>>
    BY <1>3, <2>1
  <2>2. CASE CanAlloc(mgr) /\ Received(m, p)
    <3>1. m \in Manager /\ p \in Packet \ outside /\ Conserved(m, outside \union {p})
      <4> HIDE DEF outside
      <4>1. CanAlloc(mgr)
        BY <2>2
      <4> QED BY <1>1, <4>1, AllocHandsOut
    <3> HIDE DEF m, p
    <3>2. Out(m, p, outside \union {p}) /\ (outside \union {p}) \ {p} = outside
      BY <3>1 DEF Out
    <3>3. CASE mgr' = Freed(m, p) /\ held' = held
      <4>1. mgr' \in Manager /\ Conserved(mgr', outside)
        <5> HIDE DEF outside
        <5> QED BY <3>2, <3>3, FreedTakesBack
      <4> QED BY <1>1, <1>2, <3>3, <4>1, PacketStep
    <3>4. ASSUME NEW d \in RxDelay,
                 mgr' = QueuedInbound(m, p, FutureMillis(now, d)) /\ held' = held
          PROVE  IInv'
      <4> DEFINE at == FutureMillis(now, d)
                 queued == QueuedInbound(m, p, at)
      <4>1. mgr' = queued /\ at \in Clock
        BY <1>1, <3>4, FutureIsClock, DelayConstants
      <4> HIDE DEF at
      <4>2. queued \in Manager /\ Conserved(queued, (outside \union {p}) \ {p})
        <5> HIDE DEF outside
        <5> QED BY <3>2, <4>1, QueuedInboundQueues
      <4> HIDE DEF queued
      <4>3. mgr' \in Manager /\ Conserved(mgr', outside)
        BY <3>2, <4>1, <4>2
      <4> QED BY <1>1, <1>2, <3>4, <4>3, PacketStep
    <3>5. CASE ProcessRecvPacket(m, p)
      BY <1>4, <3>1, <3>5
    <3> QED BY <2>2, <3>3, <3>4, <3>5 DEF Received
  <2> QED BY <1>6, <2>1, <2>2 DEF CheckRecv
<1> QED BY <1>5, <1>6

(* Part 4: a packet leaves the send queue, for the air or for the pool.      *)
LEMMA SendStep ==
  ASSUME IInv, CheckSend
  PROVE  IInv'
<1>1. /\ pc = "send" /\ pc' = "tx" /\ lag' = 0 /\ UNCHANGED <<now, held>>
      /\ ~Sending /\ outbound = NoPacket /\ OnAir = {}
  BY DEF CheckSend, EndPass, NothingToSend, BudgetTooLow, TooSoon, DeferredByCAD, TrySend,
         IInv, FreeToSend, Sending, OnAir
<1>2. /\ mgr \in Manager /\ Conserved(mgr, held) /\ held \subseteq Packet /\ now \in Clock
      /\ TypeOK /\ held \union {} = held
  BY <1>1 DEF IInv, TypeOK, PoolConserved
<1>3. 0 \in 0 .. MaxLag /\ 0 \in Clock
  BY EnvironmentBounds, ClockIsNat
<1>4. UpdatedBudget \in 0 .. MaxBudget /\ UpdatedAt \in Clock /\ MaxBudget \in Nat
  BY <1>2, BudgetType
<1>5. CASE NothingToSend
  <2>1. TypeOK'
    BY <1>1, <1>2, <1>3, <1>5 DEF NothingToSend, TypeOK, radioVars, txVars, budgetVars
  <2> QED BY <1>5, <1>1, <2>1, QuietStep DEF NothingToSend
<1>6. CASE BudgetTooLow
  <2>1. WhenRefilled(NeededBudget - UpdatedBudget) \in Clock
    <3>1. NeededBudget - UpdatedBudget \in Nat
      BY <1>4, <1>6, NeededType DEF BudgetTooLow, BudgetLow
    <3> QED BY <1>2, <3>1, WhenRefilledType
  <2>2. TypeOK'
    BY <1>1, <1>2, <1>3, <1>4, <1>6, <2>1 DEF BudgetTooLow, TypeOK, radioVars
  <2> QED BY <1>1, <1>6, <2>2, QuietStep DEF BudgetTooLow
<1>7. CASE TooSoon
  <2>1. TypeOK'
    BY <1>1, <1>2, <1>3, <1>4, <1>7 DEF TooSoon, TypeOK, radioVars, txVars
  <2> QED BY <1>1, <1>7, <2>1, QuietStep DEF TooSoon
<1>8. CASE DeferredByCAD
  <2>1. CADBusySince \in Clock
    BY <1>2 DEF CADBusySince, TypeOK
  <2>2. next_tx_time' \in Clock
    BY <1>2, <1>8, FutureIsClock, DelayConstants DEF DeferredByCAD
  <2>3. TypeOK'
    BY <1>1, <1>2, <1>3, <1>4, <1>8, <2>1, <2>2 DEF DeferredByCAD, TypeOK, radioVars
  <2> QED BY <1>1, <1>8, <2>3, QuietStep DEF DeferredByCAD
<1>9. CASE TrySend
  <2>1. /\ cad_busy_start' = 0 /\ tx_budget_ms' = UpdatedBudget
        /\ last_budget_update' = UpdatedAt /\ next_tx_time' = next_tx_time
    BY <1>9 DEF TrySend
  <2>2. CASE UNCHANGED <<mgr, outbound, radioVars>>
    <3>1. TypeOK'
      BY <1>1, <1>2, <1>3, <1>4, <2>1, <2>2 DEF TypeOK, radioVars
    <3> QED BY <1>1, <2>2, <3>1, QuietStep
  <2>3. ASSUME NEW i \in DOMAIN mgr.send, NEW started \in StartResult, StartSend(i, started)
        PROVE  IInv'
    <3> DEFINE p == mgr.send[i].pkt
               m == SendWithout(mgr, i)
    <3>1. m \in Manager /\ p \in Packet \ held /\ Conserved(m, held \union {p})
      BY <1>2, SendWithoutRemoves
    <3> HIDE DEF p, m
    <3>2. CASE started
      <4>1. PICK a \in Airtime :
              outbound' = [pkt |-> p, start |-> now,
                           expiry |-> FutureMillis(now, (a * 3) \div 2), air |-> a]
        BY <2>3, <3>2 DEF StartSend, p
      <4>2. mgr' = m /\ radio' = "sending" /\ receiving' = FALSE
        BY <2>3, <3>2 DEF StartSend, m
      <4>3. FutureMillis(now, (a * 3) \div 2) \in Clock
        <5>1. (a * 3) \div 2 \in Int
          BY DelayConstants
        <5> QED BY <1>2, <5>1, FutureIsClock
      <4>4. outbound' \in Outbound /\ outbound'.pkt = p
        BY <1>2, <3>1, <4>1, <4>3 DEF Outbound
      <4>5. OnAir' = IF outbound' # NoPacket THEN {p} ELSE {}
        BY <4>4 DEF OnAir, Sending
      <4>6. outbound' # NoPacket
        BY <4>4, NoPacketIsNone
      <4>7. PoolConserved'
        BY <1>1, <3>1, <4>2, <4>5, <4>6 DEF PoolConserved
      <4>8. TypeOK'
        BY <1>1, <1>2, <1>3, <1>4, <2>1, <3>1, <4>2, <4>4 DEF TypeOK
      <4> QED BY <1>1, <4>7, <4>8 DEF IInv, FreeToSend
    <3>3. CASE ~started
      <4>1. mgr' = Freed(m, p) /\ UNCHANGED <<outbound, radioVars>>
        BY <2>3, <3>3 DEF StartSend, m, p
      <4>2. (held \union {p}) \ {p} = held /\ Out(m, p, held \union {p})
        BY <3>1 DEF Out
      <4>3. mgr' \in Manager /\ Conserved(mgr', held)
        BY <4>1, <4>2, FreedTakesBack
      <4>4. OnAir' = {}
        BY <1>1, <4>1 DEF OnAir, Sending
      <4>5. PoolConserved'
        BY <1>1, <4>3, <4>4 DEF PoolConserved
      <4>6. TypeOK'
        BY <1>1, <1>2, <1>3, <1>4, <2>1, <4>1, <4>3 DEF TypeOK, radioVars
      <4> QED BY <1>1, <4>5, <4>6 DEF IInv, FreeToSend
    <3> QED BY <3>2, <3>3
  <2> QED BY <1>9, <2>2, <2>3 DEF TrySend
<1> QED BY <1>5, <1>6, <1>7, <1>8, <1>9 DEF CheckSend

------------------------------------------------------------------------
(* Every step of the Dispatcher preserves the invariant.                    *)
LEMMA StepPreserves == IInv /\ [Next]_vars => IInv'
<1> SUFFICES ASSUME IInv, [Next]_vars PROVE IInv'
  OBVIOUS
<1>1. CASE Next
  BY <1>1, EnvironmentStep, AppStep, OutboundStep, ReceiveStep, SendStep DEF Next, Loop
<1>2. CASE UNCHANGED vars
  <2>1. TypeOK'
    BY <1>2 DEF vars, IInv, TypeOK, radioVars, txVars, budgetVars
  <2> QED BY <1>2, <2>1, QuietStep DEF vars, IInv, FreeToSend
<1> QED BY <1>1, <1>2

(* Every value the Dispatcher and the packet manager keep has its type: the  *)
(* queues hold pool packets with schedules the clock can show, the budget    *)
(* stays within the bucket.                                                 *)
THEOREM TypeCorrect == Spec => []TypeOK
<1>1. IInv => TypeOK
  BY DEF IInv
<1> QED BY <1>1, InitEstablishes, StepPreserves, PTL DEF Spec

(* No packet of the pool is ever lost or in two places, whatever the layers  *)
(* above, the radio and the clock do: in any order, with any delays.        *)
THEOREM PoolIsConserved == Spec => []PoolConserved
<1>1. IInv => PoolConserved
  BY DEF IInv
<1> QED BY <1>1, InitEstablishes, StepPreserves, PTL DEF Spec

------------------------------------------------------------------------
(* The refinement.  Four inclusions say where the packets of each place may  *)
(* have come from; Conserved, before and after, does the rest.              *)
Inflow ==
  /\ PacketsOf(mgr.send)' \subseteq
       PacketsOf(mgr.send) \union PacketsOf(mgr.unused) \union PacketsOf(mgr.rx)
  /\ PacketsOf(mgr.rx)' \subseteq PacketsOf(mgr.rx) \union PacketsOf(mgr.unused)
  /\ held' \subseteq held \union PacketsOf(mgr.unused) \union PacketsOf(mgr.rx)
  /\ OnAir' \subseteq OnAir \union PacketsOf(mgr.send)

LEMMA InflowIsMove ==
  ASSUME IInv, IInv', Inflow
  PROVE  Lifecycle!Move
<1> DEFINE U == PacketsOf(mgr.unused)
           S == PacketsOf(mgr.send)
           R == PacketsOf(mgr.rx)
<1>1. /\ U \intersect S = {} /\ U \intersect R = {} /\ S \intersect R = {}
      /\ U \union S \union R = Packet \ (held \union OnAir) /\ held \intersect OnAir = {}
  BY DEF IInv, PoolConserved, Conserved
<1>2. /\ U' \intersect S' = {} /\ U' \intersect R' = {} /\ S' \intersect R' = {}
      /\ U' \union S' \union R' = Packet \ (held' \union OnAir') /\ held' \intersect OnAir' = {}
  BY DEF IInv, PoolConserved, Conserved
<1>3. /\ S' \subseteq S \union U \union R /\ R' \subseteq R \union U
      /\ held' \subseteq held \union U \union R /\ OnAir' \subseteq OnAir \union S
  BY DEF Inflow
<1>4. \A p \in Packet : /\ Where[p] = IF p \in OnAir THEN "on air" ELSE IF p \in held THEN "held"
                          ELSE IF p \in S THEN "queued" ELSE IF p \in R THEN "delayed" ELSE "unused"
                        /\ Where'[p] = IF p \in OnAir' THEN "on air" ELSE IF p \in held' THEN "held"
                          ELSE IF p \in S' THEN "queued" ELSE IF p \in R' THEN "delayed" ELSE "unused"
  BY DEF Where
<1>5. Where' \in [Packet -> Lifecycle!Place]
  BY DEF Where, Lifecycle!Place
<1>6. \A p, q \in Packet : p \in OnAir' /\ q \in OnAir' => p = q
  BY DEF OnAir
<1> HIDE DEF U, S, R
<1>7. ASSUME NEW p \in Packet
      PROVE  Where'[p] = Where[p] \/ <<Where[p], Where'[p]>> \in Lifecycle!Ways
  <2>1. CASE p \in OnAir
    BY <1>1, <1>2, <1>3, <1>4, <2>1 DEF Lifecycle!Ways
  <2>2. CASE p \in held
    BY <1>1, <1>2, <1>3, <1>4, <2>2 DEF Lifecycle!Ways
  <2>3. CASE p \in S
    BY <1>1, <1>2, <1>3, <1>4, <2>3 DEF Lifecycle!Ways
  <2>4. CASE p \in R
    BY <1>1, <1>2, <1>3, <1>4, <2>4 DEF Lifecycle!Ways
  <2>5. CASE p \in U
    BY <1>1, <1>2, <1>3, <1>4, <2>5 DEF Lifecycle!Ways
  <2> QED BY <1>1, <2>1, <2>2, <2>3, <2>4, <2>5
<1>8. Lifecycle!OneOnAir(Where')
  BY <1>4, <1>6 DEF Lifecycle!OneOnAir
<1> QED BY <1>5, <1>7, <1>8 DEF Lifecycle!Move

(* When no packet moves, or only back to the pool.                          *)
LEMMA NoInflow ==
  ASSUME PacketsOf(mgr'.send) \subseteq PacketsOf(mgr.send), mgr'.rx = mgr.rx,
         held' \subseteq held, outbound' \in {outbound, NoPacket}
  PROVE  Inflow
BY DEF Inflow, OnAir, Sending, PacketsOf

LEMMA AppInflow ==
  ASSUME IInv, App
  PROVE  Inflow
<1> DEFINE outside == held \union OnAir
           p == AllocPkt(mgr)
           m == AllocRest(mgr)
<1>1. /\ mgr \in Manager /\ Conserved(mgr, outside) /\ held \subseteq Packet /\ now \in Clock
  BY DEF IInv, TypeOK, PoolConserved
<1>2. CanAlloc(mgr) => /\ Out(m, p, outside \union {p})
                       /\ p \in PacketsOf(mgr.unused) /\ m.send = mgr.send /\ m.rx = mgr.rx
  <2> HIDE DEF outside
  <2> QED BY <1>1, AllocHandsOut DEF Out
<1>3. ASSUME NEW pri \in Priority, NEW d \in TxDelay, NEW valid \in BOOLEAN,
             AppSend(pri, d, valid)
      PROVE  Inflow
  <2> DEFINE at == FutureMillis(now, d)
             queued == QueuedOutbound(m, p, pri, at)
             freed == Freed(m, p)
  <2>1. /\ mgr' = IF valid THEN queued ELSE freed
        /\ held' = held /\ outbound' = outbound /\ CanAlloc(mgr)
    BY <1>3 DEF AppSend
  <2>2. at \in Clock
    BY <1>1, FutureIsClock, DelayConstants
  <2> HIDE DEF at, p, m, outside
  <2>8. Out(m, p, outside \union {p})
    BY <1>2, <2>1
  <2>3. /\ PacketsOf(queued.send) \in {PacketsOf(m.send), PacketsOf(m.send) \union {p}}
        /\ queued.rx = m.rx
    BY ONLY <2>2, <2>8, pri \in Priority, QueuedOutboundQueues
  <2>4. freed.send = m.send /\ freed.rx = m.rx
    BY ONLY <2>8, FreedTakesBack
  <2> HIDE DEF queued, freed
  <2>5. PacketsOf(mgr'.send) \subseteq PacketsOf(mgr.send) \union PacketsOf(mgr.unused)
    BY <1>2, <2>1, <2>3, <2>4
  <2>6. mgr'.rx = mgr.rx
    BY <1>2, <2>1, <2>3, <2>4
  <2> QED BY <2>1, <2>5, <2>6 DEF Inflow, OnAir, Sending, PacketsOf
<1>4. ASSUME AppHold PROVE Inflow
  <2>1. mgr' = m /\ held' = held \union {p} /\ outbound' = outbound /\ CanAlloc(mgr)
    BY <1>4 DEF AppHold
  <2> HIDE DEF m, p, outside
  <2>2. mgr'.send = mgr.send /\ mgr'.rx = mgr.rx /\ p \in PacketsOf(mgr.unused)
    BY <1>2, <2>1
  <2>3. PacketsOf(mgr.send)' = PacketsOf(mgr.send) /\ PacketsOf(mgr.rx)' = PacketsOf(mgr.rx)
    BY <2>2 DEF PacketsOf
  <2> QED BY <2>1, <2>2, <2>3 DEF Inflow, OnAir, Sending
<1>5. ASSUME NEW q \in held, AppRelease(q) PROVE Inflow
  <2>1. mgr' = Freed(mgr, q) /\ held' \subseteq held /\ outbound' = outbound
    BY <1>5 DEF AppRelease
  <2>2. Out(mgr, q, outside)
    BY <1>1 DEF Out
  <2>3. mgr'.send = mgr.send /\ mgr'.rx = mgr.rx
    BY <2>1, <2>2, FreedTakesBack
  <2> QED BY <2>1, <2>3, NoInflow
<1> QED BY <1>3, <1>4, <1>5 DEF App

LEMMA OutboundInflow ==
  ASSUME IInv, LoopOutbound \/ LoopReturnsEarly
  PROVE  Inflow
<1>1. CASE UNCHANGED <<mgr, held, outbound>>
  BY <1>1, NoInflow
<1>2. CASE /\ Sending /\ mgr' = Freed(mgr, outbound.pkt) /\ outbound' = NoPacket
           /\ UNCHANGED held
  <2>1. Out(mgr, outbound.pkt, held \union OnAir)
    BY <1>2 DEF IInv, TypeOK, PoolConserved, Out, OnAir, Sending, Outbound
  <2>2. mgr'.send = mgr.send /\ mgr'.rx = mgr.rx
    BY <1>2, <2>1, FreedTakesBack
  <2> QED BY <1>2, <2>2, NoInflow
<1> QED BY <1>1, <1>2 DEF LoopOutbound, LoopReturnsEarly, SendComplete, SendTimedOut

LEMMA ReceiveInflow ==
  ASSUME IInv, LoopInbound \/ CheckRecv
  PROVE  Inflow
<1> DEFINE outside == held \union OnAir
<1>1. /\ mgr \in Manager /\ Conserved(mgr, outside) /\ now \in Clock
      /\ TypeOK /\ outbound' = outbound
  BY DEF IInv, TypeOK, PoolConserved, LoopInbound, CheckRecv
<1>2. ASSUME UNCHANGED <<mgr, held>> PROVE Inflow
  BY <1>1, <1>2, NoInflow
<1>3. ASSUME NEW m \in Manager, NEW p \in Packet, p \notin outside,
             Conserved(m, outside \union {p}), ProcessRecvPacket(m, p),
             p \in PacketsOf(mgr.unused) \union PacketsOf(mgr.rx),
             m.send = mgr.send,
             PacketsOf(m.unused) \subseteq PacketsOf(mgr.unused),
             PacketsOf(m.rx) \subseteq PacketsOf(mgr.rx)
      PROVE  Inflow
  <2>1. /\ held' \subseteq held \union {p} /\ mgr'.rx = m.rx
        /\ PacketsOf(mgr'.send) \subseteq PacketsOf(m.send) \union PacketsOf(m.unused) \union {p}
    <3> HIDE DEF outside
    <3> QED BY <1>1, <1>3, ProcessConserves
  <2>2. PacketsOf(mgr'.rx) = PacketsOf(m.rx) /\ PacketsOf(m.send) = PacketsOf(mgr.send)
    BY <1>3, <2>1
  <2>3. PacketsOf(mgr.send)' = PacketsOf(mgr'.send) /\ PacketsOf(mgr.rx)' = PacketsOf(mgr'.rx)
        /\ OnAir' = OnAir
    BY <1>1 DEF PacketsOf, OnAir, Sending
  <2> QED BY <1>3, <2>1, <2>2, <2>3 DEF Inflow
<1>4. ASSUME LoopInbound PROVE Inflow
  <2>1. ASSUME NEW i \in DOMAIN mgr.rx, ProcessRecvPacket(RxWithout(mgr, i), mgr.rx[i].pkt)
        PROVE  Inflow
    <3> DEFINE m == RxWithout(mgr, i)
               p == mgr.rx[i].pkt
    <3>1. /\ m \in Manager /\ p \in Packet \ outside /\ Conserved(m, outside \union {p})
          /\ p \in PacketsOf(mgr.rx) /\ m.send = mgr.send /\ m.unused = mgr.unused
          /\ PacketsOf(m.rx) = PacketsOf(mgr.rx) \ {p}
      <4> HIDE DEF outside
      <4> QED BY <1>1, RxWithoutRemoves
    <3>2. ProcessRecvPacket(m, p)
      BY <2>1
    <3> HIDE DEF m, p, outside
    <3> QED BY <1>3, <3>1, <3>2
  <2> QED BY <1>2, <1>4, <2>1 DEF LoopInbound
<1>5. ASSUME CanAlloc(mgr), Received(AllocRest(mgr), AllocPkt(mgr)) PROVE Inflow
  <2> DEFINE m == AllocRest(mgr)
             p == AllocPkt(mgr)
  <2>1. /\ m \in Manager /\ p \in Packet \ outside /\ Conserved(m, outside \union {p})
        /\ p \in PacketsOf(mgr.unused) /\ m.send = mgr.send /\ m.rx = mgr.rx
        /\ PacketsOf(m.unused) = PacketsOf(mgr.unused) \ {p}
    <3> HIDE DEF outside
    <3> QED BY <1>1, <1>5, AllocHandsOut
  <2>2. Received(m, p)
    BY <1>5
  <2> HIDE DEF m, p, outside
  <2>3. Out(m, p, outside \union {p})
    BY <2>1 DEF Out
  <2>4. CASE mgr' = Freed(m, p) /\ held' = held
    <3>1. mgr'.send = mgr.send /\ mgr'.rx = mgr.rx
      BY <2>1, <2>3, <2>4, FreedTakesBack
    <3> QED BY <1>1, <2>4, <3>1, NoInflow
  <2>5. ASSUME NEW d \in RxDelay,
               mgr' = QueuedInbound(m, p, FutureMillis(now, d)) /\ held' = held
        PROVE  Inflow
    <3> DEFINE at == FutureMillis(now, d)
               queued == QueuedInbound(m, p, at)
    <3>1. mgr' = queued /\ at \in Clock
      BY <1>1, <2>5, FutureIsClock, DelayConstants
    <3> HIDE DEF at
    <3>2. /\ PacketsOf(queued.rx) \in {PacketsOf(m.rx), PacketsOf(m.rx) \union {p}}
          /\ queued.send = m.send
      BY <2>3, <3>1, QueuedInboundQueues
    <3> HIDE DEF queued
    <3>3. /\ PacketsOf(mgr.send)' = PacketsOf(mgr'.send) /\ PacketsOf(mgr.rx)' = PacketsOf(mgr'.rx)
          /\ OnAir' = OnAir
      BY <1>1 DEF PacketsOf, OnAir, Sending
    <3> QED BY <2>1, <2>5, <3>1, <3>2, <3>3 DEF Inflow
  <2>6. CASE ProcessRecvPacket(m, p)
    BY <1>3, <2>1, <2>6
  <2> QED BY <2>2, <2>4, <2>5, <2>6 DEF Received
<1> QED BY <1>2, <1>4, <1>5 DEF CheckRecv

LEMMA SendInflow ==
  ASSUME IInv, CheckSend
  PROVE  Inflow
<1>1. CASE UNCHANGED <<mgr, held, outbound>>
  BY <1>1, NoInflow
<1>2. ASSUME NEW i \in DOMAIN mgr.send, NEW started \in StartResult,
             StartSend(i, started), held' = held
      PROVE  Inflow
  <2> DEFINE p == mgr.send[i].pkt
             m == SendWithout(mgr, i)
             outside == held \union OnAir
  <2>1. mgr \in Manager /\ Conserved(mgr, outside)
    BY DEF IInv, TypeOK, PoolConserved
  <2>2. /\ m \in Manager /\ p \in Packet \ outside /\ p \in PacketsOf(mgr.send)
        /\ Conserved(m, outside \union {p}) /\ PacketsOf(m.send) = PacketsOf(mgr.send) \ {p}
        /\ m.rx = mgr.rx
    <3> HIDE DEF outside
    <3> QED BY <2>1, SendWithoutRemoves
  <2>3. \/ mgr' = m /\ \E a \in Airtime : outbound' =
                        [pkt |-> p, start |-> now,
                         expiry |-> FutureMillis(now, (a * 3) \div 2), air |-> a]
        \/ mgr' = Freed(m, p) /\ outbound' = outbound
    BY <1>2 DEF StartSend
  <2> HIDE DEF m, p, outside
  <2>4. CASE mgr' = m /\ \E a \in Airtime : outbound' =
                        [pkt |-> p, start |-> now,
                         expiry |-> FutureMillis(now, (a * 3) \div 2), air |-> a]
    <3>1. OnAir' \subseteq {p}
      BY <2>4 DEF OnAir, Sending
    <3>2. PacketsOf(mgr.send)' = PacketsOf(m.send) /\ PacketsOf(mgr.rx)' = PacketsOf(mgr.rx)
      BY <2>2, <2>4 DEF PacketsOf
    <3> QED BY <1>2, <2>2, <3>1, <3>2 DEF Inflow
  <2>5. CASE mgr' = Freed(m, p) /\ outbound' = outbound
    <3>1. Out(m, p, outside \union {p})
      BY <2>2 DEF Out
    <3>2. mgr'.send = m.send /\ mgr'.rx = m.rx
      BY <2>5, <3>1, FreedTakesBack
    <3>3. PacketsOf(mgr'.send) \subseteq PacketsOf(mgr.send) /\ mgr'.rx = mgr.rx
      BY <2>2, <3>2
    <3> QED BY <1>2, <2>5, <3>3, NoInflow
  <2> QED BY <2>3, <2>4, <2>5
<1> QED BY <1>1, <1>2 DEF CheckSend, NothingToSend, BudgetTooLow, TooSoon, DeferredByCAD, TrySend

(* The Dispatcher implements PacketLifecycle: what is on the air came from   *)
(* the send queue, one packet at a time, and goes nowhere but to the pool;   *)
(* a packet the layers above hold is not touched; nothing is delayed twice.  *)
THEOREM ImplementsLifecycle == Spec => FollowsLifecycle
<1>1. Init => Lifecycle!Init
  <2> SUFFICES ASSUME Init PROVE Where = [p \in Packet |-> "unused"]
    BY DEF Lifecycle!Init
  <2>1. OnAir = {} /\ held = {} /\ PacketsOf(mgr.send) = {} /\ PacketsOf(mgr.rx) = {}
    BY DEF Init, OnAir, Sending, PacketsOf
  <2> QED BY <2>1 DEF Where
<1>2. IInv /\ IInv' /\ [Next]_vars => [Lifecycle!Move]_Where
  <2> SUFFICES ASSUME IInv, IInv', [Next]_vars PROVE Inflow
    BY InflowIsMove
  <2>1. CASE Tick \/ RadioTxDone \/ ChannelChanges \/ UNCHANGED vars
    <3>1. UNCHANGED <<mgr, held, outbound>>
      BY <2>1 DEF Tick, RadioTxDone, ChannelChanges, vars
    <3> QED BY <3>1, NoInflow
  <2> QED BY <2>1, AppInflow, OutboundInflow, ReceiveInflow, SendInflow DEF Next, Loop
<1>3. Spec => Lifecycle!Init /\ [][Lifecycle!Move]_Where
  BY <1>1, <1>2, InitEstablishes, StepPreserves, PTL DEF Spec
<1> QED BY <1>3 DEF FollowsLifecycle, Lifecycle!Spec
========================================================================
