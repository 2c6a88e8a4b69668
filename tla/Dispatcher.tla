-------------------------- MODULE Dispatcher --------------------------
(***************************************************************************)
(* mesh::Dispatcher, the task at the bottom of every firmware: it polls    *)
(* the radio for packets, hands them to the layer above, and decides when  *)
(* the queued ones are sent.  One pass of loop() is four steps of the      *)
(* variable pc; the clock, the radio and (between passes) the application  *)
(* move in between.                                                        *)
(*                                                                         *)
(* Left out: statistics, logging and the latched error flags, which decide *)
(* nothing here; the noise-floor calibration and the AGC reset, which only *)
(* touch the radio driver; and checkSend's "too long" branch, which no     *)
(* queued packet can reach (1 + 4 + 1 + 64 path + 184 payload < 255).      *)
(***************************************************************************)
EXTENDS PacketQueue, Functions

CONSTANTS
  NoPacket,                     \* the NULL outbound packet
  BudgetFactor,                 \* 1 + getAirtimeBudgetFactor(): duty cycle 1/BudgetFactor
  DutyWindow,                   \* getDutyCycleWindowMs()
  MinReserve,                   \* MIN_TX_BUDGET_RESERVE_MS
  MtuAirtime,                   \* getEstAirtimeFor(MAX_TRANS_UNIT)
  Airtime,                      \* estimated airtimes of the packets that get queued
  CADMaxDuration,               \* getCADFailMaxDuration()
  CADRetryDelay,                \* values of getCADFailRetryDelay()
  RxDelay,                      \* score delays of received floods, already capped
  TxDelay,                      \* delays the layers above ask for
  StartResult,                  \* what startSendRaw may return
  TxMayHang,                    \* TRUE: the radio may never report the end of a send
  OthersOnAir,                  \* TRUE: other nodes use the channel
  BootTime,                     \* readings of the clock at start-up
  MaxLag                        \* the clock ticks at most this often in a pass of loop()

ASSUME BudgetConstants ==
  /\ BudgetFactor \in Nat \ {0}
  /\ DutyWindow \in Nat /\ MinReserve \in Nat /\ MtuAirtime \in Nat
ASSUME DelayConstants ==
  /\ Airtime \subseteq Nat
  /\ CADMaxDuration \in Nat /\ CADRetryDelay \subseteq Nat
  /\ RxDelay \subseteq Nat /\ TxDelay \subseteq Nat
ASSUME EnvironmentBounds ==
  /\ StartResult \subseteq BOOLEAN /\ TxMayHang \in BOOLEAN /\ OthersOnAir \in BOOLEAN
  /\ BootTime \subseteq Clock /\ MaxLag \in Nat \ {0}

VARIABLES
  now,                          \* the millisecond clock
  pc,                           \* the next step of loop()
  lag,                          \* ticks since the running pass began
  mgr,                          \* the packet manager: unused, send and rx queues
  held,                         \* packets the layers above hold on to
  outbound,                     \* the packet being sent, with outbound_start,
                                \*   outbound_expiry and its airtime; or NoPacket
  radio,                        \* the transmitter: "listening", "sending" or "sent"
  receiving,                    \* isReceiving(): the channel is busy
  next_tx_time, cad_busy_start, tx_budget_ms, last_budget_update

radioVars == <<radio, receiving>>
txVars == <<next_tx_time, cad_busy_start>>
budgetVars == <<tx_budget_ms, last_budget_update>>
vars == <<now, pc, lag, mgr, held, outbound, radioVars, txVars, budgetVars>>

Outbound == [pkt : Packet, start : Clock, expiry : Clock, air : Airtime]
ASSUME NoPacketIsNone == NoPacket \notin Outbound
Sending == outbound # NoPacket

------------------------------------------------------------------------
(* The airtime budget: a token bucket refilled with elapsed * duty cycle,   *)
(* rounded down, and capped at the window's share.                          *)
MaxBudget == DutyWindow \div BudgetFactor
Refill == Since(now, last_budget_update) \div BudgetFactor
MinOf(a, b) == IF a <= b THEN a ELSE b

(* Mutant of UpdatedBudget: the bucket overflows.                           *)
UncappedBudget == tx_budget_ms + Refill

(* Mutant of UpdatedAt: the time already turned into budget counts again.    *)
NotUpdatedAt == last_budget_update

(* updateTxBudget: what tx_budget_ms and last_budget_update become.         *)
UpdatedBudget ==
  IF Refill > 0 THEN MinOf(tx_budget_ms + Refill, MaxBudget) ELSE tx_budget_ms
UpdatedAt == IF Refill > 0 THEN now ELSE last_budget_update

(* How much budget checkSend asks for (MIN_TX_BUDGET_AIRTIME_DIV = 2).      *)
NeededBudget == MtuAirtime \div 2

(* The instant when `missing' more budget will have been refilled.          *)
WhenRefilled(missing) == FutureMillis(now, missing * BudgetFactor)

------------------------------------------------------------------------
Init ==
  /\ now \in BootTime
  /\ pc = "tx" /\ lag = 0
  /\ \E order \in Bijection(1 .. PoolSize, Packet) :
       mgr = [unused |-> [i \in 1 .. PoolSize |-> [pkt |-> order[i], pri |-> 0, at |-> 0]],
              send |-> << >>, rx |-> << >>]
  /\ held = {}
  /\ outbound = NoPacket
  /\ radio = "listening" /\ receiving = FALSE
  /\ next_tx_time = now /\ cad_busy_start = 0
  /\ tx_budget_ms = MaxBudget /\ last_budget_update = now

------------------------------------------------------------------------
(* The environment.                                                         *)

(* The radio has put the whole packet on the air.                           *)
OnAirLongEnough == Since(now, outbound.start) >= outbound.air

Tick ==
  /\ lag < MaxLag
  /\ ~TxMayHang /\ radio = "sending" => ~OnAirLongEnough
  /\ now' = (now + 1) % W
  /\ lag' = lag + 1
  /\ UNCHANGED <<pc, mgr, held, outbound, radioVars, txVars, budgetVars>>

RadioTxDone ==
  /\ radio = "sending" /\ OnAirLongEnough
  /\ radio' = "sent"
  /\ UNCHANGED <<now, pc, lag, mgr, held, outbound, receiving, txVars, budgetVars>>

ChannelChanges ==
  /\ OthersOnAir /\ radio = "listening"
  /\ receiving' = ~receiving
  /\ UNCHANGED <<now, pc, lag, mgr, held, outbound, radio, txVars, budgetVars>>

------------------------------------------------------------------------
(* The layers above, between two passes of loop().                          *)

(* obtainNewPacket, fill it in, sendPacket; `valid' is the outcome of the   *)
(* test of its path and payload lengths.                                    *)
AppSend(pri, d, valid) ==
  /\ pc = "tx"
  /\ CanAlloc(mgr)
  /\ LET p == AllocPkt(mgr) IN
       mgr' = IF valid
              THEN QueuedOutbound(AllocRest(mgr), p, pri, FutureMillis(now, d))
              ELSE Freed(AllocRest(mgr), p)
  /\ UNCHANGED <<now, pc, lag, held, outbound, radioVars, txVars, budgetVars>>

(* A packet is obtained and kept (importContact's loop-back packet) ...      *)
AppHold ==
  /\ pc = "tx"
  /\ CanAlloc(mgr)
  /\ mgr' = AllocRest(mgr) /\ held' = held \union {AllocPkt(mgr)}
  /\ UNCHANGED <<now, pc, lag, outbound, radioVars, txVars, budgetVars>>

(* ... until releasePacket gives it back.                                   *)
AppRelease(p) ==
  /\ pc = "tx"
  /\ p \in held
  /\ mgr' = Freed(mgr, p) /\ held' = held \ {p}
  /\ UNCHANGED <<now, pc, lag, outbound, radioVars, txVars, budgetVars>>

------------------------------------------------------------------------
(* Mutant of TakenBack: the suppressed packet is not released.              *)
TakenBackAndLost(m) == { SendWithout(m, i) : i \in DOMAIN m.send }

(* processRecvPacket(p).  onRecvPacket belongs to the layers above: before   *)
(* it returns it may have taken back a queued retransmission (duplicate      *)
(* suppression), or queued one or two packets of its own (an ACK and its     *)
(* copy, a reply and a path).                                               *)
TakenBack(m) == { Freed(SendWithout(m, i), m.send[i].pkt) : i \in DOMAIN m.send }
Answered(m) ==
  IF CanAlloc(m)
  THEN { QueuedOutbound(AllocRest(m), AllocPkt(m), pri, FutureMillis(now, d)) :
           pri \in Priority, d \in TxDelay }
  ELSE {}
SideEffects(m) ==
  {m} \union TakenBack(m) \union Answered(m) \union UNION { Answered(n) : n \in Answered(m) }

ActionRelease(m, p) == mgr' = Freed(m, p) /\ held' = held
ActionManualHold(m, p) == mgr' = m /\ held' = held \union {p}
ActionRetransmit(m, p) ==
  \E pri \in Priority, d \in TxDelay :
    mgr' = QueuedOutbound(m, p, pri, FutureMillis(now, d)) /\ held' = held

ProcessRecvPacket(m, p) ==
  \E m1 \in SideEffects(m) :
    ActionRelease(m1, p) \/ ActionManualHold(m1, p) \/ ActionRetransmit(m1, p)

------------------------------------------------------------------------
(* loop(), part 1: the outbound packet.                                     *)

(* isSendComplete(): charge the airtime and set the time of the next send.   *)
SendComplete ==
  LET t == Since(now, outbound.start)
      left == IF t > UpdatedBudget THEN 0 ELSE UpdatedBudget - t
  IN /\ Sending /\ radio = "sent"
     /\ tx_budget_ms' = left /\ last_budget_update' = UpdatedAt
     /\ next_tx_time' = IF left < MinReserve THEN WhenRefilled(MinReserve - left) ELSE now

(* The radio did not report the end of the send in time: give the packet up. *)
SendTimedOut ==
  /\ Sending /\ radio # "sent" /\ MillisHasNowPassed(now, outbound.expiry)
  /\ UNCHANGED <<next_tx_time, budgetVars>>

LoopOutbound ==
  /\ pc = "tx" /\ pc' = "inbound"
  /\ \/ /\ SendComplete \/ SendTimedOut
        /\ mgr' = Freed(mgr, outbound.pkt) /\ outbound' = NoPacket
        /\ radio' = "listening"                       \* onSendFinished()
     \/ ~Sending /\ UNCHANGED <<mgr, outbound, radio, next_tx_time, budgetVars>>
  /\ UNCHANGED <<now, lag, held, receiving, cad_busy_start>>

(* `can't do any more radio activity until send is complete or timed out'    *)
LoopReturnsEarly ==
  /\ pc = "tx" /\ lag' = 0
  /\ Sending /\ radio # "sent" /\ ~MillisHasNowPassed(now, outbound.expiry)
  /\ UNCHANGED <<now, pc, mgr, held, outbound, radioVars, txVars, budgetVars>>

(* Part 2: one packet of the delayed inbound queue.                         *)
LoopInbound ==
  /\ pc = "inbound" /\ pc' = "recv"
  /\ \/ \E i \in DOMAIN mgr.rx :
          /\ IsNext(mgr.rx, now, i)
          /\ ProcessRecvPacket(RxWithout(mgr, i), mgr.rx[i].pkt)
     \/ Due(mgr.rx, now) = {} /\ UNCHANGED <<mgr, held>>
  /\ UNCHANGED <<now, lag, outbound, radioVars, txVars, budgetVars>>

(* Part 3: checkRecv.  What was received has nowhere to go when the pool is  *)
(* empty, is given back when it does not parse, waits in the inbound queue   *)
(* when it is a flood with a score delay, and else is processed at once.     *)
Received(m, p) ==
  \/ mgr' = Freed(m, p) /\ held' = held
  \/ \E d \in RxDelay : mgr' = QueuedInbound(m, p, FutureMillis(now, d)) /\ held' = held
  \/ ProcessRecvPacket(m, p)

CheckRecv ==
  /\ pc = "recv" /\ pc' = "send"
  /\ \/ UNCHANGED <<mgr, held>>                       \* nothing, or no packet for it
     \/ CanAlloc(mgr) /\ Received(AllocRest(mgr), AllocPkt(mgr))
  /\ UNCHANGED <<now, lag, outbound, radioVars, txVars, budgetVars>>

------------------------------------------------------------------------
(* Part 4: checkSend.  The guards are tested in this order.                  *)
EndPass == pc = "send" /\ pc' = "tx" /\ lag' = 0

NothingToSend ==
  /\ EndPass
  /\ ~AnyBefore(mgr.send, now)
  /\ UNCHANGED <<now, mgr, held, outbound, radioVars, txVars, budgetVars>>

(* Mutant of BudgetLow: any budget will do.                                 *)
BudgetEmpty == UpdatedBudget = 0

(* updateTxBudget, then the budget test.                                    *)
BudgetLow == UpdatedBudget < NeededBudget
BudgetTooLow ==
  /\ EndPass
  /\ AnyBefore(mgr.send, now) /\ BudgetLow
  /\ tx_budget_ms' = UpdatedBudget /\ last_budget_update' = UpdatedAt
  /\ next_tx_time' = WhenRefilled(NeededBudget - UpdatedBudget)
  /\ UNCHANGED <<now, mgr, held, outbound, radioVars, cad_busy_start>>

Admitted == AnyBefore(mgr.send, now) /\ ~BudgetLow

TooSoon ==
  /\ EndPass
  /\ Admitted /\ ~MillisHasNowPassed(now, next_tx_time)
  /\ tx_budget_ms' = UpdatedBudget /\ last_budget_update' = UpdatedAt
  /\ UNCHANGED <<now, mgr, held, outbound, radioVars, txVars>>

MayTry == Admitted /\ MillisHasNowPassed(now, next_tx_time)

(* Mutant of CADBusySince: every deferral starts the wait anew.             *)
CADBusyAgain == now

(* When the channel was first found busy, 0 standing for `it was not'.       *)
CADBusySince == IF cad_busy_start = 0 THEN now ELSE cad_busy_start
CADTimedOut == Since(now, CADBusySince) > CADMaxDuration

DeferredByCAD ==
  /\ EndPass
  /\ MayTry /\ receiving /\ ~CADTimedOut
  /\ cad_busy_start' = CADBusySince
  /\ \E d \in CADRetryDelay : next_tx_time' = FutureMillis(now, d)
  /\ tx_budget_ms' = UpdatedBudget /\ last_budget_update' = UpdatedAt
  /\ UNCHANGED <<now, mgr, held, outbound, radioVars>>

(* Start of the send, forced when the channel has been busy for too long.    *)
(* A packet the radio refuses is released, not queued again.                 *)
StartSend(i, started) ==
  LET p == mgr.send[i].pkt
      m == SendWithout(mgr, i)
  IN /\ IsNext(mgr.send, now, i)
     /\ IF started
        THEN /\ \E a \in Airtime :
                  outbound' = [pkt |-> p, start |-> now,
                               expiry |-> FutureMillis(now, (a * 3) \div 2), air |-> a]
             /\ mgr' = m /\ radio' = "sending" /\ receiving' = FALSE
        ELSE mgr' = Freed(m, p) /\ UNCHANGED <<outbound, radioVars>>

TrySend ==
  /\ EndPass
  /\ MayTry /\ (receiving => CADTimedOut)
  /\ cad_busy_start' = 0
  /\ tx_budget_ms' = UpdatedBudget /\ last_budget_update' = UpdatedAt
  /\ \/ \E i \in DOMAIN mgr.send, started \in StartResult : StartSend(i, started)
     \/ Due(mgr.send, now) = {} /\ UNCHANGED <<mgr, outbound, radioVars>>
  /\ UNCHANGED <<now, held, next_tx_time>>

CheckSend == NothingToSend \/ BudgetTooLow \/ TooSoon \/ DeferredByCAD \/ TrySend

------------------------------------------------------------------------
Loop == LoopOutbound \/ LoopReturnsEarly \/ LoopInbound \/ CheckRecv \/ CheckSend

App ==
  \/ \E pri \in Priority, d \in TxDelay, valid \in BOOLEAN : AppSend(pri, d, valid)
  \/ AppHold
  \/ \E p \in held : AppRelease(p)

Next == Tick \/ RadioTxDone \/ ChannelChanges \/ App \/ Loop

Spec == Init /\ [][Next]_vars

(* The main loop runs for ever, time passes, and unless it hangs the radio   *)
(* reports the end of a send.                                               *)
Fairness == WF_vars(Loop) /\ WF_vars(Tick) /\ WF_vars(~TxMayHang /\ RadioTxDone)
FairSpec == Spec /\ Fairness

------------------------------------------------------------------------
(* Every variable has the range its C++ type and the code give it; above all *)
(* the budget never leaves 0 .. MaxBudget (updateTxBudget, lines 39-54).     *)
TypeOK ==
  /\ now \in Clock
  /\ pc \in {"tx", "inbound", "recv", "send"} /\ lag \in 0 .. MaxLag
  /\ mgr \in Manager /\ held \subseteq Packet
  /\ outbound \in Outbound \union {NoPacket}
  /\ radio \in {"listening", "sending", "sent"} /\ receiving \in BOOLEAN
  /\ next_tx_time \in Clock /\ cad_busy_start \in Clock
  /\ tx_budget_ms \in 0 .. MaxBudget /\ last_budget_update \in Clock

(* No packet of the pool is ever lost or in two places: it is unused, in one *)
(* of the queues, held above, or on the air.                                *)
OnAir == IF Sending THEN {outbound.pkt} ELSE {}
PoolConserved == Conserved(mgr, held \union OnAir) /\ held \intersect OnAir = {}

(* Where each packet of the pool is.                                        *)
Where ==
  [p \in Packet |-> IF p \in OnAir THEN "on air"
                    ELSE IF p \in held THEN "held"
                    ELSE IF p \in PacketsOf(mgr.send) THEN "queued"
                    ELSE IF p \in PacketsOf(mgr.rx) THEN "delayed" ELSE "unused"]

(* The Dispatcher keeps the promises of PacketLifecycle.                     *)
Lifecycle == INSTANCE PacketLifecycle WITH where <- Where
FollowsLifecycle == Lifecycle!Spec

------------------------------------------------------------------------
(* The packet on the air comes back to the pool even when the radio never    *)
(* reports the end of the send.                                             *)
OutboundIsReleased == Sending ~> ~Sending

(* A flood that waits out its score delay is processed in the end.           *)
DelayedIsProcessed ==
  \A p \in Packet : p \in PacketsOf(mgr.rx) ~> p \notin PacketsOf(mgr.rx)
========================================================================
