-------------------- MODULE DispatcherHistoryProofs ---------------------
(***************************************************************************)
(* The duty cycle, for every bucket, clock width and order of events.       *)
(*                                                                         *)
(* Ledger: the token bucket never charges more airtime than it grants.  The  *)
(* invariant counts, beside what was charged and what is left, the time     *)
(* that has not been turned into budget yet; the clock's wrap can only      *)
(* shorten that time.                                                       *)
(*                                                                         *)
(* SendRuns: what is charged covers what is used.  The budget that admitted  *)
(* a send is still there when it ends, and the time charged is no shorter    *)
(* than the airtime.                                                        *)
(*                                                                         *)
(* WaitEnds: a ready queue sends.  Budget, timer and channel each come at a   *)
(* reading of the clock that is known when the queue becomes ready.          *)
(***************************************************************************)
EXTENDS DispatcherHistory, DispatcherProofs

Ledger ==
  /\ uptime \in Nat /\ charged \in Int
  /\ BudgetFactor * (charged + tx_budget_ms) + Since(now, last_budget_update)
       <= BudgetFactor * MaxBudget + uptime

HInv == IInv /\ Ledger

LEMMA SinceItself == \A t \in Clock : Since(t, t) = 0
BY ClockSize DEF Since, Clock

(* A tick moves the clock on by one, or back to zero.                       *)
LEMMA TickSince ==
  ASSUME NEW t \in Clock, NEW b \in Clock
  PROVE  Since((t + 1) % W, b) <= Since(t, b) + 1 /\ (t + 1) % W # t
<1> DEFINE u == (t + 1) % W
<1>1. W \in Nat /\ W > 1 /\ t \in 0 .. (W - 1) /\ b \in 0 .. (W - 1)
  BY ClockSize DEF Clock
<1>2. u = IF t + 1 = W THEN 0 ELSE t + 1
  BY <1>1
<1>3. \A x \in (1 - W) .. (W - 1) : x % W = IF x < 0 THEN x + W ELSE x
  BY <1>1
<1>4. u \in 0 .. (W - 1)
  BY <1>1, <1>2
<1> HIDE DEF u
<1>5. t - b \in (1 - W) .. (W - 1) /\ u - b \in (1 - W) .. (W - 1)
  BY <1>1, <1>4
<1>6. /\ Since(t, b) = IF t - b < 0 THEN t - b + W ELSE t - b
      /\ Since(u, b) = IF u - b < 0 THEN u - b + W ELSE u - b
  BY <1>3, <1>5 DEF Since
<1>7. Since(u, b) <= Since(t, b) + 1 /\ u # t
  BY <1>1, <1>2, <1>6
<1> QED BY <1>7 DEF u

(* updateTxBudget turns elapsed time into budget, and rounds down.          *)
LEMMA UpdateKeepsLedger ==
  ASSUME TypeOK, Ledger
  PROVE  BudgetFactor * (charged + UpdatedBudget) + Since(now, UpdatedAt)
           <= BudgetFactor * MaxBudget + uptime
<1> DEFINE s == Since(now, last_budget_update)
           B == BudgetFactor * MaxBudget + uptime
           T == tx_budget_ms
           C == charged
           F == BudgetFactor
<1>1. s \in Nat /\ T \in Nat /\ C \in Int /\ F \in Nat \ {0} /\ B \in Int /\ MaxBudget \in Nat
  <2>1. s \in Nat
    BY SinceIsNat DEF TypeOK
  <2>2. MaxBudget \in Nat /\ BudgetFactor \in Nat \ {0}
    BY BudgetType, BudgetConstants
  <2>3. T \in Nat /\ C \in Int /\ B \in Int
    BY <2>2 DEF TypeOK, Ledger
  <2> QED BY <2>1, <2>2, <2>3
<1>2. F * (C + T) + s <= B
  BY DEF Ledger
<1> HIDE DEF s, B, T, C, F
<1>3. F * (s \div F) <= s /\ s \div F \in Nat
  BY <1>1
<1>4. CASE Refill > 0
  <2>1. /\ Since(now, UpdatedAt) = 0
        /\ UpdatedBudget \in Nat /\ UpdatedBudget <= T + (s \div F)
    <3>1. UpdatedAt = now /\ UpdatedBudget = MinOf(T + (s \div F), MaxBudget)
      BY <1>4 DEF UpdatedAt, UpdatedBudget, Refill, s, T, F
    <3>2. Since(now, UpdatedAt) = 0
      BY <3>1, SinceItself DEF TypeOK
    <3> QED BY <1>1, <1>3, <3>1, <3>2 DEF MinOf
  <2> DEFINE r == s \div F
             u == UpdatedBudget
  <2>2. r \in Nat /\ u \in Nat /\ u <= T + r /\ F * r <= s
    BY <1>3, <2>1
  <2> HIDE DEF r, u
  <2>3. F * (C + u) <= F * (C + (T + r))
    <3>1. C + u <= C + (T + r) /\ C + u \in Int /\ C + (T + r) \in Int
      BY <1>1, <2>2
    <3> QED BY <1>1, <3>1
  <2>4. F * (C + (T + r)) = F * (C + T) + F * r
    BY <1>1, <2>2
  <2>5. F * (C + u) \in Int /\ F * (C + T) \in Int /\ F * r \in Int
    BY <1>1, <2>2
  <2>6. F * (C + u) <= B
    BY <1>1, <1>2, <2>2, <2>3, <2>4, <2>5
  <2>7. F * (C + u) + 0 <= B
    BY <2>5, <2>6
  <2> QED BY <2>1, <2>7 DEF u, F, C, B
<1>5. CASE ~(Refill > 0)
  BY <1>2, <1>5 DEF UpdatedAt, UpdatedBudget, s, B, T, C, F
<1> QED BY <1>4, <1>5

(* What a step does to the clock and the budget: it ticks, it leaves both    *)
(* alone, it charges a send that ended, or it only refills the bucket.      *)
Charges == Sending /\ outbound' = NoPacket /\ radio = "sent"

LEMMA BudgetSteps ==
  ASSUME IInv, Next
  PROVE  \/ Tick
         \/ now' = now /\ UNCHANGED budgetVars /\ ~Charges
         \/ now' = now /\ SendComplete /\ Charges
         \/ /\ now' = now /\ ~Charges
            /\ tx_budget_ms' = UpdatedBudget /\ last_budget_update' = UpdatedAt
<1>1. CASE Tick
  BY <1>1
<1>2. CASE RadioTxDone \/ ChannelChanges \/ App
  <2>1. now' = now /\ UNCHANGED budgetVars /\ outbound' = outbound
    BY <1>2 DEF RadioTxDone, ChannelChanges, App, AppSend, AppHold, AppRelease
  <2> QED BY <2>1 DEF Charges, Sending
<1>3. CASE LoopOutbound
  <2>1. CASE SendComplete
    BY <1>3, <2>1 DEF LoopOutbound, SendComplete, Sending, Charges
  <2>2. CASE ~SendComplete
    BY <1>3, <2>2 DEF LoopOutbound, SendTimedOut, Charges
  <2> QED BY <2>1, <2>2
<1>4. CASE LoopReturnsEarly
  BY <1>4 DEF LoopReturnsEarly, Charges
<1>5. CASE LoopInbound \/ CheckRecv
  BY <1>5 DEF LoopInbound, CheckRecv, Charges, Sending
<1>6. CASE CheckSend
  <2>1. ~Sending
    BY <1>6 DEF CheckSend, NothingToSend, BudgetTooLow, TooSoon, DeferredByCAD, TrySend, EndPass,
                IInv, FreeToSend
  <2> QED BY <1>6, <2>1
          DEF CheckSend, NothingToSend, BudgetTooLow, TooSoon, DeferredByCAD, TrySend, Charges
<1> QED BY <1>1, <1>2, <1>3, <1>4, <1>5, <1>6 DEF Next, Loop

LEMMA LedgerStep ==
  ASSUME HInv, HNext
  PROVE  Ledger'
<1>1. /\ IInv /\ TypeOK /\ Next /\ Ledger /\ MaxBudget' = MaxBudget
      /\ uptime \in Nat /\ charged \in Int
  BY DEF HInv, IInv, HNext, Ledger, MaxBudget
<1>2. /\ uptime' = IF now' = now THEN uptime ELSE uptime + 1
      /\ charged' = IF Charges THEN charged + UpdatedBudget - tx_budget_ms' ELSE charged
  BY DEF HNext, WatchClock, WatchAirtime, Charges
<1>3. /\ BudgetFactor \in Nat \ {0} /\ MaxBudget \in Nat /\ UpdatedBudget \in Nat
      /\ tx_budget_ms \in Nat /\ now \in Clock /\ last_budget_update \in Clock
      /\ UpdatedAt \in Clock
  BY <1>1, BudgetType, BudgetConstants DEF TypeOK
<1>4. BudgetFactor * (charged + UpdatedBudget) + Since(now, UpdatedAt)
        <= BudgetFactor * MaxBudget + uptime
  BY <1>1, UpdateKeepsLedger
<1> DEFINE B == BudgetFactor * MaxBudget
<1>5. B \in Int
  BY <1>3
<1>6. CASE Tick
  <2>1. now' = (now + 1) % W /\ UNCHANGED <<outbound, tx_budget_ms, last_budget_update>>
    BY <1>6 DEF Tick, budgetVars
  <2>2. charged' = charged
    BY <1>2, <2>1 DEF Charges, Sending
  <2> DEFINE s == Since(now, last_budget_update)
             s1 == Since((now + 1) % W, last_budget_update)
             V == BudgetFactor * (charged + tx_budget_ms)
  <2>3. s1 <= s + 1 /\ (now + 1) % W # now
    BY <1>3, TickSince
  <2>4. uptime' = uptime + 1
    BY <1>2, <2>1, <2>3
  <2>5. s \in Nat /\ s1 \in Nat /\ V \in Int /\ V + s <= B + uptime
    <3>1. (now + 1) % W \in Clock
      BY <1>3, ClockIsNat, ClockWraps
    <3> QED BY <1>1, <1>3, <3>1, SinceIsNat DEF Ledger
  <2> HIDE DEF s, s1, V, B
  <2>6. V + s1 <= B + uptime'
    BY <1>1, <1>5, <2>3, <2>4, <2>5
  <2> QED BY <1>1, <2>1, <2>2, <2>4, <2>6 DEF Ledger, s1, V, B
<1>7. CASE now' = now /\ UNCHANGED budgetVars /\ ~Charges
  BY <1>1, <1>2, <1>7 DEF Ledger, budgetVars
<1>8. CASE now' = now /\ SendComplete /\ Charges
  <2>1. last_budget_update' = UpdatedAt /\ tx_budget_ms' \in Int
    <3>1. outbound.start \in Clock
      BY <1>1, <1>8 DEF TypeOK, Charges, Sending, Outbound
    <3> QED BY <1>3, <1>8, <3>1, SinceIsNat DEF SendComplete
  <2>2. charged' \in Int /\ charged' + tx_budget_ms' = charged + UpdatedBudget
    <3>1. charged' = charged + UpdatedBudget - tx_budget_ms'
      BY <1>2, <1>8, Zenon
    <3>2. \A a, b, c \in Int : a + b - c \in Int /\ (a + b - c) + c = a + b
      OBVIOUS
    <3>3. charged \in Int /\ UpdatedBudget \in Int /\ tx_budget_ms' \in Int
      BY <1>1, <1>3, <2>1
    <3> QED BY <3>1, <3>2, <3>3, Zenon
  <2> QED BY <1>1, <1>2, <1>4, <1>8, <2>1, <2>2 DEF Ledger
<1>9. CASE /\ now' = now /\ ~Charges
           /\ tx_budget_ms' = UpdatedBudget /\ last_budget_update' = UpdatedAt
  BY <1>1, <1>2, <1>4, <1>9 DEF Ledger
<1> QED BY <1>1, <1>6, <1>7, <1>8, <1>9, BudgetSteps

LEMMA InitKeepsBooks == HInit => HInv
<1> SUFFICES ASSUME HInit PROVE HInv
  OBVIOUS
<1>1. IInv
  BY InitEstablishes DEF HInit
<1>2. /\ uptime = 0 /\ charged = 0 /\ tx_budget_ms = MaxBudget
      /\ last_budget_update = now
  BY DEF HInit, Init
<1>3. Since(now, last_budget_update) = 0 /\ MaxBudget \in Nat /\ BudgetFactor \in Nat
  BY <1>1, <1>2, SinceItself, BudgetType, BudgetConstants DEF IInv, TypeOK
<1>4. BudgetFactor * MaxBudget \in Int /\ 0 + MaxBudget = MaxBudget
  BY <1>3
<1> QED BY <1>1, <1>2, <1>3, <1>4 DEF HInv, Ledger

LEMMA StepKeepsBooks == HInv /\ [HNext]_hvars => HInv'
<1> SUFFICES ASSUME HInv, [HNext]_hvars PROVE HInv'
  OBVIOUS
<1>1. IInv'
  BY StepPreserves DEF HInv, HNext, hvars
<1>2. CASE HNext
  BY <1>1, <1>2, LedgerStep DEF HInv
<1>3. CASE UNCHANGED hvars
  BY <1>1, <1>3 DEF HInv, Ledger, hvars, vars, ledger, budgetVars
<1> QED BY <1>2, <1>3

(* A node never charges itself more airtime than its initial budget and its  *)
(* duty cycle's share of the time it has been up.                           *)
THEOREM ChargeIsBounded == HSpec => []ChargedWithinDutyCycle
<1>1. HInv => ChargedWithinDutyCycle
  <2> SUFFICES ASSUME HInv PROVE ChargedWithinDutyCycle
    OBVIOUS
  <2>1. /\ Since(now, last_budget_update) \in Nat /\ tx_budget_ms \in Nat
        /\ BudgetFactor \in Nat /\ MaxBudget \in Nat
    BY SinceIsNat, BudgetType, BudgetConstants DEF HInv, IInv, TypeOK
  <2>2. BudgetFactor * charged <= BudgetFactor * (charged + tx_budget_ms)
    BY <2>1 DEF HInv, Ledger
  <2> QED BY <2>1, <2>2 DEF HInv, Ledger, ChargedWithinDutyCycle
<1> QED BY <1>1, InitKeepsBooks, StepKeepsBooks, PTL DEF HSpec

------------------------------------------------------------------------
(* What a send may use beyond what it is charged.  The hypotheses: the radio  *)
(* reports the end of every send (one that is given up is aired and not       *)
(* charged), and a send, with what follows of the pass that notices its end,  *)
(* lasts less than half the time in which the clock comes round (else the     *)
(* difference that is charged has wrapped).                                  *)
SendsFitTheClock ==
  /\ ~TxMayHang
  /\ 3 * LongestAirtime <= W /\ LongestAirtime + MaxLag < W

(* How long the packet on the air has been there.                           *)
OnAirFor == Since(now, outbound.start)

(* While a packet is on the air the budget that admitted it is still there,   *)
(* and the packet has been there no longer than its airtime, then no longer   *)
(* than that and the pass that will notice its end.                         *)
SendRuns ==
  /\ Sending <=> radio # "listening"
  /\ Sending =>
       /\ NeededBudget <= tx_budget_ms
       /\ outbound.expiry = FutureMillis(outbound.start, (outbound.air * 3) \div 2)
       /\ radio = "sending" => OnAirFor <= outbound.air
       /\ radio = "sent" => outbound.air <= OnAirFor /\ OnAirFor <= outbound.air + lag

Overdraft ==
  /\ charged \in Nat /\ aired \in Nat
  /\ AiredWithinOverdraft

OInv == HInv /\ SendRuns /\ Overdraft

(* How the unsigned difference of two small numbers is computed.             *)
LEMMA SmallMod == \A x \in (1 - W) .. (W - 1) : x % W = IF x < 0 THEN x + W ELSE x
BY ClockSize

(* Short of the wrap, a tick adds one to the time since b.                   *)
LEMMA TickCounts ==
  ASSUME NEW t \in Clock, NEW b \in Clock, Since(t, b) + 1 < W
  PROVE  Since((t + 1) % W, b) = Since(t, b) + 1
<1> DEFINE u == (t + 1) % W
<1>1. W \in Nat /\ W > 1 /\ t \in 0 .. (W - 1) /\ b \in 0 .. (W - 1)
  BY ClockSize DEF Clock
<1>2. u = IF t + 1 = W THEN 0 ELSE t + 1
  BY <1>1
<1>3. u \in 0 .. (W - 1)
  BY <1>1, <1>2
<1> HIDE DEF u
<1>4. t - b \in (1 - W) .. (W - 1) /\ u - b \in (1 - W) .. (W - 1)
  BY <1>1, <1>3
<1>5. /\ Since(t, b) = IF t - b < 0 THEN t - b + W ELSE t - b
      /\ Since(u, b) = IF u - b < 0 THEN u - b + W ELSE u - b
  BY <1>4, SmallMod DEF Since
<1>6. Since(u, b) = Since(t, b) + 1
  BY <1>1, <1>2, <1>5
<1> QED BY <1>6 DEF u

(* A deadline e after b is not past while at most e has gone by since b, if   *)
(* e is at most half the clock.                                             *)
LEMMA NotYetPassed ==
  ASSUME NEW t \in Clock, NEW b \in Clock, NEW e \in Nat,
         2 * e <= W, Since(t, b) <= e
  PROVE  ~MillisHasNowPassed(t, FutureMillis(b, e))
<1> DEFINE f == FutureMillis(b, e)
<1>1. W \in Nat /\ W > 1 /\ t \in 0 .. (W - 1) /\ b \in 0 .. (W - 1)
  BY ClockSize DEF Clock
<1>2. f = IF b + e >= W THEN b + e - W ELSE b + e
  <2>1. CASE b + e < W
    <3>1. b + e \in (1 - W) .. (W - 1)
      BY <1>1, <2>1
    <3> QED BY <1>1, <2>1, <3>1, SmallMod DEF FutureMillis
  <2>2. CASE ~(b + e < W)
    <3>1. b + e - W \in 0 .. (W - 1)
      BY <1>1, <2>2
    <3>2. (b + e) % W = b + e - W
      BY <1>1, <3>1
    <3> QED BY <1>1, <2>2, <3>2 DEF FutureMillis
  <2> QED BY <2>1, <2>2
<1>3. f \in 0 .. (W - 1)
  BY <1>1, <1>2
<1> HIDE DEF f
<1>4. t - b \in (1 - W) .. (W - 1) /\ t - f \in (1 - W) .. (W - 1)
  BY <1>1, <1>3
<1>5. /\ Since(t, b) = IF t - b < 0 THEN t - b + W ELSE t - b
      /\ Since(t, f) = IF t - f < 0 THEN t - f + W ELSE t - f
  BY <1>4, SmallMod DEF Since
<1>6. Since(t, f) = 0 \/ 2 * Since(t, f) >= W
  BY <1>1, <1>2, <1>5
<1> QED BY <1>1, <1>3, <1>5, <1>6 DEF MillisHasNowPassed, After, f

(* The three-halves of an airtime that a send is given at most.             *)
LEMMA Halves ==
  ASSUME NEW a \in Nat
  PROVE  /\ (a * 3) \div 2 \in Nat
         /\ a <= (a * 3) \div 2 /\ 2 * ((a * 3) \div 2) <= 3 * a
OBVIOUS

(* updateTxBudget never takes budget away.                                  *)
LEMMA UpdateOnlyAdds ==
  ASSUME TypeOK
  PROVE  tx_budget_ms <= UpdatedBudget
<1>1. MaxBudget \in Nat /\ tx_budget_ms \in 0 .. MaxBudget
  BY BudgetType DEF TypeOK
<1>2. Refill \in Nat
  BY BudgetConstants, Shares, SinceIsNat DEF Refill, TypeOK
<1> QED BY <1>1, <1>2 DEF UpdatedBudget, MinOf

(* What is known of the packet on the air.                                  *)
LEMMA OnTheAir ==
  ASSUME TypeOK, Sending
  PROVE  /\ outbound.start \in Clock /\ outbound.air \in Nat
         /\ outbound.air <= LongestAirtime /\ OnAirFor \in Nat
<1>1. outbound.start \in Clock /\ outbound.air \in Airtime
  BY DEF TypeOK, Sending, Outbound
<1> QED BY <1>1, DelayConstants, HistoryBounds, SinceIsNat DEF OnAirFor, TypeOK

LEMMA TickRuns ==
  ASSUME SendsFitTheClock, TypeOK, SendRuns, Tick
  PROVE  SendRuns'
<1>1. /\ now' = (now + 1) % W /\ lag' = lag + 1 /\ lag < MaxLag
      /\ UNCHANGED <<outbound, radio, tx_budget_ms>> /\ Sending' = Sending
      /\ radio = "sending" => ~OnAirLongEnough
  BY DEF Tick, radioVars, budgetVars, Sending, SendsFitTheClock
<1>2. CASE ~Sending
  BY <1>1, <1>2 DEF SendRuns
<1>3. CASE Sending
  <2>1. /\ outbound.start \in Clock /\ outbound.air \in Nat /\ now \in Clock
        /\ outbound.air <= LongestAirtime /\ OnAirFor \in Nat
    BY <1>3, OnTheAir DEF TypeOK
  <2>2. lag \in Nat /\ MaxLag \in Nat /\ LongestAirtime \in Nat /\ W \in Nat
    BY EnvironmentBounds, HistoryBounds, ClockSize DEF TypeOK
  <2>3. /\ radio = "sending" => OnAirFor < outbound.air
        /\ radio = "sent" => outbound.air <= OnAirFor /\ OnAirFor <= outbound.air + lag
    BY <1>1, <1>3, <2>1 DEF SendRuns, OnAirLongEnough, OnAirFor
  <2>4. radio \in {"sending", "sent"}
    BY <1>3 DEF TypeOK, SendRuns
  <2>5. OnAirFor + 1 < W
    BY <1>1, <2>1, <2>2, <2>3, <2>4 DEF SendsFitTheClock
  <2>6. OnAirFor' = OnAirFor + 1
    BY <1>1, <2>1, <2>5, TickCounts DEF OnAirFor
  <2>7. /\ radio = "sending" => OnAirFor' <= outbound.air
        /\ radio = "sent" => outbound.air <= OnAirFor' /\ OnAirFor' <= outbound.air + lag'
    BY <1>1, <2>1, <2>2, <2>3, <2>6
  <2> QED BY <1>1, <1>3, <2>7 DEF SendRuns
<1> QED BY <1>2, <1>3

(* A send that starts is under way.                                         *)
LEMMA StartIsSending ==
  ASSUME TypeOK, NEW i \in DOMAIN mgr.send, StartSend(i, TRUE)
  PROVE  Sending'
<1>1. PICK a \in Airtime :
        outbound' = [pkt |-> mgr.send[i].pkt, start |-> now,
                     expiry |-> FutureMillis(now, (a * 3) \div 2), air |-> a]
  BY DEF StartSend
<1>2. mgr.send[i].pkt \in Packet /\ now \in Clock
  <2>1. mgr.send \in Seq(Entry)
    BY DEF TypeOK, Manager, Queue
  <2>2. mgr.send[i] \in Entry
    BY <2>1
  <2> QED BY <2>2 DEF Entry, TypeOK
<1>3. FutureMillis(now, (a * 3) \div 2) \in Clock
  BY <1>2, DelayConstants, Halves, FutureIsClock
<1> QED BY <1>1, <1>2, <1>3, NoPacketIsNone DEF Sending, Outbound

LEMMA StartRuns ==
  ASSUME TypeOK, SendRuns, ~Sending, CheckSend
  PROVE  SendRuns'
<1>1. CASE UNCHANGED <<outbound, radio>>
  BY <1>1 DEF SendRuns, Sending
<1>2. ASSUME TrySend, NEW i \in DOMAIN mgr.send, StartSend(i, TRUE)
      PROVE  SendRuns'
  <2>1. PICK a \in Airtime :
          outbound' = [pkt |-> mgr.send[i].pkt, start |-> now,
                       expiry |-> FutureMillis(now, (a * 3) \div 2), air |-> a]
    BY <1>2 DEF StartSend
  <2>2. /\ radio' = "sending" /\ now' = now /\ tx_budget_ms' = UpdatedBudget
        /\ ~BudgetLow
    BY <1>2 DEF StartSend, TrySend, MayTry, Admitted
  <2>3. NeededBudget <= UpdatedBudget /\ NeededBudget' = NeededBudget
    BY <2>2, NeededType, BudgetType DEF BudgetLow, NeededBudget
  <2>4. OnAirFor' = 0 /\ a \in Nat
    BY <2>1, <2>2, SinceItself, DelayConstants DEF OnAirFor, TypeOK
  <2>5. Sending'
    BY <1>2, StartIsSending
  <2>6. /\ outbound'.start = now /\ outbound'.air = a
        /\ outbound'.expiry = FutureMillis(now, (a * 3) \div 2)
    BY <2>1
  <2> QED BY <2>2, <2>3, <2>4, <2>5, <2>6 DEF SendRuns
<1>3. CASE TrySend
  <2>1. CASE UNCHANGED <<mgr, outbound, radioVars>>
    BY <1>1, <2>1 DEF radioVars
  <2>2. CASE \E i \in DOMAIN mgr.send, started \in StartResult : StartSend(i, started)
    <3>1. PICK i \in DOMAIN mgr.send, started \in StartResult : StartSend(i, started)
      BY <2>2
    <3>2. CASE started = TRUE
      BY <1>2, <1>3, <3>1, <3>2
    <3>3. CASE started = FALSE
      BY <1>1, <3>1, <3>3 DEF StartSend, radioVars
    <3> QED BY <3>2, <3>3, EnvironmentBounds
  <2> QED BY <1>3, <2>1, <2>2 DEF TrySend
<1>4. CASE ~TrySend
  BY <1>1, <1>4 DEF CheckSend, NothingToSend, BudgetTooLow, TooSoon, DeferredByCAD, radioVars
<1> QED BY <1>3, <1>4

LEMMA SendRunsStep ==
  ASSUME SendsFitTheClock, IInv, SendRuns, Next
  PROVE  SendRuns'
<1>0. TypeOK
  BY DEF IInv
<1>1. CASE Tick
  BY <1>0, <1>1, TickRuns
<1>2. CASE RadioTxDone
  <2>1. /\ radio = "sending" /\ radio' = "sent" /\ OnAirFor >= outbound.air
        /\ UNCHANGED <<now, lag, outbound, tx_budget_ms>>
    BY <1>2 DEF RadioTxDone, OnAirLongEnough, OnAirFor, budgetVars
  <2>2. Sending /\ Sending' /\ OnAirFor' = OnAirFor /\ OnAirFor <= outbound.air
    BY <2>1 DEF SendRuns, Sending, OnAirFor
  <2>3. outbound.air \in Nat /\ OnAirFor \in Nat /\ lag \in Nat
    BY <1>0, <2>2, OnTheAir, EnvironmentBounds DEF TypeOK
  <2> QED BY <2>1, <2>2, <2>3 DEF SendRuns
<1>3. CASE ChannelChanges \/ App \/ LoopInbound \/ CheckRecv
  <2>1. UNCHANGED <<now, lag, outbound, radio, tx_budget_ms>>
    BY <1>3 DEF ChannelChanges, App, AppSend, AppHold, AppRelease, LoopInbound, CheckRecv,
                radioVars, budgetVars
  <2> QED BY <2>1 DEF SendRuns, Sending, OnAirFor
<1>4. CASE LoopOutbound
  <2>1. CASE outbound' = NoPacket /\ radio' = "listening"
    BY <2>1 DEF SendRuns, Sending
  <2>2. CASE ~Sending /\ UNCHANGED <<outbound, radio>>
    BY <2>2 DEF SendRuns, Sending
  <2> QED BY <1>4, <2>1, <2>2 DEF LoopOutbound
<1>5. CASE LoopReturnsEarly
  BY <1>5 DEF LoopReturnsEarly, SendRuns, Sending, OnAirFor, radioVars, budgetVars
<1>6. CASE CheckSend
  <2>1. ~Sending
    BY <1>6 DEF CheckSend, NothingToSend, BudgetTooLow, TooSoon, DeferredByCAD, TrySend, EndPass,
                IInv, FreeToSend
  <2> QED BY <1>0, <1>6, <2>1, StartRuns
<1> QED BY <1>1, <1>2, <1>3, <1>4, <1>5, <1>6 DEF Next, Loop

(* Nobody gives a packet on the air up while the radio reports its end.      *)
LEMMA NoSendTimesOut ==
  ASSUME SendsFitTheClock, TypeOK, SendRuns
  PROVE  ~SendTimedOut
<1> SUFFICES ASSUME Sending, radio # "sent"
             PROVE  ~MillisHasNowPassed(now, outbound.expiry)
  BY DEF SendTimedOut
<1> DEFINE e == (outbound.air * 3) \div 2
<1>1. /\ outbound.start \in Clock /\ outbound.air \in Nat /\ now \in Clock
      /\ outbound.air <= LongestAirtime /\ OnAirFor \in Nat
  BY OnTheAir DEF TypeOK
<1>2. e \in Nat /\ outbound.air <= e /\ 2 * e <= 3 * outbound.air
  BY <1>1, Halves
<1>3. OnAirFor <= outbound.air /\ outbound.expiry = FutureMillis(outbound.start, e)
  BY DEF SendRuns, TypeOK
<1> HIDE DEF e
<1>4. OnAirFor <= e /\ 2 * e <= W
  BY <1>1, <1>2, <1>3, HistoryBounds, ClockSize DEF SendsFitTheClock
<1> QED BY <1>1, <1>2, <1>3, <1>4, NotYetPassed DEF OnAirFor

(* A send that ends is charged its airtime, or else at least the budget that  *)
(* admitted it.                                                             *)
LEMMA ChargeCovers ==
  ASSUME TypeOK, SendRuns, SendComplete
  PROVE  LET charge == UpdatedBudget - tx_budget_ms'
         IN  /\ charge \in Nat
             /\ charge >= outbound.air \/ charge >= NeededBudget
<1>1. /\ outbound.air \in Nat /\ OnAirFor \in Nat /\ outbound.air <= OnAirFor
      /\ NeededBudget <= tx_budget_ms
  BY OnTheAir DEF SendRuns, SendComplete
<1>2. UpdatedBudget \in Nat /\ NeededBudget \in Nat /\ NeededBudget <= UpdatedBudget
  <2>1. tx_budget_ms \in Nat
    BY BudgetType DEF TypeOK
  <2> QED BY <1>1, <2>1, BudgetType, NeededType, UpdateOnlyAdds
<1>3. tx_budget_ms' = IF OnAirFor > UpdatedBudget THEN 0 ELSE UpdatedBudget - OnAirFor
  BY DEF SendComplete, OnAirFor
<1> QED BY <1>1, <1>2, <1>3

(* Either way the charge is worth the overdraft.                            *)
LEMMA ChargeIsWorth ==
  ASSUME NEW N \in Nat, NEW L \in Nat, NEW a \in Nat, NEW c \in Nat,
         N <= L, a <= L, c >= a \/ c >= N
  PROVE  N * a <= L * c
<1>1. CASE c >= a
  <2>1. N * a <= L * a
    BY <1>1
  <2>2. L * a <= L * c
    BY <1>1
  <2> QED BY <2>1, <2>2
<1>2. CASE c >= N
  <2>1. N * a <= N * L
    BY <1>2
  <2>2. N * L <= L * c
    BY <1>2
  <2> QED BY <2>1, <2>2
<1> QED BY <1>1, <1>2

(* Only part 1 of loop() ends a send.                                       *)
LEMMA SendEnds ==
  ASSUME SendsFitTheClock, IInv, SendRuns, Next, Sending, outbound' = NoPacket
  PROVE  SendComplete
<1>1. CASE Tick \/ RadioTxDone \/ ChannelChanges \/ App \/ LoopReturnsEarly
           \/ LoopInbound \/ CheckRecv
  BY <1>1 DEF Tick, RadioTxDone, ChannelChanges, App, AppSend, AppHold, AppRelease,
              LoopReturnsEarly, LoopInbound, CheckRecv, Sending
<1>2. CASE LoopOutbound
  BY <1>2, NoSendTimesOut DEF LoopOutbound, IInv
<1>3. CASE CheckSend
  BY <1>3 DEF CheckSend, NothingToSend, BudgetTooLow, TooSoon, DeferredByCAD, TrySend, EndPass,
              IInv, FreeToSend
<1> QED BY <1>1, <1>2, <1>3 DEF Next, Loop

LEMMA OverdraftStep ==
  ASSUME SendsFitTheClock, OInv, HNext
  PROVE  Overdraft'
<1>1. /\ IInv /\ TypeOK /\ SendRuns /\ Next /\ WatchAirtime
      /\ charged \in Nat /\ aired \in Nat
      /\ NeededBudget * aired <= LongestAirtime * charged
  BY DEF OInv, HInv, IInv, Overdraft, HNext, AiredWithinOverdraft
<1>2. CASE ~(Sending /\ outbound' = NoPacket)
  <2>1. charged' = charged /\ aired' = aired
    BY <1>1, <1>2 DEF WatchAirtime
  <2> QED BY <1>1, <2>1 DEF Overdraft, AiredWithinOverdraft, NeededBudget
<1>3. CASE Sending /\ outbound' = NoPacket
  <2> DEFINE c == UpdatedBudget - tx_budget_ms'
             a == outbound.air
             N == NeededBudget
             L == LongestAirtime
  <2>1. SendComplete
    BY <1>1, <1>3, SendEnds
  <2>2. c \in Nat /\ (c >= a \/ c >= N)
    BY <1>1, <2>1, ChargeCovers
  <2>3. a \in Nat /\ a <= L /\ N \in Nat /\ L \in Nat /\ N <= L
    BY <1>1, <1>3, OnTheAir, NeededType, HistoryBounds
  <2>4. charged' = charged + c /\ aired' = aired + a
    <3>1. charged' = charged + UpdatedBudget - tx_budget_ms' /\ aired' = aired + a
      BY <1>1, <1>3, <2>1 DEF WatchAirtime, SendComplete
    <3>2. UpdatedBudget \in Nat /\ tx_budget_ms' \in Int
      <4>1. outbound.start \in Clock
        BY <1>1, <1>3, OnTheAir
      <4>2. Since(now, outbound.start) \in Nat /\ UpdatedBudget \in Nat
        BY <1>1, <4>1, SinceIsNat, BudgetType DEF TypeOK
      <4> QED BY <2>1, <4>2 DEF SendComplete
    <3> QED BY <1>1, <3>1, <3>2
  <2> HIDE DEF c, a, N, L
  <2>5. N * a <= L * c
    BY <2>2, <2>3, ChargeIsWorth
  <2>6. N * (aired + a) = N * aired + N * a /\ L * (charged + c) = L * charged + L * c
    BY <1>1, <2>2, <2>3
  <2>7. /\ N * aired \in Int /\ N * a \in Int /\ L * charged \in Int /\ L * c \in Int
    BY <1>1, <2>2, <2>3
  <2>8. N * aired <= L * charged
    BY <1>1 DEF N, L
  <2>9. N * (aired + a) <= L * (charged + c)
    BY <2>5, <2>6, <2>7, <2>8
  <2>10. charged' \in Nat /\ aired' \in Nat
    BY <1>1, <2>2, <2>3, <2>4
  <2> QED BY <2>4, <2>9, <2>10 DEF Overdraft, AiredWithinOverdraft, NeededBudget, N, L
<1> QED BY <1>2, <1>3

(* The airtime a node uses exceeds what it was charged for by at most the     *)
(* ratio of the longest airtime to the half MTU that admits a send, however   *)
(* late isSendComplete() is polled and however often the clock wraps.         *)
THEOREM AirtimeIsCharged ==
  ASSUME SendsFitTheClock
  PROVE  HSpec => []AiredWithinOverdraft
<1>1. HInit => OInv
  <2> SUFFICES ASSUME HInit PROVE OInv
    OBVIOUS
  <2>1. HInv
    BY InitKeepsBooks
  <2>2. ~Sending /\ radio = "listening" /\ charged = 0 /\ aired = 0
    BY DEF HInit, Init, Sending
  <2>3. NeededBudget * 0 <= LongestAirtime * 0
    BY NeededType, HistoryBounds
  <2> QED BY <2>1, <2>2, <2>3 DEF OInv, SendRuns, Overdraft, AiredWithinOverdraft
<1>2. OInv /\ [HNext]_hvars => OInv'
  <2> SUFFICES ASSUME OInv, [HNext]_hvars PROVE OInv'
    OBVIOUS
  <2>1. HInv'
    BY StepKeepsBooks DEF OInv
  <2>2. CASE HNext
    <3>1. SendRuns'
      BY <2>2, SendRunsStep DEF OInv, HInv, HNext
    <3>2. Overdraft'
      BY <2>2, OverdraftStep
    <3> QED BY <2>1, <3>1, <3>2 DEF OInv
  <2>3. CASE UNCHANGED hvars
    <3>1. UNCHANGED <<now, lag, outbound, radio, tx_budget_ms, charged, aired>>
      BY <2>3 DEF hvars, vars, ledger, radioVars, budgetVars
    <3> QED BY <2>1, <3>1 DEF OInv, SendRuns, Overdraft, AiredWithinOverdraft, Sending, OnAirFor,
                              NeededBudget
  <2> QED BY <2>2, <2>3
<1>3. OInv => AiredWithinOverdraft
  BY DEF OInv, Overdraft
<1> QED BY <1>1, <1>2, <1>3, PTL DEF HSpec

------------------------------------------------------------------------
(* A ready queue sends within Patience.  The hypotheses: no timer gets half   *)
(* the clock away from it (MCIdleTimerDoc.cfg shows what happens then) and    *)
(* the clock has left zero, which cad_busy_start takes for `not busy'; the    *)
(* bucket can hold what a send is admitted on; the radio starts every send.  *)
ClockFits == \A b \in BootTime : 0 < b /\ 2 * (b + Horizon + Patience) < W
SendsAreAdmitted == NeededBudget <= MaxBudget /\ FALSE \notin StartResult

(* Where the timers are: none lies further ahead than the line that set it    *)
(* said, which is by what the bucket needs or within the wait for a channel. *)
OnTime ==
  /\ uptime \in 0 .. Horizon /\ now - uptime \in BootTime
  /\ last_budget_update <= now /\ cad_busy_start <= now
  /\ \/ next_tx_time <= now + BudgetWait
     \/ /\ cad_busy_start # 0
        /\ next_tx_time <= cad_busy_start + CADMaxDuration + LongestRetry

Waiting == Due(mgr.send, now) # {} /\ ~Sending

(* The readings of the clock when the queue became ready, when checkSend was  *)
(* last called, and when the bucket and the timer will have let it through.  *)
ReadyAt == now - uptime + waiting_since
LastCheck == now - lag
Allowed == ReadyAt + BudgetWait

(* The bucket fills in time: it has not been looked at since the queue became *)
(* ready, or holds enough, or what it lacks will have come at the slowest    *)
(* rate, counted from its last refill.                                      *)
BudgetComes ==
  \/ LastCheck <= ReadyAt /\ last_budget_update <= ReadyAt
  \/ NeededBudget <= tx_budget_ms
  \/ /\ LastCheck < last_budget_update + BudgetFactor
     /\ last_budget_update + SlowestUnit * (NeededBudget - tx_budget_ms)
          <= ReadyAt + SlowestUnit * NeededBudget

TimerComes ==
  \/ next_tx_time <= Allowed
  \/ /\ cad_busy_start # 0
     /\ next_tx_time <= cad_busy_start + CADMaxDuration + LongestRetry

(* The wait for the channel starts with the first call that may send.        *)
ChannelComes ==
  /\ cad_busy_start <= Allowed + MaxLag
  /\ cad_busy_start = 0 => LastCheck <= Allowed
  /\ LastCheck <= Allowed + MaxLag + CADMaxDuration + LongestRetry

WaitEnds ==
  /\ Waiting => waiting_since \in 0 .. uptime /\ BudgetComes /\ TimerComes /\ ChannelComes
  /\ ~Waiting => waiting_since = Horizon

WInv == IInv /\ OnTime /\ WaitEnds

(* The waits are natural numbers, and BudgetWait covers each of its parts.   *)
LEMMA Waits ==
  /\ BudgetFactor \in Nat \ {0} /\ MinReserve \in Nat /\ NeededBudget \in Nat
  /\ MaxLag \in Nat \ {0} /\ CADMaxDuration \in Nat /\ LongestRetry \in Nat
  /\ SlowestUnit \in Nat /\ SlowestUnit = BudgetFactor + MaxLag - 1
  /\ SlowestUnit * NeededBudget \in Nat /\ BudgetFactor * MinReserve \in Nat
  /\ BudgetWait \in Nat /\ BudgetFactor * MinReserve <= BudgetWait
  /\ SlowestUnit * NeededBudget + BudgetFactor - 1 <= BudgetWait
  /\ Patience \in Nat
  /\ Patience = BudgetWait + CADMaxDuration + LongestRetry + 2 * MaxLag
<1>1. /\ BudgetFactor \in Nat \ {0} /\ MinReserve \in Nat /\ NeededBudget \in Nat
      /\ MaxLag \in Nat \ {0} /\ CADMaxDuration \in Nat /\ LongestRetry \in Nat
  BY BudgetConstants, NeededType, EnvironmentBounds, DelayConstants, HistoryBounds
<1>2. SlowestUnit \in Nat /\ SlowestUnit = BudgetFactor + MaxLag - 1
  BY <1>1 DEF SlowestUnit
<1>3. SlowestUnit * NeededBudget \in Nat /\ BudgetFactor * MinReserve \in Nat
  BY <1>1, <1>2
<1>4. /\ BudgetWait \in Nat /\ BudgetFactor * MinReserve <= BudgetWait
      /\ SlowestUnit * NeededBudget + BudgetFactor - 1 <= BudgetWait
  BY <1>1, <1>3 DEF BudgetWait
<1> QED BY <1>1, <1>2, <1>3, <1>4 DEF Patience

(* Part of what the bucket needs never takes longer than all of it.          *)
LEMMA PartOfBudget ==
  ASSUME NEW m \in 0 .. NeededBudget
  PROVE  /\ BudgetFactor * m \in Nat /\ SlowestUnit * m \in Nat
         /\ BudgetFactor * m <= SlowestUnit * m
         /\ SlowestUnit * m <= SlowestUnit * NeededBudget
         /\ m # 0 => /\ SlowestUnit * (m - 1) = SlowestUnit * m - SlowestUnit
                     /\ SlowestUnit <= SlowestUnit * m
<1> DEFINE F == BudgetFactor
           G == SlowestUnit
           N == NeededBudget
<1>1. F \in Nat /\ G \in Nat /\ F <= G /\ N \in Nat /\ m \in Nat /\ m <= N
  BY Waits
<1> HIDE DEF F, G, N
<1>2. F * m \in Nat /\ G * m \in Nat /\ F * m <= G * m /\ G * m <= G * N
  BY <1>1
<1>3. m # 0 => G * (m - 1) = G * m - G /\ G <= G * m
  BY <1>1
<1> QED BY <1>2, <1>3 DEF F, G, N

(* Short of half the clock its readings are numbers: differences do not wrap. *)
LEMMA ClockReads ==
  ASSUME ClockFits, TypeOK, OnTime
  PROVE  /\ now \in Nat /\ 0 < now /\ 2 * (now + Patience) < W
         /\ Since(now, last_budget_update) = now - last_budget_update
         /\ Since(now, cad_busy_start) = now - cad_busy_start
         /\ \A d \in 0 .. Patience : FutureMillis(now, d) = now + d
         /\ MillisHasNowPassed(now, next_tx_time) <=> next_tx_time < now
<1>1. /\ W \in Nat /\ now \in 0 .. (W - 1) /\ last_budget_update \in 0 .. (W - 1)
      /\ cad_busy_start \in 0 .. (W - 1) /\ next_tx_time \in 0 .. (W - 1)
  BY ClockSize DEF TypeOK, Clock
<1>2. Patience \in Nat /\ BudgetWait \in Nat /\ CADMaxDuration \in Nat /\ LongestRetry \in Nat
      /\ Patience >= BudgetWait + CADMaxDuration + LongestRetry
  BY Waits
<1>3. 0 < now /\ 2 * (now + Patience) < W
  <2> DEFINE b == now - uptime
  <2>1. b \in BootTime /\ uptime \in 0 .. Horizon
    BY DEF OnTime
  <2>2. b \in Nat /\ Horizon \in Nat
    BY <2>1, EnvironmentBounds, ClockIsNat, HistoryBounds
  <2>3. 0 < b /\ 2 * (b + Horizon + Patience) < W
    BY <2>1 DEF ClockFits
  <2>4. now = b + uptime
    BY <1>1, <2>1
  <2> HIDE DEF b
  <2> QED BY <1>1, <1>2, <2>1, <2>2, <2>3, <2>4
<1>4. next_tx_time <= now + Patience /\ last_budget_update <= now /\ cad_busy_start <= now
  BY <1>1, <1>2 DEF OnTime
<1>5. \A t \in 0 .. (W - 1) : Since(now, t) = IF now - t < 0 THEN now - t + W ELSE now - t
  <2> TAKE t \in 0 .. (W - 1)
  <2>1. now - t \in (1 - W) .. (W - 1)
    BY <1>1
  <2> QED BY <2>1, SmallMod DEF Since
<1>6. ASSUME NEW d \in 0 .. Patience
      PROVE  FutureMillis(now, d) = now + d
  <2>1. now + d \in (1 - W) .. (W - 1) /\ now + d >= 0
    BY <1>1, <1>2, <1>3
  <2> QED BY <1>1, <1>2, <2>1, SmallMod DEF FutureMillis
<1>7. MillisHasNowPassed(now, next_tx_time) <=> next_tx_time < now
  <2>1. Since(now, next_tx_time) =
          IF now - next_tx_time < 0 THEN now - next_tx_time + W ELSE now - next_tx_time
    BY <1>1, <1>5
  <2> QED BY <1>1, <1>2, <1>3, <1>4, <2>1 DEF MillisHasNowPassed, After
<1> QED BY <1>1, <1>3, <1>4, <1>5, <1>6, <1>7

(* Uptime counts the ticks, and no tick wraps.                              *)
LEMMA ClockSteps ==
  ASSUME ClockFits, TypeOK, OnTime, HNext
  PROVE  /\ uptime' \in 0 .. Horizon /\ now' - uptime' = now - uptime
         /\ now' \in Nat /\ now <= now' /\ uptime <= uptime' /\ uptime \in Nat
         /\ \/ now' = now /\ uptime' = uptime
            \/ now' = now + 1 /\ Tick
<1>1. now \in Nat /\ 2 * (now + Patience) < W /\ Patience \in Nat /\ Patience >= 2 /\ W \in Nat
  BY ClockReads, Waits, ClockSize
<1>2. uptime \in 0 .. Horizon /\ Horizon \in Nat
  BY HistoryBounds DEF OnTime
<1>3. CASE now' = now
  BY <1>1, <1>2, <1>3 DEF HNext, WatchClock
<1>4. CASE now' # now
  <2>1. Tick
    BY <1>4 DEF HNext, Next, RadioTxDone, ChannelChanges, App, AppSend, AppHold, AppRelease,
                Loop, LoopOutbound, LoopReturnsEarly, LoopInbound, CheckRecv, CheckSend,
                NothingToSend, BudgetTooLow, TooSoon, DeferredByCAD, TrySend
  <2>2. now' = (now + 1) % W
    BY <2>1 DEF Tick
  <2>3. now + 1 \in (1 - W) .. (W - 1)
    BY <1>1
  <2>4. now' = now + 1
    BY <1>1, <2>2, <2>3
  <2>5. uptime' = uptime + 1 /\ uptime' <= Horizon
    BY <1>4 DEF HNext, WatchClock
  <2> QED BY <1>1, <1>2, <2>1, <2>4, <2>5
<1> QED BY <1>3, <1>4

(* A check that finds too little budget waits for what is missing.           *)
LEMMA TimerForBudget ==
  ASSUME ClockFits, TypeOK, OnTime, NEW missing \in Nat,
         missing <= MinReserve \/ missing <= NeededBudget
  PROVE  /\ WhenRefilled(missing) = now + BudgetFactor * missing
         /\ BudgetFactor * missing <= BudgetWait
<1>1. BudgetFactor * missing \in 0 .. BudgetWait
  <2>1. CASE missing <= MinReserve
    <3>1. BudgetFactor * missing <= BudgetFactor * MinReserve /\ BudgetFactor * missing \in Nat
      BY <2>1, Waits
    <3> QED BY <3>1, Waits
  <2>2. CASE missing <= NeededBudget
    <3>1. missing \in 0 .. NeededBudget
      BY <2>2, Waits
    <3> QED BY <3>1, PartOfBudget, Waits
  <2> QED BY <2>1, <2>2
<1>2. missing * BudgetFactor = BudgetFactor * missing
  BY Waits
<1>3. BudgetFactor * missing \in 0 .. Patience
  BY <1>1, Waits
<1> QED BY <1>1, <1>2, <1>3, ClockReads DEF WhenRefilled

(* A deferral notes since when the channel is busy, and ends before the       *)
(* longest retry after the longest wait for it.                             *)
LEMMA Deferral ==
  ASSUME ClockFits, TypeOK, OnTime, DeferredByCAD
  PROVE  /\ now' = now /\ cad_busy_start' # 0 /\ cad_busy_start' <= now
         /\ cad_busy_start' = IF cad_busy_start = 0 THEN now ELSE cad_busy_start
         /\ now <= cad_busy_start' + CADMaxDuration
         /\ next_tx_time' <= cad_busy_start' + CADMaxDuration + LongestRetry
         /\ next_tx_time < now
<1>1. /\ cad_busy_start' = CADBusySince /\ ~CADTimedOut /\ now' = now
      /\ MillisHasNowPassed(now, next_tx_time)
  BY DEF DeferredByCAD, MayTry
<1>2. PICK d \in CADRetryDelay : next_tx_time' = FutureMillis(now, d)
  BY DEF DeferredByCAD
<1>3. now \in Nat /\ 0 < now /\ cad_busy_start \in Nat /\ cad_busy_start <= now
  BY ClockReads, ClockIsNat DEF TypeOK, OnTime
<1>4. d \in 0 .. Patience /\ d <= LongestRetry
  BY Waits, HistoryBounds, DelayConstants
<1>5. next_tx_time' = now + d
  BY <1>2, <1>4, ClockReads
<1>6. Since(now, CADBusySince) = now - CADBusySince
  BY <1>3, ClockReads, SinceItself DEF CADBusySince, TypeOK
<1>7. CADBusySince = IF cad_busy_start = 0 THEN now ELSE cad_busy_start
  BY DEF CADBusySince
<1>8. now <= CADBusySince + CADMaxDuration
  BY <1>1, <1>3, <1>6, <1>7, Waits DEF CADTimedOut
<1> QED BY <1>1, <1>3, <1>4, <1>5, <1>7, <1>8, Waits, ClockReads

(* updateTxBudget: the clock is read when something is refilled, and what is   *)
(* left of the time is less than one unit's share.                          *)
LEMMA Refills ==
  ASSUME ClockFits, TypeOK, OnTime
  PROVE  /\ UpdatedBudget \in Nat /\ tx_budget_ms \in Nat /\ UpdatedAt <= now /\ UpdatedAt \in Nat
         /\ now < UpdatedAt + BudgetFactor
         /\ \/ UpdatedBudget = tx_budget_ms /\ UpdatedAt = last_budget_update
            \/ /\ UpdatedAt = now
               /\ UpdatedBudget > tx_budget_ms \/ UpdatedBudget = MaxBudget
<1> DEFINE s == now - last_budget_update
           F == BudgetFactor
<1>1. s \in Nat /\ F \in Nat \ {0} /\ now \in Nat /\ last_budget_update \in Nat
  BY ClockReads, Waits, ClockIsNat DEF TypeOK, OnTime
<1>2. Refill = s \div F
  BY ClockReads DEF Refill
<1> HIDE DEF s, F
<1>3. Refill \in Nat /\ (~(Refill > 0) => s < F)
  BY <1>1, <1>2
<1>4. MaxBudget \in Nat /\ UpdatedBudget \in Nat /\ tx_budget_ms \in Nat
  BY BudgetType DEF TypeOK
<1>5. CASE Refill > 0
  <2>1. UpdatedAt = now /\ UpdatedBudget \in {tx_budget_ms + Refill, MaxBudget}
    BY <1>5 DEF UpdatedAt, UpdatedBudget, MinOf
  <2> QED BY <1>1, <1>3, <1>4, <1>5, <2>1 DEF F
<1>6. CASE ~(Refill > 0)
  <2>1. UpdatedAt = last_budget_update /\ UpdatedBudget = tx_budget_ms
    BY <1>6 DEF UpdatedAt, UpdatedBudget
  <2>2. now < last_budget_update + BudgetFactor
    BY <1>1, <1>3, <1>6 DEF s, F
  <2> QED BY <1>1, <1>4, <2>1, <2>2 DEF OnTime
<1> QED BY <1>5, <1>6

LEMMA OnTimeStep ==
  ASSUME ClockFits, IInv, OnTime, HNext
  PROVE  OnTime'
<1>1. /\ TypeOK /\ TypeOK' /\ Next
  BY StepPreserves DEF HNext, IInv
<1>2. /\ now \in Nat /\ now' \in Nat /\ now <= now' /\ BudgetWait \in Nat
      /\ last_budget_update \in Nat /\ cad_busy_start \in Nat /\ next_tx_time \in Nat
      /\ CADMaxDuration \in Nat /\ LongestRetry \in Nat
  BY <1>1, ClockReads, ClockSteps, Waits, ClockIsNat DEF TypeOK
<1>3. /\ uptime' \in 0 .. Horizon /\ now' - uptime' \in BootTime
  BY <1>1, ClockSteps DEF OnTime
<1> SUFFICES
      /\ last_budget_update' <= now' /\ cad_busy_start' <= now'
      /\ \/ next_tx_time' <= now' + BudgetWait
         \/ /\ cad_busy_start' # 0
            /\ next_tx_time' <= cad_busy_start' + CADMaxDuration + LongestRetry
  BY <1>3 DEF OnTime, BudgetWait, NeededBudget, SlowestUnit
<1>4. CASE UNCHANGED <<last_budget_update, cad_busy_start, next_tx_time>>
  <2>1. /\ last_budget_update' = last_budget_update /\ cad_busy_start' = cad_busy_start
        /\ next_tx_time' = next_tx_time
    BY <1>4
  <2> DEFINE later == now'
  <2>2. last_budget_update <= now /\ cad_busy_start <= now /\ now <= later /\ later \in Nat
    BY <1>2 DEF OnTime
  <2> HIDE DEF later
  <2>3. /\ last_budget_update <= later /\ cad_busy_start <= later
        /\ next_tx_time <= now + BudgetWait => next_tx_time <= later + BudgetWait
    BY <1>2, <2>2
  <2> QED BY <2>1, <2>3 DEF OnTime, later
<1>5. CASE LoopOutbound /\ SendComplete
  <2>1. /\ now' = now /\ last_budget_update' = UpdatedAt /\ UNCHANGED cad_busy_start
    BY <1>5 DEF LoopOutbound, SendComplete
  <2>2. next_tx_time' <= now + BudgetWait
    <3> DEFINE t == Since(now, outbound.start)
               left == IF t > UpdatedBudget THEN 0 ELSE UpdatedBudget - t
    <3>1. t \in Nat /\ UpdatedBudget \in Nat
      <4>1. outbound.start \in Clock
        BY <1>1, <1>5, OnTheAir DEF SendComplete
      <4> QED BY <1>1, <4>1, SinceIsNat, Refills DEF TypeOK
    <3>2. next_tx_time' = IF left < MinReserve THEN WhenRefilled(MinReserve - left) ELSE now
      BY <1>5 DEF SendComplete
    <3> HIDE DEF t
    <3>3. left \in Nat
      BY <3>1
    <3> HIDE DEF left
    <3>4. CASE left < MinReserve
      <4>1. MinReserve - left \in Nat /\ MinReserve - left <= MinReserve
        BY <3>3, <3>4, Waits
      <4>2. BudgetFactor * (MinReserve - left) <= BudgetWait
        BY <1>1, <4>1, TimerForBudget
      <4>3. next_tx_time' = now + BudgetFactor * (MinReserve - left)
        BY <1>1, <3>2, <3>4, <4>1, TimerForBudget
      <4>4. BudgetFactor * (MinReserve - left) \in Int
        BY <4>1, Waits
      <4> QED BY <1>2, <4>2, <4>3, <4>4
    <3> QED BY <1>2, <3>2, <3>4
  <2> QED BY <1>1, <1>2, <2>1, <2>2, Refills DEF OnTime
<1>6. CASE BudgetTooLow
  <2>1. /\ now' = now /\ last_budget_update' = UpdatedAt /\ UNCHANGED cad_busy_start
        /\ next_tx_time' = WhenRefilled(NeededBudget - UpdatedBudget)
        /\ UpdatedBudget < NeededBudget
    BY <1>6 DEF BudgetTooLow, BudgetLow
  <2> DEFINE m == NeededBudget - UpdatedBudget
  <2>2. m \in Nat /\ m <= NeededBudget
    BY <1>1, <2>1, Refills, Waits
  <2>3. WhenRefilled(m) = now + BudgetFactor * m /\ BudgetFactor * m <= BudgetWait
    BY <1>1, <2>2, TimerForBudget
  <2>4. BudgetFactor * m \in Int
    BY <2>2, Waits
  <2> QED BY <1>1, <1>2, <2>1, <2>3, <2>4, Refills DEF OnTime
<1>7. CASE TooSoon
  <2>1. /\ now' = now /\ last_budget_update' = UpdatedAt
        /\ UNCHANGED <<cad_busy_start, next_tx_time>>
    BY <1>7 DEF TooSoon, txVars
  <2> QED BY <1>1, <1>2, <2>1, Refills DEF OnTime
<1>8. CASE DeferredByCAD
  <2>1. last_budget_update' = UpdatedAt
    BY <1>8 DEF DeferredByCAD
  <2> QED BY <1>1, <1>2, <1>8, <2>1, Deferral, Refills
<1>9. CASE TrySend
  <2>1. /\ now' = now /\ last_budget_update' = UpdatedAt /\ cad_busy_start' = 0
        /\ next_tx_time' = next_tx_time /\ MillisHasNowPassed(now, next_tx_time)
    BY <1>9 DEF TrySend, MayTry
  <2>2. next_tx_time < now
    BY <1>1, <2>1, ClockReads
  <2> QED BY <1>1, <1>2, <2>1, <2>2, Refills
<1>10. Next => \/ UNCHANGED <<last_budget_update, cad_busy_start, next_tx_time>>
               \/ LoopOutbound /\ SendComplete
               \/ BudgetTooLow \/ TooSoon \/ DeferredByCAD \/ TrySend
  BY DEF Next, Tick, RadioTxDone, ChannelChanges, App, AppSend, AppHold, AppRelease,
         Loop, LoopOutbound, SendTimedOut, LoopReturnsEarly, LoopInbound, CheckRecv, CheckSend,
         NothingToSend, txVars, budgetVars
<1> QED BY <1>1, <1>4, <1>5, <1>6, <1>7, <1>8, <1>9, <1>10

(* A queue that has just become ready has all its waits before it.           *)
LEMMA WaitStarts ==
  ASSUME TypeOK', OnTime', now' \in Nat, waiting_since' = uptime'
  PROVE  BudgetComes' /\ TimerComes' /\ ChannelComes'
<1>1. /\ uptime' \in Nat /\ lag' \in Nat /\ now' \in Nat /\ cad_busy_start' \in Nat
  BY EnvironmentBounds, HistoryBounds, ClockIsNat DEF TypeOK, OnTime
<1>2. ReadyAt' = now' /\ LastCheck' <= now' /\ LastCheck' \in Int
  <2>1. \A n, u, g \in Nat : n - u + u = n /\ n - g <= n /\ n - g \in Int
    OBVIOUS
  <2>2. ReadyAt' = now' - uptime' + uptime' /\ LastCheck' = now' - lag'
    BY DEF ReadyAt, LastCheck
  <2> QED BY <1>1, <2>1, <2>2, Zenon
<1>3. BudgetWait' = BudgetWait /\ Allowed' = now' + BudgetWait
  BY <1>2 DEF Allowed, BudgetWait, NeededBudget, SlowestUnit
<1>4. BudgetComes'
  BY <1>2 DEF OnTime, BudgetComes
<1>5. TimerComes'
  BY <1>3 DEF OnTime, TimerComes
<1>6. ChannelComes'
  <2> DEFINE cad == cad_busy_start'
             last == LastCheck'
             X == Allowed'
             n == now'
  <2>1. cad <= n /\ last <= n /\ X = n + BudgetWait /\ cad \in Nat /\ last \in Int /\ n \in Nat
    BY <1>1, <1>2, <1>3 DEF OnTime
  <2> HIDE DEF cad, last, X, n
  <2>2. /\ cad <= X + MaxLag /\ last <= X
        /\ last <= X + MaxLag + CADMaxDuration + LongestRetry
    BY <2>1, Waits
  <2> QED BY <2>2 DEF ChannelComes, cad, last, X
<1> QED BY <1>4, <1>5, <1>6

(* What a call of updateTxBudget by checkSend leaves to wait for.            *)
LEMMA BudgetCheck ==
  ASSUME ClockFits, SendsAreAdmitted, TypeOK, OnTime, BudgetComes,
         NEW w \in Int, w = ReadyAt, w <= now, UpdatedBudget < NeededBudget
  PROVE  UpdatedAt + SlowestUnit * (NeededBudget - UpdatedBudget)
           <= w + SlowestUnit * NeededBudget
<1> DEFINE u == UpdatedBudget
           t == tx_budget_ms
           N == NeededBudget
           G == SlowestUnit
           lbu == last_budget_update
<1>1. /\ u \in Nat /\ t \in Nat /\ N \in Nat /\ G \in Nat /\ UpdatedAt \in Nat /\ UpdatedAt <= now
      /\ now \in Nat /\ lbu \in Nat /\ lag \in 0 .. MaxLag /\ MaxLag \in Nat \ {0}
      /\ BudgetFactor \in Nat \ {0} /\ G = BudgetFactor + MaxLag - 1 /\ MaxBudget \in Nat
      /\ G * N \in Nat /\ u < N /\ N <= MaxBudget
  BY Refills, Waits, ClockReads, ClockIsNat, BudgetType DEF TypeOK, SendsAreAdmitted
<1>2. \/ UpdatedAt = lbu /\ u = t
      \/ UpdatedAt = now /\ t < u
  BY <1>1, Refills
<1>3. t < N
  BY <1>1, <1>2
<1>4. /\ G * (N - u) \in Nat /\ G * (N - t) \in Nat
      /\ G * (N - u) <= G * N /\ G * (N - t) <= G * N
  BY <1>1, <1>3, PartOfBudget
<1>5. /\ t < u => G * (N - u) <= G * (N - t) - G
      /\ 0 < u => G * (N - u) <= G * N - G
  <2>1. \A x, y \in Nat : x <= y => G * x <= G * y
    BY <1>1
  <2>2. t < u => G * (N - u) <= G * ((N - t) - 1)
    BY <1>1, <1>3, <2>1
  <2>3. 0 < u => G * (N - u) <= G * (N - 1)
    BY <1>1, <2>1
  <2>4. G * ((N - t) - 1) = G * (N - t) - G
    BY <1>1, <1>3, PartOfBudget
  <2>5. G * (N - 1) = G * N - G
    BY <1>1
  <2> QED BY <2>2, <2>3, <2>4, <2>5
<1>6. \/ now - lag <= w /\ lbu <= w
      \/ now - lag < lbu + BudgetFactor /\ lbu + G * (N - t) <= w + G * N
  BY <1>1, <1>3 DEF BudgetComes, LastCheck
<1> DEFINE a == G * (N - u)
           b == G * (N - t)
           c == G * N
<1>7. /\ a \in Nat /\ b \in Nat /\ c \in Nat /\ a <= c
      /\ t < u => a <= b - G /\ a <= c - G
      /\ u = t => a = b
  BY <1>1, <1>4, <1>5
<1>8. \/ now - lag <= w /\ lbu <= w
      \/ now - lag < lbu + BudgetFactor /\ lbu + b <= w + c
  BY <1>6
<1> HIDE DEF a, b, c, u, t, N, G, lbu
<1>9. UpdatedAt + a <= w + c
  <2>1. CASE UpdatedAt = lbu /\ u = t
    BY <1>1, <1>7, <1>8, <2>1
  <2>2. CASE UpdatedAt = now /\ t < u
    BY <1>1, <1>7, <1>8, <2>2
  <2> QED BY <1>2, <2>1, <2>2
<1> QED BY <1>9 DEF a, c, u, N, G

(* Between two checks nothing that is waited for moves.                      *)
LEMMA QuietWait ==
  ASSUME BudgetComes, TimerComes, ChannelComes, ReadyAt' = ReadyAt, LastCheck' = LastCheck,
         UNCHANGED <<tx_budget_ms, last_budget_update, cad_busy_start, next_tx_time>>
  PROVE  BudgetComes' /\ TimerComes' /\ ChannelComes'
<1>1. Allowed' = Allowed
  BY DEF Allowed, BudgetWait, NeededBudget, SlowestUnit
<1> QED BY <1>1 DEF BudgetComes, TimerComes, ChannelComes, NeededBudget, SlowestUnit

(* A call of checkSend that sends nothing leaves the queue to wait for what   *)
(* it found missing: budget, the timer, or the channel.                     *)
LEMMA CheckWait ==
  ASSUME ClockFits, SendsAreAdmitted, TypeOK, OnTime, Waiting, Waiting',
         BudgetComes, TimerComes, ChannelComes, waiting_since \in 0 .. uptime,
         ReadyAt' = ReadyAt, CheckSend
  PROVE  BudgetComes' /\ TimerComes' /\ ChannelComes'
<1> DEFINE w == ReadyAt
           X == w + BudgetWait
           tx == tx_budget_ms'
           lbu == last_budget_update'
           cad == cad_busy_start'
           next == next_tx_time'
           K == MaxLag
           T == CADMaxDuration + LongestRetry
<1>1. /\ now \in Nat /\ 0 < now /\ w \in Int /\ w <= now /\ lag \in 0 .. K /\ cad_busy_start \in Nat
      /\ next_tx_time \in Nat /\ BudgetWait \in Nat /\ K \in Nat /\ CADMaxDuration \in Nat
      /\ LongestRetry \in Nat /\ T \in Nat
  <2>1. now \in Nat /\ 0 < now /\ uptime \in Nat /\ waiting_since \in Nat /\ waiting_since <= uptime
    BY ClockReads, HistoryBounds DEF OnTime
  <2>2. w \in Int /\ w <= now
    BY <2>1 DEF ReadyAt
  <2> QED BY <2>1, <2>2, Waits, ClockIsNat DEF TypeOK
<1>2. ReadyAt' = w /\ Allowed' = X /\ Allowed = X /\ LastCheck' = now
  <2>1. lag' = 0 /\ now' = now
    BY DEF CheckSend, EndPass, NothingToSend, BudgetTooLow, TooSoon, DeferredByCAD, TrySend
  <2>2. LastCheck' = now - 0
    BY <2>1 DEF LastCheck
  <2> QED BY <1>1, <2>2 DEF Allowed, BudgetWait, NeededBudget, SlowestUnit
<1>3. ~NothingToSend /\ ~TrySend
  <2>1. ~NothingToSend
    BY DEF NothingToSend, AnyBefore, Due, Waiting
  <2>2. ASSUME TrySend PROVE FALSE
    <3>1. PICK i \in DOMAIN mgr.send, started \in StartResult : StartSend(i, started)
      BY <2>2 DEF TrySend, Waiting
    <3>2. started = TRUE
      BY EnvironmentBounds DEF SendsAreAdmitted
    <3> QED BY <3>1, <3>2, StartIsSending DEF Waiting
  <2> QED BY <2>1, <2>2
<1>4. tx = UpdatedBudget /\ lbu = UpdatedAt
  BY <1>3 DEF CheckSend, BudgetTooLow, TooSoon, DeferredByCAD
<1>5. BudgetComes'
  <2>1. CASE NeededBudget <= UpdatedBudget
    BY <1>4, <2>1 DEF BudgetComes, NeededBudget
  <2>2. CASE UpdatedBudget < NeededBudget
    <3>1. UpdatedAt + SlowestUnit * (NeededBudget - UpdatedBudget) <= w + SlowestUnit * NeededBudget
      BY <1>1, <2>2, BudgetCheck
    <3>2. now < UpdatedAt + BudgetFactor
      BY Refills
    <3> QED BY <1>2, <1>4, <3>1, <3>2 DEF BudgetComes, NeededBudget, SlowestUnit
  <2> QED BY <2>1, <2>2, Refills, Waits
<1> SUFFICES /\ \/ next <= X
                \/ cad # 0 /\ next <= cad + CADMaxDuration + LongestRetry
             /\ cad <= X + K
             /\ cad = 0 => now <= X
             /\ now <= X + K + CADMaxDuration + LongestRetry
  BY <1>2, <1>5 DEF TimerComes, ChannelComes
<1>6. /\ \/ next_tx_time <= X
         \/ /\ cad_busy_start # 0
            /\ next_tx_time <= cad_busy_start + CADMaxDuration + LongestRetry
      /\ cad_busy_start <= X + K
      /\ cad_busy_start = 0 => now - lag <= X
      /\ now - lag <= X + K + CADMaxDuration + LongestRetry
  BY <1>2 DEF TimerComes, ChannelComes, LastCheck
<1>7. CASE BudgetTooLow
  <2> DEFINE m == NeededBudget - UpdatedBudget
             a == BudgetFactor * m
             b == SlowestUnit * m
             c == SlowestUnit * NeededBudget
  <2>1. /\ cad = cad_busy_start /\ next = WhenRefilled(m) /\ UpdatedBudget < NeededBudget
    BY <1>7 DEF BudgetTooLow, BudgetLow
  <2>2. m \in 1 .. NeededBudget /\ m \in 0 .. NeededBudget /\ m \in Nat
    BY <2>1, Refills, Waits
  <2>3. next = now + a
    BY <2>1, <2>2, TimerForBudget
  <2>4. a \in Nat /\ b \in Nat /\ c \in Nat /\ a <= b
    BY <2>2, PartOfBudget, Waits
  <2>5. UpdatedAt + b <= w + c /\ now < UpdatedAt + BudgetFactor /\ UpdatedAt \in Nat
    BY <1>1, <2>1, BudgetCheck, Refills
  <2>6. c + BudgetFactor - 1 <= BudgetWait /\ BudgetFactor \in Nat
    BY Waits
  <2> HIDE DEF a, b, c, m, w, next, cad
  <2>7. now + a <= X
    BY <1>1, <2>4, <2>5, <2>6
  <2>8. now <= X
    BY <1>1, <2>4, <2>7
  <2>9. now <= X + K + CADMaxDuration + LongestRetry
    BY <1>1, <2>8
  <2> QED BY <1>6, <2>1, <2>3, <2>7, <2>8, <2>9
<1>8. CASE TooSoon
  <2>1. /\ cad = cad_busy_start /\ next = next_tx_time /\ ~MillisHasNowPassed(now, next_tx_time)
    BY <1>8 DEF TooSoon, txVars
  <2>2. now <= next_tx_time
    BY <1>1, <2>1, ClockReads
  <2> HIDE DEF w, next, cad
  <2>3. cad_busy_start = 0 => now <= X
    BY <1>1, <1>6, <2>2
  <2>4. now <= X + K + CADMaxDuration + LongestRetry
    BY <1>1, <1>6, <2>2
  <2> QED BY <1>6, <2>1, <2>3, <2>4
<1>9. CASE DeferredByCAD
  <2>1. /\ cad # 0 /\ cad = IF cad_busy_start = 0 THEN now ELSE cad_busy_start
        /\ now <= cad + CADMaxDuration
        /\ next <= cad + CADMaxDuration + LongestRetry
    BY <1>9, Deferral
  <2> HIDE DEF w, next, cad
  <2>2. cad <= X + K
    BY <1>1, <1>6, <2>1
  <2>3. now <= X + K + CADMaxDuration + LongestRetry
    BY <1>1, <2>1, <2>2
  <2> QED BY <2>1, <2>2, <2>3
<1> QED BY <1>3, <1>7, <1>8, <1>9 DEF CheckSend

(* What a step leaves of LastCheck: only checkSend and the end of a pass that  *)
(* sends move it.                                                           *)
LEMMA LastCheckStays ==
  ASSUME ClockFits, IInv, OnTime, HNext, Waiting, ~CheckSend
  PROVE  /\ LastCheck' = LastCheck
         /\ UNCHANGED <<tx_budget_ms, last_budget_update, cad_busy_start, next_tx_time>>
<1>1. TypeOK /\ Next /\ ~Sending
  BY DEF IInv, HNext, Waiting
<1>2. now \in Nat /\ lag \in Nat
  BY <1>1, ClockReads, EnvironmentBounds DEF TypeOK
<1>3. CASE Tick
  <2>1. /\ lag' = lag + 1
        /\ UNCHANGED <<tx_budget_ms, last_budget_update, cad_busy_start, next_tx_time>>
    BY <1>3 DEF Tick, txVars, budgetVars
  <2>2. now' = now + 1
    <3>1. now' # now
      BY <1>1, <1>3, TickSince DEF Tick, TypeOK
    <3> QED BY <1>1, <3>1, ClockSteps
  <2>3. LastCheck' = (now + 1) - (lag + 1)
    BY <2>1, <2>2 DEF LastCheck
  <2> QED BY <1>2, <2>1, <2>3 DEF LastCheck
<1>4. CASE ~Tick
  <2>1. UNCHANGED <<now, lag, tx_budget_ms, last_budget_update, cad_busy_start, next_tx_time>>
    BY <1>1, <1>4 DEF Next, RadioTxDone, ChannelChanges, App, AppSend, AppHold, AppRelease,
       Loop, LoopOutbound, SendComplete, SendTimedOut, LoopReturnsEarly, LoopInbound, CheckRecv,
       txVars, budgetVars
  <2> QED BY <2>1 DEF LastCheck
<1> QED BY <1>3, <1>4

LEMMA WaitStep ==
  ASSUME ClockFits, SendsAreAdmitted, WInv, HNext
  PROVE  WInv'
<1>1. /\ IInv /\ TypeOK /\ OnTime /\ WaitEnds /\ Next
  BY DEF WInv, IInv, HNext
<1>2. IInv' /\ TypeOK' /\ OnTime'
  BY <1>1, StepPreserves, OnTimeStep DEF IInv
<1>3. /\ uptime' \in 0 .. Horizon /\ now' - uptime' = now - uptime /\ now' \in Nat
      /\ uptime <= uptime' /\ uptime \in Nat /\ Horizon \in Nat
  BY <1>1, ClockSteps, HistoryBounds
<1>4. waiting_since' = IF Waiting' THEN MinOf(waiting_since, uptime') ELSE Horizon
  BY DEF HNext, WatchQueue, Waiting
<1>5. CASE ~Waiting'
  BY <1>2, <1>4, <1>5 DEF WInv, WaitEnds
<1>6. CASE Waiting' /\ ~Waiting
  <2>1. waiting_since' = uptime'
    <3>1. waiting_since = Horizon
      BY <1>1, <1>6 DEF WaitEnds
    <3>2. MinOf(Horizon, uptime') = uptime'
      BY <1>3 DEF MinOf
    <3> QED BY <1>4, <1>6, <3>1, <3>2
  <2>2. BudgetComes' /\ TimerComes' /\ ChannelComes'
    BY <1>2, <1>3, <2>1, WaitStarts
  <2>3. waiting_since' \in 0 .. uptime'
    BY <1>3, <2>1
  <2> QED BY <1>2, <1>6, <2>2, <2>3 DEF WInv, WaitEnds
<1>7. CASE Waiting' /\ Waiting
  <2>1. waiting_since \in 0 .. uptime /\ BudgetComes /\ TimerComes /\ ChannelComes
    BY <1>1, <1>7 DEF WaitEnds
  <2>2. waiting_since' = waiting_since /\ waiting_since' \in 0 .. uptime'
    <3>1. MinOf(waiting_since, uptime') = waiting_since /\ waiting_since \in 0 .. uptime'
      BY <1>3, <2>1 DEF MinOf
    <3> QED BY <1>4, <1>7, <3>1
  <2>3. ReadyAt' = ReadyAt
    BY <1>3, <2>2 DEF ReadyAt
  <2>4. BudgetComes' /\ TimerComes' /\ ChannelComes'
    <3>1. CASE CheckSend
      BY <1>1, <1>7, <2>1, <2>3, <3>1, CheckWait
    <3>2. CASE ~CheckSend
      BY <1>1, <1>7, <2>1, <2>3, <3>2, LastCheckStays, QuietWait
    <3> QED BY <3>1, <3>2
  <2> QED BY <1>2, <1>7, <2>2, <2>4 DEF WInv, WaitEnds
<1> QED BY <1>5, <1>6, <1>7

LEMMA InitWaits ==
  ASSUME ClockFits, HInit
  PROVE  WInv
<1>1. IInv /\ TypeOK /\ now \in BootTime
  BY InitEstablishes DEF HInit, Init, IInv
<1>2. /\ uptime = 0 /\ waiting_since = Horizon /\ last_budget_update = now /\ cad_busy_start = 0
      /\ next_tx_time = now /\ mgr.send = << >>
  BY DEF HInit, Init
<1>3. now \in Nat /\ now - 0 = now /\ BudgetWait \in Nat /\ Horizon \in Nat
  BY <1>1, ClockIsNat, Waits, HistoryBounds DEF TypeOK
<1>4. OnTime
  BY <1>1, <1>2, <1>3 DEF OnTime
<1>5. ~Waiting
  BY <1>2 DEF Waiting, Due
<1> QED BY <1>1, <1>2, <1>4, <1>5 DEF WInv, WaitEnds

(* However busy the channel, however low the budget and whatever the layers   *)
(* above queue and take back, a ready queue is sending within Patience.       *)
THEOREM ReadyQueueAdvances ==
  ASSUME ClockFits, SendsAreAdmitted
  PROVE  HSpec => []QueueAdvances
<1>1. HInit => WInv
  BY InitWaits
<1>2. WInv /\ [HNext]_hvars => WInv'
  <2> SUFFICES ASSUME WInv, [HNext]_hvars PROVE WInv'
    OBVIOUS
  <2>1. CASE HNext
    BY <2>1, WaitStep
  <2>2. CASE UNCHANGED hvars
    <3>1. IInv'
      BY <2>2, StepPreserves DEF WInv, hvars
    <3>2. UNCHANGED <<now, lag, mgr, outbound, radio, tx_budget_ms, last_budget_update,
                      next_tx_time, cad_busy_start, uptime, waiting_since>>
      BY <2>2 DEF hvars, vars, radioVars, txVars, budgetVars
    <3>3. OnTime' /\ WaitEnds'
      BY <3>2 DEF WInv, OnTime, WaitEnds, Waiting, Sending, Due, BudgetComes, TimerComes,
                  ChannelComes, ReadyAt, LastCheck, Allowed, BudgetWait, NeededBudget, SlowestUnit
    <3> QED BY <3>1, <3>3 DEF WInv
  <2> QED BY <2>1, <2>2
<1>3. WInv => QueueAdvances
  <2> SUFFICES ASSUME WInv PROVE QueueAdvances
    OBVIOUS
  <2>1. /\ uptime \in 0 .. Horizon /\ Horizon \in Nat /\ lag \in 0 .. MaxLag /\ now \in Nat
    BY HistoryBounds, ClockIsNat DEF WInv, IInv, OnTime, TypeOK
  <2>2. CASE ~Waiting
    BY <2>1, <2>2, Waits DEF WInv, WaitEnds, QueueAdvances
  <2>3. CASE Waiting
    <3>1. /\ waiting_since \in 0 .. uptime
          /\ now - lag <= now - uptime + waiting_since + BudgetWait
                            + MaxLag + CADMaxDuration + LongestRetry
      BY <2>3 DEF WInv, WaitEnds, ChannelComes, LastCheck, Allowed, ReadyAt
    <3> QED BY <2>1, <3>1, Waits DEF QueueAdvances
  <2> QED BY <2>2, <2>3
<1> QED BY <1>1, <1>2, <1>3, PTL DEF HSpec
========================================================================
