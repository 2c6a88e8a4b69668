----------------------- MODULE DispatcherHistory -----------------------
(***************************************************************************)
(* The Dispatcher with its history: how long it has been up, how much       *)
(* airtime it used and was charged for, since when a packet has been        *)
(* waiting.  The history variables only watch; uptime does not wrap, and a  *)
(* run stops its clock at Horizon.                                          *)
(***************************************************************************)
EXTENDS Dispatcher

CONSTANTS
  Horizon,                      \* the uptime at which a run's clock stops
  LongestAirtime,               \* no packet takes longer than this
  LongestRetry                  \* nor does a CAD retry

ASSUME HistoryBounds ==
  /\ Horizon \in Nat /\ LongestAirtime \in Nat /\ LongestRetry \in Nat
  /\ \A a \in Airtime : a <= LongestAirtime
  /\ \A d \in CADRetryDelay : d <= LongestRetry
  /\ NeededBudget <= LongestAirtime

VARIABLES
  uptime,                       \* milliseconds since start-up
  charged,                      \* airtime deducted from the budget
  aired,                        \* airtime of the sends that ended
  waiting_since                 \* uptime at which the send queue last became ready,
                                \*   Horizon when nothing is ready

ledger == <<charged, aired>>
hvars == <<vars, uptime, ledger, waiting_since>>

HInit ==
  /\ Init
  /\ uptime = 0 /\ charged = 0 /\ aired = 0
  /\ waiting_since = Horizon

WatchClock ==
  /\ uptime' = IF now' = now THEN uptime ELSE uptime + 1
  /\ uptime' <= Horizon

(* A packet is due and the transmitter is free.                             *)
WatchQueue ==
  waiting_since' = IF Due(mgr.send, now)' # {} /\ ~Sending'
                   THEN MinOf(waiting_since, uptime') ELSE Horizon

WatchAirtime ==
  LET ended == Sending /\ outbound' = NoPacket
  IN /\ charged' = IF ended /\ radio = "sent" THEN charged + UpdatedBudget - tx_budget_ms'
                   ELSE charged
     /\ aired' = IF ended THEN aired + outbound.air ELSE aired

HNext == Next /\ WatchClock /\ WatchQueue /\ WatchAirtime

HSpec == HInit /\ [][HNext]_hvars

------------------------------------------------------------------------
(* What is charged never exceeds the bucket the node booted with plus the    *)
(* duty cycle's share of the time it has been up.                           *)
ChargedWithinDutyCycle ==
  BudgetFactor * charged <= BudgetFactor * MaxBudget + uptime

(* A send is admitted on half an MTU's airtime, and a bucket that runs dry   *)
(* forgets the rest: the airtime used exceeds the airtime charged by at most *)
(* the ratio of the two.                                                    *)
AiredWithinOverdraft ==
  NeededBudget * aired <= LongestAirtime * charged

(* A refill drops the remainder of its division, so that a unit of budget    *)
(* may take a pass longer than its share of the time; and the test that finds *)
(* the budget too low counts the whole of the unit that is under way.        *)
SlowestUnit == BudgetFactor + MaxLag - 1
BudgetWait ==
  LET reserve == BudgetFactor * MinReserve
      needed == SlowestUnit * NeededBudget + BudgetFactor - 1
  IN IF reserve > needed THEN reserve ELSE needed

(* How long a ready packet can be kept waiting: for the bucket, then for a   *)
(* busy channel, the end of either noticed a pass late.                     *)
Patience == BudgetWait + CADMaxDuration + LongestRetry + 2 * MaxLag

(* However busy the channel, a ready queue sends within that time.  True as  *)
(* long as uptime stays below half the clock's range; beyond it a timer not   *)
(* written since start-up lies in the future again (MCIdleTimerDoc.cfg).      *)
QueueAdvances == uptime - waiting_since <= Patience

========================================================================
