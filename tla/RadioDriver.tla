---------------------------- MODULE RadioDriver ----------------------------
(***************************************************************************)
(* The radio driver (src/helpers/radiolib/RadioLibWrappers.cpp over the    *)
(* SX1262 of RadioLib) and the chip it drives.                             *)
(*                                                                         *)
(* The driver keeps one word, a mode and the bit STATE_INT_READY, which    *)
(* the interrupt handler sets and the driver's calls overwrite.  The chip  *)
(* latches flags, and raises its interrupt line when a flag mapped to the  *)
(* line comes up; receive, transmit and channel scan all use that line.    *)
(* The program calls the driver from one loop.  A call is several steps    *)
(* here wherever the chip may do something between two of its commands.    *)
(*                                                                         *)
(* Time is counted in ticks.  One tick is longer than the commands of one  *)
(* call and no longer than the payload of the shortest packet, so time     *)
(* passes between calls and while a channel scan is awaited, not between   *)
(* two commands.                                                           *)
(***************************************************************************)
EXTENDS Integers

CONSTANTS
  PreambleMillis, \* _preambleMillis: preamble-detect to header-valid deadline
  PayloadMillis,  \* _maxPayloadMillis: header-valid to rx-done deadline
  PreambleTime,   \* longest time from a preamble to its header
  PayloadTime,    \* longest time from a header to the end of its packet
  ScanEnabled     \* _threshold # 0: isReceiving also scans the channel

ASSUME DeadlineAssumption ==
  /\ PreambleMillis \in Nat /\ PayloadMillis \in Nat
  /\ PreambleTime \in 1..PreambleMillis
  /\ PayloadTime \in 1..PayloadMillis
  /\ ScanEnabled \in BOOLEAN

VARIABLES
  mode,       \* chip: what it is doing
  irq,        \* chip: the flags that are up
  map,        \* chip: the flags enabled, and those that raise the line
  air,        \* chip: what the demodulator is in the middle of
  spent,      \* chip: ticks since that, or the transmission, began
  unread,     \* chip: the buffer holds a packet nobody has read
  state,      \* driver: the mode in `state`
  intReady,   \* driver: the bit STATE_INT_READY of `state`
  activity,   \* driver: ticks since _activityAt; Unset when that is 0
  headerSeen, \* driver: _headerSeen
  seen,       \* driver: the flags isReceiving read, while it acts on them
  pc,         \* where the program is: between calls, or inside one
  sending     \* program: a send is out and onSendFinished is to come

chip   == <<mode, irq, map, air, spent, unread>>
poll   == <<activity, headerSeen, seen>>
vars   == <<chip, state, intReady, poll, pc, sending>>

Unset  == -1
MaxAge == PreambleMillis + PayloadMillis + 1

(* The flags each setDioIrqParams enables, and those it puts on the line.  *)
Enabled == [rx  |-> {"preamble", "header", "headererr", "rxdone"},
            tx  |-> {"txdone"},
            cad |-> {"caddone"}]
OnLine  == [rx |-> {"rxdone"}, tx |-> {"txdone"}, cad |-> {"caddone"}]
Flags   == {"preamble", "header", "headererr", "rxdone", "txdone", "caddone"}
PollFlags == {"preamble", "header", "headererr"}

LineUp == irq \cap OnLine[map] # {}

PollCalls == {"noise", "reset", "busy"}
Places == {"ready", "read", "readDone", "check", "start", "launch", "started", "agc",
           "scan", "scanning", "scanned", "launched", "finish", "standby"}
          \cup PollCalls

Init ==
  /\ mode = "standby" /\ irq = {} /\ map = "rx" /\ air = "none" /\ spent = 0
  /\ unread = FALSE
  /\ state = "IDLE" /\ intReady = FALSE
  /\ activity = Unset /\ headerSeen = FALSE /\ seen = {}
  /\ pc = "ready" /\ sending = FALSE

-----------------------------------------------------------------------------
(* The chip.  A flag that is enabled stays up until it is cleared; the     *)
(* handler setFlag runs when the line comes up.                            *)

Latch(f) ==
  /\ irq' = irq \cup ({f} \cap Enabled[map])
  /\ intReady' = (intReady \/ (~LineUp /\ f \in OnLine[map]))
  /\ UNCHANGED <<map, state, pc, sending, poll>>

PreambleHeard ==
  /\ mode = "rx" /\ air = "none"
  /\ air' = "preamble" /\ spent' = 0
  /\ Latch("preamble")
  /\ UNCHANGED <<mode, unread>>

(* No header follows: the preamble was noise, or the signal was lost.      *)
SignalLost ==
  /\ air = "preamble"
  /\ air' = "none" /\ spent' = 0
  /\ UNCHANGED <<mode, irq, map, unread, state, intReady, pc, sending, poll>>

HeaderHeard ==
  /\ air = "preamble" /\ spent > 0
  /\ air' = "payload" /\ spent' = 0
  /\ Latch("header")
  /\ UNCHANGED <<mode, unread>>

HeaderFails ==
  /\ air = "preamble" /\ spent > 0
  /\ air' = "none" /\ spent' = 0
  /\ Latch("headererr")
  /\ UNCHANGED <<mode, unread>>

PacketEnds ==
  /\ air = "payload" /\ spent > 0
  /\ air' = "none" /\ spent' = 0
  /\ Latch("rxdone")
  /\ unread' = TRUE
  /\ UNCHANGED mode

TxEnds ==
  /\ mode = "tx" /\ spent > 0
  /\ mode' = "standby" /\ spent' = 0
  /\ Latch("txdone")
  /\ UNCHANGED <<air, unread>>

ScanEnds ==
  /\ mode = "cad"
  /\ mode' = "standby"
  /\ Latch("caddone")
  /\ UNCHANGED <<air, spent, unread>>

Tick ==
  /\ pc \in {"ready", "scanning"}
  /\ air = "preamble" => spent < PreambleTime
  /\ air = "payload" => spent < PayloadTime
  /\ spent' = IF air # "none" THEN spent + 1 ELSE IF mode = "tx" THEN 1 ELSE 0
  /\ activity' = IF activity \in {Unset, MaxAge} THEN activity ELSE activity + 1
  /\ UNCHANGED <<mode, irq, map, air, unread, state, intReady, headerSeen, seen, pc,
                 sending>>

Events ==
  \/ PreambleHeard \/ SignalLost \/ HeaderHeard \/ HeaderFails
  \/ PacketEnds \/ TxEnds \/ ScanEnds

-----------------------------------------------------------------------------
(* Helpers of the driver's steps.                                          *)

Enter(m) == mode' = m /\ air' = "none" /\ spent' = 0
Store(s) == state' = s /\ intReady' = FALSE
Goto(p)  == pc' = p

-----------------------------------------------------------------------------
(* recvRaw, and the startReceive it and isChannelActive end with.          *)

RecvRaw ==
  /\ pc = "ready" /\ ~sending
  /\ \/ intReady /\ Goto("read")
     \/ ~intReady /\ Goto("check")
  /\ UNCHANGED <<chip, state, intReady, poll, sending>>

(* Mutant of NotReceiving: only a read is followed by a startReceive.       *)
OnlyAfterRead == FALSE

(* The whole word differs from STATE_RX, be it by STATE_INT_READY alone.    *)
NotReceiving == state # "RX" \/ intReady

(* Without an interrupt the word is read a second time.                     *)
LooksAgain ==
  /\ pc = "check"
  /\ \/ NotReceiving /\ Goto("start")
     \/ ~NotReceiving /\ Goto("ready")
  /\ UNCHANGED <<chip, state, intReady, poll, sending>>

(* readData, which clears the flags; a packet of length 0 is not read.     *)
ReadData ==
  /\ pc = "read"
  /\ irq' \in {irq, {}} /\ unread' = FALSE
  /\ Goto("readDone")
  /\ UNCHANGED <<mode, map, air, spent, state, intReady, poll, sending>>

ReadReturns ==
  /\ pc = "readDone"
  /\ Store("IDLE")
  /\ Goto("start")
  /\ UNCHANGED <<chip, poll, sending>>

(* startReceive puts the chip on standby, maps and clears the flags ...    *)
StageReceive ==
  /\ pc = "start"
  /\ Enter("standby") /\ map' = "rx" /\ irq' = {}
  /\ Goto("launch")
  /\ UNCHANGED <<unread, state, intReady, poll, sending>>

(* Mutant of NotStarted: the error is not looked at.                        *)
TakenForStarted == Store("RX")
NotStarted == UNCHANGED <<state, intReady>>

(* ... or one of its commands fails; only the next recvRaw tries again ... *)
ReceiveFails ==
  /\ pc \in {"start", "launch"}
  /\ \/ Enter("standby")
     \/ UNCHANGED <<mode, air, spent>>
  /\ NotStarted
  /\ Goto("ready")
  /\ UNCHANGED <<irq, map, unread, poll, sending>>

(* ... and launches the receiver; the driver's word follows after that.    *)
LaunchReceive ==
  /\ pc = "launch"
  /\ Enter("rx")
  /\ Goto("started")
  /\ UNCHANGED <<irq, map, unread, state, intReady, poll, sending>>

ReceiveStarted ==
  /\ pc = "started"
  /\ Store("RX")
  /\ Goto("ready")
  /\ UNCHANGED <<chip, poll, sending>>

-----------------------------------------------------------------------------
(* isReceivingPacket: CustomSX1262::isReceiving reads the flags, and then  *)
(* acts on what it read.  Its callers are the noise floor's loop(), which  *)
(* ignores INT_READY only in state RX, resetAGC() and isReceiving().       *)

ReadFlags(c) ==
  /\ pc = "ready" /\ ~sending
  /\ c = "noise" => state = "RX" /\ ~intReady
  /\ c = "reset" => ~intReady
  /\ seen' = irq
  /\ Goto(c)
  /\ UNCHANGED <<chip, state, intReady, activity, headerSeen, sending>>

Forget == activity' = Unset /\ headerSeen' = FALSE

(* What the caller does with the answer.                                   *)
Answer(c, receiving) ==
  /\ seen' = {}
  /\ \/ (receiving \/ c = "noise") /\ Goto("ready")
     \/ ~receiving /\ c = "reset" /\ Goto("agc")
     \/ ~receiving /\ c = "busy" /\ Goto(IF ScanEnabled THEN "scan" ELSE "ready")
  /\ UNCHANGED <<mode, map, air, spent, unread, state, intReady, sending>>

SeesHeaderError(c) ==
  /\ pc = c /\ "headererr" \in seen
  /\ irq' = irq \ PollFlags
  /\ Forget
  /\ Answer(c, FALSE)

SeesHeaderGone(c) ==
  /\ pc = c /\ "headererr" \notin seen
  /\ "header" \notin seen /\ headerSeen
  /\ Forget
  /\ Answer(c, FALSE) /\ UNCHANGED irq

(* The time since the poll that saw the header first.                       *)
HeaderAge == IF headerSeen THEN activity ELSE 0

(* Mutant of GivenUp: an expired header keeps its flag.                     *)
GivenUpExceptHeader == irq \ {"preamble", "headererr"}
GivenUp == irq \ PollFlags

SeesHeader(c) ==
  /\ pc = c /\ "headererr" \notin seen
  /\ "header" \in seen
  /\ \/ /\ HeaderAge > PayloadMillis
        /\ irq' = GivenUp
        /\ Forget
        /\ Answer(c, FALSE)
     \/ /\ HeaderAge <= PayloadMillis
        /\ headerSeen' = TRUE /\ activity' = HeaderAge
        /\ Answer(c, TRUE) /\ UNCHANGED irq

(* Mutant of PreambleAge: every poll that sees the preamble counts anew.    *)
PreambleAgeAnew == 0
PreambleAge == IF activity = Unset THEN 0 ELSE activity

SeesPreamble(c) ==
  /\ pc = c /\ "headererr" \notin seen
  /\ "header" \notin seen /\ ~headerSeen /\ "preamble" \in seen
  /\ \/ /\ PreambleAge > PreambleMillis
        /\ irq' = irq \ {"preamble"}
        /\ Forget
        /\ Answer(c, FALSE)
     \/ /\ PreambleAge <= PreambleMillis
        /\ activity' = PreambleAge
        /\ Answer(c, TRUE) /\ UNCHANGED <<irq, headerSeen>>

SeesNothing(c) ==
  /\ pc = c /\ ~headerSeen /\ seen \cap PollFlags = {}
  /\ Forget
  /\ Answer(c, FALSE) /\ UNCHANGED irq

IsReceivingPacket(c) ==
  \/ SeesHeaderError(c) \/ SeesHeaderGone(c) \/ SeesHeader(c)
  \/ SeesPreamble(c) \/ SeesNothing(c)

-----------------------------------------------------------------------------
(* resetAGC: sleep and recalibrate, then a new startReceive is needed.     *)
ResetAGC ==
  /\ pc = "agc"
  /\ Enter("standby")
  /\ irq' \in {irq, {}} /\ unread' \in {unread, FALSE}
  /\ Store("IDLE")
  /\ Goto("ready")
  /\ UNCHANGED <<map, poll, sending>>

(* isChannelActive: the scan, its end, and the word it resets.             *)
StartScan ==
  /\ pc = "scan"
  /\ \/ /\ Enter("cad") /\ map' = "cad" /\ irq' = {}
        /\ Goto("scanning")
     \/ /\ Enter("standby")
        /\ Goto("scanned")
        /\ UNCHANGED <<map, irq>>
  /\ UNCHANGED <<unread, state, intReady, poll, sending>>

ScanReturns ==
  /\ pc = "scanning" /\ LineUp
  /\ Goto("scanned")
  /\ UNCHANGED <<chip, state, intReady, poll, sending>>

(* Mutant of ForgetScan: the bit the scan's end has set stays.              *)
KeepScan == UNCHANGED <<state, intReady>>
ForgetScan == Store("IDLE")

ClearScan ==
  /\ pc = "scanned"
  /\ ForgetScan
  /\ Goto("start")
  /\ UNCHANGED <<chip, poll, sending>>

-----------------------------------------------------------------------------
(* startSendRaw: startTransmit maps TX_DONE and clears the flags while the *)
(* receiver may still run, then transmits; an error goes back to idle().   *)
StartSendRaw ==
  /\ pc = "ready" /\ ~sending
  /\ Enter("tx") /\ map' = "tx" /\ irq' = {} /\ unread' = FALSE
  /\ Goto("launched")
  /\ UNCHANGED <<state, intReady, poll, sending>>

SendFails ==
  /\ pc = "ready" /\ ~sending
  /\ Enter("standby")
  /\ map' \in {map, "tx"} /\ irq' \in {irq, {}} /\ unread' \in {unread, FALSE}
  /\ Store("IDLE")
  /\ UNCHANGED <<poll, pc, sending>>

(* Mutant of Transmitting: an interrupt of the reception before is kept.    *)
TransmittingAnd == state' = "TX_WAIT" /\ UNCHANGED intReady
Transmitting == Store("TX_WAIT")

SendStarted ==
  /\ pc = "launched"
  /\ Transmitting
  /\ sending' = TRUE
  /\ Goto("ready")
  /\ UNCHANGED <<chip, poll>>

(* Mutant of Transmitted: the word takes the mode nothing else uses.        *)
TransmittedDone == Store("TX_DONE")
Transmitted == Store("IDLE")

(* isSendComplete when it answers true, or the caller's timeout; both end  *)
(* in onSendFinished.                                                      *)
SendComplete ==
  /\ pc = "ready" /\ sending /\ intReady
  /\ Transmitted
  /\ Goto("finish")
  /\ UNCHANGED <<chip, poll, sending>>

SendTimeout ==
  /\ pc = "ready" /\ sending /\ ~intReady
  /\ Goto("finish")
  /\ UNCHANGED <<chip, state, intReady, poll, sending>>

FinishTransmit ==
  /\ pc = "finish"
  /\ irq' = {}
  /\ Goto("standby")
  /\ UNCHANGED <<mode, map, air, spent, unread, state, intReady, poll, sending>>

OnSendFinished ==
  /\ pc = "standby"
  /\ Enter("standby")
  /\ Store("IDLE")
  /\ sending' = FALSE
  /\ Goto("ready")
  /\ UNCHANGED <<irq, map, unread, poll>>

-----------------------------------------------------------------------------
Driver ==
  \/ RecvRaw \/ ReadData \/ ReadReturns \/ LooksAgain
  \/ StageReceive \/ ReceiveFails \/ LaunchReceive \/ ReceiveStarted
  \/ \E c \in PollCalls : ReadFlags(c) \/ IsReceivingPacket(c)
  \/ ResetAGC \/ StartScan \/ ScanReturns \/ ClearScan
  \/ StartSendRaw \/ SendFails \/ SendStarted
  \/ SendComplete \/ SendTimeout \/ FinishTransmit \/ OnSendFinished

Next == Tick \/ Events \/ Driver

(* The steps of a call follow each other, every pass of the loop that is   *)
(* not sending calls recvRaw and, while it samples the noise floor, loop() *)
(* polls; time passes, a scan ends, and startReceive does not fail for     *)
(* ever.                                                                   *)
Inside ==
  /\ pc # "ready"
  /\ Driver

Fairness ==
  /\ WF_vars(Inside)
  /\ SF_vars(LaunchReceive)
  /\ SF_vars(StageReceive)
  /\ SF_vars(RecvRaw)
  /\ SF_vars(ReadFlags("noise"))
  /\ WF_vars(SendComplete \/ SendTimeout)
  /\ WF_vars(ScanEnds)
  /\ SF_vars(Tick)

Spec == Init /\ [][Next]_vars
FairSpec == Spec /\ Fairness

-----------------------------------------------------------------------------
TypeOK ==
  /\ mode \in {"standby", "rx", "tx", "cad"}
  /\ irq \in SUBSET Flags
  /\ map \in {"rx", "tx", "cad"}
  /\ air \in {"none", "preamble", "payload"}
  /\ spent \in Nat
  /\ unread \in BOOLEAN
  /\ state \in {"IDLE", "RX", "TX_WAIT"}
  /\ intReady \in BOOLEAN
  /\ activity \in {Unset} \cup 0..MaxAge
  /\ headerSeen \in BOOLEAN
  /\ seen \in SUBSET Flags
  /\ pc \in Places
  /\ sending \in BOOLEAN

(* The places at which nothing of a call has touched chip or word yet.     *)
Settled == pc \in {"ready", "check", "agc", "scan"} \cup PollCalls

(* The receiver is not deaf: while the driver's word says RX without an     *)
(* interrupt, so that no startReceive is to come, the chip listens, and the *)
(* next packet that ends raises the line, no flag of an earlier one being   *)
(* up.  That earlier ones have all been read is more than it says: see      *)
(* ReturnsWhatArrived.                                                      *)
HearsWhenInRx ==
  Settled /\ state = "RX" /\ ~intReady =>
    mode = "rx" /\ map = "rx" /\ "rxdone" \notin irq

(* recvRaw reads the chip only when a packet has arrived: neither the end  *)
(* of a scan nor that of a send, which use the same line, looks like one.  *)
ReadsWhatArrived == pc = "read" => unread

(* isSendComplete does not take an older interrupt for the end of the      *)
(* send: the bit is set only when the transmission has ended.              *)
SentMeansSent == pc = "ready" /\ sending /\ intReady => "txdone" \in irq

(* A scan or a reset of the AGC does not throw an unread packet away: when *)
(* it begins with one, the poll before it had given the packet's header    *)
(* up; the header flag that is up then is the next packet's.               *)
PacketsAreKept ==
  pc \in {"scan", "agc"} /\ "rxdone" \in irq =>
    "header" \notin irq \/ air = "payload"

(* src/Dispatcher.h:30: recvRaw returns 0 if no data came in, otherwise the *)
(* packet: a call never finds no interrupt and then starts the receiver     *)
(* over, which clears the chip, with a packet and its interrupt there.      *)
ReturnsWhatArrived ==
  [][pc = "check" /\ pc' = "start" => ~(intReady /\ unread)]_vars

-----------------------------------------------------------------------------
(* The radio listens again and again, whatever failed in between.          *)
ListensAgain == []<>(mode = "rx" /\ state = "RX" /\ pc = "ready")

(* A flag that no reception is behind does not count as a reception for    *)
(* ever: on a silent channel the flags are down in the end.                *)
FlagsExpire ==
  <>[](air = "none" /\ ~sending) => []<>(irq \cap {"preamble", "header"} = {})

=============================================================================
