------------------------------ MODULE KissModem ------------------------------
(***************************************************************************)
(* The KISS modem (examples/kiss_modem): a host on a serial port commands  *)
(* the radio through it.  KissModem::loop writes what it can of a short    *)
(* queue of frames, handles what the host has sent, takes one step of the  *)
(* transmission, and writes again; the main loop then reads the radio.     *)
(* Nothing may block on the host, which reads when it likes: answers that  *)
(* find the queue full are refused and owed, the result of a transmission  *)
(* waits in flags of its own, and the radio is read only while nothing     *)
(* waits for the host.                                                     *)
(*                                                                         *)
(* A frame leaves the queue with its last byte.  How much the serial port  *)
(* takes is left open at every write, and so is time: a timer that is set  *)
(* has elapsed when TimePasses says so.                                    *)
(***************************************************************************)
EXTENDS Integers, Sequences

CONSTANTS
  Packet,   \* what the host may ask to send
  NoPacket, \* what other frames carry
  Depth     \* KISS_TX_FRAME_QUEUE_DEPTH

ASSUME KissAssumption ==
  /\ NoPacket \notin Packet
  /\ Depth \in Nat /\ Depth >= 2

VARIABLES
  pc,           \* where the main loop is
  out,          \* the queue of frames, the oldest first
  busyError,    \* _tx_busy_error_pending
  donePending,  \* _tx_done_pending
  doneOk,       \* _tx_done_result
  hasPending,   \* _has_pending_tx
  pending,      \* _pending_tx
  tx,           \* _tx_state
  elapsed,      \* the time _tx_timer counts has passed
  signalReport, \* _signal_report_enabled
  fullDuplex,   \* _fullduplex
  radio         \* the radio: idle, sending, or sent

VARIABLES       \* what the host knows; no action depends on it
  owed,         \* packets accepted whose result it has not been given
  completed,    \* those of them the radio has sent
  raced,        \* those of them given up in the pass in which it finished
  untold,       \* a refused answer it has not been told of: its Error TxBusy
                \* is owed, queued, or there is none
  metaNext      \* the last frame it was given is to be followed by an RxMeta

output   == <<out, owed, completed, raced, untold, metaNext>>
sender   == <<hasPending, pending, tx, elapsed, radio>>
done     == <<donePending, doneOk>>
settings == <<signalReport, fullDuplex>>
vars     == <<pc, output, busyError, done, sender, settings>>

Kinds == {"reply", "refusal", "txdone", "data", "plain", "meta"}
Frame == [kind : Kinds, pkt : Packet \cup {NoPacket}, ok : BOOLEAN]

(* A frame to the host: an answer, the Error TxBusy for refused answers, a *)
(* received packet with its RxMeta or, reports being off, without.         *)
FrameOf(k)     == [kind |-> k, pkt |-> NoPacket, ok |-> FALSE]
TxDone(p, ok)  == [kind |-> "txdone", pkt |-> p, ok |-> ok]

Init ==
  /\ pc = "loop" /\ out = <<>> /\ busyError = FALSE
  /\ donePending = FALSE /\ doneOk = FALSE
  /\ hasPending = FALSE /\ pending = NoPacket /\ tx = "idle" /\ elapsed = FALSE
  /\ signalReport = TRUE /\ fullDuplex = FALSE /\ radio = "idle"
  /\ owed = {} /\ completed = {} /\ raced = {} /\ untold = "none" /\ metaNext = FALSE

-----------------------------------------------------------------------------
(* The queue of frames.                                                    *)

(* What tryFlushFrames may leave; it returns true when it leaves nothing.  *)
Flushed(q) == {SubSeq(q, n, Len(q)) : n \in 1..Len(q) + 1}

(* Mutant of Full: one frame too many.                                      *)
OverFull(q) == Len(q) > Depth
Full(q) == Len(q) >= Depth

(* queueFrame takes f: a full queue has been emptied before.               *)
Queued(q, f) == Flushed(Append(IF Full(q) THEN <<>> ELSE q, f))

(* queueFrame refuses: a full queue could not be emptied, though part of   *)
(* it may have been written.                                               *)
Refused(q) == IF Full(q) THEN Flushed(q) \ {<<>>} ELSE {}

(* Of the frames s the host gets all but the rest r; and u is what it is    *)
(* untold of before that.                                                  *)
Give(s, r, u) ==
  LET given == SubSeq(s, 1, Len(s) - Len(r))
      Given == {given[i].pkt : i \in DOMAIN given}
      IsRefusal(q) == \E i \in DOMAIN q : q[i].kind = "refusal"
  IN /\ out' = r
     /\ owed' = owed \ Given /\ completed' = completed \ Given /\ raced' = raced \ Given
     /\ untold' = IF u = "queued" /\ ~IsRefusal(r) THEN "none" ELSE u
     /\ metaNext' = IF given = <<>> THEN metaNext ELSE given[Len(given)].kind = "data"

StillOwed == IF untold = "none" THEN "owed" ELSE untold

Flush == \E r \in Flushed(out) : Give(out, r, untold)

(* queueFrame with mark_busy_error, as writeHardwareFrame calls it.        *)
Answer(f) ==
  \/ /\ \E r \in Queued(out, f) : Give(Append(out, f), r, untold)
     /\ UNCHANGED busyError
  \/ /\ \E r \in Refused(out) : Give(out, r, StillOwed)
     /\ busyError' = TRUE

-----------------------------------------------------------------------------
(* KissModem::loop writes, and reads what the host has sent.                *)

Write ==
  /\ pc = "loop"
  /\ Flush
  /\ pc' = "host"
  /\ UNCHANGED <<busyError, done, sender, settings>>

(* The host has read everything and asks for nothing.                      *)
HostPauses ==
  /\ pc = "loop"
  /\ Give(out, <<>>, untold)
  /\ pc' = "tx"
  /\ UNCHANGED <<busyError, done, sender, settings>>

EndOfInput ==
  /\ pc = "host"
  /\ pc' = "tx"
  /\ UNCHANGED <<output, busyError, done, sender, settings>>

(* A Data frame of a legal length while no other is pending; one of an      *)
(* illegal length has no effect then.                                       *)
AcceptData(p) ==
  /\ pc = "host" /\ ~hasPending
  /\ pending' = p /\ hasPending' = TRUE
  /\ owed' = owed \cup {p}
  /\ UNCHANGED <<pc, out, completed, raced, untold, metaNext, busyError, done, tx, elapsed,
                 radio, settings>>

(* A command, or a Data frame while another is pending: one answer.        *)
HandleCommand ==
  /\ pc = "host"
  /\ Answer(FrameOf("reply"))
  /\ UNCHANGED <<pc, done, sender, settings>>

SetSignalReport(enabled) ==
  /\ pc = "host"
  /\ signalReport' = enabled
  /\ Answer(FrameOf("reply"))
  /\ UNCHANGED <<pc, done, sender, fullDuplex>>

SetFullDuplex(on) ==
  /\ pc = "host"
  /\ fullDuplex' = on
  /\ UNCHANGED <<pc, output, busyError, done, sender, signalReport>>

(* Reboot: what is in the queue, the OK included, is gone.                 *)
Reboot ==
  /\ pc = "host"
  /\ pc' = "loop" /\ out' = <<>> /\ busyError' = FALSE
  /\ donePending' = FALSE /\ doneOk' = FALSE
  /\ hasPending' = FALSE /\ pending' = NoPacket /\ tx' = "idle" /\ elapsed' = FALSE
  /\ signalReport' = TRUE /\ fullDuplex' = FALSE /\ radio' = "idle"
  /\ owed' = {} /\ completed' = {} /\ raced' = {} /\ untold' = "none" /\ metaNext' = FALSE

-----------------------------------------------------------------------------
(* processTx, one step of the transmission a pass; during a send, the radio  *)
(* may finish between its two tests.                                       *)

(* The states in which it leaves the queue alone.                          *)
TxStep ==
  /\ pc = "tx"
  /\ pc' = "flush"
  /\ UNCHANGED <<output, busyError, hasPending, pending, settings>>

(* A state is entered with its timer set anew.                             *)
EnterTx(s) == tx' = s /\ elapsed' = FALSE

TxIdle ==
  /\ TxStep /\ tx = "idle" /\ ~hasPending
  /\ UNCHANGED <<tx, elapsed, radio, done>>

TxBegin ==
  /\ TxStep /\ tx = "idle" /\ hasPending
  /\ EnterTx(IF fullDuplex THEN "delay" ELSE "wait_clear")
  /\ UNCHANGED <<radio, done>>

(* The channel is clear, and the random byte within _persistence or not.   *)
TxPersists ==
  /\ TxStep /\ tx = "wait_clear"
  /\ EnterTx("delay")
  /\ UNCHANGED <<radio, done>>

TxYields ==
  /\ TxStep /\ tx = "wait_clear"
  /\ EnterTx("slot_wait")
  /\ UNCHANGED <<radio, done>>

(* It is busy, and has been for longer than a packet lasts.                *)
TxForced ==
  /\ TxStep /\ tx = "wait_clear" /\ elapsed
  /\ EnterTx("delay")
  /\ UNCHANGED <<radio, done>>

TxSlot ==
  /\ TxStep /\ tx = "slot_wait" /\ elapsed
  /\ EnterTx("wait_clear")
  /\ UNCHANGED <<radio, done>>

TxWaits ==
  /\ TxStep /\ tx \in {"wait_clear", "slot_wait", "delay"} /\ ~elapsed
  /\ UNCHANGED <<tx, elapsed, radio, done>>

TxStart ==
  /\ TxStep /\ tx = "delay" /\ elapsed
  /\ EnterTx("sending") /\ radio' = "sending"
  /\ UNCHANGED done

SetTxDonePending(ok) ==
  /\ doneOk' = ok /\ donePending' = TRUE
  /\ EnterTx("done_pending")

TxStartFails ==
  /\ TxStep /\ tx = "delay" /\ elapsed
  /\ SetTxDonePending(FALSE)
  /\ UNCHANGED radio

(* A send: isSendComplete is asked first ...                               *)
TxSent ==
  /\ TxStep /\ tx = "sending" /\ radio = "sent"
  /\ SetTxDonePending(TRUE)
  /\ radio' = "idle"

TxNotSent ==
  /\ pc = "tx" /\ tx = "sending" /\ radio # "sent"
  /\ pc' = "timer"
  /\ UNCHANGED <<output, busyError, done, sender, settings>>

(* Mutants of SendTimedOut and ResultOfTimeout: there is no timeout, or it   *)
(* counts as success.                                                      *)
NeverTimesOut == FALSE
SendTimedOut == elapsed
TimeoutIsSuccess == TRUE
ResultOfTimeout == FALSE

(* ... and then the timer looked at, whatever the radio has done meanwhile; *)
(* both ends of a send are in onSendFinished.                              *)
TimerStep ==
  /\ pc = "timer"
  /\ pc' = "flush"
  /\ UNCHANGED <<out, owed, completed, untold, metaNext, busyError, hasPending, pending,
                 settings>>

TxTimesOut ==
  /\ TimerStep /\ SendTimedOut
  /\ SetTxDonePending(ResultOfTimeout)
  /\ radio' = "idle"
  /\ UNCHANGED raced

TxGoesOn ==
  /\ TimerStep /\ ~SendTimedOut
  /\ raced' = raced \ {pending}
  /\ UNCHANGED <<tx, elapsed, radio, done>>

(* queuePendingTxDone; only when the frame is queued is the packet done.    *)
TxReport ==
  /\ pc = "tx" /\ tx = "done_pending"
  /\ \E r \in Queued(out, TxDone(pending, doneOk)) :
       Give(Append(out, TxDone(pending, doneOk)), r, untold)
  /\ donePending' = FALSE /\ hasPending' = FALSE /\ tx' = "idle"
  /\ pc' = "flush"
  /\ UNCHANGED <<busyError, doneOk, pending, elapsed, radio, settings>>

(* Mutant of ReportRetained: the packet is done although its frame was not  *)
(* queued.                                                                 *)
ReportDropped ==
  /\ donePending' = FALSE /\ hasPending' = FALSE /\ tx' = "idle"
  /\ UNCHANGED <<doneOk, pending, elapsed, radio>>
ReportRetained == UNCHANGED <<done, sender>>

TxReportRefused ==
  /\ pc = "tx" /\ tx = "done_pending"
  /\ \E r \in Refused(out) : Give(out, r, untold)
  /\ ReportRetained
  /\ pc' = "flush"
  /\ UNCHANGED <<busyError, settings>>

ProcessTx ==
  \/ TxIdle \/ TxBegin \/ TxPersists \/ TxYields \/ TxForced \/ TxSlot \/ TxWaits
  \/ TxStart \/ TxStartFails \/ TxSent \/ TxNotSent \/ TxTimesOut \/ TxGoesOn
  \/ TxReport \/ TxReportRefused

-----------------------------------------------------------------------------
(* The end of the pass: queuePendingBusyError.                             *)

WriteAgain ==
  /\ pc = "flush"
  /\ Flush
  /\ pc' = "refusal"
  /\ UNCHANGED <<busyError, done, sender, settings>>

NothingRefused ==
  /\ pc = "refusal" /\ ~busyError
  /\ pc' = "radio"
  /\ UNCHANGED <<output, busyError, done, sender, settings>>

(* Mutants of RefusalTold, RefusalRetained: the flag stays after the error  *)
(* was queued, or goes although it was not.                                *)
RefusalToldAgain == UNCHANGED busyError
RefusalTold      == busyError' = FALSE
RefusalDropped   == busyError' = FALSE
RefusalRetained  == UNCHANGED busyError

TellRefusal ==
  /\ pc = "refusal" /\ busyError
  /\ \/ /\ \E r \in Queued(out, FrameOf("refusal")) :
             Give(Append(out, FrameOf("refusal")), r,
                  IF untold = "owed" THEN "queued" ELSE untold)
        /\ RefusalTold
     \/ /\ \E r \in Refused(out) : Give(out, r, untold)
        /\ RefusalRetained
  /\ pc' = "radio"
  /\ UNCHANGED <<done, sender, settings>>

-----------------------------------------------------------------------------
(* The main loop reads the radio unless that would break into a            *)
(* transmission or find no room for a packet and its RxMeta.                *)

(* Mutants of IsHostOutputBackedUp: a frame that waits is no obstacle; only *)
(* a full queue is.                                                        *)
BackedUpByFlags == busyError \/ donePending
BackedUpWhenFull == Full(out) \/ busyError \/ donePending
IsHostOutputBackedUp == out # <<>> \/ busyError \/ donePending
MayReceive == tx # "sending" /\ ~IsHostOutputBackedUp

NothingReceived ==
  /\ pc = "radio"
  /\ pc' = "loop"
  /\ UNCHANGED <<output, busyError, done, sender, settings>>

(* onPacketReceived: the packet, then its RxMeta if the packet was queued.  *)
Receive ==
  /\ pc = "radio" /\ MayReceive
  /\ LET data == FrameOf(IF signalReport THEN "data" ELSE "plain")
         meta == FrameOf("meta")
     IN \/ /\ ~signalReport
           /\ Answer(data)
        \/ /\ signalReport
           /\ \E r \in Refused(out) : Give(out, r, StillOwed)
           /\ busyError' = TRUE
        \/ /\ signalReport
           /\ \E r \in Queued(out, data) :
                \/ /\ \E t \in Queued(r, meta) : Give(out \o <<data, meta>>, t, untold)
                   /\ UNCHANGED busyError
                \/ /\ \E t \in Refused(r) : Give(Append(out, data), t, StillOwed)
                   /\ busyError' = TRUE
  /\ pc' = "loop"
  /\ UNCHANGED <<done, sender, settings>>

-----------------------------------------------------------------------------
(* Time, and the radio.                                                    *)
TimePasses ==
  /\ tx \in {"wait_clear", "slot_wait", "delay", "sending"} /\ ~elapsed
  /\ elapsed' = TRUE
  /\ UNCHANGED <<pc, output, busyError, done, hasPending, pending, tx, radio, settings>>

PacketSent ==
  /\ radio = "sending"
  /\ radio' = "sent" /\ completed' = completed \cup {pending}
  /\ raced' = IF pc = "timer" THEN raced \cup {pending} ELSE raced
  /\ UNCHANGED <<pc, out, owed, untold, metaNext, busyError, done, hasPending, pending, tx,
                 elapsed, settings>>

Host ==
  \/ \E p \in Packet \ owed : AcceptData(p)
  \/ HandleCommand
  \/ \E b \in BOOLEAN : SetSignalReport(b) \/ SetFullDuplex(b)
  \/ Reboot

Pass ==
  \/ Write \/ HostPauses \/ EndOfInput
  \/ ProcessTx
  \/ WriteAgain \/ NothingRefused \/ TellRefusal
  \/ NothingReceived \/ Receive

Next == Host \/ Pass \/ TimePasses \/ PacketSent

(* loop() is called for ever and time passes; now and then the host reads  *)
(* what there is before it asks for more; and a random byte that may win   *)
(* does, unless the channel stays busy until the sender is forced.         *)
Fairness ==
  /\ WF_vars(Pass) /\ WF_vars(TimePasses)
  /\ SF_vars(EndOfInput)
  /\ SF_vars(HostPauses)
  /\ SF_vars(TxPersists \/ TxForced)

Spec == Init /\ [][Next]_vars
FairSpec == Spec /\ Fairness

-----------------------------------------------------------------------------
TypeOK ==
  /\ pc \in {"loop", "host", "tx", "timer", "flush", "refusal", "radio"}
  /\ out \in Seq(Frame) /\ Len(out) <= Depth
  /\ busyError \in BOOLEAN /\ donePending \in BOOLEAN /\ doneOk \in BOOLEAN
  /\ hasPending \in BOOLEAN /\ pending \in Packet \cup {NoPacket}
  /\ tx \in {"idle", "wait_clear", "slot_wait", "delay", "sending", "done_pending"}
  /\ elapsed \in BOOLEAN /\ radio \in {"idle", "sending", "sent"}
  /\ signalReport \in BOOLEAN /\ fullDuplex \in BOOLEAN
  /\ owed \in SUBSET Packet /\ completed \in SUBSET Packet /\ raced \in SUBSET Packet
  /\ untold \in {"none", "owed", "queued"} /\ metaNext \in BOOLEAN

(* Where the result of p is: still to come, or in a frame to the host.      *)
InHand(p) == hasPending /\ pending = p
Reports(p) == {i \in DOMAIN out : out[i].kind = "txdone" /\ out[i].pkt = p}

(* Each accepted packet gets its one TxDone: until the host has it, either  *)
(* the packet is in hand or one TxDone for it is queued, whatever else was  *)
(* refused or queued in between; and a packet not owed has none.            *)
ReportedOnce ==
  \A p \in Packet :
    /\ InHand(p) => p \in owed /\ Reports(p) = {}
    /\ p \in owed => InHand(p) \/ Reports(p) # {}
    /\ \A i, j \in Reports(p) : p \in owed /\ i = j

(* TxDone says success only of packets the radio has sent, and failure only  *)
(* of those it has not, or finished after isSendComplete was asked and     *)
(* before the timer was looked at: the result waits in its flag while      *)
(* timeouts, further packets and a full queue go by.                       *)
IsTrue(ok, p) ==
  /\ ok => p \in completed
  /\ p \in completed \ raced => ok

ReportIsTrue ==
  /\ donePending => IsTrue(doneOk, pending)
  /\ \A i \in DOMAIN out : out[i].kind = "txdone" => IsTrue(out[i].ok, out[i].pkt)

(* A received packet is followed by its RxMeta, without a frame between:   *)
(* in the queue, and across what the host has and what it has not yet.     *)
MetaFollows ==
  /\ \A i \in DOMAIN out :
       out[i].kind = "data" => i < Len(out) /\ out[i + 1].kind = "meta"
  /\ metaNext => out # <<>> /\ out[1].kind = "meta"

(* What is read from the radio is never refused for want of a slot: the    *)
(* main loop leaves it in the radio until nothing waits for the host.      *)
NothingReceivedIsRefused == [][pc = "radio" => busyError' = busyError]_vars

(* The host is given the result of every packet it has had accepted.       *)
DataIsReported == \A p \in Packet : p \in owed ~> p \notin owed

(* An answer that was refused is followed by an Error TxBusy.              *)
RefusedIsTold == untold = "owed" ~> untold = "none"

(* However the host has used it, once it asks for nothing more the modem    *)
(* reads the radio again and again: no flag or state is left behind that   *)
(* would keep it from it.                                                  *)
ReceivesAgain == []<><<Host>>_vars \/ []<>(pc = "radio" /\ MayReceive)
=============================================================================
