------------------------- MODULE RadioDriverProofs -------------------------
(***************************************************************************)
(* RadioDriver's word and its chip agree, for every choice of deadlines.   *)
(***************************************************************************)
EXTENDS RadioDriver, TLAPS

(* What the chip does fits the flags that are mapped.                      *)
ModeFitsMap ==
  /\ mode \in {"rx", "tx", "cad"} => map = mode
  /\ air # "none" => mode = "rx"
  /\ mode = "tx" => sending \/ pc = "launched"
  /\ mode = "cad" => pc = "scanning" /\ irq = {}

(* What each place inside a call has established.                          *)
Established ==
  /\ pc = "read" => intReady
  /\ pc \in {"start", "launch"} => state # "RX" \/ intReady
  /\ pc = "launch" => mode = "standby" /\ map = "rx" /\ irq = {}
  /\ pc = "started" =>
       mode = "rx" /\ map = "rx" /\ "rxdone" \notin irq /\ (air # "none" => spent = 0)
  /\ sending => pc \in {"ready", "finish", "standby"} /\ mode # "rx" /\ state # "RX"
  /\ pc \in {"finish", "standby"} => sending
  /\ pc = "launched" => map = "tx" /\ irq = {} /\ mode = "tx" /\ spent = 0

(* A header that came up after the poll's look is the beginning of a packet. *)
NewHeader ==
  /\ pc \in PollCalls /\ "header" \in irq /\ "header" \notin seen =>
       air = "payload" /\ spent = 0
  /\ pc \in {"scan", "agc"} /\ "header" \in irq => air = "payload" /\ spent = 0

(* Where STATE_INT_READY means a received packet.                          *)
ReadyMeansPacket ==
  ~sending /\ pc \notin {"readDone", "scanning", "scanned", "launched"} =>
    (intReady => unread)

IInv ==
  /\ TypeOK /\ ModeFitsMap /\ Established /\ ReadyMeansPacket
  /\ NewHeader /\ HearsWhenInRx /\ SentMeansSent

USE DeadlineAssumption
    DEF DeadlineAssumption, Unset, MaxAge, Enabled, OnLine, Flags, PollCalls,
        PollFlags, Places

(* The driver starts with its inductive invariant.                         *)
LEMMA InitInv == Init => IInv
<1> SUFFICES ASSUME Init PROVE IInv OBVIOUS
<1> USE DEF Init
<1>1. TypeOK BY DEF TypeOK
<1>2. ModeFitsMap /\ Established /\ NewHeader
  BY DEF ModeFitsMap, Established, NewHeader
<1>3. ReadyMeansPacket /\ HearsWhenInRx /\ SentMeansSent
  BY DEF ReadyMeansPacket, HearsWhenInRx, SentMeansSent
<1> QED BY <1>1, <1>2, <1>3 DEF IInv

(* What a flag that comes up does, for each mapping the flags may have.     *)
LEMMA Latched ==
  ASSUME TypeOK, NEW f \in Flags, Latch(f)
  PROVE  /\ irq' \in SUBSET Flags /\ irq \subseteq irq' /\ irq' \subseteq irq \cup {f}
         /\ intReady' \in BOOLEAN
         /\ intReady => intReady'
         /\ map = "rx" /\ f # "rxdone" => (intReady' <=> intReady)
         /\ map = "rx" /\ f = "rxdone" /\ "rxdone" \notin irq => intReady'
         /\ map = "tx" /\ f = "txdone" => f \in irq'
<1>1. CASE map = "rx" BY <1>1 DEF TypeOK, Latch, LineUp
<1>2. CASE map = "tx" BY <1>2 DEF TypeOK, Latch, LineUp
<1>3. CASE map = "cad" BY <1>3 DEF TypeOK, Latch, LineUp
<1> QED BY <1>1, <1>2, <1>3 DEF TypeOK

(* Every event of the chip and every step of time keeps it.                *)
LEMMA ChipStep ==
  ASSUME IInv, Events \/ Tick
  PROVE  IInv'
<1> USE DEF IInv
<1>1. ASSUME NEW f \in {"preamble", "header", "headererr"}, Latch(f),
             air # "payload", f = "header" => air' = "payload",
             mode = "rx", mode' = mode, unread' = unread,
             air' \in {"none", "preamble", "payload"}, spent' = 0
      PROVE  IInv'
  <2>1. /\ irq' \in SUBSET Flags /\ irq \subseteq irq' /\ irq' \subseteq irq \cup {f}
        /\ intReady' \in BOOLEAN /\ (intReady' <=> intReady)
    BY <1>1, Latched DEF ModeFitsMap
  <2>2. UNCHANGED <<map, state, pc, sending, activity, headerSeen, seen>>
    BY <1>1 DEF Latch, poll
  <2>3. TypeOK' BY <1>1, <2>1, <2>2 DEF TypeOK
  <2>4. ModeFitsMap' /\ Established' /\ ReadyMeansPacket' /\ NewHeader'
    BY <1>1, <2>1, <2>2 DEF ModeFitsMap, Established, ReadyMeansPacket, NewHeader, TypeOK
  <2>5. HearsWhenInRx' /\ SentMeansSent'
    BY <1>1, <2>1, <2>2 DEF HearsWhenInRx, SentMeansSent, Settled
  <2> QED BY <2>3, <2>4, <2>5
<1>2. CASE PreambleHeard BY <1>1, <1>2 DEF PreambleHeard
<1>3. CASE HeaderHeard BY <1>1, <1>3 DEF HeaderHeard, ModeFitsMap
<1>4. CASE HeaderFails BY <1>1, <1>4 DEF HeaderFails, ModeFitsMap
<1>5. CASE PacketEnds
  <2> USE <1>5 DEF PacketEnds
  <2>1. mode = "rx" /\ map = "rx" /\ ~sending BY DEF ModeFitsMap, Established
  <2>2. /\ irq' \in SUBSET Flags /\ intReady' \in BOOLEAN
        /\ irq' \subseteq irq \cup {"rxdone"}
        /\ intReady => intReady'
        /\ "rxdone" \notin irq => intReady'
    BY <2>1, Latched
  <2>3. UNCHANGED <<map, state, pc, sending, activity, headerSeen, seen>>
    BY DEF Latch, poll
  <2>4. TypeOK' BY <2>2, <2>3 DEF TypeOK
  <2>5. ModeFitsMap' /\ Established' /\ ReadyMeansPacket' /\ NewHeader'
    BY <2>1, <2>2, <2>3 DEF ModeFitsMap, Established, ReadyMeansPacket, NewHeader, TypeOK
  <2>6. HearsWhenInRx' BY <2>1, <2>2, <2>3 DEF HearsWhenInRx, Settled, TypeOK
  <2>7. SentMeansSent' BY <2>1, <2>3 DEF SentMeansSent
  <2> QED BY <2>4, <2>5, <2>6, <2>7
<1>6. CASE TxEnds
  <2> USE <1>6 DEF TxEnds
  <2>1. map = "tx" /\ sending /\ air = "none" BY DEF ModeFitsMap, Established, TypeOK
  <2>2. irq' \in SUBSET Flags /\ intReady' \in BOOLEAN /\ "txdone" \in irq'
    BY <2>1, Latched
  <2>3. UNCHANGED <<map, state, pc, sending, activity, headerSeen, seen,
                 air, unread>>
    BY DEF Latch, poll
  <2>4. TypeOK' BY <2>2, <2>3 DEF TypeOK
  <2>5. ModeFitsMap' /\ Established' /\ ReadyMeansPacket' /\ NewHeader'
    BY <2>1, <2>3 DEF ModeFitsMap, Established, ReadyMeansPacket, NewHeader, TypeOK
  <2>6. HearsWhenInRx' /\ SentMeansSent'
    BY <2>1, <2>2, <2>3 DEF Established, HearsWhenInRx, SentMeansSent
  <2> QED BY <2>4, <2>5, <2>6
<1>7. CASE ScanEnds
  <2> USE <1>7 DEF ScanEnds
  <2>1. pc = "scanning" /\ ~sending BY DEF ModeFitsMap, Established
  <2>2. irq' \in SUBSET Flags /\ intReady' \in BOOLEAN BY Latched
  <2>3. UNCHANGED <<map, state, pc, sending, activity, headerSeen, seen,
                 air, spent, unread>>
    BY DEF Latch, poll
  <2>4. TypeOK' BY <2>2, <2>3 DEF TypeOK
  <2>5. ModeFitsMap' /\ Established' /\ ReadyMeansPacket' /\ NewHeader'
    BY <2>1, <2>3 DEF ModeFitsMap, Established, ReadyMeansPacket, NewHeader, TypeOK
  <2>6. HearsWhenInRx' /\ SentMeansSent'
    BY <2>1, <2>3 DEF HearsWhenInRx, SentMeansSent, Settled
  <2> QED BY <2>4, <2>5, <2>6
<1>8. CASE SignalLost
  BY <1>8 DEF SignalLost, TypeOK, ModeFitsMap, Established, ReadyMeansPacket, NewHeader,
              HearsWhenInRx, SentMeansSent, Settled, poll
<1>9. CASE Tick
  <2>1. TypeOK' BY <1>9 DEF Tick, TypeOK
  <2>2. ModeFitsMap' /\ Established' /\ ReadyMeansPacket' /\ NewHeader'
    BY <1>9 DEF Tick, TypeOK, ModeFitsMap, Established, ReadyMeansPacket, NewHeader
  <2>3. HearsWhenInRx' /\ SentMeansSent'
    BY <1>9 DEF Tick, HearsWhenInRx, SentMeansSent, Settled
  <2> QED BY <2>1, <2>2, <2>3
<1> QED BY <1>2, <1>3, <1>4, <1>5, <1>6, <1>7, <1>8, <1>9 DEF Events

(* Every step of the driver and its program keeps it.                      *)
LEMMA DriverStep ==
  ASSUME IInv, Driver
  PROVE  IInv'
<1> USE DEF IInv, TypeOK, ModeFitsMap, Established, ReadyMeansPacket, NewHeader, HearsWhenInRx,
            SentMeansSent, Settled, LineUp, chip, poll, Enter, Store, Goto
<1>1. CASE RecvRaw BY <1>1 DEF RecvRaw
<1>2. CASE ReadData BY <1>2 DEF ReadData
<1>3. CASE ReadReturns BY <1>3 DEF ReadReturns
<1>4. CASE StageReceive BY <1>4 DEF StageReceive
<1>5. CASE ReceiveFails BY <1>5 DEF ReceiveFails, NotStarted
<1>6. CASE LaunchReceive BY <1>6 DEF LaunchReceive
<1>7. CASE ReceiveStarted BY <1>7 DEF ReceiveStarted
<1>8. ASSUME NEW c \in PollCalls, ReadFlags(c) PROVE IInv'
  BY <1>8 DEF ReadFlags
<1>9. ASSUME NEW c \in PollCalls, IsReceivingPacket(c) PROVE IInv'
  <2> USE DEF Forget, Answer
  <2>1. CASE SeesHeaderError(c) BY <1>9, <2>1, ZenonT(40) DEF SeesHeaderError
  <2>2. CASE SeesHeaderGone(c) BY <1>9, <2>2, ZenonT(40) DEF SeesHeaderGone
  <2>3. CASE SeesHeader(c)
    <3>1. HeaderAge \in {Unset} \cup 0..MaxAge BY DEF HeaderAge
    <3>2. CASE HeaderAge > PayloadMillis
      <4>1. TypeOK'
        <5>1. irq' \in SUBSET Flags /\ seen' \in SUBSET Flags
          BY <1>9, <2>3, <3>1, <3>2 DEF SeesHeader, GivenUp
        <5>2. activity' \in {Unset} \cup 0..MaxAge /\ headerSeen' \in BOOLEAN
          BY <1>9, <2>3, <3>1, <3>2 DEF SeesHeader, GivenUp
        <5>3. pc' \in Places BY <1>9, <2>3, <3>1, <3>2 DEF SeesHeader, GivenUp
        <5>4. UNCHANGED <<mode, map, air, spent, unread, state, intReady, sending>>
          BY <1>9, <2>3, <3>1, <3>2 DEF SeesHeader, GivenUp
        <5> QED BY <5>1, <5>2, <5>3, <5>4
      <4>2. /\ ModeFitsMap' /\ Established' /\ ReadyMeansPacket' /\ NewHeader'
            /\ HearsWhenInRx' /\ SentMeansSent'
        BY <1>9, <2>3, <3>1, <3>2 DEF SeesHeader, GivenUp
      <4> QED BY <4>1, <4>2
    <3>3. CASE HeaderAge <= PayloadMillis
      <4>1. pc' = "ready" /\ seen' = {}
        BY <1>9, <2>3, <3>1, <3>3 DEF SeesHeader
      <4>2. UNCHANGED <<mode, irq, map, air, spent, unread, state, intReady, sending>>
        BY <1>9, <2>3, <3>1, <3>3 DEF SeesHeader
      <4>3. activity' \in {Unset} \cup 0..MaxAge /\ headerSeen' \in BOOLEAN
        BY <1>9, <2>3, <3>1, <3>3 DEF SeesHeader
      <4>4. TypeOK' BY <4>1, <4>2, <4>3
      <4> QED BY <1>9, <2>3, <4>1, <4>2, <4>4 DEF SeesHeader
    <3> QED BY <3>2, <3>3, <2>3 DEF SeesHeader
  <2>4. CASE SeesPreamble(c)
    <3>1. PreambleAge \in 0..MaxAge BY DEF PreambleAge
    <3>2. CASE PreambleAge > PreambleMillis
      <4>1. TypeOK'
        <5>1. irq' \in SUBSET Flags /\ seen' \in SUBSET Flags
          BY <1>9, <2>4, <3>1, <3>2 DEF SeesPreamble
        <5>2. activity' \in {Unset} \cup 0..MaxAge /\ headerSeen' \in BOOLEAN
          BY <1>9, <2>4, <3>1, <3>2 DEF SeesPreamble
        <5>3. pc' \in Places BY <1>9, <2>4, <3>1, <3>2 DEF SeesPreamble
        <5>4. UNCHANGED <<mode, map, air, spent, unread, state, intReady, sending>>
          BY <1>9, <2>4, <3>1, <3>2 DEF SeesPreamble
        <5> QED BY <5>1, <5>2, <5>3, <5>4
      <4>2. /\ ModeFitsMap' /\ Established' /\ ReadyMeansPacket' /\ NewHeader'
            /\ HearsWhenInRx' /\ SentMeansSent'
        BY <1>9, <2>4, <3>1, <3>2 DEF SeesPreamble
      <4> QED BY <4>1, <4>2
    <3>3. CASE PreambleAge <= PreambleMillis
      <4>1. pc' = "ready" /\ seen' = {}
        BY <1>9, <2>4, <3>1, <3>3 DEF SeesPreamble
      <4>2. UNCHANGED <<mode, irq, map, air, spent, unread, state, intReady, sending>>
        BY <1>9, <2>4, <3>1, <3>3 DEF SeesPreamble
      <4>3. activity' \in {Unset} \cup 0..MaxAge /\ headerSeen' \in BOOLEAN
        BY <1>9, <2>4, <3>1, <3>3 DEF SeesPreamble
      <4>4. TypeOK' BY <4>1, <4>2, <4>3
      <4> QED BY <1>9, <2>4, <4>1, <4>2, <4>4 DEF SeesPreamble
    <3> QED BY <3>2, <3>3, <2>4 DEF SeesPreamble
  <2>5. CASE SeesNothing(c) BY <1>9, <2>5, ZenonT(40) DEF SeesNothing
  <2> QED BY <1>9, <2>1, <2>2, <2>3, <2>4, <2>5 DEF IsReceivingPacket
<1>10. CASE ResetAGC BY <1>10 DEF ResetAGC
<1>11. CASE StartScan
  <2>1. TypeOK'
    <3>1. CASE mode' = "cad" BY <1>11, <3>1 DEF StartScan
    <3>2. CASE mode' = "standby"
      <4>1. UNCHANGED <<map, irq, unread, state, intReady, activity, headerSeen,
                     seen, sending>>
        BY <1>11, <3>2 DEF StartScan
      <4>2. air' = "none" /\ spent' = 0 /\ pc' = "scanned"
        BY <1>11, <3>2 DEF StartScan
      <4> QED BY <3>2, <4>1, <4>2
    <3> QED BY <1>11, <3>1, <3>2 DEF StartScan
  <2>2. ModeFitsMap' /\ Established' /\ NewHeader' BY <1>11 DEF StartScan
  <2>3. ReadyMeansPacket' /\ HearsWhenInRx' /\ SentMeansSent' BY <1>11 DEF StartScan
  <2> QED BY <2>1, <2>2, <2>3
<1>12. CASE ScanReturns
  <2>1. mode # "cad" BY <1>12 DEF ScanReturns
  <2> QED BY <1>12, <2>1 DEF ScanReturns
<1>13. CASE ClearScan BY <1>13 DEF ClearScan, ForgetScan
<1>14. CASE StartSendRaw BY <1>14 DEF StartSendRaw
<1>15. CASE SendFails BY <1>15, ZenonT(40) DEF SendFails
<1>16. CASE SendStarted BY <1>16 DEF SendStarted, Transmitting
<1>17. CASE SendComplete BY <1>17 DEF SendComplete, Transmitted
<1>18. CASE SendTimeout BY <1>18 DEF SendTimeout
<1>19. CASE FinishTransmit BY <1>19 DEF FinishTransmit
<1>20. CASE OnSendFinished BY <1>20 DEF OnSendFinished
<1>21. CASE LooksAgain BY <1>21 DEF LooksAgain, NotReceiving
<1> QED
  BY <1>1, <1>2, <1>3, <1>4, <1>5, <1>6, <1>7, <1>8, <1>9, <1>10, <1>11, <1>12,
     <1>13, <1>14, <1>15, <1>16, <1>17, <1>18, <1>19, <1>20, <1>21
  DEF Driver

(* A step that changes nothing keeps it.                                   *)
LEMMA Stutter == IInv /\ UNCHANGED vars => IInv'
  BY DEF IInv, TypeOK, ModeFitsMap, Established, ReadyMeansPacket, NewHeader, HearsWhenInRx,
         SentMeansSent, Settled, vars, chip, poll

(* The inductive invariant holds in every behaviour.                       *)
THEOREM WordFitsChip == Spec => []IInv
<1>1. IInv /\ [Next]_vars => IInv'
  BY ChipStep, DriverStep, Stutter DEF Next
<1> QED BY InitInv, <1>1, PTL DEF Spec

(* The driver's word, its poll and the chip keep their types.              *)
THEOREM RadioTypeCorrect == Spec => []TypeOK
  BY WordFitsChip, PTL DEF IInv

(* While the driver's word says RX without an interrupt the chip listens,   *)
(* and the next packet will raise the line.                                 *)
THEOREM NeverDeaf == Spec => []HearsWhenInRx
  BY WordFitsChip, PTL DEF IInv

(* recvRaw reads the chip only when a packet has arrived.                  *)
THEOREM OnlyPacketsAreRead == Spec => []ReadsWhatArrived
<1>1. IInv => ReadsWhatArrived
  BY DEF IInv, Established, ReadyMeansPacket, ReadsWhatArrived
<1> QED BY WordFitsChip, <1>1, PTL

(* A send counts as sent only when the chip has transmitted it.            *)
THEOREM OnlySentIsComplete == Spec => []SentMeansSent
  BY WordFitsChip, PTL DEF IInv

(* No scan and no reset of the AGC throws an unread packet away.           *)
THEOREM UnreadIsKept == Spec => []PacketsAreKept
<1>1. IInv => PacketsAreKept
  BY DEF IInv, NewHeader, PacketsAreKept
<1> QED BY WordFitsChip, <1>1, PTL

=============================================================================
