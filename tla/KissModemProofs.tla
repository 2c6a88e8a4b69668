--------------------------- MODULE KissModemProofs ---------------------------
(* Proofs about KissModem, for every set of packets and every queue of two  *)
(* slots or more.                                                          *)
EXTENDS KissModem, SequenceTheorems, TLAPS

-----------------------------------------------------------------------------
(* The inductive invariant.                                                *)

(* A stream s of frames to the host, when the packets ow are owed to it,   *)
(* the radio has sent co of them, ra of these between two tests, and it     *)
(* expects an RxMeta if mn.                                                *)
Sound(s, ow, co, ra, mn) ==
  /\ s \in Seq(Frame)
  /\ \A i \in 1..Len(s) :
       IF s[i].kind = "txdone"
       THEN /\ s[i].pkt \in ow
            /\ (s[i].ok => s[i].pkt \in co) /\ (s[i].pkt \in co \ ra => s[i].ok)
       ELSE s[i].pkt = NoPacket
  /\ \A i, j \in 1..Len(s) :
       s[i].kind = "txdone" /\ s[j].kind = "txdone" /\ s[i].pkt = s[j].pkt => i = j
  /\ \A i \in 1..Len(s) : s[i].kind = "data" => i < Len(s) /\ s[i + 1].kind = "meta"
  /\ mn => Len(s) > 0 /\ s[1].kind = "meta"

HasReport(s, p) == \E i \in 1..Len(s) : s[i].kind = "txdone" /\ s[i].pkt = p

(* The states of the transmission, the flags and the radio go together.    *)
Phases ==
  /\ donePending <=> tx = "done_pending"
  /\ tx # "idle" => hasPending
  /\ hasPending => pending \in owed
  /\ radio # "idle" <=> tx = "sending"
  /\ tx = "sending" => (radio = "sent" <=> pending \in completed)
  /\ pc = "timer" => tx = "sending" /\ (pending \in completed => pending \in raced)
  /\ hasPending /\ tx \notin {"sending", "done_pending"} => pending \notin completed
  /\ donePending => IsTrue(doneOk, pending)
  /\ completed \subseteq owed /\ raced \subseteq completed

Ledger ==
  /\ hasPending => ~HasReport(out, pending)
  /\ \A p \in owed : InHand(p) \/ HasReport(out, p)

IInv ==
  /\ TypeOK
  /\ Phases
  /\ Sound(out, owed, completed, raced, metaNext)
  /\ Ledger

-----------------------------------------------------------------------------
(* SubSeq, for the parts of a sequence used here.                           *)
LEMMA PartOfSequence ==
  ASSUME NEW S, NEW q \in Seq(S), NEW m \in 1..Len(q) + 1, NEW n \in m - 1..Len(q)
  PROVE  /\ SubSeq(q, m, n) \in Seq(S)
         /\ Len(SubSeq(q, m, n)) = n - m + 1
         /\ \A i \in 1..n - m + 1 : SubSeq(q, m, n)[i] = q[m + i - 1]
<1>1. m \in Int /\ n \in Int /\ \A i \in m..n : q[i] \in S
  OBVIOUS
<1> QED
  BY <1>1, SubSeqProperties

(* A second element appended to a sequence of one.                          *)
LEMMA AppendedToOne ==
  ASSUME NEW S, NEW q \in Seq(S), NEW e \in S, Len(q) = 1
  PROVE  Append(q, e)[1] = q[1] /\ Append(q, e)[2] = e
<1> DEFINE a == Append(q, e)
           n == Len(q)
<1>1. n \in Nat /\ a[n + 1] = e /\ \A i \in 1..n : a[i] = q[i]
  OBVIOUS
<1>2. n = 1
  OBVIOUS
<1> HIDE DEF a, n
<1>3. a[1] = q[1] /\ a[2] = e
  BY <1>1, <1>2
<1> QED
  BY <1>3 DEF a

(* r is what is left of s when its first frames are gone.                  *)
IsRest(r, s) ==
  /\ r \in Seq(Frame) /\ Len(r) <= Len(s)
  /\ \A i \in 1..Len(r) : r[i] = s[Len(s) - Len(r) + i]

LEMMA FlushedIsRest ==
  ASSUME NEW q \in Seq(Frame), NEW r \in Flushed(q)
  PROVE  IsRest(r, q)
<1>1. PICK n \in 1..Len(q) + 1 : r = SubSeq(q, n, Len(q))
  BY DEF Flushed
<1> DEFINE l == Len(q)
<1>2. n \in 1..l + 1 /\ l \in n - 1..l
  OBVIOUS
<1>3. /\ r \in Seq(Frame) /\ Len(r) = l - n + 1
      /\ \A i \in 1..l - n + 1 : r[i] = q[n + i - 1]
  <2> HIDE DEF Frame
  <2> QED
    BY <1>1, <1>2, PartOfSequence
<1>4. Len(r) <= l /\ \A i \in 1..Len(r) : n + i - 1 = l - Len(r) + i
  BY <1>2, <1>3
<1>5. \A i \in 1..Len(r) : r[i] = q[l - Len(r) + i]
  BY <1>3, <1>4
<1> QED
  BY <1>3, <1>4, <1>5 DEF IsRest

(* A queue that takes a frame has room for it.                              *)
LEMMA QueuedIsRest ==
  ASSUME NEW q \in Seq(Frame), Len(q) <= Depth, NEW f \in Frame, NEW r \in Queued(q, f)
  PROVE  IsRest(r, Append(q, f)) /\ Len(r) <= Depth
<1>1. CASE Full(q)
  <2>1. r \in Flushed(<<f>>) /\ <<f>> \in Seq(Frame)
    BY <1>1 DEF Queued
  <2>2. IsRest(r, <<f>>)
    <3> DEFINE one == <<f>>
    <3>1. one \in Seq(Frame) /\ r \in Flushed(one)
      BY <2>1
    <3> HIDE DEF one
    <3>2. IsRest(r, one)
      BY <3>1, FlushedIsRest
    <3> QED
      BY <3>2 DEF one
  <2>3. Len(r) <= 1 /\ \A i \in 1..Len(r) : i = 1 /\ Len(r) = 1 /\ r[i] = f
    BY <2>2 DEF IsRest
  <2>4. \A i \in 1..Len(r) : r[i] = Append(q, f)[Len(Append(q, f)) - Len(r) + i]
    BY <2>3
  <2> QED
    BY <2>2, <2>3, <2>4, KissAssumption DEF IsRest
<1>2. CASE ~Full(q)
  <2>1. r \in Flushed(Append(q, f)) /\ Len(q) < Depth
    BY <1>2, KissAssumption DEF Queued, Full
  <2>2. IsRest(r, Append(q, f))
    <3>1. Append(q, f) \in Seq(Frame)
      <4> HIDE DEF Frame
      <4> QED
        OBVIOUS
    <3> QED
      BY <2>1, <3>1, FlushedIsRest
  <2>3. Len(r) \in Nat /\ Len(q) \in Nat /\ Len(r) <= Len(q) + 1
    BY <2>2 DEF IsRest
  <2> QED
    BY <2>1, <2>2, <2>3, KissAssumption
<1> QED
  BY <1>1, <1>2

(* A refusal leaves some of what was there.                                 *)
LEMMA RefusedIsRest ==
  ASSUME NEW q \in Seq(Frame), NEW r \in Refused(q)
  PROVE  IsRest(r, q) /\ Full(q)
BY FlushedIsRest DEF Refused

(* Giving the host a part of a sound stream leaves a sound one: whoever is  *)
(* owed a report afterwards had none among the frames given.                *)
LEMMA GiveIsSound ==
  ASSUME NEW s, NEW r, NEW u, Sound(s, owed, completed, raced, metaNext), IsRest(r, s),
         owed \in SUBSET Packet, Give(s, r, u)
  PROVE  /\ out' = r
         /\ owed' \subseteq owed
         /\ Sound(out', owed', completed', raced', metaNext')
         /\ \A p \in owed' : p \in completed' <=> p \in completed
         /\ \A p \in owed' : p \in raced' <=> p \in raced
         /\ completed \subseteq owed => completed' \subseteq owed'
         /\ raced \subseteq completed => raced' \subseteq completed'
         /\ \A p \in owed' : HasReport(s, p) => HasReport(out', p)
         /\ \A p \in owed : ~HasReport(s, p) => p \in owed'
         /\ \A p : HasReport(out', p) => HasReport(s, p)
         /\ metaNext \in BOOLEAN => metaNext' \in BOOLEAN
<1> DEFINE k == Len(s) - Len(r)
           given == SubSeq(s, 1, k)
           Given == {given[i].pkt : i \in DOMAIN given}
<1>1. s \in Seq(Frame) /\ r \in Seq(Frame) /\ k \in 0..Len(s) /\ Len(s) = k + Len(r)
  BY DEF Sound, IsRest
<1>2. /\ given \in Seq(Frame) /\ Len(given) = k
      /\ \A i \in 1..k : given[i] = s[i]
  <2>1. 1 \in 1..Len(s) + 1 /\ k \in 1 - 1..Len(s)
    BY <1>1
  <2>2. /\ given \in Seq(Frame) /\ Len(given) = k - 1 + 1
        /\ \A i \in 1..k - 1 + 1 : given[i] = s[1 + i - 1]
    <3> HIDE DEF Frame, k
    <3> QED
      BY <1>1, <2>1, PartOfSequence
  <2>3. k - 1 + 1 = k /\ \A i \in 1..k : 1 + i - 1 = i
    BY <1>1
  <2> QED
    BY <2>2, <2>3
<1>3. DOMAIN given = 1..k /\ Given = {s[i].pkt : i \in 1..k}
  <2>1. DOMAIN given = 1..k
    <3> HIDE DEF Frame, given, k
    <3> QED
      BY <1>1, <1>2
  <2> HIDE DEF given, k
  <2> QED
    BY <1>2, <2>1
<1>4. \A i \in 1..Len(r) : r[i] = s[k + i]
  BY DEF IsRest
<1>5. /\ out' = r /\ owed' = owed \ Given /\ completed' = completed \ Given
      /\ raced' = raced \ Given
  BY DEF Give
<1>6. metaNext' = IF given = <<>> THEN metaNext ELSE given[Len(given)].kind = "data"
  BY DEF Give
<1>7. metaNext' = IF k = 0 THEN metaNext ELSE s[k].kind = "data"
  <2>1. given = <<>> <=> k = 0
    <3> HIDE DEF Frame, given, k
    <3> QED
      BY <1>2
  <2>2. k # 0 => given[Len(given)] = s[k]
    BY <1>1, <1>2
  <2> QED
    BY <1>6, <2>1, <2>2
<1> HIDE DEF k, given, Given
(* A frame that is left has not been given, nor has another for its packet. *)
<1>8. ASSUME NEW i \in 1..Len(r), r[i].kind = "txdone"
      PROVE  /\ r[i].pkt \in owed' /\ (r[i].pkt \in completed' <=> r[i].pkt \in completed)
             /\ r[i].pkt \in raced' <=> r[i].pkt \in raced
  <2>1. k + i \in 1..Len(s) /\ r[i] = s[k + i]
    BY <1>1, <1>4
  <2>2. r[i].pkt \in owed
    BY <1>8, <2>1 DEF Sound
  <2>3. ASSUME NEW j \in 1..k PROVE s[j].pkt # r[i].pkt
    <3>1. j \in 1..Len(s) /\ j # k + i
      BY <1>1
    <3>2. CASE s[j].kind = "txdone"
      BY <1>8, <2>1, <3>1, <3>2 DEF Sound
    <3>3. CASE s[j].kind # "txdone"
      BY <2>2, <3>1, <3>3, KissAssumption DEF Sound
    <3> QED
      BY <3>2, <3>3
  <2> QED
    BY <1>3, <1>5, <2>2, <2>3
<1>9. \A i \in 1..Len(r) : k + i \in 1..Len(s) /\ r[i] = s[k + i]
  BY <1>1, <1>4
<1>10. Sound(r, owed', completed', raced', metaNext')
  <2>1. \A i \in 1..Len(r) :
          IF r[i].kind = "txdone"
          THEN /\ r[i].pkt \in owed'
               /\ (r[i].ok => r[i].pkt \in completed')
               /\ (r[i].pkt \in completed' \ raced' => r[i].ok)
          ELSE r[i].pkt = NoPacket
    BY <1>8, <1>9 DEF Sound
  <2>2. ASSUME NEW i \in 1..Len(r), NEW j \in 1..Len(r),
               r[i].kind = "txdone", r[j].kind = "txdone", r[i].pkt = r[j].pkt
        PROVE  i = j
    <3>1. k + i = k + j
      BY <1>9, <2>2 DEF Sound
    <3> QED
      BY <1>1, <3>1
  <2>3. ASSUME NEW i \in 1..Len(r), r[i].kind = "data"
        PROVE  i < Len(r) /\ r[i + 1].kind = "meta"
    <3>1. k + i < Len(s) /\ s[(k + i) + 1].kind = "meta"
      BY <1>9, <2>3 DEF Sound
    <3>2. i + 1 \in 1..Len(r) /\ k + (i + 1) = (k + i) + 1
      BY <1>1, <3>1
    <3> QED
      BY <1>9, <3>1, <3>2
  <2>4. ASSUME metaNext' PROVE Len(r) > 0 /\ r[1].kind = "meta"
    <3>1. CASE k = 0
      <4>1. Len(s) > 0 /\ s[1].kind = "meta"
        BY <1>7, <2>4, <3>1 DEF Sound
      <4> QED
        BY <1>1, <1>9, <3>1, <4>1
    <3>2. CASE k > 0
      <4>0. k # 0 /\ k \in 1..Len(s)
        BY <1>1, <3>2
      <4>1. s[k].kind = "data"
        BY <1>7, <2>4, <4>0, Zenon
      <4>2. k < Len(s) /\ s[k + 1].kind = "meta"
        BY <4>0, <4>1 DEF Sound
      <4> QED
        BY <1>1, <1>9, <4>2
    <3> QED
      BY <1>1, <3>1, <3>2
  <2> QED
    BY <1>1, <2>1, <2>2, <2>3, <2>4 DEF Sound
<1>11. ASSUME NEW p \in owed', HasReport(s, p) PROVE HasReport(r, p)
  <2>1. PICK i \in 1..Len(s) : s[i].kind = "txdone" /\ s[i].pkt = p
    BY <1>11 DEF HasReport
  <2>2. i \notin 1..k
    BY <1>3, <1>5, <2>1
  <2>3. i - k \in 1..Len(r) /\ k + (i - k) = i
    BY <1>1, <2>2
  <2> QED
    BY <1>9, <2>1, <2>3 DEF HasReport
<1>12. ASSUME NEW p \in owed, ~HasReport(s, p) PROVE p \in owed'
  <2>1. p # NoPacket
    BY KissAssumption
  <2>2. \A i \in 1..k : i \in 1..Len(s) /\ s[i].pkt # p
    BY <1>1, <1>12, <2>1 DEF HasReport, Sound
  <2> QED
    BY <1>3, <1>5, <2>2
<1>13. \A p : HasReport(r, p) => HasReport(s, p)
  BY <1>9 DEF HasReport
<1>14. metaNext \in BOOLEAN => metaNext' \in BOOLEAN
  BY <1>7
<1> QED
  BY <1>5, <1>10, <1>11, <1>12, <1>13, <1>14
-----------------------------------------------------------------------------
(* Steps that write to the host.                                           *)

Untold == {"none", "owed", "queued"}

(* What every step that queues an answer, or writes, does to the output.    *)
Written ==
  /\ out' \in Seq(Frame) /\ Len(out') <= Depth
  /\ owed' \subseteq owed /\ completed' \subseteq owed' /\ raced' \subseteq completed'
  /\ Sound(out', owed', completed', raced', metaNext')
  /\ \A p \in owed' : p \in completed' <=> p \in completed
  /\ \A p \in owed' : p \in raced' <=> p \in raced
  /\ \A p \in owed' : HasReport(out, p) => HasReport(out', p)
  /\ \A p \in owed : ~HasReport(out, p) => p \in owed'
  /\ \A p : HasReport(out', p) => HasReport(out, p)
  /\ metaNext' \in BOOLEAN /\ untold' \in Untold

(* A frame that asks for no RxMeta and reports nothing.                    *)
Plain(f) == f \in Frame /\ f.kind \notin {"txdone", "data"} /\ f.pkt = NoPacket

LEMMA PlainIsSound ==
  ASSUME NEW s, NEW ow, NEW co, NEW ra, NEW mn, Sound(s, ow, co, ra, mn), NEW f, Plain(f)
  PROVE  /\ Sound(Append(s, f), ow, co, ra, mn)
         /\ \A p : HasReport(Append(s, f), p) <=> HasReport(s, p)
<1> DEFINE a == Append(s, f)
           n == Len(s)
<1>1. s \in Seq(Frame) /\ n \in Nat /\ f \in Frame
  BY DEF Sound, Plain
<1>2. /\ a \in Seq(Frame) /\ Len(a) = n + 1 /\ a[n + 1] = f
      /\ \A i \in 1..n : a[i] = s[i]
  <2> HIDE DEF Frame
  <2> QED
    BY <1>1
<1> HIDE DEF a
<1>3. \A i \in 1..Len(a) : i \in 1..n \/ i = n + 1
  BY <1>1, <1>2
<1>4. \A i \in 1..n : i \in 1..Len(a)
  BY <1>1, <1>2
<1>5. ASSUME NEW i \in 1..Len(a), a[i].kind \in {"txdone", "data"}
      PROVE  i \in 1..n /\ a[i] = s[i]
  BY <1>2, <1>3, <1>5 DEF Plain
<1>6. \A i \in 1..Len(a) : IF a[i].kind = "txdone"
                           THEN /\ a[i].pkt \in ow
                                /\ (a[i].ok => a[i].pkt \in co)
                                /\ (a[i].pkt \in co \ ra => a[i].ok)
                           ELSE a[i].pkt = NoPacket
  BY <1>2, <1>3 DEF Sound, Plain
<1>7. \A i, j \in 1..Len(a) :
        a[i].kind = "txdone" /\ a[j].kind = "txdone" /\ a[i].pkt = a[j].pkt => i = j
  BY <1>5 DEF Sound
<1>8. ASSUME NEW i \in 1..Len(a), a[i].kind = "data"
      PROVE  i < Len(a) /\ a[i + 1].kind = "meta"
  <2>1. i \in 1..n /\ s[i].kind = "data"
    BY <1>5, <1>8
  <2>2. i < n /\ s[i + 1].kind = "meta"
    BY <2>1 DEF Sound
  <2> QED
    BY <1>1, <1>2, <2>1, <2>2
<1>9. mn => Len(a) > 0 /\ a[1].kind = "meta"
  <2>1. mn => 1 \in 1..n /\ s[1].kind = "meta"
    BY <1>1 DEF Sound
  <2> QED
    BY <1>1, <1>2, <2>1
<1>10. Sound(a, ow, co, ra, mn)
  BY <1>2, <1>6, <1>7, <1>8, <1>9 DEF Sound
<1>11. \A p : HasReport(a, p) <=> HasReport(s, p)
  BY <1>2, <1>4, <1>5 DEF HasReport
<1> QED
  BY <1>10, <1>11 DEF a

LEMMA UntoldIsTyped ==
  ASSUME NEW s, NEW r, NEW u \in Untold, Give(s, r, u)
  PROVE  untold' \in Untold
BY DEF Give, Untold

(* The host is given a part of what is queued.                              *)
LEMMA GivingWrites ==
  ASSUME IInv, NEW r, NEW u \in Untold, IsRest(r, out), Give(out, r, u)
  PROVE  Written
<1>1. owed \in SUBSET Packet /\ Len(out) <= Depth /\ metaNext \in BOOLEAN
  BY DEF IInv, TypeOK
<1>2. Sound(out, owed, completed, raced, metaNext) /\ completed \subseteq owed /\ raced \subseteq completed
  BY DEF IInv, Phases
<1>3. r \in Seq(Frame) /\ Len(r) <= Depth
  BY <1>1, KissAssumption DEF IsRest, IInv, TypeOK
<1> QED
  BY <1>1, <1>2, <1>3, GiveIsSound, UntoldIsTyped DEF Written

(* ... or a plain frame is queued first.                                    *)
LEMMA QueuingWrites ==
  ASSUME IInv, NEW f, Plain(f), NEW r \in Queued(out, f), NEW u \in Untold,
         Give(Append(out, f), r, u)
  PROVE  Written
<1>1. owed \in SUBSET Packet /\ Len(out) <= Depth /\ metaNext \in BOOLEAN
      /\ out \in Seq(Frame) /\ f \in Frame
  BY DEF IInv, TypeOK, Plain
<1>2. Sound(out, owed, completed, raced, metaNext) /\ completed \subseteq owed /\ raced \subseteq completed
  BY DEF IInv, Phases
<1>3. IsRest(r, Append(out, f)) /\ Len(r) <= Depth /\ r \in Seq(Frame)
  BY <1>1, QueuedIsRest DEF IsRest
<1>4. /\ Sound(Append(out, f), owed, completed, raced, metaNext)
      /\ \A p : HasReport(Append(out, f), p) <=> HasReport(out, p)
  BY <1>2, PlainIsSound
<1> QED
  BY <1>1, <1>2, <1>3, <1>4, GiveIsSound, UntoldIsTyped DEF Written

LEMMA AnswerWrites ==
  ASSUME IInv, NEW f, Plain(f), Answer(f)
  PROVE  Written /\ busyError' \in BOOLEAN
<1>1. untold \in Untold /\ StillOwed \in Untold /\ busyError \in BOOLEAN /\ out \in Seq(Frame)
  BY DEF IInv, TypeOK, Untold, StillOwed
<1>2. CASE \E r \in Queued(out, f) : Give(Append(out, f), r, untold) /\ UNCHANGED busyError
  BY <1>1, <1>2, QueuingWrites
<1>3. CASE \E r \in Refused(out) : Give(out, r, StillOwed) /\ busyError' = TRUE
  BY <1>1, <1>3, RefusedIsRest, GivingWrites
<1> QED
  BY <1>2, <1>3 DEF Answer

(* A step that only writes keeps the invariant.                             *)
LEMMA WritingKeepsInv ==
  ASSUME IInv, Written, UNCHANGED <<done, sender>>, busyError' \in BOOLEAN,
         pc' \in {"loop", "host", "tx", "flush", "refusal", "radio"},
         signalReport' \in BOOLEAN, fullDuplex' \in BOOLEAN
  PROVE  IInv'
<1>1. TypeOK'
  BY DEF IInv, TypeOK, Written, Untold, done, sender
<1>2. Phases'
  BY DEF IInv, Phases, Ledger, Written, done, sender, IsTrue
<1>3. Ledger'
  BY DEF IInv, Phases, Ledger, Written, done, sender, InHand, IsTrue
<1>4. Sound(out, owed, completed, raced, metaNext)'
  BY DEF Written
<1> QED
  BY <1>1, <1>2, <1>3, <1>4 DEF IInv
(* The report of the packet in hand is queued: the packet is out of hand    *)
(* and its report in the queue.                                            *)
LEMMA ReportKeepsInv ==
  ASSUME IInv, TxReport
  PROVE  IInv'
<1> DEFINE f == TxDone(pending, doneOk)
           a == Append(out, f)
           n == Len(out)
<1>1. /\ out \in Seq(Frame) /\ n <= Depth /\ owed \in SUBSET Packet
      /\ doneOk \in BOOLEAN /\ untold \in Untold /\ metaNext \in BOOLEAN
      /\ Sound(out, owed, completed, raced, metaNext)
  BY DEF IInv, TypeOK, Untold
<1>2. /\ hasPending /\ donePending /\ pending \in owed /\ completed \subseteq owed
      /\ raced \subseteq completed /\ IsTrue(doneOk, pending)
      /\ ~HasReport(out, pending)
  BY DEF IInv, Phases, Ledger, TxReport
<1>3. f \in Frame /\ f.kind = "txdone" /\ f.pkt = pending /\ f.ok = doneOk
  BY <1>1, <1>2 DEF TxDone, Frame, Kinds
<1>4. /\ a \in Seq(Frame) /\ Len(a) = n + 1 /\ a[n + 1] = f /\ n \in Nat
      /\ \A i \in 1..n : a[i] = out[i]
  <2> HIDE DEF Frame, f
  <2> QED
    BY <1>1, <1>3
<1> HIDE DEF f, a
<1>5. \A i \in 1..Len(a) : (i \in 1..n /\ a[i] = out[i]) \/ (i = n + 1 /\ a[i] = f)
  BY <1>4
<1>6. Sound(a, owed, completed, raced, metaNext)
  <2>1. \A i \in 1..Len(a) : IF a[i].kind = "txdone"
                             THEN /\ a[i].pkt \in owed
                                  /\ (a[i].ok => a[i].pkt \in completed)
                                  /\ (a[i].pkt \in completed \ raced => a[i].ok)
                             ELSE a[i].pkt = NoPacket
    BY <1>1, <1>2, <1>3, <1>5 DEF Sound, IsTrue
  <2>2. ASSUME NEW i \in 1..Len(a), NEW j \in 1..Len(a),
               a[i].kind = "txdone", a[j].kind = "txdone", a[i].pkt = a[j].pkt
        PROVE  i = j
    <3>1. CASE i \in 1..n /\ j \in 1..n
      BY <1>1, <1>4, <2>2, <3>1 DEF Sound
    <3>2. CASE i = n + 1 \/ j = n + 1
      BY <1>2, <1>3, <1>5, <2>2, <3>2 DEF HasReport
    <3> QED
      BY <1>5, <3>1, <3>2
  <2>3. ASSUME NEW i \in 1..Len(a), a[i].kind = "data"
        PROVE  i < Len(a) /\ a[i + 1].kind = "meta"
    <3>1. i \in 1..n /\ out[i].kind = "data"
      BY <1>3, <1>5, <2>3
    <3>2. i < n /\ out[i + 1].kind = "meta"
      BY <1>1, <3>1 DEF Sound
    <3> QED
      BY <1>4, <3>1, <3>2
  <2>4. metaNext => Len(a) > 0 /\ a[1].kind = "meta"
    <3>1. metaNext => 1 \in 1..n /\ out[1].kind = "meta"
      BY <1>1, <1>4 DEF Sound
    <3> QED
      BY <1>4, <3>1
  <2> QED
    BY <1>4, <2>1, <2>2, <2>3, <2>4 DEF Sound
<1>7. /\ HasReport(a, pending)
      /\ \A p : HasReport(a, p) <=> HasReport(out, p) \/ p = pending
  <2>1. \A i \in 1..n : i \in 1..Len(a)
    BY <1>4
  <2>2. n + 1 \in 1..Len(a)
    BY <1>4
  <2> QED
    BY <1>3, <1>4, <1>5, <2>1, <2>2 DEF HasReport
<1>8. PICK r \in Queued(out, f) : Give(a, r, untold)
  BY DEF TxReport, f, a
<1>9. IsRest(r, a) /\ Len(r) <= Depth /\ r \in Seq(Frame)
  BY <1>1, <1>3, <1>8, QueuedIsRest DEF IsRest, a
<1>10. /\ out' = r /\ owed' \subseteq owed
       /\ Sound(out', owed', completed', raced', metaNext')
       /\ \A p \in owed' : p \in completed' <=> p \in completed
       /\ completed' \subseteq owed' /\ raced' \subseteq completed'
       /\ \A p \in owed' : HasReport(a, p) => HasReport(out', p)
       /\ metaNext' \in BOOLEAN /\ untold' \in Untold
  BY <1>1, <1>2, <1>6, <1>8, <1>9, GiveIsSound, UntoldIsTyped
<1>11. /\ ~donePending' /\ ~hasPending' /\ tx' = "idle" /\ pc' = "flush"
       /\ UNCHANGED <<busyError, doneOk, pending, elapsed, radio, signalReport, fullDuplex>>
       /\ donePending' \in BOOLEAN /\ hasPending' \in BOOLEAN /\ tx = "done_pending"
  BY DEF TxReport, settings
<1>12. TypeOK'
  BY <1>9, <1>10, <1>11 DEF IInv, TypeOK, Untold
<1>13. Phases'
  BY <1>10, <1>11 DEF IInv, Phases
<1>14. Ledger'
  <2>1. ASSUME NEW p \in owed' PROVE HasReport(out', p)
    <3>1. p = pending \/ HasReport(out, p)
      BY <1>10, <2>1 DEF IInv, Ledger, InHand
    <3> QED
      BY <1>7, <1>10, <3>1
  <2> QED
    BY <1>11, <2>1 DEF Ledger
<1> QED
  BY <1>10, <1>12, <1>13, <1>14 DEF IInv
(* A packet is read while the queue is empty: there is room for it and for  *)
(* its RxMeta.                                                             *)
LEMMA PairIsWritten ==
  ASSUME IInv, out = <<>>, NEW data, data = FrameOf("data"), NEW meta, meta = FrameOf("meta"),
         NEW r \in Queued(out, data)
  PROVE  /\ Refused(out) = {} /\ Refused(r) = {}
         /\ \A t \in Queued(r, meta) :
              Give(out \o <<data, meta>>, t, untold) => Written
<1> DEFINE s == <<data, meta>>
<1>1. data \in Frame /\ meta \in Frame /\ out \in Seq(Frame) /\ Len(out) = 0
  BY DEF FrameOf, Frame, Kinds, IInv, TypeOK
<1>2. s \in Seq(Frame) /\ Len(s) = 2 /\ s[1] = data /\ s[2] = meta /\ out \o s = s
  BY <1>1
<1>3. /\ data.kind = "data" /\ data.pkt = NoPacket
      /\ meta.kind = "meta" /\ meta.pkt = NoPacket
  BY DEF FrameOf
<1>4. IsRest(r, Append(out, data)) /\ Len(r) <= 1 /\ r \in Seq(Frame)
  <2>1. IsRest(r, Append(out, data))
    <3>1. Len(out) <= Depth
      BY <1>1, KissAssumption
    <3> QED
      BY <1>1, <3>1, QueuedIsRest, Zenon
  <2> QED
    BY <1>1, <2>1 DEF IsRest
<1>5. ~Full(out) /\ ~Full(r) /\ Refused(out) = {} /\ Refused(r) = {}
  BY <1>1, <1>4, KissAssumption DEF Full, Refused
<1>6. ASSUME NEW t \in Queued(r, meta) PROVE IsRest(t, s) /\ Len(t) <= Depth
  <2>1. IsRest(t, Append(r, meta)) /\ Len(t) <= Depth
    BY <1>1, <1>4, QueuedIsRest, KissAssumption
  <2>2. r = <<>> \/ (Len(r) = 1 /\ r[1] = data)
    <3>1. CASE Len(r) = 0
      <4> HIDE DEF Frame
      <4> QED
        BY <1>4, <3>1
    <3>2. CASE Len(r) = 1
      BY <1>1, <1>4, <3>2 DEF IsRest
    <3> QED
      BY <1>4, <3>1, <3>2
  <2>3. /\ t \in Seq(Frame) /\ Len(t) <= Len(r) + 1
        /\ \A i \in 1..Len(t) : t[i] = Append(r, meta)[Len(r) + 1 - Len(t) + i]
    BY <1>1, <1>4, <2>1 DEF IsRest
  <2>4. \A i \in 1..Len(t) : t[i] = s[2 - Len(t) + i]
    <3>1. CASE r = <<>>
      BY <1>2, <2>3, <3>1
    <3>2. CASE Len(r) = 1 /\ r[1] = data
      <4>1. Append(r, meta)[1] = data /\ Append(r, meta)[2] = meta
        BY <1>1, <1>4, <3>2, AppendedToOne
      <4>2. Len(t) \in Nat /\ Len(t) <= 2
        BY <2>3, <3>2
      <4>3. ASSUME NEW i \in 1..Len(t)
            PROVE  /\ Len(r) + 1 - Len(t) + i = 2 - Len(t) + i
                   /\ 2 - Len(t) + i = 1 \/ 2 - Len(t) + i = 2
        BY <4>2, <3>2
      <4> QED
        BY <1>2, <2>3, <4>1, <4>3
    <3> QED
      BY <2>2, <3>1, <3>2
  <2> QED
    BY <1>2, <1>4, <2>1, <2>3, <2>4 DEF IsRest
<1>7. Sound(s, owed, completed, raced, metaNext) /\ \A p : ~HasReport(s, p)
  <2>1. ~metaNext
    BY <1>1 DEF IInv, Sound
  <2> HIDE DEF s
  <2> QED
    BY <1>2, <1>3, <2>1 DEF Sound, HasReport
<1>8. \A p : ~HasReport(out, p)
  BY <1>1 DEF HasReport
<1>9. /\ owed \in SUBSET Packet /\ metaNext \in BOOLEAN /\ untold \in Untold
      /\ completed \subseteq owed /\ raced \subseteq completed
  BY DEF IInv, TypeOK, Phases, Untold
<1>10. ASSUME NEW t \in Queued(r, meta), Give(s, t, untold) PROVE Written
  <2>1. t \in Seq(Frame) /\ Len(t) <= Depth /\ IsRest(t, s)
    BY <1>6 DEF IsRest
  <2> HIDE DEF s
  <2> QED
    BY <1>7, <1>8, <1>9, <1>10, <2>1, GiveIsSound, UntoldIsTyped DEF Written
<1> QED
  BY <1>2, <1>5, <1>10

LEMMA ReceiveWrites ==
  ASSUME IInv, Receive
  PROVE  Written /\ busyError' = busyError
<1>1. out = <<>> /\ out \in Seq(Frame) /\ untold \in Untold
  BY DEF Receive, MayReceive, IsHostOutputBackedUp, IInv, TypeOK, Untold
<1>2. Refused(out) = {}
  BY <1>1, KissAssumption DEF Refused, Full
<1>3. CASE ~signalReport
  <2>1. Answer(FrameOf("plain"))
    BY <1>3 DEF Receive
  <2>2. Plain(FrameOf("plain"))
    BY DEF Plain, FrameOf, Frame, Kinds
  <2>3. Written
    BY <2>1, <2>2, AnswerWrites
  <2>4. busyError' = busyError
    BY <1>2, <2>1 DEF Answer
  <2> QED
    BY <2>3, <2>4
<1>4. CASE signalReport
  <2> DEFINE data == FrameOf("data")
             meta == FrameOf("meta")
  <2>1. \/ \E r \in Refused(out) : TRUE
        \/ \E r \in Queued(out, data) :
             \/ \E t \in Queued(r, meta) : /\ Give(out \o <<data, meta>>, t, untold)
                                           /\ UNCHANGED busyError
             \/ \E t \in Refused(r) : TRUE
    BY <1>4 DEF Receive
  <2> HIDE DEF data, meta
  <2>2. PICK r \in Queued(out, data) :
             \/ \E t \in Queued(r, meta) : /\ Give(out \o <<data, meta>>, t, untold)
                                           /\ UNCHANGED busyError
             \/ \E t \in Refused(r) : TRUE
    BY <1>2, <2>1
  <2>3. /\ Refused(r) = {}
        /\ \A t \in Queued(r, meta) : Give(out \o <<data, meta>>, t, untold) => Written
    BY <1>1, PairIsWritten DEF data, meta
  <2> QED
    BY <2>2, <2>3
<1> QED
  BY <1>3, <1>4 DEF IInv, TypeOK
-----------------------------------------------------------------------------
(* The invariant is inductive.                                             *)

LEMMA InitInv == ASSUME Init PROVE IInv
<1>1. TypeOK
  <2>1. out \in Seq(Frame) /\ Len(out) <= Depth
    BY KissAssumption DEF Init
  <2> QED
    BY <2>1 DEF Init, TypeOK, Kinds
<1>2. Phases
  BY DEF Init, Phases
<1>3. Sound(out, owed, completed, raced, metaNext) /\ Ledger
  <2>1. out = <<>> /\ out \in Seq(Frame) /\ Len(out) = 0
    BY DEF Init
  <2> QED
    BY <2>1 DEF Init, Sound, Ledger, HasReport
<1> QED
  BY <1>1, <1>2, <1>3 DEF IInv

(* A new packet: no report of it is queued, since it was not owed.         *)
LEMMA AcceptKeepsInv ==
  ASSUME IInv, NEW p \in Packet \ owed, AcceptData(p)
  PROVE  IInv'
<1>1. /\ pending' = p /\ hasPending' /\ hasPending' \in BOOLEAN /\ owed' = owed \cup {p}
      /\ UNCHANGED <<pc, out, completed, raced, untold, metaNext, busyError, donePending, doneOk,
                     tx, elapsed, radio, signalReport, fullDuplex>>
      /\ ~hasPending
  BY DEF AcceptData, done, settings
<1>2. TypeOK'
  BY <1>1 DEF IInv, TypeOK
<1>3. Phases'
  BY <1>1 DEF IInv, Phases
<1>4. Sound(out, owed, completed, raced, metaNext)'
  BY <1>1 DEF IInv, Sound
<1>5. ~HasReport(out, p)
  BY DEF IInv, Sound, HasReport
<1>6. Ledger'
  BY <1>1, <1>5 DEF IInv, Ledger, InHand
<1> QED
  BY <1>2, <1>3, <1>4, <1>6 DEF IInv

(* A step of the transmission that leaves the output alone.                *)
LEMMA SilentKeepsInv ==
  ASSUME IInv, UNCHANGED <<out, owed, untold, metaNext, busyError, hasPending, pending,
                           settings>>,
         TypeOK', Phases',
         \A p \in owed : HasReport(out, p) =>
           (p \in completed' <=> p \in completed) /\ (p \in raced' <=> p \in raced)
  PROVE  IInv'
<1>1. Sound(out, owed, completed, raced, metaNext)'
  BY DEF IInv, Sound, HasReport
<1>2. Ledger'
  BY DEF IInv, Ledger, InHand
<1> QED
  BY <1>1, <1>2 DEF IInv

LEMMA ProcessTxKeepsInv ==
  ASSUME IInv, ProcessTx
  PROVE  IInv'
<1> USE DEF IInv
<1>1. CASE TxReport
  BY <1>1, ReportKeepsInv
<1>2. CASE TxReportRefused
  <2>1. untold \in Untold /\ out \in Seq(Frame)
    BY DEF TypeOK, Untold
  <2>2. PICK r \in Refused(out) : Give(out, r, untold)
    BY <1>2 DEF TxReportRefused
  <2>3. Written
    BY <2>1, <2>2, RefusedIsRest, GivingWrites
  <2> QED
    BY <1>2, <2>3, WritingKeepsInv DEF TxReportRefused, ReportRetained, settings, TypeOK
<1>3. CASE TxStep /\ (TxIdle \/ TxBegin \/ TxPersists \/ TxYields \/ TxForced \/ TxSlot
                      \/ TxWaits \/ TxStart \/ TxStartFails \/ TxSent)
  <2>1. UNCHANGED <<out, owed, completed, raced, untold, metaNext, busyError, hasPending, pending,
                    settings>> /\ pc' = "flush"
    BY <1>3 DEF TxStep, output
  <2>2. TypeOK' /\ Phases'
    <3>1. CASE TxIdle
      BY <2>1, <3>1 DEF TxIdle, TypeOK, Phases, done, settings
    <3>2. CASE TxBegin \/ TxPersists \/ TxYields \/ TxForced \/ TxSlot
      <4>1. /\ tx \in {"idle", "wait_clear", "slot_wait"} /\ hasPending
            /\ tx' \in {"wait_clear", "slot_wait", "delay"} /\ elapsed' = FALSE
            /\ UNCHANGED <<radio, donePending, doneOk>>
        BY <3>2 DEF TxBegin, TxPersists, TxYields, TxForced, TxSlot, EnterTx, Phases, done
      <4> QED
        BY <2>1, <4>1 DEF TypeOK, Phases, settings
    <3>3. CASE TxWaits
      BY <2>1, <3>3 DEF TxWaits, TypeOK, Phases, done, settings
    <3>4. CASE TxStart
      BY <2>1, <3>4 DEF TxStart, EnterTx, TypeOK, Phases, done, settings
    <3>5. CASE TxStartFails
      BY <2>1, <3>5 DEF TxStartFails, SetTxDonePending, EnterTx, TypeOK, Phases, settings, IsTrue
    <3>6. CASE TxSent
      BY <2>1, <3>6 DEF TxSent, SetTxDonePending, EnterTx, TypeOK, Phases, IsTrue, settings
    <3> QED
      BY <1>3, <3>1, <3>2, <3>3, <3>4, <3>5, <3>6
  <2> QED
    BY <2>1, <2>2, SilentKeepsInv
<1>4. CASE TxNotSent
  <2>1. /\ UNCHANGED <<out, owed, completed, raced, untold, metaNext, busyError, donePending,
                       doneOk, hasPending, pending, tx, elapsed, radio, signalReport, fullDuplex>>
        /\ pc' = "timer" /\ tx = "sending" /\ radio # "sent"
    BY <1>4 DEF TxNotSent, output, done, sender, settings
  <2>2. TypeOK' /\ Phases'
    BY <2>1 DEF TypeOK, Phases, IsTrue
  <2> QED
    BY <2>1, <2>2, SilentKeepsInv DEF settings
<1>5. CASE TxTimesOut
  <2>1. /\ UNCHANGED <<out, owed, completed, raced, untold, metaNext, busyError, hasPending,
                       pending, settings>>
        /\ pc = "timer" /\ pc' = "flush"
    BY <1>5 DEF TxTimesOut, TimerStep
  <2>2. TypeOK' /\ Phases'
    BY <1>5, <2>1 DEF TxTimesOut, ResultOfTimeout, SetTxDonePending, EnterTx, TypeOK, Phases,
       IsTrue, settings
  <2> QED
    BY <2>1, <2>2, SilentKeepsInv
<1>6. CASE TxGoesOn
  <2>1. /\ UNCHANGED <<out, owed, completed, untold, metaNext, busyError, donePending, doneOk,
                       hasPending, pending, tx, elapsed, radio, signalReport, fullDuplex>>
        /\ pc = "timer" /\ pc' = "flush" /\ raced' = raced \ {pending}
    BY <1>6 DEF TxGoesOn, TimerStep, done, settings
  <2>2. TypeOK' /\ Phases'
    BY <2>1 DEF TypeOK, Phases, IsTrue
  <2>3. ~HasReport(out, pending)
    BY <2>1 DEF Phases, Ledger, InHand
  <2> QED
    BY <2>1, <2>2, <2>3, SilentKeepsInv DEF settings
<1> QED
  BY <1>1, <1>2, <1>3, <1>4, <1>5, <1>6 DEF ProcessTx, TxIdle, TxBegin, TxPersists, TxYields,
     TxForced, TxSlot, TxWaits, TxStart, TxStartFails, TxSent

LEMMA NextKeepsInv ==
  ASSUME IInv, [Next]_vars
  PROVE  IInv'
<1> USE DEF IInv
<1>0. untold \in Untold /\ out \in Seq(Frame) /\ busyError \in BOOLEAN
      /\ signalReport \in BOOLEAN /\ fullDuplex \in BOOLEAN
  BY DEF TypeOK, Untold
<1>1. CASE \E p \in Packet \ owed : AcceptData(p)
  BY <1>1, AcceptKeepsInv
<1>2. CASE HandleCommand \/ \E b \in BOOLEAN : SetSignalReport(b)
  <2>1. Answer(FrameOf("reply")) /\ pc' = "host"
        /\ UNCHANGED <<done, sender, fullDuplex>> /\ signalReport' \in BOOLEAN
    BY <1>0, <1>2 DEF HandleCommand, SetSignalReport, settings
  <2>2. Plain(FrameOf("reply"))
    BY DEF Plain, FrameOf, Frame, Kinds
  <2> QED
    BY <1>0, <2>1, <2>2, AnswerWrites, WritingKeepsInv
<1>3. CASE \E b \in BOOLEAN : SetFullDuplex(b)
  <2>1. UNCHANGED <<pc, output, busyError, done, sender, signalReport>>
        /\ fullDuplex' \in BOOLEAN
    BY <1>3 DEF SetFullDuplex
  <2> QED
    BY <2>1 DEF output, done, sender, TypeOK, Phases, Sound, Ledger, InHand, HasReport, IsTrue
<1>4. CASE Reboot
  <2>1. Init'
    BY <1>4 DEF Reboot, Init
  <2> QED
    BY <2>1, InitInv, PTL
<1>5. CASE Write \/ HostPauses \/ WriteAgain
  <2>1. \E r \in Flushed(out) : Give(out, r, untold)
    <3>1. <<>> \in Flushed(out)
      <4>1. Len(out) \in Int /\ Len(out) + 1 \in 1..Len(out) + 1 /\ Len(out) < Len(out) + 1
        BY <1>0
      <4>2. SubSeq(out, Len(out) + 1, Len(out)) = <<>>
        BY <4>1, SubSeqEmpty
      <4> QED
        BY <4>1, <4>2 DEF Flushed
    <3> QED
      BY <1>5, <3>1 DEF Write, HostPauses, WriteAgain, Flush
  <2>2. Written
    BY <1>0, <2>1, FlushedIsRest, GivingWrites
  <2> QED
    BY <1>0, <1>5, <2>2, WritingKeepsInv DEF Write, HostPauses, WriteAgain, settings
<1>6. CASE EndOfInput \/ NothingRefused \/ NothingReceived
  <2>1. UNCHANGED <<output, busyError, done, sender, settings>>
        /\ pc' \in {"tx", "radio", "loop"}
    BY <1>6 DEF EndOfInput, NothingRefused, NothingReceived
  <2> QED
    BY <2>1 DEF output, done, sender, settings, TypeOK, Phases, Sound, Ledger, InHand,
       HasReport, IsTrue
<1>7. CASE ProcessTx
  BY <1>7, ProcessTxKeepsInv
<1>8. CASE TellRefusal
  <2> DEFINE f == FrameOf("refusal")
             u == IF untold = "owed" THEN "queued" ELSE untold
  <2>1. u \in Untold /\ Plain(f)
    BY <1>0 DEF Untold, Plain, FrameOf, Frame, Kinds
  <2>2. \/ \E r \in Queued(out, f) : Give(Append(out, f), r, u)
        \/ \E r \in Refused(out) : Give(out, r, untold)
    BY <1>8 DEF TellRefusal
  <2> HIDE DEF f, u
  <2>3. Written
    BY <1>0, <2>1, <2>2, QueuingWrites, RefusedIsRest, GivingWrites
  <2>4. UNCHANGED <<done, sender, settings>> /\ pc' = "radio" /\ busyError' \in BOOLEAN
    BY <1>0, <1>8 DEF TellRefusal, RefusalTold, RefusalRetained
  <2> QED
    BY <1>0, <2>3, <2>4, WritingKeepsInv DEF settings
<1>9. CASE Receive
  BY <1>0, <1>9, ReceiveWrites, WritingKeepsInv DEF Receive, settings
<1>10. CASE TimePasses
  BY <1>10 DEF TimePasses, output, done, settings, TypeOK, Phases, Sound, Ledger, InHand,
     HasReport
<1>11. CASE PacketSent
  <2>1. /\ tx = "sending" /\ hasPending /\ pending \in owed /\ ~HasReport(out, pending)
        /\ radio' = "sent" /\ completed' = completed \cup {pending}
        /\ raced' = IF pc = "timer" THEN raced \cup {pending} ELSE raced
        /\ UNCHANGED <<pc, out, owed, untold, metaNext, busyError, donePending, doneOk,
                       hasPending, pending, tx, elapsed, signalReport, fullDuplex>>
    BY <1>11 DEF PacketSent, Phases, Ledger, done, settings
  <2>2. TypeOK' /\ Phases'
    BY <2>1 DEF TypeOK, Phases
  <2> QED
    BY <2>1, <2>2, SilentKeepsInv DEF settings
<1>12. CASE UNCHANGED vars
  BY <1>12 DEF vars, output, done, sender, settings, TypeOK, Phases, Sound, Ledger, InHand,
     HasReport, IsTrue
<1> QED
  BY <1>1, <1>2, <1>3, <1>4, <1>5, <1>6, <1>7, <1>8, <1>9, <1>10, <1>11, <1>12
     DEF Next, Host, Pass

-----------------------------------------------------------------------------
(* Theorems.                                                               *)

LEMMA InvariantHolds == Spec => []IInv
<1>1. Init => IInv
  BY InitInv
<1>2. IInv /\ [Next]_vars => IInv'
  BY NextKeepsInv
<1> QED
  BY <1>1, <1>2, PTL DEF Spec

(* The queue, the flags, the states of the transmission and the packets    *)
(* keep their ranges; the queue never holds more than its slots.           *)
THEOREM KissTypeCorrect == Spec => []TypeOK
<1>1. IInv => TypeOK
  BY DEF IInv
<1> QED
  BY <1>1, InvariantHolds, PTL

(* KissModem reports each packet it has accepted exactly once, refused     *)
(* reports included (queuePendingTxDone and processTx).                    *)
THEOREM EachIsReportedOnce == Spec => []ReportedOnce
<1>1. ASSUME IInv PROVE ReportedOnce
  <2>1. DOMAIN out = 1..Len(out)
    BY <1>1 DEF IInv, TypeOK
  <2>2. \A p : Reports(p) # {} <=> HasReport(out, p)
    BY <2>1 DEF Reports, HasReport
  <2>3. ASSUME NEW p \in Packet, NEW i \in Reports(p), NEW j \in Reports(p)
        PROVE  p \in owed /\ i = j
    BY <1>1, <2>1, <2>3 DEF IInv, Sound, Reports
  <2>4. ASSUME NEW p \in Packet
        PROVE  /\ InHand(p) => p \in owed /\ Reports(p) = {}
               /\ p \in owed => InHand(p) \/ Reports(p) # {}
    BY <1>1, <2>2 DEF IInv, Phases, Ledger, InHand
  <2> QED
    BY <2>3, <2>4 DEF ReportedOnce
<1> QED
  BY <1>1, InvariantHolds, PTL

(* The result in a TxDone, waiting or queued, is what became of its packet. *)
THEOREM ReportsAreTrue == Spec => []ReportIsTrue
<1>1. ASSUME IInv PROVE ReportIsTrue
  <2>1. DOMAIN out = 1..Len(out)
    BY <1>1 DEF IInv, TypeOK
  <2> QED
    BY <1>1, <2>1 DEF IInv, Phases, Sound, ReportIsTrue, IsTrue
<1> QED
  BY <1>1, InvariantHolds, PTL

(* A received packet and its RxMeta reach the host together.               *)
THEOREM PacketsKeepTheirMeta == Spec => []MetaFollows
<1>1. ASSUME IInv PROVE MetaFollows
  <2>1. DOMAIN out = 1..Len(out) /\ out \in Seq(Frame)
    BY <1>1 DEF IInv, TypeOK
  <2>2. \A i \in DOMAIN out :
          out[i].kind = "data" => i < Len(out) /\ out[i + 1].kind = "meta"
    BY <1>1, <2>1 DEF IInv, Sound
  <2>3. metaNext => out # <<>> /\ out[1].kind = "meta"
    BY <1>1, <2>1 DEF IInv, Sound
  <2> QED
    BY <2>2, <2>3 DEF MetaFollows
<1> QED
  BY <1>1, InvariantHolds, PTL

(* No packet is read from the radio that the queue has no room for.        *)
THEOREM ReceptionsFindRoom == Spec => NothingReceivedIsRefused
<1>1. ASSUME IInv, [Next]_vars, pc = "radio" PROVE busyError' = busyError
  <2>1. CASE Receive
    BY <1>1, <2>1, ReceiveWrites
  <2>2. CASE NothingReceived \/ TimePasses \/ PacketSent \/ UNCHANGED vars
    BY <2>2 DEF NothingReceived, TimePasses, PacketSent, vars
  <2> QED
    BY <1>1, <2>1, <2>2 DEF Next, Host, Pass, AcceptData, HandleCommand, SetSignalReport,
       SetFullDuplex, Reboot, Write, HostPauses, EndOfInput, ProcessTx, TxIdle, TxBegin,
       TxPersists, TxYields, TxForced, TxSlot, TxWaits, TxStart, TxStartFails, TxSent,
       TxNotSent, TxTimesOut, TxGoesOn, TimerStep, TxStep, TxReport, TxReportRefused, WriteAgain, NothingRefused, TellRefusal
<1>2. IInv /\ [Next]_vars => [pc = "radio" => busyError' = busyError]_vars
  BY <1>1
<1> QED
  BY <1>2, InvariantHolds, PTL DEF Spec, NothingReceivedIsRefused
=============================================================================
