-------------------- MODULE MeshFloodHistoryProofs ---------------------
(***************************************************************************)
(* Proofs about the history of a flood, for every mesh and every threshold. *)
(*                                                                         *)
(* Once adds to what the tables remember (Memory of MeshFloodProofs) that a *)
(* node has each message queued at most once, and no more when it has sent  *)
(* it.  Covering counts: the duplicates a waiting relay has been told of,   *)
(* the copy that made it wait and the copies that its node has heard and    *)
(* not yet processed are never more than the nodes in range that have sent  *)
(* the message.  Nothing is assumed of how copies are told apart: two that  *)
(* look alike are heard as one, which only makes the count smaller.         *)
(***************************************************************************)
EXTENDS MeshFloodHistory, MeshFloodProofs

HType ==
  /\ sends \in [Node -> [Msg -> Nat]]
  /\ cancelled \subseteq Node \X Msg

Once ==
  Remembers => \A n \in Node :
    /\ \A m \in Msg : sends[n][m] <= 1 /\ (sends[n][m] > 0 => WasSeen(n, m))
    /\ \A x \in pending[n] : sends[n][x.msg] = 0
    /\ \A x, y \in pending[n] : x.msg = y.msg => x = y

(* The nodes in range of n that have sent m, and the copies n has to process. *)
Sources(n, m) == { k \in Node : <<k, n>> \in Links /\ sends[k][m] > 0 }
Copies(n, m) == { c \in heard[n] : c.msg = m }

CoveredBy(n, m, d) ==
  /\ IsFiniteSet(Sources(n, m)) /\ IsFiniteSet(Copies(n, m))
  /\ Cardinality(Copies(n, m)) + d <= Cardinality(Sources(n, m))

Covering ==
  Remembers => \A n \in Node :
    /\ \A m \in Msg : CoveredBy(n, m, 0)
    /\ \A x \in pending[n] :
         x.dups < Threshold /\ (x.path # << >> => CoveredBy(n, x.msg, x.dups + 1))

HInv == PInv /\ HType /\ Once /\ Covering /\ CancelledIsCovered

------------------------------------------------------------------------
LEMMA InitHistory == HInit => HInv
<1> SUFFICES ASSUME HInit PROVE HInv
  OBVIOUS
<1>1. PInv
  BY InitPaths DEF HInit
<1>2. \A n \in Node : pending[n] = {} /\ heard[n] = {} /\ \A m \in Msg : sends[n][m] = 0
  BY DEF HInit, Init
<1>3. HType /\ CancelledIsCovered
  BY DEF HInit, HType, CancelledIsCovered
<1>4. Once
  BY <1>2 DEF Once
<1>5. \A n \in Node, m \in Msg : Sources(n, m) = {} /\ Copies(n, m) = {}
  BY <1>2 DEF Sources, Copies
<1>6. \A n \in Node, m \in Msg : CoveredBy(n, m, 0)
  BY <1>5, FS_EmptySet DEF CoveredBy
<1>7. Covering
  BY <1>2, <1>6 DEF Covering
<1> QED
  BY <1>1, <1>3, <1>4, <1>7 DEF HInv

(* The history watches: every step of it is a step of the mesh, and none      *)
(* restarts a node.                                                         *)
LEMMA HistoryStep ==
  ASSUME [HNext]_hvars
  PROVE  [Next]_vars /\ reboots' = reboots
<1>1. CASE UNCHANGED hvars
  BY <1>1 DEF hvars, vars
<1>2. ASSUME NEW m \in Msg, Originate(m) PROVE reboots' = reboots
  BY <1>2 DEF Originate
<1>3. ASSUME NEW n \in Node, WatchSend(n) PROVE Transmit(n) /\ reboots' = reboots
  BY <1>3 DEF WatchSend, Transmit
<1>4. ASSUME NEW n \in Node, WatchProcess(n) PROVE Process(n) /\ reboots' = reboots
  BY <1>4 DEF WatchProcess, Process, ProcessOwnAdvert, ProcessDuplicate, ProcessNew
<1> QED
  BY <1>1, <1>2, <1>3, <1>4 DEF HNext, Next

(* What a node had seen it has seen after a step too.                        *)
LEMMA SeenStaysSeen ==
  ASSUME PInv, Remembers, [HNext]_hvars, NEW n \in Node, NEW m, WasSeen(n, m)
  PROVE  WasSeen(n, m)'
<1>1. [Next]_vars /\ Remembers'
  BY HistoryStep DEF Remembers
<1> QED
  BY <1>1, TablesKeep DEF PInv, WasSeen

(* A node has sent nothing that it sees for the first time, nor queued it.    *)
LEMMA NewIsUnsent ==
  ASSUME PInv, HType, Once, Remembers, NEW n \in Node, NEW m \in Msg, ~WasSeen(n, m)
  PROVE  sends[n][m] = 0 /\ \A x \in pending[n] : x.msg # m
<1>1. sends[n][m] \in Nat /\ ~(sends[n][m] > 0)
  BY DEF HType, Once
<1>2. \A x \in pending[n] : WasSeen(n, x.msg)
  BY DEF PInv, Memory
<1> QED
  BY <1>1, <1>2

------------------------------------------------------------------------
(* What covers a count covers it after a step; then it is enough to look at    *)
(* the entries that are new.                                                *)
LEMMA CoveringKept ==
  ASSUME TypeOK, Covering, Remembers,
         \A k \in Node, m \in Msg, d \in Int : CoveredBy(k, m, d) => CoveredBy(k, m, d)',
         \A k \in Node : \A x \in pending'[k] :
           \/ x \in pending[k]
           \/ /\ x.dups < Threshold
              /\ x.path # << >> => CoveredBy(k, x.msg, x.dups + 1)'
  PROVE  Covering'
<1>1. ASSUME NEW k \in Node, NEW m \in Msg PROVE CoveredBy(k, m, 0)'
  BY DEF Covering
<1>2. ASSUME NEW k \in Node, NEW x \in pending[k]
      PROVE  x.dups < Threshold /\ (x.path # << >> => CoveredBy(k, x.msg, x.dups + 1)')
  <2>1. x.msg \in Msg /\ x.dups + 1 \in Int
    BY DEF TypeOK, Entry
  <2>2. x.dups < Threshold /\ (x.path # << >> => CoveredBy(k, x.msg, x.dups + 1))
    BY DEF Covering
  <2> QED
    BY <2>1, <2>2
<1> QED
  BY <1>1, <1>2 DEF Covering

(* Nobody takes back what it has sent.                                       *)
LEMMA CancelledKept ==
  ASSUME HType, Remembers, Covering', CancelledIsCovered, Remembers',
         \A k \in Node, m \in Msg : sends[k][m] > 0 => sends'[k][m] > 0
  PROVE  \A p \in cancelled : Cardinality(Sources(p[1], p[2])') > Threshold
<1> SUFFICES ASSUME NEW p \in cancelled
             PROVE  Cardinality(Sources(p[1], p[2])') > Threshold
  OBVIOUS
<1> DEFINE n == p[1]
           m == p[2]
<1>1. n \in Node /\ m \in Msg
  BY DEF HType
<1>2. Cardinality(Sources(n, m)) > Threshold
  BY DEF CancelledIsCovered, Sources
<1>3. Sources(n, m) \subseteq Sources(n, m)'
  BY <1>1 DEF Sources
<1>4. IsFiniteSet(Sources(n, m)')
  BY <1>1 DEF Covering, CoveredBy
<1>5. /\ IsFiniteSet(Sources(n, m)) /\ Cardinality(Sources(n, m)) <= Cardinality(Sources(n, m)')
  BY <1>3, <1>4, FS_Subset
<1>6. /\ Cardinality(Sources(n, m)) \in Nat /\ Cardinality(Sources(n, m)') \in Nat
      /\ Threshold \in Nat
  BY <1>4, <1>5, FS_CardinalityType, Limits
<1> QED
  BY <1>2, <1>5, <1>6

------------------------------------------------------------------------
(* sendFlood: the message is new to its origin.                              *)
LEMMA OriginateOnce ==
  ASSUME HInv, Remembers, [HNext]_hvars,
         NEW m \in Msg, Originate(m), UNCHANGED <<sends, cancelled>>
  PROVE  Once' /\ Covering'
<1> DEFINE n == Origin[m]
           c == [msg |-> m, size |-> HashSize[m], path |-> << >>]
           e == Waiting(c)
<1>1. n \in Node /\ c \in Copy
  BY Topology, Limits DEF Copy, Path
<1>2. e.msg = m /\ e.path = << >> /\ e.dups = 0
  BY DEF Waiting
<1>3. /\ m \notin originated /\ heard' = heard
      /\ pending' = [pending EXCEPT ![n] = @ \union {e}]
      /\ table' = [table EXCEPT ![n] = Marked(n, m)]
  BY DEF Originate
<1>4. ~WasSeen(n, m) /\ TypeOK
  BY <1>1, <1>3 DEF HInv, PInv, Memory, WasSeen, RInv, FInv
<1>5. sends[n][m] = 0 /\ \A x \in pending[n] : x.msg # m
  BY <1>1, <1>4, NewIsUnsent DEF HInv
<1>6. \A k \in Node : pending'[k] = IF k = n THEN pending[k] \union {e} ELSE pending[k]
  BY <1>1, <1>3, <1>4 DEF TypeOK
<1>7. Once'
  <2>1. \A k \in Node : \A w \in Msg : sends[k][w] <= 1 /\ (sends[k][w] > 0 => WasSeen(k, w)')
    BY SeenStaysSeen DEF HInv, Once
  <2>2. \A k \in Node : /\ \A x \in pending[k] : sends[k][x.msg] = 0
                        /\ \A x, y \in pending[k] : x.msg = y.msg => x = y
    BY DEF HInv, Once
  <2>3. \A k \in Node : \A x \in pending'[k] :
          x \in pending[k] \/ (k = n /\ x = e)
    BY <1>6
  <2>4. \A k \in Node : \A x \in pending'[k] : sends[k][x.msg] = 0
    BY <1>2, <1>5, <2>2, <2>3
  <2>5. \A k \in Node : \A x, y \in pending'[k] : x.msg = y.msg => x = y
    BY <1>2, <1>5, <2>2, <2>3
  <2> QED
    BY <2>1, <2>4, <2>5 DEF Once
<1>8. \A k \in Node, w \in Msg, d \in Int : CoveredBy(k, w, d) => CoveredBy(k, w, d)'
  BY <1>3 DEF CoveredBy, Sources, Copies
<1>9. \A k \in Node : \A x \in pending'[k] :
        x \in pending[k] \/ (x.dups < Threshold /\ x.path = << >>)
  <2>1. \A k \in Node : \A x \in pending'[k] : x \in pending[k] \/ x = e
    BY <1>6
  <2>2. e.dups < Threshold
    BY <1>2, Limits
  <2> QED
    BY <1>2, <2>1, <2>2
<1>10. Covering'
  BY <1>4, <1>8, <1>9, CoveringKept DEF HInv
<1> QED
  BY <1>7, <1>10

------------------------------------------------------------------------
(* The radio: what has been sent is counted, and is queued no more.           *)
LEMMA SendDetails ==
  ASSUME TypeOK, HType, NEW n \in Node, WatchSend(n)
  PROVE  \E e \in pending[n] :
           /\ e \in Entry
           /\ \A k \in Node : pending'[k] = IF k = n THEN pending[k] \ {e} ELSE pending[k]
           /\ \A k \in Node : heard'[k] = IF <<n, k>> \in Links
                                          THEN heard[k] \union {Aired(e)} ELSE heard[k]
           /\ sends' = [sends EXCEPT ![n][e.msg] = @ + 1]
           /\ cancelled' = cancelled /\ table' = table
<1>1. PICK e \in pending[n] :
        /\ pending' = [pending EXCEPT ![n] = @ \ {e}]
        /\ heard' = [k \in Node |-> IF <<n, k>> \in Links
                                    THEN heard[k] \union {Aired(e)} ELSE heard[k]]
        /\ table' = table
  BY DEF WatchSend, Transmit
<1>2. PICK f \in pending[n] \ pending'[n] :
        sends' = [sends EXCEPT ![n][f.msg] = @ + 1] /\ cancelled' = cancelled
  BY DEF WatchSend
<1>3. f = e /\ e \in Entry
  BY <1>1, <1>2 DEF TypeOK
<1> QED
  BY <1>1, <1>2, <1>3 DEF TypeOK

LEMMA SendOnce ==
  ASSUME HInv, Remembers, [HNext]_hvars, NEW n \in Node, WatchSend(n)
  PROVE  Once'
<1>1. TypeOK /\ HType
  BY DEF HInv, PInv, RInv, FInv
<1>2. PICK e \in pending[n] :
        /\ e \in Entry
        /\ \A k \in Node : pending'[k] = IF k = n THEN pending[k] \ {e} ELSE pending[k]
        /\ sends' = [sends EXCEPT ![n][e.msg] = @ + 1]
        /\ table' = table
  BY <1>1, SendDetails
<1>3. e.msg \in Msg /\ sends[n][e.msg] = 0 /\ WasSeen(n, e.msg)
  BY <1>2 DEF Entry, HInv, Once, PInv, Memory
<1>4. \A k \in Node, m \in Msg :
        sends'[k][m] = IF k = n /\ m = e.msg THEN 1 ELSE sends[k][m]
  BY <1>1, <1>2, <1>3 DEF HType
<1>5. \A k \in Node : \A x \in pending'[k] : x \in pending[k] /\ x.msg \in Msg
  <2>1. \A k \in Node : pending'[k] \subseteq pending[k]
    BY <1>2
  <2>2. \A k \in Node : \A x \in pending[k] : x.msg \in Msg
    BY <1>1 DEF TypeOK, Entry
  <2> QED
    BY <2>1, <2>2
<1>6. \A x \in pending'[n] : x.msg # e.msg
  <2>1. \A x \in pending[n] : x.msg = e.msg => x = e
    BY DEF HInv, Once
  <2> QED
    BY <1>2, <2>1
<1> QED
  BY <1>2, <1>3, <1>4, <1>5, <1>6 DEF HInv, Once, WasSeen

(* Whoever hears the copy counts one source more, since nobody sends twice.   *)
LEMMA SendCovers ==
  ASSUME HInv, Remembers, NEW n \in Node, WatchSend(n)
  PROVE  \A k \in Node, m \in Msg, d \in Int : CoveredBy(k, m, d) => CoveredBy(k, m, d)'
<1>1. TypeOK /\ HType
  BY DEF HInv, PInv, RInv, FInv
<1>2. PICK e \in pending[n] :
        /\ e \in Entry
        /\ \A k \in Node : heard'[k] = IF <<n, k>> \in Links
                                       THEN heard[k] \union {Aired(e)} ELSE heard[k]
        /\ sends' = [sends EXCEPT ![n][e.msg] = @ + 1]
  BY <1>1, SendDetails
<1>3. e.msg \in Msg /\ sends[n][e.msg] = 0 /\ Aired(e).msg = e.msg
  BY <1>2, AiredIsCopy DEF Entry, HInv, Once
<1>4. \A k \in Node, m \in Msg :
        sends'[k][m] = IF k = n /\ m = e.msg THEN 1 ELSE sends[k][m]
  BY <1>1, <1>2, <1>3 DEF HType
<1> SUFFICES ASSUME NEW k \in Node, NEW m \in Msg, NEW d \in Int, CoveredBy(k, m, d)
             PROVE  CoveredBy(k, m, d)'
  OBVIOUS
<1>5. CASE m = e.msg /\ <<n, k>> \in Links
  <2>1. Sources(k, m)' = Sources(k, m) \union {n} /\ n \notin Sources(k, m)
    BY <1>3, <1>4, <1>5 DEF Sources
  <2>2. Copies(k, m)' = Copies(k, m) \union {Aired(e)}
    BY <1>2, <1>3, <1>5 DEF Copies
  <2>3. /\ IsFiniteSet(Sources(k, m)) /\ IsFiniteSet(Copies(k, m))
        /\ Cardinality(Copies(k, m)) + d <= Cardinality(Sources(k, m))
    BY DEF CoveredBy
  <2>4. /\ IsFiniteSet(Sources(k, m)') /\ IsFiniteSet(Copies(k, m)')
        /\ Cardinality(Sources(k, m)') = Cardinality(Sources(k, m)) + 1
    BY <2>1, <2>2, <2>3, FS_AddElement
  <2>5. Cardinality(Copies(k, m)') <= Cardinality(Copies(k, m)) + 1
    <3>1. Cardinality(Copies(k, m)) \in Nat
      BY <2>3, FS_CardinalityType
    <3>2. Cardinality(Copies(k, m)') =
            IF Aired(e) \in Copies(k, m) THEN Cardinality(Copies(k, m))
            ELSE Cardinality(Copies(k, m)) + 1
      BY <2>2, <2>3, FS_AddElement
    <3> QED
      BY <3>1, <3>2
  <2>6. /\ Cardinality(Copies(k, m)) \in Int /\ Cardinality(Copies(k, m)') \in Int
        /\ Cardinality(Sources(k, m)) \in Int
    BY <2>3, <2>4, FS_CardinalityType
  <2>7. Cardinality(Copies(k, m)') + d <= Cardinality(Sources(k, m)')
    BY <2>3, <2>4, <2>5, <2>6
  <2> QED
    BY <2>4, <2>7 DEF CoveredBy
<1>6. CASE ~(m = e.msg /\ <<n, k>> \in Links)
  <2>1. Sources(k, m)' = Sources(k, m)
    BY <1>4, <1>6 DEF Sources
  <2>2. Copies(k, m)' = Copies(k, m)
    BY <1>2, <1>3, <1>6 DEF Copies
  <2> QED
    BY <2>1, <2>2 DEF CoveredBy
<1> QED
  BY <1>5, <1>6

LEMMA SendKeepsCovering ==
  ASSUME HInv, Remembers, Remembers', NEW n \in Node, WatchSend(n)
  PROVE  Covering' /\ CancelledIsCovered'
<1>1. TypeOK /\ HType
  BY DEF HInv, PInv, RInv, FInv
<1>2. PICK e \in pending[n] :
        /\ e \in Entry
        /\ \A k \in Node : pending'[k] = IF k = n THEN pending[k] \ {e} ELSE pending[k]
        /\ sends' = [sends EXCEPT ![n][e.msg] = @ + 1]
        /\ cancelled' = cancelled
  BY <1>1, SendDetails
<1>3. \A k \in Node : \A x \in pending'[k] : x \in pending[k]
  BY <1>2
<1>4. \A k \in Node, m \in Msg, d \in Int : CoveredBy(k, m, d) => CoveredBy(k, m, d)'
  BY SendCovers
<1>5. Covering'
  BY <1>1, <1>3, <1>4, CoveringKept DEF HInv
<1>6. \A k \in Node, m \in Msg : sends[k][m] > 0 => sends'[k][m] > 0
  BY <1>1, <1>2 DEF HType, Entry
<1>7. \A p \in cancelled' : Cardinality(Sources(p[1], p[2])') > Threshold
  BY <1>1, <1>2, <1>5, <1>6, CancelledKept DEF HInv
<1> QED
  BY <1>5, <1>7 DEF CancelledIsCovered, Sources

------------------------------------------------------------------------
(* A copy that is processed covers one more: it is not waiting any longer.    *)
LEMMA TakenCovers ==
  ASSUME TypeOK, NEW n \in Node, NEW c \in heard[n],
         heard' = [heard EXCEPT ![n] = @ \ {c}], sends' = sends
  PROVE  /\ \A k \in Node, m \in Msg, d \in Int : CoveredBy(k, m, d) => CoveredBy(k, m, d)'
         /\ \A d \in Int : CoveredBy(n, c.msg, d) => CoveredBy(n, c.msg, d + 1)'
<1>1. \A k \in Node, m \in Msg : Sources(k, m)' = Sources(k, m)
  BY DEF Sources
<1>2. \A k \in Node, m \in Msg :
        Copies(k, m)' = IF k = n /\ m = c.msg THEN Copies(k, m) \ {c} ELSE Copies(k, m)
  BY DEF Copies, TypeOK
<1>3. c.msg \in Msg /\ c \in Copies(n, c.msg)
  BY DEF TypeOK, Copy, Copies
<1>4. ASSUME NEW d \in Int, CoveredBy(n, c.msg, d) PROVE CoveredBy(n, c.msg, d + 1)'
  <2>1. /\ IsFiniteSet(Sources(n, c.msg)) /\ IsFiniteSet(Copies(n, c.msg))
        /\ Cardinality(Copies(n, c.msg)) + d <= Cardinality(Sources(n, c.msg))
    BY <1>4 DEF CoveredBy
  <2>2. /\ IsFiniteSet(Copies(n, c.msg)')
        /\ Cardinality(Copies(n, c.msg)') = Cardinality(Copies(n, c.msg)) - 1
    BY <1>2, <1>3, <2>1, FS_RemoveElement
  <2>3. Cardinality(Copies(n, c.msg)) \in Nat /\ Cardinality(Sources(n, c.msg)) \in Nat
    BY <2>1, FS_CardinalityType
  <2>4. Cardinality(Copies(n, c.msg)') + (d + 1) <= Cardinality(Sources(n, c.msg)')
    BY <1>1, <1>3, <2>1, <2>2, <2>3
  <2> QED
    BY <1>1, <1>3, <2>1, <2>2, <2>4 DEF CoveredBy
<1>5. ASSUME NEW k \in Node, NEW m \in Msg, NEW d \in Int, CoveredBy(k, m, d)
      PROVE  CoveredBy(k, m, d)'
  <2>1. CASE k = n /\ m = c.msg
    <3>1. CoveredBy(n, c.msg, d + 1)'
      BY <1>4, <1>5, <2>1
    <3>2. /\ IsFiniteSet(Sources(n, c.msg)') /\ IsFiniteSet(Copies(n, c.msg)')
          /\ Cardinality(Copies(n, c.msg)') + (d + 1) <= Cardinality(Sources(n, c.msg)')
      BY <3>1 DEF CoveredBy
    <3>3. Cardinality(Copies(n, c.msg)') \in Nat /\ Cardinality(Sources(n, c.msg)') \in Nat
      BY <3>2, FS_CardinalityType
    <3>4. Cardinality(Copies(n, c.msg)') + d <= Cardinality(Sources(n, c.msg)')
      BY <3>2, <3>3
    <3> QED
      BY <2>1, <3>2, <3>4 DEF CoveredBy
  <2>2. CASE ~(k = n /\ m = c.msg)
    <3>1. Copies(k, m)' = Copies(k, m)
      BY <1>2, <2>2
    <3> QED
      BY <1>1, <1>5, <3>1 DEF CoveredBy
  <2> QED
    BY <2>1, <2>2
<1> QED
  BY <1>4, <1>5

(* The ways through onRecvPacket, as far as the history sees them.           *)
LEMMA ProcessDetails ==
  ASSUME TypeOK, NEW n \in Node, WatchProcess(n)
  PROVE  \E c \in heard[n] :
           /\ c \in Copy /\ c.msg \in Msg
           /\ heard' = [heard EXCEPT ![n] = @ \ {c}] /\ sends' = sends
           /\ \A k \in Node : k # n => pending'[k] = pending[k]
           /\ \/ pending'[n] = pending[n]
              \/ pending'[n] = Uncancelled(n, c.msg)
              \/ ~WasSeen(n, c.msg) /\ pending'[n] = pending[n] \union {Waiting(Recorded(n, c))}
<1>1. PICK c \in heard[n] :
        /\ heard' = [heard EXCEPT ![n] = @ \ {c}]
        /\ \/ pending' = pending
           \/ pending' = [pending EXCEPT ![n] = Uncancelled(n, c.msg)]
           \/ ~WasSeen(n, c.msg) /\ Queues(n, c)
  BY DEF WatchProcess, Process, ProcessOwnAdvert, ProcessDuplicate, ProcessNew, Takes
<1>2. c \in Copy /\ c.msg \in Msg
  BY DEF TypeOK, Copy
<1>3. sends' = sends
  BY DEF WatchProcess
<1>4. \A k \in Node : k # n => pending'[k] = pending[k]
  BY <1>1 DEF Queues, TypeOK
<1>5. \/ pending'[n] = pending[n]
      \/ pending'[n] = Uncancelled(n, c.msg)
      \/ ~WasSeen(n, c.msg) /\ pending'[n] = pending[n] \union {Waiting(Recorded(n, c))}
  BY <1>1 DEF Queues, TypeOK
<1> QED
  BY <1>1, <1>2, <1>3, <1>4, <1>5

(* What counting makes of an entry.                                          *)
Told(y, m) == IF y.msg = m /\ Suppressible(y) THEN [y EXCEPT !.dups = @ + 1] ELSE y

LEMMA ToldEntry ==
  ASSUME NEW y \in Entry, NEW m \in Msg
  PROVE  /\ Told(y, m).msg = y.msg /\ Told(y, m).path = y.path
         /\ Told(y, m) = y
              \/ (y.msg = m /\ y.path # << >> /\ Told(y, m).dups = y.dups + 1)
BY DEF Told, Suppressible, Entry

LEMMA UncancelledIsTold ==
  ASSUME NEW n \in Node, NEW m \in Msg
  PROVE  /\ DupSuppress => Uncancelled(n, m) =
              { x \in { Told(y, m) : y \in pending[n] } : x.dups < Threshold }
         /\ ~DupSuppress => Uncancelled(n, m) = pending[n]
BY DEF Uncancelled, Counted, Told

LEMMA ProcessOnce ==
  ASSUME HInv, Remembers, [HNext]_hvars, NEW n \in Node, WatchProcess(n)
  PROVE  Once'
<1>1. TypeOK /\ HType
  BY DEF HInv, PInv, RInv, FInv
<1>2. PICK c \in heard[n] :
        /\ c \in Copy /\ c.msg \in Msg /\ sends' = sends
        /\ \A k \in Node : k # n => pending'[k] = pending[k]
        /\ \/ pending'[n] = pending[n]
           \/ pending'[n] = Uncancelled(n, c.msg)
           \/ ~WasSeen(n, c.msg) /\ pending'[n] = pending[n] \union {Waiting(Recorded(n, c))}
  BY <1>1, ProcessDetails
<1>3. \A k \in Node : \A w \in Msg : sends[k][w] <= 1 /\ (sends[k][w] > 0 => WasSeen(k, w)')
  BY SeenStaysSeen DEF HInv, Once
<1>4. \A k \in Node : /\ \A x \in pending[k] : sends[k][x.msg] = 0
                      /\ \A x, y \in pending[k] : x.msg = y.msg => x = y
  BY DEF HInv, Once
<1>5. /\ \A x \in pending'[n] : sends[n][x.msg] = 0
      /\ \A x, y \in pending'[n] : x.msg = y.msg => x = y
  <2>1. CASE pending'[n] = Uncancelled(n, c.msg) /\ DupSuppress
    <3>1. \A x \in pending'[n] : \E y \in pending[n] : x = Told(y, c.msg) /\ x.msg = y.msg
      BY <1>1, <1>2, <2>1, UncancelledIsTold, ToldEntry DEF TypeOK
    <3> QED
      BY <1>4, <3>1
  <2>2. CASE ~WasSeen(n, c.msg) /\ pending'[n] = pending[n] \union {Waiting(Recorded(n, c))}
    <3>1. Waiting(Recorded(n, c)).msg = c.msg
      BY <1>2, RecordedIsCopy, WaitingIsEntry
    <3>2. sends[n][c.msg] = 0 /\ \A x \in pending[n] : x.msg # c.msg
      BY <1>2, <2>2, NewIsUnsent DEF HInv
    <3> QED
      BY <1>4, <2>2, <3>1, <3>2
  <2> QED
    BY <1>2, <1>4, <2>1, <2>2, UncancelledIsTold, Switches
<1>6. \A k \in Node : /\ \A x \in pending'[k] : sends[k][x.msg] = 0
                      /\ \A x, y \in pending'[k] : x.msg = y.msg => x = y
  BY <1>2, <1>4, <1>5
<1> QED
  BY <1>2, <1>3, <1>6 DEF Once

LEMMA ProcessCovers ==
  ASSUME HInv, Remembers, NEW n \in Node, WatchProcess(n)
  PROVE  Covering'
<1>1. TypeOK /\ Covering
  BY DEF HInv, PInv, RInv, FInv
<1>2. PICK c \in heard[n] :
        /\ c \in Copy /\ c.msg \in Msg
        /\ heard' = [heard EXCEPT ![n] = @ \ {c}] /\ sends' = sends
        /\ \A k \in Node : k # n => pending'[k] = pending[k]
        /\ \/ pending'[n] = pending[n]
           \/ pending'[n] = Uncancelled(n, c.msg)
           \/ ~WasSeen(n, c.msg) /\ pending'[n] = pending[n] \union {Waiting(Recorded(n, c))}
  BY <1>1, ProcessDetails
<1>3. /\ \A k \in Node, m \in Msg, d \in Int : CoveredBy(k, m, d) => CoveredBy(k, m, d)'
      /\ \A d \in Int : CoveredBy(n, c.msg, d) => CoveredBy(n, c.msg, d + 1)'
  BY <1>1, <1>2, TakenCovers
<1>4. ASSUME NEW x \in pending'[n]
      PROVE  \/ x \in pending[n]
             \/ /\ x.dups < Threshold
                /\ x.path # << >> => CoveredBy(n, x.msg, x.dups + 1)'
  <2>1. CASE pending'[n] = Uncancelled(n, c.msg) /\ DupSuppress
    <3>1. PICK y \in pending[n] : x = Told(y, c.msg)
      BY <1>2, <1>4, <2>1, UncancelledIsTold
    <3>2. x.dups < Threshold
      BY <1>2, <1>4, <2>1, UncancelledIsTold
    <3>3. y \in Entry /\ y.dups + 1 \in Int
      BY <1>1 DEF TypeOK, Entry
    <3>4. CASE y.msg = c.msg /\ y.path # << >> /\ x.dups = y.dups + 1
      <4>1. CoveredBy(n, c.msg, y.dups + 1)
        BY <1>1, <3>4 DEF Covering
      <4>2. CoveredBy(n, c.msg, (y.dups + 1) + 1)'
        BY <1>3, <3>3, <4>1
      <4> QED
        BY <1>2, <3>1, <3>2, <3>3, <3>4, <4>2, ToldEntry
    <3> QED
      BY <1>2, <3>1, <3>3, <3>4, ToldEntry
  <2>2. CASE x = Waiting(Recorded(n, c))
    <3>1. x.msg = c.msg /\ x.dups = 0 /\ 0 < Threshold
      BY <1>2, <2>2, RecordedIsCopy, Limits DEF Waiting
    <3>2. CoveredBy(n, c.msg, 0)
      BY <1>1, <1>2 DEF Covering
    <3>3. CoveredBy(n, c.msg, 0 + 1)'
      BY <1>3, <3>2
    <3> QED
      BY <3>1, <3>3
  <2> QED
    BY <1>2, <1>4, <2>1, <2>2, UncancelledIsTold, Switches
<1>5. \A k \in Node : \A x \in pending'[k] :
        \/ x \in pending[k]
        \/ /\ x.dups < Threshold
           /\ x.path # << >> => CoveredBy(k, x.msg, x.dups + 1)'
  BY <1>2, <1>4
<1> QED
  BY <1>1, <1>3, <1>5, CoveringKept

(* A relay that is cancelled by this copy has enough others that sent it: the *)
(* duplicates counted before, the copy it queued, and this one.              *)
LEMMA CancelsCovered ==
  ASSUME HInv, Remembers, Covering', NEW n \in Node, WatchProcess(n),
         NEW m \in Msg, NEW e \in pending[n], e.msg = m,
         ~\E x \in pending'[n] : x.msg = m
  PROVE  Cardinality(Sources(n, m)') > Threshold
<1>1. TypeOK /\ Covering
  BY DEF HInv, PInv, RInv, FInv
<1>2. PICK c \in heard[n] :
        /\ c \in Copy /\ c.msg \in Msg
        /\ heard' = [heard EXCEPT ![n] = @ \ {c}] /\ sends' = sends
        /\ \/ pending'[n] = pending[n]
           \/ pending'[n] = Uncancelled(n, c.msg)
           \/ pending'[n] = pending[n] \union {Waiting(Recorded(n, c))}
  BY <1>1, ProcessDetails
<1>3. e \in Entry /\ e.dups \in Nat /\ e.dups < Threshold
  BY <1>1 DEF TypeOK, Entry, Covering
<1>4. DupSuppress /\ pending'[n] = Uncancelled(n, c.msg)
  BY <1>2, UncancelledIsTold, Switches
<1>5. /\ Told(e, c.msg) \in { Told(y, c.msg) : y \in pending[n] }
      /\ Told(e, c.msg).msg = m
  BY <1>2, <1>3, ToldEntry
<1>6. ~(Told(e, c.msg).dups < Threshold)
  BY <1>2, <1>4, <1>5, UncancelledIsTold
<1>7. m = c.msg /\ e.path # << >> /\ ~(e.dups + 1 < Threshold)
  BY <1>2, <1>3, <1>6, ToldEntry
<1>8. CoveredBy(n, m, e.dups + 1)
  BY <1>1, <1>7 DEF Covering
<1>9. CoveredBy(n, m, (e.dups + 1) + 1)'
  <2>1. \A d \in Int : CoveredBy(n, c.msg, d) => CoveredBy(n, c.msg, d + 1)'
    BY <1>1, <1>2, TakenCovers
  <2>2. CoveredBy(n, c.msg, e.dups + 1) /\ e.dups + 1 \in Int
    BY <1>3, <1>7, <1>8
  <2>3. CoveredBy(n, c.msg, (e.dups + 1) + 1)'
    BY <2>1, <2>2
  <2> QED
    BY <1>7, <2>3
<1>10. /\ IsFiniteSet(Sources(n, m)') /\ IsFiniteSet(Copies(n, m)')
       /\ Cardinality(Copies(n, m)') + ((e.dups + 1) + 1) <= Cardinality(Sources(n, m)')
  BY <1>9 DEF CoveredBy
<1>11. Cardinality(Copies(n, m)') \in Nat /\ Cardinality(Sources(n, m)') \in Nat
         /\ Threshold \in Nat
  BY <1>10, FS_CardinalityType, Limits
<1> QED
  BY <1>3, <1>7, <1>10, <1>11

LEMMA ProcessKeepsCancelled ==
  ASSUME HInv, Remembers, Remembers', Covering', NEW n \in Node, WatchProcess(n)
  PROVE  CancelledIsCovered'
<1>1. sends' = sends
  BY DEF WatchProcess
<1>2. \A p \in cancelled : Cardinality(Sources(p[1], p[2])') > Threshold
  BY <1>1, CancelledKept DEF HInv
<1>3. \A p \in cancelled' \ cancelled : Cardinality(Sources(p[1], p[2])') > Threshold
  <2> SUFFICES ASSUME NEW p \in cancelled' \ cancelled
               PROVE  Cardinality(Sources(p[1], p[2])') > Threshold
    OBVIOUS
  <2>1. PICK m \in Msg :
          /\ p = <<n, m>>
          /\ \E e \in pending[n] : e.msg = m
          /\ ~\E e \in pending'[n] : e.msg = m
    BY DEF WatchProcess
  <2>2. p[1] = n /\ p[2] = m
    BY <2>1
  <2> QED
    BY <2>1, <2>2, CancelsCovered
<1>4. \A p \in cancelled' : Cardinality(Sources(p[1], p[2])') > Threshold
  BY <1>2, <1>3
<1> QED
  BY <1>4 DEF CancelledIsCovered, Sources

------------------------------------------------------------------------
LEMMA TypesKept == HInv /\ [HNext]_hvars => HType'
<1> SUFFICES ASSUME HInv, [HNext]_hvars PROVE HType'
  OBVIOUS
<1>1. HType /\ TypeOK
  BY DEF HInv, PInv, RInv, FInv
<1>2. CASE UNCHANGED <<sends, cancelled>>
  BY <1>1, <1>2 DEF HType
<1>3. ASSUME NEW n \in Node, WatchSend(n) PROVE HType'
  BY <1>1, <1>3, SendDetails DEF HType, Entry
<1>4. ASSUME NEW n \in Node, WatchProcess(n) PROVE HType'
  BY <1>1, <1>4 DEF WatchProcess, HType
<1> QED
  BY <1>2, <1>3, <1>4 DEF HNext, hvars

LEMMA HistoryKept == HInv /\ [HNext]_hvars => HInv'
<1> SUFFICES ASSUME HInv, [HNext]_hvars PROVE HInv'
  OBVIOUS
<1>1. PInv' /\ HType' /\ (Remembers' => Remembers)
  BY HistoryStep, PathStep, TypesKept DEF HInv, Remembers
<1>2. SUFFICES ASSUME Remembers, Remembers'
               PROVE  Once' /\ Covering' /\ CancelledIsCovered'
  BY <1>1 DEF HInv, Once, Covering, CancelledIsCovered
<1>3. CASE UNCHANGED hvars
  <2>1. \A k \in Node, m \in Msg, d \in Int : CoveredBy(k, m, d) => CoveredBy(k, m, d)'
    BY <1>3 DEF hvars, vars, CoveredBy, Sources, Copies
  <2>2. Covering'
    BY <1>2, <1>3, <2>1, CoveringKept DEF HInv, PInv, RInv, FInv, hvars, vars
  <2>3. Once' /\ CancelledIsCovered'
    BY <1>3 DEF HInv, Once, CancelledIsCovered, WasSeen, Remembers, hvars, vars
  <2> QED
    BY <2>2, <2>3
<1>4. ASSUME NEW m \in Msg, Originate(m), UNCHANGED <<sends, cancelled>>
      PROVE  Once' /\ Covering' /\ CancelledIsCovered'
  <2>1. Once' /\ Covering'
    BY <1>2, <1>4, OriginateOnce
  <2>2. CancelledIsCovered'
    BY <1>2, <1>4 DEF HInv, CancelledIsCovered
  <2> QED
    BY <2>1, <2>2
<1>5. ASSUME NEW n \in Node, WatchSend(n) PROVE Once' /\ Covering' /\ CancelledIsCovered'
  BY <1>2, <1>5, SendOnce, SendKeepsCovering
<1>6. ASSUME NEW n \in Node, WatchProcess(n)
      PROVE  Once' /\ Covering' /\ CancelledIsCovered'
  BY <1>2, <1>6, ProcessOnce, ProcessCovers, ProcessKeepsCancelled
<1> QED
  BY <1>3, <1>4, <1>5, <1>6 DEF HNext

LEMMA HistoryInvariant == HSpec => []HInv
BY InitHistory, HistoryKept, PTL DEF HSpec

(* For every mesh and every interleaving, a node whose table keeps every      *)
(* message sends each at most once.                                         *)
THEOREM EachIsSentOnce == HSpec => []SentOnce
<1>1. HInv => SentOnce
  BY DEF HInv, Once, SentOnce
<1> QED
  BY <1>1, HistoryInvariant, PTL

(* For every mesh and every threshold, a relay is cancelled only when more     *)
(* nodes in range than the threshold have themselves sent the message.       *)
THEOREM CancelledStaysCovered == HSpec => []CancelledIsCovered
<1>1. HInv => CancelledIsCovered
  BY DEF HInv
<1> QED
  BY <1>1, HistoryInvariant, PTL

(* The history of a mesh is one of MeshFlood: what is proved there holds here. *)
LEMMA HistoryIsFlood == HSpec => Spec
<1>1. HInit => Init
  BY DEF HInit
<1>2. [HNext]_hvars => [Next]_vars
  BY HistoryStep
<1> QED
  BY <1>1, <1>2, PTL DEF HSpec, Spec
========================================================================
