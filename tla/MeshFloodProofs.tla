------------------------ MODULE MeshFloodProofs ------------------------
(***************************************************************************)
(* Proofs about MeshFlood for every mesh, every limit and every table size. *)
(*                                                                         *)
(* Informed strengthens the refinement: who queues a message knows it and   *)
(* may pass it on, and whoever has heard it has a neighbour who could send  *)
(* it.  Traced strengthens PathsAreReal by what it says of a copy whose hop *)
(* count ran over: its hashes have two bytes where the origin chose one, so *)
(* that the count cannot run over twice.                                    *)
(***************************************************************************)
EXTENDS MeshFlood, FiniteSetTheorems, TLAPS

Passes(m) == Carriers[m] \union {Origin[m]}

Informed ==
  \A n \in Node :
    /\ \A x \in pending[n] : n \in Knows[x.msg] /\ n \in Passes(x.msg)
    /\ \A x \in heard[n] :
         \E k \in Knows[x.msg] : k \in Passes(x.msg) /\ <<k, n>> \in Links

Traced(x) ==
  \/ x.size = HashSize[x.msg] /\ IsWay(x.msg, x.path)
  \/ x.size = 2 /\ HashSize[x.msg] = 1

Tracing ==
  \A n \in Node :
    /\ \A x \in pending[n] :
         Traced(x) /\ (x.size = HashSize[x.msg] => Sender(x.msg, x.path) = n)
    /\ \A x \in heard[n] :
         Traced(x) /\ (x.size = HashSize[x.msg] => <<Sender(x.msg, x.path), n>> \in Links)

FInv == TypeOK /\ Informed /\ Tracing

------------------------------------------------------------------------
(* Counting duplicates changes nothing of an entry but the count, and leaves *)
(* no entry out of the range of the count.                                  *)
LEMMA UncancelledIsOld ==
  ASSUME TypeOK, NEW n \in Node, NEW m \in Msg,
         NEW x \in Uncancelled(n, m)
  PROVE  /\ x \in Entry
         /\ \E y \in pending[n] : x.msg = y.msg /\ x.size = y.size /\ x.path = y.path
<1>1. pending[n] \subseteq Entry
  BY DEF TypeOK
<1>2. CASE ~DupSuppress
  BY <1>1, <1>2 DEF Uncancelled
<1>3. CASE DupSuppress
  <2>1. x \in Counted(n, m) /\ x.dups < Threshold
    BY <1>3 DEF Uncancelled
  <2>2. PICK y \in pending[n] :
          x = IF y.msg = m /\ Suppressible(y) THEN [y EXCEPT !.dups = @ + 1] ELSE y
    BY <2>1 DEF Counted
  <2>3. y \in Entry
    BY <1>1
  <2>4. CASE x = y
    BY <2>3, <2>4
  <2>5. CASE x = [y EXCEPT !.dups = @ + 1]
    BY <2>1, <2>3, <2>5, Limits DEF Entry
  <2> QED
    BY <2>2, <2>4, <2>5
<1> QED
  BY <1>2, <1>3, Switches

(* A relayed copy has a hash more, or its count ran over.                    *)
LEMMA RecordedIsCopy ==
  ASSUME NEW c \in Copy, NEW n \in Node
  PROVE  /\ Recorded(n, c) \in Copy
         /\ Recorded(n, c).msg = c.msg
         /\ \/ Recorded(n, c).size = c.size /\ Recorded(n, c).path = Append(c.path, n)
            \/ Recorded(n, c).size = 2 /\ Len(c.path) + 1 >= HopCountRange
<1>1. c.path \in Seq(Node) /\ c.size \in 1 .. 3 /\ c.msg \in Msg
  BY DEF Copy, Path
<1>2. Append(c.path, n) \in Seq(Node) /\ << >> \in Seq(Node) /\ Len(c.path) \in Nat
  BY <1>1
<1>3. CASE Len(c.path) + 1 < HopCountRange
  BY <1>1, <1>2, <1>3 DEF Recorded, Copy, Path
<1>4. CASE ~(Len(c.path) + 1 < HopCountRange)
  <2>1. Recorded(n, c) = [msg |-> c.msg, size |-> 2, path |-> << >>]
    BY <1>4 DEF Recorded
  <2>3. [msg |-> c.msg, size |-> 2, path |-> << >>] \in Copy
    BY <1>1, <1>2 DEF Copy, Path
  <2>4. Len(c.path) + 1 >= HopCountRange
    BY <1>2, <1>4, Limits
  <2> QED
    BY <2>1, <2>3, <2>4
<1> QED
  BY <1>3, <1>4

LEMMA WaitingIsEntry ==
  ASSUME NEW c \in Copy
  PROVE  /\ Waiting(c) \in Entry
         /\ Waiting(c).msg = c.msg /\ Waiting(c).size = c.size /\ Waiting(c).path = c.path
BY Limits DEF Waiting, Copy, Entry

LEMMA AiredIsCopy ==
  ASSUME NEW x \in Entry
  PROVE  /\ Aired(x) \in Copy
         /\ Aired(x).msg = x.msg /\ Aired(x).size = x.size /\ Aired(x).path = x.path
BY DEF Aired, Copy, Entry

(* The table keeps its size.                                                *)
LEMMA MarkedIsTable ==
  ASSUME TypeOK, NEW n \in Node, NEW m \in Msg
  PROVE  Marked(n, m) \in Seq(Msg) /\ Len(Marked(n, m)) <= TableSize
<1>1. table[n] \in Seq(Msg) /\ Len(table[n]) <= TableSize /\ TableSize \in Nat
  BY Limits DEF TypeOK
<1> DEFINE t == Append(table[n], m)
<1>2. t \in Seq(Msg) /\ Len(t) = Len(table[n]) + 1
  BY <1>1
<1>3. CASE Len(t) > TableSize
  <2>1. Len(Tail(t)) = Len(t) - 1 /\ Tail(t) \in Seq(Msg)
    BY <1>2, <1>1
  <2> QED
    BY <1>1, <1>2, <1>3, <2>1 DEF Marked
<1>4. CASE ~(Len(t) > TableSize)
  BY <1>1, <1>2, <1>4 DEF Marked
<1> QED
  BY <1>3, <1>4

------------------------------------------------------------------------
(* Nothing is forgotten by the layers above: who knows a message keeps it.    *)
LEMMA KnowledgeStays ==
  ASSUME originated \subseteq originated',
         \A n \in Node : got[n] \subseteq got'[n]
  PROVE  \A m \in Msg : Knows[m] \subseteq Knows'[m]
BY DEF Knows

LEMMA KnowersOf ==
  ASSUME NEW m \in Msg, NEW n \in Node
  PROVE  n \in Knows[m] <=> m \in got[n] \/ (m \in originated /\ n = Origin[m])
BY DEF Knows

Same(x, y) == x.msg = y.msg /\ x.size = y.size /\ x.path = y.path

Fresh(k, x) ==
  /\ k \in Knows'[x.msg] /\ k \in Passes(x.msg)
  /\ Traced(x) /\ (x.size = HashSize[x.msg] => Sender(x.msg, x.path) = k)

(* What is queued after a step was queued before or is fresh; what is heard   *)
(* was heard before or is what a neighbour had queued.  Then all of it is    *)
(* informed and traced, since nobody forgets a message.                     *)
LEMMA StepKeeps ==
  ASSUME TypeOK, Informed, Tracing,
         originated \subseteq originated',
         \A n \in Node : got[n] \subseteq got'[n],
         \A k \in Node : \A x \in pending'[k] :
           Fresh(k, x) \/ \E y \in pending[k] : Same(x, y),
         \A k \in Node : \A x \in heard'[k] :
           \/ x \in heard[k]
           \/ \E s \in Node : <<s, k>> \in Links /\ \E y \in pending[s] : Same(x, y)
  PROVE  Informed' /\ Tracing'
<1>1. \A m \in Msg : Knows[m] \subseteq Knows'[m]
  BY KnowledgeStays
<1>2. \A k \in Node : \A y \in pending[k] :
        y.msg \in Msg /\ k \in Knows'[y.msg] /\ k \in Passes(y.msg)
  BY <1>1 DEF Informed, TypeOK, Entry
<1>3. \A k \in Node : \A x \in pending'[k] : Fresh(k, x)
  <2> SUFFICES ASSUME NEW k \in Node, NEW x \in pending'[k],
                      NEW y \in pending[k], Same(x, y)
               PROVE  Fresh(k, x)
    OBVIOUS
  <2>1. Traced(y) /\ (y.size = HashSize[y.msg] => Sender(y.msg, y.path) = k)
    BY DEF Tracing
  <2> QED
    BY <1>2, <2>1 DEF Fresh, Same, Traced
<1>4. \A k \in Node : \A x \in heard'[k] :
        /\ \E s \in Knows'[x.msg] : s \in Passes(x.msg) /\ <<s, k>> \in Links
        /\ Traced(x) /\ (x.size = HashSize[x.msg] => <<Sender(x.msg, x.path), k>> \in Links)
  <2> SUFFICES ASSUME NEW k \in Node, NEW x \in heard'[k]
               PROVE  /\ \E s \in Knows'[x.msg] : s \in Passes(x.msg) /\ <<s, k>> \in Links
                      /\ Traced(x)
                      /\ x.size = HashSize[x.msg] => <<Sender(x.msg, x.path), k>> \in Links
    OBVIOUS
  <2>1. CASE x \in heard[k]
    <3>1. x.msg \in Msg
      BY <2>1 DEF TypeOK, Copy
    <3> QED
      BY <1>1, <2>1, <3>1 DEF Informed, Tracing
  <2>2. CASE \E s \in Node : <<s, k>> \in Links /\ \E y \in pending[s] : Same(x, y)
    <3>1. PICK s \in Node : <<s, k>> \in Links /\ \E y \in pending[s] : Same(x, y)
      BY <2>2
    <3>2. PICK y \in pending[s] : Same(x, y)
      BY <3>1
    <3>3. Traced(y) /\ (y.size = HashSize[y.msg] => Sender(y.msg, y.path) = s)
      BY DEF Tracing
    <3> QED
      BY <1>2, <3>1, <3>2, <3>3 DEF Same, Traced
  <2> QED
    BY <2>1, <2>2
<1> QED
  BY <1>3, <1>4 DEF Informed, Tracing, Fresh, Passes, Traced

LEMMA InitHolds == Init => FInv
<1> SUFFICES ASSUME Init PROVE FInv
  OBVIOUS
<1>1. \A n \in Node : pending[n] = {} /\ heard[n] = {} /\ table[n] = << >> /\ got[n] = {}
  BY DEF Init
<1>2. << >> \in Seq(Msg) /\ Len(<< >>) <= TableSize
  BY Limits
<1>3. TypeOK
  BY <1>2, Limits DEF Init, TypeOK
<1>4. Informed /\ Tracing
  BY <1>1 DEF Informed, Tracing
<1> QED
  BY <1>3, <1>4 DEF FInv

------------------------------------------------------------------------
(* sendFlood: the origin knows the message, and its path is empty.            *)
LEMMA OriginateKeeps ==
  ASSUME FInv, NEW m \in Msg, Originate(m)
  PROVE  FInv'
<1> DEFINE n == Origin[m]
           c == [msg |-> m, size |-> HashSize[m], path |-> << >>]
<1>1. n \in Node /\ c \in Copy
  BY Topology, Limits DEF Copy, Path
<1>2. Waiting(c) \in Entry /\ Waiting(c).msg = m /\ Waiting(c).size = HashSize[m]
        /\ Waiting(c).path = << >>
  BY <1>1, WaitingIsEntry
<1>3. /\ pending' = [pending EXCEPT ![n] = @ \union {Waiting(c)}]
      /\ heard' = heard /\ got' = got /\ reboots' = reboots
      /\ originated' = originated \union {m}
      /\ table' = [table EXCEPT ![n] = Marked(n, m)]
  BY DEF Originate
<1>4. TypeOK /\ Informed /\ Tracing
  BY DEF FInv
<1>5. TypeOK'
  <2>1. Marked(n, m) \in Seq(Msg) /\ Len(Marked(n, m)) <= TableSize
    BY <1>1, <1>4, MarkedIsTable
  <2>2. table' \in [Node -> Seq(Msg)] /\ \A k \in Node : Len(table'[k]) <= TableSize
    BY <1>1, <1>3, <1>4, <2>1 DEF TypeOK
  <2>3. pending' \in [Node -> SUBSET Entry]
    BY <1>1, <1>2, <1>3, <1>4 DEF TypeOK
  <2> QED
    BY <1>3, <1>4, <2>2, <2>3 DEF TypeOK
<1>6. Fresh(n, Waiting(c))
  <2>1. IsWay(m, << >>) /\ Sender(m, << >>) = n
    BY DEF IsWay, Sender, Range
  <2>2. n \in Knows'[m] /\ n \in Passes(m)
    BY <1>1, <1>3 DEF Knows, Passes
  <2> QED
    BY <1>2, <2>1, <2>2 DEF Fresh, Traced
<1>7. \A k \in Node : \A x \in pending'[k] : Fresh(k, x) \/ \E y \in pending[k] : Same(x, y)
  BY <1>1, <1>3, <1>4, <1>6 DEF TypeOK, Same
<1>8. Informed' /\ Tracing'
  BY <1>3, <1>4, <1>7, StepKeeps
<1> QED
  BY <1>5, <1>8 DEF FInv

(* The radio: what was queued is heard by the neighbours.                    *)
LEMMA TransmitKeeps ==
  ASSUME FInv, NEW n \in Node, Transmit(n)
  PROVE  FInv'
<1>1. PICK e \in pending[n] :
        /\ pending' = [pending EXCEPT ![n] = @ \ {e}]
        /\ heard' = [k \in Node |-> IF <<n, k>> \in Links
                                    THEN heard[k] \union {Aired(e)} ELSE heard[k]]
        /\ UNCHANGED <<originated, table, got, reboots>>
  BY DEF Transmit
<1>2. TypeOK /\ Informed /\ Tracing
  BY DEF FInv
<1>3. e \in Entry
  BY <1>2 DEF TypeOK
<1>4. Aired(e) \in Copy /\ Same(Aired(e), e)
  BY <1>3, AiredIsCopy DEF Same
<1>5. TypeOK'
  BY <1>1, <1>2, <1>4 DEF TypeOK
<1>6. \A k \in Node : \A x \in pending'[k] : Fresh(k, x) \/ \E y \in pending[k] : Same(x, y)
  BY <1>1, <1>2 DEF TypeOK, Same
<1>7. \A k \in Node : \A x \in heard'[k] :
        \/ x \in heard[k]
        \/ \E s \in Node : <<s, k>> \in Links /\ \E y \in pending[s] : Same(x, y)
  BY <1>1, <1>4
<1>8. Informed' /\ Tracing'
  BY <1>1, <1>2, <1>6, <1>7, StepKeeps
<1> QED
  BY <1>5, <1>8 DEF FInv

(* A copy that is dropped, or only counted.                                  *)
LEMMA DropKeeps ==
  ASSUME FInv, NEW n \in Node, ProcessOwnAdvert(n) \/ ProcessDuplicate(n)
  PROVE  FInv'
<1>1. TypeOK /\ Informed /\ Tracing
  BY DEF FInv
<1>2. PICK c \in heard[n] :
        /\ heard' = [heard EXCEPT ![n] = @ \ {c}]
        /\ pending' = pending \/ pending' = [pending EXCEPT ![n] = Uncancelled(n, c.msg)]
        /\ UNCHANGED <<originated, table, got, reboots>>
  BY DEF ProcessOwnAdvert, ProcessDuplicate, Takes
<1>3. c.msg \in Msg
  BY <1>1 DEF TypeOK, Copy
<1>4. \A x \in Uncancelled(n, c.msg) : x \in Entry /\ \E y \in pending[n] : Same(x, y)
  BY <1>1, <1>3, UncancelledIsOld DEF Same
<1>5. pending' \in [Node -> SUBSET Entry]
  BY <1>1, <1>2, <1>4 DEF TypeOK
<1>6. TypeOK'
  BY <1>1, <1>2, <1>5 DEF TypeOK
<1>7. \A k \in Node : \A x \in pending'[k] : \E y \in pending[k] : Same(x, y)
  <2>1. \A k \in Node : \A x \in pending[k] : \E y \in pending[k] : Same(x, y)
    BY DEF Same
  <2>2. \A k \in Node : pending'[k] = pending[k] \/ (k = n /\ pending'[k] = Uncancelled(n, c.msg))
    BY <1>1, <1>2 DEF TypeOK
  <2> QED
    BY <1>4, <2>1, <2>2
<1>8. \A k \in Node : \A x \in heard'[k] : x \in heard[k]
  BY <1>1, <1>2 DEF TypeOK
<1>9. Informed' /\ Tracing'
  BY <1>1, <1>2, <1>7, <1>8, StepKeeps
<1> QED
  BY <1>6, <1>9 DEF FInv

(* A relay appended to a way that ends in range of it makes a way.            *)
LEMMA WayGrows ==
  ASSUME NEW m \in Msg, NEW path \in Seq(Node), NEW n \in Carriers[m],
         IsWay(m, path), <<Sender(m, path), n>> \in Links
  PROVE  IsWay(m, Append(path, n)) /\ Sender(m, Append(path, n)) = n
<1> DEFINE new == Append(path, n)
<1>1. Len(path) \in Nat /\ DOMAIN path = 1 .. Len(path)
  OBVIOUS
<1>2. DOMAIN new = 1 .. (Len(path) + 1) /\ new[Len(path) + 1] = n
        /\ Len(new) = Len(path) + 1 /\ \A i \in DOMAIN path : new[i] = path[i]
  BY <1>1 DEF Carriers
<1>3. Range(new) \subseteq Carriers[m]
  BY <1>1, <1>2 DEF IsWay, Range
<1>4. ASSUME NEW i \in DOMAIN new
      PROVE  <<IF i = 1 THEN Origin[m] ELSE new[i - 1], new[i]>> \in Links
  <2>1. CASE i \in DOMAIN path
    <3>1. <<IF i = 1 THEN Origin[m] ELSE path[i - 1], path[i]>> \in Links
      BY <2>1 DEF IsWay
    <3>2. i # 1 => i - 1 \in DOMAIN path
      BY <1>1, <2>1
    <3> QED
      BY <1>2, <2>1, <3>1, <3>2
  <2>2. CASE i = Len(path) + 1
    <3>1. CASE path = << >>
      BY <1>2, <2>2, <3>1 DEF Sender
    <3>2. CASE path # << >>
      <4>1. Len(path) # 0 /\ Len(path) \in DOMAIN path
        BY <1>1, <3>2
      <4>2. Sender(m, path) = new[i - 1]
        BY <1>1, <1>2, <2>2, <3>2, <4>1 DEF Sender
      <4> QED
        BY <1>1, <1>2, <2>2, <4>1, <4>2
    <3> QED
      BY <3>1, <3>2
  <2> QED
    BY <1>1, <1>2, <2>1, <2>2
<1>5. new # << >>
  BY <1>1, <1>2
<1> QED
  BY <1>2, <1>3, <1>4, <1>5 DEF IsWay, Sender

(* What a node relays is fresh: the copy's way continues over this node, or   *)
(* its hop count has run over, which leaves room for one-byte hashes only.   *)
LEMMA RelayedIsFresh ==
  ASSUME TypeOK, Tracing, NEW n \in Node, NEW c \in heard[n], Relays(n, c),
         n \in Knows'[c.msg]
  PROVE  Fresh(n, Waiting(Recorded(n, c)))
<1> DEFINE r == Recorded(n, c)
           x == Waiting(r)
<1>1. c \in Copy /\ c.msg \in Msg /\ c.size \in 1 .. 3 /\ c.path \in Seq(Node)
  BY DEF TypeOK, Copy, Path
<1>2. /\ r \in Copy /\ r.msg = c.msg
      /\ \/ r.size = c.size /\ r.path = Append(c.path, n)
         \/ r.size = 2 /\ Len(c.path) + 1 >= HopCountRange
  BY <1>1, RecordedIsCopy
<1>3. x.msg = c.msg /\ x.size = r.size /\ x.path = r.path
  BY <1>2, WaitingIsEntry
<1>4. n \in Carriers[c.msg]
  BY <1>1 DEF Relays, MayForward, Carriers
<1>5. Traced(c) /\ (c.size = HashSize[c.msg] => <<Sender(c.msg, c.path), n>> \in Links)
  BY DEF Tracing
<1>6. Traced(x) /\ (x.size = HashSize[x.msg] => Sender(x.msg, x.path) = n)
  <2>1. CASE c.size = 2 /\ HashSize[c.msg] = 1
    BY <1>2, <1>3, <2>1 DEF Traced
  <2>2. CASE c.size = HashSize[c.msg] /\ IsWay(c.msg, c.path)
    <3>1. CASE r.size = c.size /\ r.path = Append(c.path, n)
      BY <1>1, <1>3, <1>4, <1>5, <2>2, <3>1, WayGrows DEF Traced
    <3>2. CASE r.size = 2 /\ Len(c.path) + 1 >= HopCountRange
      <4>1. (Len(c.path) + 1) * c.size <= MaxPathSize /\ Len(c.path) \in Nat
        BY <1>1 DEF Relays, WithinLimits
      <4>2. MaxPathSize \in Int /\ HopCountRange \in Int /\ MaxPathSize <= HopCountRange
              /\ HopCountRange > 0
        BY Limits
      <4>3. c.size = 1
        <5>1. ~(c.size = 2)
          BY <3>2, <4>1, <4>2
        <5>2. ~(c.size = 3)
          BY <3>2, <4>1, <4>2
        <5> QED
          BY <1>1, <5>1, <5>2
      <4> QED
        BY <1>3, <2>2, <3>2, <4>3 DEF Traced
    <3> QED
      BY <1>2, <3>1, <3>2
  <2> QED
    BY <1>5, <2>1, <2>2 DEF Traced
<1> QED
  BY <1>3, <1>4, <1>6 DEF Fresh, Passes

LEMMA NewKeeps ==
  ASSUME FInv, NEW n \in Node, ProcessNew(n)
  PROVE  FInv'
<1>1. TypeOK /\ Informed /\ Tracing
  BY DEF FInv
<1>2. PICK c \in heard[n] :
        /\ heard' = [heard EXCEPT ![n] = @ \ {c}]
        /\ table' = [table EXCEPT ![n] = Marked(n, c.msg)]
        /\ got' = [got EXCEPT ![n] = @ \union {c.msg}]
        /\ pending' = pending \/ (Relays(n, c) /\ Queues(n, c))
        /\ UNCHANGED <<originated, reboots>>
  BY DEF ProcessNew, Takes
<1> DEFINE x == Waiting(Recorded(n, c))
<1>3. c \in Copy /\ c.msg \in Msg
  BY <1>1 DEF TypeOK, Copy
<1>4. x \in Entry
  BY <1>3, RecordedIsCopy, WaitingIsEntry
<1>5. pending' = pending \/ (Relays(n, c) /\ pending' = [pending EXCEPT ![n] = @ \union {x}])
  BY <1>2 DEF Queues
<1>6. TypeOK'
  <2>1. Marked(n, c.msg) \in Seq(Msg) /\ Len(Marked(n, c.msg)) <= TableSize
    BY <1>1, <1>3, MarkedIsTable
  <2>2. table' \in [Node -> Seq(Msg)] /\ \A k \in Node : Len(table'[k]) <= TableSize
    BY <1>1, <1>2, <2>1 DEF TypeOK
  <2>3. pending' \in [Node -> SUBSET Entry]
    BY <1>1, <1>4, <1>5 DEF TypeOK
  <2>4. heard' \in [Node -> SUBSET Copy] /\ got' \in [Node -> SUBSET Msg]
    BY <1>1, <1>2, <1>3 DEF TypeOK
  <2> QED
    BY <1>1, <1>2, <2>2, <2>3, <2>4 DEF TypeOK
<1>7. n \in Knows'[c.msg]
  BY <1>1, <1>2, <1>3 DEF Knows, TypeOK
<1>8. Relays(n, c) => Fresh(n, x)
  BY <1>1, <1>7, RelayedIsFresh
<1>9. \A k \in Node : \A y \in pending'[k] : Fresh(k, y) \/ \E z \in pending[k] : Same(y, z)
  BY <1>1, <1>5, <1>8 DEF TypeOK, Same
<1>10. \A k \in Node : \A y \in heard'[k] : y \in heard[k]
  BY <1>1, <1>2 DEF TypeOK
<1>11. originated \subseteq originated' /\ \A k \in Node : got[k] \subseteq got'[k]
  BY <1>1, <1>2 DEF TypeOK
<1>12. Informed' /\ Tracing'
  BY <1>1, <1>9, <1>10, <1>11, StepKeeps
<1> QED
  BY <1>6, <1>12 DEF FInv

LEMMA RebootKeeps ==
  ASSUME FInv, NEW n \in Node, Reboot(n)
  PROVE  FInv'
<1>1. TypeOK /\ Informed /\ Tracing
  BY DEF FInv
<1>2. << >> \in Seq(Msg) /\ Len(<< >>) <= TableSize
  BY Limits
<1>3. table' \in [Node -> Seq(Msg)] /\ \A k \in Node : Len(table'[k]) <= TableSize
  BY <1>1, <1>2 DEF TypeOK, Reboot
<1>4. TypeOK'
  BY <1>1, <1>3, Limits DEF TypeOK, Reboot
<1>5. \A k \in Node : pending'[k] \subseteq pending[k] /\ heard'[k] \subseteq heard[k]
  BY <1>1 DEF TypeOK, Reboot
<1>6. originated' = originated /\ got' = got
  BY DEF Reboot
<1>7. \A k \in Node : \A x \in pending'[k] : \E y \in pending[k] : Same(x, y)
  BY <1>5 DEF Same
<1>8. Informed' /\ Tracing'
  BY <1>1, <1>5, <1>6, <1>7, StepKeeps
<1> QED
  BY <1>4, <1>8 DEF FInv

LEMMA FloodStep == FInv /\ [Next]_vars => FInv'
<1> SUFFICES ASSUME FInv, [Next]_vars PROVE FInv'
  OBVIOUS
<1>1. CASE UNCHANGED vars
  <2>1. TypeOK'
    BY <1>1 DEF vars, FInv, TypeOK
  <2>2. \A k \in Node : \A x \in pending'[k] : \E y \in pending[k] : Same(x, y)
    BY <1>1 DEF vars, Same
  <2>3. Informed' /\ Tracing'
    BY <1>1, <2>2, StepKeeps DEF vars, FInv
  <2> QED
    BY <2>1, <2>3 DEF FInv
<1>2. ASSUME NEW m \in Msg, Originate(m) PROVE FInv'
  BY <1>2, OriginateKeeps
<1>3. ASSUME NEW n \in Node, Transmit(n) PROVE FInv'
  BY <1>3, TransmitKeeps
<1>4. ASSUME NEW n \in Node, Process(n) PROVE FInv'
  BY <1>4, DropKeeps, NewKeeps DEF Process
<1>5. ASSUME NEW n \in Node, Reboot(n) PROVE FInv'
  BY <1>5, RebootKeeps
<1> QED
  BY <1>1, <1>2, <1>3, <1>4, <1>5 DEF Next

(* Type correctness of the flooding mesh: the ring of hashes never exceeds    *)
(* its size, nor a duplicate count the threshold, nor a hash three bytes.    *)
THEOREM FloodTypeCorrect == Spec => []TypeOK
<1>1. Spec => []FInv
  BY InitHolds, FloodStep, PTL DEF Spec
<1>2. FInv => TypeOK
  BY DEF FInv
<1> QED
  BY <1>1, <1>2, PTL

(* For every mesh, and however copies interleave, tables overflow and nodes   *)
(* restart: the path of a queued or heard packet is the way it really took   *)
(* over relays in range of each other, unless its hop count has run over.    *)
THEOREM PathsStayReal == Spec => []PathsAreReal
<1>1. Spec => []FInv
  BY InitHolds, FloodStep, PTL DEF Spec
<1>2. FInv => PathsAreReal
  <2> SUFFICES ASSUME FInv, NEW n \in Node PROVE
        /\ \A e \in pending[n] : e.size = HashSize[e.msg] =>
             IsWay(e.msg, e.path) /\ Sender(e.msg, e.path) = n
        /\ \A c \in heard[n] : c.size = HashSize[c.msg] =>
             IsWay(c.msg, c.path) /\ <<Sender(c.msg, c.path), n>> \in Links
    BY DEF PathsAreReal
  <2>1. Tracing
    BY DEF FInv
  <2> QED
    BY <2>1 DEF Tracing, Traced
<1> QED
  BY <1>1, <1>2, PTL

------------------------------------------------------------------------
(* Nobody has a message that was not sent.                                   *)
Rooted == \A n \in Node : got[n] \subseteq originated
RInv == FInv /\ Rooted

LEMMA InitRooted == Init => RInv
<1>1. Init => Rooted
  BY DEF Init, Rooted
<1> QED
  BY <1>1, InitHolds DEF RInv

(* Someone in range knows a message that is heard, and may pass it on.        *)
LEMMA HeardIsKnown ==
  ASSUME RInv, NEW n \in Node, NEW c \in heard[n]
  PROVE  /\ c.msg \in Msg /\ c.msg \in originated
         /\ \E k \in Knows[c.msg] : k \in Passes(c.msg) /\ <<k, n>> \in Links
<1>1. c.msg \in Msg
  BY DEF RInv, FInv, TypeOK, Copy
<1>2. PICK k \in Knows[c.msg] : k \in Passes(c.msg) /\ <<k, n>> \in Links
  BY DEF RInv, FInv, Informed
<1>3. c.msg \in originated
  BY <1>1, <1>2 DEF Knows, RInv, Rooted
<1> QED
  BY <1>1, <1>2, <1>3

(* A message that originates is known to nobody yet, and to its origin then.  *)
LEMMA OriginateSpreads ==
  ASSUME RInv, NEW m \in Msg, Originate(m)
  PROVE  Rooted' /\ Flood!Originate(m)
<1>1. /\ m \notin originated /\ originated' = originated \union {m} /\ got' = got
  BY DEF Originate
<1>2. Rooted'
  BY <1>1 DEF RInv, Rooted
<1>3. \A n \in Node : m \notin got[n]
  BY <1>1 DEF RInv, Rooted
<1>4. Knows[m] = {} /\ Knows'[m] = {Origin[m]}
  BY <1>1, <1>3, Topology DEF Knows
<1>5. \A k \in Msg \ {m} : Knows'[k] = Knows[k]
  BY <1>1 DEF Knows
<1>6. Knows' = [Knows EXCEPT ![m] = {Origin[m]}]
  BY <1>4, <1>5 DEF Knows
<1> QED
  BY <1>2, <1>4, <1>6 DEF Flood!Originate

LEMMA NewSpreads ==
  ASSUME RInv, NEW n \in Node, ProcessNew(n)
  PROVE  Rooted' /\ \E m \in Msg : Flood!Spread(m, n)
<1>1. PICK c \in heard[n] :
        got' = [got EXCEPT ![n] = @ \union {c.msg}] /\ originated' = originated
  BY DEF ProcessNew
<1> DEFINE m == c.msg
<1>2. /\ m \in Msg /\ m \in originated
      /\ \E k \in Knows[m] : k \in Passes(m) /\ <<k, n>> \in Links
  BY HeardIsKnown
<1>3. got \in [Node -> SUBSET Msg]
  BY DEF RInv, FInv, TypeOK
<1>4. Rooted'
  BY <1>1, <1>2, <1>3 DEF RInv, Rooted
<1>5. Knows'[m] = Knows[m] \union {n}
  BY <1>1, <1>2, <1>3 DEF Knows
<1>6. \A k \in Msg \ {m} : Knows'[k] = Knows[k]
  BY <1>1, <1>3 DEF Knows
<1>7. Knows' = [Knows EXCEPT ![m] = @ \union {n}]
  BY <1>2, <1>5, <1>6 DEF Knows
<1>8. Flood!Spread(m, n)
  BY <1>2, <1>7 DEF Flood!Spread, Flood!Passes, Passes
<1> QED
  BY <1>2, <1>4, <1>8

LEMMA QuietlyRooted ==
  ASSUME RInv, originated' = originated, got' = got
  PROVE  Rooted' /\ UNCHANGED Knows
BY DEF RInv, Rooted, Knows

LEMMA FloodIsSpread == RInv /\ [Next]_vars => RInv' /\ [Flood!Next]_Knows
<1> SUFFICES ASSUME RInv, [Next]_vars PROVE RInv' /\ [Flood!Next]_Knows
  OBVIOUS
<1>1. FInv'
  BY FloodStep DEF RInv
<1>2. CASE UNCHANGED <<originated, got>>
  BY <1>1, <1>2, QuietlyRooted DEF RInv
<1>3. ASSUME NEW m \in Msg, Originate(m) PROVE RInv' /\ [Flood!Next]_Knows
  BY <1>1, <1>3, OriginateSpreads DEF RInv, Flood!Next
<1>4. ASSUME NEW n \in Node, ProcessNew(n) PROVE RInv' /\ [Flood!Next]_Knows
  BY <1>1, <1>4, NewSpreads DEF RInv, Flood!Next
<1>5. ASSUME NEW n \in Node,
             Transmit(n) \/ ProcessOwnAdvert(n) \/ ProcessDuplicate(n) \/ Reboot(n)
      PROVE  UNCHANGED <<originated, got>>
  BY <1>5 DEF Transmit, ProcessOwnAdvert, ProcessDuplicate, Reboot
<1>6. UNCHANGED vars => UNCHANGED <<originated, got>>
  BY DEF vars
<1> QED
  BY <1>2, <1>3, <1>4, <1>5, <1>6 DEF Next, Process

(* Flooding implements FloodSpread: with whatever tables, limits, losses,     *)
(* cancellations and restarts, a message spreads from its origin over relays *)
(* in range of each other, and is never invented.                           *)
THEOREM ImplementsFloodSpread == Spec => SpreadsAlongLinks
<1>1. Init => Flood!Init
  BY DEF Init, Flood!Init, Knows
<1>2. Spec => [][Flood!Next]_Knows
  BY InitRooted, FloodIsSpread, PTL DEF Spec
<1> QED
  BY <1>1, <1>2, PTL DEF SpreadsAlongLinks, Flood!Spec, Spec

------------------------------------------------------------------------
(* The table remembers what was just marked.                                *)
LEMMA MarkedRemembers ==
  ASSUME TypeOK, NEW n \in Node, NEW m \in Msg
  PROVE  m \in Range(Marked(n, m))
<1> DEFINE t == Append(table[n], m)
<1>1. table[n] \in Seq(Msg) /\ Len(table[n]) \in Nat /\ TableSize \in Nat \ {0}
  BY Limits DEF TypeOK
<1>2. t \in Seq(Msg) /\ Len(t) = Len(table[n]) + 1 /\ t[Len(t)] = m /\ DOMAIN t = 1 .. Len(t)
  BY <1>1
<1>3. CASE Len(t) > TableSize
  <2>1. DOMAIN Tail(t) = 1 .. (Len(t) - 1) /\ Tail(t)[Len(t) - 1] = t[Len(t)]
    BY <1>1, <1>2, <1>3
  <2>2. Len(t) - 1 \in DOMAIN Tail(t)
    BY <1>1, <1>2, <1>3, <2>1
  <2> QED
    BY <1>2, <1>3, <2>1, <2>2 DEF Marked, Range
<1>4. CASE ~(Len(t) > TableSize)
  BY <1>1, <1>2, <1>4 DEF Marked, Range
<1> QED
  BY <1>3, <1>4

(* Where the copies of a step come from: a queued one was queued before, or   *)
(* is a heard one relayed by a node that sees its message for the first time,*)
(* or one that originates; a heard one was heard before or queued in range.  *)
Relayed(k, x) ==
  \E c \in heard[k] :
    /\ Relays(k, c) /\ ~WasSeen(k, c.msg) /\ WasSeen(k, c.msg)'
    /\ Same(x, Recorded(k, c))

Originated(k, x) ==
  /\ x.msg \in Msg \ originated /\ k = Origin[x.msg] /\ WasSeen(k, x.msg)'
  /\ x.path = << >> /\ x.size = HashSize[x.msg]

CopiesHaveSources ==
  /\ \A k \in Node : \A x \in pending'[k] :
       Relayed(k, x) \/ Originated(k, x) \/ \E y \in pending[k] : Same(x, y)
  /\ \A k \in Node : \A x \in heard'[k] :
       \/ x \in heard[k]
       \/ \E s \in Node : <<s, k>> \in Links /\ \E y \in pending[s] : Same(x, y)

LEMMA OriginateSources ==
  ASSUME TypeOK, NEW m \in Msg, Originate(m)
  PROVE  CopiesHaveSources
<1> DEFINE c == [msg |-> m, size |-> HashSize[m], path |-> << >>]
<1>1. c \in Copy /\ Origin[m] \in Node
  BY Limits, Topology DEF Copy, Path
<1>2. Waiting(c).msg = m /\ Waiting(c).size = HashSize[m] /\ Waiting(c).path = << >>
  BY <1>1, WaitingIsEntry
<1>3. /\ pending' = [pending EXCEPT ![Origin[m]] = @ \union {Waiting(c)}]
      /\ heard' = heard /\ m \notin originated
  BY DEF Originate
<1>4. Originated(Origin[m], Waiting(c))
  <2>1. table'[Origin[m]] = Marked(Origin[m], m)
    BY <1>1 DEF Originate, TypeOK
  <2> QED
    BY <1>1, <1>2, <1>3, <2>1, MarkedRemembers DEF Originated, WasSeen
<1>5. ASSUME NEW k \in Node, NEW x \in pending'[k]
      PROVE  Originated(k, x) \/ \E y \in pending[k] : Same(x, y)
  <2>1. x \in pending[k] \/ (k = Origin[m] /\ x = Waiting(c))
    BY <1>1, <1>3 DEF TypeOK
  <2> QED
    BY <1>4, <2>1 DEF Same
<1> QED
  BY <1>3, <1>5 DEF CopiesHaveSources

LEMMA TransmitSources ==
  ASSUME TypeOK, NEW n \in Node, Transmit(n)
  PROVE  CopiesHaveSources
<1>1. PICK e \in pending[n] :
        /\ pending' = [pending EXCEPT ![n] = @ \ {e}]
        /\ heard' = [k \in Node |-> IF <<n, k>> \in Links
                                    THEN heard[k] \union {Aired(e)} ELSE heard[k]]
  BY DEF Transmit
<1>2. Same(Aired(e), e)
  BY AiredIsCopy DEF TypeOK, Same
<1>3. \A k \in Node : \A x \in pending'[k] : \E y \in pending[k] : Same(x, y)
  BY <1>1 DEF TypeOK, Same
<1>4. \A k \in Node : \A x \in heard'[k] :
        x \in heard[k] \/ (<<n, k>> \in Links /\ x = Aired(e))
  BY <1>1
<1> QED
  BY <1>2, <1>3, <1>4 DEF CopiesHaveSources

LEMMA ProcessSources ==
  ASSUME TypeOK, NEW n \in Node, Process(n)
  PROVE  CopiesHaveSources
<1>1. PICK c \in heard[n] :
        /\ heard' = [heard EXCEPT ![n] = @ \ {c}]
        /\ \/ pending' = pending
           \/ pending' = [pending EXCEPT ![n] = Uncancelled(n, c.msg)]
           \/ /\ Relays(n, c) /\ ~WasSeen(n, c.msg) /\ Queues(n, c)
              /\ table' = [table EXCEPT ![n] = Marked(n, c.msg)]
  BY DEF Process, ProcessOwnAdvert, ProcessDuplicate, ProcessNew, Takes
<1>2. c \in Copy /\ c.msg \in Msg
  BY DEF TypeOK, Copy
<1>3. \A x \in Uncancelled(n, c.msg) : \E y \in pending[n] : Same(x, y)
  BY <1>2, UncancelledIsOld DEF Same
<1>4. Same(Waiting(Recorded(n, c)), Recorded(n, c))
  BY <1>2, RecordedIsCopy, WaitingIsEntry DEF Same
<1>5. ASSUME NEW k \in Node, NEW x \in pending'[k]
      PROVE  Relayed(k, x) \/ \E y \in pending[k] : Same(x, y)
  <2>1. \/ x \in pending[k]
        \/ k = n /\ x \in Uncancelled(n, c.msg)
        \/ /\ k = n /\ x = Waiting(Recorded(n, c)) /\ Relays(n, c) /\ ~WasSeen(n, c.msg)
           /\ table'[n] = Marked(n, c.msg)
    BY <1>1 DEF TypeOK, Queues
  <2> QED
    BY <1>2, <1>3, <1>4, <2>1, MarkedRemembers DEF Relayed, Same, WasSeen
<1>6. \A k \in Node : \A x \in heard'[k] : x \in heard[k]
  BY <1>1 DEF TypeOK
<1> QED
  BY <1>5, <1>6 DEF CopiesHaveSources

LEMMA StepSources ==
  ASSUME TypeOK, [Next]_vars
  PROVE  CopiesHaveSources
<1>1. CASE UNCHANGED vars
  BY <1>1 DEF vars, CopiesHaveSources, Same
<1>2. ASSUME NEW n \in Node, Reboot(n) PROVE CopiesHaveSources
  BY <1>2 DEF Reboot, TypeOK, CopiesHaveSources, Same
<1> QED
  BY <1>1, <1>2, OriginateSources, TransmitSources, ProcessSources DEF Next

------------------------------------------------------------------------
(* How often a hash is in a path that grows by one.                          *)
LEMMA TimesInGrown ==
  ASSUME NEW path \in Seq(Node), NEW n \in Node, NEW k \in Node
  PROVE  /\ TimesIn(k, path) \in Nat
         /\ TimesIn(k, Append(path, n)) =
              TimesIn(k, path) + (IF HashOf[n] = HashOf[k] THEN 1 ELSE 0)
<1> DEFINE new == Append(path, n)
           old == { i \in DOMAIN path : HashOf[path[i]] = HashOf[k] }
           S == { i \in DOMAIN new : HashOf[new[i]] = HashOf[k] }
<1>1. Len(path) \in Nat /\ DOMAIN path = 1 .. Len(path)
  OBVIOUS
<1>2. /\ DOMAIN new = 1 .. (Len(path) + 1) /\ new[Len(path) + 1] = n
      /\ \A i \in DOMAIN path : new[i] = path[i]
  BY <1>1
<1>3. IsFiniteSet(old) /\ Cardinality(old) \in Nat
  <2>1. IsFiniteSet(1 .. Len(path)) /\ old \in SUBSET (1 .. Len(path))
    BY <1>1, FS_Interval
  <2> QED
    BY <2>1, FS_Subset, FS_CardinalityType
<1>4. S = IF HashOf[n] = HashOf[k] THEN old \union {Len(path) + 1} ELSE old
  BY <1>1, <1>2
<1>5. Len(path) + 1 \notin old
  BY <1>1
<1>6. Cardinality(old \union {Len(path) + 1}) = Cardinality(old) + 1
  BY <1>3, <1>5, FS_AddElement
<1>7. TimesIn(k, path) = Cardinality(old) /\ TimesIn(k, new) = Cardinality(S)
  BY DEF TimesIn
<1>8. Cardinality(S) = Cardinality(old) + (IF HashOf[n] = HashOf[k] THEN 1 ELSE 0)
  <2> HIDE DEF old, S, new
  <2>1. CASE HashOf[n] = HashOf[k]
    BY <1>4, <1>6, <2>1
  <2>2. CASE HashOf[n] # HashOf[k]
    BY <1>3, <1>4, <2>2
  <2> QED
    BY <2>1, <2>2
<1> QED
  BY <1>3, <1>7, <1>8

LEMMA TimesInNothing == \A k \in Node : TimesIn(k, << >>) = 0
BY FS_EmptySet DEF TimesIn

(* What holds of every copy, whoever has it: loop detection, where all of a   *)
(* hash have it on, has kept it from being in the path more often than it    *)
(* tolerates, and a hop limit that the count can express has kept the path   *)
(* within it.                                                               *)
LoopBound(x) == \A k \in Node : Detects(k) => TimesIn(k, x.path) <= MaxSelf[x.size]

Fits(limit) == limit # 0 /\ limit < HopCountRange

LimitedTo(limit, x) ==
  Fits(limit) => x.size = HashSize[x.msg] /\ Len(x.path) <= limit

HopBound(x) ==
  /\ LimitedTo(HopLimit[x.msg], x)
  /\ x.msg \in Location => LimitedTo(LocationHops, x)

Bounding ==
  \A n \in Node : \A x \in pending[n] \union heard[n] : LoopBound(x) /\ HopBound(x)

LEMMA RelayedLoopBound ==
  ASSUME NEW n \in Node, NEW c \in Copy, Relays(n, c), LoopBound(c)
  PROVE  LoopBound(Recorded(n, c))
<1> DEFINE r == Recorded(n, c)
<1> SUFFICES ASSUME NEW k \in Node, Detects(k)
             PROVE  TimesIn(k, r.path) <= MaxSelf[r.size]
  BY DEF LoopBound
<1>1. c.path \in Seq(Node) /\ c.size \in 1 .. 3 /\ r.size \in 1 .. 3
  BY RecordedIsCopy DEF Copy, Path
<1>2. MaxSelf[c.size] \in Nat \ {0} /\ MaxSelf[r.size] \in Nat \ {0}
  BY <1>1, Limits
<1>3. CASE Len(c.path) + 1 < HopCountRange
  <2>1. r.path = Append(c.path, n) /\ r.size = c.size
    BY <1>3 DEF Recorded, Copy
  <2>2. ASSUME HashOf[n] = HashOf[k] PROVE TimesIn(n, c.path) < MaxSelf[c.size]
    <3>1. n \in LoopDetect
      BY <2>2 DEF Relays, MayForward, Detects
    <3>2. ~Looped(n, c) /\ TimesIn(n, c.path) \in Nat
      BY <1>1, <3>1, TimesInGrown DEF Relays, MayForward
    <3> QED
      BY <1>2, <3>2 DEF Looped
  <2>3. TimesIn(k, c.path) <= MaxSelf[c.size]
    BY DEF LoopBound
  <2>4. HashOf[n] = HashOf[k] => TimesIn(k, c.path) = TimesIn(n, c.path)
    BY DEF TimesIn
  <2> QED
    BY <1>1, <1>2, <2>1, <2>2, <2>3, <2>4, TimesInGrown
<1>4. CASE ~(Len(c.path) + 1 < HopCountRange)
  <2>1. r.path = << >>
    BY <1>4 DEF Recorded
  <2> QED
    BY <1>2, <2>1, TimesInNothing
<1> QED
  BY <1>3, <1>4

LEMMA RelayedLimited ==
  ASSUME NEW n \in Node, NEW c \in Copy, NEW limit \in Nat,
         Len(c.path) < limit, LimitedTo(limit, c)
  PROVE  LimitedTo(limit, Recorded(n, c))
<1>1. c.path \in Seq(Node) /\ Len(c.path) \in Nat /\ HopCountRange \in Nat
  BY Limits DEF Copy, Path
<1>2. SUFFICES ASSUME Fits(limit)
               PROVE  /\ Recorded(n, c).size = HashSize[Recorded(n, c).msg]
                      /\ Len(Recorded(n, c).path) <= limit
  BY DEF LimitedTo
<1>3. Len(c.path) + 1 < HopCountRange
  BY <1>1, <1>2 DEF Fits
<1>4. Recorded(n, c).msg = c.msg /\ Recorded(n, c).size = c.size
        /\ Recorded(n, c).path = Append(c.path, n)
  BY <1>3 DEF Recorded, Copy
<1>5. Len(Append(c.path, n)) = Len(c.path) + 1
  BY <1>1
<1> QED
  BY <1>1, <1>2, <1>4, <1>5 DEF LimitedTo

LEMMA RelayedHopBound ==
  ASSUME NEW n \in Node, NEW c \in Copy, Relays(n, c), HopBound(c)
  PROVE  HopBound(Recorded(n, c))
<1>1. c.msg \in Msg /\ HopLimit[c.msg] \in Nat /\ LocationHops \in Nat
  BY Limits DEF Copy, LocationHops
<1>2. Recorded(n, c).msg = c.msg
  BY RecordedIsCopy
<1>3. LimitedTo(HopLimit[c.msg], Recorded(n, c))
  <2>1. CASE HopLimit[c.msg] = 0
    BY <2>1 DEF LimitedTo, Fits
  <2>2. CASE HopLimit[c.msg] # 0
    BY <1>1, <2>2, RelayedLimited DEF Relays, WithinLimits, HopBound
  <2> QED
    BY <2>1, <2>2
<1>4. c.msg \in Location => LimitedTo(LocationHops, Recorded(n, c))
  BY <1>1, RelayedLimited DEF Relays, WithinLimits, HopBound
<1> QED
  BY <1>2, <1>3, <1>4 DEF HopBound

LEMMA BoundingStep ==
  ASSUME TypeOK, Bounding, CopiesHaveSources
  PROVE  Bounding'
<1>1. \A x, y : Same(x, y) /\ LoopBound(y) /\ HopBound(y) => LoopBound(x) /\ HopBound(x)
  BY DEF Same, LoopBound, HopBound, LimitedTo
<1>2. ASSUME NEW k \in Node, NEW x \in pending'[k] PROVE LoopBound(x) /\ HopBound(x)
  <2>1. CASE Relayed(k, x)
    <3>1. PICK c \in heard[k] : Relays(k, c) /\ Same(x, Recorded(k, c))
      BY <2>1 DEF Relayed
    <3>2. c \in Copy /\ LoopBound(c) /\ HopBound(c)
      BY DEF TypeOK, Bounding
    <3> QED
      BY <1>1, <3>1, <3>2, RelayedLoopBound, RelayedHopBound
  <2>2. CASE Originated(k, x)
    <3>1. x.msg \in Msg /\ HopLimit[x.msg] \in Nat /\ HashSize[x.msg] \in 1 .. 3
      BY <2>2, Limits DEF Originated
    <3>2. MaxSelf[x.size] \in Nat /\ Len(x.path) = 0
      BY <2>2, <3>1, Limits DEF Originated
    <3> QED
      BY <2>2, <3>1, <3>2, TimesInNothing
      DEF Originated, LoopBound, HopBound, LimitedTo, Fits, LocationHops
  <2>3. CASE \E y \in pending[k] : Same(x, y)
    BY <1>1, <2>3 DEF Bounding
  <2> QED
    BY <2>1, <2>2, <2>3 DEF CopiesHaveSources
<1>3. ASSUME NEW k \in Node, NEW x \in heard'[k] PROVE LoopBound(x) /\ HopBound(x)
  BY <1>1 DEF CopiesHaveSources, Bounding
<1> QED
  BY <1>2, <1>3 DEF Bounding

------------------------------------------------------------------------
(* While the tables keep every message and none is lost: they hold messages   *)
(* that were sent, each once; a node remembers what it has queued; and the   *)
(* nodes in a path are different ones, each of which remembers the message.  *)
Kept(x) ==
  IsInjective(x.path) /\ \A i \in DOMAIN x.path : WasSeen(x.path[i], x.msg)

Memory ==
  Remembers =>
    \A n \in Node :
      /\ IsInjective(table[n]) /\ Range(table[n]) \subseteq originated
      /\ \A x \in pending[n] : WasSeen(n, x.msg)
      /\ \A x \in pending[n] \union heard[n] : Kept(x)

(* The table has room for a message it does not hold.                        *)
LEMMA MarkedGrows ==
  ASSUME TypeOK, Remembers, NEW n \in Node, NEW m \in Msg,
         IsInjective(table[n]), ~WasSeen(n, m)
  PROVE  /\ IsInjective(Marked(n, m))
         /\ Range(Marked(n, m)) = Range(table[n]) \union {m}
<1> DEFINE s == table[n]
           t == Append(s, m)
<1>1. s \in Seq(Msg) /\ Len(s) \in Nat /\ DOMAIN s = 1 .. Len(s)
  BY DEF TypeOK
<1>2. /\ DOMAIN t = 1 .. (Len(s) + 1) /\ Len(t) = Len(s) + 1 /\ t[Len(s) + 1] = m
      /\ \A i \in DOMAIN s : t[i] = s[i]
  BY <1>1
<1>3. \A i \in DOMAIN s : s[i] \in Msg \ {m}
  BY <1>1 DEF WasSeen, Range
<1>4. s \in Injection(1 .. Len(s), Msg \ {m})
  BY <1>1, <1>3 DEF Injection, IsInjective
<1>5. /\ IsFiniteSet(Msg \ {m}) /\ Cardinality(Msg) \in Nat
      /\ Cardinality(Msg \ {m}) = Cardinality(Msg) - 1
  BY FS_RemoveElement, FS_CardinalityType DEF Remembers
<1>6. Cardinality(1 .. Len(s)) = Len(s)
  BY <1>1, FS_Interval
<1>7. Len(s) <= Cardinality(Msg) - 1
  BY <1>4, <1>5, <1>6, FS_Injection
<1>8. Marked(n, m) = t
  BY <1>1, <1>2, <1>5, <1>7, Limits DEF Marked, Remembers
<1>9. IsInjective(t)
  BY <1>1, <1>2, <1>3 DEF IsInjective
<1>10. Range(t) = Range(s) \union {m}
  BY <1>1, <1>2 DEF Range
<1> QED
  BY <1>8, <1>9, <1>10

LEMMA SentStaysSent ==
  ASSUME TypeOK, [Next]_vars
  PROVE  originated \subseteq originated' /\ reboots <= reboots'
<1> USE DEF TypeOK
<1>1. CASE UNCHANGED vars
  BY <1>1 DEF vars
<1>2. ASSUME NEW m \in Msg, Originate(m)
      PROVE  originated \subseteq originated' /\ reboots' = reboots
  BY <1>2 DEF Originate
<1>3. ASSUME NEW n \in Node, Transmit(n) \/ Process(n)
      PROVE  originated' = originated /\ reboots' = reboots
  BY <1>3 DEF Transmit, Process, ProcessOwnAdvert, ProcessDuplicate, ProcessNew
<1>4. ASSUME NEW n \in Node, Reboot(n)
      PROVE  originated' = originated /\ reboots' = reboots + 1
  BY <1>4 DEF Reboot
<1> QED
  BY <1>1, <1>2, <1>3, <1>4 DEF Next

(* A step that is not a restart marks at most one message as seen: one that   *)
(* is sent by now, at a node that has not seen it.                           *)
Marks(n, m) ==
  /\ ~WasSeen(n, m) /\ m \in originated'
  /\ table' = [table EXCEPT ![n] = Marked(n, m)]

LEMMA StepMarks ==
  ASSUME RInv, Memory, Remembers, [Next]_vars
  PROVE  \/ table' = table
         \/ \E n \in Node, m \in Msg : Marks(n, m)
         \/ reboots' # 0
<1>1. CASE UNCHANGED vars
  BY <1>1 DEF vars
<1>2. ASSUME NEW m \in Msg, Originate(m) PROVE Marks(Origin[m], m) /\ Origin[m] \in Node
  BY <1>2, Topology DEF Originate, Marks, Memory, WasSeen
<1>3. ASSUME NEW n \in Node, ProcessNew(n) PROVE \E m \in Msg : Marks(n, m)
  <2>1. PICK c \in heard[n] :
          /\ ~WasSeen(n, c.msg) /\ originated' = originated
          /\ table' = [table EXCEPT ![n] = Marked(n, c.msg)]
    BY <1>3 DEF ProcessNew
  <2> QED
    BY <2>1, HeardIsKnown DEF Marks
<1>4. ASSUME NEW n \in Node, Transmit(n) \/ ProcessOwnAdvert(n) \/ ProcessDuplicate(n)
      PROVE  table' = table
  BY <1>4 DEF Transmit, ProcessOwnAdvert, ProcessDuplicate
<1>5. ASSUME NEW n \in Node, Reboot(n) PROVE reboots' # 0
  BY <1>5 DEF Reboot, Remembers
<1> QED
  BY <1>1, <1>2, <1>3, <1>4, <1>5 DEF Next, Process

LEMMA TablesKeep ==
  ASSUME RInv, Memory, Remembers, Remembers', [Next]_vars
  PROVE  \A n \in Node :
           /\ Range(table[n]) \subseteq Range(table'[n])
           /\ IsInjective(table'[n]) /\ Range(table'[n]) \subseteq originated'
<1>1. TypeOK /\ TypeOK'
  BY FloodStep DEF RInv, FInv
<1>2. originated \subseteq originated'
  BY <1>1, SentStaysSent
<1>3. \A n \in Node : IsInjective(table[n]) /\ Range(table[n]) \subseteq originated
  BY DEF Memory
<1>4. CASE table' = table
  BY <1>2, <1>3, <1>4
<1>5. ASSUME NEW n \in Node, NEW m \in Msg, Marks(n, m)
      PROVE  \A k \in Node :
               /\ Range(table[k]) \subseteq Range(table'[k])
               /\ IsInjective(table'[k]) /\ Range(table'[k]) \subseteq originated'
  <2>1. /\ IsInjective(Marked(n, m))
        /\ Range(Marked(n, m)) = Range(table[n]) \union {m}
    BY <1>1, <1>3, <1>5, MarkedGrows DEF Marks
  <2>2. \A k \in Node : table'[k] = IF k = n THEN Marked(n, m) ELSE table[k]
    BY <1>1, <1>5 DEF Marks, TypeOK
  <2> QED
    BY <1>2, <1>3, <1>5, <2>1, <2>2 DEF Marks
<1> QED
  BY <1>4, <1>5, StepMarks DEF Remembers

LEMMA RelayedIsKept ==
  ASSUME NEW n \in Node, NEW c \in Copy, Kept(c), ~WasSeen(n, c.msg)
  PROVE  /\ IsInjective(Recorded(n, c).path)
         /\ \A i \in DOMAIN Recorded(n, c).path :
              LET k == Recorded(n, c).path[i] IN k = n \/ WasSeen(k, c.msg)
<1>1. c.path \in Seq(Node) /\ Len(c.path) \in Nat /\ DOMAIN c.path = 1 .. Len(c.path)
  BY DEF Copy, Path
<1>2. CASE Recorded(n, c).path = Append(c.path, n)
  <2> DEFINE new == Append(c.path, n)
  <2>1. /\ DOMAIN new = 1 .. (Len(c.path) + 1) /\ new[Len(c.path) + 1] = n
        /\ \A i \in DOMAIN c.path : new[i] = c.path[i]
    BY <1>1
  <2>2. \A i \in DOMAIN c.path : WasSeen(c.path[i], c.msg) /\ c.path[i] # n
    BY DEF Kept
  <2>3. IsInjective(new)
    BY <1>1, <2>1, <2>2 DEF IsInjective, Kept
  <2> QED
    BY <1>1, <1>2, <2>1, <2>2, <2>3
<1>3. CASE Recorded(n, c).path = << >>
  BY <1>3 DEF IsInjective
<1> QED
  BY <1>2, <1>3 DEF Recorded, Copy

LEMMA MemoryStep == RInv /\ Memory /\ [Next]_vars => Memory'
<1> SUFFICES ASSUME RInv, Memory, [Next]_vars, Remembers' PROVE
      \A n \in Node :
        /\ IsInjective(table'[n]) /\ Range(table'[n]) \subseteq originated'
        /\ \A x \in pending'[n] : WasSeen(n, x.msg)'
        /\ \A x \in pending'[n] \union heard'[n] : Kept(x)'
  BY DEF Memory
<1>1. TypeOK /\ CopiesHaveSources
  BY StepSources DEF RInv, FInv
<1>2. Remembers
  BY <1>1, SentStaysSent DEF Remembers, TypeOK
<1>3. \A n \in Node :
        /\ Range(table[n]) \subseteq Range(table'[n])
        /\ IsInjective(table'[n]) /\ Range(table'[n]) \subseteq originated'
  BY <1>2, TablesKeep
<1>4. ASSUME NEW x, NEW y, Same(x, y), y.path \in Seq(Node), Kept(y) PROVE Kept(x)'
  <2>1. \A i \in DOMAIN y.path : y.path[i] \in Node
    BY <1>4
  <2> QED
    BY <1>3, <1>4, <2>1 DEF Kept, Same, WasSeen
<1>5. ASSUME NEW n \in Node, NEW x \in pending'[n]
      PROVE  WasSeen(n, x.msg)' /\ Kept(x)'
  <2>1. CASE Relayed(n, x)
    <3>1. PICK c \in heard[n] :
            ~WasSeen(n, c.msg) /\ WasSeen(n, c.msg)' /\ Same(x, Recorded(n, c))
      BY <2>1 DEF Relayed
    <3>2. c \in Copy /\ Kept(c)
      BY <1>1, <1>2 DEF TypeOK, Memory
    <3>3. /\ x.msg = c.msg /\ IsInjective(x.path)
          /\ \A i \in DOMAIN x.path : x.path[i] = n \/ WasSeen(x.path[i], c.msg)
      BY <3>1, <3>2, RecordedIsCopy, RelayedIsKept DEF Same
    <3>4. \A i \in DOMAIN x.path : x.path[i] \in Node
      BY <3>1, <3>2, RecordedIsCopy DEF Same, Copy, Path
    <3> QED
      BY <1>3, <3>1, <3>3, <3>4 DEF Kept, WasSeen
  <2>2. CASE Originated(n, x)
    BY <2>2 DEF Originated, Kept, IsInjective
  <2>3. CASE \E y \in pending[n] : Same(x, y)
    <3>1. PICK y \in pending[n] : Same(x, y)
      BY <2>3
    <3>2. y.path \in Seq(Node) /\ Kept(y) /\ WasSeen(n, y.msg)
      BY <1>1, <1>2 DEF TypeOK, Entry, Path, Memory
    <3> QED
      BY <1>3, <1>4, <3>1, <3>2 DEF Same, WasSeen
  <2> QED
    BY <1>1, <2>1, <2>2, <2>3 DEF CopiesHaveSources
<1>6. ASSUME NEW n \in Node, NEW x \in heard'[n] PROVE Kept(x)'
  <2>1. CASE x \in heard[n]
    <3>1. x.path \in Seq(Node) /\ Kept(x) /\ Same(x, x)
      BY <1>1, <1>2, <2>1 DEF TypeOK, Copy, Path, Memory, Same
    <3> QED
      BY <1>4, <3>1
  <2>2. CASE \E s \in Node : \E y \in pending[s] : Same(x, y)
    <3>1. PICK s \in Node : \E y \in pending[s] : Same(x, y)
      BY <2>2
    <3>2. PICK y \in pending[s] : Same(x, y)
      BY <3>1
    <3>3. y.path \in Seq(Node) /\ Kept(y)
      BY <1>1, <1>2 DEF TypeOK, Entry, Path, Memory
    <3> QED
      BY <1>4, <3>2, <3>3
  <2> QED
    BY <1>1, <2>1, <2>2 DEF CopiesHaveSources
<1> QED
  BY <1>3, <1>5, <1>6

------------------------------------------------------------------------
(* Whoever has a message that a limit applies to is within that limit.       *)
Reached ==
  \A n \in Node : \A m \in got[n] :
    /\ Fits(HopLimit[m]) => n \in Within(m, HopLimit[m])
    /\ m \in Location /\ Fits(LocationHops) => n \in Within(m, LocationHops)

PInv == RInv /\ Bounding /\ Memory /\ Reached

(* The path of a copy that is heard shows that the node is in reach.         *)
LEMMA HeardIsWithin ==
  ASSUME FInv, NEW n \in Node, NEW c \in heard[n], NEW limit \in Nat,
         Fits(limit), LimitedTo(limit, c)
  PROVE  n \in Within(c.msg, limit)
<1>1. c \in Copy /\ c.path \in Seq(Node) /\ Len(c.path) \in Nat
        /\ DOMAIN c.path = 1 .. Len(c.path)
  BY DEF FInv, TypeOK, Copy, Path
<1>2. c.size = HashSize[c.msg] /\ Len(c.path) <= limit
  BY DEF LimitedTo
<1>3. IsWay(c.msg, c.path) /\ <<Sender(c.msg, c.path), n>> \in Links
  BY <1>2 DEF FInv, Tracing, Traced
<1>4. c.path \in [1 .. Len(c.path) -> Carriers[c.msg]]
  <2>1. c.path = [i \in 1 .. Len(c.path) |-> c.path[i]]
    BY <1>1
  <2>2. \A i \in 1 .. Len(c.path) : c.path[i] \in Carriers[c.msg]
    BY <1>1, <1>3 DEF IsWay, Range
  <2> QED
    BY <2>1, <2>2
<1>5. Len(c.path) \in 0 .. limit
  BY <1>1, <1>2
<1> QED
  BY <1>3, <1>4, <1>5 DEF Within

LEMMA ReachedStep == FInv /\ Bounding /\ Reached /\ [Next]_vars => Reached'
<1> SUFFICES ASSUME FInv, Bounding, Reached, [Next]_vars PROVE Reached'
  OBVIOUS
<1>1. ASSUME NEW n \in Node, ProcessNew(n) PROVE Reached'
  <2>1. PICK c \in heard[n] : got' = [got EXCEPT ![n] = @ \union {c.msg}]
    BY <1>1 DEF ProcessNew
  <2>2. c.msg \in Msg /\ HopLimit[c.msg] \in Nat /\ LocationHops \in Nat /\ HopBound(c)
    BY Limits DEF FInv, TypeOK, Copy, LocationHops, Bounding
  <2>3. /\ Fits(HopLimit[c.msg]) => n \in Within(c.msg, HopLimit[c.msg])
        /\ c.msg \in Location /\ Fits(LocationHops) => n \in Within(c.msg, LocationHops)
    BY <2>2, HeardIsWithin DEF HopBound
  <2>4. \A k \in Node : \A m \in got'[k] : m \in got[k] \/ (k = n /\ m = c.msg)
    BY <2>1 DEF FInv, TypeOK
  <2> QED
    BY <2>3, <2>4 DEF Reached
<1>2. CASE got' = got
  BY <1>2 DEF Reached
<1>3. ASSUME NEW n \in Node,
             Transmit(n) \/ ProcessOwnAdvert(n) \/ ProcessDuplicate(n) \/ Reboot(n)
      PROVE  got' = got
  BY <1>3 DEF Transmit, ProcessOwnAdvert, ProcessDuplicate, Reboot
<1>4. UNCHANGED vars \/ (\E m \in Msg : Originate(m)) => got' = got
  BY DEF vars, Originate
<1> QED
  BY <1>1, <1>2, <1>3, <1>4 DEF Next, Process

LEMMA InitPaths == Init => PInv
<1> SUFFICES ASSUME Init PROVE PInv
  OBVIOUS
<1>1. \A n \in Node : pending[n] = {} /\ heard[n] = {} /\ table[n] = << >> /\ got[n] = {}
  BY DEF Init
<1>2. Bounding /\ Reached
  BY <1>1 DEF Bounding, Reached
<1>3. Memory
  BY <1>1 DEF Memory, IsInjective, Range
<1> QED
  BY <1>2, <1>3, InitRooted DEF PInv

LEMMA PathStep == PInv /\ [Next]_vars => PInv'
<1> SUFFICES ASSUME PInv, [Next]_vars PROVE PInv'
  OBVIOUS
<1>1. RInv'
  BY FloodIsSpread DEF PInv
<1>2. Bounding'
  BY StepSources, BoundingStep DEF PInv, RInv, FInv
<1>3. Memory' /\ Reached'
  BY MemoryStep, ReachedStep DEF PInv, RInv
<1> QED
  BY <1>1, <1>2, <1>3 DEF PInv

(* For every mesh, while the tables keep every message and no node restarts,  *)
(* no relay is twice in a path; and a hash whose repeaters all have loop      *)
(* detection on is not in it more often than they tolerate, whatever the     *)
(* other repeaters do, also when tables overflow, nodes restart, relays      *)
(* share a hash or the hop count runs over.                                  *)
THEOREM PathsStayLoopFree == Spec => []PathsAreLoopFree
<1>1. Spec => []PInv
  BY InitPaths, PathStep, PTL DEF Spec
<1>2. PInv => PathsAreLoopFree
  BY DEF PInv, Memory, Kept, Bounding, LoopBound, PathsAreLoopFree
<1> QED
  BY <1>1, <1>2, PTL

(* The limits in force are numbers that the hop count of a packet can take.   *)
HopLimitsFit ==
  LocationHops < HopCountRange /\ \A m \in Msg : HopLimit[m] < HopCountRange

(* For every mesh a hop limit below the range of the hop count keeps a flood  *)
(* from the nodes further away, whichever copies come first, however tables  *)
(* overflow and nodes restart.  A limit of the whole range does not          *)
(* (MCHopLimitDoc.cfg): the count runs over before it is reached.            *)
THEOREM HopLimitsHold ==
  ASSUME HopLimitsFit
  PROVE  Spec => []FloodStaysWithinHops
<1>1. Spec => []PInv
  BY InitPaths, PathStep, PTL DEF Spec
<1>2. PInv => FloodStaysWithinHops
  BY DEF PInv, RInv, FInv, TypeOK, Reached, Fits, HopLimitsFit, LocationHops, FloodStaysWithinHops
<1> QED
  BY <1>1, <1>2, PTL
========================================================================
