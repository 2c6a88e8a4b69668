--------------------------- MODULE MeshFlood ---------------------------
(***************************************************************************)
(* Flooding through mesh::Mesh: each node remembers the packets it has seen *)
(* in a ring of hashes, hands a new one to the layer above, and queues it   *)
(* for retransmission with its own hash appended to the path.  Copies heard *)
(* while a retransmission waits may cancel it (duplicate suppression).      *)
(*                                                                         *)
(* The Dispatcher below appears by what it does to a flood: the packets a   *)
(* node has heard are processed in any order (the score delay) and the      *)
(* queued ones sent in any order (random delays, priorities, CAD).  Nothing *)
(* makes a node process what it heard unless Fairness is asked for, so that *)
(* a packet lost to a collision or a full pool is one that stays in heard.  *)
(* A copy of a packet is its message and the path recorded so far; the path *)
(* holds the nodes whose hashes the code records.                           *)
(*                                                                         *)
(* Left out: filterRecvFloodPacket and the block lists of allowPacketForward*)
(* (operator's policy), transport codes and regions, direct routing.        *)
(***************************************************************************)
EXTENDS Integers, Sequences, FiniteSets, Functions

CONSTANTS
  Node, Msg,
  Links,                        \* <<a, b>> : b hears what a transmits
  Origin,                       \* the node each message comes from
  Target,                       \* the nodes each message is addressed to: one, or none
  Advert,                       \* the messages that are adverts
  Location,                     \* the messages that are location reports
  Exempt,                       \* ACK, PATH and such, never suppressed
  Repeater,                     \* the nodes whose allowPacketForward may say yes
  MayDecline,                   \* TRUE: a repeater may decline (relay probability)
  HashOf,                       \* a node's hash as the path records it
  MaxSelf,                      \* loop detection: own hash found so often, no relay,
                                \*   for each size of hash
  LoopDetect,                   \* the nodes whose loop detection is on
  HopLimit,                     \* getEffectiveFloodMaxForRelay: 0 for no limit
  HashSize,                     \* the bytes of a hash in the path, for each message
  MaxPathSize,                  \* MAX_PATH_SIZE: the bytes a path may take
  HopCountRange,                \* 64: the values the field for the hop count takes
  TableSize,                    \* MAX_PACKET_HASHES
  DupSuppress,                  \* isDuplicateSuppressionEnabled()
  Threshold,                    \* MESH_DUP_SUPPRESS_THRESHOLD
  MaxReboots                    \* bound on the restarts of a behaviour

ASSUME Topology ==
  /\ Links \subseteq Node \X Node /\ Repeater \subseteq Node /\ LoopDetect \subseteq Node
  /\ Origin \in [Msg -> Node] /\ Target \in [Msg -> SUBSET Node]
  /\ Advert \subseteq Msg /\ Location \subseteq Msg /\ Exempt \subseteq Msg
ASSUME Limits ==
  /\ HopLimit \in [Msg -> Nat] /\ HashSize \in [Msg -> 1 .. 3]
  /\ HopCountRange \in Nat \ {0} /\ MaxPathSize \in 0 .. HopCountRange
  /\ MaxSelf \in [1 .. 3 -> Nat \ {0}]
  /\ TableSize \in Nat \ {0} /\ Threshold \in Nat \ {0} /\ MaxReboots \in Nat
ASSUME Switches == {DupSuppress, MayDecline} \subseteq BOOLEAN

VARIABLES
  originated,                   \* the messages sent so far
  table,                        \* the hashes each node remembers, oldest first
  pending,                      \* each node's queued transmissions
  heard,                        \* the copies each node has heard and not processed
  got,                          \* what each node handed to the layer above, ever
  reboots                       \* how often a node restarted

vars == <<originated, table, pending, heard, got, reboots>>

Path == Seq(Node)
Copy == [msg : Msg, size : 1 .. 3, path : Path]
Entry == [msg : Msg, size : 1 .. 3, path : Path, dups : 0 .. Threshold]

Waiting(copy) == [msg |-> copy.msg, size |-> copy.size, path |-> copy.path, dups |-> 0]
Aired(entry) == [msg |-> entry.msg, size |-> entry.size, path |-> entry.path]

LocationHops == 2               \* max_location_repeater_hops

Init ==
  /\ originated = {}
  /\ table = [n \in Node |-> << >>]
  /\ pending = [n \in Node |-> {}] /\ heard = [n \in Node |-> {}]
  /\ got = [n \in Node |-> {}]
  /\ reboots = 0

------------------------------------------------------------------------
(* The ring of hashes: markSeen overwrites the oldest entry.                *)
WasSeen(n, m) == m \in Range(table[n])

(* Mutants of Marked: the new entry replaces the last one, or none.          *)
MarkedForever(n, m) == Append(table[n], m)
MarkedLast(n, m) == <<m>>

Marked(n, m) ==
  LET t == Append(table[n], m) IN IF Len(t) > TableSize THEN Tail(t) ELSE t

------------------------------------------------------------------------
(* sendFlood: the message is marked as seen before it is queued.            *)
Originate(m) ==
  LET n == Origin[m] IN
  /\ m \notin originated
  /\ originated' = originated \union {m}
  /\ table' = [table EXCEPT ![n] = Marked(n, m)]
  /\ pending' = [pending EXCEPT ![n] = @ \union
       {Waiting([msg |-> m, size |-> HashSize[m], path |-> << >>])}]
  /\ UNCHANGED <<heard, got, reboots>>

(* The radio sends a queued packet, and whoever is in range hears it.        *)
Transmit(n) ==
  \E e \in pending[n] :
    /\ pending' = [pending EXCEPT ![n] = @ \ {e}]
    /\ heard' = [k \in Node |-> IF <<n, k>> \in Links
                                THEN heard[k] \union {Aired(e)}
                                ELSE heard[k]]
    /\ UNCHANGED <<originated, table, got, reboots>>

------------------------------------------------------------------------
(* allowPacketForward of the repeater, as far as it is not policy.          *)
TimesIn(n, path) == Cardinality({ i \in DOMAIN path : HashOf[path[i]] = HashOf[n] })

(* Mutant of Looped: one time too many.                                      *)
LoopedOnceMore(n, c) == TimesIn(n, c.path) > MaxSelf[c.size]

Looped(n, c) == TimesIn(n, c.path) >= MaxSelf[c.size]

MayForward(n, c) == n \in Repeater /\ (n \in LoopDetect => ~Looped(n, c))

(* Mutant of WithinLimits: the limit is taken for the path after relaying   *)
(* and the path's capacity forgotten.                                       *)
BeyondLimits(c) == HopLimit[c.msg] # 0 => Len(c.path) <= HopLimit[c.msg]

WithinLimits(c) ==
  /\ c.msg \in Location => Len(c.path) < LocationHops
  /\ HopLimit[c.msg] # 0 => Len(c.path) < HopLimit[c.msg]
  /\ (Len(c.path) + 1) * c.size <= MaxPathSize

(* Mutant of Relays: whether the packet was for this node is not looked at. *)
RelaysOwn(n, c) == WithinLimits(c) /\ MayForward(n, c)

(* routeRecvPacket; a packet addressed to this node was marked.              *)
Relays(n, c) == n \notin Target[c.msg] /\ WithinLimits(c) /\ MayForward(n, c)

------------------------------------------------------------------------
Suppressible(e) == e.path # << >> /\ e.msg \notin Exempt

(* Mutant of Counted: locally originated packets are counted too.           *)
CountedAll(n, m) ==
  { IF e.msg = m THEN [e EXCEPT !.dups = @ + 1] ELSE e : e \in pending[n] }

(* Mutant of Counted: packets are not compared.                              *)
CountedAnything(n, m) ==
  { IF Suppressible(e) THEN [e EXCEPT !.dups = @ + 1] ELSE e : e \in pending[n] }

(* recordDuplicateForSuppression: another copy of m has been heard ...       *)
Counted(n, m) ==
  { IF e.msg = m /\ Suppressible(e) THEN [e EXCEPT !.dups = @ + 1] ELSE e :
      e \in pending[n] }

(* ... and what has been heard often enough is not sent.                    *)
Uncancelled(n, m) ==
  IF DupSuppress THEN { e \in Counted(n, m) : e.dups < Threshold } ELSE pending[n]

------------------------------------------------------------------------
(* onRecvPacket for a flood: one action for each way through it.             *)
IgnoresOwnAdvert(n, c) == c.msg \in Advert /\ Origin[c.msg] = n

Takes(n, c) == c \in heard[n] /\ heard' = [heard EXCEPT ![n] = @ \ {c}]

ProcessOwnAdvert(n) ==
  /\ \E c \in heard[n] : Takes(n, c) /\ IgnoresOwnAdvert(n, c)
  /\ UNCHANGED <<originated, table, pending, got, reboots>>

ProcessDuplicate(n) ==
  \E c \in heard[n] :
    /\ Takes(n, c) /\ ~IgnoresOwnAdvert(n, c)
    /\ WasSeen(n, c.msg)
    /\ pending' = [pending EXCEPT ![n] = Uncancelled(n, c.msg)]
    /\ UNCHANGED <<originated, table, got, reboots>>

(* Mutant of Recorded: the node does not record itself.                      *)
NotRecorded(n, c) == c

(* The node appends its hash and counts it (setPathHashCount).  A count that *)
(* its field does not hold runs over into the field for the hash size: the   *)
(* packet then claims an empty path of longer hashes.                       *)
Recorded(n, c) ==
  IF Len(c.path) + 1 < HopCountRange
  THEN [c EXCEPT !.path = Append(c.path, n)]
  ELSE [msg |-> c.msg, size |-> 2, path |-> << >>]

Queues(n, c) ==
  pending' = [pending EXCEPT ![n] = @ \union {Waiting(Recorded(n, c))}]

ProcessNew(n) ==
  \E c \in heard[n] :
    /\ Takes(n, c) /\ ~IgnoresOwnAdvert(n, c)
    /\ ~WasSeen(n, c.msg)
    /\ table' = [table EXCEPT ![n] = Marked(n, c.msg)]
    /\ got' = [got EXCEPT ![n] = @ \union {c.msg}]
    /\ \/ Relays(n, c) /\ Queues(n, c)
       \/ (Relays(n, c) => MayDecline) /\ pending' = pending
    /\ UNCHANGED <<originated, reboots>>

Process(n) == ProcessOwnAdvert(n) \/ ProcessDuplicate(n) \/ ProcessNew(n)

(* A restart loses the table and both queues.                               *)
Reboot(n) ==
  /\ reboots < MaxReboots
  /\ reboots' = reboots + 1
  /\ table' = [table EXCEPT ![n] = << >>]
  /\ pending' = [pending EXCEPT ![n] = {}] /\ heard' = [heard EXCEPT ![n] = {}]
  /\ UNCHANGED <<originated, got>>

Next ==
  \/ \E m \in Msg : Originate(m)
  \/ \E n \in Node : Transmit(n) \/ Process(n) \/ Reboot(n)

Spec == Init /\ [][Next]_vars

(* The Dispatcher sends what is queued and processes what was heard          *)
(* (QueueAdvances of DispatcherHistory, DelayedIsProcessed of Dispatcher),    *)
(* and here nothing is lost on the air.                                     *)
Loop(n) == Transmit(n) \/ Process(n)
Fairness == \A n \in Node : WF_vars(Loop(n))
FairSpec == Spec /\ Fairness

------------------------------------------------------------------------
(* The queues and the table hold what the code's types allow; the ring       *)
(* never exceeds its size, nor a duplicate count the threshold.             *)
TypeOK ==
  /\ originated \subseteq Msg
  /\ table \in [Node -> Seq(Msg)] /\ \A n \in Node : Len(table[n]) <= TableSize
  /\ pending \in [Node -> SUBSET Entry] /\ heard \in [Node -> SUBSET Copy]
  /\ got \in [Node -> SUBSET Msg]
  /\ reboots \in 0 .. MaxReboots

Carriers == [m \in Msg |-> Repeater \ Target[m]]

(* The last node to have sent a copy with this path.                        *)
Sender(m, path) == IF path = << >> THEN Origin[m] ELSE path[Len(path)]

(* The path is a way through the mesh from the origin, over relays.          *)
IsWay(m, path) ==
  /\ Range(path) \subseteq Carriers[m]
  /\ \A i \in DOMAIN path :
       <<IF i = 1 THEN Origin[m] ELSE path[i - 1], path[i]>> \in Links

(* The path of a packet is the way it really took, from the first relay on,  *)
(* unless its hop count ran over: the layers above answer along that path.   *)
PathsAreReal ==
  \A n \in Node :
    /\ \A e \in pending[n] : e.size = HashSize[e.msg] =>
         IsWay(e.msg, e.path) /\ Sender(e.msg, e.path) = n
    /\ \A c \in heard[n] : c.size = HashSize[c.msg] =>
         IsWay(c.msg, c.path) /\ <<Sender(c.msg, c.path), n>> \in Links

Remembers == IsFiniteSet(Msg) /\ TableSize >= Cardinality(Msg) /\ reboots = 0

(* All who could append k's hash to a path look for it first.                *)
Detects(k) == { j \in Repeater : HashOf[j] = HashOf[k] } \subseteq LoopDetect

(* No relay is twice in a path, thanks to the seen table as long as it keeps *)
(* every message and is not lost; else loop detection keeps a relay that has *)
(* it on from being in it more often than it tolerates, whatever the others  *)
(* do.                                                                      *)
PathsAreLoopFree ==
  \A n \in Node : \A e \in pending[n] :
    /\ Remembers => IsInjective(e.path)
    /\ \A k \in Node : Detects(k) => TimesIn(k, e.path) <= MaxSelf[e.size]

(* The nodes that hear a message over at most k relays in range of each other. *)
Within(m, k) ==
  { n \in Node : \E j \in 0 .. k : \E path \in [1 .. j -> Carriers[m]] :
      IsWay(m, path) /\ <<Sender(m, path), n>> \in Links }

(* docs/faq.md:217 and 295, docs/cli_commands.md:1059-1068: the hop limit     *)
(* keeps a flood from the nodes further away, whichever copy comes first,    *)
(* tables overflow and nodes restart (lines 482-494).                       *)
FloodStaysWithinHops ==
  \A n \in Node : \A m \in got[n] :
    /\ HopLimit[m] # 0 => n \in Within(m, HopLimit[m])
    /\ m \in Location => n \in Within(m, LocationHops)

(* Flooding is a FloodSpread.                                               *)
Knows ==
  [m \in Msg |-> { n \in Node : m \in got[n] \/ (m \in originated /\ n = Origin[m]) }]
Flood == INSTANCE FloodSpread WITH knows <- Knows
SpreadsAlongLinks == Flood!Spec

------------------------------------------------------------------------
(* Every flood dies out: in the end nothing is queued and nothing waits,     *)
(* even when the tables are too small for the traffic and no node that may   *)
(* relay it has loop detection on: the size of its path alone ends it then.  *)
Quiet == \A n \in Node : pending[n] = {} /\ heard[n] = {}
FloodsEnd == <>[]Quiet

(* Whoever has a way to the origin over relays.                              *)
Audience == [m \in Msg |-> Within(m, Cardinality(Repeater))]

Unlimited(m) ==
  /\ m \notin Location /\ HopLimit[m] = 0
  /\ Cardinality(Repeater) * HashSize[m] <= MaxPathSize
  /\ DupSuppress => m \in Exempt

(* README.md:189: the flood keeps its reach: each node that has a way to the *)
(* origin over relays gets the message, if no limit on hops applies to it,   *)
(* the path may hold every relay, and it is not of a kind whose relays are   *)
(* cancelled.                                                               *)
FloodReachesAll ==
  \A m \in { k \in Msg : Unlimited(k) } : m \in originated ~>
    \A n \in Audience[m] \ {Origin[m]} : m \in got[n]
========================================================================
