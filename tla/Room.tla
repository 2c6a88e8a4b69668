------------------------------ MODULE Room ------------------------------
(***************************************************************************)
(* A room: its server and the devices that use it.  A device keeps the time  *)
(* of the latest post it received (ContactInfo::sync_since), sends it along  *)
(* when it logs in or keeps its connection alive, and acknowledges posts.    *)
(***************************************************************************)
EXTENDS RoomServer

CONSTANTS
  MaxTime,                      \* bound on the messages of each device
  Sharing,                      \* the texts whose timestamps are any, also ones
                                \* that other messages have; the others' are new
  MaxRestarts,                  \* bound on the restarts, the server's included
  ServerRestarts,               \* TRUE: the server may restart
  KeepsAlive,                   \* the devices that send keep-alives
  Asks,                         \* the devices that send other requests
  Retried,                      \* the texts that may be sent a second time
  Commands                      \* <<target, permission>> that admins set

ASSUME RoomBounds ==
  /\ MaxTime \in [Device -> Nat] /\ MaxRestarts \in Nat
  /\ Commands \subseteq Device \X (0 .. 3)

VARIABLES
  mark,                         \* sync_since, as each device has it
  time,                         \* what getCurrentTimeUnique of each last gave out
  sent,                         \* the timestamp of each text, 0 if not sent
  seen,                         \* the posts each device has received, ever
  confirmed,                    \* the texts acknowledged to their author
  resent,                       \* the texts sent a second time
  restarts,
  log,                          \* history: the posts added to the ring
  gone,                         \* history: how many of them restarts have lost
  dropped,                      \* history: the devices ever forgotten by the server
  shared,                       \* history: the texts whose timestamp another message
                                \* of their author has too
  ahead                         \* history: the devices that a restart of the server
                                \* left with a timestamp its clock is behind

devices == <<mark, time, sent, seen, confirmed, resent, restarts>>
vars == <<server, air, devices, log, gone, dropped, shared, ahead>>

Init ==
  /\ ServerInit /\ air = {}
  /\ mark = [d \in Device |-> 0] /\ time = [d \in Device |-> 0]
  /\ sent = [p \in Post |-> 0] /\ seen = [d \in Device |-> {}]
  /\ confirmed = {} /\ resent = {} /\ restarts = 0
  /\ log = << >> /\ gone = 0 /\ dropped = {} /\ shared = {} /\ ahead = {}

------------------------------------------------------------------------
(* The timestamps that d's messages have.                                    *)
TextsAt(d, t) == { p \in Post : Author[p] = d /\ sent[p] = t }
Used(d, t) == t <= time[d] \/ TextsAt(d, t) # {}

(* A device sends m, which is the text in S if there is one, at its time now. *)
Sends(d, m, S, now) ==
  /\ m.time <= MaxTime[d] /\ Cardinality(air) < MaxAir
  /\ time' = [time EXCEPT ![d] = now]
  /\ air' = air \union {m}
  /\ shared' = shared \union TextsAt(d, m.time) \union {p \in S : Used(d, m.time)}
  /\ UNCHANGED <<server, mark, seen, confirmed, resent, restarts, log, gone, dropped, ahead>>

(* Logins and requests have the timestamps of getCurrentTimeUnique.          *)
SendsUnique(d, m) == Sends(d, m, {}, time[d] + 1) /\ UNCHANGED sent

SendLogin(d) ==
  SendsUnique(d, [kind |-> "login", from |-> d, time |-> time[d] + 1, since |-> mark[d]])

SendKeepAlive(d) ==
  /\ d \in KeepsAlive
  /\ SendsUnique(d, [kind |-> "keepalive", from |-> d, time |-> time[d] + 1, since |-> mark[d]])

SendRequest(d) ==
  /\ d \in Asks
  /\ SendsUnique(d, [kind |-> "request", from |-> d, time |-> time[d] + 1])

SendCommand(d) ==
  /\ Perm[d] = Admin
  /\ \E c \in Commands :
       SendsUnique(d, [kind |-> "command", from |-> d, time |-> time[d] + 1,
                       target |-> c[1], perm |-> c[2]])

(* The caller of sendMessage chooses the timestamp of a text.                *)
SendText(p) ==
  LET d == Author[p] IN
  /\ sent[p] = 0
  /\ \E t \in (IF p \in Sharing THEN 1 ELSE time[d] + 1) .. time[d] + 1 :
       /\ \E now \in (IF p \in Sharing THEN {time[d], t} ELSE {t}) :
            /\ now >= time[d]
            /\ Sends(d, [kind |-> "text", from |-> d, time |-> t, post |-> p], {p}, now)
       /\ sent' = [sent EXCEPT ![p] = t]

(* A text that is not acknowledged is sent again, with its old timestamp.     *)
RetryText(p) ==
  /\ p \in Retried \ resent /\ sent[p] # 0 /\ p \notin confirmed
  /\ Cardinality(air) < MaxAir
  /\ air' = air \union
       {[kind |-> "text", from |-> Author[p], time |-> sent[p], post |-> p]}
  /\ resent' = resent \union {p}
  /\ UNCHANGED <<server, mark, time, sent, seen, confirmed, restarts, log, gone, dropped,
                 shared, ahead>>

(* onPeerDataRecv of the device, for TXT_TYPE_SIGNED_PLAIN.                  *)
ReceivePush(d) ==
  \E m \in Received("push") :
    /\ m.to = d
    /\ mark' = [mark EXCEPT ![d] = IF m.ack[1] > @ THEN m.ack[1] ELSE @]
    /\ seen' = [seen EXCEPT ![d] = @ \union {m.post}]
    /\ Answers(m, [kind |-> "ack", from |-> d, ack |-> m.ack])
    /\ UNCHANGED <<server, time, sent, confirmed, resent, restarts, log, gone, dropped,
                   shared, ahead>>

ReceiveConfirm ==
  \E m \in Received("confirm") :
    /\ confirmed' = confirmed \union {m.post}
    /\ Takes(m)
    /\ UNCHANGED <<server, mark, time, sent, seen, resent, restarts, log, gone, dropped,
                   shared, ahead>>

(* The contact is saved some seconds after it changed: a restart may find a   *)
(* mark that it had before.                                                 *)
EarlierMarks(d) ==
  { s \in {0} \union { r.ts : r \in { q \in Stored : Author[q.post] # d } } : s < mark[d] }

Restart(d) ==
  /\ restarts < MaxRestarts
  /\ restarts' = restarts + 1
  /\ \E s \in EarlierMarks(d) : mark' = [mark EXCEPT ![d] = s]
  /\ UNCHANGED <<server, air, time, sent, seen, confirmed, resent, log, gone, dropped,
                 shared, ahead>>

ServerStep(A) ==
  /\ A
  /\ log' = IF posts' = posts THEN log ELSE
       Append(log, posts'[next_post_idx].post)
  /\ dropped' = dropped \union
       { d \in Device : Known(clients, d) /\ \A i \in 0 .. num_clients' - 1 : clients'[i].id # d }
  /\ UNCHANGED <<devices, gone, shared, ahead>>

(* The file matters, and is written, while a restart may still read it.      *)
MayRestart == ServerRestarts /\ restarts < MaxRestarts

(* The devices with a timestamp of a post at which the server's clock is not  *)
(* past it: their own mark, one on its way, or the one loaded from the file. *)
NotBefore(t) ==
  { d \in Device :
      \/ mark[d] >= t
      \/ \E m \in air :
           \/ m.kind \in {"login", "keepalive"} /\ m.from = d /\ m.since >= t
           \/ m.kind = "push" /\ m.to = d /\ m.ack[1] >= t
           \/ m.kind = "ack" /\ m.from = d /\ m.ack[1] >= t
      \/ \E k \in DOMAIN s_contacts' : s_contacts'[k].id = d /\ s_contacts'[k].sync_since >= t }

ServerRestart ==
  /\ MayRestart
  /\ restarts' = restarts + 1
  /\ Restarts
  /\ dropped' = Device /\ gone' = Len(log)
  /\ ahead' = ahead \union NotBefore(clock')
  /\ UNCHANGED <<mark, time, sent, seen, confirmed, resent, log, shared>>

DeviceNext ==
  \/ \E d \in Device :
       \/ SendLogin(d) \/ SendKeepAlive(d) \/ SendRequest(d) \/ SendCommand(d)
       \/ ReceivePush(d) \/ Restart(d)
  \/ \E p \in Post : SendText(p) \/ RetryText(p)
  \/ ReceiveConfirm

Next ==
  \/ ServerStep(ServerNext)
  \/ MayRestart /\ ServerStep(Save)
  \/ ServerRestart
  \/ DeviceNext

Spec == Init /\ [][Next]_vars

(* loop() is called for ever and time passes, so that an ACK that does not    *)
(* come is late one day; packets of the pool come free again                *)
(* (OutboundIsReleased of Dispatcher), so that a push does not fail every   *)
(* time; and what is in the air is received, unless it is lost before.      *)
FairSpec ==
  /\ Spec
  /\ WF_vars(ServerStep(Handle)) /\ WF_vars(ReceiveConfirm)
  /\ WF_vars(ServerStep(Tick))
  /\ WF_vars(ServerStep(\E late \in SUBSET Waiting : Loop(late)))
  /\ \A i \in Idx : SF_vars(ServerStep(\E late \in SUBSET Waiting : i \in late /\ Loop(late)))
  /\ \A d \in Device :
       /\ SF_vars(ServerStep(\E late \in SUBSET Waiting : PushTo(late, d)))
       /\ WF_vars(ReceivePush(d))

------------------------------------------------------------------------
(* The server's tables hold what the code's types allow: ring indices and     *)
(* counts stay in range, no client's pushes fail more than three times.      *)
TypeOK ==
  /\ posts \in [PostIdx -> [post : Post \union {NoPost}, ts : Nat]]
  /\ next_post_idx \in PostIdx
  /\ clients \in [Idx -> Client] /\ num_clients \in 0 .. MaxClients
  /\ next_client_idx \in Idx
  /\ clock \in Nat /\ last_unique \in Nat
  /\ s_contacts \in Seq(Saved) /\ Len(s_contacts) <= MaxClients /\ dirty \in BOOLEAN
  /\ mark \in [Device -> Nat] /\ time \in [Device -> Nat] /\ sent \in [Post -> Nat]
  /\ seen \in [Device -> SUBSET Post] /\ confirmed \subseteq Post /\ resent \subseteq Post
  /\ log \in Seq(Post) /\ gone \in 0 .. Len(log) /\ dropped \subseteq Device
  /\ shared \subseteq Post /\ ahead \subseteq Device /\ restarts \in 0 .. MaxRestarts

(* d has received whatever the ring still holds for it up to time s.          *)
Covered(d, s) ==
  \A r \in Stored : r.ts <= s /\ Author[r.post] # d => r.post \in seen[d]

(* No post is skipped: neither the server's sync_since of a client nor the    *)
(* client's own ever passes a post that is in the ring for it and that it has *)
(* not received, however pushes, ACKs, logins and keep-alives cross or are    *)
(* lost, whoever is evicted, although both sides set the mark, and although   *)
(* either may restart, the client with an older mark, the server with a clock *)
(* that starts anew: only clients with a timestamp that clock is behind       *)
(* (MyMesh.cpp:47) are not promised this.                                   *)
NothingSkipped ==
  /\ \A d \in Device \ ahead : Covered(d, mark[d])
  /\ \A i \in 0 .. num_clients - 1 :
       clients[i].id \notin ahead => Covered(clients[i].id, clients[i].sync_since)

(* An ACK that is still accepted moves a client's sync_since forward, never   *)
(* back to an earlier post (processAck assigns it without a comparison).     *)
AckAdvances ==
  \A i \in 0 .. num_clients - 1 : clients[i].pending_ack # << >> =>
    clients[i].push_post_timestamp > clients[i].sync_since

(* MyMesh.cpp:445: the ACK proves to the author that the server got the text: *)
(* what is acknowledged has been added to the ring.  It is so only of texts   *)
(* whose timestamp no other message of their author has: MyMesh.cpp:435 takes *)
(* a text in the second of the author's last login, request or text for a     *)
(* retry, and acknowledges it all the same.                                 *)
ConfirmedIsPosted ==
  \A p \in confirmed \ shared : \E i \in DOMAIN log : log[i] = p

(* MyMesh.cpp:434: a text is posted once, however often it is sent and        *)
(* whatever its timestamp, as long as the server has not forgotten its       *)
(* author meanwhile.                                                        *)
PostedOnce ==
  \A p \in Post : Author[p] \notin dropped =>
    Cardinality({ i \in DOMAIN log : log[i] = p }) <= 1

(* The room implements PostDelivery, which owes nothing to those ahead.      *)
Delivery == INSTANCE PostDelivery WITH Capacity <- MaxPosts
DeliversInOrder == Delivery!Spec

Served(d) ==
  \E i \in 0 .. num_clients - 1 :
    clients[i].id = d /\ clients[i].last_activity # 0 /\ clients[i].push_failures < MaxFailures

Holds(p) == \E r \in Stored : r.post = p

(* docs/faq.md:148: the server pushes what it stores: a client that is served *)
(* receives each post of the others that stays in the ring, unless three     *)
(* pushes in a row fail or it is taken off the list.                         *)
PostsArrive ==
  \A d \in Device : \A p \in { q \in Post : Author[q] # d } :
    Holds(p) /\ Served(d) ~> p \in seen[d] \/ ~Holds(p) \/ ~Served(d)
========================================================================
