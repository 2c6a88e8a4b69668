--------------------------- MODULE RoomServer ---------------------------
(***************************************************************************)
(* The room server: a ring of posts, the access list of its clients, and    *)
(* the round robin that pushes to each client the posts it has not seen,    *)
(* one at a time, each awaiting its ACK.                                    *)
(*                                                                         *)
(* The mesh between server and clients is a set of packets in the air that  *)
(* are received in any order, or lost.  When the turns come (next_push) is   *)
(* left open, and an ACK not there when one comes may be late by then; the  *)
(* clock that stamps posts is a number.  Left out: replies other than       *)
(* ACKs, routes, requests for statistics and telemetry beyond their effect  *)
(* on the client's entry, and the server's own forwarding (MeshFlood).      *)
(***************************************************************************)
EXTENDS Integers, Sequences, FiniteSets

CONSTANTS
  Device, Nobody,               \* clients; the identity of an empty entry
  Post, NoPost, Author,         \* texts, and the device each is written on
  Perm,                         \* the permission each device's password gives
  Blank,                        \* the devices that log in with a blank password
  MaxClients,                   \* MAX_CLIENTS
  MaxPosts,                     \* MAX_UNSYNCED_POSTS
  PostSyncDelay,                \* POST_SYNC_DELAY_SECS
  Second,                       \* by how much the clock moves at a time
  Attempt,                      \* the random attempts of pushPostToClient
  ByPath,                       \* {FALSE, TRUE}: ACKs come alone, with a path
  Acked,                        \* texts whose ACK may reach the author; the
                                \* others' are lost
  MaxAir,                       \* bound on the packets on their way
  PoolMayBeEmpty                \* TRUE: there may be no packet for a push

ASSUME RoomConstants ==
  /\ Nobody \notin Device /\ NoPost \notin Post
  /\ Author \in [Post -> Device] /\ Perm \in [Device -> 0 .. 3]
  /\ Blank \subseteq Device
  /\ MaxClients \in Nat \ {0} /\ MaxPosts \in Nat \ {0} /\ PostSyncDelay \in Nat
  /\ Second \in Nat \ {0} /\ Attempt \subseteq Nat /\ PoolMayBeEmpty \in BOOLEAN

VARIABLES
  posts, next_post_idx,         \* the ring, and where the next post goes
  clients, num_clients,         \* the access list, and its entries in use
  next_client_idx,              \* whose turn it is
  clock, last_unique,           \* getCurrentTime(), and what was last given out
  s_contacts,                   \* the file of that name
  dirty,                        \* dirty_contacts_expiry is set
  air                           \* packets on their way

contacts == <<s_contacts, dirty>>
server == <<posts, next_post_idx, clients, num_clients, next_client_idx,
            clock, last_unique, contacts>>

Guest == 0                      \* PERM_ACL_GUEST
Admin == 3                      \* PERM_ACL_ADMIN
MaxFailures == 3                \* pushes that may fail in a row

StartOfClock == 1               \* VolatileRTCClock, after each start

Idx == 0 .. MaxClients - 1
PostIdx == 0 .. MaxPosts - 1
Ack == Seq(Nat)                 \* <<timestamp, attempt>>, or none: << >>

Client ==
  [id : Device \union {Nobody}, permissions : 0 .. 3,
   last_timestamp : Nat, last_activity : Nat,
   sync_since : Nat, pending_ack : Ack, push_post_timestamp : Nat,
   push_failures : 0 .. MaxFailures]

Saved == [id : Device, permissions : 0 .. 3, sync_since : Nat]

Entry(d) ==
  [id |-> d, permissions |-> Guest, last_timestamp |-> 0, last_activity |-> 0,
   sync_since |-> 0, pending_ack |-> << >>, push_post_timestamp |-> 0,
   push_failures |-> 0]

ServerInit ==
  /\ posts = [i \in PostIdx |-> [post |-> NoPost, ts |-> 0]] /\ next_post_idx = 0
  /\ clients = [i \in Idx |-> Entry(Nobody)] /\ num_clients = 0
  /\ next_client_idx = 0
  /\ clock = StartOfClock /\ last_unique = 0
  /\ s_contacts = << >> /\ dirty = FALSE

(* getCurrentTimeUnique, called when it last gave out last.                  *)
Unique(last) == IF clock <= last THEN last + 1 ELSE clock

------------------------------------------------------------------------
(* The access list.  cs is its table, of which num_clients entries are used. *)
Places(cs, d) == { i \in 0 .. num_clients - 1 : cs[i].id = d }
Known(cs, d) == Places(cs, d) # {}
At(cs, d) == CHOOSE i \in Places(cs, d) : \A j \in Places(cs, d) : i <= j

(* putClient evicts the least active client that is no admin, or the last.   *)
Oldest(cs) ==
  LET Others == { i \in 0 .. num_clients - 1 : cs[i].permissions # Admin } IN
  IF Others = {} THEN MaxClients - 1
  ELSE CHOOSE i \in Others : \A j \in Others :
         \/ cs[i].last_activity < cs[j].last_activity
         \/ cs[i].last_activity = cs[j].last_activity /\ i <= j

SlotFor(cs, d) ==
  IF Known(cs, d) THEN At(cs, d)
  ELSE IF num_clients < MaxClients THEN num_clients ELSE Oldest(cs)

PutClient(cs, d) ==
  IF Known(cs, d) THEN cs ELSE [cs EXCEPT ![SlotFor(cs, d)] = Entry(d)]

CountWith(cs, d) ==
  IF Known(cs, d) \/ num_clients = MaxClients THEN num_clients ELSE num_clients + 1

(* applyPermissions of the guest role closes the gap by shifting the entries *)
(* that follow; the last one stays where it was, out of use.                *)
Removed(cs, d) ==
  [i \in Idx |-> IF At(cs, d) <= i /\ i < num_clients - 1 THEN cs[i + 1] ELSE cs[i]]

SetPerm(cs, d, perm) ==
  \/ /\ perm = Guest /\ Known(cs, d)
     /\ clients' = Removed(cs, d) /\ num_clients' = num_clients - 1
     /\ dirty' = TRUE
  \/ /\ perm = Guest /\ ~Known(cs, d)
     /\ clients' = cs /\ num_clients' = num_clients
     /\ dirty' = dirty
  \/ /\ perm # Guest
     /\ clients' = [PutClient(cs, d) EXCEPT ![SlotFor(cs, d)].permissions = perm]
     /\ num_clients' = CountWith(cs, d)
     /\ dirty' = TRUE

------------------------------------------------------------------------
Received(kind) == { m \in air : m.kind = kind }
Takes(m) == air' = air \ {m}
Answers(m, reply) == air' = (air \ {m}) \union {reply}

(* onAnonDataRecv.  A blank password is enough for a client in the list.     *)
LetIn(m) == m.from \in Blank /\ Known(clients, m.from)

LoginLetIn(m) ==
  /\ LetIn(m) /\ Takes(m)
  /\ last_unique' = Unique(last_unique)
  /\ UNCHANGED <<posts, next_post_idx, clients, num_clients, next_client_idx, clock, contacts>>

LoggedIn(e, m) ==
  [e EXCEPT !.last_timestamp = m.time, !.sync_since = m.since,
            !.pending_ack = << >>, !.push_failures = 0,
            !.last_activity = clock, !.permissions = Perm[m.from]]

LoginAccepted(m) ==
  LET i == SlotFor(clients, m.from)
      cs == PutClient(clients, m.from) IN
  /\ ~LetIn(m) /\ cs[i].last_timestamp < m.time /\ Takes(m)
  /\ clients' = [cs EXCEPT ![i] = LoggedIn(cs[i], m)]
  /\ num_clients' = CountWith(clients, m.from)
  /\ last_unique' = Unique(last_unique)
  /\ dirty' = TRUE
  /\ UNCHANGED <<posts, next_post_idx, next_client_idx, clock, s_contacts>>

LoginRefused(m) ==
  LET cs == PutClient(clients, m.from) IN
  /\ ~LetIn(m) /\ cs[SlotFor(clients, m.from)].last_timestamp >= m.time /\ Takes(m)
  /\ clients' = cs /\ num_clients' = CountWith(clients, m.from)
  /\ UNCHANGED <<posts, next_post_idx, next_client_idx, clock, last_unique, contacts>>

HandleLogin ==
  \E m \in Received("login") : LoginLetIn(m) \/ LoginAccepted(m) \/ LoginRefused(m)

------------------------------------------------------------------------
(* onPeerDataRecv.                                                          *)
Fresh(m) ==
  Known(clients, m.from) /\ clients[At(clients, m.from)].last_timestamp <= m.time

Stale ==
  \E m \in air :
    /\ m.kind \in {"text", "command", "request", "keepalive"}
    /\ ~Fresh(m) /\ Takes(m) /\ UNCHANGED server

(* Mutants of IsRetry: no text is one; every text is, the time of the text   *)
(* being compared with itself.                                              *)
NeverRetry(m) == FALSE
AlwaysRetry(m) == TRUE

IsRetry(m) == m.time = clients[At(clients, m.from)].last_timestamp

Active(m, now) ==
  [clients EXCEPT ![At(clients, m.from)] =
     [@ EXCEPT !.last_timestamp = m.time, !.last_activity = now, !.push_failures = 0]]

(* addPost, its timestamp drawn after the one of the message.                *)
AddPost(post, now) ==
  /\ posts' = [posts EXCEPT ![next_post_idx] = [post |-> post, ts |-> Unique(now)]]
  /\ next_post_idx' = (next_post_idx + 1) % MaxPosts
  /\ last_unique' = Unique(now)

HandleText ==
  \E m \in Received("text") :
    LET now == Unique(last_unique)
        MayPost == clients[At(clients, m.from)].permissions # Guest IN
    /\ Fresh(m)
    /\ clients' = Active(m, now)
    /\ \/ MayPost /\ ~IsRetry(m) /\ AddPost(m.post, now)
       \/ (MayPost => IsRetry(m)) /\ last_unique' = now
          /\ UNCHANGED <<posts, next_post_idx>>
    /\ IF MayPost /\ m.post \in Acked
       THEN Answers(m, [kind |-> "confirm", post |-> m.post]) ELSE Takes(m)
    /\ UNCHANGED <<num_clients, next_client_idx, clock, contacts>>

(* A CLI command: setperm changes the list under the client's own entry.     *)
HandleCommand ==
  \E m \in Received("command") :
    LET now == Unique(last_unique)
        Obeyed == ~IsRetry(m) /\ clients[At(clients, m.from)].permissions = Admin IN
    /\ Fresh(m) /\ Takes(m)
    /\ \/ Obeyed /\ SetPerm(Active(m, now), m.target, m.perm)
       \/ ~Obeyed /\ clients' = Active(m, now) /\ UNCHANGED <<num_clients, dirty>>
    /\ last_unique' = now
    /\ UNCHANGED <<posts, next_post_idx, next_client_idx, clock, s_contacts>>

HandleRequest ==
  \E m \in Received("request") :
    /\ Fresh(m) /\ Takes(m)
    /\ clients' = Active(m, clock)
    /\ UNCHANGED <<posts, next_post_idx, num_clients, next_client_idx, clock,
                 last_unique, contacts>>

(* Mutant of Resynced: a push that is not yet acknowledged stays expected.    *)
StillExpecting(e, m) == IF m.since > 0 THEN [e EXCEPT !.sync_since = m.since] ELSE e

(* REQ_TYPE_KEEP_ALIVE carries what the client says it has.                  *)
Resynced(e, m) ==
  [e EXCEPT !.sync_since = IF m.since > 0 THEN m.since ELSE @, !.pending_ack = << >>]

HandleKeepAlive ==
  \E m \in Received("keepalive") :
    LET i == At(clients, m.from) IN
    /\ Fresh(m) /\ Takes(m)
    /\ clients' = [Active(m, clock) EXCEPT ![i] = Resynced(@, m)]
    /\ UNCHANGED <<posts, next_post_idx, num_clients, next_client_idx, clock,
                 last_unique, contacts>>

------------------------------------------------------------------------
(* processAck: the first client that awaits this very ACK.                   *)
Awaiting(m) ==
  { i \in Places(clients, m.from) : clients[i].pending_ack = m.ack }

Synced(e) ==
  [e EXCEPT !.pending_ack = << >>, !.push_failures = 0,
            !.sync_since = e.push_post_timestamp]

Credited(i, m) == IF i \in Awaiting(m) THEN Synced(clients[i]) ELSE clients[i]

(* onAckRecv, and onPeerPathRecv with an ACK, which counts as activity.       *)
HandleAck ==
  \E m \in Received("ack"), path \in ByPath :
    /\ Takes(m)
    /\ clients' = [i \in Idx |->
         IF path /\ i \in Places(clients, m.from)
         THEN [Credited(i, m) EXCEPT !.last_activity = clock]
         ELSE Credited(i, m)]
    /\ UNCHANGED <<posts, next_post_idx, num_clients, next_client_idx, clock,
                 last_unique, contacts>>

------------------------------------------------------------------------
(* Mutants of TimedOut: the push stays expected; the timeout counts as ACK.   *)
StillPending(e) == [e EXCEPT !.push_failures = @ + 1]
TimedOutAsSynced(e) == Synced(e)

(* loop(): the ACK timeouts, of the clients in late ...                      *)
TimedOut(e) == [e EXCEPT !.push_failures = @ + 1, !.pending_ack = << >>]

Waiting == { i \in 0 .. num_clients - 1 : clients[i].pending_ack # << >> }
Checked(late) == [i \in Idx |-> IF i \in late THEN TimedOut(clients[i]) ELSE clients[i]]

(* Mutant of InRing: the scan begins where the array does.                   *)
FromStart(k) == posts[k]

(* ... and the next post for the client whose turn it is, oldest first.       *)
InRing(k) == posts[(next_post_idx + k) % MaxPosts]

(* The posts the ring holds.                                                *)
Stored == { posts[i] : i \in { k \in PostIdx : posts[k].ts # 0 } }

Unsynced(e) ==
  { k \in PostIdx :
      /\ clock >= InRing(k).ts + PostSyncDelay
      /\ InRing(k).ts > e.sync_since
      /\ Author[InRing(k).post] # e.id }

First(S) == CHOOSE k \in S : \A j \in S : k <= j

MayPush(e) ==
  /\ e.pending_ack = << >> /\ e.last_activity # 0 /\ e.push_failures < MaxFailures
  /\ Unsynced(e) # {}

(* Mutant of NextClient: it is always the same one's turn.                   *)
SameClient == next_client_idx

NextClient == (next_client_idx + 1) % num_clients

LoopTurn ==
  /\ num_clients > 0
  /\ next_client_idx' = NextClient
  /\ UNCHANGED <<posts, next_post_idx, num_clients, clock, last_unique, contacts>>

(* pushPostToClient; without a free packet nothing is sent.                  *)
PushTo(late, d) ==
  LET e == Checked(late)[next_client_idx]
      p == InRing(First(Unsynced(e))) IN
  /\ Cardinality(air) < MaxAir
  /\ LoopTurn /\ MayPush(e) /\ e.id = d
  /\ \E attempt \in Attempt :
       /\ clients' = [Checked(late) EXCEPT ![next_client_idx] =
            [@ EXCEPT !.pending_ack = <<p.ts, attempt>>, !.push_post_timestamp = p.ts]]
       /\ air' = air \union
            {[kind |-> "push", to |-> d, post |-> p.post, ack |-> <<p.ts, attempt>>]}

PushFails(late) ==
  LET e == Checked(late)[next_client_idx] IN
  /\ PoolMayBeEmpty /\ LoopTurn /\ MayPush(e)
  /\ clients' = [Checked(late) EXCEPT ![next_client_idx].push_post_timestamp =
       InRing(First(Unsynced(e))).ts]
  /\ UNCHANGED air

SkipTurn(late) ==
  /\ LoopTurn /\ ~MayPush(Checked(late)[next_client_idx])
  /\ clients' = Checked(late)
  /\ UNCHANGED air

(* An ACK that is not there when its client's entry is looked at may be late. *)
Loop(late) ==
  \/ \E d \in Device : PushTo(late, d)
  \/ PushFails(late) \/ SkipTurn(late)

(* Time passes; once all posts may be pushed more of it makes no difference. *)
Tick ==
  /\ \E k \in PostIdx : posts[k].ts # 0 /\ clock < posts[k].ts + PostSyncDelay
  /\ clock' = clock + Second
  /\ UNCHANGED <<posts, next_post_idx, clients, num_clients, next_client_idx,
                 last_unique, contacts, air>>

(* The list is saved some time after it changed: the admins, in their order,  *)
(* and of each entry what does not come anew with the next login.            *)
InOrder(S) ==
  { f \in [1 .. Cardinality(S) -> S] : \A i, j \in DOMAIN f : i < j => f[i] < f[j] }

Admins == { i \in 0 .. num_clients - 1 : clients[i].permissions = Admin }

SavedUpTo(f, n) ==
  [i \in 1 .. n |-> [id |-> clients[f[i]].id, permissions |-> clients[f[i]].permissions,
                    sync_since |-> clients[f[i]].sync_since]]

Save ==
  /\ dirty /\ dirty' = FALSE
  /\ \E f \in InOrder(Admins) : s_contacts' = SavedUpTo(f, Len(f))
  /\ UNCHANGED <<posts, next_post_idx, clients, num_clients, next_client_idx, clock,
                 last_unique, air>>

Loaded(file) ==
  [i \in Idx |-> IF i < Len(file)
     THEN [Entry(file[i + 1].id) EXCEPT !.permissions = file[i + 1].permissions,
                                        !.sync_since = file[i + 1].sync_since]
     ELSE Entry(Nobody)]

(* A restart, which may break off the saving of the list.  The posts are     *)
(* gone; the clock has gone on where a battery or the chip keeps it, and      *)
(* starts anew elsewhere; either may be behind timestamps given out before.   *)
Restarts ==
  /\ \E file \in {s_contacts} \union
       { SavedUpTo(f, n) : f \in InOrder(Admins), n \in {k \in 0 .. Cardinality(Admins) : dirty} } :
       /\ s_contacts' = file
       /\ clients' = Loaded(file) /\ num_clients' = Len(file)
  /\ posts' = [i \in PostIdx |-> [post |-> NoPost, ts |-> 0]] /\ next_post_idx' = 0
  /\ next_client_idx' = 0 /\ last_unique' = 0 /\ dirty' = FALSE
  /\ clock' \in {StartOfClock, clock + Second}
  /\ UNCHANGED air

Lose == \E m \in air : Takes(m) /\ UNCHANGED server

Handle ==
  \/ HandleLogin \/ HandleText \/ HandleCommand \/ HandleRequest \/ HandleKeepAlive
  \/ HandleAck \/ Stale

ServerNext ==
  \/ Handle
  \/ \E late \in SUBSET Waiting : Loop(late)
  \/ Tick \/ Lose
========================================================================
