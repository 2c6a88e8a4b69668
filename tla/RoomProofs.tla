---------------------------- MODULE RoomProofs ----------------------------
(***************************************************************************)
(* No post is skipped, for every access list, ring, number of devices and   *)
(* of packets in the air.  A time s that stands for "d has all up to s" is   *)
(* a claim; marks, entries of the list, the saved list, logins, keep-alives  *)
(* and ACKs all make claims, and the invariant is that all are true.  A      *)
(* push is no claim yet, but becomes one when it arrives: it carries the     *)
(* oldest post that its client lacks.                                       *)
(* Claims of devices ahead of a clock that started anew are none: they only   *)
(* keep their types.  Nor is a text posted twice, or an ACK sent for a text   *)
(* of its own timestamp that was never stored: the entry that recognises a    *)
(* retry holds the timestamp of the post it made.                           *)
(***************************************************************************)
EXTENDS Room, FiniteSetTheorems, WellFoundedInduction, TLAPS

(* s is earlier than the timestamp of any post to come.                     *)
Past(s) == s \in Nat /\ (s <= last_unique \/ s < clock)

Claim(d, s) == s \in Nat /\ (d \notin ahead => Past(s) /\ Covered(d, s))

(* Once d has the post p of time s, it has all up to s.                      *)
Completes(p, d, s) ==
  /\ s \in Nat /\ p \in Post
  /\ d \notin ahead =>
       /\ Past(s)
       /\ \A r \in Stored : Author[r.post] # d =>
            /\ r.ts < s => r.post \in seen[d]
            /\ r.ts = s => r.post = p

RingOK ==
  /\ \A i \in PostIdx : posts[i].ts # 0 => posts[i].post \in Post /\ Past(posts[i].ts)
  /\ \A j, k \in PostIdx : j < k => InRing(j).ts = 0 \/ InRing(j).ts < InRing(k).ts

EntryOK(e) ==
  /\ e \in Client
  /\ e.id \in Device => Claim(e.id, e.sync_since)
  /\ e.pending_ack # << >> =>
       /\ e.id \in Device /\ e.push_failures < MaxFailures
       /\ e.pending_ack[1] = e.push_post_timestamp
       /\ Past(e.push_post_timestamp) /\ e.sync_since < e.push_post_timestamp

ListOK(cs, n) ==
  /\ cs \in [Idx -> Client] /\ n \in 0 .. MaxClients
  /\ \A i \in Idx : EntryOK(cs[i])
  /\ \A i \in 0 .. n - 1 : cs[i].id \in Device

FileOK(f) ==
  /\ f \in Seq(Saved) /\ Len(f) <= MaxClients
  /\ \A k \in DOMAIN f : Claim(f[k].id, f[k].sync_since)

MarksOK(mk) == mk \in [Device -> Nat] /\ \A d \in Device : Claim(d, mk[d])

FromDevice == {"login", "keepalive", "request", "command", "text"}

MessageOK(m) ==
  /\ m.kind \in FromDevice => m.from \in Device /\ m.time \in Nat
  /\ m.kind \in {"login", "keepalive"} => Claim(m.from, m.since)
  /\ m.kind = "command" => m.target \in Device /\ m.perm \in 0 .. 3
  /\ m.kind \in {"text", "confirm"} => m.post \in Post
  /\ m.kind = "push" => m.to \in Device /\ m.ack # << >> /\ Completes(m.post, m.to, m.ack[1])
  /\ m.kind = "ack" => m.from \in Device /\ m.ack # << >> /\ Claim(m.from, m.ack[1])

AirOK(a) == \A m \in a : MessageOK(m)

IInv ==
  /\ TypeOK /\ RingOK
  /\ ListOK(clients, num_clients) /\ FileOK(s_contacts)
  /\ MarksOK(mark) /\ AirOK(air)

------------------------------------------------------------------------
(* Claims outlive what happens to the ring, the clock and the devices.       *)

GoesOn ==
  /\ \A r \in Stored' : r \in Stored \/ (r.ts \in Nat /\ ~Past(r.ts))
  /\ \A d \in Device : seen[d] \subseteq seen'[d]
  /\ \A s : Past(s) => Past(s)'
  /\ ahead' = ahead

LEMMA StoredTyped ==
  ASSUME TypeOK
  PROVE  \A r \in Stored : r.ts \in Nat
BY DEF TypeOK, Stored

LEMMA ClaimKept ==
  ASSUME TypeOK, GoesOn
  PROVE  \A s : \A d \in Device : Claim(d, s) => Claim(d, s)'
<1> SUFFICES ASSUME NEW d \in Device, NEW s, Claim(d, s), d \notin ahead, NEW r \in Stored',
                    r.ts <= s, Author[r.post] # d
             PROVE  r.post \in seen'[d]
  BY DEF Claim, GoesOn, Covered
<1>1. s \in Nat /\ Past(s)
  BY DEF Claim, Past
<1>2. CASE r \in Stored
  BY <1>2, StoredTyped DEF Claim, Covered, GoesOn
<1>3. CASE r.ts \in Nat /\ ~Past(r.ts)
  BY <1>1, <1>3 DEF TypeOK, Past
<1> QED BY <1>2, <1>3 DEF GoesOn

LEMMA CompletesKept ==
  ASSUME TypeOK, GoesOn
  PROVE  \A p, s : \A d \in Device : Completes(p, d, s) => Completes(p, d, s)'
<1> SUFFICES ASSUME NEW p, NEW s, NEW d \in Device, Completes(p, d, s), d \notin ahead,
                    NEW r \in Stored', Author[r.post] # d
             PROVE  (r.ts < s => r.post \in seen'[d]) /\ (r.ts = s => r.post = p)
  BY DEF Completes, GoesOn
<1>1. s \in Nat /\ Past(s)
  BY DEF Completes, Past
<1>2. CASE r \in Stored
  BY <1>2, StoredTyped DEF Completes, GoesOn
<1>3. CASE r.ts \in Nat /\ ~Past(r.ts)
  BY <1>1, <1>3 DEF TypeOK, Past
<1> QED BY <1>2, <1>3 DEF GoesOn

LEMMA EntryKept ==
  ASSUME TypeOK, GoesOn
  PROVE  \A e : EntryOK(e) => EntryOK(e)'
BY ClaimKept DEF EntryOK, GoesOn

LEMMA ListKept ==
  ASSUME TypeOK, GoesOn, ListOK(clients', num_clients')
  PROVE  ListOK(clients, num_clients)'
BY EntryKept DEF ListOK

LEMMA SavedEntries == \A f \in Seq(Saved) : \A k \in DOMAIN f : f[k] \in Saved
OBVIOUS

LEMMA FileKept ==
  ASSUME TypeOK, GoesOn, FileOK(s_contacts')
  PROVE  FileOK(s_contacts)'
<1>1. \A k \in DOMAIN s_contacts' : s_contacts'[k].id \in Device
  BY SavedEntries DEF FileOK, Saved
<1> QED BY <1>1, ClaimKept DEF FileOK

LEMMA MarksKept ==
  ASSUME TypeOK, GoesOn, MarksOK(mark')
  PROVE  MarksOK(mark)'
BY ClaimKept DEF MarksOK

LEMMA MessageKept ==
  ASSUME TypeOK, GoesOn
  PROVE  \A m : MessageOK(m) => MessageOK(m)'
BY ClaimKept, CompletesKept DEF MessageOK, FromDevice

LEMMA AirKept ==
  ASSUME TypeOK, GoesOn, AirOK(air')
  PROVE  AirOK(air)'
BY MessageKept DEF AirOK

(* When nothing is posted the ring stays, and what is still to be shown of a *)
(* step is what it does to the claims.                                      *)
Quiet ==
  /\ posts' = posts /\ next_post_idx' = next_post_idx
  /\ seen' = seen /\ ahead' = ahead
  /\ last_unique' \in Nat /\ last_unique <= last_unique'
  /\ clock' \in Nat /\ clock <= clock'

LEMMA QuietGoesOn ==
  ASSUME TypeOK, RingOK, Quiet
  PROVE  GoesOn /\ RingOK'
<1>1. \A s : Past(s) => Past(s)'
  BY DEF Past, Quiet, TypeOK
<1>2. Stored' = Stored
  BY DEF Stored, Quiet
<1>3. \A k : InRing(k)' = InRing(k)
  BY DEF InRing, Quiet
<1> QED BY <1>1, <1>2, <1>3 DEF GoesOn, RingOK, Quiet

------------------------------------------------------------------------
(* The entries of the access list.                                          *)
LEMMA HasLeast ==
  ASSUME NEW T \in SUBSET Nat, T # {}
  PROVE  \E x \in T : \A y \in T : x <= y
<1>1. PICK x \in T : \A y \in T : ~ (<<y, x>> \in OpToRel(<, Nat))
  BY NatLessThanWellFounded, WFMin
<1>2. \A y \in T : ~(y < x)
  BY <1>1 DEF OpToRel
<1> QED BY <1>2

LEMMA AtIsPlace ==
  ASSUME NEW cs, num_clients \in Nat, NEW d, Known(cs, d)
  PROVE  At(cs, d) \in Places(cs, d)
<1>1. Places(cs, d) \in SUBSET Nat /\ Places(cs, d) # {}
  BY DEF Places, Known
<1>2. \E i \in Places(cs, d) : \A j \in Places(cs, d) : i <= j
  BY <1>1, HasLeast
<1> QED BY <1>2 DEF At

LEMMA NewEntry ==
  ASSUME TypeOK, RingOK, NEW d \in Device
  PROVE  EntryOK(Entry(d)) /\ EntryOK(Entry(Nobody))
<1>1. Past(0)
  BY DEF Past, TypeOK
<1>2. Covered(d, 0)
  BY StoredTyped DEF Covered, Stored
<1> QED BY <1>1, <1>2, RoomConstants DEF EntryOK, Entry, Client, Claim, Guest, MaxFailures, Ack

LEMMA InIdx ==
  ASSUME NEW n \in 0 .. MaxClients
  PROVE  0 .. n - 1 \subseteq Idx
BY RoomConstants DEF Idx

(* One entry of the list is set.                                            *)
LEMMA SetEntry ==
  ASSUME NEW cs, NEW n, ListOK(cs, n), NEW i, NEW e, EntryOK(e), e.id \in Device
  PROVE  ListOK([cs EXCEPT ![i] = e], n)
<1> DEFINE cs2 == [cs EXCEPT ![i] = e]
<1>1. cs2 \in [Idx -> Client]
  BY DEF ListOK, EntryOK
<1>2. \A j \in Idx : cs2[j] = IF j = i THEN e ELSE cs[j]
  BY DEF ListOK
<1> HIDE DEF cs2
<1>3. \A j \in 0 .. n - 1 : j \in Idx
  BY InIdx DEF ListOK
<1>4. ListOK(cs2, n)
  BY <1>1, <1>2, <1>3 DEF ListOK
<1> QED BY <1>4 DEF cs2

LEMMA OldestInIdx ==
  ASSUME NEW cs, num_clients \in 0 .. MaxClients, ListOK(cs, num_clients)
  PROVE  Oldest(cs) \in Idx
<1> DEFINE Others == { i \in 0 .. num_clients - 1 : cs[i].permissions # Admin }
           Times == { cs[i].last_activity : i \in Others }
<1>0. Others \subseteq Idx
  BY InIdx
<1>1. CASE Others = {}
  BY <1>1, RoomConstants DEF Oldest, Idx
<1>2. CASE Others # {}
  <2>1. \A i \in Others : cs[i].last_activity \in Nat
    BY <1>0 DEF ListOK, Client
  <2>2. PICK t \in Times : \A u \in Times : t <= u
    BY <1>2, <2>1, HasLeast
  <2> DEFINE Then == { i \in Others : cs[i].last_activity = t }
  <2>3. Then # {} /\ Then \in SUBSET Nat
    BY <2>2
  <2>4. PICK i \in Then : \A j \in Then : i <= j
    BY <2>3, HasLeast
  <2>9. t \in Nat /\ i \in Others /\ cs[i].last_activity = t
    BY <2>1, <2>4
  <2>5. \A j \in Others : \/ cs[i].last_activity < cs[j].last_activity
                          \/ cs[i].last_activity = cs[j].last_activity /\ i <= j
    <3> TAKE j \in Others
    <3>1. t <= cs[j].last_activity /\ cs[j].last_activity \in Nat
      BY <2>1, <2>2
    <3>2. cs[j].last_activity = t => i <= j
      BY <2>4
    <3> HIDE DEF Others, Then, Times
    <3> QED BY <2>9, <3>1, <3>2
  <2>6. i \in Others
    BY <2>4
  <2>7. Oldest(cs) \in Others
    BY <1>2, <2>5, <2>6 DEF Oldest
  <2> QED BY <1>0, <2>7
<1> QED BY <1>1, <1>2

LEMMA PutKeepsList ==
  ASSUME TypeOK, RingOK, NEW cs, ListOK(cs, num_clients), NEW d \in Device
  PROVE  /\ ListOK(PutClient(cs, d), CountWith(cs, d))
         /\ SlotFor(cs, d) \in Idx /\ PutClient(cs, d)[SlotFor(cs, d)].id = d
<1> DEFINE i == SlotFor(cs, d)
<1>0. num_clients \in Nat /\ MaxClients \in Nat /\ num_clients <= MaxClients
  BY RoomConstants DEF TypeOK
<1>1. CASE Known(cs, d)
  BY <1>0, <1>1, AtIsPlace DEF PutClient, CountWith, SlotFor, Places, Idx
<1>2. CASE ~Known(cs, d)
  <2>1. PutClient(cs, d) = [cs EXCEPT ![i] = Entry(d)]
    BY <1>2 DEF PutClient
  <2>2. EntryOK(Entry(d)) /\ Entry(d).id = d
    BY NewEntry DEF Entry
  <2>3. ListOK(PutClient(cs, d), num_clients)
    <3> DEFINE e == Entry(d)
    <3>1. EntryOK(e) /\ e.id \in Device
      BY <2>2
    <3> HIDE DEF i, e
    <3>2. ListOK([cs EXCEPT ![i] = e], num_clients)
      BY <3>1, SetEntry
    <3> QED BY <2>1, <3>2 DEF e
  <2>4. i \in Idx /\ PutClient(cs, d)[i].id = d
    <3>1. i \in Idx
      BY <1>0, <1>2, OldestInIdx DEF SlotFor, Idx
    <3> HIDE DEF i
    <3> QED BY <2>1, <2>2, <3>1 DEF ListOK
  <2>5. CASE num_clients = MaxClients
    BY <2>3, <2>4, <2>5 DEF CountWith
  <2>6. CASE num_clients # MaxClients
    <3>1. CountWith(cs, d) = num_clients + 1 /\ i = num_clients /\ i \in Idx
      BY <1>0, <1>2, <2>6 DEF CountWith, SlotFor, Idx
    <3>2. \A j \in 0 .. num_clients : PutClient(cs, d)[j].id \in Device
      BY <1>0, <2>3, <2>4, <3>1 DEF ListOK
    <3> QED BY <1>0, <2>3, <2>4, <2>6, <3>1, <3>2 DEF ListOK
  <2> QED BY <2>5, <2>6
<1> QED BY <1>1, <1>2

(* What an entry claims does not depend on who was active when.               *)
LEMMA SameClaims ==
  ASSUME NEW e, EntryOK(e), NEW f \in Client, f.id = e.id, f.sync_since = e.sync_since,
         f.pending_ack = e.pending_ack, f.push_post_timestamp = e.push_post_timestamp,
         f.push_failures <= e.push_failures
  PROVE  EntryOK(f)
<1>1. f.id \in Device => Claim(f.id, f.sync_since)
  BY DEF EntryOK
<1>2. f.pending_ack # << >> =>
        /\ f.id \in Device /\ f.pending_ack[1] = f.push_post_timestamp
        /\ Past(f.push_post_timestamp) /\ f.sync_since < f.push_post_timestamp
  BY DEF EntryOK
<1>3. f.pending_ack # << >> => f.push_failures < MaxFailures
  BY DEF EntryOK, Client, MaxFailures
<1> QED BY <1>1, <1>2, <1>3 DEF EntryOK

LEMMA ActiveEntry ==
  ASSUME NEW e, EntryOK(e), NEW t \in Nat, NEW now \in Nat
  PROVE  EntryOK([e EXCEPT !.last_timestamp = t, !.last_activity = now, !.push_failures = 0])
<1> DEFINE f == [e EXCEPT !.last_timestamp = t, !.last_activity = now, !.push_failures = 0]
<1>1. e \in Client /\ 0 \in 0 .. MaxFailures /\ 0 <= e.push_failures
  BY DEF EntryOK, Client, MaxFailures
<1>2. f \in Client
  BY <1>1 DEF Client
<1>3. /\ f.id = e.id /\ f.sync_since = e.sync_since /\ f.pending_ack = e.pending_ack
      /\ f.push_post_timestamp = e.push_post_timestamp /\ f.push_failures = 0
  BY <1>1 DEF Client
<1> HIDE DEF f
<1>4. EntryOK(f)
  BY <1>1, <1>2, <1>3, SameClaims
<1> QED BY <1>4 DEF f

LEMMA HeardEntry ==
  ASSUME NEW e, EntryOK(e), NEW now \in Nat
  PROVE  EntryOK([e EXCEPT !.last_activity = now]) /\ [e EXCEPT !.last_activity = now].id = e.id
<1> DEFINE f == [e EXCEPT !.last_activity = now]
<1>1. e \in Client
  BY DEF EntryOK
<1>2. f \in Client
  BY <1>1 DEF Client
<1>3. /\ f.id = e.id /\ f.sync_since = e.sync_since /\ f.pending_ack = e.pending_ack
      /\ f.push_post_timestamp = e.push_post_timestamp /\ f.push_failures <= e.push_failures
  BY <1>1 DEF Client
<1> HIDE DEF f
<1>4. EntryOK(f)
  BY <1>1, <1>2, <1>3, SameClaims
<1> QED BY <1>3, <1>4 DEF f

LEMMA KnownPlace ==
  ASSUME TypeOK, ListOK(clients, num_clients), NEW d \in Device, NEW i \in Places(clients, d)
  PROVE  i \in Idx /\ clients[i].id = d /\ EntryOK(clients[i])
BY InIdx DEF Places, ListOK

LEMMA ActiveList ==
  ASSUME TypeOK, ListOK(clients, num_clients), NEW m, m.from \in Device, m.time \in Nat,
         Known(clients, m.from), NEW now \in Nat
  PROVE  LET i == At(clients, m.from) IN
         /\ ListOK(Active(m, now), num_clients)
         /\ i \in Idx /\ Active(m, now)[i].id = m.from /\ EntryOK(Active(m, now)[i])
<1> DEFINE i == At(clients, m.from)
           e == [clients[i] EXCEPT !.last_timestamp = m.time, !.last_activity = now,
                                   !.push_failures = 0]
<1>1. i \in Places(clients, m.from)
  BY AtIsPlace DEF TypeOK
<1>2. i \in Idx /\ clients[i].id = m.from /\ EntryOK(clients[i])
  BY <1>1, KnownPlace
<1>3. EntryOK(e)
  BY <1>2, ActiveEntry
<1>4. e.id = m.from
  BY <1>2 DEF EntryOK, Client
<1>5. Active(m, now) = [clients EXCEPT ![i] = e]
  BY DEF Active
<1> HIDE DEF i, e
<1>6. ListOK([clients EXCEPT ![i] = e], num_clients)
  BY <1>3, <1>4, SetEntry
<1>7. [clients EXCEPT ![i] = e][i] = e
  BY <1>2 DEF ListOK
<1> QED BY <1>2, <1>3, <1>4, <1>5, <1>6, <1>7 DEF i

LEMMA LoggedInEntry ==
  ASSUME TypeOK, NEW e, EntryOK(e), NEW m, m.from \in Device, m.time \in Nat, e.id = m.from,
         Claim(m.from, m.since)
  PROVE  EntryOK(LoggedIn(e, m)) /\ LoggedIn(e, m).id = m.from
<1>1. Perm[m.from] \in 0 .. 3 /\ m.since \in Nat /\ clock \in Nat /\ << >> \in Ack
  BY RoomConstants DEF Claim, TypeOK, Ack
<1> DEFINE f == LoggedIn(e, m)
<1>0. e \in Client /\ (e.pending_ack # << >> => e.push_failures < MaxFailures)
  BY DEF EntryOK
<1>9. 0 \in 0 .. MaxFailures
  BY DEF MaxFailures
<1>2. f \in Client
  BY <1>0, <1>1, <1>9 DEF Client, LoggedIn
<1>3. f.id = e.id /\ f.sync_since = m.since /\ f.pending_ack = << >>
  BY DEF EntryOK, Client, LoggedIn
<1> HIDE DEF f
<1>4. EntryOK(f)
  BY <1>2, <1>3 DEF EntryOK
<1> QED BY <1>3, <1>4 DEF f

LEMMA ResyncedEntry ==
  ASSUME NEW e, EntryOK(e), NEW m, m.from \in Device, e.id = m.from, Claim(m.from, m.since)
  PROVE  EntryOK(Resynced(e, m)) /\ Resynced(e, m).id = m.from
<1>1. m.since \in Nat /\ << >> \in Ack
  BY DEF Claim, Past, Ack
<1> QED BY <1>1 DEF EntryOK, Client, Resynced

LEMMA SyncedEntry ==
  ASSUME NEW e, EntryOK(e), e.id \in Device, e.pending_ack # << >>,
         Claim(e.id, e.pending_ack[1])
  PROVE  EntryOK(Synced(e)) /\ Synced(e).id = e.id
<1>1. << >> \in Ack
  BY DEF Ack
<1> DEFINE f == Synced(e)
<1>0. e \in Client /\ (e.pending_ack # << >> => e.push_failures < MaxFailures)
  BY DEF EntryOK
<1>9. 0 \in 0 .. MaxFailures
  BY DEF MaxFailures
<1>2. f \in Client
  BY <1>0, <1>1, <1>9 DEF Client, Synced
<1>3. f.id = e.id /\ f.sync_since = e.pending_ack[1] /\ f.pending_ack = << >>
  BY DEF EntryOK, Client, Synced
<1> HIDE DEF f
<1>4. EntryOK(f)
  BY <1>2, <1>3 DEF EntryOK
<1> QED BY <1>3, <1>4 DEF f

LEMMA TimedOutEntry ==
  ASSUME NEW e, EntryOK(e), e.pending_ack # << >>
  PROVE  EntryOK(TimedOut(e)) /\ TimedOut(e).id = e.id
<1>1. << >> \in Ack
  BY DEF Ack
<1> DEFINE f == TimedOut(e)
<1>0. e \in Client /\ (e.pending_ack # << >> => e.push_failures < MaxFailures)
  BY DEF EntryOK
<1>9. e.push_failures + 1 \in 0 .. MaxFailures
  BY <1>0 DEF MaxFailures, Client
<1>2. f \in Client
  BY <1>0, <1>1, <1>9 DEF Client, TimedOut
<1>3. f.id = e.id /\ f.sync_since = e.sync_since /\ f.pending_ack = << >>
  BY DEF EntryOK, Client, TimedOut
<1> HIDE DEF f
<1>4. EntryOK(f)
  BY <1>2, <1>3 DEF EntryOK
<1> QED BY <1>3, <1>4 DEF f

LEMMA RemovedList ==
  ASSUME TypeOK, NEW cs, ListOK(cs, num_clients), NEW d, Known(cs, d)
  PROVE  ListOK(Removed(cs, d), num_clients - 1)
<1>1. num_clients \in 0 .. MaxClients /\ At(cs, d) \in 0 .. num_clients - 1
  BY AtIsPlace DEF TypeOK, Places
<1>2. \A i \in Idx : Removed(cs, d)[i] \in {cs[i]} \union {cs[j] : j \in {i + 1} \cap Idx}
  BY <1>1, RoomConstants DEF Removed, Idx
<1>3. \A i \in 0 .. num_clients - 2 : Removed(cs, d)[i] \in {cs[i], cs[i + 1]}
  BY <1>1, RoomConstants DEF Removed, Idx
<1>4. num_clients - 1 \in 0 .. MaxClients
  BY <1>1, RoomConstants
<1>5. \A i \in 0 .. num_clients - 2 : Removed(cs, d)[i].id \in Device
  BY <1>1, <1>3, RoomConstants DEF ListOK
<1>6. \A i \in Idx : EntryOK(Removed(cs, d)[i])
  BY <1>2 DEF ListOK
<1>7. Removed(cs, d) \in [Idx -> Client]
  BY <1>6 DEF Removed, EntryOK
<1>8. \A i \in 0 .. (num_clients - 1) - 1 : Removed(cs, d)[i].id \in Device
  BY <1>1, <1>5
<1> QED BY <1>4, <1>6, <1>7, <1>8 DEF ListOK

LEMMA SetPermList ==
  ASSUME TypeOK, RingOK, NEW cs, ListOK(cs, num_clients), NEW d \in Device,
         NEW perm \in 0 .. 3, SetPerm(cs, d, perm)
  PROVE  ListOK(clients', num_clients') /\ dirty' \in BOOLEAN
<1> DEFINE i == SlotFor(cs, d)
           e == [PutClient(cs, d)[i] EXCEPT !.permissions = perm]
<1>1. CASE perm = Guest
  BY <1>1, RemovedList DEF SetPerm, TypeOK
<1>2. CASE perm # Guest
  <2>1. clients' = [PutClient(cs, d) EXCEPT ![i] = e]
    BY <1>2 DEF SetPerm
  <2>2. ListOK(PutClient(cs, d), CountWith(cs, d)) /\ i \in Idx /\ PutClient(cs, d)[i].id = d
    BY PutKeepsList
  <2>3. EntryOK(PutClient(cs, d)[i])
    BY <2>2 DEF ListOK
  <2>4. EntryOK(e) /\ e.id = d
    BY <2>2, <2>3 DEF EntryOK, Client
  <2> HIDE DEF i, e
  <2>5. ListOK([PutClient(cs, d) EXCEPT ![i] = e], CountWith(cs, d))
    <3> DEFINE ps == PutClient(cs, d)
               n == CountWith(cs, d)
    <3> HIDE DEF ps, n
    <3>1. ListOK(ps, n)
      BY <2>2 DEF ps, n
    <3>2. ListOK([ps EXCEPT ![i] = e], n)
      BY <2>4, <3>1, SetEntry
    <3> QED BY <3>2 DEF ps, n
  <2> QED BY <1>2, <2>1, <2>5 DEF SetPerm
<1> QED BY <1>1, <1>2

(* The entries of the list are each brought up to date.                      *)
LEMMA MapList ==
  ASSUME NEW cs, NEW n, ListOK(cs, n), NEW cs2, DOMAIN cs2 = Idx, cs2 = [i \in Idx |-> cs2[i]],
         \A i \in Idx : EntryOK(cs2[i]) /\ cs2[i].id = cs[i].id
  PROVE  ListOK(cs2, n)
<1>1. cs2 \in [Idx -> Client]
  BY DEF EntryOK
<1>2. 0 .. n - 1 \subseteq Idx
  BY InIdx DEF ListOK
<1> QED BY <1>1, <1>2 DEF ListOK

------------------------------------------------------------------------
(* The steps of the server that post nothing.                                *)
QuietStep ==
  /\ Quiet /\ ListOK(clients', num_clients') /\ FileOK(s_contacts') /\ AirOK(air')
  /\ next_client_idx' \in Idx /\ dirty' \in BOOLEAN

LEMMA QuietServer ==
  ASSUME IInv, QuietStep, UNCHANGED <<devices, gone, log, shared>>, dropped' \subseteq Device
  PROVE  IInv'
<1>1. GoesOn /\ RingOK'
  BY QuietGoesOn DEF IInv, QuietStep
<1>2. MarksOK(mark')
  BY DEF IInv, devices
<1>3. ListOK(clients, num_clients)' /\ FileOK(s_contacts)' /\ MarksOK(mark)' /\ AirOK(air)'
  BY <1>1, <1>2, ListKept, FileKept, MarksKept, AirKept DEF IInv, QuietStep
<1>4. TypeOK'
  BY DEF IInv, QuietStep, Quiet, ListOK, FileOK, TypeOK, devices
<1> QED BY <1>1, <1>3, <1>4 DEF IInv

LEMMA UniqueGrows ==
  ASSUME TypeOK, NEW n \in Nat
  PROVE  Unique(n) \in Nat /\ n < Unique(n) /\ clock <= Unique(n)
BY DEF Unique, TypeOK

LEMMA LoginStep ==
  ASSUME IInv, HandleLogin, UNCHANGED <<devices, ahead>>
  PROVE  QuietStep
<1> PICK m \in Received("login") : LoginLetIn(m) \/ LoginAccepted(m) \/ LoginRefused(m)
  BY DEF HandleLogin
<1>1. m \in air /\ MessageOK(m) /\ m.from \in Device /\ m.time \in Nat /\ Claim(m.from, m.since)
  BY DEF Received, IInv, AirOK, MessageOK, FromDevice
<1>2. AirOK(air')
  BY DEF LoginLetIn, LoginAccepted, LoginRefused, Takes, AirOK, IInv
<1>3. FileOK(s_contacts') /\ next_client_idx' \in Idx /\ dirty' \in BOOLEAN
  BY DEF LoginLetIn, LoginAccepted, LoginRefused, IInv, TypeOK, contacts
<1>4. Quiet
  <2>1. TypeOK /\ last_unique \in Nat /\ clock \in Nat
    BY DEF IInv, TypeOK
  <2>2. Unique(last_unique) \in Nat /\ last_unique <= Unique(last_unique)
    BY <2>1, UniqueGrows
  <2> QED BY <2>1, <2>2 DEF LoginLetIn, LoginAccepted, LoginRefused, Quiet, devices
<1>5. ListOK(clients', num_clients')
  <2> DEFINE cs == PutClient(clients, m.from)
             n == CountWith(clients, m.from)
             i == SlotFor(clients, m.from)
  <2>1. ListOK(cs, n) /\ i \in Idx /\ cs[i].id = m.from
    BY <1>1, PutKeepsList DEF IInv
  <2>2. CASE LoginLetIn(m)
    BY <2>2 DEF LoginLetIn, IInv
  <2>3. CASE LoginRefused(m)
    BY <2>1, <2>3 DEF LoginRefused
  <2>4. CASE LoginAccepted(m)
    <3>1. clients' = [cs EXCEPT ![i] = LoggedIn(cs[i], m)] /\ num_clients' = n
      BY <2>4 DEF LoginAccepted
    <3> DEFINE e == LoggedIn(cs[i], m)
    <3>2. EntryOK(e) /\ e.id \in Device
      <4> HIDE DEF cs, i
      <4>1. EntryOK(cs[i])
        BY <2>1 DEF ListOK
      <4> QED BY <1>1, <2>1, <4>1, LoggedInEntry DEF IInv
    <3> HIDE DEF cs, n, i, e
    <3>3. ListOK([cs EXCEPT ![i] = e], n)
      BY <2>1, <3>2, SetEntry
    <3> QED BY <3>1, <3>3 DEF e
  <2> QED BY <2>2, <2>3, <2>4
<1> QED BY <1>2, <1>3, <1>4, <1>5 DEF QuietStep

(* A message of a client that is known and not older than its last.           *)
LEMMA FreshMessage ==
  ASSUME IInv, NEW m \in air, m.kind \in FromDevice, Fresh(m)
  PROVE  /\ TypeOK /\ last_unique \in Nat /\ clock \in Nat /\ MessageOK(m)
         /\ ListOK(clients, num_clients)
         /\ m.from \in Device /\ m.time \in Nat /\ Known(clients, m.from)
BY DEF IInv, TypeOK, AirOK, MessageOK, Fresh

LEMMA CommandStep ==
  ASSUME IInv, HandleCommand, UNCHANGED <<devices, ahead>>
  PROVE  QuietStep
<1> DEFINE now == Unique(last_unique)
<1> PICK m \in Received("command") : HandleCommand!(m)
  BY DEF HandleCommand
<1>1. m \in air /\ m.kind \in FromDevice /\ m.kind = "command" /\ Fresh(m)
  BY DEF Received, FromDevice
<1>2. /\ TypeOK /\ last_unique \in Nat /\ clock \in Nat /\ MessageOK(m)
      /\ m.from \in Device /\ m.time \in Nat /\ Known(clients, m.from)
      /\ ListOK(clients, num_clients)
  BY <1>1, FreshMessage
<1>3. now \in Nat /\ last_unique <= now
  BY <1>2, UniqueGrows
<1> HIDE DEF now
<1>4. ListOK(Active(m, now), num_clients)
  BY <1>2, <1>3, ActiveList
<1>5. m.target \in Device /\ m.perm \in 0 .. 3
  BY <1>1, <1>2 DEF MessageOK
<1>6. ListOK(clients', num_clients') /\ dirty' \in BOOLEAN
  <2>1. CASE SetPerm(Active(m, now), m.target, m.perm)
    <3> DEFINE cs == Active(m, now)
    <3> HIDE DEF cs
    <3>1. ListOK(cs, num_clients) /\ SetPerm(cs, m.target, m.perm)
      BY <1>4, <2>1 DEF cs
    <3> QED BY <1>2, <1>5, <3>1, SetPermList DEF IInv
  <2>2. CASE clients' = Active(m, now) /\ UNCHANGED <<num_clients, dirty>>
    BY <1>2, <1>4, <2>2 DEF TypeOK
  <2> QED BY <2>1, <2>2 DEF now
<1>7. Quiet
  BY <1>2, <1>3 DEF Quiet, devices, now
<1>8. AirOK(air') /\ FileOK(s_contacts') /\ next_client_idx' \in Idx
  BY DEF Takes, AirOK, IInv, TypeOK
<1> QED BY <1>6, <1>7, <1>8 DEF QuietStep

LEMMA RequestStep ==
  ASSUME IInv, HandleRequest, UNCHANGED <<devices, ahead>>
  PROVE  QuietStep
<1> PICK m \in Received("request") : HandleRequest!(m)
  BY DEF HandleRequest
<1>1. m \in air /\ m.kind \in FromDevice /\ Fresh(m)
  BY DEF Received, FromDevice
<1>2. /\ TypeOK /\ last_unique \in Nat /\ clock \in Nat
      /\ m.from \in Device /\ m.time \in Nat /\ Known(clients, m.from)
      /\ ListOK(clients, num_clients)
  BY <1>1, FreshMessage
<1>3. ListOK(clients', num_clients')
  BY <1>2, ActiveList
<1>4. Quiet
  BY <1>2 DEF Quiet, devices
<1>5. AirOK(air') /\ FileOK(s_contacts') /\ next_client_idx' \in Idx /\ dirty' \in BOOLEAN
  BY DEF Takes, AirOK, IInv, TypeOK, contacts
<1> QED BY <1>3, <1>4, <1>5 DEF QuietStep

LEMMA KeepAliveStep ==
  ASSUME IInv, HandleKeepAlive, UNCHANGED <<devices, ahead>>
  PROVE  QuietStep
<1> PICK m \in Received("keepalive") : HandleKeepAlive!(m)
  BY DEF HandleKeepAlive
<1>1. m \in air /\ m.kind = "keepalive" /\ m.kind \in FromDevice /\ Fresh(m)
  BY DEF Received, FromDevice
<1>2. /\ TypeOK /\ last_unique \in Nat /\ clock \in Nat /\ MessageOK(m)
      /\ m.from \in Device /\ m.time \in Nat /\ Known(clients, m.from)
      /\ ListOK(clients, num_clients)
  BY <1>1, FreshMessage
<1>3. ListOK(clients', num_clients')
  <2> DEFINE i == At(clients, m.from)
             cs == Active(m, clock)
             e == Resynced(cs[i], m)
  <2>1. ListOK(cs, num_clients) /\ i \in Idx /\ cs[i].id = m.from /\ EntryOK(cs[i])
    BY <1>2, ActiveList
  <2>2. Claim(m.from, m.since)
    BY <1>1, <1>2 DEF MessageOK
  <2>3. clients' = [cs EXCEPT ![i] = e] /\ num_clients' = num_clients
    OBVIOUS
  <2> HIDE DEF cs, i
  <2>4. EntryOK(e) /\ e.id \in Device
    BY <1>2, <2>1, <2>2, ResyncedEntry
  <2> HIDE DEF e
  <2>5. ListOK([cs EXCEPT ![i] = e], num_clients)
    BY <2>1, <2>4, SetEntry
  <2> QED BY <2>3, <2>5
<1>4. Quiet
  BY <1>2 DEF Quiet, devices
<1>5. AirOK(air') /\ FileOK(s_contacts') /\ next_client_idx' \in Idx /\ dirty' \in BOOLEAN
  BY DEF Takes, AirOK, IInv, TypeOK, contacts
<1> QED BY <1>3, <1>4, <1>5 DEF QuietStep

LEMMA AckStep ==
  ASSUME IInv, HandleAck, UNCHANGED <<devices, ahead>>
  PROVE  QuietStep
<1> PICK m \in Received("ack"), path \in ByPath : HandleAck!(m, path)
  BY DEF HandleAck
<1>1. m \in air /\ m.from \in Device /\ m.ack # << >> /\ Claim(m.from, m.ack[1])
  BY DEF Received, IInv, AirOK, MessageOK
<1>2. TypeOK /\ clock \in Nat /\ last_unique \in Nat /\ ListOK(clients, num_clients)
  BY DEF IInv, TypeOK
<1>3. \A i \in Idx : EntryOK(Credited(i, m)) /\ Credited(i, m).id = clients[i].id
  <2> TAKE i \in Idx
  <2>1. EntryOK(clients[i])
    BY <1>2 DEF ListOK
  <2>2. CASE i \in Awaiting(m)
    <3>1. clients[i].id = m.from /\ clients[i].pending_ack = m.ack
      BY <2>2 DEF Awaiting, Places
    <3> QED BY <1>1, <2>1, <2>2, <3>1, SyncedEntry DEF Credited
  <2>3. CASE i \notin Awaiting(m)
    BY <2>1, <2>3 DEF Credited
  <2> QED BY <2>2, <2>3
<1>4. \A i \in Idx : EntryOK(clients'[i]) /\ clients'[i].id = clients[i].id
  BY <1>2, <1>3, HeardEntry
<1>5. clients' = [i \in Idx |-> clients'[i]]
  OBVIOUS
<1>6. ListOK(clients', num_clients')
  BY <1>2, <1>4, <1>5, MapList
<1>7. Quiet
  BY <1>2 DEF Quiet, devices
<1>8. AirOK(air') /\ FileOK(s_contacts') /\ next_client_idx' \in Idx /\ dirty' \in BOOLEAN
  BY DEF Takes, AirOK, IInv, TypeOK, contacts
<1> QED BY <1>6, <1>7, <1>8 DEF QuietStep

LEMMA OtherStep ==
  ASSUME IInv, Stale \/ Lose \/ Tick, UNCHANGED <<devices, ahead>>
  PROVE  QuietStep
<1>1. /\ UNCHANGED <<posts, next_post_idx, clients, num_clients, next_client_idx,
                     last_unique, contacts>>
      /\ clock' \in Nat /\ clock <= clock' /\ air' \subseteq air
  BY RoomConstants DEF Stale, Lose, Tick, Takes, server, IInv, TypeOK
<1>2. Quiet
  BY <1>1 DEF Quiet, devices, IInv, TypeOK
<1>3. AirOK(air')
  BY <1>1 DEF AirOK, IInv
<1> QED BY <1>1, <1>2, <1>3 DEF QuietStep, IInv, TypeOK, contacts

------------------------------------------------------------------------
(* The ring.                                                                *)
LEMMA ModOnce ==
  ASSUME NEW a \in Nat, NEW b \in Nat \ {0}, a < 2 * b
  PROVE  a % b = IF a < b THEN a ELSE a - b
OBVIOUS

LEMMA RingPlaces ==
  ASSUME TypeOK
  PROVE  /\ \A k \in PostIdx : (next_post_idx + k) % MaxPosts \in PostIdx
         /\ \A i \in PostIdx : \E k \in PostIdx : posts[i] = InRing(k)
<1>1. MaxPosts \in Nat \ {0} /\ next_post_idx \in 0 .. MaxPosts - 1
  BY RoomConstants DEF TypeOK, PostIdx
<1>2. \A k \in PostIdx : (next_post_idx + k) % MaxPosts =
         IF next_post_idx + k < MaxPosts THEN next_post_idx + k ELSE next_post_idx + k - MaxPosts
  <2> TAKE k \in PostIdx
  <2> DEFINE a == next_post_idx + k
  <2>1. a \in Nat /\ a < 2 * MaxPosts
    BY <1>1 DEF PostIdx
  <2> HIDE DEF a
  <2>2. a % MaxPosts = IF a < MaxPosts THEN a ELSE a - MaxPosts
    BY <1>1, <2>1, ModOnce
  <2> QED BY <1>1, <2>1, <2>2 DEF a, PostIdx
<1>3. ASSUME NEW i \in PostIdx
      PROVE  \E k \in PostIdx : posts[i] = InRing(k)
  <2> DEFINE k == IF i < next_post_idx THEN i - next_post_idx + MaxPosts ELSE i - next_post_idx
  <2>1. k \in PostIdx /\ (next_post_idx + k) % MaxPosts = i
    BY <1>1, <1>2 DEF PostIdx
  <2> QED BY <2>1 DEF InRing
<1>4. \A k \in PostIdx : (next_post_idx + k) % MaxPosts \in PostIdx
  BY <1>1, <1>2 DEF PostIdx
<1> QED BY <1>3, <1>4

LEMMA FirstUnsynced ==
  ASSUME NEW e, Unsynced(e) # {}
  PROVE  First(Unsynced(e)) \in Unsynced(e) /\ \A j \in Unsynced(e) : First(Unsynced(e)) <= j
<1>1. Unsynced(e) \in SUBSET Nat
  BY DEF Unsynced, PostIdx
<1>2. \E x \in Unsynced(e) : \A y \in Unsynced(e) : x <= y
  BY <1>1, HasLeast
<1> QED BY <1>2 DEF First

LEMMA FirstCompletes ==
  ASSUME TypeOK, RingOK, NEW e, EntryOK(e), e.id \in Device, Unsynced(e) # {}
  PROVE  LET p == InRing(First(Unsynced(e))) IN
         Completes(p.post, e.id, p.ts) /\ e.sync_since < p.ts /\ p.ts \in Nat /\ Past(p.ts)
<1> DEFINE U == Unsynced(e)
           k == First(U)
           p == InRing(k)
<1>1. U \in SUBSET Nat /\ U \subseteq PostIdx
  BY DEF Unsynced, PostIdx
<1>3. k \in U /\ \A y \in U : k <= y
  BY FirstUnsynced
<1>4. \A j \in PostIdx : InRing(j).ts \in Nat /\ InRing(j) \in {posts[i] : i \in PostIdx}
  BY RingPlaces DEF InRing, TypeOK
<1>5. e.sync_since \in Nat /\ clock \in Nat /\ PostSyncDelay \in Nat
  BY RoomConstants DEF EntryOK, Client, TypeOK
<1>6. k \in PostIdx /\ p.ts > e.sync_since /\ clock >= p.ts + PostSyncDelay
  BY <1>1, <1>3 DEF Unsynced
<1>7. p.ts \in Nat /\ p.post \in Post /\ Past(p.ts)
  BY <1>4, <1>5, <1>6 DEF RingOK
<1>8. ASSUME NEW r \in Stored, Author[r.post] # e.id, e.id \notin ahead
      PROVE  /\ r.ts < p.ts => r.post \in seen[e.id]
             /\ r.ts = p.ts => r.post = p.post
  <2>1. PICK j \in PostIdx : r = InRing(j)
    BY RingPlaces DEF Stored
  <2>2. r.ts \in Nat /\ r.ts # 0
    BY <1>4, <2>1 DEF Stored
  <2>3. r.ts <= e.sync_since => r.post \in seen[e.id]
    BY <1>8 DEF EntryOK, Claim, Covered
  <2>4. r.ts > e.sync_since /\ r.ts <= p.ts => j \in U
    BY <1>5, <1>6, <1>7, <1>8, <2>1, <2>2 DEF Unsynced
  <2>5. r.ts > e.sync_since /\ r.ts <= p.ts => k = j \/ k < j
    BY <1>1, <1>3, <2>4
  <2>6. k < j => p.ts < r.ts
    BY <1>5, <1>6, <1>7, <2>1, <2>2 DEF RingOK
  <2> HIDE DEF U, k, p
  <2>7. k = j => r = p
    BY <2>1 DEF p
  <2> QED BY <1>5, <1>6, <1>7, <2>2, <2>3, <2>5, <2>6, <2>7
<1>9. Completes(p.post, e.id, p.ts)
  <2> HIDE DEF U, k, p
  <2> QED BY <1>7, <1>8 DEF Completes
<1> QED BY <1>6, <1>7, <1>9

LEMMA CheckedList ==
  ASSUME IInv, NEW late \in SUBSET Waiting
  PROVE  ListOK(Checked(late), num_clients)
<1>1. ListOK(clients, num_clients)
  BY DEF IInv
<1>2. \A i \in Idx : /\ EntryOK(Checked(late)[i])
                     /\ Checked(late)[i].id = clients[i].id
  BY <1>1, TimedOutEntry DEF Checked, Waiting, ListOK
<1>3. Checked(late) = [i \in Idx |-> Checked(late)[i]] /\ DOMAIN Checked(late) = Idx
  BY DEF Checked
<1> QED BY <1>1, <1>2, <1>3, MapList

(* What is left of a turn after the entry of the client was pushed to.        *)
LEMMA TurnStep ==
  ASSUME IInv, UNCHANGED <<devices, ahead>>, LoopTurn, ListOK(clients', num_clients), AirOK(air')
  PROVE  QuietStep
<1>1. num_clients \in 1 .. MaxClients /\ next_client_idx \in Nat
  BY RoomConstants DEF IInv, TypeOK, LoopTurn, Idx
<1>2. next_client_idx' \in 0 .. num_clients - 1
  BY <1>1 DEF LoopTurn, NextClient
<1>3. next_client_idx' \in Idx
  BY <1>1, <1>2, RoomConstants DEF Idx
<1>4. Quiet
  BY DEF Quiet, LoopTurn, devices, IInv, TypeOK
<1> QED BY <1>3, <1>4 DEF QuietStep, LoopTurn, IInv, TypeOK, contacts

LEMMA LoopStep ==
  ASSUME IInv, NEW late \in SUBSET Waiting, Loop(late), UNCHANGED <<devices, ahead>>
  PROVE  QuietStep
<1> DEFINE cs == Checked(late)
           i == next_client_idx
           e == cs[i]
           p == InRing(First(Unsynced(e)))
<1>1. ListOK(cs, num_clients)
  BY CheckedList
<1>2. i \in Idx /\ EntryOK(e)
  BY <1>1 DEF IInv, TypeOK, ListOK
<1>3. CASE \E d \in Device : PushTo(late, d)
  <2> PICK d \in Device : PushTo(late, d)
    BY <1>3
  <2>1. LoopTurn /\ MayPush(e) /\ e.id = d
    BY DEF PushTo
  <2>2. PICK attempt \in Attempt :
          /\ clients' = [cs EXCEPT ![i] =
                [e EXCEPT !.pending_ack = <<p.ts, attempt>>, !.push_post_timestamp = p.ts]]
          /\ air' = air \union
               {[kind |-> "push", to |-> d, post |-> p.post, ack |-> <<p.ts, attempt>>]}
    BY DEF PushTo
  <2> DEFINE m == [kind |-> "push", to |-> d, post |-> p.post, ack |-> <<p.ts, attempt>>]
             f == [e EXCEPT !.pending_ack = <<p.ts, attempt>>, !.push_post_timestamp = p.ts]
  <2>3. /\ Completes(p.post, d, p.ts) /\ e.sync_since < p.ts /\ p.ts \in Nat
        /\ e.push_failures < MaxFailures /\ Past(p.ts)
    BY <1>2, <2>1, FirstCompletes DEF IInv, MayPush
  <2> HIDE DEF p, e
  <2>4. <<p.ts, attempt>> \in Ack /\ <<p.ts, attempt>> # << >> /\ <<p.ts, attempt>>[1] = p.ts
    BY <2>3, RoomConstants DEF Ack
  <2>5. e \in Client /\ Past(p.ts) /\ Claim(e.id, e.sync_since)
    BY <1>2, <2>1, <2>3 DEF EntryOK, Completes
  <2>6. f \in Client
    BY <2>3, <2>4, <2>5 DEF Client
  <2>7. /\ f.id = d /\ f.sync_since = e.sync_since /\ f.pending_ack = <<p.ts, attempt>>
        /\ f.push_post_timestamp = p.ts /\ f.push_failures = e.push_failures
    BY <2>1, <2>5 DEF Client
  <2>8. MessageOK(m)
    BY <2>3, <2>4 DEF MessageOK, FromDevice
  <2>9. AirOK(air')
    BY <2>2, <2>8 DEF AirOK, IInv
  <2> HIDE DEF f, m, cs, i
  <2>10. EntryOK(f)
    BY <2>1, <2>3, <2>4, <2>5, <2>6, <2>7 DEF EntryOK
  <2>11. ListOK([cs EXCEPT ![i] = f], num_clients)
    BY <1>1, <2>7, <2>10, SetEntry
  <2>12. ListOK(clients', num_clients)
    BY <2>2, <2>11 DEF f
  <2> QED BY <2>1, <2>9, <2>12, TurnStep
<1>4. CASE PushFails(late)
  <2> DEFINE f == [e EXCEPT !.push_post_timestamp = p.ts]
  <2>1. LoopTurn /\ MayPush(e) /\ air' = air /\ clients' = [cs EXCEPT ![i] = f]
    BY <1>4 DEF PushFails
  <2>2. p.ts \in Nat
    <3>1. First(Unsynced(e)) \in PostIdx
      BY <2>1, FirstUnsynced DEF MayPush, Unsynced
    <3> QED BY <3>1, RingPlaces DEF IInv, TypeOK, InRing
  <2>3. e \in Client /\ e.pending_ack = << >>
    BY <1>2, <2>1 DEF EntryOK, MayPush
  <2> HIDE DEF p, e
  <2>4. f \in Client
    BY <2>2, <2>3 DEF Client
  <2>5. f.id = e.id /\ f.sync_since = e.sync_since /\ f.pending_ack = << >>
    BY <2>3 DEF Client
  <2> HIDE DEF f
  <2>6. EntryOK(f)
    BY <1>2, <2>4, <2>5 DEF EntryOK
  <2> HIDE DEF cs, i
  <2>7. DOMAIN cs = Idx
    BY <1>1 DEF ListOK
  <2>8. \A j \in Idx : clients'[j] = IF j = i THEN f ELSE cs[j]
    BY <2>1, <2>7
  <2>9. \A j \in Idx : EntryOK(clients'[j]) /\ clients'[j].id = cs[j].id
    BY <1>1, <2>5, <2>6, <2>8 DEF ListOK, e
  <2>10. clients' = [j \in Idx |-> clients'[j]]
    BY <2>1, <2>7
  <2>11. ListOK(clients', num_clients)
    BY <1>1, <2>9, <2>10, MapList
  <2>12. AirOK(air')
    BY <2>1 DEF IInv
  <2> QED BY <2>1, <2>11, <2>12, TurnStep
<1>5. CASE SkipTurn(late)
  BY <1>1, <1>5, TurnStep DEF SkipTurn, IInv
<1> QED BY <1>3, <1>4, <1>5 DEF Loop

------------------------------------------------------------------------
(* A post is later than all claims, and the latest of the ring.              *)
LEMMA PostStep ==
  ASSUME IInv, NEW post \in Post, NEW now \in Nat, last_unique <= now, AddPost(post, now),
         UNCHANGED <<clock, seen, ahead>>
  PROVE  /\ GoesOn /\ RingOK' /\ last_unique' \in Nat /\ next_post_idx' \in PostIdx
         /\ posts' \in [PostIdx -> [post : Post \union {NoPost}, ts : Nat]]
         /\ \A k \in PostIdx : InRing(k)' = IF k = MaxPosts - 1
              THEN [post |-> post, ts |-> Unique(now)] ELSE InRing(k + 1)
         /\ Unique(now) # 0 /\ posts'[next_post_idx].post = post /\ posts' # posts
<1> PICK ts : ts = Unique(now)
  OBVIOUS
<1> DEFINE n == next_post_idx
           M == MaxPosts
<1>1. /\ TypeOK /\ RingOK /\ last_unique \in Nat /\ clock \in Nat /\ n \in 0 .. M - 1
      /\ M \in Nat \ {0}
  BY RoomConstants DEF IInv, TypeOK, PostIdx
<1>2. ts \in Nat /\ now < ts /\ clock <= ts
  BY <1>1, UniqueGrows
<1>3. /\ posts' = [posts EXCEPT ![n] = [post |-> post, ts |-> ts]]
      /\ n' = (n + 1) % M /\ last_unique' = ts
  BY DEF AddPost
<1>4. ~Past(ts) /\ Past(ts)' /\ \A s : Past(s) => Past(s)'
  <2>1. ts > last_unique /\ ts >= clock
    BY <1>1, <1>2
  <2>2. ~Past(ts)
    BY <1>1, <1>2, <2>1 DEF Past
  <2>3. Past(ts)'
    BY <1>2, <1>3 DEF Past
  <2>4. ASSUME NEW s, Past(s)
        PROVE  Past(s)'
    BY <1>1, <1>2, <1>3, <2>1, <2>4 DEF Past
  <2> QED BY <2>2, <2>3, <2>4
<1>5. /\ posts \in [PostIdx -> [post : Post \union {NoPost}, ts : Nat]] /\ n \in PostIdx
      /\ posts' \in [PostIdx -> [post : Post \union {NoPost}, ts : Nat]]
  BY <1>1, <1>2, <1>3 DEF TypeOK
<1>6. \A i \in PostIdx : posts'[i] = IF i = n THEN [post |-> post, ts |-> ts] ELSE posts[i]
  BY <1>3, <1>5
<1>7. GoesOn
  <2>1. ASSUME NEW r \in Stored'
        PROVE  r \in Stored \/ r.ts = ts
    BY <1>6 DEF Stored
  <2>2. seen' = seen
    OBVIOUS
  <2> QED BY <1>2, <1>4, <2>1, <2>2 DEF GoesOn
<1>8. n' = IF n + 1 < M THEN n + 1 ELSE 0
  <2> DEFINE a == n + 1
  <2>1. a \in Nat /\ a < 2 * M
    BY <1>1
  <2> HIDE DEF a, n, M
  <2>2. a % M = IF a < M THEN a ELSE a - M
    BY <1>1, <2>1, ModOnce
  <2> QED BY <1>1, <1>3, <2>1, <2>2 DEF a
<1>9. \A k \in PostIdx : /\ (n + k) % M = IF n + k < M THEN n + k ELSE n + k - M
                        /\ (n' + k) % M = IF n' + k < M THEN n' + k ELSE n' + k - M
  <2> TAKE k \in PostIdx
  <2> DEFINE a == n + k
             b == n' + k
  <2>1. a \in Nat /\ a < 2 * M /\ b \in Nat /\ b < 2 * M /\ k \in Nat
    BY <1>1, <1>8 DEF PostIdx
  <2> HIDE DEF a, b, M
  <2>2. a % M = IF a < M THEN a ELSE a - M
    BY <1>1, <2>1, ModOnce
  <2>3. b % M = IF b < M THEN b ELSE b - M
    BY <1>1, <2>1, ModOnce
  <2>4. (n + k) % M = IF n + k < M THEN n + k ELSE n + k - M
    BY <1>1, <2>1, <2>2 DEF a
  <2>5. (n' + k) % M = IF n' + k < M THEN n' + k ELSE n' + k - M
    BY <1>1, <1>8, <2>1, <2>3 DEF b
  <2> QED BY <2>4, <2>5
<1>10. \A k \in PostIdx : IF k = M - 1 THEN (n' + k) % M = n
         ELSE (n' + k) % M = (n + (k + 1)) % M /\ (n' + k) % M # n /\ (n' + k) % M \in PostIdx
  <2> TAKE k \in PostIdx
  <2>1. k = M - 1 => (n' + k) % M = n
    BY <1>1, <1>8, <1>9 DEF PostIdx
  <2>2. k # M - 1 => k + 1 \in PostIdx
    BY <1>1 DEF PostIdx
  <2>3. k # M - 1 => (n + (k + 1)) % M = IF n + (k + 1) < M THEN n + (k + 1) ELSE n + (k + 1) - M
    BY <1>9, <2>2
  <2>4. (n' + k) % M = IF n' + k < M THEN n' + k ELSE n' + k - M
    BY <1>9
  <2> HIDE DEF n
  <2> QED BY <1>1, <1>8, <2>1, <2>3, <2>4 DEF PostIdx
<1>11. \A k \in PostIdx : InRing(k)' = IF k = M - 1 THEN [post |-> post, ts |-> ts]
                                      ELSE InRing(k + 1)
  BY <1>5, <1>6, <1>10 DEF InRing
<1>12. \A j \in PostIdx : InRing(j).ts \in Nat /\ (InRing(j).ts = 0 \/ InRing(j).ts < ts)
  <2> TAKE j \in PostIdx
  <2>1. PICK i \in PostIdx : InRing(j) = posts[i]
    BY <1>1, RingPlaces DEF InRing
  <2>2. posts[i].ts \in Nat /\ (posts[i].ts # 0 => Past(posts[i].ts))
    BY <1>1, <1>5 DEF RingOK
  <2> QED BY <1>1, <1>2, <2>1, <2>2 DEF Past
<1>13. ASSUME NEW i \in PostIdx
       PROVE  (posts[i].ts # 0 => posts[i].post \in Post /\ Past(posts[i].ts))'
  <2>1. CASE i = n
    <3>1. posts'[i].post = post /\ posts'[i].ts = ts
      BY <1>6, <2>1
    <3> QED BY <1>4, <3>1
  <2>2. CASE i # n
    <3>1. posts'[i] = posts[i]
      BY <1>6, <2>2
    <3>2. posts[i].ts # 0 => posts[i].post \in Post /\ Past(posts[i].ts)
      BY <1>1 DEF RingOK
    <3> QED BY <1>4, <3>1, <3>2
  <2> QED BY <2>1, <2>2
<1>14. \A j, k \in PostIdx : j < k => (InRing(j).ts = 0 \/ InRing(j).ts < InRing(k).ts)'
  <2> TAKE j, k \in PostIdx
  <2> HAVE j < k
  <2>1. j + 1 \in PostIdx /\ InRing(j)' = InRing(j + 1)
    BY <1>1, <1>11 DEF PostIdx
  <2>2. CASE k = M - 1
    BY <1>11, <1>12, <2>1, <2>2
  <2>3. CASE k # M - 1
    <3>1. k + 1 \in PostIdx /\ j + 1 < k + 1 /\ InRing(k)' = InRing(k + 1)
      BY <1>1, <1>11, <2>3 DEF PostIdx
    <3> QED BY <1>1, <2>1, <3>1 DEF RingOK
  <2> QED BY <2>2, <2>3
<1>15. RingOK'
  BY <1>13, <1>14 DEF RingOK
<1>16. n' \in PostIdx
  BY <1>1, <1>8 DEF PostIdx
<1>17. posts'[n].post = post /\ posts'[n].ts = ts
  BY <1>5, <1>6
<1>18. posts' # posts
  BY <1>1, <1>2, <1>4, <1>5, <1>17 DEF RingOK
<1>19. ts # 0
  BY <1>2
<1>20. \A k \in PostIdx : InRing(k)' = IF k = MaxPosts - 1
              THEN [post |-> post, ts |-> Unique(now)] ELSE InRing(k + 1)
  BY <1>11
<1>21. Unique(now) # 0 /\ last_unique' \in Nat
  BY <1>2, <1>3, <1>19
<1> QED BY <1>5, <1>7, <1>15, <1>16, <1>17, <1>18, <1>20, <1>21

LEMMA TextStep ==
  ASSUME IInv, ServerStep(HandleText)
  PROVE  IInv'
<1> DEFINE now == Unique(last_unique)
<1> PICK m \in Received("text") : HandleText!(m)
  BY DEF ServerStep, HandleText
<1>1. m \in air /\ m.kind = "text" /\ m.kind \in FromDevice /\ Fresh(m)
  BY DEF Received, FromDevice
<1>2. /\ TypeOK /\ last_unique \in Nat /\ clock \in Nat /\ MessageOK(m)
      /\ m.from \in Device /\ m.time \in Nat /\ Known(clients, m.from)
      /\ ListOK(clients, num_clients)
  BY <1>1, FreshMessage
<1>3. m.post \in Post
  BY <1>1, <1>2 DEF MessageOK
<1>4. now \in Nat /\ last_unique <= now
  BY <1>2, UniqueGrows
<1>5. ListOK(clients', num_clients')
  <2> HIDE DEF now
  <2>1. ListOK(Active(m, now), num_clients)
    BY <1>2, <1>4, ActiveList
  <2> QED BY <2>1 DEF now
<1>6. AirOK(air')
  <2>1. MessageOK([kind |-> "confirm", post |-> m.post])
    BY <1>3 DEF MessageOK, FromDevice
  <2>2. air' \subseteq air \union {[kind |-> "confirm", post |-> m.post]}
    BY DEF Takes, Answers
  <2> QED BY <2>1, <2>2 DEF AirOK, IInv
<1>7. FileOK(s_contacts') /\ next_client_idx' \in Idx /\ dirty' \in BOOLEAN /\ MarksOK(mark')
  BY DEF IInv, TypeOK, contacts, ServerStep, devices
<1>8. CASE last_unique' = now /\ UNCHANGED <<posts, next_post_idx>>
  <2>1. QuietStep
    BY <1>2, <1>4, <1>5, <1>6, <1>7, <1>8 DEF QuietStep, Quiet, ServerStep, devices
  <2> QED BY <1>8, <2>1, QuietServer DEF ServerStep, IInv, TypeOK
<1>9. CASE AddPost(m.post, now)
  <2> HIDE DEF now
  <2>1. /\ GoesOn /\ RingOK' /\ last_unique' \in Nat /\ next_post_idx' \in PostIdx
        /\ posts' \in [PostIdx -> [post : Post \union {NoPost}, ts : Nat]]
    BY <1>3, <1>4, <1>9, PostStep DEF ServerStep, devices
  <2>2. ListOK(clients, num_clients)' /\ FileOK(s_contacts)' /\ MarksOK(mark)' /\ AirOK(air)'
    BY <1>2, <1>5, <1>6, <1>7, <2>1, ListKept, FileKept, MarksKept, AirKept
  <2>3. log' \in Seq(Post) /\ gone' \in 0 .. Len(log')
    <3>1. next_post_idx \in PostIdx /\ log \in Seq(Post) /\ gone \in 0 .. Len(log)
      BY <1>2 DEF TypeOK
    <3>2. posts'[next_post_idx].post = m.post
      BY <1>2, <1>9, <3>1 DEF AddPost, TypeOK
    <3>3. log' = log \/ log' = Append(log, m.post)
      BY <3>2 DEF ServerStep
    <3>4. gone' = gone
      BY DEF ServerStep
    <3> QED BY <1>3, <3>1, <3>3, <3>4
  <2>4. TypeOK'
    BY <1>2, <1>5, <1>7, <2>1, <2>3 DEF TypeOK, ServerStep, devices, ListOK, contacts
  <2> QED BY <2>1, <2>2, <2>4 DEF IInv
<1> QED BY <1>8, <1>9

LEMMA HandleStep ==
  ASSUME IInv, ServerStep(ServerNext)
  PROVE  IInv'
<1>1. CASE HandleText
  BY <1>1, TextStep DEF ServerStep
<1>2. CASE ~HandleText
  <2>1. QuietStep
    BY <1>2, LoginStep, CommandStep, RequestStep, KeepAliveStep, AckStep, OtherStep, LoopStep
    DEF ServerStep, ServerNext, Handle
  <2>2. log' = log
    BY <2>1 DEF QuietStep, Quiet, ServerStep
  <2>3. dropped' \subseteq Device
    BY DEF ServerStep, IInv, TypeOK
  <2> QED BY <2>1, <2>2, <2>3, QuietServer DEF ServerStep
<1> QED BY <1>1, <1>2

------------------------------------------------------------------------
(* The saved list.                                                          *)
LEMMA SavedList ==
  ASSUME IInv, NEW f \in InOrder(Admins), NEW n \in 0 .. Cardinality(Admins)
  PROVE  FileOK(SavedUpTo(f, n)) /\ Len(SavedUpTo(f, n)) = n
<1>1. num_clients \in 0 .. MaxClients /\ MaxClients \in Nat
  BY RoomConstants DEF IInv, TypeOK
<1>2. /\ IsFiniteSet(Admins) /\ Cardinality(Admins) \in Nat
      /\ Cardinality(Admins) <= num_clients /\ Admins \subseteq 0 .. num_clients - 1
  <2>1. IsFiniteSet(0 .. num_clients - 1) /\ Cardinality(0 .. num_clients - 1) = num_clients
    BY <1>1, FS_Interval
  <2> QED BY <2>1, FS_Subset, FS_CardinalityType DEF Admins
<1>3. f \in [1 .. Cardinality(Admins) -> Admins]
  BY DEF InOrder
<1>4. ASSUME NEW k \in 1 .. n
      PROVE  /\ SavedUpTo(f, n)[k] \in Saved
             /\ Claim(SavedUpTo(f, n)[k].id, SavedUpTo(f, n)[k].sync_since)
  <2>1. f[k] \in 0 .. num_clients - 1 /\ f[k] \in Idx
    <3>1. k \in 1 .. Cardinality(Admins)
      BY <1>2
    <3>2. 0 .. num_clients - 1 \subseteq Idx
      BY <1>1, InIdx
    <3> QED BY <1>2, <1>3, <3>1, <3>2
  <2>2. EntryOK(clients[f[k]]) /\ clients[f[k]].id \in Device
    BY <2>1 DEF IInv, ListOK
  <2>3. clients[f[k]] \in Client /\ Claim(clients[f[k]].id, clients[f[k]].sync_since)
    BY <2>2 DEF EntryOK
  <2> QED BY <2>2, <2>3 DEF SavedUpTo, Saved, Client
<1>5. SavedUpTo(f, n) = [k \in 1 .. n |-> SavedUpTo(f, n)[k]] /\ n \in Nat
  BY <1>2 DEF SavedUpTo
<1>6. SavedUpTo(f, n) \in Seq(Saved) /\ Len(SavedUpTo(f, n)) = n
  BY <1>4, <1>5
<1>7. DOMAIN SavedUpTo(f, n) = 1 .. n
  BY <1>5
<1> QED BY <1>1, <1>2, <1>4, <1>6, <1>7 DEF FileOK

LEMMA SaveStep ==
  ASSUME IInv, ServerStep(Save)
  PROVE  IInv'
<1> PICK f \in InOrder(Admins) : s_contacts' = SavedUpTo(f, Len(f))
  BY DEF ServerStep, Save
<1>1. Cardinality(Admins) \in Nat
  <2>1. num_clients \in Nat
    BY DEF IInv, TypeOK
  <2>2. IsFiniteSet(0 .. num_clients - 1)
    BY <2>1, FS_Interval
  <2> QED BY <2>2, FS_Subset, FS_CardinalityType DEF Admins
<1>2. Len(f) = Cardinality(Admins)
  BY <1>1 DEF InOrder
<1>3. FileOK(s_contacts')
  BY <1>1, <1>2, SavedList
<1>4. QuietStep
  <2>1. /\ UNCHANGED <<posts, next_post_idx, clients, num_clients, next_client_idx, clock,
                       last_unique, air, seen, ahead>>
        /\ dirty' = FALSE
    BY DEF ServerStep, Save, devices
  <2>2. ListOK(clients', num_clients') /\ AirOK(air') /\ Quiet /\ next_client_idx' \in Idx
    BY <2>1 DEF IInv, TypeOK, Quiet
  <2> QED BY <1>3, <2>1, <2>2 DEF QuietStep
<1>5. log' = log /\ dropped' \subseteq Device
  BY DEF ServerStep, Save, IInv, TypeOK
<1> QED BY <1>4, <1>5, QuietServer DEF ServerStep

LEMMA LoadedList ==
  ASSUME TypeOK, RingOK, NEW f, FileOK(f)
  PROVE  ListOK(Loaded(f), Len(f))
<1>1. f \in Seq(Saved) /\ Len(f) \in 0 .. MaxClients
  BY RoomConstants DEF FileOK
<1>2. EntryOK(Entry(Nobody))
  <2>1. Past(0) /\ Nobody \notin Device
    BY RoomConstants DEF Past, TypeOK
  <2> QED BY <2>1 DEF EntryOK, Entry, Client, Guest, MaxFailures, Ack
<1>3. ASSUME NEW i \in Idx, i < Len(f)
      PROVE  EntryOK(Loaded(f)[i]) /\ Loaded(f)[i].id \in Device
  <2> DEFINE r == f[i + 1]
             e == [Entry(r.id) EXCEPT !.permissions = r.permissions, !.sync_since = r.sync_since]
  <2>1. i + 1 \in DOMAIN f /\ Loaded(f)[i] = e
    BY <1>1, <1>3 DEF Loaded, Idx
  <2>2. r \in Saved /\ Claim(r.id, r.sync_since)
    BY <1>1, <2>1, SavedEntries DEF FileOK
  <2>3. r.id \in Device /\ r.permissions \in 0 .. 3 /\ r.sync_since \in Nat
    BY <2>2 DEF Saved
  <2> HIDE DEF r
  <2>4. EntryOK(Entry(r.id))
    BY <2>3, NewEntry
  <2>5. e \in Client /\ e.id = r.id /\ e.sync_since = r.sync_since /\ e.pending_ack = << >>
    BY <2>3, <2>4 DEF EntryOK, Entry, Client
  <2>6. EntryOK(e)
    BY <2>2, <2>5 DEF EntryOK, r
  <2> QED BY <2>1, <2>3, <2>5, <2>6
<1>4. \A i \in Idx : ~(i < Len(f)) => Loaded(f)[i] = Entry(Nobody)
  BY DEF Loaded
<1>5. \A i \in Idx : EntryOK(Loaded(f)[i])
  BY <1>2, <1>3, <1>4
<1>6. Loaded(f) \in [Idx -> Client]
  BY <1>5 DEF EntryOK, Loaded
<1>7. \A i \in 0 .. Len(f) - 1 : i \in Idx /\ i < Len(f)
  BY <1>1, InIdx
<1> QED BY <1>1, <1>3, <1>5, <1>6, <1>7 DEF ListOK

LEMMA LoadedFile ==
  TypeOK /\ RingOK /\ FileOK(s_contacts) => ListOK(Loaded(s_contacts), Len(s_contacts))
BY LoadedList

(* The restart keeps the claims of the devices whose timestamps its clock is  *)
(* past: these are earlier than any post to come.                           *)
LEMMA ServerRestartStep ==
  ASSUME IInv, ServerRestart
  PROVE  IInv'
<1>1. /\ TypeOK /\ RingOK /\ Second \in Nat /\ clock' \in Nat /\ last_unique' = 0
      /\ ahead' = ahead \union NotBefore(clock')
  BY RoomConstants DEF IInv, TypeOK, ServerRestart, Restarts, StartOfClock
<1>2. /\ posts' = [i \in PostIdx |-> [post |-> NoPost, ts |-> 0]] /\ next_post_idx' = 0
      /\ next_client_idx' = 0 /\ dirty' = FALSE /\ air' = air /\ seen' = seen /\ mark' = mark
  BY DEF ServerRestart, Restarts
<1>3. PICK file : /\ file \in {s_contacts} \union
                      { SavedUpTo(f, n) : f \in InOrder(Admins),
                          n \in {k \in 0 .. Cardinality(Admins) : dirty} }
                  /\ s_contacts' = file /\ clients' = Loaded(file) /\ num_clients' = Len(file)
  BY DEF ServerRestart, Restarts
<1>4. FileOK(file)
  BY <1>3, SavedList DEF IInv
<1>5. ListOK(clients', num_clients') /\ FileOK(s_contacts')
  BY <1>1, <1>3, <1>4, LoadedList
<1>6. Stored' = {}
  BY <1>2 DEF Stored
<1>7. ASSUME NEW d \in Device, NEW s \in Nat, d \in ahead' \/ s < clock'
      PROVE  Claim(d, s)'
  BY <1>6, <1>7 DEF Claim, Past, Covered
<1>8. MarksOK(mark)'
  <2>1. \A d \in Device : mark[d] \in Nat /\ (mark[d] < clock' \/ d \in ahead')
    BY <1>1 DEF NotBefore, TypeOK
  <2> QED BY <1>1, <1>2, <1>7, <2>1 DEF MarksOK, TypeOK
<1>13. FileOK(s_contacts)'
  <2>1. file \in Seq(Saved) /\ Len(file) <= MaxClients
    BY <1>4 DEF FileOK
  <2>2. ASSUME NEW k \in DOMAIN file
        PROVE  Claim(file[k].id, file[k].sync_since)'
    <3>1. file[k].id \in Device /\ file[k].sync_since \in Nat
      BY <2>1, SavedEntries DEF Saved
    <3>2. file[k].sync_since < clock' \/ file[k].id \in ahead'
      BY <1>1, <1>3, <3>1 DEF NotBefore
    <3> QED BY <1>7, <3>1, <3>2
  <2> QED BY <1>3, <2>1, <2>2 DEF FileOK
<1>14. AirOK(air)'
  <2> SUFFICES ASSUME NEW m \in air
               PROVE  MessageOK(m)'
    BY <1>2 DEF AirOK
  <2>1. MessageOK(m)
    BY DEF IInv, AirOK
  <2>2. CASE m.kind \in {"login", "keepalive"}
    <3>1. m.from \in Device /\ m.since \in Nat
      BY <2>1, <2>2 DEF MessageOK, FromDevice, Claim
    <3>2. m.since < clock' \/ m.from \in ahead'
      BY <1>1, <2>2, <3>1 DEF NotBefore
    <3> QED BY <1>7, <2>1, <2>2, <3>1, <3>2 DEF MessageOK, FromDevice
  <2>3. CASE m.kind = "ack"
    <3>1. m.from \in Device /\ m.ack[1] \in Nat
      BY <2>1, <2>3 DEF MessageOK, Claim
    <3>2. m.ack[1] < clock' \/ m.from \in ahead'
      BY <1>1, <2>3, <3>1 DEF NotBefore
    <3> QED BY <1>7, <2>1, <2>3, <3>1, <3>2 DEF MessageOK, FromDevice
  <2>4. CASE m.kind = "push"
    <3>1. m.to \in Device /\ m.ack[1] \in Nat /\ m.post \in Post
      BY <2>1, <2>4 DEF MessageOK, Completes
    <3>2. m.ack[1] < clock' \/ m.to \in ahead'
      BY <1>1, <2>4, <3>1 DEF NotBefore
    <3>3. Completes(m.post, m.to, m.ack[1])'
      BY <1>6, <3>1, <3>2 DEF Completes, Past
    <3> QED BY <2>1, <2>4, <3>3 DEF MessageOK, FromDevice
  <2>5. CASE m.kind \notin {"login", "keepalive", "ack", "push"}
    BY <2>1, <2>5 DEF MessageOK
  <2> QED BY <2>2, <2>3, <2>4, <2>5
<1>9. 0 \in PostIdx /\ 0 \in Idx
  BY RoomConstants DEF PostIdx, Idx
<1>10. TypeOK'
  <2>1. posts' \in [PostIdx -> [post : Post \union {NoPost}, ts : Nat]] /\ next_post_idx' \in PostIdx
    BY <1>2, <1>9
  <2>2. /\ UNCHANGED <<mark, time, sent, seen, confirmed, resent, log, shared>>
        /\ gone' = Len(log) /\ dropped' = Device /\ restarts' = restarts + 1 /\ restarts < MaxRestarts
    BY DEF ServerRestart, MayRestart
  <2>3. gone' \in 0 .. Len(log') /\ restarts' \in 0 .. MaxRestarts
    BY <1>1, <2>2, RoomBounds DEF TypeOK
  <2>4. clock' \in Nat /\ last_unique' \in Nat
    BY <1>1
  <2>6. next_client_idx' \in Idx /\ dirty' \in BOOLEAN
    BY <1>2, <1>9
  <2>5. /\ clients' \in [Idx -> Client] /\ num_clients' \in 0 .. MaxClients
        /\ s_contacts' \in Seq(Saved) /\ Len(s_contacts') <= MaxClients
    BY <1>5 DEF ListOK, FileOK
  <2>7. ahead' \subseteq Device
    BY <1>1 DEF TypeOK, NotBefore
  <2> QED BY <1>1, <2>1, <2>2, <2>3, <2>4, <2>5, <2>6, <2>7 DEF TypeOK
<1>11. RingOK'
  <2>1. ASSUME NEW k \in PostIdx
        PROVE  (next_post_idx' + k) % MaxPosts = k
    <3>1. k \in Nat /\ k < MaxPosts /\ MaxPosts \in Nat \ {0} /\ k < 2 * MaxPosts /\ 0 + k = k
      BY RoomConstants DEF PostIdx
    <3> QED BY <1>2, <3>1, ModOnce
  <2> QED BY <1>2, <2>1 DEF RingOK, InRing
<1>12. ListOK(clients, num_clients)'
  <2>1. ListOK(Loaded(s_contacts), Len(s_contacts))'
    BY <1>10, <1>11, <1>13, LoadedFile, PTL
  <2> QED BY <1>3, <2>1
<1> QED BY <1>8, <1>10, <1>11, <1>12, <1>13, <1>14 DEF IInv

------------------------------------------------------------------------
(* The devices.                                                             *)
LEMMA DeviceKeeps ==
  ASSUME IInv, UNCHANGED <<server, seen, log, gone, dropped, ahead>>, shared' \subseteq Post, MarksOK(mark'), AirOK(air'),
         time' \in [Device -> Nat], sent' \in [Post -> Nat], confirmed' \subseteq Post,
         resent' \subseteq Post, restarts' \in 0 .. MaxRestarts
  PROVE  IInv'
<1>1. Quiet
  BY DEF Quiet, server, IInv, TypeOK
<1>2. GoesOn /\ RingOK'
  BY <1>1, QuietGoesOn DEF IInv
<1>3. ListOK(clients', num_clients') /\ FileOK(s_contacts')
  BY DEF IInv, server, contacts
<1>4. ListOK(clients, num_clients)' /\ FileOK(s_contacts)' /\ MarksOK(mark)' /\ AirOK(air)'
  BY <1>2, <1>3, ListKept, FileKept, MarksKept, AirKept DEF IInv
<1>5. TypeOK'
  BY DEF IInv, TypeOK, server, contacts, MarksOK
<1> QED BY <1>2, <1>4, <1>5 DEF IInv

LEMMA SendStep ==
  ASSUME IInv, NEW d \in Device, NEW m, NEW S \in SUBSET Post, NEW now \in Nat,
         Sends(d, m, S, now), MessageOK(m), sent' \in [Post -> Nat]
  PROVE  IInv'
<1>1. time' \in [Device -> Nat] /\ shared' \subseteq Post
  BY DEF Sends, TextsAt, IInv, TypeOK
<1>2. AirOK(air')
  BY DEF Sends, AirOK, IInv
<1>3. MarksOK(mark')
  BY DEF Sends, IInv
<1> QED BY <1>1, <1>2, <1>3, DeviceKeeps DEF Sends, IInv, TypeOK

LEMMA DeviceMessages ==
  ASSUME IInv, NEW d \in Device
  PROVE  time[d] + 1 \in Nat /\ Claim(d, mark[d])
BY DEF IInv, TypeOK, MarksOK

(* The post that arrives completes what the client has up to its time.        *)
LEMMA ReceiveStep ==
  ASSUME IInv, NEW d \in Device, ReceivePush(d)
  PROVE  IInv'
<1> PICK m \in Received("push") : ReceivePush(d)!(m)
  BY DEF ReceivePush
<1> DEFINE s == m.ack[1]
           a == [kind |-> "ack", from |-> d, ack |-> m.ack]
<1>1. m \in air /\ MessageOK(m) /\ m.to = d /\ m.ack # << >> /\ Completes(m.post, d, s)
  BY DEF Received, IInv, AirOK, MessageOK
<1>2. /\ TypeOK /\ s \in Nat /\ m.post \in Post /\ mark \in [Device -> Nat]
      /\ seen \in [Device -> SUBSET Post] /\ (d \notin ahead => Past(s))
  BY <1>1 DEF Completes, IInv, TypeOK
<1>3. seen' = [seen EXCEPT ![d] = @ \union {m.post}]
  OBVIOUS
<1>4. GoesOn
  <2>1. Stored' = Stored /\ \A x : Past(x)' = Past(x)
    BY DEF Stored, Past, server
  <2>2. \A c \in Device : seen[c] \subseteq seen'[c]
    BY <1>2, <1>3
  <2> QED BY <2>1, <2>2 DEF GoesOn
<1>5. Claim(d, s)'
  <2>1. Stored' = Stored
    BY DEF Stored, server
  <2>2. ASSUME d \notin ahead
        PROVE  \A r \in Stored : r.ts <= s /\ Author[r.post] # d => r.post \in seen'[d]
    BY <1>1, <1>2, <1>3, <2>2, StoredTyped DEF Completes
  <2> QED BY <1>2, <1>4, <2>1, <2>2 DEF Claim, Covered, GoesOn
<1>6. MarksOK(mark)'
  <2>1. mark' \in [Device -> Nat] /\ \A c \in Device : mark'[c] = mark[c] \/ (c = d /\ mark'[c] = s)
    BY <1>2
  <2>2. \A c \in Device : Claim(c, mark[c])
    BY DEF IInv, MarksOK
  <2> QED BY <1>2, <1>4, <1>5, <2>1, <2>2, ClaimKept DEF MarksOK
<1>7. AirOK(air)'
  <2>1. MessageOK(a)'
    BY <1>1, <1>5 DEF MessageOK, FromDevice
  <2>2. air' \subseteq air \union {a}
    BY DEF Answers
  <2> QED BY <1>2, <1>4, <2>1, <2>2, MessageKept DEF AirOK, IInv
<1>8. ListOK(clients', num_clients') /\ FileOK(s_contacts')
  BY DEF IInv, server, contacts
<1>9. ListOK(clients, num_clients)' /\ FileOK(s_contacts)'
  BY <1>2, <1>4, <1>8, ListKept, FileKept
<1>10. RingOK'
  <2>1. \A k : InRing(k)' = InRing(k)
    BY DEF InRing, server
  <2>2. UNCHANGED posts /\ \A x : Past(x)' = Past(x)
    BY DEF server, Past
  <2> QED BY <2>1, <2>2 DEF RingOK, IInv
<1>11. TypeOK'
  <2>1. mark' \in [Device -> Nat] /\ seen' \in [Device -> SUBSET Post]
    BY <1>2, <1>3
  <2> QED BY <1>2, <2>1 DEF TypeOK, server, contacts
<1> QED BY <1>6, <1>7, <1>9, <1>10, <1>11 DEF IInv

(* A restart may find an older mark, which claims less.                      *)
LEMMA RestartStep ==
  ASSUME IInv, NEW d \in Device, Restart(d)
  PROVE  IInv'
<1> PICK s \in EarlierMarks(d) : mark' = [mark EXCEPT ![d] = s]
  BY DEF Restart
<1>1. /\ TypeOK /\ mark \in [Device -> Nat] /\ Claim(d, mark[d]) /\ s < mark[d] /\ s \in Nat
      /\ last_unique \in Nat /\ clock \in Nat
  <2>1. TypeOK /\ Claim(d, mark[d])
    BY DEF IInv, MarksOK
  <2>2. /\ mark \in [Device -> Nat]
        /\ last_unique \in Nat /\ clock \in Nat
    BY <2>1 DEF TypeOK
  <2>3. /\ s \in {0} \union { r.ts : r \in { q \in Stored : Author[q.post] # d } }
        /\ s < mark[d]
    BY DEF EarlierMarks
  <2>4. \A r \in Stored : r.ts \in Nat
    BY <2>1, StoredTyped
  <2>5. s \in Nat
    BY <2>3, <2>4
  <2> QED BY <2>1, <2>2, <2>3, <2>5
<1>2. Claim(d, s)
  BY <1>1, StoredTyped DEF Claim, Covered, Past
<1>3. MarksOK(mark')
  BY <1>1, <1>2 DEF MarksOK, IInv
<1>4. AirOK(air')
  BY DEF Restart, IInv
<1>5. restarts' \in 0 .. MaxRestarts
  BY RoomBounds DEF Restart, IInv, TypeOK
<1> QED BY <1>3, <1>4, <1>5, DeviceKeeps DEF Restart, IInv, TypeOK

(* What is needed of a text's timestamp.                                     *)
LEMMA TextIsSent ==
  ASSUME TypeOK, NEW p \in Post, SendText(p)
  PROVE  \E t \in Nat, now \in Nat :
           /\ 0 < t /\ t <= now + 1 /\ time[Author[p]] <= now /\ (now = time[Author[p]] \/ now = t)
           /\ t <= time[Author[p]] + 1 /\ sent[p] = 0
           /\ Sends(Author[p], [kind |-> "text", from |-> Author[p], time |-> t, post |-> p],
                    {p}, now)
           /\ sent' = [sent EXCEPT ![p] = t]
<1> DEFINE d == Author[p]
<1>1. time[d] \in Nat
  BY RoomConstants DEF TypeOK
<1>2. PICK t \in (IF p \in Sharing THEN 1 ELSE time[d] + 1) .. time[d] + 1 :
        /\ \E now \in (IF p \in Sharing THEN {time[d], t} ELSE {t}) :
             /\ now >= time[d]
             /\ Sends(d, [kind |-> "text", from |-> d, time |-> t, post |-> p], {p}, now)
        /\ sent' = [sent EXCEPT ![p] = t] /\ sent[p] = 0
  BY DEF SendText
<1>3. PICK now \in (IF p \in Sharing THEN {time[d], t} ELSE {t}) :
        /\ now >= time[d]
        /\ Sends(d, [kind |-> "text", from |-> d, time |-> t, post |-> p], {p}, now)
  BY <1>2
<1>4. t \in Nat /\ 0 < t /\ t <= time[d] + 1
  BY <1>1, <1>2
<1>5. now = time[d] \/ now = t
  BY <1>3
<1> HIDE DEF d
<1>6. now \in Nat /\ t <= now + 1
  BY <1>1, <1>3, <1>4, <1>5
<1> QED BY <1>2, <1>3, <1>4, <1>5, <1>6 DEF d

LEMMA DeviceStep ==
  ASSUME IInv, DeviceNext
  PROVE  IInv'
<1>1. ASSUME NEW d \in Device, SendLogin(d) \/ SendKeepAlive(d) \/ SendRequest(d)
      PROVE  IInv'
  <2> PICK m : /\ SendsUnique(d, m)
               /\ m \in { [kind |-> k, from |-> d, time |-> time[d] + 1, since |-> mark[d]] :
                         k \in {"login", "keepalive"} }
                    \union { [kind |-> "request", from |-> d, time |-> time[d] + 1] }
    BY <1>1 DEF SendLogin, SendKeepAlive, SendRequest
  <2>1. MessageOK(m) /\ time[d] + 1 \in Nat
    BY DeviceMessages DEF MessageOK, FromDevice
  <2>2. Sends(d, m, {}, time[d] + 1) /\ sent' \in [Post -> Nat]
    BY DEF SendsUnique, IInv, TypeOK
  <2> QED BY <2>1, <2>2, SendStep
<1>2. ASSUME NEW d \in Device, SendCommand(d)
      PROVE  IInv'
  <2> PICK c \in Commands :
        SendsUnique(d, [kind |-> "command", from |-> d, time |-> time[d] + 1,
                        target |-> c[1], perm |-> c[2]])
    BY <1>2 DEF SendCommand
  <2> DEFINE m == [kind |-> "command", from |-> d, time |-> time[d] + 1,
                   target |-> c[1], perm |-> c[2]]
  <2>1. MessageOK(m) /\ time[d] + 1 \in Nat
    BY DeviceMessages, RoomBounds DEF MessageOK, FromDevice
  <2> HIDE DEF m
  <2>2. Sends(d, m, {}, time[d] + 1) /\ sent' \in [Post -> Nat]
    BY DEF m, SendsUnique, IInv, TypeOK
  <2> QED BY <2>1, <2>2, SendStep
<1>3. ASSUME NEW p \in Post, SendText(p)
      PROVE  IInv'
  <2>1. Author[p] \in Device /\ time[Author[p]] \in Nat /\ sent \in [Post -> Nat]
    BY RoomConstants DEF IInv, TypeOK
  <2> DEFINE d == Author[p]
  <2> PICK t \in Nat, now \in Nat :
        /\ Sends(d, [kind |-> "text", from |-> d, time |-> t, post |-> p], {p}, now)
        /\ sent' = [sent EXCEPT ![p] = t]
    <3>1. TypeOK
      BY DEF IInv
    <3> QED BY <1>3, <3>1, TextIsSent
  <2> DEFINE m == [kind |-> "text", from |-> d, time |-> t, post |-> p]
  <2>2. MessageOK(m) /\ Sends(d, m, {p}, now) /\ sent' \in [Post -> Nat]
    BY <2>1 DEF MessageOK, FromDevice
  <2> HIDE DEF d, m
  <2> QED BY <2>1, <2>2, SendStep DEF d
<1>4. ASSUME NEW p \in Post, RetryText(p)
      PROVE  IInv'
  <2>1. MessageOK([kind |-> "text", from |-> Author[p], time |-> sent[p], post |-> p])
    BY RoomConstants DEF MessageOK, FromDevice, IInv, TypeOK
  <2>2. AirOK(air')
    BY <1>4, <2>1 DEF RetryText, AirOK, IInv
  <2>3. MarksOK(mark')
    BY <1>4 DEF RetryText, IInv
  <2> QED BY <1>4, <2>2, <2>3, DeviceKeeps DEF RetryText, IInv, TypeOK
<1>5. ASSUME ReceiveConfirm
      PROVE  IInv'
  <2> PICK m \in Received("confirm") : ReceiveConfirm!(m)
    BY <1>5 DEF ReceiveConfirm
  <2>1. m.post \in Post
    BY DEF Received, IInv, AirOK, MessageOK
  <2>2. AirOK(air') /\ MarksOK(mark')
    BY DEF Takes, AirOK, IInv
  <2> QED BY <2>1, <2>2, DeviceKeeps DEF IInv, TypeOK
<1> QED BY <1>1, <1>2, <1>3, <1>4, <1>5, ReceiveStep, RestartStep DEF DeviceNext

------------------------------------------------------------------------
LEMMA InitHolds == Init => IInv
<1> SUFFICES ASSUME Init
             PROVE  IInv
  OBVIOUS
<1>1. TypeOK
  <2>1. clients \in [Idx -> Client]
    BY DEF Init, ServerInit, Entry, Client, Guest, MaxFailures, Ack
  <2>2. 0 \in Idx /\ 0 \in PostIdx /\ 0 \in 0 .. MaxClients /\ 0 \in 0 .. MaxRestarts
    BY RoomConstants, RoomBounds DEF Idx, PostIdx
  <2>3. posts \in [PostIdx -> [post : Post \union {NoPost}, ts : Nat]]
    BY DEF Init, ServerInit
  <2>4. /\ s_contacts \in Seq(Saved) /\ Len(s_contacts) <= MaxClients
        /\ log \in Seq(Post) /\ gone \in 0 .. Len(log)
    BY RoomConstants DEF Init, ServerInit
  <2>5. /\ mark \in [Device -> Nat] /\ time \in [Device -> Nat] /\ sent \in [Post -> Nat]
        /\ seen \in [Device -> SUBSET Post] /\ clock \in Nat /\ last_unique \in Nat
        /\ confirmed \subseteq Post /\ resent \subseteq Post /\ dropped \subseteq Device
        /\ dirty \in BOOLEAN
    BY DEF Init, ServerInit, StartOfClock
  <2> QED BY <2>1, <2>2, <2>3, <2>4, <2>5 DEF Init, ServerInit, TypeOK
<1>2. \A k \in PostIdx : InRing(k).ts = 0
  <2>1. \A k \in PostIdx : (next_post_idx + k) % MaxPosts \in PostIdx
    BY <1>1, RingPlaces
  <2> QED BY <2>1 DEF InRing, Init, ServerInit
<1>3. RingOK
  BY <1>2 DEF RingOK, Init, ServerInit
<1>4. Stored = {} /\ Past(0)
  BY DEF Stored, Past, Init, ServerInit
<1>5. MarksOK(mark)
  BY <1>4 DEF MarksOK, Claim, Covered, Init
<1>6. EntryOK(Entry(Nobody))
  BY RoomConstants DEF EntryOK, Entry, Client, Guest, MaxFailures, Ack
<1>7. ListOK(clients, num_clients)
  BY <1>1, <1>6 DEF ListOK, TypeOK, Init, ServerInit
<1>8. FileOK(s_contacts) /\ AirOK(air)
  BY <1>1 DEF FileOK, AirOK, TypeOK, Init, ServerInit
<1> QED BY <1>1, <1>3, <1>5, <1>7, <1>8 DEF IInv

LEMMA NextKeeps == IInv /\ [Next]_vars => IInv'
<1> SUFFICES ASSUME IInv, [Next]_vars
             PROVE  IInv'
  OBVIOUS
<1>1. CASE Next
  BY <1>1, HandleStep, SaveStep, ServerRestartStep, DeviceStep DEF Next, ServerStep
<1>2. CASE UNCHANGED vars
  <2>1. MarksOK(mark') /\ AirOK(air')
    BY <1>2 DEF vars, devices, IInv
  <2> QED BY <1>2, <2>1, DeviceKeeps DEF vars, devices, IInv, TypeOK
<1> QED BY <1>1, <1>2

(* The claims are true at all times.                                         *)
THEOREM Inductive == Spec => []IInv
BY InitHolds, NextKeeps, PTL DEF Spec

(* The tables of server and devices keep their types: the index of the turn   *)
(* stays in the list, at most three pushes fail in a row.                    *)
THEOREM RoomTypes == Spec => []TypeOK
<1>1. IInv => TypeOK
  BY DEF IInv
<1> QED BY <1>1, Inductive, PTL

(* No post is skipped, by the server (MyMesh.cpp:352, 544, 986) or by devices, *)
(* in any room, although both may restart, the server with a clock that goes  *)
(* on or starts anew.  The devices with a timestamp that clock was behind     *)
(* (ahead) are left out: posts to come may have timestamps below theirs.     *)
THEOREM SkipsNothing == Spec => []NothingSkipped
<1>1. IInv => NothingSkipped
  <2> SUFFICES ASSUME IInv
               PROVE  NothingSkipped
    OBVIOUS
  <2>1. \A d \in Device \ ahead : Covered(d, mark[d])
    BY DEF IInv, MarksOK, Claim
  <2>2. ASSUME NEW i \in 0 .. num_clients - 1, clients[i].id \notin ahead
        PROVE  Covered(clients[i].id, clients[i].sync_since)
    <3>1. i \in Idx
      BY InIdx DEF IInv, TypeOK
    <3> QED BY <2>2, <3>1 DEF IInv, ListOK, EntryOK, Claim
  <2> QED BY <2>1, <2>2 DEF NothingSkipped
<1> QED BY <1>1, Inductive, PTL

(* The ACK that is awaited is for a post later than sync_since (processAck). *)
THEOREM AcksAdvance == Spec => []AckAdvances
<1>1. IInv => AckAdvances
  <2> SUFFICES ASSUME IInv, NEW i \in 0 .. num_clients - 1, clients[i].pending_ack # << >>
               PROVE  clients[i].push_post_timestamp > clients[i].sync_since
    BY DEF AckAdvances
  <2>1. i \in Idx
    BY InIdx DEF IInv, TypeOK
  <2>2. EntryOK(clients[i])
    BY <2>1 DEF IInv, ListOK
  <2> QED BY <2>2 DEF EntryOK
<1> QED BY <1>1, Inductive, PTL

------------------------------------------------------------------------
(* The room implements PostDelivery: its ring holds the end of the log, and   *)
(* each push in the air is of a post before which its client has all the     *)
(* posts that are still kept.                                               *)
Kept == Delivery!Kept

Place(k) == Len(log) - MaxPosts + 1 + k

LogOK ==
  \A k \in PostIdx :
    IF Place(k) > gone THEN InRing(k).ts # 0 /\ log[Place(k)] = InRing(k).post
    ELSE InRing(k).ts = 0

Due(p, d) ==
  Author[p] # d /\ \E i \in DOMAIN log : log[i] = p /\
    (d \notin ahead => \A j \in Kept : j < i /\ Author[log[j]] # d => log[j] \in seen[d])

DueOK(a) == \A m \in a : m.kind = "push" => Due(m.post, m.to)

DInv == IInv /\ LogOK /\ DueOK(air)

LogGoesOn ==
  /\ log' = log \/ \E p \in Post : log' = Append(log, p)
  /\ gone' \in Nat /\ gone <= gone'
  /\ \A d \in Device : seen[d] \subseteq seen'[d]
  /\ ahead \subseteq ahead'

LEMMA DueKept ==
  ASSUME TypeOK, LogGoesOn
  PROVE  \A p, d : d \in Device /\ Due(p, d) => Due(p, d)'
<1> SUFFICES ASSUME NEW p, NEW d \in Device, Due(p, d)
             PROVE  Due(p, d)'
  OBVIOUS
<1> PICK i \in DOMAIN log : log[i] = p /\
           (d \notin ahead => \A j \in Kept : j < i /\ Author[log[j]] # d => log[j] \in seen[d])
  BY DEF Due
<1>1. log \in Seq(Post) /\ gone \in Nat /\ MaxPosts \in Nat /\ Len(log) \in Nat
      /\ DOMAIN log = 1 .. Len(log)
  BY RoomConstants DEF TypeOK
<1>2. /\ Len(log') \in Nat /\ Len(log) <= Len(log') /\ DOMAIN log' = 1 .. Len(log')
      /\ \A j \in DOMAIN log : log'[j] = log[j]
  BY <1>1 DEF LogGoesOn
<1>3. ASSUME NEW j \in Kept', j < i
      PROVE  j \in Kept
  <2>1. j \in 1 .. Len(log') /\ j > Len(log') - MaxPosts /\ j > gone'
    BY <1>2 DEF Kept, Delivery!Kept
  <2>2. gone' \in Nat /\ gone <= gone' /\ i \in 1 .. Len(log)
    BY <1>1 DEF LogGoesOn
  <2>3. j \in 1 .. Len(log) /\ j > Len(log) - MaxPosts /\ j > gone
    BY <1>1, <1>2, <1>3, <2>1, <2>2
  <2> QED BY <1>1, <2>3 DEF Kept, Delivery!Kept
<1>4. \A j \in Kept : j \in DOMAIN log
  BY DEF Kept, Delivery!Kept
<1>5. d \notin ahead' => \A j \in Kept' : j < i /\ Author[log'[j]] # d => log'[j] \in seen'[d]
  BY <1>2, <1>3, <1>4 DEF LogGoesOn
<1>6. i \in DOMAIN log' /\ log'[i] = p
  BY <1>1, <1>2
<1>7. Author[p] # d
  BY DEF Due
<1> QED BY <1>5, <1>6, <1>7 DEF Due

LEMMA AirDue ==
  ASSUME TypeOK, LogGoesOn, AirOK(air), DueOK(air), \A m \in air' : m.kind = "push" => m \in air
  PROVE  DueOK(air)'
<1>1. \A m \in air : m.kind = "push" => m.to \in Device
  BY DEF AirOK, MessageOK
<1> QED BY <1>1, DueKept DEF DueOK

(* The steps that neither post nor push.                                     *)
LogStays ==
  /\ UNCHANGED <<posts, next_post_idx, log, gone, ahead>>
  /\ \A d \in Device : seen[d] \subseteq seen'[d]

LEMMA LogKept ==
  ASSUME DInv, LogStays
  PROVE  LogOK' /\ LogGoesOn
<1>1. LogGoesOn
  BY DEF LogStays, LogGoesOn, DInv, IInv, TypeOK
<1>2. \A k : InRing(k)' = InRing(k) /\ Place(k)' = Place(k)
  BY DEF InRing, Place, LogStays
<1> QED BY <1>1, <1>2 DEF LogOK, LogStays, DInv

LEMMA FirstIsDue ==
  ASSUME DInv, NEW e, EntryOK(e), e.id \in Device, Unsynced(e) # {}
  PROVE  Due(InRing(First(Unsynced(e))).post, e.id)
<1> DEFINE k == First(Unsynced(e))
           p == InRing(k)
           i == Place(k)
<1>0. TypeOK /\ RingOK /\ LogOK /\ log \in Seq(Post) /\ gone \in Nat /\ MaxPosts \in Nat \ {0}
      /\ Len(log) \in Nat /\ DOMAIN log = 1 .. Len(log)
  <2>1. TypeOK /\ RingOK /\ LogOK
    BY DEF DInv, IInv
  <2>2. log \in Seq(Post) /\ gone \in 0 .. Len(log)
    BY <2>1 DEF TypeOK
  <2>3. Len(log) \in Nat /\ DOMAIN log = 1 .. Len(log) /\ gone \in Nat /\ MaxPosts \in Nat \ {0}
    BY <2>2, RoomConstants
  <2> QED BY <2>1, <2>2, <2>3
<1>1. Completes(p.post, e.id, p.ts) /\ e.sync_since < p.ts /\ p.ts \in Nat
  BY <1>0, FirstCompletes
<1>2. k \in PostIdx /\ e.sync_since \in Nat /\ Author[p.post] # e.id
  BY FirstUnsynced DEF Unsynced, EntryOK, Client
<1> HIDE DEF k
<1>3. i > gone /\ log[i] = p.post /\ i \in DOMAIN log
  <2>1. p.ts # 0
    BY <1>1, <1>2
  <2>2. i > gone /\ log[i] = p.post
    BY <1>0, <1>2, <2>1 DEF LogOK
  <2>3. i <= Len(log)
    BY <1>0, <1>2 DEF Place, PostIdx
  <2>4. i \in Int
    BY <1>0, <1>2 DEF Place, PostIdx
  <2> QED BY <1>0, <2>2, <2>3, <2>4
<1>4. ASSUME NEW j \in Kept, j < i, Author[log[j]] # e.id, e.id \notin ahead
      PROVE  log[j] \in seen[e.id]
  <2> DEFINE q == j - Len(log) + MaxPosts - 1
  <2>1. j \in Nat /\ j > gone /\ j > Len(log) - MaxPosts /\ j <= Len(log)
    BY <1>0 DEF Kept, Delivery!Kept
  <2>2. q \in PostIdx /\ Place(q) = j /\ q < k
    BY <1>0, <1>2, <1>4, <2>1 DEF Place, PostIdx
  <2> HIDE DEF q
  <2>3. InRing(q).ts # 0 /\ log[j] = InRing(q).post
    BY <1>0, <2>1, <2>2 DEF LogOK
  <2>4. InRing(q).ts < p.ts
    BY <1>0, <1>2, <2>2, <2>3 DEF RingOK
  <2>5. InRing(q) \in Stored
    BY <1>0, <2>2, <2>3, RingPlaces DEF Stored, InRing
  <2> QED BY <1>1, <1>4, <2>3, <2>4, <2>5 DEF Completes
<1> HIDE DEF i, p
<1> QED BY <1>2, <1>3, <1>4 DEF Due, p, k

LEMMA PushDue ==
  ASSUME DInv, NEW late \in SUBSET Waiting, Loop(late), UNCHANGED <<devices, gone, log, ahead>>
  PROVE  LogOK' /\ DueOK(air)'
<1>1. LogStays
  BY DEF Loop, PushTo, PushFails, SkipTurn, LoopTurn, LogStays, devices
<1>2. LogOK' /\ LogGoesOn
  BY <1>1, LogKept
<1>3. CASE \E d \in Device : PushTo(late, d)
  <2> PICK d \in Device : PushTo(late, d)
    BY <1>3
  <2> DEFINE e == Checked(late)[next_client_idx]
             p == InRing(First(Unsynced(e))).post
  <2>1. EntryOK(e) /\ MayPush(e) /\ e.id = d
    BY CheckedList DEF PushTo, DInv, IInv, TypeOK, ListOK
  <2>2. Due(p, d)
    BY <2>1, FirstIsDue DEF MayPush
  <2>3. \A m \in air' : m \in air \/ (m.post = p /\ m.to = d)
    <3> PICK attempt \in Attempt : air' = air \union
          {[kind |-> "push", to |-> d, post |-> p, ack |-> <<InRing(First(Unsynced(e))).ts, attempt>>]}
      BY DEF PushTo
    <3> HIDE DEF e, p
    <3> TAKE m \in air'
    <3>1. m \in air \/ m = [kind |-> "push", to |-> d, post |-> p,
                            ack |-> <<InRing(First(Unsynced(e))).ts, attempt>>]
      OBVIOUS
    <3> QED BY <3>1
  <2> HIDE DEF e, p
  <2>4. \A m \in air' : m.kind = "push" => Due(m.post, m.to) /\ m.to \in Device
    BY <2>2, <2>3 DEF DInv, DueOK, IInv, AirOK, MessageOK
  <2>5. TypeOK
    BY DEF DInv, IInv
  <2> QED BY <1>2, <2>4, <2>5, DueKept DEF DueOK
<1>4. CASE PushFails(late) \/ SkipTurn(late)
  <2>1. air' = air
    BY <1>4 DEF PushFails, SkipTurn
  <2> QED BY <1>2, <2>1, AirDue DEF DInv, IInv
<1> QED BY <1>2, <1>3, <1>4 DEF Loop

LEMMA TextDue ==
  ASSUME DInv, ServerStep(HandleText)
  PROVE  /\ LogOK' /\ DueOK(air)' /\ UNCHANGED <<seen, gone, ahead>>
         /\ log' = log \/ \E p \in Post : log' = Append(log, p)
<1> DEFINE now == Unique(last_unique)
<1> PICK m \in Received("text") : HandleText!(m)
  BY DEF ServerStep, HandleText
<1>1. m \in air /\ m.kind = "text" /\ m.post \in Post
  BY DEF Received, DInv, IInv, AirOK, MessageOK
<1>2. /\ TypeOK /\ RingOK /\ log \in Seq(Post) /\ Len(log) \in Nat /\ gone \in 0 .. Len(log)
      /\ MaxPosts \in Nat \ {0} /\ next_post_idx \in PostIdx
      /\ UNCHANGED <<seen, gone, ahead, clock>>
  <2>1. TypeOK /\ RingOK
    BY DEF DInv, IInv
  <2>2. log \in Seq(Post) /\ gone \in 0 .. Len(log) /\ next_post_idx \in PostIdx
    BY <2>1 DEF TypeOK
  <2>3. Len(log) \in Nat /\ MaxPosts \in Nat \ {0}
    BY <2>2, RoomConstants
  <2>4. UNCHANGED <<seen, gone, ahead, clock>>
    BY DEF ServerStep, devices
  <2> QED BY <2>1, <2>2, <2>3, <2>4
<1>3. \A x \in air' : x.kind = "push" => x \in air
  BY DEF Takes, Answers
<1>4. CASE last_unique' = now /\ UNCHANGED <<posts, next_post_idx>>
  <2>1. LogStays
    BY <1>2, <1>4 DEF LogStays, ServerStep
  <2>2. LogOK' /\ LogGoesOn /\ log' = log
    BY <2>1, LogKept DEF LogStays
  <2> QED BY <1>2, <1>3, <2>2, AirDue DEF DInv, IInv
<1>5. CASE AddPost(m.post, now)
  <2>0. /\ \A k \in PostIdx : InRing(k)' = IF k = MaxPosts - 1
              THEN [post |-> m.post, ts |-> Unique(now)] ELSE InRing(k + 1)
        /\ Unique(now) # 0 /\ posts'[next_post_idx].post = m.post /\ posts' # posts
    <3>1. now \in Nat /\ last_unique <= now
      <4>1. last_unique \in Nat
        BY <1>2 DEF TypeOK
      <4> QED BY <1>2, <4>1, UniqueGrows
    <3> HIDE DEF now
    <3>2. IInv /\ UNCHANGED <<clock, seen, ahead>>
      BY <1>2 DEF DInv
    <3> QED BY <1>1, <1>5, <3>1, <3>2, PostStep
  <2>1. log' = Append(log, m.post)
    BY <2>0 DEF ServerStep
  <2>2. LogGoesOn
    BY <1>1, <1>2, <2>1 DEF LogGoesOn, TypeOK
  <2>3. ASSUME NEW k \in PostIdx
        PROVE  (IF Place(k) > gone THEN InRing(k).ts # 0 /\ log[Place(k)] = InRing(k).post
                ELSE InRing(k).ts = 0)'
    <3> DEFINE i == Place(k)
    <3>1. Len(log') = Len(log) + 1 /\ Place(k)' = i + 1 /\ i \in Int /\ gone' = gone
      BY <1>1, <1>2, <2>1 DEF Place, PostIdx
    <3>2. CASE k = MaxPosts - 1
      <4>1. i + 1 = Len(log')
        BY <1>2, <3>1, <3>2 DEF Place
      <4>2. log'[Len(log')] = m.post /\ Len(log') > gone
        BY <1>1, <1>2, <2>1, <3>1
      <4>3. InRing(k)'.post = m.post /\ InRing(k)'.ts # 0
        BY <2>0, <3>2
      <4> QED BY <3>1, <4>1, <4>2, <4>3
    <3>3. CASE k # MaxPosts - 1
      <4>1. k + 1 \in PostIdx /\ Place(k + 1) = i + 1 /\ i + 1 <= Len(log)
        BY <1>2, <3>3 DEF PostIdx, Place
      <4>2. InRing(k)' = InRing(k + 1)
        BY <2>0, <3>3
      <4>3. IF i + 1 > gone THEN InRing(k + 1).ts # 0 /\ log[i + 1] = InRing(k + 1).post
            ELSE InRing(k + 1).ts = 0
        BY <4>1 DEF DInv, LogOK
      <4>4. i + 1 > gone => log'[i + 1] = log[i + 1]
        BY <1>1, <1>2, <2>1, <3>1, <4>1
      <4> QED BY <3>1, <4>2, <4>3, <4>4
    <3> QED BY <3>2, <3>3
  <2>4. LogOK'
    BY <2>3 DEF LogOK
  <2> QED BY <1>1, <1>2, <1>3, <2>1, <2>2, <2>4, AirDue DEF DInv, IInv
<1> QED BY <1>4, <1>5

(* A restart of the server loses the ring, and with it all that is kept.      *)
LEMMA RestartDue ==
  ASSUME DInv, ServerRestart
  PROVE  LogOK' /\ DueOK(air)' /\ log' = log /\ gone' = Len(log) /\ seen' = seen
         /\ ahead \subseteq ahead'
<1>1. /\ TypeOK /\ log' = log /\ gone' = Len(log) /\ seen' = seen /\ air' = air
      /\ ahead \subseteq ahead'
      /\ posts' = [i \in PostIdx |-> [post |-> NoPost, ts |-> 0]] /\ next_post_idx' = 0
      /\ Len(log) \in Nat /\ gone \in 0 .. Len(log) /\ MaxPosts \in Nat \ {0}
  BY RoomConstants DEF ServerRestart, Restarts, DInv, IInv, TypeOK
<1>2. LogGoesOn
  BY <1>1 DEF LogGoesOn
<1>3. ASSUME NEW k \in PostIdx
      PROVE  ~(Place(k)' > gone') /\ InRing(k)'.ts = 0
  <2>1. Place(k)' <= Len(log) /\ Place(k)' \in Int
    BY <1>1 DEF Place, PostIdx
  <2>2. k \in Nat /\ k < MaxPosts /\ k < 2 * MaxPosts /\ 0 + k = k
    BY <1>1 DEF PostIdx
  <2>3. (next_post_idx' + k) % MaxPosts = k
    BY <1>1, <2>2, ModOnce
  <2> QED BY <1>1, <2>1, <2>3 DEF InRing
<1>4. LogOK'
  BY <1>3 DEF LogOK
<1> QED BY <1>1, <1>2, <1>4, AirDue DEF DInv, IInv

LEMMA InitDue == Init => DInv
<1> SUFFICES ASSUME Init
             PROVE  DInv
  OBVIOUS
<1>1. IInv /\ log = << >> /\ gone = 0 /\ air = {} /\ MaxPosts \in Nat \ {0}
  BY InitHolds, RoomConstants DEF Init
<1>2. ASSUME NEW k \in PostIdx
      PROVE  ~(Place(k) > gone) /\ InRing(k).ts = 0
  <2>1. ~(Place(k) > gone)
    BY <1>1 DEF Place, PostIdx
  <2>2. (next_post_idx + k) % MaxPosts \in PostIdx
    BY <1>1, RingPlaces DEF IInv
  <2> QED BY <2>1, <2>2 DEF InRing, Init, ServerInit
<1> QED BY <1>1, <1>2 DEF DInv, LogOK, DueOK

(* Steps of the room, as PostDelivery sees them.                             *)
DeliveryStep == Delivery!Next \/ UNCHANGED <<log, seen, gone, ahead>>

LEMMA ServerDue ==
  ASSUME DInv, ServerStep(ServerNext)
  PROVE  LogOK' /\ DueOK(air)' /\ DeliveryStep
<1>1. CASE HandleText
  <2>1. ServerStep(HandleText)
    BY <1>1 DEF ServerStep
  <2> QED BY <2>1, TextDue DEF DeliveryStep, Delivery!Next, Delivery!Add
<1>2. CASE ~HandleText
  <2>1. UNCHANGED <<posts, next_post_idx>>
    BY <1>2 DEF ServerStep, ServerNext, Handle, HandleLogin, LoginLetIn, LoginAccepted,
       LoginRefused, HandleCommand, HandleRequest, HandleKeepAlive, HandleAck, Stale, Lose, Tick,
       Loop, PushTo, PushFails, SkipTurn, LoopTurn, server
  <2>2. UNCHANGED <<devices, gone, log, ahead>>
    BY <2>1 DEF ServerStep
  <2>3. UNCHANGED <<log, seen, gone, ahead>> /\ LogStays
    BY <2>1, <2>2 DEF LogStays, devices
  <2>4. CASE \E late \in SUBSET Waiting : Loop(late)
    BY <2>2, <2>3, <2>4, PushDue DEF DeliveryStep
  <2>5. CASE ~ \E late \in SUBSET Waiting : Loop(late)
    <3>1. air' \subseteq air
      BY <1>2, <2>5 DEF ServerStep, ServerNext, Handle, HandleLogin, LoginLetIn, LoginAccepted,
         LoginRefused, HandleCommand, HandleRequest, HandleKeepAlive, HandleAck, Stale, Lose, Tick,
         Takes
    <3> QED BY <2>3, <3>1, LogKept, AirDue DEF DeliveryStep, DInv, IInv
  <2> QED BY <2>4, <2>5
<1> QED BY <1>1, <1>2

(* What a device sends is no push, and changes no post.                      *)
LEMMA SendKinds ==
  ASSUME NEW d, SendLogin(d) \/ SendKeepAlive(d) \/ SendRequest(d) \/ SendCommand(d)
                \/ \E p \in Post : Author[p] = d /\ SendText(p)
  PROVE  \E m, S, now : Sends(d, m, S, now) /\ m.kind # "push"
<1>1. CASE SendLogin(d)
  BY <1>1 DEF SendLogin, SendsUnique
<1>2. CASE SendKeepAlive(d)
  BY <1>2 DEF SendKeepAlive, SendsUnique
<1>3. CASE SendRequest(d)
  BY <1>3 DEF SendRequest, SendsUnique
<1>4. CASE SendCommand(d)
  BY <1>4 DEF SendCommand, SendsUnique
<1>5. ASSUME NEW p \in Post, Author[p] = d, SendText(p)
      PROVE  \E m, S, now : Sends(d, m, S, now) /\ m.kind # "push"
  BY <1>5 DEF SendText
<1> QED BY <1>1, <1>2, <1>3, <1>4, <1>5

LEMMA DeviceDue ==
  ASSUME DInv, DeviceNext
  PROVE  LogOK' /\ DueOK(air)' /\ DeliveryStep
<1>0. \/ \E d, m, S, now : Sends(d, m, S, now) /\ m.kind # "push"
      \/ \E d \in Device : ReceivePush(d) \/ Restart(d)
      \/ \E p \in Post : RetryText(p)
      \/ ReceiveConfirm
  BY SendKinds DEF DeviceNext
<1>1. UNCHANGED <<posts, next_post_idx, log, gone, ahead>>
  BY <1>0 DEF Sends, RetryText, ReceivePush, ReceiveConfirm, Restart, server
<1>2. \A m \in air' : m.kind = "push" => m \in air
  BY <1>0 DEF Sends, RetryText, ReceivePush, ReceiveConfirm, Restart, Takes, Answers
<1>3. CASE seen' = seen
  <2>1. LogStays
    BY <1>1, <1>3 DEF LogStays
  <2> QED BY <1>1, <1>2, <1>3, <2>1, LogKept, AirDue DEF DeliveryStep, DInv, IInv
<1>4. ASSUME NEW d \in Device, ReceivePush(d)
      PROVE  LogOK' /\ DueOK(air)' /\ DeliveryStep
  <2> PICK m \in Received("push") : ReceivePush(d)!(m)
    BY <1>4 DEF ReceivePush
  <2>1. m \in air /\ m.kind = "push" /\ m.to = d
    BY DEF Received
  <2>2. Due(m.post, d)
    BY <2>1 DEF DInv, DueOK
  <2>3. seen' = [seen EXCEPT ![d] = @ \union {m.post}] /\ seen \in [Device -> SUBSET Post]
    BY DEF DInv, IInv, TypeOK
  <2>4. LogStays
    BY <1>1, <2>3 DEF LogStays
  <2>5. Completes(m.post, d, m.ack[1])
    BY <2>1 DEF DInv, IInv, AirOK, MessageOK
  <2>6. PICK i \in DOMAIN log : log[i] = m.post /\
          (d \notin ahead => \A j \in Kept : j < i /\ Author[log[j]] # d => log[j] \in seen[d])
    BY <2>2 DEF Due
  <2>7. Author[log[i]] # d
    BY <2>2, <2>6 DEF Due
  <2>8. Delivery!Deliver(d, i)
    BY <1>1, <2>3, <2>6, <2>7 DEF Delivery!Deliver, Kept
  <2> QED BY <1>2, <2>4, <2>8, LogKept, AirDue DEF DeliveryStep, Delivery!Next, DInv, IInv
<1> QED BY <1>0, <1>3, <1>4 DEF Sends, RetryText, ReceiveConfirm, Restart

LEMMA NextDue == DInv /\ [Next]_vars => DInv' /\ DeliveryStep
<1> SUFFICES ASSUME DInv, [Next]_vars
             PROVE  DInv' /\ DeliveryStep
  OBVIOUS
<1>1. IInv'
  BY NextKeeps DEF DInv
<1>2. CASE ServerStep(ServerNext)
  BY <1>1, <1>2, ServerDue DEF DInv
<1>3. CASE ServerStep(Save)
  <2>1. LogStays /\ air' = air /\ UNCHANGED <<log, seen, gone, ahead>>
    BY <1>3 DEF ServerStep, Save, LogStays, devices
  <2> QED BY <1>1, <2>1, LogKept, AirDue DEF DeliveryStep, DInv, IInv
<1>4. CASE ServerRestart
  BY <1>1, <1>4, RestartDue DEF DInv, DeliveryStep, Delivery!Next, Delivery!Forget
<1>5. CASE DeviceNext
  BY <1>1, <1>5, DeviceDue DEF DInv
<1>6. CASE UNCHANGED vars
  <2>1. LogStays /\ air' = air /\ UNCHANGED <<log, seen, gone, ahead>>
    BY <1>6 DEF vars, server, LogStays, devices
  <2> QED BY <1>1, <2>1, LogKept, AirDue DEF DeliveryStep, DInv, IInv
<1> QED BY <1>2, <1>3, <1>4, <1>5, <1>6 DEF Next, ServerStep

(* The room implements PostDelivery: what a device receives it receives in    *)
(* the order of the log, and nothing that is still kept is left out,         *)
(* whatever is lost, evicted or resynchronised, and over restarts too, but    *)
(* for the devices a restart of the server left ahead of its clock.          *)
THEOREM ImplementsDelivery == Spec => DeliversInOrder
<1>1. Init => Delivery!Init
  BY DEF Init, Delivery!Init
<1>2. DInv /\ [Next]_vars => [Delivery!Next]_<<log, seen, gone, ahead>>
  BY NextDue DEF DeliveryStep
<1>3. DInv /\ [Next]_vars => DInv'
  BY NextDue
<1> QED BY <1>1, <1>2, <1>3, InitDue, PTL DEF Spec, DeliversInOrder, Delivery!Spec

------------------------------------------------------------------------
(* A text is posted once because the entry of its author, once it has come,   *)
(* never falls behind it.  It is confirmed only if it was posted when no      *)
(* other message of its author has its timestamp: those of which this is not *)
(* so are in shared from the moment the second of the two is sent.           *)
Posted(p) == \E i \in DOMAIN log : log[i] = p

MayWrite(d) == Perm[d] # Guest

Stamps ==
  \A p, q \in Post :
    p # q /\ Author[p] = Author[q] /\ sent[p] = sent[q] /\ sent[p] # 0 => p \in shared

Stamped(m) ==
  /\ m.kind \in FromDevice => 0 < m.time /\ Used(m.from, m.time)
  /\ m.kind = "text" => Author[m.post] = m.from /\ sent[m.post] = m.time
  /\ m.kind \in FromDevice \ {"text"} => TextsAt(m.from, m.time) \subseteq shared
  /\ m.kind = "confirm" /\ MayWrite(Author[m.post]) /\ m.post \notin shared => Posted(m.post)

AllStamped(msgs) == \A m \in msgs : Stamped(m)

(* Who may write keeps the permission; a text whose timestamp the entry of    *)
(* its author has, and no other message, was posted.                         *)
Heard(e) ==
  /\ Used(e.id, e.last_timestamp)
  /\ MayWrite(e.id) =>
       /\ e.permissions # Guest
       /\ \A p \in Post \ shared :
            Author[p] = e.id /\ sent[p] # 0 /\ sent[p] = e.last_timestamp => Posted(p)

Distinct(cs, n) == \A i, j \in 0 .. n - 1 : cs[i].id = cs[j].id => i = j

HeardAll ==
  /\ Distinct(clients, num_clients)
  /\ \A i \in 0 .. num_clients - 1 : Heard(clients[i])

WritersSaved(f) ==
  /\ \A k \in DOMAIN f : f[k].permissions # Guest
  /\ \A k, l \in DOMAIN f : f[k].id = f[l].id => k = l

PostedBefore ==
  \A p \in Post : Posted(p) =>
    /\ sent[p] # 0
    /\ Author[p] \notin dropped =>
         /\ Known(clients, Author[p])
         /\ \A i \in Places(clients, Author[p]) : sent[p] <= clients[i].last_timestamp
         /\ \A i, j \in DOMAIN log : log[i] = p /\ log[j] = p => i = j

Confirmed == \A p \in confirmed \ shared : MayWrite(Author[p]) => Posted(p)

Told ==
  /\ Stamps /\ AllStamped(air) /\ HeardAll /\ WritersSaved(s_contacts)
  /\ PostedBefore /\ Confirmed

OInv == IInv /\ Told

(* What a step of the server may do to an entry: leave it, or raise its       *)
(* permission; add it; or set its time to that of a message.                 *)
Alike(f, e) ==
  /\ f.id = e.id /\ f.last_timestamp = e.last_timestamp
  /\ f.permissions = e.permissions \/ f.permissions # Guest

Joins(f, cs) == ~Known(cs, f.id) /\ f.last_timestamp = 0 /\ f.permissions # Guest

Hears(f, m) ==
  /\ f.id = m.from /\ f.last_timestamp = m.time
  /\ MayWrite(m.from) => f.permissions # Guest
  /\ \A j \in Places(clients, m.from) : clients[j].last_timestamp <= m.time

Follows(f) ==
  \/ \E j \in 0 .. num_clients - 1 : Alike(f, clients[j])
  \/ Joins(f, clients)
  \/ \E m \in air : m.kind \in FromDevice \ {"text"} /\ Hears(f, m)

Entries ==
  /\ Distinct(clients', num_clients')
  /\ \A i \in 0 .. num_clients' - 1 : Follows(clients'[i])

LEMMA PutPlaces ==
  ASSUME num_clients \in 0 .. MaxClients, NEW cs, ListOK(cs, num_clients),
         Distinct(cs, num_clients), NEW d \in Device
  PROVE  LET ps == PutClient(cs, d)
             n == CountWith(cs, d)
             i == SlotFor(cs, d) IN
         /\ Distinct(ps, n) /\ i \in 0 .. n - 1
         /\ \A j \in 0 .. n - 1 : j # i => j \in 0 .. num_clients - 1 /\ ps[j] = cs[j]
         /\ Known(cs, d) => i \in 0 .. num_clients - 1 /\ ps[i] = cs[i] /\ cs[i].id = d
         /\ ~Known(cs, d) => ps[i] = Entry(d)
<1> DEFINE ps == PutClient(cs, d)
           n == CountWith(cs, d)
           i == SlotFor(cs, d)
<1>1. num_clients \in Nat /\ MaxClients \in Nat \ {0} /\ num_clients <= MaxClients
  BY RoomConstants
<1>2. CASE Known(cs, d)
  <2>1. i \in Places(cs, d) /\ ps = cs /\ n = num_clients
    BY <1>1, <1>2, AtIsPlace DEF SlotFor, PutClient, CountWith
  <2> QED BY <1>2, <2>1 DEF Places
<1>3. CASE ~Known(cs, d)
  <2>1. ps = [cs EXCEPT ![i] = Entry(d)]
    BY <1>3 DEF PutClient
  <2>2. i \in Idx /\ i \in 0 .. n - 1 /\ (n = num_clients \/ (n = num_clients + 1 /\ i = num_clients))
    BY <1>1, <1>3, OldestInIdx DEF SlotFor, CountWith, Idx
  <2> HIDE DEF i, n
  <2>3. \A j \in Idx : ps[j] = IF j = i THEN Entry(d) ELSE cs[j]
    BY <2>1 DEF ListOK
  <2>4. \A j \in 0 .. n - 1 : j \in Idx /\ (j # i => j \in 0 .. num_clients - 1)
    BY <1>1, <2>2 DEF Idx
  <2>5. \A j \in 0 .. num_clients - 1 : cs[j].id # d
    BY <1>3 DEF Known, Places
  <2>6. Entry(d).id = d
    BY DEF Entry
  <2> HIDE DEF ps
  <2>7. Distinct(ps, n)
    BY <2>3, <2>4, <2>5, <2>6 DEF Distinct
  <2> QED BY <1>3, <2>2, <2>3, <2>4, <2>7 DEF ps, i, n
<1> QED BY <1>2, <1>3

LEMMA RemovedPlaces ==
  ASSUME num_clients \in 0 .. MaxClients, NEW cs, Distinct(cs, num_clients), NEW d, Known(cs, d)
  PROVE  /\ Distinct(Removed(cs, d), num_clients - 1)
         /\ \A i \in 0 .. (num_clients - 1) - 1 : \E j \in 0 .. num_clients - 1 :
              Removed(cs, d)[i] = cs[j]
<1> DEFINE r == At(cs, d)
           Old(i) == IF r <= i THEN i + 1 ELSE i
<1>1. num_clients \in Nat /\ MaxClients \in Nat \ {0} /\ num_clients <= MaxClients
      /\ r \in 0 .. num_clients - 1
  BY RoomConstants, AtIsPlace DEF Places
<1> HIDE DEF r
<1>2. \A i \in 0 .. (num_clients - 1) - 1 :
        Old(i) \in 0 .. num_clients - 1 /\ Removed(cs, d)[i] = cs[Old(i)]
  <2> TAKE i \in 0 .. (num_clients - 1) - 1
  <2>1. i \in Idx /\ i < num_clients - 1 /\ i \in Int
    BY <1>1 DEF Idx
  <2>2. Removed(cs, d)[i] = IF r <= i /\ i < num_clients - 1 THEN cs[i + 1] ELSE cs[i]
    BY <2>1 DEF Removed, r
  <2> QED BY <1>1, <2>1, <2>2
<1>3. \A i, j \in 0 .. (num_clients - 1) - 1 : Old(i) = Old(j) => i = j
  BY <1>1
<1> HIDE DEF Old
<1>4. Distinct(Removed(cs, d), num_clients - 1)
  BY <1>2, <1>3 DEF Distinct
<1> QED BY <1>2, <1>4

LEMMA SetPlaces ==
  ASSUME TypeOK, NEW cs, ListOK(cs, num_clients), Distinct(cs, num_clients),
         NEW d \in Device, NEW perm \in 0 .. 3, SetPerm(cs, d, perm)
  PROVE  /\ Distinct(clients', num_clients')
         /\ \A i \in 0 .. num_clients' - 1 :
              \/ \E j \in 0 .. num_clients - 1 : Alike(clients'[i], cs[j])
              \/ Joins(clients'[i], cs)
<1>0. num_clients \in 0 .. MaxClients
  BY DEF TypeOK
<1>1. CASE perm = Guest
  BY <1>0, <1>1, RemovedPlaces DEF SetPerm, Alike
<1>2. CASE perm # Guest
  <2> DEFINE ps == PutClient(cs, d)
             n == CountWith(cs, d)
             i == SlotFor(cs, d)
             e == [ps[i] EXCEPT !.permissions = perm]
  <2>1. clients' = [ps EXCEPT ![i] = e] /\ num_clients' = n
    BY <1>2 DEF SetPerm
  <2>2. /\ Distinct(ps, n) /\ i \in 0 .. n - 1
        /\ \A j \in 0 .. n - 1 : j # i => j \in 0 .. num_clients - 1 /\ ps[j] = cs[j]
        /\ Known(cs, d) => i \in 0 .. num_clients - 1 /\ ps[i] = cs[i] /\ cs[i].id = d
        /\ ~Known(cs, d) => ps[i] = Entry(d)
    BY <1>0, PutPlaces
  <2>3. n \in 0 .. MaxClients /\ DOMAIN ps = Idx
    BY <1>0, RoomConstants DEF CountWith, PutClient, ListOK
  <2>4. i \in 0 .. num_clients - 1 => cs[i] \in Client
    BY <1>0, InIdx DEF ListOK
  <2>5. Known(cs, d) => Alike(e, cs[i]) /\ e.id = ps[i].id
    BY <1>2, <2>2, <2>4 DEF Alike, Client
  <2>6. ~Known(cs, d) => Joins(e, cs) /\ e.id = ps[i].id
    BY <1>2, <2>2 DEF Joins, Entry
  <2>7. \A j \in 0 .. n - 1 : j \in Idx
    BY <2>3, InIdx
  <2> HIDE DEF ps, n, i, e
  <2>8. \A j \in 0 .. n - 1 : clients'[j] = IF j = i THEN e ELSE ps[j]
    BY <2>1, <2>3, <2>7
  <2>9. Distinct(clients', num_clients')
    BY <2>1, <2>2, <2>5, <2>6, <2>8 DEF Distinct
  <2>10. \A j \in 0 .. n - 1 : (\E k \in 0 .. num_clients - 1 : Alike(clients'[j], cs[k]))
                               \/ Joins(clients'[j], cs)
    BY <2>2, <2>5, <2>6, <2>8 DEF Alike
  <2> QED BY <2>1, <2>9, <2>10
<1> QED BY <1>1, <1>2

LEMMA ActivePlaces ==
  ASSUME IInv, Distinct(clients, num_clients), NEW m, m.from \in Device, m.time \in Nat,
         Fresh(m), NEW now \in Nat
  PROVE  LET cs == Active(m, now)
             i == At(clients, m.from) IN
         /\ Distinct(cs, num_clients)
         /\ i \in 0 .. num_clients - 1 /\ i \in Idx /\ clients[i].id = m.from
         /\ \A j \in Places(clients, m.from) : j = i
         /\ \A j \in 0 .. num_clients - 1 : j # i => cs[j] = clients[j]
         /\ cs[i].id = m.from /\ cs[i].last_timestamp = m.time
         /\ cs[i].permissions = clients[i].permissions
         /\ clients[i].last_timestamp <= m.time
         /\ \A d : Known(cs, d) <=> Known(clients, d)
<1> DEFINE i == At(clients, m.from)
           e == [clients[i] EXCEPT !.last_timestamp = m.time, !.last_activity = now,
                                   !.push_failures = 0]
           cs == Active(m, now)
<1>1. num_clients \in 0 .. MaxClients /\ clients \in [Idx -> Client]
  BY DEF IInv, TypeOK
<1>2. i \in Places(clients, m.from) /\ clients[i].last_timestamp <= m.time
  BY <1>1, AtIsPlace DEF Fresh
<1>3. i \in 0 .. num_clients - 1 /\ i \in Idx /\ clients[i].id = m.from
  BY <1>1, <1>2, InIdx DEF Places
<1>4. e.id = m.from /\ e.last_timestamp = m.time /\ e.permissions = clients[i].permissions
  BY <1>1, <1>3 DEF Client
<1>5. cs = [clients EXCEPT ![i] = e]
  BY DEF Active
<1> HIDE DEF i, e, cs
<1>6. \A j \in 0 .. num_clients - 1 : j \in Idx
  BY <1>1, InIdx
<1>7. \A j \in 0 .. num_clients - 1 : cs[j] = IF j = i THEN e ELSE clients[j]
  BY <1>1, <1>5, <1>6
<1>8. \A j \in 0 .. num_clients - 1 : cs[j].id = clients[j].id
  BY <1>3, <1>4, <1>7
<1>9. Distinct(cs, num_clients)
  BY <1>8 DEF Distinct
<1>10. \A d : Known(cs, d) <=> Known(clients, d)
  BY <1>8 DEF Known, Places
<1>11. \A j \in Places(clients, m.from) : j = i
  BY <1>3 DEF Places, Distinct
<1> QED BY <1>2, <1>3, <1>4, <1>7, <1>9, <1>10, <1>11 DEF i, cs

(* What a step of the server that posts nothing does to devices and air.      *)
NothingPosted ==
  /\ UNCHANGED <<time, sent, log, confirmed, shared>>
  /\ \A x \in air' : x \in air \/ x.kind = "push"
  /\ dropped' = dropped \union
       { d \in Device : Known(clients, d) /\ \A i \in 0 .. num_clients' - 1 : clients'[i].id # d }

LEMMA FollowersKeep ==
  ASSUME OInv, IInv', Entries, NothingPosted, WritersSaved(s_contacts')
  PROVE  Told'
<1>1. /\ UNCHANGED <<time, sent, log, confirmed, shared>> /\ time \in [Device -> Nat]
      /\ sent \in [Post -> Nat] /\ Author \in [Post -> Device]
  BY RoomConstants DEF NothingPosted, OInv, IInv, TypeOK
<1>2. /\ \A p : Posted(p)' <=> Posted(p)
      /\ \A d, x : TextsAt(d, x)' = TextsAt(d, x) /\ (Used(d, x)' <=> Used(d, x))
  BY <1>1 DEF Posted, TextsAt, Used
<1>3. Stamps' /\ Confirmed'
  BY <1>1, <1>2 DEF Stamps, Confirmed, OInv, Told
<1>4. AllStamped(air)'
  <2>1. \A m \in air : Stamped(m)'
    BY <1>1, <1>2 DEF OInv, Told, AllStamped, Stamped
  <2>2. \A m : m.kind = "push" => Stamped(m)'
    BY DEF Stamped, FromDevice
  <2> QED BY <2>1, <2>2 DEF AllStamped, NothingPosted
<1>5. \A i \in 0 .. num_clients' - 1 : clients'[i].id \in Device /\ clients'[i].last_timestamp \in Nat
  <2>1. ListOK(clients, num_clients)' /\ num_clients' \in 0 .. MaxClients
    BY DEF IInv, TypeOK
  <2>2. 0 .. num_clients' - 1 \subseteq Idx
    BY <2>1, InIdx
  <2> QED BY <2>1, <2>2 DEF ListOK, Client
<1>6. \A j \in 0 .. num_clients - 1 : /\ clients[j].last_timestamp \in Nat /\ clients[j].id \in Device
                                     /\ Heard(clients[j])
  <2>1. ListOK(clients, num_clients) /\ num_clients \in 0 .. MaxClients
    BY DEF OInv, IInv, TypeOK
  <2>2. 0 .. num_clients - 1 \subseteq Idx
    BY <2>1, InIdx
  <2> QED BY <2>1, <2>2 DEF ListOK, Client, OInv, Told, HeardAll
<1>7. ASSUME NEW m \in air, m.kind \in FromDevice \ {"text"}
      PROVE  /\ m.time \in Nat /\ Used(m.from, m.time)
             /\ \A p \in Post : Author[p] = m.from /\ sent[p] = m.time => p \in shared
  BY <1>7 DEF OInv, Told, AllStamped, Stamped, IInv, AirOK, MessageOK, TextsAt
<1>8. ASSUME NEW i \in 0 .. num_clients' - 1
      PROVE  Heard(clients[i])'
  <2> DEFINE f == clients'[i]
  <2>1. f.id \in Device /\ f.last_timestamp \in Nat
    BY <1>5
  <2>2. SUFFICES /\ Used(f.id, f.last_timestamp)
                 /\ MayWrite(f.id) =>
                      /\ f.permissions # Guest
                      /\ \A p \in Post \ shared : Author[p] = f.id /\ sent[p] # 0
                           /\ sent[p] = f.last_timestamp => Posted(p)
    BY <1>1, <1>2 DEF Heard, MayWrite
  <2>3. Follows(f)
    BY DEF Entries
  <2> HIDE DEF f
  <2>4. CASE \E j \in 0 .. num_clients - 1 : Alike(f, clients[j])
    BY <1>6, <2>4 DEF Alike, Heard
  <2>5. CASE Joins(f, clients)
    BY <1>1, <2>1, <2>5 DEF Joins, Used
  <2>6. CASE \E m \in air : m.kind \in FromDevice \ {"text"} /\ Hears(f, m)
    BY <1>1, <1>7, <2>1, <2>6 DEF Hears
  <2> QED BY <2>3, <2>4, <2>5, <2>6 DEF Follows
<1>9. HeardAll'
  BY <1>8 DEF HeardAll, Entries
<1>10. ASSUME NEW p \in Post, Posted(p), Author[p] \notin dropped'
        PROVE  /\ \E i \in 0 .. num_clients' - 1 : clients'[i].id = Author[p]
              /\ \A i \in 0 .. num_clients' - 1 :
                   clients'[i].id = Author[p] => sent[p] <= clients'[i].last_timestamp
  <2> DEFINE d == Author[p]
  <2>1. /\ d \in Device /\ d \notin dropped /\ Known(clients, d)
        /\ \A i \in Places(clients, d) : sent[p] <= clients[i].last_timestamp
        /\ sent[p] \in Nat
    BY <1>1, <1>10 DEF OInv, Told, PostedBefore, NothingPosted
  <2>2. PICK i \in 0 .. num_clients' - 1 : clients'[i].id = d
    BY <1>10, <2>1 DEF NothingPosted
  <2>3. ASSUME NEW k \in 0 .. num_clients' - 1, clients'[k].id = d
        PROVE  sent[p] <= clients'[k].last_timestamp
    <3> DEFINE f == clients'[k]
    <3>1. Follows(f) /\ f.id = d /\ f.last_timestamp \in Nat
      BY <1>5, <2>3 DEF Entries
    <3> HIDE DEF f
    <3>2. CASE \E j \in 0 .. num_clients - 1 : Alike(f, clients[j])
      BY <2>1, <3>1, <3>2 DEF Alike, Places, f
    <3>3. ~Joins(f, clients)
      BY <2>1, <3>1 DEF Joins
    <3>4. CASE \E m \in air : m.kind \in FromDevice \ {"text"} /\ Hears(f, m)
      <4>1. PICK m \in air : m.kind \in FromDevice \ {"text"} /\ Hears(f, m)
        BY <3>4
      <4>2. PICK j \in Places(clients, d) : TRUE
        BY <2>1 DEF Known
      <4>3. sent[p] <= clients[j].last_timestamp /\ clients[j].last_timestamp <= m.time
        BY <2>1, <3>1, <4>1, <4>2 DEF Hears
      <4>4. m.time \in Nat /\ f.last_timestamp = m.time /\ clients[j].last_timestamp \in Nat
        BY <1>6, <1>7, <4>1 DEF Hears, Places
      <4> QED BY <2>1, <4>3, <4>4 DEF f
    <3> QED BY <3>1, <3>2, <3>3, <3>4 DEF Follows
  <2> QED BY <2>2, <2>3
<1>11. PostedBefore'
  <2> SUFFICES ASSUME NEW p \in Post, Posted(p)
               PROVE  (/\ sent[p] # 0
                       /\ Author[p] \notin dropped =>
                            /\ Known(clients, Author[p])
                            /\ \A i \in Places(clients, Author[p]) :
                                 sent[p] <= clients[i].last_timestamp
                            /\ \A i, j \in DOMAIN log : log[i] = p /\ log[j] = p => i = j)'
    BY <1>2 DEF PostedBefore
  <2>1. sent'[p] # 0
    BY <1>1 DEF OInv, Told, PostedBefore
  <2>2. Author[p] \notin dropped' => Author[p] \notin dropped
    BY DEF NothingPosted
  <2>3. Author[p] \notin dropped' => \A i, j \in DOMAIN log' : log'[i] = p /\ log'[j] = p => i = j
    BY <1>1, <2>2 DEF OInv, Told, PostedBefore
  <2> QED BY <1>1, <1>10, <2>1, <2>3 DEF Known, Places
<1> QED BY <1>3, <1>4, <1>9, <1>11 DEF Told

LEMMA SameEntries ==
  ASSUME Distinct(clients, num_clients), num_clients' = num_clients,
         \A i \in 0 .. num_clients - 1 : Alike(clients'[i], clients[i])
  PROVE  Entries
BY DEF Entries, Distinct, Alike, Follows

LEMMA LoginEntries ==
  ASSUME OInv, HandleLogin
  PROVE  Entries
<1> PICK m \in Received("login") : LoginLetIn(m) \/ LoginAccepted(m) \/ LoginRefused(m)
  BY DEF HandleLogin
<1>1. /\ m \in air /\ m.kind \in FromDevice \ {"text"} /\ m.from \in Device /\ m.time \in Nat
      /\ 0 < m.time
  BY DEF Received, OInv, Told, IInv, AirOK, MessageOK, AllStamped, Stamped, FromDevice
<1>2. /\ ListOK(clients, num_clients) /\ num_clients \in 0 .. MaxClients
      /\ Distinct(clients, num_clients)
  BY DEF OInv, Told, IInv, TypeOK, HeardAll
<1> DEFINE cs == PutClient(clients, m.from)
           n == CountWith(clients, m.from)
           i == SlotFor(clients, m.from)
<1>3. /\ Distinct(cs, n) /\ i \in 0 .. n - 1
      /\ \A j \in 0 .. n - 1 : j # i => j \in 0 .. num_clients - 1 /\ cs[j] = clients[j]
      /\ Known(clients, m.from) => i \in 0 .. num_clients - 1 /\ cs[i] = clients[i]
                                     /\ clients[i].id = m.from
      /\ ~Known(clients, m.from) => cs[i] = Entry(m.from)
  BY <1>1, <1>2, PutPlaces
<1>4. CASE LoginLetIn(m)
  BY <1>2, <1>4, SameEntries DEF LoginLetIn, Alike
<1>5. CASE LoginRefused(m)
  <2>1. clients' = cs /\ num_clients' = n /\ ~(cs[i].last_timestamp < m.time)
    <3>1. cs[i].last_timestamp >= m.time /\ clients' = cs /\ num_clients' = n
      BY <1>5 DEF LoginRefused
    <3>2. cs[i].last_timestamp \in Nat
      <4>1. ListOK(cs, n) /\ i \in Idx
        BY <1>1, <1>2, PutKeepsList DEF OInv, IInv
      <4> QED BY <4>1 DEF ListOK, Client
    <3> QED BY <1>1, <3>1, <3>2
  <2>2. Known(clients, m.from)
    BY <1>1, <1>3, <2>1 DEF Entry
  <2> HIDE DEF cs, n, i
  <2>3. \A j \in 0 .. n - 1 : j \in 0 .. num_clients - 1 /\ cs[j] = clients[j]
    BY <1>3, <2>2
  <2> QED BY <1>3, <2>1, <2>3 DEF Entries, Follows, Alike
<1>6. CASE LoginAccepted(m)
  <2> DEFINE e == LoggedIn(cs[i], m)
  <2>1. clients' = [cs EXCEPT ![i] = e] /\ num_clients' = n /\ cs[i].last_timestamp < m.time
    BY <1>6 DEF LoginAccepted
  <2>2. ListOK(cs, n) /\ i \in Idx /\ cs[i].id = m.from
    BY <1>1, <1>2, PutKeepsList DEF OInv, IInv
  <2>3. e.id = m.from /\ e.last_timestamp = m.time /\ e.permissions = Perm[m.from]
    <3> HIDE DEF cs, i
    <3>1. cs[i] \in Client
      BY <2>2 DEF ListOK
    <3> QED BY <2>2, <3>1 DEF LoggedIn, Client
  <2>4. Hears(e, m)
    <3>1. \A j \in Places(clients, m.from) : j = i /\ cs[i] = clients[i]
      BY <1>2, <1>3 DEF Places, Known, Distinct
    <3>2. cs[i].last_timestamp \in Nat
      BY <2>2 DEF ListOK, Client
    <3> HIDE DEF cs, i, e
    <3> QED BY <1>1, <2>1, <2>3, <3>1, <3>2 DEF Hears, MayWrite
  <2>5. \A j \in 0 .. n - 1 : j \in Idx
    BY <2>2, InIdx DEF ListOK
  <2> HIDE DEF cs, n, i, e
  <2>6. \A j \in 0 .. n - 1 : clients'[j] = IF j = i THEN e ELSE cs[j]
    BY <2>1, <2>2, <2>5 DEF ListOK
  <2>7. Distinct(clients', num_clients')
    BY <1>3, <2>1, <2>2, <2>3, <2>6 DEF Distinct
  <2>8. \A j \in 0 .. n - 1 : Follows(clients'[j])
    BY <1>1, <1>3, <2>4, <2>6 DEF Follows, Alike
  <2> QED BY <2>1, <2>7, <2>8 DEF Entries
<1> QED BY <1>4, <1>5, <1>6

(* The entry that a message other than a text makes active.                   *)
LEMMA ActiveFollows ==
  ASSUME OInv, NEW m \in air, m.kind \in FromDevice, m.from \in Device, m.time \in Nat, Fresh(m),
         NEW now \in Nat
  PROVE  LET i == At(clients, m.from) IN
         /\ Hears(Active(m, now)[i], m)
         /\ \A d : Known(Active(m, now), d) <=> Known(clients, d)
         /\ \A j \in 0 .. num_clients - 1 : j # i => Active(m, now)[j] = clients[j]
<1> DEFINE i == At(clients, m.from)
           cs == Active(m, now)
<1>1. /\ i \in 0 .. num_clients - 1 /\ i \in Idx /\ clients[i].id = m.from
      /\ \A j \in Places(clients, m.from) : j = i
      /\ \A j \in 0 .. num_clients - 1 : j # i => cs[j] = clients[j]
      /\ cs[i].id = m.from /\ cs[i].last_timestamp = m.time
      /\ cs[i].permissions = clients[i].permissions
      /\ clients[i].last_timestamp <= m.time
      /\ \A d : Known(cs, d) <=> Known(clients, d)
  BY ActivePlaces DEF OInv, Told, HeardAll
<1> HIDE DEF i, cs
<1>2. Heard(clients[i])
  BY <1>1 DEF OInv, Told, HeardAll
<1>3. Hears(cs[i], m)
  BY <1>1, <1>2 DEF Hears, Heard
<1> QED BY <1>1, <1>3 DEF i, cs

LEMMA CommandEntries ==
  ASSUME OInv, HandleCommand
  PROVE  Entries
<1> DEFINE now == Unique(last_unique)
<1> PICK m \in Received("command") : HandleCommand!(m)
  BY DEF HandleCommand
<1>1. m \in air /\ m.kind = "command" /\ m.kind \in FromDevice \ {"text"} /\ Fresh(m)
  BY DEF Received, FromDevice
<1>2. /\ TypeOK /\ last_unique \in Nat /\ MessageOK(m) /\ m.from \in Device /\ m.time \in Nat
      /\ ListOK(clients, num_clients) /\ Known(clients, m.from)
  BY <1>1, FreshMessage DEF OInv
<1>3. now \in Nat
  BY <1>2, UniqueGrows
<1> HIDE DEF now
<1> DEFINE i == At(clients, m.from)
           cs == Active(m, now)
<1>4. /\ Hears(cs[i], m) /\ \A d : Known(cs, d) <=> Known(clients, d)
      /\ \A j \in 0 .. num_clients - 1 : j # i => cs[j] = clients[j]
  BY <1>1, <1>2, <1>3, ActiveFollows
<1>5. Distinct(cs, num_clients) /\ ListOK(cs, num_clients)
  BY <1>1, <1>2, <1>3, ActivePlaces, ActiveList DEF OInv, Told, HeardAll
<1>6. m.target \in Device /\ m.perm \in 0 .. 3
  BY <1>1, <1>2 DEF MessageOK
<1>7. CASE SetPerm(cs, m.target, m.perm)
  <2> HIDE DEF cs, i
  <2>1. /\ Distinct(clients', num_clients')
        /\ \A k \in 0 .. num_clients' - 1 :
             \/ \E j \in 0 .. num_clients - 1 : Alike(clients'[k], cs[j])
             \/ Joins(clients'[k], cs)
    BY <1>2, <1>5, <1>6, <1>7, SetPlaces
  <2>2. ASSUME NEW k \in 0 .. num_clients' - 1
        PROVE  Follows(clients'[k])
    <3>1. ASSUME NEW j \in 0 .. num_clients - 1, Alike(clients'[k], cs[j]), j # i
          PROVE  Follows(clients'[k])
      BY <1>4, <3>1 DEF Follows
    <3>2. ASSUME Alike(clients'[k], cs[i])
          PROVE  Follows(clients'[k])
      BY <1>1, <1>4, <3>2 DEF Follows, Alike, Hears
    <3>3. ASSUME Joins(clients'[k], cs)
          PROVE  Follows(clients'[k])
      BY <1>4, <3>3 DEF Follows, Joins
    <3> QED BY <2>1, <3>1, <3>2, <3>3
  <2> QED BY <2>1, <2>2 DEF Entries
<1>8. CASE clients' = cs /\ num_clients' = num_clients
  <2> HIDE DEF cs, i
  <2>1. \A j \in 0 .. num_clients - 1 : Follows(cs[j])
    BY <1>1, <1>4 DEF Follows, Alike
  <2> QED BY <1>5, <1>8, <2>1 DEF Entries
<1> QED BY <1>7, <1>8 DEF now

LEMMA RequestEntries ==
  ASSUME OInv, HandleRequest \/ HandleKeepAlive
  PROVE  Entries
<1> PICK m \in air :
       /\ m.kind \in FromDevice \ {"text"} /\ Fresh(m) /\ num_clients' = num_clients
       /\ \/ clients' = Active(m, clock)
          \/ clients' = [Active(m, clock) EXCEPT ![At(clients, m.from)] = Resynced(@, m)]
  BY DEF HandleRequest, HandleKeepAlive, Received, FromDevice
<1>2. /\ TypeOK /\ clock \in Nat /\ MessageOK(m) /\ m.from \in Device /\ m.time \in Nat
      /\ ListOK(clients, num_clients) /\ Known(clients, m.from)
  BY FreshMessage DEF OInv
<1> DEFINE i == At(clients, m.from)
           cs == Active(m, clock)
<1>4. /\ Hears(cs[i], m)
      /\ \A j \in 0 .. num_clients - 1 : j # i => cs[j] = clients[j]
  BY <1>2, ActiveFollows
<1>5. Distinct(cs, num_clients) /\ ListOK(cs, num_clients) /\ i \in Idx
  BY <1>2, ActivePlaces, ActiveList DEF OInv, Told, HeardAll
<1>6. clients' = cs \/ clients' = [cs EXCEPT ![i] = Resynced(cs[i], m)]
  OBVIOUS
<1> HIDE DEF cs, i
<1>7. /\ Resynced(cs[i], m).id = cs[i].id /\ Resynced(cs[i], m).permissions = cs[i].permissions
      /\ Resynced(cs[i], m).last_timestamp = cs[i].last_timestamp
  BY <1>5 DEF Resynced, ListOK, Client
<1>8. \A j \in 0 .. num_clients - 1 : j \in Idx
  BY <1>5, InIdx DEF ListOK
<1>9. \A j \in 0 .. num_clients - 1 : j # i => clients'[j] = cs[j]
  BY <1>5, <1>6, <1>8 DEF ListOK
<1>10. /\ clients'[i].id = cs[i].id /\ clients'[i].permissions = cs[i].permissions
       /\ clients'[i].last_timestamp = cs[i].last_timestamp
  BY <1>5, <1>6, <1>7 DEF ListOK
<1>11. Distinct(clients', num_clients)
  BY <1>5, <1>9, <1>10 DEF Distinct
<1>12. \A j \in 0 .. num_clients - 1 : Follows(clients'[j])
  BY <1>4, <1>9, <1>10 DEF Follows, Alike, Hears
<1> QED BY <1>11, <1>12 DEF Entries

(* What pushes, ACKs and timeouts do to an entry.                            *)
LEMMA PushesKeep ==
  ASSUME NEW e \in Client
  PROVE  Alike(e, e) /\ Alike(Synced(e), e) /\ Alike(TimedOut(e), e)
BY DEF Synced, TimedOut, Alike, Client

LEMMA HearingKeeps ==
  ASSUME NEW e \in Client, NEW now
  PROVE  Alike([e EXCEPT !.last_activity = now], e)
BY DEF Alike, Client

LEMMA HearingAckKeeps ==
  ASSUME NEW e \in Client, NEW now
  PROVE  Alike([Synced(e) EXCEPT !.last_activity = now], e)
BY DEF Alike, Client, Synced

LEMMA StampKeeps ==
  ASSUME NEW e \in Client, NEW ts
  PROVE  Alike([e EXCEPT !.push_post_timestamp = ts], e)
BY DEF Alike, Client

LEMMA AckEntries ==
  ASSUME OInv, HandleAck
  PROVE  Entries
<1> PICK m \in Received("ack"), path \in ByPath : HandleAck!(m, path)
  BY DEF HandleAck
<1>1. /\ ListOK(clients, num_clients) /\ num_clients' = num_clients
      /\ Distinct(clients, num_clients)
  BY DEF OInv, Told, IInv, HeardAll
<1>2. ASSUME NEW i \in 0 .. num_clients - 1
      PROVE  Alike(clients'[i], clients[i])
  <2>1. i \in Idx /\ clients[i] \in Client
    BY <1>1, InIdx DEF ListOK
  <2>2. \/ clients'[i] = Credited(i, m)
        \/ clients'[i] = [Credited(i, m) EXCEPT !.last_activity = clock]
    BY <2>1
  <2>3. CASE Credited(i, m) = clients[i]
    BY <2>1, <2>2, <2>3, PushesKeep, HearingKeeps
  <2>4. CASE Credited(i, m) = Synced(clients[i])
    BY <2>1, <2>2, <2>4, PushesKeep, HearingAckKeeps
  <2> QED BY <2>3, <2>4 DEF Credited
<1> QED BY <1>1, <1>2, SameEntries

LEMMA LoopTurns ==
  ASSUME NEW late, Loop(late)
  PROVE  LoopTurn
<1>1. \A d : PushTo(late, d) => LoopTurn
  BY DEF PushTo
<1>2. PushFails(late) \/ SkipTurn(late) => LoopTurn
  BY DEF PushFails, SkipTurn
<1> QED BY <1>1, <1>2 DEF Loop

LEMMA LoopEntries ==
  ASSUME OInv, NEW late \in SUBSET Waiting, Loop(late)
  PROVE  Entries
<1>1. /\ ListOK(clients, num_clients) /\ num_clients' = num_clients
      /\ Distinct(clients, num_clients)
  <2>1. LoopTurn
    BY LoopTurns
  <2> QED BY <2>1 DEF OInv, Told, IInv, HeardAll, LoopTurn
<1> DEFINE cs == Checked(late)
           k == next_client_idx
<1>2. ListOK(cs, num_clients) /\ k \in Idx
  BY CheckedList DEF OInv, IInv, TypeOK
<1>3. ASSUME NEW i \in 0 .. num_clients - 1
      PROVE  i \in Idx /\ Alike(cs[i], clients[i])
  <2>1. i \in Idx /\ clients[i] \in Client
    BY <1>1, InIdx DEF ListOK
  <2>2. cs[i] = TimedOut(clients[i]) \/ cs[i] = clients[i]
    BY <2>1 DEF Checked
  <2> QED BY <2>1, <2>2, PushesKeep
<1>4. PICK f : Alike(f, cs[k]) /\ (clients' = cs \/ clients' = [cs EXCEPT ![k] = f])
  <2> DEFINE e == cs[k]
             p == InRing(First(Unsynced(e)))
  <2>0. e \in Client /\ Alike(e, e)
    BY <1>2, PushesKeep DEF ListOK
  <2>1. CASE \E d \in Device : PushTo(late, d)
    <3> PICK d \in Device : PushTo(late, d)
      BY <2>1
    <3>1. PICK attempt \in Attempt : clients' = [cs EXCEPT ![k] =
            [e EXCEPT !.pending_ack = <<p.ts, attempt>>, !.push_post_timestamp = p.ts]]
      BY Zenon DEF PushTo
    <3> HIDE DEF e, p, cs, k
    <3>2. Alike([e EXCEPT !.pending_ack = <<p.ts, attempt>>, !.push_post_timestamp = p.ts], e)
      BY <2>0 DEF Alike, Client
    <3> QED BY <3>1, <3>2 DEF e
  <2>2. CASE PushFails(late)
    <3>1. clients' = [cs EXCEPT ![k] = [e EXCEPT !.push_post_timestamp = p.ts]]
      BY <2>2 DEF PushFails
    <3> HIDE DEF e, p, cs, k
    <3>2. Alike([e EXCEPT !.push_post_timestamp = p.ts], e)
      BY <2>0, StampKeeps
    <3> QED BY <3>1, <3>2 DEF e
  <2>3. CASE SkipTurn(late)
    BY <2>0, <2>3 DEF SkipTurn
  <2> QED BY <2>1, <2>2, <2>3 DEF Loop
<1> HIDE DEF cs, k
<1>5. \A i \in 0 .. num_clients - 1 : Alike(clients'[i], cs[i])
  <2>1. \A i \in 0 .. num_clients - 1 : Alike(cs[i], cs[i])
    BY DEF Alike
  <2> QED BY <1>2, <1>3, <1>4, <2>1 DEF ListOK
<1>6. \A i \in 0 .. num_clients - 1 : Alike(clients'[i], clients[i])
  BY <1>3, <1>5 DEF Alike
<1> QED BY <1>1, <1>6, SameEntries

LEMMA QuietTold ==
  ASSUME OInv, ServerStep(ServerNext), ~HandleText
  PROVE  Told'
<1>1. Entries
  <2>1. ASSUME UNCHANGED <<clients, num_clients>>
        PROVE  Entries
    BY <2>1, SameEntries DEF Alike, OInv, Told, HeardAll
  <2>2. CASE Stale \/ Tick \/ Lose
    BY <2>1, <2>2 DEF Stale, Tick, Lose, server
  <2>3. CASE HandleLogin \/ HandleCommand \/ HandleRequest \/ HandleKeepAlive \/ HandleAck
    BY <2>3, LoginEntries, CommandEntries, RequestEntries, AckEntries
  <2>4. CASE \E late \in SUBSET Waiting : Loop(late)
    BY <2>4, LoopEntries
  <2> QED BY <2>2, <2>3, <2>4 DEF ServerStep, ServerNext, Handle
<1>2. UNCHANGED <<posts, s_contacts>>
  <2>1. CASE Stale \/ Tick \/ Lose
    BY <2>1 DEF Stale, Tick, Lose, server, contacts
  <2>2. CASE HandleLogin
    BY <2>2 DEF HandleLogin, LoginLetIn, LoginAccepted, LoginRefused, contacts
  <2>3. CASE HandleCommand \/ HandleRequest \/ HandleKeepAlive \/ HandleAck
    BY <2>3 DEF HandleCommand, HandleRequest, HandleKeepAlive, HandleAck, contacts
  <2>4. CASE \E late \in SUBSET Waiting : Loop(late)
    <3> PICK late \in SUBSET Waiting : Loop(late)
      BY <2>4
    <3>1. LoopTurn
      BY LoopTurns
    <3> QED BY <3>1 DEF LoopTurn, contacts
  <2> QED BY <2>1, <2>2, <2>3, <2>4 DEF ServerStep, ServerNext, Handle
<1>3. \A x \in air' : x \in air \/ x.kind = "push"
  <2>1. CASE \E late \in SUBSET Waiting : Loop(late)
    <3>1. ASSUME NEW late, NEW d, PushTo(late, d)
          PROVE  \A x \in air' : x \in air \/ x.kind = "push"
      <4> DEFINE p == InRing(First(Unsynced(Checked(late)[next_client_idx])))
      <4>1. PICK attempt \in Attempt : air' = air \union
              {[kind |-> "push", to |-> d, post |-> p.post, ack |-> <<p.ts, attempt>>]}
        BY <3>1 DEF PushTo
      <4> HIDE DEF p
      <4> QED BY <4>1
    <3>2. ASSUME NEW late, PushFails(late) \/ SkipTurn(late)
          PROVE  air' = air
      BY <3>2 DEF PushFails, SkipTurn
    <3> QED BY <2>1, <3>1, <3>2 DEF Loop
  <2>2. CASE ~ \E late \in SUBSET Waiting : Loop(late)
    BY <2>2 DEF ServerStep, ServerNext, Handle, HandleLogin, LoginLetIn, LoginAccepted,
       LoginRefused, HandleCommand, HandleRequest, HandleKeepAlive, HandleAck, Stale, Lose, Tick,
       Takes
  <2> QED BY <2>1, <2>2
<1>4. NothingPosted
  BY <1>2, <1>3 DEF NothingPosted, ServerStep, devices
<1>5. IInv'
  BY HandleStep DEF OInv
<1>6. WritersSaved(s_contacts')
  BY <1>2 DEF OInv, Told
<1> QED BY <1>1, <1>4, <1>5, <1>6, FollowersKeep

LEMMA SavedWriters ==
  ASSUME OInv, NEW f \in InOrder(Admins), NEW n \in 0 .. Cardinality(Admins)
  PROVE  WritersSaved(SavedUpTo(f, n))
<1>1. num_clients \in 0 .. MaxClients /\ Cardinality(Admins) \in Nat
  <2>1. num_clients \in 0 .. MaxClients
    BY DEF OInv, IInv, TypeOK
  <2>2. IsFiniteSet(0 .. num_clients - 1)
    BY <2>1, FS_Interval
  <2> QED BY <2>1, <2>2, FS_Subset, FS_CardinalityType DEF Admins
<1>2. /\ f \in [1 .. Cardinality(Admins) -> Admins]
      /\ \A i, j \in 1 .. Cardinality(Admins) : i < j => f[i] < f[j]
  BY DEF InOrder
<1>3. DOMAIN SavedUpTo(f, n) = 1 .. n /\ \A k \in 1 .. n : k \in 1 .. Cardinality(Admins)
  BY <1>1 DEF SavedUpTo
<1>4. \A k \in 1 .. n : /\ SavedUpTo(f, n)[k].permissions = clients[f[k]].permissions
                        /\ SavedUpTo(f, n)[k].id = clients[f[k]].id
                        /\ f[k] \in Admins
  BY <1>2, <1>3 DEF SavedUpTo
<1>5. \A k \in 1 .. n : SavedUpTo(f, n)[k].permissions # Guest
  BY <1>4 DEF Admins, Admin, Guest
<1>6. ASSUME NEW k \in 1 .. n, NEW l \in 1 .. n, SavedUpTo(f, n)[k].id = SavedUpTo(f, n)[l].id
      PROVE  k = l
  <2>1. f[k] = f[l] /\ f[k] \in Nat
    BY <1>1, <1>4, <1>6 DEF Admins, OInv, Told, HeardAll, Distinct
  <2>2. k \in Nat /\ l \in Nat /\ k \in 1 .. Cardinality(Admins) /\ l \in 1 .. Cardinality(Admins)
    BY <1>1, <1>3
  <2>3. ~(k < l) /\ ~(l < k)
    BY <1>2, <2>1, <2>2
  <2> QED BY <2>2, <2>3
<1> QED BY <1>3, <1>5, <1>6 DEF WritersSaved

LEMMA SaveTold ==
  ASSUME OInv, ServerStep(Save)
  PROVE  Told'
<1> PICK f \in InOrder(Admins) : s_contacts' = SavedUpTo(f, Len(f))
  BY DEF ServerStep, Save
<1>1. Cardinality(Admins) \in Nat
  <2>1. num_clients \in Nat
    BY DEF OInv, IInv, TypeOK
  <2>2. IsFiniteSet(0 .. num_clients - 1)
    BY <2>1, FS_Interval
  <2> QED BY <2>2, FS_Subset, FS_CardinalityType DEF Admins
<1>2. Len(f) = Cardinality(Admins)
  BY <1>1 DEF InOrder
<1>3. WritersSaved(s_contacts')
  BY <1>1, <1>2, SavedWriters
<1>4. UNCHANGED <<posts, clients, num_clients, air>>
  BY DEF ServerStep, Save
<1>5. NothingPosted
  BY <1>4 DEF NothingPosted, ServerStep, devices
<1>6. Entries
  BY <1>4, SameEntries DEF Alike, OInv, Told, HeardAll
<1>7. IInv'
  BY SaveStep DEF OInv
<1> QED BY <1>3, <1>5, <1>6, <1>7, FollowersKeep

LEMMA RestartTold ==
  ASSUME OInv, ServerRestart
  PROVE  Told'
<1>1. /\ UNCHANGED <<time, sent, log, confirmed, air, shared>> /\ dropped' = Device
      /\ time \in [Device -> Nat] /\ sent \in [Post -> Nat] /\ Author \in [Post -> Device]
  BY RoomConstants DEF ServerRestart, Restarts, OInv, IInv, TypeOK
<1>2. /\ \A p : Posted(p)' <=> Posted(p)
      /\ \A d, x : TextsAt(d, x)' = TextsAt(d, x) /\ (Used(d, x)' <=> Used(d, x))
  BY <1>1 DEF Posted, TextsAt, Used
<1>3. Stamps' /\ Confirmed' /\ AllStamped(air)'
  BY <1>1, <1>2 DEF Stamps, Confirmed, AllStamped, Stamped, OInv, Told
<1>4. PostedBefore'
  BY <1>1, <1>2 DEF PostedBefore, OInv, Told
<1>5. PICK file : /\ file \in {s_contacts} \union
                      { SavedUpTo(f, n) : f \in InOrder(Admins),
                          n \in {k \in 0 .. Cardinality(Admins) : dirty} }
                  /\ s_contacts' = file /\ clients' = Loaded(file) /\ num_clients' = Len(file)
  BY DEF ServerRestart, Restarts
<1>6. WritersSaved(file) /\ FileOK(file)
  BY <1>5, SavedWriters, SavedList DEF OInv, Told, IInv
<1>7. Len(file) \in 0 .. MaxClients /\ file \in Seq(Saved)
  BY <1>6, RoomConstants DEF FileOK
<1>8. ASSUME NEW i \in 0 .. Len(file) - 1
      PROVE  /\ i + 1 \in DOMAIN file /\ clients'[i].id = file[i + 1].id
             /\ file[i + 1].id \in Device
             /\ clients'[i].permissions # Guest /\ clients'[i].last_timestamp = 0
  <2> DEFINE r == file[i + 1]
  <2>1. i \in Idx /\ i < Len(file) /\ i + 1 \in DOMAIN file
    BY <1>7, InIdx
  <2>2. clients'[i] = [Entry(r.id) EXCEPT !.permissions = r.permissions,
                                          !.sync_since = r.sync_since]
    <3>1. clients' = Loaded(file)
      BY <1>5
    <3>2. Loaded(file)[i] = [Entry(r.id) EXCEPT !.permissions = r.permissions,
                                                !.sync_since = r.sync_since]
      BY <2>1 DEF Loaded
    <3> HIDE DEF r
    <3> QED BY <3>1, <3>2
  <2>3. r \in Saved /\ r.permissions # Guest
    BY <1>6, <1>7, <2>1, SavedEntries DEF WritersSaved
  <2> QED BY <2>1, <2>2, <2>3 DEF Entry, Saved
<1>9. Distinct(clients, num_clients)'
  <2> SUFFICES ASSUME NEW i \in 0 .. Len(file) - 1, NEW j \in 0 .. Len(file) - 1,
                      clients'[i].id = clients'[j].id
               PROVE  i = j
    BY <1>5 DEF Distinct
  <2>1. i + 1 = j + 1
    BY <1>6, <1>8 DEF WritersSaved
  <2> QED BY <1>7, <2>1
<1>10. \A i \in 0 .. num_clients' - 1 : Heard(clients[i])'
  BY <1>1, <1>5, <1>8 DEF Heard, Used
<1> QED BY <1>3, <1>4, <1>5, <1>6, <1>9, <1>10 DEF Told, HeardAll

(* A text that is posted was not posted before: the entry of its author had   *)
(* an earlier timestamp, and has had that of every text posted.              *)
LEMMA TextTold ==
  ASSUME OInv, ServerStep(HandleText)
  PROVE  Told'
<1> DEFINE now == Unique(last_unique)
<1> PICK m \in Received("text") : HandleText!(m)
  BY DEF ServerStep, HandleText
<1> DEFINE i == At(clients, m.from)
           cs == Active(m, now)
           q == m.post
           d == m.from
           MayPost == clients[i].permissions # Guest
<1>1. m \in air /\ m.kind = "text" /\ m.kind \in FromDevice /\ Fresh(m)
  BY DEF Received, FromDevice
<1>2. /\ TypeOK /\ RingOK /\ last_unique \in Nat /\ MessageOK(m) /\ d \in Device /\ m.time \in Nat
      /\ ListOK(clients, num_clients) /\ log \in Seq(Post) /\ Len(log) \in Nat
  <2>1. IInv /\ RingOK
    BY DEF OInv, IInv
  <2>2. /\ TypeOK /\ last_unique \in Nat /\ MessageOK(m) /\ d \in Device /\ m.time \in Nat
        /\ ListOK(clients, num_clients)
    BY <1>1, <2>1, FreshMessage
  <2>3. log \in Seq(Post)
    BY <2>2 DEF TypeOK
  <2>4. Len(log) \in Nat
    BY <2>3
  <2> QED BY <2>1, <2>2, <2>3, <2>4
<1>3. q \in Post /\ Author[q] = d /\ sent[q] = m.time /\ 0 < m.time /\ Used(d, m.time)
  BY <1>1, <1>2 DEF MessageOK, OInv, Told, AllStamped, Stamped
<1>4. now \in Nat /\ last_unique <= now
  BY <1>2, UniqueGrows
<1>5. /\ clients' = cs /\ num_clients' = num_clients
      /\ UNCHANGED <<time, sent, seen, confirmed, s_contacts, clock, shared, ahead>>
      /\ time \in [Device -> Nat] /\ sent \in [Post -> Nat] /\ Author \in [Post -> Device]
  BY <1>2, RoomConstants DEF ServerStep, devices, contacts, TypeOK
<1>6. \/ MayPost /\ m.time # clients[i].last_timestamp /\ AddPost(q, now)
      \/ (MayPost => m.time = clients[i].last_timestamp) /\ UNCHANGED posts
  BY DEF IsRetry
<1>7. \A x \in air' : x \in air \/ (MayPost /\ x = [kind |-> "confirm", post |-> q])
  BY DEF Takes, Answers
<1> HIDE DEF now
<1>8. /\ Distinct(cs, num_clients)
      /\ i \in 0 .. num_clients - 1 /\ i \in Idx /\ clients[i].id = d
      /\ \A j \in Places(clients, d) : j = i
      /\ \A j \in 0 .. num_clients - 1 : j # i => cs[j] = clients[j]
      /\ cs[i].id = d /\ cs[i].last_timestamp = m.time
      /\ cs[i].permissions = clients[i].permissions
      /\ clients[i].last_timestamp <= m.time
  BY <1>1, <1>2, <1>4, ActivePlaces DEF OInv, Told, HeardAll
<1> HIDE DEF cs, i
<1>9. \A j \in 0 .. num_clients - 1 : /\ clients[j].last_timestamp \in Nat /\ clients[j].id \in Device
                                     /\ Heard(clients[j]) /\ cs[j].id = clients[j].id
  <2>1. \A j \in 0 .. num_clients - 1 : j \in Idx
    BY <1>2, InIdx DEF ListOK
  <2> QED BY <1>2, <1>8, <2>1 DEF ListOK, Client, OInv, Told, HeardAll
<1>10. \/ MayPost /\ m.time # clients[i].last_timestamp /\ log' = Append(log, q)
       \/ (MayPost => m.time = clients[i].last_timestamp) /\ log' = log
  <2>1. CASE MayPost /\ m.time # clients[i].last_timestamp /\ AddPost(q, now)
    <3>1. posts'[next_post_idx].post = q /\ posts' # posts
      BY <1>3, <1>4, <1>5, <2>1, PostStep DEF OInv
    <3> QED BY <2>1, <3>1 DEF ServerStep
  <2>2. CASE (MayPost => m.time = clients[i].last_timestamp) /\ UNCHANGED posts
    BY <2>2 DEF ServerStep
  <2> QED BY <1>6, <2>1, <2>2
<1>11. \A p : Posted(p)' <=> Posted(p) \/ (p = q /\ log' # log)
  <2>1. CASE log' = log
    BY <2>1 DEF Posted
  <2>2. CASE log' = Append(log, q)
    <3>1. /\ DOMAIN log' = 1 .. Len(log) + 1 /\ DOMAIN log = 1 .. Len(log)
          /\ log'[Len(log) + 1] = q /\ \A k \in 1 .. Len(log) : log'[k] = log[k]
          /\ log' # log
      BY <1>2, <1>3, <2>2
    <3>2. Len(log) + 1 \in 1 .. Len(log) + 1
          /\ \A k \in 1 .. Len(log) + 1 : k \in 1 .. Len(log) \/ k = Len(log) + 1
      BY <1>2
    <3> QED BY <1>2, <3>1, <3>2 DEF Posted
  <2> QED BY <1>10, <2>1, <2>2
<1>12. MayWrite(d) => MayPost /\ (q \notin shared => Posted(q)')
  <2> SUFFICES ASSUME MayWrite(d)
               PROVE  MayPost /\ (q \notin shared => Posted(q)')
    OBVIOUS
  <2>1. MayPost
    BY <1>8, <1>9 DEF Heard
  <2>2. CASE log' = Append(log, q)
    BY <1>2, <1>3, <1>11, <2>1, <2>2
  <2>3. CASE m.time = clients[i].last_timestamp /\ log' = log
    BY <1>3, <1>8, <1>9, <1>11, <2>1, <2>3 DEF Heard
  <2> QED BY <1>10, <2>1, <2>2, <2>3
<1>13. dropped' = dropped
  <2>1. \A c \in Device : Known(clients, c) => \E j \in 0 .. num_clients' - 1 : clients'[j].id = c
    BY <1>5, <1>9 DEF Known, Places
  <2> QED BY <2>1 DEF ServerStep
<1>14. Stamps' /\ Confirmed' /\ WritersSaved(s_contacts)'
  BY <1>5, <1>11 DEF Stamps, Confirmed, WritersSaved, OInv, Told
<1>20. \A c, x : TextsAt(c, x)' = TextsAt(c, x) /\ (Used(c, x)' <=> Used(c, x))
  BY <1>5 DEF TextsAt, Used
<1>15. AllStamped(air)'
  <2>1. \A x \in air : Stamped(x)'
    BY <1>5, <1>11, <1>20 DEF Stamped, OInv, Told, AllStamped
  <2>2. Stamped([kind |-> "confirm", post |-> q])'
    BY <1>3, <1>5, <1>12 DEF Stamped, FromDevice, MayWrite
  <2> QED BY <1>7, <2>1, <2>2 DEF AllStamped
<1>16. ASSUME NEW j \in 0 .. num_clients - 1
       PROVE  Heard(clients[j])'
  <2>1. CASE j # i
    <3>1. clients'[j] = clients[j] /\ Heard(clients[j])
      BY <1>5, <1>8, <1>9, <2>1
    <3> QED BY <1>5, <1>11, <1>20, <3>1 DEF Heard, MayWrite
  <2>2. CASE j = i
    <3>1. \A p \in Post \ shared : Author[p] = d /\ sent[p] # 0 /\ sent[p] = m.time => p = q
      BY <1>3 DEF OInv, Told, Stamps
    <3>2. clients'[i].id = d /\ clients'[i].last_timestamp = m.time
          /\ clients'[i].permissions = clients[i].permissions
      BY <1>5, <1>8
    <3> QED BY <1>3, <1>5, <1>12, <1>20, <2>2, <3>1, <3>2 DEF Heard, MayWrite
  <2> QED BY <2>1, <2>2
<1>17. HeardAll'
  BY <1>5, <1>8, <1>16 DEF HeardAll
<1>18. ASSUME NEW p \in Post, Posted(p)', Author[p] \notin dropped
       PROVE  /\ Known(cs, Author[p])
              /\ \A j \in Places(cs, Author[p]) : sent[p] <= cs[j].last_timestamp
              /\ \A j, k \in DOMAIN log' : log'[j] = p /\ log'[k] = p => j = k
  <2> DEFINE c == Author[p]
  <2>0. sent[p] \in Nat
    BY <1>5
  <2>1. CASE Posted(p)
    <3>1. /\ Known(clients, c)
          /\ \A j \in Places(clients, c) : sent[p] <= clients[j].last_timestamp
          /\ \A j, k \in DOMAIN log : log[j] = p /\ log[k] = p => j = k
      BY <1>18, <2>1 DEF OInv, Told, PostedBefore
    <3>2. Known(cs, c) /\ \A j \in Places(cs, c) : j \in Places(clients, c)
      BY <1>9, <3>1 DEF Known, Places
    <3>3. ASSUME NEW j \in Places(cs, c)
          PROVE  sent[p] <= cs[j].last_timestamp
      <4>1. sent[p] <= clients[j].last_timestamp /\ j \in 0 .. num_clients - 1
        BY <3>1, <3>2 DEF Places
      <4> QED BY <1>2, <1>8, <1>9, <2>0, <4>1
    <3>4. CASE log' = log
      BY <3>1, <3>2, <3>3, <3>4
    <3>5. CASE log' = Append(log, q) /\ m.time # clients[i].last_timestamp
      <4>1. p # q
        <5> SUFFICES ASSUME p = q
                     PROVE  FALSE
          OBVIOUS
        <5>1. i \in Places(clients, c)
          BY <1>3, <1>8 DEF Places
        <5>2. sent[p] <= clients[i].last_timestamp /\ sent[p] = m.time
          BY <1>3, <3>1, <5>1
        <5> QED BY <1>2, <1>8, <1>9, <3>5, <5>2
      <4>2. /\ DOMAIN log' = 1 .. Len(log) + 1 /\ DOMAIN log = 1 .. Len(log)
            /\ log'[Len(log) + 1] = q /\ \A k \in 1 .. Len(log) : log'[k] = log[k]
        BY <1>2, <1>3, <3>5
      <4>3. \A k \in 1 .. Len(log) + 1 : k \in 1 .. Len(log) \/ k = Len(log) + 1
        BY <1>2
      <4>4. \A j, k \in DOMAIN log' : log'[j] = p /\ log'[k] = p => j = k
        BY <3>1, <4>1, <4>2, <4>3
      <4> QED BY <3>2, <3>3, <4>4
    <3> QED BY <1>10, <3>4, <3>5
  <2>2. CASE ~Posted(p)
    <3>1. p = q /\ log' = Append(log, q) /\ c = d
      BY <1>3, <1>10, <1>11, <1>18, <2>2
    <3>2. \A j \in Places(cs, c) : j = i
      BY <1>8, <1>9, <3>1 DEF Places
    <3>3. Known(cs, c)
      BY <1>8, <3>1 DEF Known, Places
    <3>4. /\ DOMAIN log' = 1 .. Len(log) + 1 /\ DOMAIN log = 1 .. Len(log)
          /\ \A k \in 1 .. Len(log) : log'[k] = log[k]
      BY <1>2, <1>3, <3>1
    <3>5. \A k \in 1 .. Len(log) + 1 : k \in 1 .. Len(log) \/ k = Len(log) + 1
      BY <1>2
    <3>6. \A j, k \in DOMAIN log' : log'[j] = p /\ log'[k] = p => j = k
      BY <2>2, <3>4, <3>5 DEF Posted
    <3>7. sent[p] <= cs[i].last_timestamp
      BY <1>2, <1>3, <1>8, <3>1
    <3> QED BY <3>2, <3>3, <3>6, <3>7
  <2> QED BY <2>1, <2>2
<1>19. PostedBefore'
  <2> SUFFICES ASSUME NEW p \in Post, Posted(p)'
               PROVE  (/\ sent[p] # 0
                       /\ Author[p] \notin dropped =>
                            /\ Known(clients, Author[p])
                            /\ \A j \in Places(clients, Author[p]) :
                                 sent[p] <= clients[j].last_timestamp
                            /\ \A j, k \in DOMAIN log : log[j] = p /\ log[k] = p => j = k)'
    BY DEF PostedBefore
  <2>1. sent[p] # 0
    BY <1>3, <1>11 DEF OInv, Told, PostedBefore
  <2>2. Known(clients, Author[p])' = Known(cs, Author[p])
        /\ Places(clients, Author[p])' = Places(cs, Author[p])
    BY <1>5 DEF Known, Places
  <2> QED BY <1>5, <1>13, <1>18, <2>1, <2>2
<1> QED BY <1>14, <1>15, <1>17, <1>19 DEF Told

------------------------------------------------------------------------
(* The devices.                                                             *)
LEMMA DeviceTold ==
  ASSUME OInv, UNCHANGED <<server, time, sent, log, dropped, shared>>,
         \A x \in air' : x \in air \/ Stamped(x),
         \A p \in confirmed' \ shared : p \in confirmed \/ (MayWrite(Author[p]) => Posted(p))
  PROVE  Told'
<1>1. /\ \A p : Posted(p)' <=> Posted(p)
      /\ \A d, x : TextsAt(d, x)' = TextsAt(d, x) /\ (Used(d, x)' <=> Used(d, x))
  BY DEF Posted, TextsAt, Used
<1>2. UNCHANGED <<clients, num_clients, s_contacts>>
  BY DEF server, contacts
<1>3. Stamps' /\ Confirmed' /\ WritersSaved(s_contacts)'
  BY <1>1, <1>2 DEF Stamps, Confirmed, WritersSaved, MayWrite, OInv, Told
<1>4. \A x : Stamped(x) => Stamped(x)'
  BY <1>1 DEF Stamped
<1>5. AllStamped(air)'
  BY <1>4 DEF AllStamped, OInv, Told
<1>6. HeardAll'
  BY <1>1, <1>2 DEF HeardAll, Distinct, Heard, OInv, Told
<1>7. PostedBefore'
  BY <1>1, <1>2 DEF PostedBefore, Known, Places, OInv, Told
<1> QED BY <1>3, <1>5, <1>6, <1>7 DEF Told

(* What a device sends is told apart from all it has sent, or in shared.      *)
LEMMA SendTold ==
  ASSUME OInv, NEW d \in Device, NEW m, NEW S, NEW now \in Nat, Sends(d, m, S, now),
         m.kind \in FromDevice, m.from = d, m.time \in Nat, 0 < m.time, time[d] <= now,
         \/ m.kind # "text" /\ sent' = sent /\ m.time <= now
         \/ /\ m.kind = "text" /\ m.post \in Post /\ Author[m.post] = d /\ sent[m.post] = 0
            /\ S = {m.post} /\ sent' = [sent EXCEPT ![m.post] = m.time]
  PROVE  Told'
<1>1. /\ time \in [Device -> Nat] /\ sent \in [Post -> Nat] /\ Author \in [Post -> Device]
      /\ time' = [time EXCEPT ![d] = now] /\ air' = air \union {m}
      /\ shared' = shared \union TextsAt(d, m.time) \union {p \in S : Used(d, m.time)}
      /\ UNCHANGED <<clients, num_clients, s_contacts, confirmed, log, dropped>>
  BY RoomConstants DEF OInv, IInv, TypeOK, Sends, server, contacts
<1>2. \A p : Posted(p)' <=> Posted(p)
  BY <1>1 DEF Posted
<1>3. \A c \in Device : time[c] \in Nat /\ time'[c] \in Nat /\ time[c] <= time'[c]
  BY <1>1
(* Only a text sent now gets a timestamp; if it is in use the text is shared. *)
<1>4. \A p \in Post : /\ sent[p] \in Nat /\ Author[p] \in Device
                      /\ \/ sent'[p] = sent[p]
                         \/ /\ Author[p] = d /\ sent[p] = 0 /\ sent'[p] = m.time /\ m.kind = "text"
                            /\ p = m.post /\ (Used(d, m.time) => p \in shared')
  BY <1>1
<1>5. \A c \in Device, x \in Nat : Used(c, x) => Used(c, x)'
  <2> SUFFICES ASSUME NEW c \in Device, NEW x \in Nat, Used(c, x)
               PROVE  Used(c, x)'
    OBVIOUS
  <2>1. CASE x <= time[c]
    BY <1>3, <2>1 DEF Used
  <2>2. CASE x > time[c]
    <3>1. PICK p \in Post : Author[p] = c /\ sent[p] = x
      BY <1>3, <2>2 DEF Used, TextsAt
    <3>2. sent'[p] = x
      BY <1>3, <1>4, <2>2, <3>1
    <3>3. p \in TextsAt(c, x)'
      BY <3>1, <3>2 DEF TextsAt
    <3> QED BY <3>3 DEF Used
  <2> QED BY <1>3, <2>1, <2>2
<1>6. Stamps'
  <2> SUFFICES ASSUME NEW p \in Post, NEW q \in Post, p # q, Author[p] = Author[q],
                      sent'[p] = sent'[q], sent'[p] # 0
               PROVE  p \in shared'
    BY DEF Stamps
  <2>1. CASE sent'[p] = sent[p] /\ sent'[q] = sent[q]
    BY <1>1, <2>1 DEF OInv, Told, Stamps
  <2>2. CASE sent'[p] # sent[p]
    <3>1. Author[q] = d /\ sent[q] = m.time
      BY <1>4, <2>2
    <3>2. Used(d, m.time)
      BY <3>1 DEF Used, TextsAt
    <3> QED BY <1>4, <2>2, <3>2
  <2>3. CASE sent'[q] # sent[q]
    <3>1. Author[p] = d /\ sent[p] = m.time
      BY <1>4, <2>3
    <3> QED BY <1>1, <3>1 DEF TextsAt
  <2> QED BY <2>1, <2>2, <2>3
<1>7. ASSUME NEW x \in air
      PROVE  Stamped(x)'
  <2>1. Stamped(x) /\ MessageOK(x)
    BY DEF OInv, IInv, AirOK, Told, AllStamped
  <2>2. x.kind \in FromDevice => /\ x.from \in Device /\ x.time \in Nat /\ 0 < x.time
                                 /\ Used(x.from, x.time) /\ Used(x.from, x.time)'
    BY <1>5, <2>1 DEF MessageOK, Stamped
  <2>3. x.kind = "text" => Author[x.post] = x.from /\ sent'[x.post] = x.time
    <3> SUFFICES ASSUME x.kind = "text"
                 PROVE  Author[x.post] = x.from /\ sent'[x.post] = x.time
      OBVIOUS
    <3>1. x.kind \in FromDevice /\ x.post \in Post /\ Author[x.post] = x.from
            /\ sent[x.post] = x.time
      BY <2>1 DEF MessageOK, Stamped, FromDevice
    <3> QED BY <1>4, <2>2, <3>1
  <2>4. x.kind \in FromDevice \ {"text"} => TextsAt(x.from, x.time)' \subseteq shared'
    <3> SUFFICES ASSUME x.kind \in FromDevice \ {"text"}, NEW p \in Post, Author[p] = x.from,
                        sent'[p] = x.time
                 PROVE  p \in shared'
      BY DEF TextsAt
    <3>1. CASE sent'[p] = sent[p]
      BY <1>1, <2>1, <3>1 DEF Stamped, TextsAt
    <3>2. CASE sent'[p] # sent[p]
      BY <1>4, <2>2, <3>2
    <3> QED BY <3>1, <3>2
  <2>5. x.kind = "confirm" /\ MayWrite(Author[x.post]) /\ x.post \notin shared' => Posted(x.post)'
    BY <1>1, <1>2, <2>1 DEF Stamped
  <2> QED BY <2>2, <2>3, <2>4, <2>5 DEF Stamped, MayWrite
<1>8. Stamped(m)'
  <2>1. Used(d, m.time)'
    <3>1. CASE m.kind # "text"
      BY <1>1, <3>1 DEF Used
    <3>2. CASE m.kind = "text"
      BY <1>1, <3>2 DEF Used, TextsAt
    <3> QED BY <3>1, <3>2
  <2>2. m.kind = "text" => Author[m.post] = m.from /\ sent'[m.post] = m.time
    BY <1>1
  <2>3. m.kind # "text" => TextsAt(d, m.time)' \subseteq shared'
    BY <1>1 DEF TextsAt
  <2>4. m.kind # "confirm"
    BY DEF FromDevice
  <2> QED BY <2>1, <2>2, <2>3, <2>4 DEF Stamped
<1>9. AllStamped(air)'
  BY <1>1, <1>7, <1>8 DEF AllStamped
<1>10. ASSUME NEW i \in 0 .. num_clients - 1
       PROVE  Heard(clients[i])'
  <2>1. Heard(clients[i]) /\ clients[i].id \in Device /\ clients[i].last_timestamp \in Nat
    <3>1. ListOK(clients, num_clients) /\ i \in Idx
      BY InIdx DEF OInv, IInv, TypeOK
    <3> QED BY <3>1 DEF ListOK, Client, OInv, Told, HeardAll
  <2> DEFINE e == clients[i]
  <2> HIDE DEF e
  <2>2. Used(e.id, e.last_timestamp) /\ e.id \in Device /\ e.last_timestamp \in Nat
    BY <2>1 DEF Heard, e
  <2>3. Used(e.id, e.last_timestamp)'
    <3>1. e' = e
      BY <1>1 DEF e
    <3>2. \A c \in Device, x \in Nat : Used(c, x) => (x <= time'[c] \/ { p \in Post : Author[p] = c /\ sent'[p] = x } # {})
      BY <1>5 DEF Used, TextsAt
    <3> QED BY <2>2, <3>1, <3>2 DEF Used, TextsAt
  <2>4. MayWrite(e.id) => /\ e.permissions # Guest
                          /\ \A p \in Post \ shared' : Author[p] = e.id /\ sent'[p] # 0
                               /\ sent'[p] = e.last_timestamp => Posted(p)
    BY <1>1, <1>4, <2>1, <2>2 DEF Heard, e
  <2>5. e' = e
    BY <1>1 DEF e
  <2> QED BY <1>1, <1>2, <2>3, <2>4, <2>5 DEF Heard, MayWrite, e
<1>11. HeardAll' /\ Confirmed' /\ WritersSaved(s_contacts)'
  BY <1>1, <1>2, <1>10 DEF HeardAll, Distinct, Confirmed, WritersSaved, MayWrite, OInv, Told
<1>12. PostedBefore'
  <2>1. \A p \in Post : Posted(p) => sent'[p] = sent[p]
    BY <1>4 DEF PostedBefore, OInv, Told
  <2>2. \A c : Known(clients, c)' = Known(clients, c) /\ Places(clients, c)' = Places(clients, c)
    BY <1>1 DEF Known, Places
  <2> QED BY <1>1, <1>2, <2>1, <2>2 DEF PostedBefore, OInv, Told
<1> QED BY <1>6, <1>9, <1>11, <1>12 DEF Told

LEMMA UniqueTold ==
  ASSUME OInv, NEW d \in Device, NEW m, SendsUnique(d, m), m.kind \in FromDevice \ {"text"},
         m.from = d, m.time = time[d] + 1
  PROVE  Told'
<1>1. Sends(d, m, {}, time[d] + 1) /\ sent' = sent
  BY DEF SendsUnique
<1>2. time[d] \in Nat
  BY DEF OInv, IInv, TypeOK
<1>3. \A now : now = time[d] + 1 => now \in Nat /\ m.time = now /\ 0 < now /\ time[d] <= now
  BY <1>2
<1> QED BY <1>1, <1>3, SendTold

LEMMA DevicesTold ==
  ASSUME OInv, DeviceNext
  PROVE  Told'
<1>1. ASSUME NEW d \in Device, SendLogin(d) \/ SendKeepAlive(d) \/ SendRequest(d)
      PROVE  Told'
  <2> PICK m : /\ SendsUnique(d, m)
               /\ m \in { [kind |-> k, from |-> d, time |-> time[d] + 1, since |-> mark[d]] :
                         k \in {"login", "keepalive"} }
                    \union { [kind |-> "request", from |-> d, time |-> time[d] + 1] }
    BY <1>1 DEF SendLogin, SendKeepAlive, SendRequest
  <2>1. m.kind \in FromDevice \ {"text"} /\ m.from = d /\ m.time = time[d] + 1
    BY DEF FromDevice
  <2> QED BY <2>1, UniqueTold
<1>2. ASSUME NEW d \in Device, SendCommand(d)
      PROVE  Told'
  <2> PICK c \in Commands :
        SendsUnique(d, [kind |-> "command", from |-> d, time |-> time[d] + 1,
                        target |-> c[1], perm |-> c[2]])
    BY <1>2 DEF SendCommand
  <2> DEFINE m == [kind |-> "command", from |-> d, time |-> time[d] + 1,
                   target |-> c[1], perm |-> c[2]]
  <2>1. m.kind \in FromDevice \ {"text"} /\ m.from = d /\ m.time = time[d] + 1
    BY DEF FromDevice
  <2>2. SendsUnique(d, m)
    OBVIOUS
  <2> HIDE DEF m
  <2> QED BY <2>1, <2>2, UniqueTold
<1>3. ASSUME NEW p \in Post, SendText(p)
      PROVE  Told'
  <2> DEFINE d == Author[p]
  <2>1. d \in Device /\ TypeOK
    BY RoomConstants DEF OInv, IInv
  <2> PICK t \in Nat, now \in Nat :
        /\ 0 < t /\ time[d] <= now /\ sent[p] = 0
        /\ Sends(d, [kind |-> "text", from |-> d, time |-> t, post |-> p], {p}, now)
        /\ sent' = [sent EXCEPT ![p] = t]
    BY <1>3, <2>1, TextIsSent
  <2> DEFINE m == [kind |-> "text", from |-> d, time |-> t, post |-> p]
  <2>2. m.kind = "text" /\ m.kind \in FromDevice /\ m.from = d /\ m.time = t /\ m.post = p
    BY DEF FromDevice
  <2>3. Sends(d, m, {p}, now) /\ Author[p] = d
    OBVIOUS
  <2> HIDE DEF d, m
  <2> QED BY <2>1, <2>2, <2>3, SendTold
<1>4. ASSUME NEW p \in Post, RetryText(p)
      PROVE  Told'
  <2> DEFINE m == [kind |-> "text", from |-> Author[p], time |-> sent[p], post |-> p]
  <2>1. /\ air' = air \union {m} /\ sent[p] # 0
        /\ UNCHANGED <<server, time, sent, log, dropped, confirmed, shared>>
    BY <1>4 DEF RetryText
  <2>2. Stamped(m)
    <3>1. sent[p] \in Nat /\ p \in TextsAt(Author[p], sent[p])
      BY DEF OInv, IInv, TypeOK, TextsAt
    <3> QED BY <2>1, <3>1 DEF Stamped, FromDevice, Used
  <2> HIDE DEF m
  <2>3. \A x \in air' : x \in air \/ Stamped(x)
    BY <2>1, <2>2
  <2> QED BY <2>1, <2>3, DeviceTold
<1>5. ASSUME NEW d \in Device, ReceivePush(d)
      PROVE  Told'
  <2> PICK m \in Received("push") : ReceivePush(d)!(m)
    BY <1>5 DEF ReceivePush
  <2> DEFINE a == [kind |-> "ack", from |-> d, ack |-> m.ack]
  <2>1. Stamped(a)
    BY DEF Stamped, FromDevice
  <2>2. \A x \in air' : x \in air \/ x = a
    BY DEF Answers
  <2> HIDE DEF a
  <2>3. \A x \in air' : x \in air \/ Stamped(x)
    BY <2>1, <2>2
  <2> QED BY <2>3, DeviceTold
<1>6. ASSUME NEW d \in Device, Restart(d)
      PROVE  Told'
  BY <1>6, DeviceTold DEF Restart
<1>7. ASSUME ReceiveConfirm
      PROVE  Told'
  <2> PICK m \in Received("confirm") : ReceiveConfirm!(m)
    BY <1>7 DEF ReceiveConfirm
  <2>1. MayWrite(Author[m.post]) /\ m.post \notin shared => Posted(m.post)
    BY DEF Received, OInv, Told, AllStamped, Stamped
  <2>2. \A x \in air' : x \in air
    BY DEF Takes
  <2> QED BY <2>1, <2>2, DeviceTold
<1> QED BY <1>1, <1>2, <1>3, <1>4, <1>5, <1>6, <1>7 DEF DeviceNext

LEMMA InitTold == Init => OInv
<1> SUFFICES ASSUME Init
             PROVE  Told
  BY InitHolds DEF OInv
<1>1. /\ num_clients = 0 /\ air = {} /\ s_contacts = << >> /\ log = << >> /\ confirmed = {}
      /\ \A p \in Post : sent[p] = 0 /\ time[Author[p]] = 0
  BY RoomConstants DEF Init, ServerInit
<1>2. \A p : ~Posted(p)
  BY <1>1 DEF Posted
<1> QED BY <1>1, <1>2 DEF Told, Stamps, AllStamped, HeardAll, Distinct, WritersSaved,
      PostedBefore, Confirmed

LEMMA NextTold == OInv /\ [Next]_vars => OInv'
<1> SUFFICES ASSUME OInv, [Next]_vars
             PROVE  OInv'
  OBVIOUS
<1>1. IInv'
  BY NextKeeps DEF OInv
<1>2. CASE ServerStep(ServerNext) /\ HandleText
  <2>1. ServerStep(HandleText)
    BY <1>2 DEF ServerStep
  <2> QED BY <1>1, <2>1, TextTold DEF OInv
<1>3. CASE ServerStep(ServerNext) /\ ~HandleText
  BY <1>1, <1>3, QuietTold DEF OInv
<1>4. CASE ServerStep(Save)
  BY <1>1, <1>4, SaveTold DEF OInv
<1>5. CASE ServerRestart
  BY <1>1, <1>5, RestartTold DEF OInv
<1>6. CASE DeviceNext
  BY <1>1, <1>6, DevicesTold DEF OInv
<1>7. CASE UNCHANGED vars
  <2>1. UNCHANGED <<server, time, sent, log, dropped, confirmed, shared>> /\ air' = air
    BY <1>7 DEF vars, devices
  <2>2. Told'
    BY <2>1, DeviceTold
  <2> QED BY <1>1, <2>2 DEF OInv
<1> QED BY <1>2, <1>3, <1>4, <1>5, <1>6, <1>7 DEF Next, ServerStep

LEMMA ToldAlways == Spec => []OInv
BY InitTold, NextTold, PTL DEF Spec

(* Whatever is lost, repeated or overtaken, a text is posted once as long as  *)
(* its author stays on the list (MyMesh.cpp:434): every other message of the *)
(* author between the text and its retries only moves last_timestamp on.     *)
THEOREM TextsArePostedOnce == Spec => []PostedOnce
<1>1. OInv => PostedOnce
  <2> SUFFICES ASSUME OInv, NEW p \in Post, Author[p] \notin dropped
               PROVE  Cardinality({ i \in DOMAIN log : log[i] = p }) <= 1
    BY DEF PostedOnce
  <2> DEFINE S == { i \in DOMAIN log : log[i] = p }
  <2>1. CASE S = {}
    BY <2>1, FS_EmptySet
  <2>2. CASE S # {}
    <3>1. PICK k \in S : TRUE
      BY <2>2
    <3>2. Posted(p)
      BY <3>1 DEF Posted
    <3>3. S = {k}
      BY <3>1, <3>2 DEF OInv, Told, PostedBefore
    <3>4. Cardinality(S) = 1
      <4> HIDE DEF S
      <4> QED BY <3>3, FS_Singleton
    <3> QED BY <3>4
  <2> QED BY <2>1, <2>2
<1> QED BY <1>1, ToldAlways, PTL

(* No author has a password that lets it only read.                          *)
AuthorsMayWrite == \A p \in Post : MayWrite(Author[p])

(* What is acknowledged was posted (MyMesh.cpp:445), in every room whose      *)
(* authors may write from their first login, but for the texts that share    *)
(* their timestamp with another message of their author: ConfirmedIsPosted    *)
(* says nothing of these, which MyMesh.cpp:435 may take for retries of texts *)
(* it never had.  Without the assumption a text may come while its author is *)
(* a guest, and be acknowledged as a retry after an admin has let the author *)
(* write.                                                                   *)
THEOREM AcksAreTrue ==
  ASSUME AuthorsMayWrite
  PROVE  Spec => []ConfirmedIsPosted
<1>1. OInv => ConfirmedIsPosted
  BY DEF OInv, IInv, TypeOK, Told, Confirmed, AuthorsMayWrite, Posted, ConfirmedIsPosted
<1> QED BY <1>1, ToldAlways, PTL
========================================================================
