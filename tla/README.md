# MeshCoreNG: a TLA+ model

MeshCoreNG is C++ firmware for LoRa radio nodes that form a mesh: repeaters
flood and route packets, companions and room servers send and keep messages,
bridges join distant meshes.  This directory models the part every firmware
image shares, the radio's driver, the room server and the KISS modem, checks
them with TLC on small instances and proves the most important results with
TLAPS for every instance.

* [The system](#the-system): its components and what makes each one hard
* [What is modelled](#what-is-modelled): modules, and how they follow the code
* [Runs](#runs): what each one asks, its bounds, what it shows
* [Disagreements with the documentation](#disagreements-with-the-documentation)
* [Fairness](#fairness)
* [Proofs](#proofs)
* [Not modelled](#not-modelled) and [Plan](#plan)

`PROJECT.json` lists components, runs, mutants, the lines each definition
models, findings, hazards and theorems.


## The system

A node is one program: `setup()`, then `loop()` for ever.  There is no
operating system below most boards; concurrency comes from the radio's
interrupt, from the BLE and Wi-Fi tasks of ESP32 and nRF52, and above all from
the other nodes.  The layers, from the bottom:

| Component | State | Operations | Correct when |
|---|---|---|---|
| Packet pool and queues (`helpers/StaticPoolPacketManager`) | tables of unused, outbound and delayed inbound packets with priority and time | `allocNew`, `free`, `queueOutbound`, `getNextOutbound`, `removeOutboundByIdx`, `queueInbound`, `getNextInbound` | no packet is lost, handed out twice, or in two queues; order is by time, then priority |
| Dispatcher (`Dispatcher.cpp`) | the packet on the air and its deadline, `next_tx_time`, `cad_busy_start`, airtime budget | `loop` (outbound, delayed inbound, `checkRecv`, `checkSend`), `obtainNewPacket`, `sendPacket`, `releasePacket` | whatever is queued is sent, airtime respects the duty cycle, nothing waits for ever, across clock wraps and radio failures |
| Mesh routing (`Mesh.cpp`, `SimpleMeshTables.h`) | ring of hashes of packets seen; duplicate counts in queued packets | `onRecvPacket`, `routeRecvPacket`, `sendFlood`, `sendDirect`, `recordDuplicateForSuppression`, multiple ACKs, TRACE | a flood reaches whom it can, ends, stays in its limits; paths are real |
| Repeater policy (`simple_repeater/MyMesh.cpp`) | preferences, statistics, neighbours | `allowPacketForward`, `isLooped`, remote administration | loops are cut without cutting reach |
| Radio driver (`radiolib/RadioLibWrappers.cpp`) | `state` shared with the interrupt handler, noise floor | `recvRaw`, `startSendRaw`, `isSendComplete`, `isChannelActive`, interrupt handler | no received packet is dropped or invented by a lost or stale flag |
| Chat mesh, companion (`BaseChatMesh.cpp`, `companion_radio/MyMesh.cpp`) | contacts with their paths, pending ACKs, connections, offline queue | send, receive, path learning, keep-alive, serial frame protocol | timeouts and late ACKs agree; nothing is acknowledged that was not received |
| Room server (`simple_room_server/MyMesh.cpp`) | ring of posts, per-client `sync_since` and pending push, round robin | `addPost`, `pushPostToClient`, `processAck`, `loop` | each client gets each post, once, unless it is overwritten |
| Access list, regions, preferences (`ClientACL.cpp`, `RegionMap.cpp`, `CommonCLI.cpp`) | tables in memory and in files | load, save, evict | what was set is what is there after a restart |
| KISS modem (`kiss_modem/KissModem.cpp`) | receive state, output frame queue, pending replies, transmit state | `loop`, `processFrame`, `queueFrame`, `tryFlushFrames` | each command is answered once, frames come out whole |
| Serial interfaces (`SerialBLEInterface.cpp`, `MultiSerialInterface.h`) | send and receive queues, connection flags set by callbacks | `checkRecvFrame`, `writeFrame`, callbacks | no frame crosses from one session to the next |
| Bridges (`bridges/*`, `RateLimiter.h`) | sockets, seen tables, rate windows | inject, export | no echo, limits hold, the pool is not shared unsafely |

How they interact: `Mesh` and everything above it are subclasses of
`Dispatcher`; `Dispatcher::loop` calls `onRecvPacket`, whose handlers queue and
take back packets while the loop is working on another; the loop polls the
radio driver, whose state the interrupt handler writes; nodes meet on the air.

What is hard here, and what the properties are for (`hazards` in
`PROJECT.json` gives each one its line): ownership of packets passed by
pointer; timers compared on a millisecond clock that wraps, and written at
some places only; a budget in integer arithmetic; a send that never ends; a
busy channel; copies of one packet reaching a node in any order while its own
relay waits; tables that forget; restarts; and a six-bit hop count.


## What is modelled

| Module | Models |
|---|---|
| `Millis` | `millisHasNowPassed`, `futureMillis` and the wrapping difference: a clock of `W` values, half of which count as future |
| `PacketQueue` | the two classes of `StaticPoolPacketManager`: tables as sequences of `[pkt, pri, at]`, one operator per method, refusals included |
| `PacketLifecycle` | *abstract*: where a packet of the pool is, and the only ways it may move |
| `Dispatcher` | `Dispatcher::loop` in its four parts, the environment (clock, radio, channel), the calls of the layers above |
| `DispatcherHistory` | the same with history: uptime, airtime used and charged, since when the channel is busy and the queue waits |
| `FloodSpread` | *abstract*: who knows a message, and who may learn it from whom |
| `MeshFlood` | flooding: `sendFlood`, the flood part of `onRecvPacket`, `hasSeen`, `routeRecvPacket`, `recordDuplicateForSuppression`, the seen table, the repeater's forwarding decision |
| `MeshFloodHistory` | the same with history: how often a node sent a message, which relays were cancelled |
| `PostDelivery` | *abstract*: a log of posts, the latest of which are kept, until a restart, and delivered in order |
| `RoomServer` | the room server's posts, access list, login, texts, keep-alives, ACKs and round robin; `ClientACL`'s table and its file |
| `Room` | the server with the devices that use it: `BaseChatMesh`'s login, keep-alive, texts and pushed posts; restarts of either side |
| `RadioDriver` | the SX1262 wrapper: `recvRaw`, `isReceiving`, `isChannelActive`, `startSendRaw`, `isSendComplete`, AGC reset, noise floor, the interrupt handler, and the chip |
| `KissModem` | the KISS modem: its queue of frames, pending answers, transmission and the main loop around it |
| `MC*` | constants for TLC |
| `*Proofs` | theorems |

**Dispatcher.**  A pass of `loop()` is four steps of `pc` (`tx`, `inbound`,
`recv`, `send`); between the steps the clock may tick (at most `MaxLag` times a
pass), the radio may finish and the channel change.  The layers above act
between two passes, or inside `ProcessRecvPacket`, which is `processRecvPacket`
with the effects an `onRecvPacket` may have on the queues: release, keep or
retransmit the packet, take a queued one back (duplicate suppression), queue
one or two of its own.  `TrySend`, `DeferredByCAD`, `TooSoon`, `BudgetTooLow`
and `NothingToSend` are the returns of `checkSend` in their order.  Airtimes,
delays and priorities are chosen from sets; payloads are left out.  Left out
too are statistics, error flags, noise-floor calibration and AGC reset, and the
branch for packets that are too long, which no queued packet can reach.

**Flood.**  A packet on its way is a message, the size of its hashes and its
path.  What a node has heard it processes in any order (the score delay), what
it has queued it sends in any order (random delays, priorities, CAD); these are
what the Dispatcher shows of itself to a flood, and `QueueAdvances` and
`DelayedIsProcessed` are why `Fairness` may be assumed.  A packet lost on the air is one that
stays in `heard`: in a safety property nothing obliges a node to process it.
`Recorded` models `setPathHashCount` by what it does to its bit field, overflow
included.  The hash of a packet covers its payload only, so that all copies of
a message have one hash; collisions of the eight-byte hash are left out.
`allowPacketForward` is modelled as far as loop detection (a preference of each
repeater: `LoopDetect` is the set of those that have it on), hop limits and the
relay probability (`MayDecline`); block lists, regions, nearby-client
suppression and bridges, which only say no more often, are left out.  Two
queued copies with the same path and count, or two heard with the same path, are one.


**Room.**  The server is one process that handles what it receives and takes
turns: `LoopTurn` is the room part of `MyMesh::loop`, one client at a time.
`late` is the set of clients whose ACK timeout has passed when a turn
comes: any set of those that wait, so that timeouts race ACKs in every way.
When a turn comes (`next_push`, put off by logins and new posts) is left open as well,
so that the model has more behaviours than the code.  Packets between a client and the
server are a set: received in any order, or lost.  The clock is a number of
seconds; `Unique` is `getCurrentTimeUnique`, which keeps the timestamps of posts
in order.  The access list keeps its table with the entry that a removal
leaves behind its end, since `next_client_idx` may still point there.  A device
stamps its logins and requests 1, 2, 3 (`getCurrentTimeUnique`).  The timestamp of a text
comes from the caller of `sendMessage` (`BaseChatMesh.cpp:579`): the texts in `Sharing`
have any up to the next one, also those of earlier messages and of messages to come; a
repeated text keeps its stamp.  `shared` are the texts whose timestamp
another message of their author has.  A pushed text that the display rejects counts
as received, as it does for its ACK.  The hash
that is an ACK is the timestamp and the attempt it is made of; one attempt
for all pushes is the hardest case, where an ACK of an earlier push fits the next.
Of the commands only `setperm` is modelled.  `Acked` names the texts whose ACK is
followed to their author.

The server may restart at any point.  Its posts are in memory and are gone; the
access list is what the file `s_contacts` has of it: admins only (`saveFilter`),
with their marks and permissions, `last_activity` and `last_timestamp` zero, so
that they are served once they log in.  The list is written some time after a login
or `setperm`, as a rule with other changes in between, and the restart may come
after any entry of it.  `Save` is a step only while a restart may still read what it writes.
The clock goes on past the timestamps given out before, or starts anew
(`StartOfClock`), as `VolatileRTCClock` does at every boot (`ArduinoHelpers.h:11`) and
the ESP32's at power-on; in the second case new posts may be earlier than the
mark a device has, has sent, or has in the file.  These devices are `ahead`;
`NothingSkipped` and `DeliversInOrder` promise them nothing, `AckAdvances` and `PostedOnce` hold for them too.  The clock is not set while the server runs (`clock sync`, `time`:
`CommonCLI.cpp:915-955`), and a device's clock goes on across its restarts.
`ClientACL::clear` is left out.

**Radio.**  The driver keeps one word (`state` and the bit `intReady`) that the
interrupt handler sets and its calls overwrite; the chip has its flags `irq`, of
which `map` enables some and puts one on the interrupt line.  A call is as many
steps as it has commands that the chip may act between; `recvRaw` has one for each
of its two looks at the word (`RecvRaw`, lines 121-136, and `LooksAgain`, line 138), and the
interrupt may come between them.  A tick is longer than
the commands of one call and no longer than the shortest payload, so that time passes
between calls and while a scan is awaited only.  The program that makes the
calls does so in any order `Dispatcher::loop` or the KISS modem's main loop
may, and in more.  Commands fail where the code checks their result;
`finishTransmit` and the `standby` on the way out of an error are taken to work.
`unread` is ours: the chip's buffer holds a packet nobody has read.  Left out are
the deep-sleep wake-up, the busy poll while sending (no scan happens there), the
value of the noise floor, and the coincidence of `millis()` being 0, which
`_activityAt` takes for unset.  The setting `_cad_enabled` is stored and never
read; `_threshold` alone decides on the scan (`ScanEnabled`).  The wrappers of the
SX1268, LLCC68, STM32WL and LR1110 have the same `isReceiving`.

**KISS modem.**  A pass of the main loop goes through `pc`: write (`loop`), handle
what the host sent (`host`), one step of the transmission (`tx`), write again
(`flush`), the error for refused answers (`refusal`), read the radio (`radio`).
A frame leaves the queue with its last byte; how many bytes the serial port takes is
open at every write, and so is what the host asks for and when.  A command is
the one answer it queues; escaping of bytes, what the answers say, settings
that change no transition (`TXtail`, which is stored and not used, among them) and
`SetRadio` during a send are left out.  Timers are the flag `elapsed`.  While a packet is
sent, `isSendComplete` is asked in one step (`TxSent`, `TxNotSent`) and the timer looked at
in the next (`TxTimesOut`, `TxGoesOn`), as in lines 440 and 443; the radio may end the send between.
`owed`, `completed`, `untold` and `metaNext` are what the host knows, for the properties;
`raced` are the packets whose send ended between the two.


## Runs

| Run | Asks | Result |
|---|---|---|
| `dispatcher` | Do packets stay in one place, move only along `PacketLifecycle`'s ways, and come back from the air and from the delayed queue? Two packets, a clock of 6, a channel that others use, a radio that may hang or refuse. | holds |
| `dispatcher_history` | Is the charged airtime within the duty cycle, the real airtime within the known overdraft of it, the wait of a ready queue bounded? One packet reused for every send, passes of up to two ticks, up to 34 ticks. | holds |
| `idle_timer_doc` | `QueueAdvances` on a clock of 32 after half of it without a send | violated |
| `mesh_flood` | Two messages over three repeaters in a row, tables of one entry, a restart anywhere, suppression, repeaters that may decline; one repeater has loop detection on, and the two that relay the first message have it off: are paths real, does the one stay out of loops, do the floods end? | holds |
| `mesh_flood_reach` | Five nodes, two messages, a threshold of one: does the exempt message reach everybody it can, does the other stay within its hops, is each message sent at most once by a node, is every cancelled relay covered by enough neighbours, and does it all implement `FloodSpread`? | holds |
| `hop_limit_doc` | `FloodStaysWithinHops` at the largest hop count | violated |
| `room` | Two posts, a reader that logs in, keeps alive, restarts with an older mark; a server that restarts with an older or half-written access list; two packets in the air at a time, so that they overtake each other; a clock that goes on or starts anew at the restart: does no client skip a post, does an accepted ACK never move a client back? | holds; of the skipped posts not for clients `ahead` |
| `room_ring` | Three posts in a ring of two, a reader that logs in when it likes, a restart of either side, as in `room`: does what the ring still holds arrive in order, without a gap (`PostDelivery`)? | holds, but for clients `ahead` |
| `room_served` | A post with any timestamp, which is repeated; a reader that is removed, evicted by a new client, let in again with a blank password; pushes without a free packet: is the post posted once, is what is acknowledged posted, and does a client that goes on being served get it? | holds; of the ACKs not for texts `shared` |
| `radio` | All calls in any order, every command that may fail failing, receptions that break off, interrupts between any two commands and between the two looks at the word: is the chip set to report the next packet whenever the driver's word says RX, does the bit mean what it is taken for, is no packet thrown away by a scan or a reset, does the radio listen again, do the flags of a broken reception expire? | holds |
| `radio_overrun_doc` | `ReturnsWhatArrived`: does `recvRaw` never start the receiver over a packet it has not read? | violated |
| `kiss` | A host that asks for anything and reads what it likes, three packets, a radio that refuses, hangs or finishes late: one result for each packet, true unless the send ended while it was given up, an error after a refused answer, no packet without its `RxMeta`, none refused for lack of a slot, reception never ends | holds |

Each property of a passing run has a mutant: a plausible bug in one mapped
definition, beside it in the module, that makes TLC find the property violated.

**Bounds, and why they suffice.**  Two packets suffice for the pool's
properties: each concerns a packet and the one a handler touches beside it.  The
clock of `dispatcher` is small so that it wraps many times in every behaviour and
every phase between the timers and the wrap is reached; all delays stay below
half the clock, as the code requires of its own.  In `dispatcher_history`
uptime must not wrap, so it ends at `Horizon`, long enough to empty the bucket, to wait
until it is full again and then for a busy channel: the longest wait takes 22 ticks,
one less than `Patience` (with passes of one tick the bound is reached).  The clock
itself (128) is so large that the theorem's `ClockFits` is true of the run.  Budget, retry and airtime
constants are the smallest for which every return of `checkSend` happens.
In `mesh_flood` a table of one entry and two messages make every node forget
a message while copies still circulate, the situation the ring of 160 meets
after 160 packets.  The first message is an advert of `a`, which ignores it, so that only
`b` and `c` relay it, to and fro, and loop detection is off at both: a mutant that does not
record the hops lets it go on for ever.  The second one, from `b`, passes `a`, which has detection
on, and a mutant of `Looped` puts `a` twice in its path; its hop limit keeps the run small.  In
`mesh_flood_reach` the tail behind the triangle is what a wrong cancellation
cuts off, and is one hop longer than the limited message may travel; there the table
holds both messages, since `SentOnce` is about tables large enough.  The
threshold of duplicates is one, stricter than the default two, so that a single
wrongly counted copy shows.  The hop count's range of 64 is scaled to 2 or 4.

The radio's deadlines are 2 and 3 ticks, so that a preamble or header can be
younger than, as old as and older than its deadline, and the two can be told
apart.  The KISS queue has the two slots of the code; with three packets, one is in
hand while the results of two wait.

The rooms have two entries in the access list and two in the ring; three posts
wrap the ring with its scan in the middle, and a third device finds the list
full.  `MaxAir` bounds the packets in the air: two are enough for an ACK and a
keep-alive, or two logins, to overtake each other.  `MaxTime` bounds the messages of
each device; retries are at most one, and so are restarts, of a device or of the server.  `Second` is larger than
`PostSyncDelay`, so that a post waits for it exactly once.  Posts are symmetric in
`room` and `room_ring`, which check no liveness.  The rooms stop when all
messages are sent, hence `CHECK_DEADLOCK FALSE`.


## Disagreements with the documentation

1. **Hop limit** (`hop_limit_doc`, `Packet.h:87`).  `setPathHashCount(64)` ORs
   64 into a six-bit field: at the 64th hop of a flood with one-byte hashes, which
   the default `flood.max` of 64 admits, the path becomes an empty one of
   two-byte hashes.  The flood starts again and the recorded path is gone.
   The documentation promises at most 64 hops.
2. **Stale timer** (`idle_timer_doc`, `Dispatcher.cpp:331`).  `next_tx_time` is
   written only around sends.  After 24.8 days without one it counts as future,
   and the next packet waits up to 24.8 days more.
3. **Overrun** (`radio_overrun_doc`, `RadioLibWrappers.cpp:138`).  `recvRaw` looks at the
   word for the interrupt, and again for the state.  A packet that ends between the
   two is not read, and the receiver is started over it, which clears the chip and then
   the bit: the call returns 0, against `Dispatcher.h:30`, and the packet is lost.

Not a finding, but worth knowing: with suppression on and a threshold of two,
a repeater that alone reaches part of the mesh may cancel its relay once two
of its neighbours have sent the packet, and the part behind it never gets it.
This is why `FloodReachesAll` is stated for messages that are exempt from
suppression; `CancelledIsCovered` is what can be said of the others.


Of the Dispatcher: `updateTxBudget` sets `last_budget_update` to the present
(`Dispatcher.cpp:52`) although the refill was rounded down, so that a node whose passes take
longer than a millisecond gets less than its duty cycle while it waits; and the test
that finds the budget too low postpones the next attempt from the present
(`Dispatcher.cpp:327`), although part of the next unit has passed already.  This is why
`Patience` counts `SlowestUnit` and one unit more than the budget lacks.  A packet is admitted on half the airtime of a full one, and a
bucket that runs dry forgets the rest (`Dispatcher.cpp:134`), so that the real share of
airtime may reach twice the duty cycle; `AiredWithinOverdraft` is the bound that
holds.  `cad_busy_start` outlives the packet it was set for (`Dispatcher.cpp:334`), and a
later packet may be forced into a reception that has just begun.

Of the radio driver: when no poll falls between two packets, `isReceiving` still
remembers the header of the first, and the next poll denies the second, or counts its age from
the first (`CustomSX1262.h:120`, `127`).  The poll after it answers right.

Of the KISS modem: a packet whose send ends after `isSendComplete` was asked and before the
timer is looked at is reported as failed (`KissModem.cpp:440`, `443`), although it was
sent; `ReportIsTrue` leaves out these packets (`raced`), and the run contains them.  Several refused answers may be told by one error, and the
answer of a later command may come before the error of an earlier one
(`KissModem.cpp:134`).  The OK of a reboot stays in the queue, and is lost, if the
host does not read (`KissModem.cpp:710`).  A Data frame of an illegal length is
answered TxBusy while another is pending, and ignored otherwise (`KissModem.cpp:268`).

Of the room server: a client that three pushes did not reach and that logs in
again with a blank password stays unserved until it sends something else
(`MyMesh.cpp:321`), although `docs/faq.md:152` promises it the unseen posts;
`PostsArrive` leaves such clients out.  A text that carries the timestamp of
the client's last request is acknowledged and never posted (`MyMesh.cpp:435`), and so is
one that was refused to a guest and is repeated after `setperm` has let its author
write.  `room_served` contains the first case, and `ConfirmedIsPosted` leaves it out (`shared`):
without the exclusion TLC finds it in five steps.  The run's author is no guest.
Posts made after a restart whose clock is behind a client's mark are not pushed to that client
until the clock has passed it (`MyMesh.cpp:47`, `986`), although `docs/faq.md:148` has users
retrieve what was stored while they were away; `room` contains the case, and without the exclusion of
`ahead` TLC finds `NothingSkipped` violated in twelve steps.
After `setperm` removes a client, the reply may go to the wrong one
(`MyMesh.cpp:512`), and the next push to the removed one (`MyMesh.cpp:977`).


## Fairness

`Dispatcher`: weak fairness of `Loop` (`loop()` is called for ever), of `Tick`
(time passes), and of `RadioTxDone` unless `TxMayHang`: with a radio that may
hang, `OutboundIsReleased` rests on the send timeout alone.  None is assumed
of the application, of receptions or of the channel: others may keep it busy for
ever, and `QueueAdvances`, which assumes no fairness, bounds the wait because the code forces the send.

`MeshFlood`: weak fairness of each node's `Loop(n)`, that is, a node that has
something queued or heard goes on sending and processing.  For `FloodReachesAll`
this means that nothing is lost on the air; with losses no flood can promise
to arrive.  `FloodsEnd` would hold with losses too, since a lost copy is one copy less.


`Room`: weak fairness of the server's handlers, its turns and the clock, and
of the devices' receptions; strong fairness of an ACK being late if it
does not come, and of a push finding a free packet, since the Dispatcher gives packets
back (`OutboundIsReleased`).  Losing packets is always possible; then the pushes
fail, which `PostsArrive` allows after three in a row.


`RadioDriver`: weak fairness of the steps inside a call, of the end of a scan,
and of the program noticing the end of a send or its timeout; strong fairness of
the calls of `recvRaw` and of the noise-floor poll (the loop makes them every pass), of the
commands of `startReceive` not failing for ever, and of `Tick`.

`KissModem`: weak fairness of the main loop and of time; strong fairness of the
input ending within a pass, of the host reading all there is
before it asks for more now and then (without it the results could be
refused a slot for ever), and of the random byte falling within `_persistence` or the sender
being forced.  `ReceivesAgain` asks for no more once the host asks for nothing.

## Proofs

| Theorem | Says | Argument |
|---|---|---|
| `TypeCorrect`, `PoolIsConserved` (`DispatcherProofs`) | every variable stays in its range; each packet is in exactly one place | `IInv`: `TypeOK`, `PoolConserved`, and that nothing is on the air when the loop gets past its first part, without which `StartSend` could overwrite `outbound` |
| `ImplementsLifecycle` | the Dispatcher implements `PacketLifecycle` under `Where` | each part of the loop moves each packet along a permitted way; a packet leaves and enters each queue once |
| `ChargeIsBounded` (`DispatcherHistoryProofs`) | `BudgetFactor * charged <= BudgetFactor * MaxBudget + uptime` | `HInv` adds the ledger: charged airtime plus what is in the bucket, plus the time not yet turned into budget, never exceeds what was granted; rounding down is in the code's favour |
| `AirtimeIsCharged` | `NeededBudget * aired <= LongestAirtime * charged`, if `SendsFitTheClock` | `SendRuns` follows a send: the budget that admitted it is not touched until it ends; its time on the air is at most its airtime while it is sent, then at least that and at most the pass more that notices its end. So the send does not time out, and what it is charged is its time or all of a bucket that held `NeededBudget` |
| `ReadyQueueAdvances` | `QueueAdvances`, if `ClockFits` and `SendsAreAdmitted` | `WaitEnds` says when each thing waited for will have come, as readings of the clock fixed when the queue became ready: `BudgetComes` (what the bucket lacks, at the slowest rate from its last refill), `TimerComes` (no timer is set beyond that or the end of a deferral), `ChannelComes` (the CAD timeout runs from the first call that may send). The passes of the loop enter as `LastCheck`, the reading at the last `checkSend` |
| `FloodTypeCorrect`, `PathsStayReal` (`MeshFloodProofs`) | ring and counts keep their sizes; a packet's path is the way it took | `FInv`: `Tracing` adds what is true of a packet whose hop count ran over (two-byte hashes where the origin chose one byte), so that it cannot do so twice |
| `ImplementsFloodSpread` | `MeshFlood` implements `FloodSpread` | `Informed`: who queues a message knows it and may pass it on, whoever has heard one has such a neighbour; `Rooted`: nobody has a message not yet sent, so that `Originate` starts from an empty set |
| `PathsStayLoopFree` | `PathsAreLoopFree`: no relay twice in a path while tables remember; a hash whose repeaters all have loop detection on, not more often than they tolerate, whatever is forgotten and whatever the others do | `Memory`: every node in the path of a copy has the message in its table, so that the one that adds itself, having not, is new. `Bounding`: loop detection is a bound on every copy under way, also on those whose count ran over |
| `HopLimitsHold` | `FloodStaysWithinHops`, if `HopLimitsFit` | `Bounding` again: a copy with a limit is no longer than it, so that its count cannot run over; then `Tracing` makes its path a way of that length. `Reached` keeps it for who has the message |
| `EachIsSentOnce` (`MeshFloodHistoryProofs`) | `SentOnce` | `Once`: what a node has queued or sent is in its table, and it has one entry of each message, queued or sent but not both |
| `CancelledStaysCovered` | `CancelledIsCovered` | `Covering` counts for every waiting relay: its duplicates, the copy that queued it and those heard and not processed are together no more than the nodes in range that have sent the message; a copy that is processed moves from one count to the other |
| `RadioTypeCorrect`, `NeverDeaf`, `OnlyPacketsAreRead`, `OnlySentIsComplete`, `UnreadIsKept` (`RadioDriverProofs`) | the five invariants of `radio` | `IInv` adds what the chip's mode says of its flags' mapping, what each step inside a call has established, that the bit means a packet outside sends and scans, also between the two looks of `recvRaw`, and what a header flag that is up says of the packet in the buffer |
| `KissTypeCorrect`, `EachIsReportedOnce`, `ReportsAreTrue`, `PacketsKeepTheirMeta`, `ReceptionsFindRoom` (`KissModemProofs`) | the invariants of `kiss` and `NothingReceivedIsRefused` | `IInv`: `Phases` ties the flags, the transmission's state and the radio together; `Sound` is the queue's order of packets and their `RxMeta`; `Ledger` counts each owed packet in hand or in the queue, and is carried through `Give`, which hands over a prefix. A result is of its packet alone: `raced` packets, whose send ended between the two tests of a pass, may be reported as failed |
| `SkipsNothing`, `AcksAdvance`, `RoomTypes` (`RoomProofs`) | no mark passes a post that is in the ring and not received; accepted ACKs move forward | `IInv`: whatever carries a mark makes the claim "d has all up to s", and every claim is true: the devices' marks, the list, its file, logins, keep-alives and ACKs in the air. A push is no claim, but `Completes` says it becomes one when it arrives, being the oldest post its client lacks. Claims outlive every step (`GoesOn`), since a new post is later than any mark (`Past`); a device that a restart leaves with a later mark is `ahead` from then on, and makes none |
| `TextsArePostedOnce`, `AcksAreTrue` | `PostedOnce`; `ConfirmedIsPosted`, if `AuthorsMayWrite` | `Told`: the timestamps of texts that are not `shared` tell them from a device's other messages (`Stamps`), the entry of an author that was not dropped is not behind any of its posted texts, so that a repetition is known as one (`PostedBefore`), and an entry's timestamp is that of a text only if it was posted (`Heard`). The file needs a part of its own (`WritersSaved`), since a restart builds the list from it |
| `ImplementsDelivery` | `Room` implements `PostDelivery` | the ring is the end of the log (`LogOK`), so that a push in the air is of a post all of whose predecessors that are kept have arrived (`Due`), or was received or overwritten since; to those `ahead` the abstract log owes nothing either |

`PacketQueueProofs` holds the facts on the queues (adding, removing, allocating
and freeing conserve packets) that the Dispatcher's proofs cite.  Assumptions
are the modules' named `ASSUME`s: sizes are naturals, the pool is finite and
its tables as large as it, the clock has at least two values, delays are
naturals, hash sizes are 1 to 3 and a path's bytes do not outnumber the values
of the hop count (64 and 64 in the code), airtimes and retries are bounded.  They are evaluated by TLC in every
run.  The invariants hold for every value of the constants: any
pool, clock, duty cycle, mesh, table size and limit.  `Within` speaks of
paths and not of a recursion on the number of hops, since the provers have no induction.

Four theorems have hypotheses on the constants, each true of the firmware and of the run
beside the theorem:

* `SendsFitTheClock` (`AirtimeIsCharged`): the radio reports the end of every send,
  and three times the longest airtime is less than the clock's range.  A send
  that is given up after the timeout was aired and is not charged (`Dispatcher.cpp:157`).
* `ClockFits`, `SendsAreAdmitted` (`ReadyQueueAdvances`): uptime stays below half the clock's range, which
  `idle_timer_doc` shows to be needed; the clock has left zero, which
  `cad_busy_start` takes for "not busy"; the full bucket holds what a send is admitted on;
  the radio starts every send, since one it refuses is dropped and the wait goes on for the next.
* `HopLimitsFit` (`HopLimitsHold`): limits below the range of the hop count; at the
  range itself the theorem is false (`hop_limit_doc`).
* `AuthorsMayWrite` (`AcksAreTrue`): authors have write permission from their first login.  Without it the
  theorem is false: a text refused to a guest and repeated after `setperm` is acknowledged
  and never posted.

Only model-checked: liveness (`OutboundIsReleased`, `DelayedIsProcessed`,
`FloodsEnd`, `FloodReachesAll`, `ListensAgain`, `FlagsExpire`,
`DataIsReported`, `RefusedIsTold`, `ReceivesAgain`, `PostsArrive`), which is beyond the prover.
Every invariant, action property and refinement that a passing run checks is
also a theorem.


## Not modelled

Packet encoding, cryptography, text commands, displays, boards, MQTT and
generated data are pure functions, external libraries or I/O.  Direct routing,
multiple ACKs and TRACE, the
companion's queue, persistence, serial interfaces and bridges are planned below.


## Plan

Done: `Millis`, `PacketQueue`, `PacketLifecycle`, `Dispatcher`,
`DispatcherHistory`, `FloodSpread`, `MeshFlood`, `MeshFloodHistory`,
`PostDelivery`, `RoomServer`, `Room`, `RadioDriver`, `KissModem` and the eight proof
modules.  Next, in order of what the system would miss most:

1. `RadioDriver` composed with the Dispatcher's view of the radio as its
   abstract specification.
2. `MeshDirect`: source routes consumed hop by hop, early ACKs, multiple ACKs;
   composed with `MeshFlood` for path learning (`PATH` and its reciprocal).
3. `Persistence`: preferences across a reset between any two file operations.
4. `PoolTasks`: the pool's methods as separate reads and writes, called by the
   Wi-Fi task and the main loop.
5. Proofs: `ReadyQueueAdvances` across the wrap of the clock; the refinements of the
   modules above.

Each gets one passing run, and a violation run only where the documentation
and the code disagree; the runs of a component may be joined for it.
