# TorchFlowers: a TLA+ verification project

TorchFlowers is a client engine for Minecraft: Bedrock Edition. It speaks RakNet (a reliability
layer over UDP) through its own crate `torchflower-net`, logs in through Microsoft and Xbox
services, and keeps bots in a server's world. This directory holds a TLA+ model of the parts whose
correctness is a matter of order, loss, time and concurrency, the TLC runs that check it, and
theorems about it that TLAPS checks.

Paths below are relative to `src/crates/torchflower-net/src/` for RakNet, to
`src/crates/torchflower-engine/src/` for the session (`bedrock/session.rs`, here `session.rs`) and the
engine, and start with another crate otherwise.
`PROJECT.json` maps every definition to the lines it stands for.

## Inventory

| Component | State | Operations | Talks to |
|---|---|---|---|
| receive queue (`connection/queue/recv.rs`, `queue/mod.rs`, `controller/window.rs`) | two sliding windows, split sets, order channels, acknowledgements and requests to send, payloads released | `insert`, `flush`, `ack_flush`, `nack_queue` | called by the receive task and by the tick, under one mutex |
| send queue (`connection/queue/send.rs`) | three counters, order indices, frames queued, recovery queue, recently sent datagrams | `insert`, `update`, `ack`, `nack`, `resend_frame_packet`, `send_stream` | called by the application, the tick and the receive task, under one write lock; writes to the socket |
| client (`client/mod.rs`) | `ConnectionState`, `recv_time`, the notifier, the list of tasks, three channels and locks | `connect`, `recv`, `send*`, `flush_ack`, `close`, drop; the socket, receive and tick tasks | the application through a bounded channel (4096), the socket task through another (10) |
| server-side connection (`connection/mod.rs`) | the same two queues and a state, a channel (100) to the application | its own tick and receive task, `process_packet`, `send`, `close` | public, without a caller in the repository |
| handshake (`client/handshake.rs`, `client/discovery.rs`) | the stage, its own receive queue | MTU discovery, session info, connection request | the socket directly, the client's send queue |
| packet codecs (`protocol/`) | none | read, write, compression of ACK records | everything above |
| Bedrock session (`bedrock/session.rs`, `bedrock/protocol_adapter.rs`, `bedrock/transport.rs`) | the login stage, encryption, what the status has shown, the hold after a batch that cannot be decoded | login, two loops over the packets, report | the client, the database |
| gameplay validation (`MovementValidation` in `session.rs`) | position, blocks, items and menus seen, the target, the progress of teleport, break, pick-up and placing | one method for each kind of packet, `drive_movement_validation` | driven by the session at every packet and every receive timeout |
| lite bot (`torchflower-lite-bot`) | the script's index, version tried, whether it reconnects | events of the session, `run_config` | runs sessions one after the other |
| authentication (`bedrock/auth/`, `easy_auth.rs`) | device codes, tokens and their expiry, two status columns, the cache file | device code, poll, refresh, provisioning, the run of easy-auth | HTTP services, the database |
| bot supervisor (`bot/supervisor.rs`) | a map from bots to tasks, a status row per bot | `start`, `stop`, the bot's loop | ping of the server, database |
| bot pool (`pool.rs`) | bots with a command channel each, a pool of buffers | `spawn`, `send`, `broadcast`, `shutdown_all` | |
| native client (`torchflower-client`) | one connection behind a mutex | reader loop, `send_packet`, `disconnect` | `torchflower-net` |
| engine core, API, database (`core/mod.rs`, `api.rs`, `db.rs`) | rows | routes, statements | authentication, supervisor, session |
| protocol, level, data, add-on, server, ping crates | none worth a state | encoders, facades | |

What is hard here:

* **Loss, duplication, reordering.** Everything the two queues do exists because of it. Acknowledgements
  and requests are datagrams too and are lost like any other; a timeout resend crosses a late
  acknowledgement; a request crosses the datagram it asks for.
* **Giving up.** The receiver gives up a request (its window jumps), and a split packet (its channel
  jumps). After that, what was given up may still arrive.
* **Shared locks.** The tick, the receive task and the application's calls share three locks, some
  of them held across an await.
* **Time.** `recv_time` is written by one task without a lock and read by another before it takes one.
* **Back pressure.** Two bounded channels in a row, with tasks that wait for room and in the meantime
  listen to nothing.
* **Ending.** A one-shot notifier, aborts that take effect at the next await, and a Disconnect that
  ends one task out of three.
* **A server that says anything at any time.** A session's packets come with the login or after it, in
  batches the codec can decode or not, once or twice, early or late; a gameplay stage that is being
  retried hears the answers to the stage before.
* **Steps that fail half-way.** An attempt to provision writes two columns around a dozen services, a
  start or stop of a bot awaits the database between its look at the map and its change of it, and a
  client of the API may go away at any await.

What makes each component correct:

* receive queue: a payload is handed over at most once, whole, in the order of its channel; what was
  acknowledged is not lost silently and is never requested again; requests and partial packets end.
* send queue: what must arrive is kept until it is acknowledged or dropped by a rule; the memory for
  late requests is bounded.
* link: it implements ordered delivery per channel; what is sent is obtained or knowingly given up.
* client: no circle of waiting tasks; a timed-out client stays so; whatever ends a client, all its
  tasks end and the application is told.
* handshake: its outcome says what has happened, it ends, and a half-open connection ends too.
* session: stages in their order, an answer to every request, success only when earned, a deadline
  that always ends it once it is connected; a bot that is refused, or out of versions, stops.
* gameplay: no stage runs on what an earlier one left behind, nothing given up is tried again, late
  packets leave a running action alone, and the stages end.
* supervisor and pool: one task per bot, a status that agrees with it, a shutdown that ends.
* accounts: the newest refresh token is stored whenever it could be, and nothing stays pending for ever.

The forty hazards that weigh most, each at its line and with the properties that watch it, are in
`PROJECT.json`; the others are under "Further hazards" below.

## Modules

| Module | Models | Runs |
|---|---|---|
| `SlidingWindow` | `ReliableWindow`, as pure operators | through `RecvQueue` |
| `RecvQueue` | `RecvQueue`, `FragmentQueue`, `OrderedQueue`, with the clock | `MCRecvQueue` |
| `RecvQueueProofs`, `RecvDeliveryProofs` | theorems about the two above: what is acknowledged and requested, then what is released | TLAPS |
| `SendQueue` | `SendQueue`, `RecoveryQueue` | through `RakLink` |
| `OrderedDelivery` | abstract: what an order channel promises | as a property of `RakLink` |
| `RakLink` | one sender, one receiver, the network between them, the tasks that connect them | `MCRakLink*` |
| `RakLinkProofs` | theorems about `SendQueue` and `RakLink`, the refinement among them | TLAPS |
| `PeerLocks` | who takes which lock, in which order, of client and server-side connection | `MCPeerLocks*` |
| `ClientLifecycle` | `connect()` to drop, the three tasks, the timeout | `MCClientLifecycle` |
| `ClientProofs` | theorems about the two above | TLAPS |
| `Handshake` | the ping, MTU discovery, session info, connection request and accept, against the server-side `Connection` | `MCHandshake` |
| `ScriptedBot` | the lite bot's script, as pure operators | through `BedrockSession` |
| `BedrockSession` | login, the two loops over a session, the report, the lite bot's reconnects | `MCSession` |
| `Gameplay` | `MovementValidation` and its drive | `MCGameplay` |
| `Accounts` | device-code login, tokens, provisioning, easy-auth | through `Engine` |
| `Supervisor` | start, stop, the tasks of a bot and its row | through `Engine` |
| `BotPool` | the pool, its loops, channels and buffers | through `Engine` |
| `Engine` | the three above, side by side | `MCEngine*` |
| `HandshakeProofs`, `SessionProofs`, `GameplayProofs` | theorems about `Handshake`, `BedrockSession` and `Gameplay` | TLAPS |
| `EngineProofs` | theorems about the parts of `Engine` | TLAPS |

`MC...` modules hold only the constants of the runs.

### RecvQueue

A frame is a record of the fields the queue looks at (reliability, reliable index, channel and
order index, split header). A payload is the sequence of the frames it was put together from, so
that the properties can tell a wrong order, a missing part and a repetition apart; bytes are not
modelled. `delivered` and `acked` are history variables that no action reads.

`InsertDatagram` is `insert()` up to its loop over the frames, `HandleFrame` one round of that loop,
and `Flush` the `flush()` that the receive task calls before it releases the mutex. `TickAcks`,
`ExpireSet` and `TickNacks` are `ack_flush()` followed by `nack_queue()`, which the tick calls under the
same mutex. The variable `phase` is that mutex: a loop is split into steps for readability, and
nothing of the other caller comes between them. Nothing is assumed of a split index but that it is a number: `insert()`
refuses one out of bounds only when it joins other parts (`connection/queue/mod.rs:339`), not in the first part of a packet (354). A
packet is put together in the order of its indices, whatever they are (`Before`). Stale split sets expire in any order, as they come
out of a hash map. Ages replace timestamps; they stop just above the threshold the code compares
them with (`Capped`).

### SendQueue and RakLink

Every operation of the send queue runs under its write lock and is one action. Messages have a number
of parts instead of a length. One frame goes into one datagram, as in `send_frame()`. `wire` is the set
of datagrams in flight: a resend has the sequence and the content of the original, so a set loses
nothing, and a copy that stays in the set after a receipt is a duplicate. `RakLink` bounds by `MaxFaults`
how often the network loses or duplicates; reordering is unlimited. Each message is sent once.

`ImplementsDelivery` is the refinement: `OrderedDelivery` instantiated with the messages put on each
channel and with those released on it. What was obtained is a function from moments, the places in the list of
everything released, to a position and a message; the position is the order index.

### PeerLocks

A task is a set of passes; a pass is the sequence of lock and channel operations on one way through
the task's body. `RwLock` guards are all write guards, or behave so for this purpose. A task may take
any of its passes at any time, which is more than the code does: a circle of waits that the passes
exclude, the code excludes.

### ClientLifecycle

The application is one actor, since `connect()` and `recv()` borrow the client exclusively; each task is
another. An action spans what no other actor can observe in between. The tick is two actions, because
it loads `recv_time` before it waits for the state; the receive task is three (it stores `recv_time`,
then locks the state, then may wait for room in the inbox). An aborted task may finish its current
step first (`Dropped`). Datagrams are counted, and what one of them turns out to be is decided when it
is handled. Time passes in halves of the timeout, the only two thresholds there are.

Bounds of the model, not of the code: `connect()` is called again only when the tasks of the previous
one have ended, and `recv()` is not called again after it has returned `Closed`.

### Handshake

One `connect()`, step by step, against one server-side `Connection`. A datagram carries one payload;
frames that are numbered are refused when they come again, as the receive queues do. A datagram that is
never taken is lost; only numbered frames are duplicated by the network, the retries make enough copies of the
others. The offline half of the server is not in the repository, it is external and answers as the client
expects. `TwoSecondsPass` only makes the answer overdue: that is noticed when a datagram or an error
comes, since `recv_from` has no timeout there (`client/handshake.rs:438`). The tick of the server's connection is one action here,
without its locks; that they may block it for ever is what `MCPeerLocksServer` shows, so the two liveness properties
assume that it runs (`TickRuns`), and say so. A bound: what is left of the
offline exchange is lost when the first connection request is sent.

### BedrockSession and ScriptedBot

Either of the loops `validate_real_server_for()` and `run_instant_script()` (variable `driver`), from
`connect()` to the report. `Connect` is the handshake below it, of which nothing is assumed. A packet is its kind, and `raw` when the codec has not decoded it: `Lossy`
and `Lenient` are the ways of the adapter to hand on a batch, which decide which branch of a loop sees
a packet. The kinds are those the loops treat differently. The server may send any of the batches at any
time. A send may fail, which ends the session (`SendFails`). Gameplay is one drive at the end of a
batch that may show a capability. The lite bot around its sessions is the last group of actions, a session or a database
that cannot be opened among them (`LoadSession`); its script is one record, and an event is an operator on it.

### Gameplay

The struct `MovementValidation` is one record, a method an operator on it, and
`drive_movement_validation` the operator `Drive`. Where an elapsed time or the nearest of several equals decides,
the operator gives the set of outcomes. Distances are the classes the code compares with (4.5, 32, 64, 128
blocks). Left out: layers of `UpdateBlock` other than 0, positions from chunk publishers and the closing of containers
(environment variables that are off by default), the report of a timeout, and the limits of 16 items and 2048 blocks,
which are not reached. A target is one place with the place above it; blocks are not stacked further.
Branches of the code whose conditions overlap are nested `IF`s, in the order of the code: the `CASE` of TLA+ would leave open
which of two true arms is meant.

### Accounts, Supervisor, BotPool, Engine

A request of the API, or a run of easy-auth, is a sequence of steps, each an answer of a service or one
statement of the database, and requests interleave at these steps. `Interrupt` ends a request at any of
them: the HTTP server drops a handler whose client is gone, or a statement of `provision()` itself is refused. What a service or
the database refuses within an attempt fails the attempt (`Fails`), and the next one starts from the row. In a run of easy-auth from
the cache such an end leads to the device code (`CachedRefused`, `FallsBack`). A refresh token is the newest or an old one: Microsoft issues a new one
(`Rotates`), whose answer arrives (`Issued`) or not (`IssuedUnread`). `lost` is a history variable: the newest token is in nobody's hands and
will not come back. A login may be started again once the last code has expired or closed. A bot's task is where its loop stands; `late` holds the writes of aborted tasks that
the database may still make. Tasks of the pool's bots, its channels and its buffers are as in `pool.rs`;
the future of `shutdown_all()` may be dropped half-way, which leaves the pool usable (`Abandon`), and the pool may be dropped when nothing
borrows it. A loop left over without a handle keeps its name until it ends. The three share no state, so `Engine` explores them one at a time:
`part` says which one moves.

## Runs

| Run | Question | Answer |
|---|---|---|
| `MCRecvQueue` | Does the receive queue keep its promises for datagrams in any order and number, with expiry at any time? | yes: seven invariants and action properties, one liveness property |
| `MCRakLink` | Does the link implement ordered delivery, and does the sender keep what is not acknowledged? | yes |
| `MCRakLinkLive` | Is a message obtained, or knowingly given up? | yes |
| `MCRakLinkReorder` | Does a message arrive when the network only reorders? | no, see below |
| `MCPeerLocks` | Can the client's tasks and calls wait for one another? | no |
| `MCPeerLocksServer` | Does the tick of a server-side connection always complete? | no, see below |
| `MCClientLifecycle` | Does every end of a client reach its tasks and its application? | yes |
| `MCHandshake` | Does the handshake say what happened, and does it end, with what is lost, late or repeated? | yes; that it ends, while the tick of the server's connection runs |
| `MCSession` | Do the loops answer, order and end as they should, whatever the server sends? Does a bot that is refused, or out of versions, stop? | yes, but for the lite bot's answers, see below |
| `MCGameplay` | Do retries and late packets leave the gameplay validation consistent, and does it end? | yes |
| `MCEngine` | Do accounts settle, with the newest token unless it was lost, has a bot one task, does the pool shut down? | yes, while requests come one at a time where the property says so |
| `MCEngineLogin` | Does a login wait for its user when Microsoft answers with status 400 until then? | no, see below |

The runs that end in a violation each check one statement of the repository's own comments and documentation:

* `MCRakLinkReorder`: both windows start at whatever arrives first (`recv.rs:75`, `recv.rs:299`). When the
  second datagram of a connection overtakes the first, the first is refused and its message lost.
  `MCRakLinkLive` is the property that does hold.
* `MCPeerLocksServer`: `connection/mod.rs:295` against `connection/mod.rs:432`, two locks in opposite orders.
* `MCEngineLogin`: `diagnostics.rs:229` makes an error of every answer that is no success before
  `poll_device_auth()` (`bedrock/auth/microsoft.rs:142`) can read `authorization_pending` in it. With status 200 (`ErrorHttp`
  contains it in `MCEngine`) the login waits.

Eight more properties are stated in the modules and kept out of the runs, since the code does not keep them
either. To see a counterexample, put the property alone in the configuration named here.

* `RakLink!RecoveryEnds` (`MCRakLinkLive.cfg`): a receiver that has a datagram refuses its copies before it notes an
  acknowledgement (`connection/queue/recv.rs:87`). When the one ACK is lost, the sender resends that datagram for
  as long as the connection lasts.
* `ClientLifecycle!SilenceEnds` (`MCClientLifecycle.cfg`): `client/mod.rs:1116` excludes a `recv_time` of 0, so a
  client whose server is silent from the end of the handshake on is never timed out.
* `ClientLifecycle!TimeoutIsEarned` (`MCClientLifecycle.cfg`): the tick loads `recv_time` before it waits for the state
  (`client/mod.rs:1096`), so a packet handled in between does not save the client.
* `BedrockSession!AnsweredByAll` (`MCSession.cfg`, as an invariant): the lite bot's loop takes only inventories from the raw
  packets (`session.rs:2438`), and after the login it receives all packets raw. A resource pack packet or a
  latency request that comes then is not answered. The validation's loop answers (`AskedIsAnswered`).
* `Gameplay!ClicksPresentMenu` (`MCGameplay.cfg`): the reset before another teleport keeps `rtp_menu_item`, and the next
  click can be on the menu item of the command before.
* `Gameplay!AcceptedHintRevives` (`MCGameplay.cfg`): when the wait for a terrain hint ends, the pick-up is marked
  terminal with `rtp_wait_done` unset (`session.rs:4633`); a hint that comes then is accepted without reopening
  anything, and the mark stays.
* `Supervisor!OneTaskAlways` (`MCEngine.cfg`, as an invariant): a request interrupted between its statements, two overlapping starts
  (`bot/supervisor.rs:31`) or a late write of an aborted task (128) leave a bot with two tasks, or with none and a row that says otherwise.
* `Accounts!NewestTokenAlways` (`MCEngine.cfg`, as an invariant): two refreshes of one account
  (`bedrock/auth/token_manager.rs:123`), or a run of easy-auth that restores the token of its last login (`easy_auth.rs:317`), leave the
  older token in the row although the newest arrived.

### Bounds, and why they are enough

* `MCRecvQueue`: six datagrams and eight frames, all reliable (an unreliable one has no index to be refused by, and no property is about it). They contain each case the queue distinguishes: an ordered
  payload that must wait, a split payload between two unsplit ones on the same channel, a reliable frame
  that comes in two datagrams, one that is on no channel, a second channel, and a split packet that never
  becomes whole, behind which its channel jumps. The first part of that packet to arrive may be one whose index is out of
  bounds (`Torn`), so that it is released without a part; a part in bounds comes after it or before. `NackMaxSpan` = 2 is smaller than the
  gap the datagrams can make, `SequenceWindow` = 5 still admits all of them (the code: 128 and 4096).
  Two attempts and ages of one to two seconds let a request be sent, repeated, and pruned for both reasons.
* `MCRakLink`: a message in two parts and one in a single part on one channel, one fault. With three
  datagrams, the reorderings, a loss of any datagram or acknowledgement, and the resends that follow all
  occur; channels do not interact.
* `MCRakLinkLive`, `MCRakLinkReorder`: two single-part messages, since liveness is
  checked over the whole graph; in the first a message is ordered or only reliable, and `RecentLimit` and
  `ResendLimit` of 1 are reached.
* `MCPeerLocks`: one task of each kind, as in the code, and a channel with room for one message: full
  and empty are the only two cases that matter.
* `MCClientLifecycle`: both channels with room for one.
* `MCHandshake`: two MTUs with one attempt each, one session info, two connection requests after the first
  (the code: 6, 5, 3 and 5), two receive errors, one duplicate. Every loop is entered, repeated and exhausted. Two more requests are
  what it takes for one to be accepted late and for the limit to be reached on another way.
* `MCSession`: batches of one packet of any kind, or of two of the nine kinds that change how a session goes
  on; two packets left by the login; a required time of two units and one of grace, so that there is a time
  before, at and after it; two versions; a script with a step of each trigger.
* `MCGameplay`: three places (the hub, one in walking distance, one only a teleport reaches), two kinds of
  blocks of which one gives a drop, two items, two menu priorities, and three packets that say something
  (`MaxInputs`) at any moment, between which the drive and the time go on without limit. One click, two
  commands and two targets (the code: 8, 2 and 4) are exhausted.
* `MCEngine`: two requests at once, which is every interleaving of two; two attempts (the code: 3); one account and one
  device session; two tasks of one bot; two bots with channels of two, so that a channel is full and a loop has
  ended while the other works. `MCEngineLogin` has a single run of easy-auth.

### Fairness, and why the code justifies it

* tokio's mutexes and read-write locks queue their waiters in order of arrival: a task that waits for a
  lock that is released again and again gets it. Hence strong fairness of the steps that take a lock
  (`TickAcks`, `Step`), and weak fairness of those that follow under the lock.
* The tick task sleeps 50 ms and starts again, time passes (`ClockTick`, `Second`, `Elapse`).
* In `RakLink` a datagram that is new to the receiver, and an acknowledgement that is new to the sender,
  arrive at some point if they are not lost; losses are bounded. Nothing is assumed of any other.
* `select!` picks among ready branches at random: the branch of the notifier is taken at some point when it
  is ready time and again (`Stop`). Nothing is assumed of which datagrams come.
* In `Handshake` the client's timers expire and time passes, and of pings that come time and again not all
  are lost. Nothing is assumed of the server's tasks: `ConnectConcludes` and `HalfOpenEnds` carry the condition that the tick of
  the connection and its pings go on (`TickRuns`), since `MCPeerLocksServer` shows a tick that is blocked for ever. `ConnectConcludes` needs the
  pings, since nothing else wakes a handshake that waits (see the hazards).
* In `BedrockSession` every step of the login after `connect()` and every wait of a loop has a timeout and time passes in it; nothing
  is assumed of the server, and nothing of `Connect`, which has no timeout: `SessionEnds` starts where it has succeeded. In `Gameplay`
  the session drives at every packet and every 50 ms, and the ten seconds of the movement and the eight of a
  pick-up pass.
* The pool's loops are polled, and so is the future of `shutdown_all()`. No request of `Accounts` and no task of
  `Supervisor` is assumed to make progress: what is said of them is safety.
* The application finishes the call it is in. That it reads its packets is assumed nowhere, except that it
  learns of a closed notifier when it is in `recv()` time and again (`UserTold`), and that it then drops the client.

`CHECK_DEADLOCK FALSE` appears where a run may stop: a client that has been dropped does nothing more,
in `MCPeerLocksServer` the deadlock is what the property is to show, a handshake, a session, a
gameplay validation and a pool have an end, and a server may stay silent.

## Proofs

Every invariant and every action property that a passing run checks is proved, and so is the refinement, each for all
values of the constants that satisfy the assumption of its module (TLC evaluates each of them) and the hypotheses named
below. Liveness is model-checked only.

### The receive queue

`RecvQueueProofs`, for all frames and datagrams a peer can send, split indices out of bounds and ids used twice among them, and for all values of the windows and limits
(`RecvAssumption`):

* `TypeCorrect`: `RecvSpec => []RecvTypeOK`;
* `AckedNeverRequested`: `RecvSpec => []AckNackDisjoint`;
* `NothingHeldBack`: `RecvSpec => []EagerRelease`.

They follow from `Invariance`, `RecvSpec => []IInv`. `AckNackDisjoint` is not inductive: it does not say why
a sequence that was acknowledged is not counted as missing when a later one arrives. `IInv` adds

* `Accounted`: the window has passed or holds every acknowledged sequence, so `insert()` neither accepts
  it again nor finds it missing; and what is requested is not in the window's set;
* `NothingBeforeSeed`: before the first datagram there is nothing that the seeding could uncover;
* `StaleInTick`: the collected ids are gone when the tick is over;
* the types in a form the prover can use: functions equal to their own tabulation, finite domains
  (a gap exists only in a finite set), and split sets whose parts have distinct indices, without which
  reassembly would not return a sequence of frames.

There is one lemma per action (`InsertInv`, `HandleFrameInv`, ...). They rest on lemmas about the
operators: `FirstGapProperties`, `AdjustProperties`, `InsertProperties` and `SkipProperties` of the window, and
`FlushProperties`, `PartProperties`, `SplitProperties`, `EnqueueProperties`,
`AssembledType` of the channels and split packets. A set of parts has as many places as parts, and
each part one of them, the number of parts with a lower index: a counting argument (`RanksGrow`, `Places`, `RanksTaken`), from
the theorems on finite sets, and with it `AssembledType`.

`RecvDeliveryProofs` goes on from there to what is released:

* `ReliableFramesOnce`: `RecvSpec => []ReliableOnce`. A frame is on its way through split sets and held payloads to the
  released ones, long after the window that admitted it has moved on. `OnceInv` says that no reliable frame is in two of these
  places, and that the reliable window has passed or holds the index of each (`OnceInvariance`).
* `ChannelsInOrder`, `PayloadsWhole` and `NothingLetGo`: `ChannelOrder`, `WholePayload` and `NoSilentLoss`. `TurnInv` says that a
  payload is held under the channel and the index of its frames and released once the channel has passed that index, that
  parts in one set agree on their size, and that a packet still being assembled is not held on its channel already.

The last three have the hypothesis `PeerNumbers`: a split index is below the size of its packet, two frames of one split id are parts of one packet, and two frames of one
channel and index are the same or parts of one packet. The receiver does not check it, it is what
`SendQueue::insert()` does as long as the 16-bit ids do not wrap; TLC evaluates it for the frames of `MCRecvQueue` but `Torn`, and the
run checks the three properties with `Torn` all the same. There `WholePayload` admits a packet whose first part was out of bounds: as many parts of
one packet as it has, in the order of their indices. For a peer that numbers them that leaves only the packet with each part in its place (`RankIsIndex`).

The proof of `NothingLetGo` has changed the property. It said that what is complete and acknowledged
is handed over or passed over by the channel's jump; the inductive step showed that such a payload is neither. `skip_through()` raises the
next index without a look at what is held below it, and the `flush()` after it takes payloads from that index on
(`connection/queue/mod.rs:247`): a payload held
*below* it stays in the channel's map as long as the connection lasts. The property now counts as held only what a flush can still
reach, and names the jump as what lets go of the rest.

### The link

`RakLinkProofs`, for any messages, limits and faults:

* `SendTypeCorrect` and `KeptUntilAcknowledged`: `LinkSpec => []RecoveryCovers`, with timeout resends on and no `Unreliable`
  messages (their datagrams are forgotten by age, as they should be). `LinkBooks` says that the
  recovery queue and the recent datagrams hold under each number a datagram of that number, below the counter
  and with one frame of the sender, and that an ACK on the way names only datagrams that count as acknowledged.
* `LinkDelivers`: `LinkSpec => ImplementsDelivery`. Initial states map to initial states, and each step to `Put`, `Obtain` or a
  stutter (`LinkStepMaps`). Here the numbering of the peer is no hypothesis but proved: `Circulating` are all frames from the
  sender's queue to those the receiver has seen, `Genuine` says that each is a part of a message that was
  submitted, at the index it has there, and `CircInv` that they are `Numbered`; that what the receiver has seen is numbered is all
  that the lemmas of `RecvDeliveryProofs` need. So the same invariants hold of both queues with the network between them.

`LinkDelivers` has the hypothesis `SenderDatagram \subseteq Datagram`: the datagrams the receiver is specified for, a
constant, include those the sender can make. A sender that goes on for ever makes infinitely many, so TLC's finite
instance cannot satisfy it; `LinkDeliversWhatFits` is the theorem without the hypothesis, for behaviours in which each datagram sent is
one of those (`Fits`), which is what the run explores.

### The client

`ClientProofs`, for any number of tasks and callers, each with any of the passes of a client (`ClientPass`):

* `NoCircleOfClients` and `ReaderDelaysNoLock`: `NoWaitCircle` and `WaitsForReaderAlone`. The reason is an order of the locks, the
  state before the send queue before the receive queue. `Orderly` says of what a task has left of its pass that it takes each
  lock holding only earlier ones, gives only what it holds and waits for the reader with none. In a circle, the task that waits for the
  latest lock would wait for one that holds it and waits for a later one. The passes of the server-side connection do
  not satisfy the hypothesis, and `MCPeerLocksServer` shows the circle.
* `ClientTypeCorrect`: `ClientTypeOK`, inductive as it stands: no channel is written to beyond its limit.
* `TimeoutStays`: `TimeoutIsFinal`, which needs no invariant: no step of a task leaves `Disconnected`.

### Handshake and session

`HandshakeProofs`, for any number of MTUs, attempts and duplicates (`HandshakeAssumption`):

* `HonestOutcome`: `HandshakeSpec => []OutcomeIsHonest`. The invariant adds that the datagrams on the way are honest: an accept
  is there, or can be sent again, only when the server has made one, and a refusal only when the version differs.
* `HandshakeTypeCorrect`: `HandshakeTypeOK`. The limits of attempts and numbers are not inductive. `HandInv` ties the attempt to the stage
  (`Sending`), the numbers the server has given out to what it has had (`ServerTypes`: as many as it has
  accepted and joined), and the numbers on the way to those given out (`NetTypes`).

`SessionProofs` proves four invariants of `BedrockSession`, for any server and script, any batches of packets
(any set of sequences of the kinds, `SessionAssumption`) and any durations:

* `InitialisedAfterSpawn`: `SessionSpec => []InitAfterSpawn`. Inductive with `movement => spawn`, without which a
  `PlayerSpawn` could initialise a player whose `StartGame` has not come. All steps but those of six packet
  kinds leave what it speaks of alone (`SpawnKept`).
* `SuccessEarned`: `SessionSpec => []SuccessIsEarned`. A second `StartGame` sets the age back, so it is
  true only because a loop that has `remained` handles no more packets before it reports; `EarnedInv` says that,
  and that movement was shown only by frames, which follow the initialisation.
* `AllAnswered`: `SessionSpec => []AskedIsAnswered`. `AskedInv` says where each unanswered request is: among the
  packets the login has left, or in the batch at hand, there as a raw packet if it is a latency request
  (`InHand`). `BatchHolds` is the fact about the decoding that this needs: both what `recv_lenient()` and what
  `recv_lossy()` hand on hold each request of the batch in a form the loop answers. `PastKeeps` is
  the step from one packet to the next.
* `SessionTypeCorrect`: `SessionTypeOK`. What is asked of the script, that its index never leaves it, rests on the lemmas about
  the operators of `ScriptedBot`; that `RunChain` has a last step to choose at all is an argument about a
  least element of a well-founded order.

### Gameplay

`GameplayProofs`, for any blocks, kinds, items and limits (`GameplayAssumption`), proves the six properties of the run:
`GameplayTypeCorrect`, `ProbesHaveTargets`, `PickupsAfterBreaks`, `PacketsLeaveAction`, `NothingRejectedRetried` and `EveryItemTried`.
One invariant carries them: `Typed`, the types of the fields, and `Sound`, how the flags go together. A target, a begun break and a
probe come and go at once; a pick-up after the teleport belongs to a probe whose break is confirmed; a pick-up that
failed is terminal; and when no item is chosen, every item seen has been rejected. Each method for a packet has a lemma that
it is `Heard`: types and flags are kept, and a bot with a target keeps it. The drive is followed stage by stage,
where each stage is shown to keep the record `Sound` and to start nothing that was given up (`Kept`, `Travelled`, `Driven`).

### Accounts, supervisor, pool

`EngineProofs`, for any set of requests, attempts, tasks, bots and buffers:

* `ProvisioningSettles`: `AccountsSpec => []AccountSettles`;
* `NewestTokenKept`: `AccountsSpec => []NewestToken`.

The first speaks of states in which every request has answered, the second of the requests of a server that come in turn; neither is
inductive. `NewestToken` allows the old token in the row when the newest is still held or was `lost`, that is, with an answer that could not be
read, with a save that was refused, or with a request that was dropped: the code has no other way to lose it. `AccountsInvariance`,
`AccountsSpec => []AccountsInv`, says what is true meanwhile: while an account is shown as pending, some
request is at a step that will take that back (`PendingHasOwner`), and so for the row (`ProgressHasOwner`);
requests that never overlapped come one at a time (`OneAtATime`); where the two columns differ during
an attempt that is alone (`Agreed`); and who holds the refresh token that the row lacks (`TokenHeld`). One
lemma per helper says how it moves the requests (`GoesMoves`, `IssuedMoves`, ...), and one per group of
actions that it keeps `Owned` (`SettledBegins`, `SettledLogin`, `SettledQuiet`, `SettledColumn`) and `TokenHeld`
(`TokenBegins`, `TokenLogin`, `TokenQuiet`, `TokenColumn`).

* `OneTaskAtATime`: `SupervisorSpec => []OneTask`. The invariant adds what a request that is alone finds at each of its steps: no
  task before it spawns one, the one it spawned before it puts it in the map, none after it has taken
  one out (`FindsNone`, `HasSpawned`), and that no late write says `stopped` (`LateOK`).
* `EngineTypeCorrect`: `EngineSpec => []EngineTypeOK`, whose part about the pool says that no buffer is ever missing.
  `PoolInv` is inductive because free buffers and those of loops at work add up to the size of the pool, a counting
  argument from the theorems on finite sets, and there are at least as many as bots. A step of `Engine` is a step of one part with the others unchanged, so this theorem also
  composes the three invariants, and the others say of their part what the run checks of the composition.

### Only model-checked

The liveness properties: `LeftoversEnd`, `DeliversOrGivesUp`, `TickCompletes`, `EndIsTold`, `TasksEnd`, `ConnectConcludes`, `HalfOpenEnds`,
`SessionEnds`, `RefusedBotStops`, `GameplayConcludes` and `ShutdownEnds`. They rest on fairness, and the prover has no
rules for `ENABLED`. What the properties of the violation runs and the eight above say is not true, so there is nothing to prove.

## Not modelled

* Payload bytes, lengths, MTUs and time of day; the width of counters (24 bits on the wire, 32 in memory);
  encryption and compression of batches, packet layouts.
* `RecvQueue::ack`, which only the server-side connection calls, and the sequenced kinds of
  reliability beyond what `handle_frame()` does with them (it releases them at once).
* The link with timeout resends switched off (`RAKNET_TIMEOUT_RESEND`, on by default), and with unreliable messages: the modules have
  both, no run does.
* The send functions' test of the state and the keepalive pings.
* The composition of handshake, client and session in one behaviour: each is modelled against what it may see of
  the next one.
* Of the engine: the log, the retry count and its time, status columns of single steps, several accounts at
  once, the client runtime of `core/mod.rs`, which nothing in the engine drives. Overlapping requests are in the runs; what `OneTask` and
  `NewestToken` say stops there, because two starts do make two tasks and two refreshes can leave the older token
  (hazards at `bot/supervisor.rs:31` and `bedrock/auth/token_manager.rs:123`); the properties without these limits are among the eight above. Two device
  codes of one account that wait at once are one session here.
* The `async_std` variant; the default feature is `async_tokio`.
* The components marked `not_modelled` in `PROJECT.json`, with reasons there.

## Further hazards

Met while modelling, and watched by no property of a run unless one is named:

* `connection/queue/recv.rs:284`: payloads released by the expiry of a split packet wait in the ready list
  until the next datagram arrives.
* `connection/queue/recv.rs:103`: requests reach only 128 sequences below an arrival while the window is
  4096 wide: a longer gap is never requested in full.
* `connection/queue/mod.rs:333`: two split packets that use the same id (the counter wraps at 2^16) are
  mixed into one set of parts.
* `connection/queue/send.rs:397`: datagrams over the limit of resends per tick get a fresh timestamp: with a
  steady surplus the same ones may be put off again and again.
* `connection/queue/mod.rs:354`: the index of a part is compared with the size when it joins others, not when it
  is the first of its packet: a first part whose index is out of bounds is counted, and the packet is released
  without the part it stands for; `WholePayload` says what such a packet still is.
* `bedrock/transport.rs:23`: the engine passes its timeout in milliseconds and the client compares it with
  seconds: the default of 60 000 is 16 hours. Units are not modelled.
* `protocol/frame.rs:256`: size * 8 is computed in 16 bits: a body of 8192 bytes or more, which insert()
  sends unsplit when it is Reliable or Unreliable, is announced with a wrong length.
* `protocol/reliability.rs:141`: is_reliable() answers FALSE for ReliableAck, which its own doc comment
  (128-133) lists, and Frame::read takes its answer: the reliable index of such a frame would be read as its
  body.
* `connection/queue/send.rs:282`: sequences are 32-bit counters in memory and 24-bit on the wire: after 2^24
  datagrams the window of the peer is never entered again.
* `client/mod.rs:1126`: with recv_time still 0 the first tick sets TimingOut, in which the send functions
  refuse to send, until the first packet arrives.
* `connection/mod.rs:541`: when the sender of net is gone recv() returns None at once and the loop continues
  without an await that suspends.
* `connection/mod.rs:501`: the ACKs of the peer, in the sequence space of what was sent, remove entries of
  what is to be acknowledged and requested in the other direction.
* `client/handshake.rs:445`: a repeated request crosses the accept of the first one on its way: both are
  answered, and each answer is counted against the limit of retries; watched by `ConnectConcludes`.
* `connection/mod.rs:755`: is_closed() reads the state, which a Disconnect of the client does not change: it
  stays FALSE after the tasks have ended.
* `bedrock/session.rs:3307`: a second StartGame restarts the time of the session and the movement's start
  while the movement of the first one goes on; watched by `SuccessIsEarned` and `SessionEnds`.
* `bedrock/session.rs:5622`: a disconnect or an error after the movement ends the session with a report:
  success must still have been earned by then; watched by `SuccessIsEarned`.
* `bedrock/session.rs:3687`: a session that a Disconnect ends returns before update_bot_capabilities()
  (4142): the row of the bot keeps the capabilities of an earlier session.
* `bedrock/session.rs:4178`: the timeout around conn.send() may drop the send after its packets have been
  encrypted: the counter of the cipher has advanced, the server has not received them, and nothing it
  receives later can be decrypted.
* `bedrock/session.rs:2926`: connect() of the session has no timeout of its own: the handshake's wait
  without one (handshake.rs:438) is the session's too.
* `bedrock/session.rs:4633`: when the wait for a terrain hint ends, the pick-up is marked terminal; a hint
  that arrives later is accepted and does not always take the mark back.
* `bedrock/session.rs:6213`: the evidence for placing is any block but air that is reported at the target
  after the placing was sent, also a late report of the block that was there before.
* `bedrock/session.rs:4456`: each stage waits for the server with a wait or a retry of its own; the drive
  must reach the placing or mark the failure when the server says no more; watched by `GameplayConcludes`.
* `torchflower-lite-bot/src/main.rs:464`: StartGame and the PlayerSpawn that follows it are both reported as
  Spawn: with reset_on_spawn the second runs the first steps again, or skips steps that have not run.
* `torchflower-lite-bot/src/main.rs:434`: a step whose trigger is on_death in the middle of the list is
  never passed: Death runs it without moving the index, and no other event does.
* `torchflower-lite-bot/src/main.rs:507`: the items of a container are kept by container and slot across
  windows: a click in a new window may carry the item of an old one.
* `torchflower-lite-bot/src/main.rs:368`: the delay of a step sleeps inside the session's loop: nothing is
  received and no request answered meanwhile; watched by `SessionEnds`.
* `bot/supervisor.rs:27`: the map of tasks is empty after a restart of the engine, the rows still show bots
  as connected.
* `bedrock/auth/entitlement.rs:125`: the time of the next attempt is computed and stored, and the next
  attempt follows at once: nothing reads it.
* `db.rs:329`: the retry count is read, increased and written in two statements: of two failures at once one
  is lost.
* `db.rs:69`: upsert_account_email() looks for the account and then inserts it: two imports of one address
  at once make two accounts.
* `easy_auth.rs:302`: the cache file is refused once the access token has expired, although the file's
  refresh token is there to renew it (easy_auth.rs 8-9 says later runs authenticate silently with it).
* `easy_auth.rs:317`: a run from the cache stores the file's refresh token over the one in the database, which a
  refresh may have renewed since; see `NewestTokenAlways`.
* `bedrock/auth/entitlement.rs:44`: the HTTP clients of the authentication have no timeout: a service that
  does not answer keeps the request, and the account pending, for as long as the connection lasts.
* `pool.rs:101`: a bot that has ended by Disconnect keeps its entry: the pool is full of ended bots at last.
* `pool.rs:135`: commands behind a Disconnect in the channel are lost although send() has returned Ok.
* `pool.rs:170`: buffers are shared by all loops: one that is not given back, at a Disconnect for instance,
  is missing for good; watched by `EngineTypeOK`.
* `torchflower-client/src/lib.rs:171`: the reader keeps the connection's mutex across recv(): a send waits
  until the server sends something.
* `core/mod.rs:614`: move_to() changes the movement, the state and the scheduler under one lock after
  another: a reader in between sees a target without the position.

## Plan

Done: the RakNet queues and link refining `OrderedDelivery`, locks, client, handshake, session, gameplay,
lite bot, accounts, supervisor, pool; of what the passing runs check, everything but liveness is proved.

Next:

1. Both directions of a link at once, with `RecvQueue::ack` fed by the peer's acknowledgements (`connection/mod.rs:501`).
2. A second connection in `ClientLifecycle`: `connect()` after `close()`, with the notifier spent.
3. `Handshake` composed with the tasks of `ClientLifecycle`, so that `recv_time` and the first seconds after the
   hand-over are in one model.
4. `AckRecords`: the compression of acknowledged sequences into ranges, against its definition as a set.
5. Several accounts with one address (`db.rs:69`), and the cache of easy-auth against a refreshed database.

The theorems follow the models: `RecvQueue` with `ack` keeps `IInv` only as far as the two sequence spaces are
told apart, which is what 1 is to find out; a spent notifier as an invariant of 2; the composition of 3 as a step that implements both of its parts;
the definition of 4 as a lemma about folds, as far as it needs no induction; and for 5 the token of `NewestToken` with one account each.
