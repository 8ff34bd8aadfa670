----------------------------- MODULE RecvQueue -----------------------------
(***************************************************************************)
(* The receiving half of a RakNet connection: RecvQueue of                 *)
(* connection/queue/recv.rs with the FragmentQueue and OrderedQueue of     *)
(* connection/queue/mod.rs, driven by the receive task and the 50 ms tick  *)
(* of client/mod.rs.  Datagrams arrive in any order, any number of times,  *)
(* or never.                                                               *)
(*                                                                         *)
(* A payload is represented by the frames it came from: what the queue     *)
(* hands to the application is a sequence of payloads, each a sequence of  *)
(* the frames whose bodies were concatenated.                              *)
(*                                                                         *)
(* The queue's mutex is held over a whole insert()+flush() and over a      *)
(* whole ack_flush()+nack_queue(); phase says which of the two holds it.   *)
(* Epoch timestamps are kept as ages, capped just above the threshold they *)
(* are compared with: the code only ever compares them with it.            *)
(***************************************************************************)
EXTENDS SlidingWindow, Integers, Sequences

CONSTANTS
    Frame,            \* the frames the peer may send
    Datagram,         \* the datagrams it may put them in: [seq, frames]
    SequenceWindow,   \* RAKNET_SEQUENCE_WINDOW_SIZE
    ReliableSize,     \* RAKNET_RELIABLE_WINDOW_SIZE
    NackMaxSpan,      \* RAKNET_NACK_MAX_SPAN
    NackTtl,          \* RAKNET_NACK_TTL_SECONDS
    NackInterval,     \* RAKNET_NACK_RESEND_INTERVAL_SECONDS
    NackMaxAttempts,  \* RAKNET_NACK_MAX_ATTEMPTS
    StaleSeconds,     \* RAKNET_REASSEMBLY_STALE_SECONDS
    MaxFrags          \* MAX_FRAGS of protocol/mod.rs

VARIABLES
    phase,      \* who holds the queue: "idle", "frames" or "expire"
    todo,       \* frames of the datagram insert() has not handled yet
    stale,      \* ids expire_stale() collected and has not dropped yet
    seeded,     \* initialized
    window,     \* the window on datagram sequence numbers
    rseeded,    \* reliable_initialized
    rwindow,    \* the window on reliable indices
    ackPending, \* sequences to acknowledge at the next tick
    nack,       \* missing sequences and the state of their requests
    frags,      \* partially received split packets, by split id
    order,      \* per channel: next index to release, payloads held back
    ready,      \* payloads released and not yet flushed to the application
    delivered,  \* history: the payloads handed to the application
    acked       \* history: the sequences acknowledged to the peer

recvVars == <<phase, todo, stale, seeded, window, rseeded, rwindow, ackPending,
              nack, frags, order, ready, delivered, acked>>

----------------------------------------------------------------------------
\* Reliability::is_reliable of protocol/reliability.rs.
Reliable(f) == f.rel \in {"Reliable", "ReliableOrd", "ReliableSeq", "ReliableOrdAck"}

Ordered(f) == f.rel = "ReliableOrd"

\* Frames that carry an order channel and index on the wire
\* (Reliability::is_ordered); only ReliableOrd ones are put in order.
Indexed(f) == f.rel \in {"UnreliableSeq", "ReliableOrd", "ReliableOrdAck"}

IsSplit(f) == f.split # <<>>

Split(f) == f.split[1]

FrameOK(f) ==
    /\ f.rel \in {"Unreliable", "UnreliableSeq", "Reliable", "ReliableOrd",
                  "ReliableSeq", "UnreliableAck", "ReliableAck", "ReliableOrdAck"}
    /\ Reliable(f) => f.ridx \in Nat
    /\ Indexed(f) => f.oidx \in Nat
    /\ IsSplit(f) => /\ Split(f) = [id |-> Split(f).id, size |-> Split(f).size,
                                    index |-> Split(f).index]
                     /\ Split(f).size \in Nat
                     /\ Split(f).index \in Nat

ASSUME RecvAssumption ==
    /\ \A f \in Frame : FrameOK(f)
    /\ \A d \in Datagram : d.seq \in Nat /\ d.frames \in Seq(Frame)
    /\ SequenceWindow \in Nat \ {0}
    /\ ReliableSize \in Nat \ {0}
    /\ NackMaxSpan \in Nat
    /\ NackTtl \in Nat
    /\ NackInterval \in Nat
    /\ NackMaxAttempts \in Nat
    /\ StaleSeconds \in Nat
    /\ MaxFrags \in Nat

\* Frames in the same place of what their sender sends: parts of one split
\* packet, or frames with one index of an order channel.
SamePacket(f, g) == IsSplit(f) /\ IsSplit(g) /\ Split(f).id = Split(g).id

SameTurn(f, g) == Ordered(f) /\ Ordered(g) /\ f.chan = g.chan /\ f.oidx = g.oidx

\* A peer that numbers what it sends as SendQueue::insert does: the parts of a
\* split packet agree in everything but their index, which is below their number,
\* and an index of an order channel is given to one packet.  The queue relies on
\* it and does not check it; the state machine below does without.
Numbered(frames) ==
    \A f, g \in frames :
        /\ IsSplit(f) => Split(f).index < Split(f).size
        /\ SamePacket(f, g) =>
               /\ Split(f).size = Split(g).size
               /\ f.rel = g.rel
               /\ Indexed(f) => f.chan = g.chan /\ f.oidx = g.oidx
               /\ Split(f).index = Split(g).index => f = g
        /\ SameTurn(f, g) => f = g \/ SamePacket(f, g)

PeerNumbers == Numbered(Frame)

SplitId == {Split(f).id : f \in {g \in Frame : IsSplit(g)}}

Channel == {f.chan : f \in {g \in Frame : Indexed(g)}}

\* A restriction of a function, for the maps entries are removed from.
Without(map, S) == [k \in DOMAIN map \ S |-> map[k]]

With(map, key, value) == [k \in DOMAIN map \cup {key} |->
                              IF k = key THEN value ELSE map[k]]

Capped(n, limit) == IF n < limit THEN n + 1 ELSE limit

----------------------------------------------------------------------------
RecvInit ==
    /\ phase = "idle"
    /\ todo = <<>>
    /\ stale = {}
    /\ seeded = FALSE
    /\ window = NewWindow
    /\ rseeded = FALSE
    /\ rwindow = NewWindow
    /\ ackPending = {}
    /\ nack = <<>>
    /\ frags = <<>>
    /\ order = [c \in Channel |-> [next |-> 0, held |-> <<>>]]
    /\ ready = <<>>
    /\ delivered = <<>>
    /\ acked = {}

\* Mutant: the range of missing sequences includes the arrival itself.
MissingInclusive(w, seq) ==
    LET first == IF seq - NackMaxSpan > w.lo THEN seq - NackMaxSpan ELSE w.lo
    IN  first .. seq

\* insert(): seed the window with the first sequence ever seen, forget the
\* request for this one, drop it if the window refuses it, otherwise request
\* what is missing below it, note its acknowledgement and go through its
\* frames.  The caller flushes in both cases.
Missing(w, seq) ==
    LET first == IF seq - NackMaxSpan > w.lo THEN seq - NackMaxSpan ELSE w.lo
    IN  {i \in first .. (seq - 1) : i \notin w.got}

Seeded(seq) == IF seeded THEN window ELSE SeedStart(seq)

InsertDatagram(d) ==
    LET w == Seeded(d.seq)
        known == Without(nack, {d.seq})
        moved == InsertIndex(w, d.seq)
        wanted == Missing(moved, d.seq) \ DOMAIN known
    IN  /\ phase = "idle"
        /\ phase' = "frames"
        /\ seeded' = TRUE
        /\ IF Accepts(w, SequenceWindow, d.seq)
           THEN /\ window' = moved
                /\ nack' = [s \in DOMAIN known \cup wanted |->
                               IF s \in wanted
                               THEN [age |-> 0, since |-> 0, attempts |-> 0]
                               ELSE known[s]]
                /\ ackPending' = ackPending \cup {d.seq}
                /\ todo' = d.frames
           ELSE /\ window' = w
                /\ nack' = known
                /\ todo' = <<>>
                /\ UNCHANGED ackPending
        /\ UNCHANGED <<stale, rseeded, rwindow, frags, order, ready, delivered,
                       acked>>

\* Mutants: flush() without the sort, with an if for its loop, and one that
\* clears the queue.
RunBackwards(q) == LET gap == FirstGap(DOMAIN q.held, q.next)
                   IN  [k \in 1 .. (gap - q.next) |-> q.held[gap - k]]

FlushedOnce(q) == IF q.next \in DOMAIN q.held
                  THEN [next |-> q.next + 1, held |-> Without(q.held, {q.next})]
                  ELSE q

FlushedClear(q) == [next |-> FirstGap(DOMAIN q.held, q.next), held |-> <<>>]

\* OrderedQueue::flush: the payloads held from next on, up to the first gap.
Run(q) == LET gap == FirstGap(DOMAIN q.held, q.next)
          IN  [k \in 1 .. (gap - q.next) |-> q.held[q.next + k - 1]]

Flushed(q) == LET gap == FirstGap(DOMAIN q.held, q.next)
              IN  [next |-> gap, held |-> Without(q.held, q.next .. (gap - 1))]

\* Mutant: an ordered payload does not wait for its turn.
EnqueueAtOnce(f, payload) == ready' = Append(ready, payload) /\ UNCHANGED order

\* queue_frame_body() and queue_ordered_frame(): an ordered payload waits for
\* its turn, an old or duplicate one is dropped, any other is ready at once.
Enqueue(f, payload) ==
    IF Ordered(f)
    THEN LET q == order[f.chan]
             added == [q EXCEPT !.held = With(@, f.oidx, payload)]
         IN  IF f.oidx >= q.next /\ f.oidx \notin DOMAIN q.held
             THEN /\ order' = [order EXCEPT ![f.chan] = Flushed(added)]
                  /\ ready' = ready \o Run(added)
             ELSE UNCHANGED <<order, ready>>
    ELSE /\ ready' = Append(ready, payload)
         /\ UNCHANGED order

\* FragmentQueue::insert: a part with an index out of bounds, or one the set
\* already has, leaves the set as it is.  The bounds of the first part to come
\* are not looked at: it is counted whatever its index.
WithPart(f) ==
    LET id == Split(f).id
        set == frags[id]
    IN  IF id \notin DOMAIN frags
        THEN [size |-> Split(f).size, first |-> f, parts |-> {f}, age |-> 0]
        ELSE IF Split(f).index >= set.size
                \/ \E g \in set.parts : Split(g).index = Split(f).index
             THEN set
             ELSE [set EXCEPT !.parts = @ \cup {f}, !.age = 0]

Before(parts, f) == {g \in parts : Split(g).index < Split(f).index}

\* Mutant: collect() sorts the other way round.
AssembledBackwards(set) ==
    [k \in 1 .. set.size |->
        CHOOSE f \in set.parts : Cardinality(Before(set.parts, f)) = set.size - k]

\* FragmentQueue::collect: as many parts as there are to be, sorted by index.
Assembled(set) ==
    [k \in 1 .. set.size |->
        CHOOSE f \in set.parts : Cardinality(Before(set.parts, f)) = k - 1]

HandleSplit(f) ==
    LET set == WithPart(f)
        id == Split(f).id
    IN  IF Split(f).size > MaxFrags
        THEN UNCHANGED <<frags, order, ready>>
        ELSE IF Cardinality(set.parts) = set.size
             THEN /\ frags' = Without(frags, {id})
                  /\ Enqueue(f, Assembled(set))
             ELSE /\ frags' = With(frags, id, set)
                  /\ UNCHANGED <<order, ready>>

\* handle_frame(): a reliable frame must pass the reliable window, which the
\* first reliable frame ever handled seeds.
HandleFrame ==
    LET f == Head(todo)
        rw == IF rseeded THEN rwindow ELSE SeedStart(f.ridx)
    IN  /\ phase = "frames"
        /\ todo # <<>>
        /\ todo' = Tail(todo)
        /\ rseeded' = (rseeded \/ Reliable(f))
        /\ IF Reliable(f) /\ ~Accepts(rw, ReliableSize, f.ridx)
           THEN UNCHANGED <<rwindow, frags, order, ready>>
           ELSE /\ rwindow' = IF Reliable(f) THEN InsertIndex(rw, f.ridx) ELSE rwindow
                /\ IF IsSplit(f)
                   THEN HandleSplit(f)
                   ELSE Enqueue(f, <<f>>) /\ UNCHANGED frags
        /\ UNCHANGED <<phase, stale, seeded, window, ackPending, nack, delivered,
                       acked>>

\* flush() at the end of the receive task's critical section: everything that
\* is ready goes to the application, what a tick has released included.
Flush ==
    /\ phase = "frames"
    /\ todo = <<>>
    /\ phase' = "idle"
    /\ delivered' = delivered \o ready
    /\ ready' = <<>>
    /\ UNCHANGED <<todo, stale, seeded, window, rseeded, rwindow, ackPending,
                   nack, frags, order, acked>>

----------------------------------------------------------------------------
\* The tick: ack_flush(), then nack_queue(), which first collects the stale
\* split packets.
TickAcks ==
    /\ phase = "idle"
    /\ phase' = "expire"
    /\ acked' = acked \cup ackPending
    /\ ackPending' = {}
    /\ stale' = {id \in DOMAIN frags : frags[id].age > StaleSeconds}
    /\ UNCHANGED <<todo, seeded, window, rseeded, rwindow, nack, frags, order,
                   ready, delivered>>

\* expire_stale_fragments(): a stale set is dropped and, when its first part
\* is on an order channel, the channel jumps past its index.  The sets are
\* taken in the order of a hash map, that is, in any order.
ExpireSet(id) ==
    LET f == frags[id].first
        q == order[f.chan]
        jumped == [q EXCEPT !.next = IF @ <= f.oidx THEN f.oidx + 1 ELSE @]
    IN  /\ phase = "expire"
        /\ id \in stale
        /\ stale' = stale \ {id}
        /\ frags' = Without(frags, {id})
        /\ IF Indexed(f)
           THEN /\ order' = [order EXCEPT ![f.chan] = Flushed(jumped)]
                /\ ready' = ready \o Run(jumped)
           ELSE UNCHANGED <<order, ready>>
        /\ UNCHANGED <<phase, todo, seeded, window, rseeded, rwindow, ackPending,
                       nack, delivered, acked>>

\* Mutant: requests are not limited in number.
ExpiredByAge == {s \in DOMAIN nack : nack[s].age > NackTtl}

Expired == {s \in DOMAIN nack : \/ nack[s].age > NackTtl
                                \/ nack[s].attempts >= NackMaxAttempts}

Requested == {s \in DOMAIN nack \ Expired : \/ nack[s].attempts = 0
                                            \/ nack[s].since >= NackInterval}

\* Mutant: requests are neither counted nor pruned.
TickNacksForever ==
    /\ phase = "expire"
    /\ stale = {}
    /\ phase' = "idle"
    /\ nack' = [s \in DOMAIN nack |-> IF s \in Requested
                                     THEN [nack[s] EXCEPT !.since = 0] ELSE nack[s]]
    /\ UNCHANGED <<todo, stale, seeded, window, rseeded, rwindow, ackPending,
                   frags, order, ready, delivered, acked>>

\* The rest of nack_queue(): requests that are too old or were repeated too
\* often are pruned and the window jumps past them; those that are due are
\* sent.  The loop jumps in ascending order; since a requested sequence is
\* never in window.got, that ends where the largest one alone leads.
TickNacks ==
    /\ phase = "expire"
    /\ stale = {}
    /\ phase' = "idle"
    /\ window' = IF Expired = {} THEN window
                 ELSE LET last == CHOOSE s \in Expired : \A t \in Expired : t <= s
                      IN  SkipThrough(window, SequenceWindow, last)
    /\ nack' = [s \in DOMAIN nack \ Expired |->
                   IF s \in Requested
                   THEN [nack[s] EXCEPT !.since = 0, !.attempts = @ + 1]
                   ELSE nack[s]]
    /\ UNCHANGED <<todo, stale, seeded, rseeded, rwindow, ackPending, frags,
                   order, ready, delivered, acked>>

\* One second of current_epoch().
ClockTick ==
    /\ phase = "idle"
    /\ frags' = [id \in DOMAIN frags |->
                    [frags[id] EXCEPT !.age = Capped(@, StaleSeconds + 1)]]
    /\ nack' = [s \in DOMAIN nack |->
                   [nack[s] EXCEPT !.age = Capped(@, NackTtl + 1),
                                   !.since = Capped(@, NackInterval)]]
    /\ UNCHANGED <<phase, todo, stale, seeded, window, rseeded, rwindow,
                   ackPending, order, ready, delivered, acked>>

RecvNext ==
    \/ \E d \in Datagram : InsertDatagram(d)
    \/ HandleFrame
    \/ Flush
    \/ TickAcks
    \/ \E id \in SplitId : ExpireSet(id)
    \/ TickNacks
    \/ ClockTick

RecvSpec == RecvInit /\ [][RecvNext]_recvVars

\* The tick task and the receive task share a FIFO mutex, so neither starves
\* the other; what one of them has begun under the mutex it finishes.
RecvFairness ==
    /\ WF_recvVars(HandleFrame)
    /\ WF_recvVars(Flush)
    /\ SF_recvVars(TickAcks)
    /\ \A id \in SplitId : WF_recvVars(ExpireSet(id))
    /\ WF_recvVars(TickNacks)
    /\ SF_recvVars(ClockTick)

RecvFairSpec == RecvSpec /\ RecvFairness

----------------------------------------------------------------------------
(* Properties. *)

\* The shape of the queue's state.
RecvTypeOK ==
    /\ phase \in {"idle", "frames", "expire"}
    /\ todo \in Seq(Frame)
    /\ seeded \in BOOLEAN
    /\ window.lo \in Nat /\ window.got \subseteq Nat
    /\ rseeded \in BOOLEAN
    /\ rwindow.lo \in Nat /\ rwindow.got \subseteq Nat
    /\ ackPending \subseteq Nat
    /\ DOMAIN nack \subseteq Nat
    /\ \A s \in DOMAIN nack : /\ nack[s].age \in 0 .. NackTtl + 1
                              /\ nack[s].since \in 0 .. NackInterval
                              /\ nack[s].attempts \in 0 .. NackMaxAttempts
    /\ DOMAIN frags \subseteq SplitId
    /\ stale \subseteq DOMAIN frags
    /\ \A id \in DOMAIN frags : /\ frags[id].parts \subseteq Frame
                                /\ frags[id].first \in frags[id].parts
                                /\ frags[id].age \in 0 .. StaleSeconds + 1
    /\ DOMAIN order = Channel
    /\ \A c \in Channel : order[c].next \in Nat /\ DOMAIN order[c].held \subseteq Nat
    /\ ready \in Seq(Seq(Frame))
    /\ delivered \in Seq(Seq(Frame))
    /\ acked \subseteq Nat

\* Everything released so far, in the order the application sees it.
Released == delivered \o ready

\* However often and in whatever order datagrams and resends arrive, a
\* reliable frame contributes to at most one payload, once (the reliable
\* window of handle_frame, kept across splits, held payloads and ticks).
ReliableOnce ==
    \A i, j \in DOMAIN Released :
        \A p \in DOMAIN Released[i], q \in DOMAIN Released[j] :
            LET f == Released[i][p]
                g == Released[j][q]
            IN  Reliable(f) /\ Reliable(g) /\ f.ridx = g.ridx => i = j /\ p = q

\* On each order channel payloads are released in strictly increasing order
\* of their index, whatever ticks expired in between.
ChannelOrder ==
    \A i, j \in DOMAIN Released :
        LET f == Released[i][1]
            g == Released[j][1]
        IN  i < j /\ Ordered(f) /\ Ordered(g) /\ f.chan = g.chan => f.oidx < g.oidx

\* A payload is one unsplit frame, or as many parts of one split packet as it has,
\* in the order of their indices: never a part, never a mix.  They are all its
\* parts, unless the peer has sent one with an index out of bounds, which insert()
\* takes when it is the first to come.
Whole(payload) ==
    \/ Len(payload) = 1 /\ ~IsSplit(payload[1])
    \/ /\ \A p \in DOMAIN payload : /\ IsSplit(payload[p])
                                    /\ Split(payload[p]).id = Split(payload[1]).id
                                    /\ Split(payload[p]).size = Len(payload)
       /\ \A p, q \in DOMAIN payload :
              p < q => Split(payload[p]).index < Split(payload[q]).index
       /\ \/ \E p \in DOMAIN payload : Split(payload[p]).index >= Len(payload)
          \/ \A p \in DOMAIN payload : Split(payload[p]).index = p - 1

WholePayload == \A i \in DOMAIN Released : Whole(Released[i])

\* A sequence is never both acknowledged (now or earlier) and requested
\* again, and the window never holds a sequence that is being requested.
AckNackDisjoint ==
    /\ (ackPending \cup acked) \cap DOMAIN nack = {}
    /\ window.got \cap DOMAIN nack = {}

\* Nothing that could be released is held back: whenever a step is over, the
\* payload next in line on a channel is not in its queue.
EagerRelease == \A c \in Channel : order[c].next \notin DOMAIN order[c].held

\* Frames the queue has taken charge of and has handed over or still can: a
\* payload below the next index of its channel is in the map for good, since
\* flush() only ever looks at the next one.
PayloadFrames(payload) == {payload[p] : p \in DOMAIN payload}

InQueue ==
    (UNION {frags[id].parts : id \in DOMAIN frags})
    \cup (UNION {UNION {PayloadFrames(order[c].held[k]) :
                           k \in {j \in DOMAIN order[c].held : j >= order[c].next}} :
                     c \in Channel})
    \cup (UNION {PayloadFrames(Released[i]) : i \in DOMAIN Released})

\* What the queue has taken charge of (and acknowledged) it hands to the
\* application.  Only three things are ever let go, all of them because a
\* split packet became stale: its own parts, the payloads of its channel up to
\* its index, and a split packet completed after the channel has jumped past
\* its index.
Overtaken(f) == Ordered(f) /\ f.oidx < order[f.chan].next

JumpedOver(f, g) == Ordered(f) /\ Indexed(g) /\ f.chan = g.chan /\ f.oidx <= g.oidx

NoSilentLoss ==
    [][\A f \in InQueue \ InQueue' :
          \/ \E id \in stale : f \in frags[id].parts \/ JumpedOver(f, frags[id].first)
          \/ IsSplit(f) /\ Overtaken(f)]_recvVars

\* What is left over comes to an end: every request for a missing sequence,
\* by its arrival or by giving up (nack_queue() prunes it), and every partial
\* packet, by its completion or by its age (expire_stale_fragments()).
RequestsEnd == \A s \in {d.seq : d \in Datagram} : s \in DOMAIN nack ~> s \notin DOMAIN nack

PartialsEnd == \A id \in SplitId : id \in DOMAIN frags ~> id \notin DOMAIN frags

LeftoversEnd == RequestsEnd /\ PartialsEnd
=============================================================================
