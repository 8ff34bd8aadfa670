------------------------------ MODULE RakLink ------------------------------
(***************************************************************************)
(* One direction of a RakNet connection: the application and the SendQueue *)
(* of one peer, a network that loses, duplicates and reorders datagrams    *)
(* and acknowledgements, and the RecvQueue of the other peer.  The tasks   *)
(* of client/mod.rs connect them: the tick sends what the receive queue    *)
(* acknowledges and requests, the receive task hands ACK and NACK packets  *)
(* to the send queue.                                                      *)
(***************************************************************************)
EXTENDS SendQueue, RecvQueue

CONSTANTS
    SendKind,   \* the reliabilities the application asks for
    MaxFaults   \* bound on what the network loses or duplicates

ASSUME LinkAssumption ==
    /\ SendKind \subseteq {"Unreliable", "Reliable", "ReliableOrd"}
    /\ MaxFaults \in Nat

VARIABLES
    faults,     \* how often it has
    control,    \* ACK and NACK packets in flight to the sender
    submitted,  \* history: the messages put on each order channel, in order
    plain       \* history: the messages sent on none

linkVars == <<sendVars, recvVars, faults, control, submitted, plain>>

Ack(seqs) == [kind |-> "ACK", seqs |-> seqs]
Nack(seqs) == [kind |-> "NACK", seqs |-> seqs]

LinkInit ==
    /\ SendInit
    /\ RecvInit
    /\ faults = 0
    /\ control = {}
    /\ submitted = [c \in SendChannel |-> <<>>]
    /\ plain = {}

Submitted == UNION {{submitted[c][k] : k \in DOMAIN submitted[c]} : c \in SendChannel}

----------------------------------------------------------------------------
(* The sending peer.  The application sends each message once. *)

SendPlain(m, rel) ==
    /\ m \notin Submitted \cup plain
    /\ rel \in SendKind
    /\ plain' = plain \cup {m}
    /\ InsertPlain(m, rel)
    /\ UNCHANGED <<recvVars, faults, control, submitted>>

SendOrdered(m, chan, immediate) ==
    /\ m \notin Submitted \cup plain
    /\ "ReliableOrd" \in SendKind
    /\ submitted' = [submitted EXCEPT ![chan] = Append(@, m)]
    /\ \/ InsertOrdered(m, chan, immediate)
       \/ immediate /\ InsertSplit(m, chan)
    /\ UNCHANGED <<recvVars, faults, control, plain>>

SenderTick ==
    /\ \/ queued # <<>>
       \/ \E s \in DOMAIN recovery : recovery[s].age = AgeLimit
    /\ Update
    /\ UNCHANGED <<recvVars, faults, control, submitted, plain>>

ReceiveControl(c) ==
    /\ c \in control
    /\ control' = control \ {c}
    /\ IF c.kind = "ACK" THEN OnAck(c.seqs) ELSE OnNack(c.seqs)
    /\ UNCHANGED <<recvVars, faults, submitted, plain>>

----------------------------------------------------------------------------
(* The receiving peer. *)

Fault == faults < MaxFaults /\ faults' = faults + 1

\* A datagram arrives; the network may hold a second copy of it.
ReceiveDatagram(d) ==
    /\ d \in wire
    /\ InsertDatagram(d)
    /\ \/ wire' = wire \ {d} /\ UNCHANGED faults
       \/ wire' = wire /\ Fault
    /\ UNCHANGED <<sendSeq, reliableSeq, orderIndex, fragmentId, queued,
                   recovery, recent, control, submitted, plain>>

HandleDatagram ==
    /\ HandleFrame \/ Flush
    /\ UNCHANGED <<sendVars, faults, control, submitted, plain>>

ReceiverTick ==
    /\ TickAcks
    /\ control' = IF ackPending = {} THEN control ELSE control \cup {Ack(ackPending)}
    /\ UNCHANGED <<sendVars, faults, submitted, plain>>

ReceiverExpires(id) ==
    /\ ExpireSet(id)
    /\ UNCHANGED <<sendVars, faults, control, submitted, plain>>

ReceiverRequests ==
    /\ TickNacks
    /\ control' = IF Requested = {} THEN control ELSE control \cup {Nack(Requested)}
    /\ UNCHANGED <<sendVars, faults, submitted, plain>>

----------------------------------------------------------------------------
(* Time, which passes for both peers, and the network. *)

Second ==
    /\ SendClock
    /\ ClockTick
    /\ UNCHANGED <<faults, control, submitted, plain>>

Lose ==
    /\ Fault
    /\ \/ \E d \in wire : wire' = wire \ {d} /\ UNCHANGED control
       \/ \E c \in control : control' = control \ {c} /\ UNCHANGED wire
    /\ UNCHANGED <<sendSeq, reliableSeq, orderIndex, fragmentId, queued,
                   recovery, recent, recvVars, submitted, plain>>

LinkNext ==
    \/ \E m \in Message, rel \in {"Unreliable", "Reliable"} : SendPlain(m, rel)
    \/ \E m \in Message, c \in SendChannel, now \in BOOLEAN : SendOrdered(m, c, now)
    \/ SenderTick
    \/ \E c \in control : ReceiveControl(c)
    \/ \E d \in wire : ReceiveDatagram(d)
    \/ HandleDatagram
    \/ ReceiverTick
    \/ \E id \in DOMAIN frags : ReceiverExpires(id)
    \/ ReceiverRequests
    \/ Second
    \/ Lose

LinkSpec == LinkInit /\ [][LinkNext]_linkVars

\* Arrivals that tell the other side something new.
NewDatagram == \E d \in wire : d.seq \notin ackPending \cup acked /\ ReceiveDatagram(d)

NewAck == \E c \in control :
             c.kind = "ACK" /\ c.seqs \cap DOMAIN recovery # {} /\ ReceiveControl(c)

\* Both tasks of a peer run for ever (the tick every 50 ms) and share FIFO
\* locks, seconds pass, and what the network does not lose arrives.
LinkFairness ==
    /\ WF_linkVars(SenderTick)
    /\ WF_linkVars(HandleDatagram)
    /\ SF_linkVars(ReceiverTick)
    /\ WF_linkVars(\E id \in DOMAIN frags : ReceiverExpires(id))
    /\ WF_linkVars(ReceiverRequests)
    /\ SF_linkVars(Second)
    /\ SF_linkVars(NewDatagram)
    /\ SF_linkVars(NewAck)

LinkFairSpec == LinkSpec /\ LinkFairness

----------------------------------------------------------------------------
(* Properties. *)

\* The payloads released on a channel, as the abstract specification sees
\* them: when each was, its position on its channel and the message it carries.
MessageOf(payload) ==
    IF \A p \in DOMAIN payload : payload[p].body = <<payload[1].body[1], p - 1>>
    THEN payload[1].body[1] ELSE "garbled"

Obtained(c) ==
    [i \in {i \in DOMAIN Released : Ordered(Released[i][1]) /\ Released[i][1].chan = c} |->
        [at |-> Released[i][1].oidx + 1, message |-> MessageOf(Released[i])]]

Got == [c \in SendChannel |-> Obtained(c)]

Delivery == INSTANCE OrderedDelivery WITH
                OrderChannel <- SendChannel, Sendable <- Message,
                sent <- submitted, got <- Got

\* The link, with its losses, duplicates, resends, splits and stale packets,
\* implements ordered delivery on each of its channels.
ImplementsDelivery == Delivery!Spec

\* The sender of reliable messages forgets a datagram only when the receiver
\* has acknowledged it: whatever is sent is kept for resending or acked, in
\* books that keep their shape (on_ack(), update(), on_nack(), which may put a
\* datagram back that was acknowledged in the meantime).
RecoveryCovers == SendTypeOK /\ \A s \in 0 .. sendSeq - 1 : s \in DOMAIN recovery \cup acked

\* A submitted message is obtained, unless the receiver gave something up: it
\* passed over a datagram (its window was seeded above one the network
\* delivered late, or a request was pruned), over a reliable index it never
\* took (its reliable window was seeded above it), or a channel jumped past a
\* stale split packet.
Has(m) == \E c \in SendChannel : \E i \in DOMAIN Obtained(c) : Obtained(c)[i].message = m

GaveUp ==
    \/ \E s \in 0 .. window.lo - 1 : s \notin ackPending \cup acked
    \/ \E r \in 0 .. rwindow.lo - 1 : \A f \in InQueue : Reliable(f) => f.ridx # r
    \/ \E c \in SendChannel : order[c].next > Cardinality(DOMAIN Obtained(c))

DeliversOrGivesUp == \A m \in Message : m \in Submitted ~> Has(m) \/ GaveUp

\* protocol/reliability.rs:20-22: the receiver puts the packets of a channel
\* back in order.  With no fault the network only reorders.
ReorderedArrives == \A m \in Message : m \in Submitted ~> Has(m)

\* connection/queue/send.rs:70-72 and protocol/reliability.rs:28-29: a
\* datagram is resent until its acknowledgement arrives or it has been tried
\* often enough.  It does not hold with TimeoutResend (the README says why).
RecoveryEnds ==
    \A s \in {d.seq : d \in Datagram} :
        s \in DOMAIN recovery ~> s \notin DOMAIN recovery
=============================================================================
