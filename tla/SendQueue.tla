----------------------------- MODULE SendQueue -----------------------------
(***************************************************************************)
(* The sending half of a RakNet connection: SendQueue of                   *)
(* connection/queue/send.rs with its RecoveryQueue.  Every operation runs  *)
(* under the write lock of the queue and is one action.                    *)
(*                                                                         *)
(* A message is an opaque value with a number of parts: 1 when it fits in  *)
(* fragment_body_limit(mtu), otherwise the number of chunks split() cuts.  *)
(* Datagrams go to wire, the set of datagrams in flight.  Timestamps of    *)
(* the recovery queue are ages, capped just above the threshold they are   *)
(* compared with.                                                          *)
(***************************************************************************)
EXTENDS Integers, FiniteSets, Sequences

CONSTANTS
    Message,        \* what the application may send
    Parts,          \* [Message -> Nat \ {0}]
    SendChannel,    \* the order channels it may use
    TimeoutResend,  \* RAKNET_TIMEOUT_RESEND
    ResendSeconds,  \* RAKNET_TIMEOUT_RESEND_SECONDS
    ResendLimit,    \* RAKNET_TIMEOUT_RESEND_LIMIT, per tick
    DropSeconds,    \* the age at which drop_older_than() forgets
    RecentLimit     \* RECENT_SENT_LIMIT

VARIABLES
    sendSeq,      \* send_seq: the next datagram sequence
    reliableSeq,  \* reliable_seq: the next reliable index
    orderIndex,   \* order_channels: the next order index of each channel
    fragmentId,   \* FragmentQueue::fragment_id
    queued,       \* frames waiting for the next tick (ready)
    recovery,     \* the unacknowledged datagrams (ack): seq -> [age, datagram]
    recent,       \* recent_sent in the order of recent_sent_order
    wire          \* datagrams in flight to the peer

sendVars == <<sendSeq, reliableSeq, orderIndex, fragmentId, queued, recovery,
              recent, wire>>

ASSUME SendAssumption ==
    /\ Parts \in [Message -> Nat \ {0}]
    /\ TimeoutResend \in BOOLEAN
    /\ ResendSeconds \in Nat
    /\ ResendLimit \in Nat \ {0}
    /\ DropSeconds \in Nat
    /\ RecentLimit \in Nat \ {0}

SendInit ==
    /\ sendSeq = 0
    /\ reliableSeq = 0
    /\ orderIndex = [c \in SendChannel |-> 0]
    /\ fragmentId = 0
    /\ queued = <<>>
    /\ recovery = <<>>
    /\ recent = <<>>
    /\ wire = {}

\* Mutant: ordered frames are taken for unreliable.
MustArrivePlain(f) == f.rel = "Reliable"

MustArrive(f) == f.rel \in {"Reliable", "ReliableOrd", "ReliableSeq", "ReliableOrdAck"}

\* The recovery queue after (re-)inserting datagrams with a fresh timestamp.
Tracked(queue, datagrams) ==
    LET seqs == {d.seq : d \in datagrams}
    IN  [s \in DOMAIN queue \cup seqs |->
            IF s \in seqs
            THEN [age |-> 0, datagram |-> CHOOSE d \in datagrams : d.seq = s]
            ELSE queue[s]]

\* Datagrams in the order of their sequence (a definition of its own and not
\* SetToSortSeq, so that InOrderProperties can be proved).
InOrder(datagrams) ==
    CHOOSE s \in [1 .. Cardinality(datagrams) -> datagrams] :
        \A j, k \in DOMAIN s : j < k => s[j].seq < s[k].seq

\* remember_sent_packet() for datagrams taken in the order of their sequence:
\* new ones are appended, the oldest ones beyond the limit forgotten.
Remembered(known, datagrams) ==
    LET fresh == {d \in datagrams : \A k \in DOMAIN known : known[k].seq # d.seq}
        all == known \o InOrder(fresh)
    IN  SubSeq(all, IF Len(all) > RecentLimit THEN Len(all) - RecentLimit + 1 ELSE 1,
               Len(all))

\* send_frame() on each frame: one frame per datagram, numbered on; the
\* reliable ones are kept until they are acknowledged.
Datagrams(frames) ==
    {[seq |-> sendSeq + k - 1, frames |-> <<frames[k]>>] : k \in DOMAIN frames}

Kept(datagrams) == {d \in datagrams : MustArrive(d.frames[1])}

Emit(frames) ==
    LET sent == Datagrams(frames)
    IN  /\ sendSeq' = sendSeq + Len(frames)
        /\ recovery' = Tracked(recovery, Kept(sent))
        /\ recent' = Remembered(recent, Kept(sent))
        /\ wire' = wire \cup sent

\* insert() with Unreliable or Reliable: out at once, whatever the size.
InsertPlain(m, rel) ==
    LET f == IF rel = "Reliable"
             THEN [rel |-> rel, ridx |-> reliableSeq, split |-> <<>>, body |-> <<m, 0>>]
             ELSE [rel |-> rel, split |-> <<>>, body |-> <<m, 0>>]
    IN  /\ rel \in {"Unreliable", "Reliable"}
        /\ Emit(<<f>>)
        /\ reliableSeq' = IF rel = "Reliable" THEN reliableSeq + 1 ELSE reliableSeq
        /\ UNCHANGED <<orderIndex, fragmentId, queued>>

\* insert() of a message that does not fit: split into ReliableOrd parts that
\* share one order index, all sent at once.
InsertSplit(m, chan) ==
    LET id == fragmentId + 1
        part(k) == [rel |-> "ReliableOrd", ridx |-> reliableSeq + k - 1,
                    chan |-> chan, oidx |-> orderIndex[chan],
                    split |-> <<[id |-> id, size |-> Parts[m], index |-> k - 1]>>,
                    body |-> <<m, k - 1>>]
    IN  /\ Parts[m] > 1
        /\ fragmentId' = id
        /\ Emit([k \in 1 .. Parts[m] |-> part(k)])
        /\ reliableSeq' = reliableSeq + Parts[m]
        /\ orderIndex' = [orderIndex EXCEPT ![chan] = @ + 1]
        /\ UNCHANGED queued

\* insert() of a ReliableOrd message that fits: it takes its indices now, and
\* goes out now or at the next tick.
InsertOrdered(m, chan, immediate) ==
    LET f == [rel |-> "ReliableOrd", ridx |-> reliableSeq, chan |-> chan,
              oidx |-> orderIndex[chan], split |-> <<>>, body |-> <<m, 0>>]
    IN  /\ Parts[m] = 1
        /\ reliableSeq' = reliableSeq + 1
        /\ orderIndex' = [orderIndex EXCEPT ![chan] = @ + 1]
        /\ IF immediate
           THEN Emit(<<f>>) /\ UNCHANGED queued
           ELSE /\ queued' = Append(queued, f)
                /\ UNCHANGED <<sendSeq, recovery, recent, wire>>
        /\ UNCHANGED fragmentId

\* drop_older_than(): what is forgotten without an acknowledgement.
TooOld(tracked) == {s \in DOMAIN tracked : tracked[s].age > DropSeconds}

\* update(): send what was queued, then resend what has waited too long for
\* its acknowledgement, at most ResendLimit of it; what is over the limit is
\* taken for fresh again.  Which ones are over it depends on a hash map.
Update ==
    LET sent == Datagrams(queued)
        tracked == Tracked(recovery, Kept(sent))
        old == {s \in DOMAIN tracked : tracked[s].age > ResendSeconds}
        again(seqs) == {tracked[s].datagram : s \in seqs}
    IN  /\ sendSeq' = sendSeq + Len(queued)
        /\ queued' = <<>>
        /\ IF TimeoutResend
           THEN \E chosen \in SUBSET old :
                   /\ Cardinality(chosen) = IF Cardinality(old) > ResendLimit
                                            THEN ResendLimit ELSE Cardinality(old)
                   /\ recovery' = Tracked(tracked, again(old))
                   /\ recent' = Remembered(Remembered(recent, Kept(sent)), again(chosen))
                   /\ wire' = wire \cup sent \cup again(chosen)
           ELSE /\ recovery' = [s \in DOMAIN tracked \ TooOld(tracked) |-> tracked[s]]
                /\ recent' = Remembered(recent, Kept(sent))
                /\ wire' = wire \cup sent
        /\ UNCHANGED <<reliableSeq, orderIndex, fragmentId>>

\* Mutant: an acknowledgement is taken to cover everything before it.
OnAckCumulative(seqs) ==
    /\ recovery' = [s \in {t \in DOMAIN recovery : \A a \in seqs : t > a} |-> recovery[s]]
    /\ UNCHANGED <<sendSeq, reliableSeq, orderIndex, fragmentId, queued, recent, wire>>

\* ack(): the acknowledged datagrams leave the recovery queue.
OnAck(seqs) ==
    /\ recovery' = [s \in DOMAIN recovery \ seqs |-> recovery[s]]
    /\ UNCHANGED <<sendSeq, reliableSeq, orderIndex, fragmentId, queued, recent, wire>>

\* nack() and resend_frame_packet(): what is still in the recovery queue or
\* among the recently sent is sent again under its old sequence, and waits
\* for an acknowledgement again even when it already had one.
OnNack(seqs) ==
    LET known == {recovery[s].datagram : s \in DOMAIN recovery \cap seqs}
        late == {recent[k] : k \in {j \in DOMAIN recent :
                    recent[j].seq \in seqs \ DOMAIN recovery}}
        again == known \cup late
    IN  /\ recovery' = Tracked(recovery, again)
        /\ recent' = Remembered(recent, again)
        /\ wire' = wire \cup again
        /\ UNCHANGED <<sendSeq, reliableSeq, orderIndex, fragmentId, queued>>

\* One second of current_epoch() as the recovery queue sees it.
AgeLimit == (IF TimeoutResend THEN ResendSeconds ELSE DropSeconds) + 1

SendClock ==
    /\ recovery' = [s \in DOMAIN recovery |->
                       [recovery[s] EXCEPT !.age = IF @ < AgeLimit THEN @ + 1 ELSE @]]
    /\ UNCHANGED <<sendSeq, reliableSeq, orderIndex, fragmentId, queued, recent, wire>>

----------------------------------------------------------------------------
\* The shape of the queue's state: datagrams are kept under their sequence,
\* which was once given out, and at most RecentLimit of them for late NACKs.
SendTypeOK ==
    /\ {sendSeq, reliableSeq, fragmentId} \subseteq Nat
    /\ orderIndex \in [SendChannel -> Nat]
    /\ \A k \in DOMAIN queued : queued[k].ridx \in 0 .. reliableSeq - 1
    /\ DOMAIN recovery \subseteq 0 .. sendSeq - 1
    /\ \A s \in DOMAIN recovery : /\ recovery[s].age \in 0 .. AgeLimit
                                  /\ recovery[s].datagram.seq = s
    /\ Len(recent) <= RecentLimit
    /\ \A j, k \in DOMAIN recent : recent[j].seq = recent[k].seq => j = k
    /\ \A d \in wire : d.seq \in 0 .. sendSeq - 1
=============================================================================
