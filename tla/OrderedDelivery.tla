-------------------------- MODULE OrderedDelivery --------------------------
(***************************************************************************)
(* What the order channels of a connection promise, whatever the network   *)
(* does (protocol/reliability.rs, "Ordered" and "Reliable"): the receiver  *)
(* obtains messages the sender put on the channel, each at most once and   *)
(* in the order in which they were put there.  Messages may be missing:    *)
(* a receiver gives up what does not arrive in time.                       *)
(***************************************************************************)
EXTENDS Naturals, Sequences

CONSTANTS
    OrderChannel,   \* the channels, independent of one another
    Sendable        \* the messages

VARIABLES
    sent,   \* per channel, the messages put on it
    got     \* per channel, what was obtained when: moment -> [at, message]

Init == /\ sent = [c \in OrderChannel |-> <<>>]
        /\ got = [c \in OrderChannel |-> <<>>]

Put(c, m) ==
    /\ sent' = [sent EXCEPT ![c] = Append(@, m)]
    /\ UNCHANGED got

\* One or more messages, in their order, after and further on than all before:
\* closing a gap releases a whole run.
Obtain(c) ==
    LET old == DOMAIN got[c]
        all == DOMAIN got'[c]
    IN  /\ got' = [got EXCEPT ![c] = got'[c]]
        /\ old \subseteq all /\ old # all
        /\ \A i \in old : got'[c][i] = got[c][i]
        /\ \A i \in all \ old :
              \E at \in 1 .. Len(sent[c]) :
                 /\ got'[c][i] = [at |-> at, message |-> sent[c][at]]
                 /\ \A j \in old : j < i
                 /\ \A j \in all : j < i => got'[c][j].at < at
        /\ UNCHANGED sent

Next == \E c \in OrderChannel :
           \/ \E m \in Sendable : Put(c, m)
           \/ Obtain(c)

Spec == Init /\ [][Next]_<<sent, got>>
=============================================================================
