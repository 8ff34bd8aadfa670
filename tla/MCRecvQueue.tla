---------------------------- MODULE MCRecvQueue ----------------------------
(***************************************************************************)
(* RecvQueue on six datagrams of a peer: an ordered payload, a payload     *)
(* split in two on the same channel, an ordered payload after it together  *)
(* with one that is on no channel, both wrapped again with a payload of    *)
(* another channel and with the second part of another split payload, and  *)
(* the part of that payload whose index is out of bounds: coming first it  *)
(* makes the payload complete without its first part, coming later it is   *)
(* refused and the payload stays torn.                                     *)
(***************************************************************************)
EXTENDS RecvQueue

Ord(ridx, chan, oidx, split) == [rel |-> "ReliableOrd", ridx |-> ridx,
                                 chan |-> chan, oidx |-> oidx, split |-> split]

Part(id, index) == <<[id |-> id, size |-> 2, index |-> index]>>

First == Ord(0, 0, 0, <<>>)
Left == Ord(1, 0, 1, Part(1, 0))
Right == Ord(2, 0, 1, Part(1, 1))
Last == Ord(3, 0, 2, <<>>)
Other == Ord(4, 1, 0, <<>>)
Torn == Ord(5, 0, 3, Part(2, 2))
Rest == Ord(7, 0, 3, Part(2, 1))
Loose == [rel |-> "Reliable", ridx |-> 6, split |-> <<>>]

MCDatagram == {[seq |-> 0, frames |-> <<First>>],
               [seq |-> 1, frames |-> <<Left>>],
               [seq |-> 2, frames |-> <<Right>>],
               [seq |-> 3, frames |-> <<Last, Loose>>],
               [seq |-> 4, frames |-> <<Last, Loose, Other, Rest>>],
               [seq |-> 5, frames |-> <<Torn>>]}

MCFrame == {First, Left, Right, Last, Other, Torn, Rest, Loose}

\* But for the part out of bounds this peer numbers its packets: what the
\* theorems about ChannelOrder, WholePayload and NoSilentLoss assume is true of it.
ASSUME MCPeerNumbers == Numbered(MCFrame \ {Torn})
=============================================================================
