----------------------------- MODULE MCRakLink -----------------------------
EXTENDS RakLink

MCParts == [m \in Message |-> IF m = "long" THEN 2 ELSE 1]

\* The frames and datagrams the sender can make of these messages.
MCOrdered ==
    {f \in [rel : {"ReliableOrd"}, ridx : 0 .. 2, chan : SendChannel, oidx : 0 .. 1,
            split : {<<>>} \cup {<<[id |-> 1, size |-> 2, index |-> i]>> : i \in {0, 1}},
            body : Message \X {0, 1}] :
        IF MCParts[f.body[1]] = 1 THEN f.split = <<>> /\ f.body[2] = 0
        ELSE f.split # <<>> /\ f.body[2] = f.split[1].index}

MCPlain ==
    [rel : {"Unreliable"}, split : {<<>>}, body : Message \X {0}] \cup
    [rel : {"Reliable"}, ridx : 0 .. 2, split : {<<>>}, body : Message \X {0}]

MCFrame == (IF "ReliableOrd" \in SendKind THEN MCOrdered ELSE {}) \cup
           {f \in MCPlain : f.rel \in SendKind}

MCDatagram == [seq : 0 .. 2, frames : {<<f>> : f \in MCFrame}]
=============================================================================
