---------------------------- MODULE HandshakeProofs ----------------------------
(***************************************************************************)
(* Proofs about Handshake, for any number of MTUs and attempts, and        *)
(* however many datagrams the network loses, reorders or duplicates:       *)
(* OutcomeIsHonest and HandshakeTypeOK.  What makes the first inductive is *)
(* that the datagrams on the way are honest: an accept or a refusal was    *)
(* not there before the server has made one.  What bounds the counters of  *)
(* the second is that the Connection counts each number of the client's    *)
(* once, and the client gives out few.                                     *)
(***************************************************************************)
EXTENDS Handshake, FiniteSetTheorems, TLAPS

\* What a datagram says of the server that has sent it.
Honest(m) ==
    /\ m.kind = "Accept" => accepts > 0
    /\ m.kind = "Refusal" => ~compatible

HonestInv ==
    /\ OutcomeIsHonest
    /\ phase \in {"Finish", "Online"} <=> status = "Completed"
    /\ accepts \in Nat
    /\ unacked # {} => accepts > 0
    /\ \A m \in net : Honest(m)

\* Datagrams that are taken or put on the way leave the others honest.
LEMMA LeftIsOnTheWay ==
    ASSUME NEW m \in net
    PROVE  Left(m) \subseteq net
BY DEF Left

\* A step in which the server accepts nothing, the outcome stays, and each
\* datagram that is new is honest.
LEMMA QuietStep ==
    ASSUME HonestInv, UNCHANGED <<phase, status, accepts, unacked, compatible>>,
           \A m \in net' : m \in net \/ m.kind \notin {"Accept", "Refusal"}
    PROVE  HonestInv'
BY DEF HonestInv, OutcomeIsHonest, Honest

\* A step of the client on its way, which has not come to an accept.
LEMMA EarlyStep ==
    ASSUME HonestInv, phase \notin {"Finish", "Online"}, phase' \notin {"Finish", "Online"},
           status' # "Completed", status' = "IncompatibleVersion" => ~compatible,
           UNCHANGED <<accepts, unacked, compatible>>,
           \A m \in net' : m \in net \/ m.kind \notin {"Accept", "Refusal"}
    PROVE  HonestInv'
BY DEF HonestInv, OutcomeIsHonest, Honest

LEMMA HonestKept == HonestInv /\ [HandshakeNext]_handshakeVars => HonestInv'
<1> SUFFICES ASSUME HonestInv, [HandshakeNext]_handshakeVars
             PROVE  HonestInv'
    OBVIOUS
<1> USE DEF discoveryVars, networkVars, serverVars, clientVars, ToServer, ToClient
<1>0. status # "Completed" <=> phase \notin {"Finish", "Online"}
    BY DEF HonestInv
<1>1. CASE Connect \/ PingTimesOut
    BY <1>0, <1>1, EarlyStep DEF Connect, PingTimesOut, HonestInv, OutcomeIsHonest
<1>2. CASE Finish
    BY <1>2 DEF Finish, HonestInv, OutcomeIsHonest, Honest
<1>3. CASE OpenRequest \/ OpenTimesOut \/ NextMtu \/ NoMtuLeft
    BY <1>0, <1>3, EarlyStep DEF OpenRequest, OpenTimesOut, NextMtu, NoMtuLeft, Trying, Fails,
                                 HonestInv, OutcomeIsHonest
<1>4. CASE InfoRequest \/ InfoTimesOut \/ NoInfo \/ InfoReceiveError
    BY <1>0, <1>4, EarlyStep DEF InfoRequest, InfoTimesOut, NoInfo, InfoReceiveError, Fails,
                                 HonestInv, OutcomeIsHonest
<1>5. CASE TwoSecondsPass \/ AcceptReceiveError
    BY <1>0, <1>5, EarlyStep DEF TwoSecondsPass, AcceptReceiveError, Again, Fails,
                                 HonestInv, OutcomeIsHonest
<1>6. ASSUME NEW m \in net, ClientReceives(m)
      PROVE  HonestInv'
  <2>0. compatible' = compatible /\ Left(m) \subseteq net /\ Honest(m)
      BY <1>6, LeftIsOnTheWay DEF ClientReceives, PingReceives, OpenReceives, InfoReceives,
            AcceptGivesUp, AcceptReceives, Accepted, OnlineReceives, Take, HonestInv
  <2>1. CASE PingReceives(m)
      BY <1>0, <2>0, <2>1, EarlyStep DEF PingReceives, HonestInv, OutcomeIsHonest
  <2>2. CASE OpenReceives(m)
      BY <1>0, <2>0, <2>2, EarlyStep DEF OpenReceives, Trying, Fails, OpenOutcome, Honest,
                                         HonestInv, OutcomeIsHonest
  <2>3. CASE InfoReceives(m)
    <3>1. /\ phase = "Session" /\ UNCHANGED <<accepts, unacked>>
          /\ \/ phase' \in {"Session", "Accept"} /\ status' = status
             \/ phase' = "Failed" /\ status' = "Failed"
        BY <2>3 DEF InfoReceives, Fails
    <3>2. \A d \in net' : d \in net \/ d.kind = "Request"
      <4>1. net' = {ToServer("Request", sent + 1)} \/ net' = Left(m)
          BY <2>3, Zenon DEF InfoReceives
      <4> QED BY <2>0, <4>1
    <3> QED BY <1>0, <2>0, <3>1, <3>2, EarlyStep DEF HonestInv, OutcomeIsHonest
  <2>4. CASE AcceptGivesUp(m) \/ AcceptReceives(m)
      BY <1>0, <2>0, <2>4, EarlyStep DEF AcceptGivesUp, AcceptReceives, Again, Fails,
                                         HonestInv, OutcomeIsHonest
  <2>5. CASE Accepted(m)
    <3>1. /\ phase = "Accept" /\ m.kind = "Accept"
          /\ UNCHANGED <<accepts, unacked, compatible>>
          /\ \/ phase' = "Finish" /\ status' = "Completed"
             \/ phase' = "Failed" /\ status' = "Failed"
        BY <2>0, <2>5 DEF Accepted, Answers, Fails
    <3>2. \A d \in net' : d \in net \/ d.kind \notin {"Accept", "Refusal"}
        BY <2>0, <2>5 DEF Accepted, Again
    <3> QED BY <2>0, <3>1, <3>2 DEF HonestInv, OutcomeIsHonest, Honest
  <2>6. CASE OnlineReceives(m)
      BY <2>0, <2>6, QuietStep DEF OnlineReceives
  <2> QED BY <1>6, <2>1, <2>2, <2>3, <2>4, <2>5, <2>6 DEF ClientReceives
<1>7. ASSUME NEW m \in net, ServerReceives(m)
      PROVE  HonestInv'
  <2>0. compatible' = compatible /\ Left(m) \subseteq net /\ phase' = phase /\ status' = status
      BY <1>7, LeftIsOnTheWay DEF ServerReceives, Offline, ConnectionReceives, ConnectionGone, Take
  <2>1. CASE Offline(m)
    <3>1. UNCHANGED <<accepts, unacked>>
        BY <2>1 DEF Offline
    <3>2. \A d \in net' : d \in net \/ (d.kind # "Accept" /\ (d.kind = "Refusal" => ~compatible))
        BY <2>0, <2>1 DEF Offline
    <3> QED BY <2>0, <3>1, <3>2 DEF HonestInv, OutcomeIsHonest, Honest
  <2>2. CASE ConnectionReceives(m)
    <3>1. CASE /\ accepts' = accepts + 1 /\ unacked' = unacked \union {accepts + 1}
               /\ net' = Left(m) \union {ToClient("Accept", accepts + 1)}
        BY <2>0, <3>1 DEF HonestInv, OutcomeIsHonest, Honest
    <3>2. CASE accepts' = accepts /\ unacked' \subseteq unacked /\ net' = Left(m)
        BY <2>0, <3>2 DEF HonestInv, OutcomeIsHonest, Honest
    <3> QED BY <2>2, <3>1, <3>2 DEF ConnectionReceives
  <2>3. CASE ConnectionGone(m)
      BY <2>0, <2>3, QuietStep DEF ConnectionGone
  <2> QED BY <1>7, <2>1, <2>2, <2>3 DEF ServerReceives
<1>8. CASE ConnectionResends
    BY <1>8 DEF ConnectionResends, HonestInv, OutcomeIsHonest, Honest
<1>9. CASE ConnectionPings \/ FiveSecondsPass \/ ConnectionTick \/ ConnectionCloses
    BY <1>9, QuietStep DEF ConnectionPings, FiveSecondsPass, ConnectionTick, ConnectionCloses
<1>10. CASE UNCHANGED handshakeVars
    BY <1>10, QuietStep DEF handshakeVars
<1> QED BY <1>1, <1>2, <1>3, <1>4, <1>5, <1>6, <1>7, <1>8, <1>9, <1>10
        DEF HandshakeNext, ClientSteps

\* Whatever the network does, connect() succeeds only with a server that has
\* taken a ConnectionRequest, and blames the version only when it is to blame.
THEOREM HonestOutcome == HandshakeSpec => []OutcomeIsHonest
<1>1. HandshakeInit => HonestInv
    BY DEF HandshakeInit, HonestInv, OutcomeIsHonest
<1>2. HonestInv => OutcomeIsHonest
    BY DEF HonestInv
<1> QED BY <1>1, <1>2, HonestKept, PTL DEF HandshakeSpec

-----------------------------------------------------------------------------
(* The kinds and the counters.  What bounds them is what the client has     *)
(* numbered: it makes one request more than it counts tries, and a           *)
(* NewConnection once, at the end; the Connection counts each number once.  *)

Early == {"Idle", "Ping", "Discovery"}
Finishing == {"Finish", "Online"}

\* The loops of discovery.rs and handshake.rs.
Sending ==
    /\ sent \in 0 .. RequestTries + 1
    /\ phase \in Early \cup {"Session"} => sent = 0
    /\ phase = "Accept" => sent = tries + 1 /\ tries < RequestTries
    /\ phase \in Early => tries = 0 /\ attempt <= OpenAttempts
    /\ phase = "Session" => tries <= ReplyErrors /\ attempt <= InfoAttempts
    /\ phase = "Session" /\ waiting => tries < ReplyErrors /\ attempt < InfoAttempts

ClientTypes ==
    /\ phase \in Phase /\ client \in ClientState /\ status \in HandshakeStatus
    /\ mtuAt \in 1 .. Mtus + 1 /\ attempt \in 0 .. OpenAttempts + InfoAttempts
    /\ tries \in 0 .. RequestTries + ReplyErrors
    /\ Sending

Flags == waiting \in BOOLEAN /\ overdue \in BOOLEAN /\ compatible \in BOOLEAN /\ open \in BOOLEAN

\* Every fresh number has been a request that was accepted or the NewConnection.
ServerTypes ==
    /\ server \in ServerState /\ quiet \in 0 .. 3
    /\ first \in 0 .. sent /\ had \subseteq 1 .. sent
    /\ accepts \in Nat /\ joined \in {0, 1}
    /\ Cardinality(had) = accepts + joined
    /\ joined = 1 => sent \in had /\ phase \in Finishing
    /\ handled \subseteq 1 .. accepts /\ unacked \subseteq 1 .. accepts

\* What the number of a datagram on the way is.
Numbered(d) ==
    /\ d.kind \in {"Request", "NewConnection"} => d.n \in 1 .. sent
    /\ d.kind = "NewConnection" => d.n = sent /\ phase \in Finishing
    /\ d.kind = "Accept" => d.n \in 1 .. accepts
    /\ d.kind = "Pong" /\ d.to = "server" => d.n = 0

NetTypes ==
    /\ net \subseteq Datagram /\ copies \in 0 .. MaxCopies
    /\ \A d \in net : Numbered(d)

HandInv == ClientTypes /\ Flags /\ ServerTypes /\ NetTypes

LEMMA CountsGiven ==
    /\ Mtus \in Nat /\ Mtus > 0 /\ OpenAttempts \in Nat /\ OpenAttempts > 0
    /\ InfoAttempts \in Nat /\ InfoAttempts > 0 /\ ReplyErrors \in Nat /\ ReplyErrors > 0
    /\ RequestTries \in Nat /\ RequestTries > 0 /\ MaxCopies \in Nat
BY HandshakeAssumption

LEMMA FlagsKept == Flags /\ [HandshakeNext]_handshakeVars => Flags'
<1> SUFFICES ASSUME Flags, [HandshakeNext]_handshakeVars
             PROVE  Flags'
    OBVIOUS
<1> USE DEF discoveryVars, networkVars, serverVars, clientVars, Flags
<1>1. CASE ClientSteps
    BY <1>1, Zenon DEF ClientSteps, Connect, PingTimesOut, Finish, OpenRequest, OpenTimesOut,
                       NextMtu, NoMtuLeft, InfoRequest, InfoTimesOut, NoInfo
<1>0. CASE InfoReceiveError
  <2>1. waiting' = (tries' < ReplyErrors) /\ UNCHANGED <<overdue, compatible, open>>
      BY <1>0, Zenon DEF InfoReceiveError
  <2>2. (tries' < ReplyErrors) \in BOOLEAN
      BY SMT
  <2> QED BY <2>1, <2>2, Zenon
<1>2. CASE TwoSecondsPass \/ AcceptReceiveError
    BY <1>2, Zenon DEF TwoSecondsPass, AcceptReceiveError, Retry
<1>3. ASSUME NEW m \in net, ClientReceives(m)
      PROVE  Flags'
  <2>0. CASE PingReceives(m) \/ OpenReceives(m)
      BY <2>0, Zenon DEF PingReceives, OpenReceives, Take
  <2>1. CASE InfoReceives(m)
    <3>1. waiting' \in {waiting, FALSE} /\ overdue' \in {overdue, FALSE}
        BY <2>1, Zenon DEF InfoReceives
    <3>2. UNCHANGED <<compatible, open>>
        BY <2>1, Zenon DEF InfoReceives, Take
    <3> QED BY <3>1, <3>2, Zenon
  <2>2. CASE AcceptGivesUp(m) \/ AcceptReceives(m)
      BY <2>2, Zenon DEF AcceptGivesUp, AcceptReceives, Take, Retry
  <2>3. CASE Accepted(m)
      BY <2>3, Zenon DEF Accepted, Take, Retry
  <2>4. CASE OnlineReceives(m)
      BY <2>4, Zenon DEF OnlineReceives, Take
  <2> QED BY <1>3, <2>0, <2>1, <2>2, <2>3, <2>4, Zenon DEF ClientReceives
<1>4. ASSUME NEW m \in net, ServerReceives(m)
      PROVE  Flags'
  <2>1. CASE Offline(m)
      BY <2>1, Zenon DEF Offline, Take
  <2>2. CASE ConnectionReceives(m)
    <3>1. UNCHANGED <<waiting, overdue, compatible>>
        BY <2>2, Zenon DEF ConnectionReceives, Take
    <3>2. open' = open \/ open' = (Woken # "Connected")
        BY <2>2, Zenon DEF ConnectionReceives
    <3> QED BY <3>1, <3>2, Zenon
  <2>3. CASE ConnectionGone(m)
      BY <2>3, Zenon DEF ConnectionGone, Take
  <2> QED BY <1>4, <2>1, <2>2, <2>3, Zenon DEF ServerReceives
<1>5. CASE ConnectionResends \/ ConnectionPings \/ FiveSecondsPass \/ ConnectionTick \/ ConnectionCloses
    BY <1>5, Zenon DEF ConnectionResends, ConnectionPings, FiveSecondsPass, ConnectionTick,
                       ConnectionCloses
<1>6. CASE UNCHANGED handshakeVars
    BY <1>6, Zenon DEF handshakeVars
<1> QED BY <1>0, <1>1, <1>2, <1>3, <1>4, <1>5, <1>6, Zenon DEF HandshakeNext

\* Taking a datagram keeps the count of copies.
LEMMA TakeKeeps ==
    ASSUME HandInv, NEW m, Take(m)
    PROVE  /\ m \in net /\ m \in Datagram /\ Numbered(m) /\ Left(m) \subseteq net
           /\ copies' \in 0 .. MaxCopies
<1>1. m \in net /\ (copies' = copies \/ (copies < MaxCopies /\ copies' = copies + 1))
    BY DEF Take
<1>2. copies' \in 0 .. MaxCopies
    BY <1>1, CountsGiven DEF HandInv, NetTypes
<1>3. QED
    BY <1>1, <1>2 DEF Left, HandInv, NetTypes

\* A step of the client: it numbers on, nothing after the NewConnection, and
\* what it puts on the way has its number.
LEMMA ClientStepKeeps ==
    ASSUME HandInv, ClientTypes', Flags', copies' \in 0 .. MaxCopies, UNCHANGED serverVars,
           handled' \subseteq 1 .. accepts, sent <= sent',
           phase \in Finishing => phase' \in Finishing /\ sent' = sent,
           \A d \in net' : d \in net \/ (d \in Datagram /\ Numbered(d)')
    PROVE  HandInv'
<1>1. sent \in Nat /\ sent' \in Nat
    BY CountsGiven DEF HandInv, ClientTypes, Sending
<1>2. ServerTypes'
    BY <1>1 DEF HandInv, ServerTypes, serverVars
<1>3. ASSUME NEW d \in net
      PROVE  d \in Datagram /\ Numbered(d)'
    BY <1>1, <1>3 DEF HandInv, NetTypes, Numbered, serverVars
<1>4. NetTypes'
    BY <1>3 DEF NetTypes
<1>5. QED
    BY <1>2, <1>4 DEF HandInv

\* What can be put on the way.
LEMMA MadeDatagram ==
    ASSUME NEW kind \in {"Ping", "Pong", "Open", "Info", "OpenReply", "Refusal", "Garbled",
                         "InfoReply", "Request", "NewConnection", "Accept", "Ack", "Bye"},
           NEW n \in 0 .. Mtus + MaxFrames
    PROVE  /\ ToServer(kind, n) \in Datagram /\ ToClient(kind, n) \in Datagram
           /\ ToServer(kind, n).kind = kind /\ ToServer(kind, n).n = n
           /\ ToClient(kind, n).kind = kind /\ ToClient(kind, n).n = n
           /\ ToClient(kind, n).to = "client"
BY DEF ToServer, ToClient, Datagram

LEMMA SmallNumbers ==
    ASSUME HandInv
    PROVE  /\ 0 .. sent \subseteq 0 .. Mtus + MaxFrames
           /\ mtuAt <= Mtus => mtuAt \in 0 .. Mtus + MaxFrames
           /\ sent <= RequestTries => sent + 1 \in 0 .. Mtus + MaxFrames
           /\ 0 \in 0 .. Mtus + MaxFrames
BY CountsGiven DEF HandInv, ClientTypes, Sending, MaxFrames

\* A step of the client that numbers nothing.
LEMMA PlainStepKeeps ==
    ASSUME HandInv, ClientTypes', Flags', copies' \in 0 .. MaxCopies, UNCHANGED <<serverVars, sent>>,
           handled' \subseteq 1 .. accepts,
           phase \in Finishing => phase' \in Finishing,
           \A d \in net' : d \in net \/ (d \in Datagram /\ d.kind \in {"Ping", "Open", "Info"})
    PROVE  HandInv'
<1>1. \A d \in Datagram : d.kind \in {"Ping", "Open", "Info"} => Numbered(d)'
    BY DEF Numbered
<1>2. sent <= sent'
    BY CountsGiven DEF HandInv, ClientTypes, Sending
<1>3. QED
    BY <1>1, <1>2, ClientStepKeeps

LEMMA ClientStepsKeep ==
    ASSUME HandInv, Flags',
           ClientSteps \/ InfoReceiveError \/ TwoSecondsPass
    PROVE  HandInv'
<1> USE CountsGiven DEF discoveryVars, networkVars, Finishing
<1>0. handled \subseteq 1 .. accepts /\ copies \in 0 .. MaxCopies
    BY DEF HandInv, ServerTypes, NetTypes
<1>1. CASE Connect
    <2>1. ClientTypes'
        BY <1>1 DEF Connect, HandInv, ClientTypes, Sending, Early, Phase
    <2>2. net' = net \union {ToServer("Ping", 0)} /\ UNCHANGED <<sent, handled, copies, serverVars>>
          /\ phase = "Idle"
        BY <1>1 DEF Connect
    <2>3. ToServer("Ping", 0) \in Datagram /\ ToServer("Ping", 0).kind = "Ping"
        BY SmallNumbers, MadeDatagram
    <2>4. QED
        BY <1>0, <2>1, <2>2, <2>3, PlainStepKeeps
<1>2. CASE PingTimesOut
    <2>1. ClientTypes'
        BY <1>2 DEF PingTimesOut, HandInv, ClientTypes, Sending, Early, Phase
    <2>2. UNCHANGED <<net, sent, handled, copies, serverVars>> /\ phase = "Ping"
        BY <1>2 DEF PingTimesOut
    <2>3. QED
        BY <1>0, <2>1, <2>2, PlainStepKeeps
<1>3. CASE Finish
    <2>1. ClientTypes'
        BY <1>3 DEF Finish, HandInv, ClientTypes, Sending, Early, Phase, ClientState
    <2>2. UNCHANGED <<net, sent, copies, serverVars>> /\ phase' = "Online" /\ handled' = {}
        BY <1>3 DEF Finish
    <2>3. QED
        BY <1>0, <2>1, <2>2, PlainStepKeeps
<1>4. CASE OpenRequest
    <2>1. ClientTypes'
        BY <1>4 DEF OpenRequest, Trying, HandInv, ClientTypes, Sending, Early, Phase
    <2>2. /\ net' = net \/ net' = net \union {ToServer("Open", mtuAt)}
          /\ UNCHANGED <<sent, handled, copies, serverVars>>
          /\ phase = "Discovery" /\ mtuAt <= Mtus
        BY <1>4 DEF OpenRequest, Trying
    <2>3. ToServer("Open", mtuAt) \in Datagram /\ ToServer("Open", mtuAt).kind = "Open"
        BY <2>2, SmallNumbers, MadeDatagram
    <2>4. QED
        BY <1>0, <2>1, <2>2, <2>3, PlainStepKeeps
<1>5. CASE OpenTimesOut \/ NextMtu
    <2>1. ClientTypes'
        BY <1>5 DEF OpenTimesOut, NextMtu, Trying, HandInv, ClientTypes, Sending, Early, Phase
    <2>2. UNCHANGED <<net, sent, handled, copies, serverVars>> /\ phase = "Discovery"
        BY <1>5 DEF OpenTimesOut, NextMtu, Trying
    <2>3. QED
        BY <1>0, <2>1, <2>2, PlainStepKeeps
<1>6. CASE NoMtuLeft \/ NoInfo
    <2>1. ClientTypes'
        BY <1>6 DEF NoMtuLeft, NoInfo, Fails, HandInv, ClientTypes, Sending, Early, Phase,
                    ClientState, HandshakeStatus
    <2>2. UNCHANGED <<net, sent, handled, copies, serverVars>> /\ phase \in {"Discovery", "Session"}
        BY <1>6 DEF NoMtuLeft, NoInfo
    <2>3. QED
        BY <1>0, <2>1, <2>2, PlainStepKeeps
<1>7. CASE InfoRequest
    <2>1. ClientTypes'
        BY <1>7 DEF InfoRequest, HandInv, ClientTypes, Sending, Early, Phase
    <2>2. /\ net' = net \/ net' = net \union {ToServer("Info", mtuAt)}
          /\ UNCHANGED <<sent, handled, copies, serverVars>> /\ phase = "Session"
        BY <1>7 DEF InfoRequest
    <2>3. mtuAt \in 0 .. Mtus + MaxFrames
        BY DEF HandInv, ClientTypes, MaxFrames
    <2>4. ToServer("Info", mtuAt) \in Datagram /\ ToServer("Info", mtuAt).kind = "Info"
        BY <2>3, MadeDatagram
    <2>5. QED
        BY <1>0, <2>1, <2>2, <2>4, PlainStepKeeps
<1>8. CASE InfoTimesOut
    <2>1. ClientTypes'
        BY <1>8 DEF InfoTimesOut, HandInv, ClientTypes, Sending, Early, Phase
    <2>2. UNCHANGED <<net, sent, handled, copies, serverVars>> /\ phase = "Session"
        BY <1>8 DEF InfoTimesOut
    <2>3. QED
        BY <1>0, <2>1, <2>2, PlainStepKeeps
<1>9. CASE InfoReceiveError
    <2>1. ClientTypes'
        <3>1. /\ UNCHANGED <<phase, client, status, mtuAt, sent>> /\ phase = "Session" /\ waiting
              /\ tries' = tries + 1
              /\ waiting' = (tries' < ReplyErrors)
              /\ attempt' = IF waiting' THEN attempt ELSE attempt + 1
            BY <1>9, Zenon DEF InfoReceiveError
        <3>2. waiting' <=> tries + 1 < ReplyErrors
            BY <3>1, Zenon
        <3>3. attempt' = IF tries + 1 < ReplyErrors THEN attempt ELSE attempt + 1
            BY <3>1, <3>2, Zenon
        <3>4. QED
            BY <3>1, <3>2, <3>3 DEF HandInv, ClientTypes, Sending, Early, Phase
    <2>2. UNCHANGED <<net, sent, handled, copies, serverVars>> /\ phase = "Session"
        BY <1>9 DEF InfoReceiveError
    <2>3. QED
        BY <1>0, <2>1, <2>2, PlainStepKeeps
<1>10. CASE TwoSecondsPass
    <2>1. ClientTypes'
        BY <1>10 DEF TwoSecondsPass, HandInv, ClientTypes, Sending, Early, Phase
    <2>2. UNCHANGED <<net, sent, handled, copies, serverVars>> /\ phase = "Accept"
        BY <1>10 DEF TwoSecondsPass
    <2>3. QED
        BY <1>0, <2>1, <2>2, PlainStepKeeps
<1>11. QED
    BY <1>1, <1>2, <1>3, <1>4, <1>5, <1>6, <1>7, <1>8, <1>9, <1>10 DEF ClientSteps

\* The request made again when the answer is overdue has the next number.
LEMMA AgainNumbered ==
    ASSUME HandInv, phase = "Accept"
    PROVE  /\ Cardinality(Again) = IF overdue THEN 1 ELSE 0
           /\ \A d \in Again : d \in Datagram /\ d.kind = "Request" /\ d.n = sent + 1 /\ overdue
<1>1. sent <= RequestTries
    BY CountsGiven DEF HandInv, ClientTypes, Sending
<1>2. LET r == ToServer("Request", sent + 1)
      IN  r \in Datagram /\ r.kind = "Request" /\ r.n = sent + 1
    BY <1>1, SmallNumbers, MadeDatagram
<1>3. CASE overdue
    BY <1>2, <1>3, FS_Singleton DEF Again
<1>4. CASE ~overdue
    BY <1>4, FS_EmptySet DEF Again
<1>5. QED
    BY <1>3, <1>4

LEMMA AcceptReceiveErrorKeeps ==
    ASSUME HandInv, Flags', AcceptReceiveError
    PROVE  HandInv'
<1>1. phase = "Accept" /\ overdue /\ UNCHANGED <<copies, handled, serverVars, accepts>>
    BY DEF AcceptReceiveError, networkVars, serverVars
<1>2. ClientTypes'
    BY CountsGiven DEF AcceptReceiveError, Retry, TooMany, Fails, HandInv, ClientTypes, Sending, Early,
                       Phase, ClientState, HandshakeStatus
<1>3. sent' \in {sent, sent + 1} /\ (net' = net \/ (net' = net \union Again /\ sent' = sent + 1))
    BY DEF AcceptReceiveError
<1>4. sent \in Nat /\ handled' \subseteq 1 .. accepts /\ copies' \in 0 .. MaxCopies
    BY <1>1, CountsGiven DEF HandInv, ClientTypes, Sending, ServerTypes, NetTypes
<1>5. ASSUME NEW d \in Again, sent' = sent + 1
      PROVE  d \in Datagram /\ Numbered(d)'
    BY <1>1, <1>4, <1>5, AgainNumbered DEF Numbered
<1>6. \A d \in net' : d \in net \/ (d \in Datagram /\ Numbered(d)')
    BY <1>3, <1>5
<1>7. sent <= sent'
    BY <1>3, <1>4
<1>8. QED
    BY <1>1, <1>2, <1>4, <1>6, <1>7, ClientStepKeeps DEF Finishing

LEMMA ClientReceivesKeeps ==
    ASSUME HandInv, Flags', NEW m \in net, ClientReceives(m)
    PROVE  HandInv'
<1> USE CountsGiven DEF discoveryVars, networkVars, Finishing
<1>0. Take(m) /\ m.to = "client"
    BY DEF ClientReceives, PingReceives, OpenReceives, InfoReceives, AcceptGivesUp, AcceptReceives,
           Accepted, OnlineReceives
<1>1. /\ m \in Datagram /\ Numbered(m) /\ Left(m) \subseteq net
      /\ copies' \in 0 .. MaxCopies
    BY <1>0, TakeKeeps
<1>2. handled \subseteq 1 .. accepts /\ sent \in Nat /\ accepts \in Nat
    BY DEF HandInv, ServerTypes, ClientTypes, Sending
<1>3. CASE PingReceives(m)
    <2>1. ClientTypes'
        BY <1>3 DEF PingReceives, HandInv, ClientTypes, Sending, Early, Phase, ClientState, HandshakeStatus
    <2>2. UNCHANGED <<sent, handled, serverVars>> /\ phase = "Ping" /\ net' = Left(m)
        BY <1>3 DEF PingReceives
    <2>3. QED
        BY <1>1, <1>2, <2>1, <2>2, PlainStepKeeps
<1>4. CASE OpenReceives(m)
    <2>1. ClientTypes'
        BY <1>4 DEF OpenReceives, OpenOutcome, Trying, Fails, HandInv, ClientTypes, Sending, Early,
                    Phase, ClientState, HandshakeStatus
    <2>2. UNCHANGED <<sent, handled, serverVars>> /\ phase = "Discovery" /\ net' = Left(m)
        BY <1>4 DEF OpenReceives, Trying
    <2>3. QED
        BY <1>1, <1>2, <2>1, <2>2, PlainStepKeeps
<1>5. CASE InfoReceives(m)
    <2> PICK r : r = ToServer("Request", sent + 1)
        OBVIOUS
    <2>2. /\ UNCHANGED <<handled, serverVars, mtuAt, attempt>> /\ phase = "Session"
          /\ \/ /\ sent' = sent /\ net' = Left(m) /\ UNCHANGED <<phase, client, status, waiting, tries>>
             \/ /\ sent' = sent /\ net' = Left(m) /\ waiting' = FALSE /\ tries' = 0
                /\ phase' = "Failed" /\ client' = "Offline" /\ status' = "Failed"
             \/ /\ sent' = sent + 1 /\ net' = {r} /\ waiting' = FALSE /\ tries' = 0
                /\ phase' = "Accept" /\ UNCHANGED <<client, status>>
        BY <1>5, Zenon DEF InfoReceives, Fails
    <2>3. sent = 0
        BY <2>2 DEF HandInv, ClientTypes, Sending, Early
    <2>1. ClientTypes'
        BY <2>2, <2>3 DEF HandInv, ClientTypes, Sending, Early, Phase, ClientState, HandshakeStatus
    <2>4. r \in Datagram /\ r.kind = "Request" /\ r.n = sent + 1
        BY <2>3, SmallNumbers, MadeDatagram
    <2>5. sent' = sent + 1 => Numbered(r)'
        BY <1>2, <2>4 DEF Numbered
    <2>6. sent <= sent'
        BY <1>2, <2>2
    <2>7. QED
        BY <1>1, <1>2, <2>1, <2>2, <2>4, <2>5, <2>6, ClientStepKeeps
<1>6. CASE AcceptGivesUp(m)
    <2>1. phase = "Accept"
        BY <1>6 DEF AcceptGivesUp
    <2>2. ClientTypes'
        BY <1>6 DEF AcceptGivesUp, TooMany, Fails, HandInv, ClientTypes, Sending, Early, Phase,
                    ClientState, HandshakeStatus
    <2>3. /\ UNCHANGED <<handled, serverVars>>
          /\ \/ sent' = sent /\ net' = Left(m)
             \/ sent' = sent + 1 /\ net' = Left(m) \union Again
        BY <1>6 DEF AcceptGivesUp
    <2>4. ASSUME NEW d \in Again, sent' = sent + 1
          PROVE  d \in Datagram /\ Numbered(d)'
        BY <1>2, <2>1, <2>4, AgainNumbered DEF Numbered
    <2>5. sent <= sent'
        BY <1>2, <2>3
    <2>6. QED
        BY <1>1, <1>2, <2>1, <2>2, <2>3, <2>4, <2>5, ClientStepKeeps
<1>7. CASE AcceptReceives(m)
    <2> DEFINE pong == ToServer("Pong", 0)
    <2>1. phase = "Accept" /\ phase' = phase /\ UNCHANGED <<handled, serverVars>>
        BY <1>7 DEF AcceptReceives
    <2>2. sent' = sent + (IF overdue THEN 1 ELSE 0)
        BY <1>7, <2>1, AgainNumbered DEF AcceptReceives
    <2>3. ClientTypes'
        BY <1>7, <2>2 DEF AcceptReceives, Retry, TooMany, HandInv, ClientTypes, Sending, Early, Phase
    <2>4. \A d \in net' : d \in net \/ d \in Again \/ d = pong
        BY <1>1, <1>7 DEF AcceptReceives
    <2>5. pong \in Datagram /\ pong.kind = "Pong" /\ pong.n = 0
        BY SmallNumbers, MadeDatagram
    <2> HIDE DEF pong
    <2>6. Numbered(pong)'
        BY <2>5 DEF Numbered
    <2>7. ASSUME NEW d \in Again
          PROVE  d \in Datagram /\ Numbered(d)'
        BY <1>2, <2>1, <2>2, AgainNumbered DEF Numbered
    <2>8. sent <= sent'
        BY <1>2, <2>2
    <2>9. QED
        BY <1>1, <1>2, <2>1, <2>3, <2>4, <2>5, <2>6, <2>7, <2>8, ClientStepKeeps
<1>8. CASE Accepted(m)
    <2> DEFINE n == sent + (IF overdue THEN 1 ELSE 0) + 1
               ack == ToServer("Ack", m.n)
    <2> PICK last : last = ToServer("NewConnection", n)
        OBVIOUS
    <2>1. phase = "Accept" /\ m.kind = "Accept" /\ handled' = handled \union {m.n}
          /\ UNCHANGED serverVars /\ ~TooMany
        BY <1>8 DEF Accepted, Answers
    <2>2. /\ \/ /\ phase' = "Finish" /\ client' = "Identified" /\ status' = "Completed"
                /\ net' = Left(m) \union Again \union {ack} \union {last} /\ sent' = n
             \/ /\ phase' = "Failed" /\ client' = "Offline" /\ status' = "Failed"
                /\ net' = Left(m) \union Again \union {ack} /\ sent' = n - 1
          /\ tries' = (IF overdue THEN tries + 1 ELSE tries)
          /\ UNCHANGED <<mtuAt, attempt, waiting>>
        BY <1>8, <2>1, AgainNumbered DEF Accepted, Fails, Retry
    <2>3. sent = tries + 1 /\ tries < RequestTries /\ (overdue => tries + 1 < RequestTries)
          /\ tries \in Nat
        BY <2>1 DEF TooMany, HandInv, ClientTypes, Sending
    <2>4. n \in 1 .. RequestTries + 1 /\ n \in Nat /\ sent < n
        BY <2>3
    <2>5. /\ ack \in Datagram /\ ack.kind = "Ack"
          /\ last \in Datagram /\ last.kind = "NewConnection" /\ last.n = n
        <3>1. m.n \in 0 .. Mtus + MaxFrames
            BY <1>1 DEF Datagram
        <3>2. n \in 0 .. Mtus + MaxFrames
            BY <2>4 DEF MaxFrames
        <3> HIDE DEF n
        <3>3. QED
            BY <3>1, <3>2, MadeDatagram
    <2>6. ClientTypes'
        BY <2>2, <2>3, <2>4 DEF HandInv, ClientTypes, Sending, Early, Phase, ClientState, HandshakeStatus
    <2>7. sent' \in {n, n - 1} /\ sent <= sent'
        BY <1>2, <2>2
    <2>8. m.n \in 1 .. accepts
        BY <1>1, <2>1 DEF Numbered
    <2>9. ASSUME NEW d \in Again
          PROVE  d \in Datagram /\ Numbered(d)'
        <3>1. d \in Datagram /\ d.kind = "Request" /\ d.n = sent + 1 /\ overdue
            BY <2>1, AgainNumbered
        <3>2. d.n \in 1 .. sent'
            BY <1>2, <2>2, <3>1
        <3>3. QED
            BY <3>1, <3>2 DEF Numbered
    <2>10. phase' = "Finish" /\ sent' = n => Numbered(last)'
        BY <2>4, <2>5 DEF Numbered
    <2>11. Numbered(ack)'
        BY <2>5 DEF Numbered
    <2> HIDE DEF n, ack
    <2>12. \A d \in net' : d \in net \/ (d \in Datagram /\ Numbered(d)')
        BY <1>1, <2>2, <2>5, <2>9, <2>10, <2>11
    <2>13. QED
        BY <1>1, <1>2, <2>1, <2>6, <2>7, <2>8, <2>12, ClientStepKeeps
<1>9. CASE OnlineReceives(m)
    <2> DEFINE ack == ToServer("Ack", m.n)
               pong == ToServer("Pong", 0)
    <2>1. /\ UNCHANGED <<phase, client, status, mtuAt, attempt, waiting, tries, sent, serverVars>>
          /\ handled' = (IF m.kind = "Accept" THEN handled \union {m.n} ELSE handled)
          /\ \A d \in net' : d \in Left(m) \/ d = ack \/ d = pong
        BY <1>9 DEF OnlineReceives
    <2>2. ClientTypes'
        BY <2>1 DEF HandInv, ClientTypes, Sending
    <2>3. m.kind = "Accept" => m.n \in 1 .. accepts
        BY <1>1 DEF Numbered
    <2>4. /\ ack \in Datagram /\ ack.kind = "Ack"
          /\ pong \in Datagram /\ pong.kind = "Pong" /\ pong.n = 0
        <3>1. m.n \in 0 .. Mtus + MaxFrames
            BY <1>1 DEF Datagram
        <3>2. QED
            BY <3>1, SmallNumbers, MadeDatagram
    <2> HIDE DEF ack, pong
    <2>5. Numbered(ack)' /\ Numbered(pong)'
        BY <2>4 DEF Numbered
    <2>6. \A d \in net' : d \in net \/ (d \in Datagram /\ Numbered(d)')
        BY <1>1, <2>1, <2>4, <2>5
    <2>7. sent <= sent'
        BY <1>2, <2>1
    <2>8. handled' \subseteq 1 .. accepts
        BY <1>2, <2>1, <2>3
    <2>9. QED
        BY <1>1, <2>1, <2>2, <2>6, <2>7, <2>8, ClientStepKeeps
<1>10. QED
    BY <1>3, <1>4, <1>5, <1>6, <1>7, <1>8, <1>9 DEF ClientReceives

\* What a Connection has had are numbers the client has made, so they are few.
LEMMA HadIsFinite ==
    ASSUME HandInv
    PROVE  /\ IsFiniteSet(had) /\ Cardinality(had) <= sent
           /\ sent \in 0 .. RequestTries + 1 /\ accepts <= sent
<1>1. sent \in 0 .. RequestTries + 1 /\ sent \in Nat /\ had \subseteq 1 .. sent
      /\ accepts \in Nat /\ joined \in {0, 1} /\ Cardinality(had) = accepts + joined
    BY CountsGiven DEF HandInv, ClientTypes, Sending, ServerTypes
<1>2. IsFiniteSet(1 .. sent) /\ Cardinality(1 .. sent) = sent
    <2>1. Cardinality(1 .. sent) = IF 1 > sent THEN 0 ELSE sent - 1 + 1
        BY <1>1, FS_Interval
    <2>2. QED
        BY <1>1, <2>1, FS_Interval
<1>3. IsFiniteSet(had) /\ Cardinality(had) <= sent
    BY <1>1, <1>2, FS_Subset
<1>4. QED
    BY <1>1, <1>3

\* A step of the server in which the Connection has no new number.
LEMMA ServerStepKeeps ==
    ASSUME HandInv, Flags', copies' \in 0 .. MaxCopies, UNCHANGED clientVars,
           server' \in ServerState, quiet' \in 0 .. 3, UNCHANGED <<first, had, accepts, joined>>,
           unacked' \subseteq 1 .. accepts,
           \A d \in net' : d \in net \/ (d \in Datagram /\ Numbered(d))
    PROVE  HandInv'
<1>1. ClientTypes'
    BY DEF HandInv, ClientTypes, Sending, clientVars
<1>2. ServerTypes'
    BY DEF HandInv, ServerTypes, clientVars
<1>3. NetTypes'
    BY DEF HandInv, NetTypes, Numbered, clientVars
<1>4. QED
    BY <1>1, <1>2, <1>3 DEF HandInv

LEMMA ConnectionReceivesKeeps ==
    ASSUME HandInv, Flags', NEW m \in net, ConnectionReceives(m)
    PROVE  HandInv'
<1>1. /\ Take(m) /\ quiet' = 0 /\ UNCHANGED clientVars /\ m.to = "server"
      /\ m.kind \in {"Request", "NewConnection", "Pong", "Ack"}
    BY DEF ConnectionReceives
<1>2. /\ m \in Datagram /\ Numbered(m) /\ Left(m) \subseteq net
      /\ copies' \in 0 .. MaxCopies
    BY <1>1, TakeKeeps
<1>3. /\ server \in ServerState /\ unacked \subseteq 1 .. accepts /\ handled \subseteq 1 .. accepts
      /\ sent \in Nat /\ accepts \in Nat /\ joined \in {0, 1} /\ m.n \in Nat
      /\ first \in 0 .. sent /\ had \subseteq 1 .. sent
      /\ Cardinality(had) = accepts + joined
      /\ joined = 1 => (sent \in had /\ phase \in Finishing)
    <2>1. m.n \in Nat
        BY <1>2, CountsGiven DEF Datagram, MaxFrames
    <2>2. QED
        BY <2>1, CountsGiven DEF HandInv, ServerTypes, ClientTypes, Sending
<1> DEFINE fresh == m.n > 0 /\ m.kind # "Ack" /\ ~Refused(m.n)
<1>4. ASSUME fresh, m.kind \in {"Request", "NewConnection"},
             had' = had \union {m.n}, first' = (IF first = 0 THEN m.n ELSE first),
             accepts' \in {accepts, accepts + 1}, joined' \in {0, 1},
             accepts' + joined' = (accepts + joined) + 1,
             unacked' \subseteq 1 .. accepts', server' \in ServerState,
             joined' = 1 => phase \in Finishing /\ (joined = 1 \/ m.n = sent),
             \A d \in net' : \/ d \in net
                             \/ d \in Datagram /\ d.kind = "Accept" /\ d.n \in 1 .. accepts'
      PROVE  HandInv'
    <2>1. ClientTypes'
        BY <1>1 DEF HandInv, ClientTypes, Sending, clientVars
    <2>2. m.n \notin had /\ m.n \in 1 .. sent /\ sent' = sent /\ phase' = phase /\ handled' = handled
        BY <1>1, <1>2, <1>4 DEF Refused, Numbered, clientVars
    <2>3. Cardinality(had') = Cardinality(had) + 1
        BY <1>4, <2>2, HadIsFinite, FS_AddElement
    <2>4. Cardinality(had') = accepts' + joined'
        BY <1>3, <1>4, <2>3, Zenon
    <2>5. had' \subseteq 1 .. sent' /\ first' \in 0 .. sent'
        <3>1. had' \subseteq 1 .. sent'
            BY <1>3, <1>4, <2>2, Zenon
        <3>2. first' \in {first, m.n} /\ first \in 0 .. sent /\ 1 .. sent \subseteq 0 .. sent
            BY <1>3, <1>4
        <3>3. QED
            BY <2>2, <3>1, <3>2
    <2>6. joined' = 1 => (sent' \in had' /\ phase' \in Finishing)
        BY <1>3, <1>4, <2>2
    <2>7. 1 .. accepts \subseteq 1 .. accepts' /\ accepts' \in Nat
        BY <1>3, <1>4
    <2>8. ServerTypes'
        BY <1>1, <1>3, <1>4, <2>2, <2>4, <2>5, <2>6, <2>7 DEF ServerTypes
    <2>9. ASSUME NEW d \in net'
          PROVE  d \in Datagram /\ Numbered(d)'
        <3>1. CASE d \in net
            BY <2>2, <2>7, <3>1 DEF HandInv, NetTypes, Numbered
        <3>2. CASE d \in Datagram /\ d.kind = "Accept" /\ d.n \in 1 .. accepts'
            BY <3>2 DEF Numbered
        <3>3. QED
            BY <1>4, <3>1, <3>2
    <2>10. NetTypes'
        BY <1>2, <2>9 DEF NetTypes
    <2>11. QED
        BY <2>1, <2>8, <2>10 DEF HandInv
<1>5. CASE /\ fresh /\ m.kind = "Request"
           /\ server' = "Connecting" /\ accepts' = accepts + 1
           /\ unacked' = unacked \union {accepts + 1}
           /\ net' = Left(m) \union {ToClient("Accept", accepts + 1)}
           /\ had' = had \union {m.n} /\ first' = (IF first = 0 THEN m.n ELSE first)
           /\ joined' = joined
    <2>1. accepts + 1 \in 0 .. Mtus + MaxFrames
        BY <1>3, CountsGiven, HadIsFinite DEF MaxFrames
    <2> PICK a : a = ToClient("Accept", accepts + 1)
        OBVIOUS
    <2>2. a \in Datagram /\ a.kind = "Accept" /\ a.n = accepts + 1
        BY <2>1, MadeDatagram
    <2>3. a.n \in 1 .. accepts' /\ unacked' \subseteq 1 .. accepts'
        BY <1>3, <1>5, <2>2
    <2>4. \A d \in net' : d \in net \/ (d \in Datagram /\ d.kind = "Accept" /\ d.n \in 1 .. accepts')
        BY <1>2, <1>5, <2>2, <2>3
    <2>5. server' \in ServerState
        BY <1>5 DEF ServerState
    <2>6. accepts' + joined' = (accepts + joined) + 1
        BY <1>3, <1>5
    <2>7. QED
        BY <1>3, <1>4, <1>5, <2>3, <2>4, <2>5, <2>6
<1>6. CASE /\ fresh /\ m.kind = "NewConnection"
           /\ server' = "Connected" /\ joined' = joined + 1 /\ net' = Left(m)
           /\ had' = had \union {m.n} /\ first' = (IF first = 0 THEN m.n ELSE first)
           /\ UNCHANGED <<accepts, unacked>>
    <2>1. m.n = sent /\ phase \in Finishing /\ m.n \notin had
        BY <1>2, <1>6 DEF Numbered, Refused
    <2>2. joined = 0
        BY <1>3, <2>1
    <2>3. server' \in ServerState
        BY <1>6 DEF ServerState
    <2>4. joined' = 1 /\ accepts' + joined' = (accepts + joined) + 1
        BY <1>3, <1>6, <2>2
    <2>5. \A d \in net' : d \in net
        BY <1>2, <1>6
    <2>6. QED
        BY <1>3, <1>4, <1>6, <2>1, <2>3, <2>4, <2>5
<1>7. CASE /\ UNCHANGED <<first, had, accepts, joined>> /\ server' = Woken /\ net' = Left(m)
           /\ unacked' = (IF m.kind = "Ack" THEN unacked \ {m.n} ELSE unacked)
    <2>1. server' \in ServerState
        BY <1>3, <1>7 DEF Woken, ServerState
    <2>2. quiet' \in 0 .. 3 /\ unacked' \subseteq 1 .. accepts
        <3>1. unacked' \subseteq unacked
            BY <1>7, Zenon
        <3>2. QED
            BY <1>1, <1>3, <3>1
    <2>3. \A d \in net' : d \in net
        BY <1>2, <1>7
    <2>4. QED
        BY <1>1, <1>2, <1>7, <2>1, <2>2, <2>3, ServerStepKeeps
<1> HIDE DEF fresh
<1>8. QED
    <2>1. /\ first' = IF fresh /\ first = 0 THEN m.n ELSE first
          /\ had' = IF fresh THEN had \union {m.n} ELSE had
          /\ \/ /\ fresh /\ m.kind = "Request"
                /\ server' = "Connecting"
                /\ accepts' = accepts + 1
                /\ unacked' = unacked \union {accepts + 1}
                /\ net' = Left(m) \union {ToClient("Accept", accepts + 1)}
                /\ UNCHANGED joined
             \/ /\ fresh /\ m.kind = "NewConnection"
                /\ server' = "Connected"
                /\ joined' = joined + 1
                /\ net' = Left(m)
                /\ UNCHANGED <<accepts, unacked>>
             \/ /\ ~fresh
                /\ server' = Woken
                /\ unacked' = IF m.kind = "Ack" THEN unacked \ {m.n} ELSE unacked
                /\ net' = Left(m)
                /\ UNCHANGED <<accepts, joined>>
        BY DEF ConnectionReceives, fresh
    <2>2. QED
        BY <1>5, <1>6, <1>7, <2>1

LEMMA ServerStepsKeep ==
    ASSUME HandInv, Flags',
           \/ \E m \in net : ServerReceives(m)
           \/ ConnectionResends \/ ConnectionPings \/ FiveSecondsPass \/ ConnectionTick
           \/ ConnectionCloses \/ UNCHANGED handshakeVars
    PROVE  HandInv'
<1> USE DEF networkVars, serverVars
<1>0. /\ server \in ServerState /\ quiet \in 0 .. 3 /\ unacked \subseteq 1 .. accepts
      /\ accepts \in Nat /\ copies \in 0 .. MaxCopies
    BY DEF HandInv, ServerTypes, NetTypes
<1>1. ASSUME NEW m \in net, Offline(m)
      PROVE  HandInv'
    <2>1. /\ m \in Datagram /\ Left(m) \subseteq net /\ copies' \in 0 .. MaxCopies
        BY <1>1, TakeKeeps DEF Offline
    <2>2. m.n \in 0 .. Mtus + MaxFrames /\ 0 \in 0 .. Mtus + MaxFrames
        BY <2>1, SmallNumbers DEF Datagram
    <2>3. /\ UNCHANGED <<clientVars, first, had, accepts, unacked, joined>>
          /\ server' \in {server, "Unidentified"} /\ quiet' \in {quiet, 0}
        BY <1>1 DEF Offline
    <2>4. \E kind \in {"Pong", "OpenReply", "Garbled", "Refusal", "InfoReply"},
             n \in {0, m.n} : net' = Left(m) \union {ToClient(kind, n)}
        BY <1>1 DEF Offline
    <2> PICK kind \in {"Pong", "OpenReply", "Garbled", "Refusal", "InfoReply"},
             n \in {0, m.n} : net' = Left(m) \union {ToClient(kind, n)}
        BY <2>4
    <2> PICK d : d = ToClient(kind, n)
        OBVIOUS
    <2>5. d \in Datagram /\ d.kind = kind /\ d.to = "client"
        BY <2>2, MadeDatagram
    <2>6. Numbered(d)
        BY <2>5 DEF Numbered
    <2>7. server' \in ServerState /\ quiet' \in 0 .. 3
        BY <1>0, <2>3 DEF ServerState
    <2>8. QED
        BY <1>0, <2>1, <2>3, <2>5, <2>6, <2>7, ServerStepKeeps
<1>2. ASSUME NEW m \in net, ConnectionGone(m)
      PROVE  HandInv'
    <2>1. /\ Left(m) \subseteq net /\ copies' \in 0 .. MaxCopies
        BY <1>2, TakeKeeps DEF ConnectionGone
    <2>2. UNCHANGED <<clientVars, serverVars>> /\ net' = Left(m)
        BY <1>2 DEF ConnectionGone
    <2>3. QED
        BY <1>0, <2>1, <2>2, ServerStepKeeps
<1>3. CASE ConnectionResends
    <2> PICK a \in unacked : net' = net \union {ToClient("Accept", a)}
        BY <1>3 DEF ConnectionResends
    <2>1. a \in unacked /\ net' = net \union {ToClient("Accept", a)}
        OBVIOUS
    <2>2. a \in 1 .. accepts /\ a \in 0 .. Mtus + MaxFrames
        BY <1>0, <2>1, CountsGiven, HadIsFinite DEF MaxFrames
    <2> PICK d : d = ToClient("Accept", a)
        OBVIOUS
    <2>3. d \in Datagram /\ Numbered(d)
        BY <2>2, MadeDatagram DEF Numbered
    <2>4. UNCHANGED <<clientVars, networkVars, serverVars>>
        BY <1>3 DEF ConnectionResends
    <2>5. QED
        BY <1>0, <2>1, <2>3, <2>4, ServerStepKeeps
<1>4. CASE ConnectionPings \/ ConnectionCloses
    <2> PICK p : p = ToClient("Ping", 0)
        OBVIOUS
    <2> PICK b : b = ToClient("Bye", 0)
        OBVIOUS
    <2>1. p \in Datagram /\ Numbered(p) /\ b \in Datagram /\ Numbered(b)
        BY SmallNumbers, MadeDatagram DEF Numbered
    <2>2. /\ UNCHANGED <<clientVars, networkVars, server, quiet, first, had, accepts, unacked, joined>>
          /\ \A d \in net' : d \in net \/ d = p \/ d = b
        BY <1>4 DEF ConnectionPings, ConnectionCloses
    <2>3. QED
        BY <1>0, <2>1, <2>2, ServerStepKeeps
<1>5. CASE FiveSecondsPass \/ ConnectionTick
    <2>1. /\ UNCHANGED <<clientVars, networkVars, net, first, had, accepts, unacked, joined>>
          /\ server' \in {server, "Disconnected", "TimingOut"}
          /\ quiet' = quiet \/ (quiet < 3 /\ quiet' = quiet + 1)
        BY <1>5 DEF FiveSecondsPass, ConnectionTick
    <2>2. server' \in ServerState /\ quiet' \in 0 .. 3
        BY <1>0, <2>1 DEF ServerState
    <2>3. QED
        BY <1>0, <2>1, <2>2, ServerStepKeeps
<1>6. CASE UNCHANGED handshakeVars
    BY <1>0, <1>6, ServerStepKeeps DEF handshakeVars
<1>7. QED
    BY <1>1, <1>2, <1>3, <1>4, <1>5, <1>6, ConnectionReceivesKeeps DEF ServerReceives

LEMMA HandInvKept == HandInv /\ [HandshakeNext]_handshakeVars => HandInv'
<1> SUFFICES ASSUME HandInv, [HandshakeNext]_handshakeVars
             PROVE  HandInv'
    OBVIOUS
<1>1. Flags'
    BY FlagsKept DEF HandInv
<1>2. QED
    BY <1>1, ClientStepsKeep, AcceptReceiveErrorKeeps, ClientReceivesKeeps, ServerStepsKeep
       DEF HandshakeNext

\* connect() and the Connection stay inside their tables of states, and what
\* they count inside what the loops allow, however the network behaves: a
\* Connection accepts no more often than the client has asked, and joins once.
THEOREM HandshakeTypeCorrect == HandshakeSpec => []HandshakeTypeOK
<1>1. HandshakeInit => HandInv
    <2> SUFFICES ASSUME HandshakeInit
                 PROVE  HandInv
        OBVIOUS
    <2>1. ClientTypes /\ NetTypes
        BY CountsGiven DEF HandshakeInit, ClientTypes, Sending, Early, Phase, ClientState,
                           HandshakeStatus, NetTypes
    <2>2. Flags
        BY Zenon DEF HandshakeInit, Flags
    <2>3. ServerTypes
        BY FS_EmptySet DEF HandshakeInit, ServerTypes, ServerState
    <2>4. QED
        BY <2>1, <2>2, <2>3 DEF HandInv
<1>2. HandInv => HandshakeTypeOK
    <2> SUFFICES ASSUME HandInv
                 PROVE  HandshakeTypeOK
        OBVIOUS
    <2>1. accepts \in 0 .. MaxFrames /\ sent \in 0 .. MaxFrames
        BY CountsGiven, HadIsFinite DEF MaxFrames, HandInv, ServerTypes
    <2>2. first \in 0 .. MaxFrames /\ had \subseteq 1 .. MaxFrames /\ joined \in 0 .. 1
        BY <2>1, CountsGiven DEF MaxFrames, HandInv, ServerTypes
    <2>3. Flags /\ {handled, unacked} \subseteq SUBSET (1 .. accepts)
        BY DEF HandInv, ServerTypes
    <2>4. /\ phase \in Phase /\ client \in ClientState /\ status \in HandshakeStatus
          /\ mtuAt \in 1 .. Mtus + 1 /\ attempt \in 0 .. OpenAttempts + InfoAttempts
          /\ tries \in 0 .. RequestTries + ReplyErrors
          /\ net \subseteq Datagram /\ copies \in 0 .. MaxCopies
          /\ server \in ServerState /\ quiet \in 0 .. 3
        BY DEF HandInv, ClientTypes, NetTypes, ServerTypes
    <2>5. QED
        BY <2>1, <2>2, <2>3, <2>4, Zenon DEF HandshakeTypeOK, Flags
<1>3. QED
    BY <1>1, <1>2, HandInvKept, PTL DEF HandshakeSpec

=============================================================================
