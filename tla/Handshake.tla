------------------------------- MODULE Handshake -------------------------------
(***************************************************************************)
(* connect() from the first ping to the end of the handshake               *)
(* (client/mod.rs, client/discovery.rs, client/handshake.rs) against the   *)
(* server-side Connection (connection/mod.rs), over a network that loses,  *)
(* delays, reorders and, up to a bound, duplicates datagrams.              *)
(*                                                                         *)
(* The server's offline half (it answers pings, OpenConnectRequest and     *)
(* SessionInfoRequest, and makes the Connection) is not in the repository: *)
(* it is external, and answers as the client expects of it.  A datagram    *)
(* carries one payload.  What the RecvQueues do beyond refusing what they  *)
(* have had already is in RecvQueue; pings are always new, so they carry   *)
(* no number.  Sizes and cookies are left out: an MTU is its place in the  *)
(* list of those that are tried.                                           *)
(***************************************************************************)
EXTENDS Naturals, FiniteSets

CONSTANTS
    Mtus,           \* MTUs that are tried (6)
    OpenAttempts,   \* OpenConnectRequests for each (5)
    InfoAttempts,   \* SessionInfoRequests (3)
    ReplyErrors,    \* receive errors while one is awaited (5)
    RequestTries,   \* ConnectionRequests after the first (5)
    MaxCopies       \* bound: datagrams the network duplicates

ASSUME HandshakeAssumption ==
    /\ {Mtus, OpenAttempts, InfoAttempts, ReplyErrors, RequestTries} \subseteq Nat \ {0}
    /\ MaxCopies \in Nat

VARIABLES
    phase,      \* where connect() is
    client,     \* ConnectionState of the client
    status,     \* HandshakeStatus
    mtuAt,      \* place of the MTU that is tried
    attempt,    \* attempts made with it, or SessionInfoRequests made
    waiting,    \* a reply is awaited
    tries,      \* receive errors, then ConnectionRequests made again
    overdue,    \* two seconds have passed since the last ConnectionRequest
    sent,       \* frames the client has numbered
    handled,    \* accepts the client's present RecvQueue has had
    net,        \* datagrams on the way
    copies,     \* datagrams duplicated so far
    compatible, \* the server speaks the client's version
    server,     \* ConnectionState of the Connection, or None
    open,       \* its tasks run
    quiet,      \* units of five seconds since it heard of the client
    first,      \* first frame number it has had, or 0
    had,        \* frame numbers it has had
    accepts,    \* ConnectionAccepts it has sent
    unacked,    \* those that are not acknowledged
    joined      \* NewConnections it has processed

discoveryVars == <<mtuAt, attempt, waiting, tries>>
clientVars == <<phase, client, status, mtuAt, attempt, waiting, tries, overdue, sent,
                handled>>
serverVars == <<server, open, quiet, first, had, accepts, unacked, joined>>
networkVars == <<copies, compatible>>
handshakeVars == <<clientVars, net, networkVars, serverVars>>

None == "none"
MaxFrames == RequestTries + 3       \* what a client can number at most

ToServer(kind, n) == [to |-> "server", kind |-> kind, n |-> n]
ToClient(kind, n) == [to |-> "client", kind |-> kind, n |-> n]
Datagram == [to : {"server", "client"}, n : 0 .. Mtus + MaxFrames,
             kind : {"Ping", "Pong", "Open", "Info", "OpenReply", "Refusal", "Garbled",
                     "InfoReply", "Request", "NewConnection", "Accept", "Ack", "Bye"}]

ClientState == {"Offline", "Unidentified", "Identified", "Connected"}
ServerState == {None, "Unidentified", "Connecting", "Connected", "TimingOut",
                "Disconnected"}
Phase == {"Idle", "Ping", "Discovery", "Session", "Accept", "Finish", "Online", "Failed"}
HandshakeStatus == {"Created", "Opening", "FailedMtuDiscovery", "IncompatibleVersion",
                    "FailedNoSessionReply", "Failed", "Completed"}

HandshakeInit ==
    /\ phase = "Idle" /\ client = "Offline" /\ status = "Created"
    /\ mtuAt = 1 /\ attempt = 0 /\ waiting = FALSE /\ tries = 0 /\ overdue = FALSE
    /\ sent = 0 /\ handled = {}
    /\ net = {} /\ copies = 0 /\ compatible \in BOOLEAN
    /\ server = None /\ open = FALSE /\ quiet = 0
    /\ first = 0 /\ had = {} /\ accepts = 0 /\ unacked = {} /\ joined = 0

----------------------------------------------------------------------------
(* The network.  A datagram that is never taken is lost; taking one may    *)
(* leave a copy on the way.  Only numbered frames are duplicated: the      *)
(* retries already make several of the others.                             *)

Take(m) ==
    /\ m \in net
    /\ \/ copies' = copies
       \/ /\ m.kind \in {"Request", "NewConnection", "Accept"}
          /\ copies < MaxCopies /\ copies' = copies + 1
    /\ UNCHANGED compatible

Left(m) == IF copies' > copies THEN net ELSE net \ {m}

----------------------------------------------------------------------------
(* connect(): the ping, and the end of the handshake.  A failed handshake  *)
(* leaves the client Offline; a ping without answer leaves it as it was.   *)

Connect ==
    /\ phase = "Idle"
    /\ phase' = "Ping"
    /\ net' = net \union {ToServer("Ping", 0)}
    /\ UNCHANGED <<client, status, discoveryVars, overdue, sent, handled,
                   networkVars, serverVars>>

PingTimesOut ==
    /\ phase = "Ping"
    /\ phase' = "Failed"
    /\ UNCHANGED <<client, status, discoveryVars, overdue, sent, handled,
                   net, networkVars, serverVars>>

PingReceives(m) ==
    /\ phase = "Ping" /\ m.to = "client"
    /\ Take(m)
    /\ net' = Left(m)
    /\ IF m.kind = "Pong"
       THEN phase' = "Discovery" /\ client' = "Unidentified" /\ status' = "Opening"
       ELSE UNCHANGED <<phase, client, status>>
    /\ UNCHANGED <<discoveryVars, overdue, sent, handled, serverVars>>

\* The task ends with the status s, and connect() with an error.
Fails(s) == phase' = "Failed" /\ client' = "Offline" /\ status' = s

\* The RecvQueue of the handshake is dropped; the tasks start with a new one.
Finish ==
    /\ phase = "Finish"
    /\ phase' = "Online" /\ client' = "Connected"
    /\ handled' = {}
    /\ UNCHANGED <<status, discoveryVars, overdue, sent, net, networkVars,
                   serverVars>>

----------------------------------------------------------------------------
(* MtuDiscovery: each MTU in turn, a few requests for each. *)

Trying == phase = "Discovery" /\ mtuAt <= Mtus /\ attempt < OpenAttempts

OpenRequest ==
    /\ Trying /\ ~waiting
    /\ \/ /\ net' = net \union {ToServer("Open", mtuAt)}
          /\ waiting' = TRUE /\ UNCHANGED attempt
       \/ attempt' = attempt + 1 /\ UNCHANGED <<net, waiting>>      \* not sent
    /\ UNCHANGED <<phase, client, status, mtuAt, tries, overdue, sent, handled,
                   networkVars, serverVars>>

\* Half a second passes, or the socket reports an error.
OpenTimesOut ==
    /\ Trying /\ waiting
    /\ waiting' = FALSE /\ attempt' = attempt + 1
    /\ UNCHANGED <<phase, client, status, mtuAt, tries, overdue, sent, handled,
                   net, networkVars, serverVars>>

\* Mutant: the same one for ever.
NextMtuSame ==
    /\ phase = "Discovery" /\ mtuAt <= Mtus /\ attempt = OpenAttempts
    /\ attempt' = 0
    /\ UNCHANGED <<phase, client, status, mtuAt, waiting, tries, overdue, sent, handled,
                   net, networkVars, serverVars>>

NextMtu ==
    /\ phase = "Discovery" /\ mtuAt <= Mtus /\ attempt = OpenAttempts
    /\ mtuAt' = mtuAt + 1 /\ attempt' = 0
    /\ UNCHANGED <<phase, client, status, waiting, tries, overdue, sent, handled,
                   net, networkVars, serverVars>>

NoMtuLeft ==
    /\ phase = "Discovery" /\ mtuAt > Mtus
    /\ Fails("FailedMtuDiscovery")
    /\ UNCHANGED <<discoveryVars, overdue, sent, handled, net, networkVars,
                   serverVars>>

\* Mutant: any reply that does not read as one is a refusal.
OpenOutcomeRefused(kind) == IF kind = "OpenReply" THEN "Opening" ELSE "IncompatibleVersion"

\* What a reply to OpenConnectRequest ends: a reply is first read as a refusal,
\* which its magic in the wrong place makes it fail.
OpenOutcome(kind) ==
    CASE kind = "OpenReply" -> "Opening"
      [] kind = "Refusal"   -> "IncompatibleVersion"
      [] OTHER              -> "FailedMtuDiscovery"

OpenReceives(m) ==
    /\ Trying /\ waiting /\ m.to = "client"
    /\ Take(m)
    /\ net' = Left(m)
    /\ waiting' = FALSE
    /\ \/ /\ m.kind \notin {"OpenReply", "Refusal", "Garbled"}
          /\ attempt' = attempt + 1
          /\ UNCHANGED <<phase, client, status>>
       \/ /\ m.kind = "OpenReply"
          /\ phase' = "Session" /\ attempt' = 0
          /\ status' = OpenOutcome(m.kind) /\ UNCHANGED client
       \/ /\ m.kind \in {"Refusal", "Garbled"}
          /\ Fails(OpenOutcome(m.kind)) /\ UNCHANGED attempt
    /\ UNCHANGED <<mtuAt, tries, overdue, sent, handled, serverVars>>

----------------------------------------------------------------------------
(* SessionInfoRequest.  While a reply is awaited other datagrams, and a    *)
(* refusal, which does not read as a reply, are passed over uncounted.     *)

InfoRequest ==
    /\ phase = "Session" /\ ~waiting /\ attempt < InfoAttempts
    /\ \/ /\ net' = net \union {ToServer("Info", mtuAt)}
          /\ waiting' = TRUE /\ tries' = 0 /\ UNCHANGED attempt
       \/ attempt' = attempt + 1 /\ UNCHANGED <<net, waiting, tries>>
    /\ UNCHANGED <<phase, client, status, mtuAt, overdue, sent, handled,
                   networkVars, serverVars>>

InfoTimesOut ==
    /\ phase = "Session" /\ waiting
    /\ waiting' = FALSE /\ attempt' = attempt + 1
    /\ UNCHANGED <<phase, client, status, mtuAt, tries, overdue, sent, handled,
                   net, networkVars, serverVars>>

InfoReceiveError ==
    /\ phase = "Session" /\ waiting
    /\ tries' = tries + 1
    /\ waiting' = (tries' < ReplyErrors)
    /\ attempt' = IF waiting' THEN attempt ELSE attempt + 1
    /\ UNCHANGED <<phase, client, status, mtuAt, overdue, sent, handled, net,
                   networkVars, serverVars>>

NoInfo ==
    /\ phase = "Session" /\ ~waiting /\ attempt = InfoAttempts
    /\ Fails("FailedNoSessionReply")
    /\ UNCHANGED <<discoveryVars, overdue, sent, handled, net, networkVars,
                   serverVars>>

\* The first ConnectionRequest follows the reply; failing to send it ends it all.
\* A bound: what is left on the way of the offline exchange is lost then.
InfoReceives(m) ==
    /\ phase = "Session" /\ waiting /\ m.to = "client"
    /\ Take(m)
    /\ IF m.kind = "InfoReply"
       THEN /\ waiting' = FALSE /\ tries' = 0 /\ overdue' = FALSE
            /\ \/ /\ phase' = "Accept"
                  /\ sent' = sent + 1
                  /\ net' = {ToServer("Request", sent + 1)}
                  /\ UNCHANGED <<client, status>>
               \/ Fails("Failed") /\ net' = Left(m) /\ UNCHANGED sent
       ELSE /\ net' = Left(m)
            /\ UNCHANGED <<phase, client, status, waiting, tries, overdue, sent>>
    /\ UNCHANGED <<mtuAt, attempt, handled, serverVars>>

----------------------------------------------------------------------------
(* Waiting for the accept.  The wait for a datagram has no timeout: that   *)
(* two seconds have passed is seen when the next one, or an error, comes.  *)

TwoSecondsPass ==
    /\ phase = "Accept" /\ ~overdue
    /\ overdue' = TRUE
    /\ UNCHANGED <<phase, client, status, discoveryVars, sent, handled, net,
                   networkVars, serverVars>>

\* The request that is made again when the answer is overdue, before what has
\* come is looked at.
Again == IF overdue THEN {ToServer("Request", sent + 1)} ELSE {}

\* Mutant: without a limit.
TooManyNever == FALSE

TooMany == overdue /\ tries + 1 >= RequestTries
Retry ==
    /\ overdue' = FALSE
    /\ tries' = IF overdue THEN tries + 1 ELSE tries

\* send_connection_request() fails, or it has been made too often.
AcceptGivesUp(m) ==
    /\ phase = "Accept" /\ m.to = "client" /\ overdue
    /\ Take(m)
    /\ \/ net' = Left(m) /\ UNCHANGED <<sent, tries>>
       \/ /\ TooMany
          /\ net' = Left(m) \union Again
          /\ sent' = sent + 1 /\ tries' = tries + 1
    /\ Fails("Failed")
    /\ overdue' = FALSE
    /\ UNCHANGED <<mtuAt, attempt, waiting, handled, serverVars>>

\* Is m the accept the handshake waits for, and not one it has had?
Answers(m) == m.kind = "Accept" /\ m.n \notin handled

AcceptReceives(m) ==
    /\ phase = "Accept" /\ m.to = "client" /\ ~TooMany
    /\ ~Answers(m)
    /\ Take(m)
    /\ Retry
    /\ sent' = sent + Cardinality(Again)
    /\ net' = Left(m) \union Again
                \union (IF m.kind = "Ping" THEN {ToServer("Pong", 0)} ELSE {})
    /\ UNCHANGED <<phase, client, status, mtuAt, attempt, waiting, handled,
                   serverVars>>

\* The accept is acknowledged, then answered: both may be lost.
Accepted(m) ==
    /\ phase = "Accept" /\ m.to = "client" /\ ~TooMany
    /\ Answers(m)
    /\ Take(m)
    /\ Retry
    /\ handled' = handled \union {m.n}
    /\ LET n == sent + Cardinality(Again) + 1
           acked == Left(m) \union Again \union {ToServer("Ack", m.n)}
       IN \/ /\ phase' = "Finish" /\ client' = "Identified" /\ status' = "Completed"
             /\ net' = acked \union {ToServer("NewConnection", n)} /\ sent' = n
          \/ Fails("Failed") /\ net' = acked /\ sent' = n - 1
    /\ UNCHANGED <<mtuAt, attempt, waiting, serverVars>>

AcceptReceiveError ==
    /\ phase = "Accept"
    /\ overdue
    /\ Retry
    /\ \/ /\ sent' = sent + 1
          /\ net' = net \union Again
          /\ IF TooMany THEN Fails("Failed") ELSE UNCHANGED <<phase, client, status>>
       \/ Fails("Failed") /\ UNCHANGED <<sent, net>>
    /\ UNCHANGED <<mtuAt, attempt, waiting, handled, networkVars, serverVars>>

----------------------------------------------------------------------------
(* The receive task after the handshake: what is no ping, pong or          *)
(* Disconnect goes to the application.                                     *)

OnlineReceives(m) ==
    /\ phase = "Online" /\ m.to = "client"
    /\ Take(m)
    /\ handled' = IF m.kind = "Accept" THEN handled \union {m.n} ELSE handled
    /\ net' = Left(m)
                \union (IF m.kind = "Accept" THEN {ToServer("Ack", m.n)} ELSE {})
                \union (IF m.kind = "Ping" THEN {ToServer("Pong", 0)} ELSE {})
    /\ UNCHANGED <<phase, client, status, discoveryVars, overdue, sent, serverVars>>

----------------------------------------------------------------------------
(* The external half of the server. *)

Offline(m) ==
    /\ m.to = "server" /\ m.kind \in {"Ping", "Open", "Info"}
    /\ Take(m)
    /\ \/ m.kind = "Ping" /\ net' = Left(m) \union {ToClient("Pong", 0)}
       \/ /\ m.kind = "Open"
          /\ \E kind \in IF compatible THEN {"OpenReply", "Garbled"} ELSE {"Refusal"} :
                net' = Left(m) \union {ToClient(kind, m.n)}
       \/ m.kind = "Info" /\ net' = Left(m) \union {ToClient("InfoReply", m.n)}
    /\ IF m.kind = "Info" /\ server = None
       THEN /\ server' = "Unidentified" /\ open' = TRUE /\ quiet' = 0
            /\ UNCHANGED <<first, had, accepts, unacked, joined>>
       ELSE UNCHANGED serverVars
    /\ UNCHANGED clientVars

----------------------------------------------------------------------------
(* Connection: its receive task, its tick and the application's close(). *)

\* Any datagram ends TimingOut, whatever state the silence began in.
Woken == IF server = "TimingOut" THEN "Connected" ELSE server

Refused(n) == n \in had \/ (first # 0 /\ n < first)

ConnectionReceives(m) ==
    /\ open /\ m.to = "server" /\ m.kind \in {"Request", "NewConnection", "Pong", "Ack"}
    /\ Take(m)
    /\ quiet' = 0
    /\ LET fresh == m.n > 0 /\ m.kind # "Ack" /\ ~Refused(m.n)
       IN /\ first' = IF fresh /\ first = 0 THEN m.n ELSE first
          /\ had' = IF fresh THEN had \union {m.n} ELSE had
          /\ \/ /\ fresh /\ m.kind = "Request"
                /\ server' = "Connecting"
                /\ accepts' = accepts + 1
                /\ unacked' = unacked \union {accepts + 1}
                /\ net' = Left(m) \union {ToClient("Accept", accepts + 1)}
                /\ UNCHANGED <<open, joined>>
             \/ /\ fresh /\ m.kind = "NewConnection"
                /\ server' = "Connected"
                /\ open' = (Woken # "Connected")
                /\ joined' = joined + 1
                /\ net' = Left(m)
                /\ UNCHANGED <<accepts, unacked>>
             \/ /\ ~fresh
                /\ server' = Woken
                /\ unacked' = IF m.kind = "Ack" THEN unacked \ {m.n} ELSE unacked
                /\ net' = Left(m)
                /\ UNCHANGED <<open, accepts, joined>>
    /\ UNCHANGED clientVars

\* Nothing answers a Connection that has ended.
ConnectionGone(m) ==
    /\ ~open /\ m.to = "server" /\ m.kind \in {"Request", "NewConnection", "Pong", "Ack"}
    /\ Take(m)
    /\ net' = Left(m)
    /\ UNCHANGED <<clientVars, serverVars>>

\* SendQueue::update() sends again what is not acknowledged.
ConnectionResends ==
    /\ open
    /\ \E a \in unacked : net' = net \union {ToClient("Accept", a)}
    /\ UNCHANGED <<clientVars, networkVars, serverVars>>

\* The tick sends one every three seconds.
ConnectionPings ==
    /\ open
    /\ net' = net \union {ToClient("Ping", 0)}
    /\ UNCHANGED <<clientVars, networkVars, serverVars>>

FiveSecondsPass ==
    /\ open /\ quiet < 3
    /\ quiet' = quiet + 1
    /\ UNCHANGED <<clientVars, net, networkVars, server, open, first, had, accepts,
                   unacked, joined>>

\* Mutant: only a Connection whose handshake is complete.
ConnectionTickConnected ==
    /\ open /\ quiet >= 2
    /\ \/ quiet = 3 /\ server = "TimingOut" /\ server' = "Disconnected" /\ open' = FALSE
       \/ server = "Connected" /\ server' = "TimingOut" /\ UNCHANGED open
    /\ UNCHANGED <<clientVars, net, networkVars, quiet, first, had, accepts, unacked,
                   joined>>

ConnectionTick ==
    /\ open
    /\ \/ /\ quiet = 3
          /\ server' = "Disconnected" /\ open' = FALSE
       \/ /\ quiet = 2
          /\ server \notin {"Disconnected", "TimingOut"}
          /\ server' = "TimingOut" /\ UNCHANGED open
    /\ UNCHANGED <<clientVars, net, networkVars, quiet, first, had, accepts, unacked,
                   joined>>

ConnectionCloses ==
    /\ open
    /\ open' = FALSE
    /\ net' = net \union {ToClient("Bye", 0)}
    /\ UNCHANGED <<clientVars, networkVars, server, quiet, first, had, accepts, unacked,
                   joined>>

----------------------------------------------------------------------------
ClientReceives(m) ==
    \/ PingReceives(m) \/ OpenReceives(m) \/ InfoReceives(m)
    \/ AcceptGivesUp(m) \/ AcceptReceives(m) \/ Accepted(m) \/ OnlineReceives(m)

ClientSteps ==
    \/ Connect \/ PingTimesOut \/ Finish
    \/ OpenRequest \/ OpenTimesOut \/ NextMtu \/ NoMtuLeft
    \/ InfoRequest \/ InfoTimesOut \/ NoInfo

ServerReceives(m) == Offline(m) \/ ConnectionReceives(m) \/ ConnectionGone(m)

HandshakeNext ==
    \/ ClientSteps \/ InfoReceiveError \/ TwoSecondsPass \/ AcceptReceiveError
    \/ \E m \in net : ClientReceives(m) \/ ServerReceives(m)
    \/ ConnectionResends \/ ConnectionPings \/ FiveSecondsPass \/ ConnectionTick \/ ConnectionCloses

HandshakeSpec == HandshakeInit /\ [][HandshakeNext]_handshakeVars

\* Time passes, the client's timers expire, and of the pings that are on their way
\* not all are lost.  Nothing is assumed of the tasks of the Connection.
HandshakeFairSpec ==
    /\ HandshakeSpec
    /\ WF_handshakeVars(ClientSteps) /\ WF_handshakeVars(TwoSecondsPass)
    /\ WF_handshakeVars(FiveSecondsPass)
    /\ SF_handshakeVars(overdue /\ ClientReceives(ToClient("Ping", 0)))

\* The tick of the Connection goes on, and with it its ping every three seconds.
\* It need not: PeerLocks shows it blocked by the receive task over the queues.
TickRuns == WF_handshakeVars(ConnectionTick) /\ WF_handshakeVars(ConnectionPings)

----------------------------------------------------------------------------
(* Properties. *)

\* The variables have values of their kinds, and the counters stay inside what
\* the loops of discovery.rs and handshake.rs allow.
HandshakeTypeOK ==
    /\ phase \in Phase /\ client \in ClientState /\ status \in HandshakeStatus
    /\ mtuAt \in 1 .. Mtus + 1 /\ attempt \in 0 .. OpenAttempts + InfoAttempts
    /\ waiting \in BOOLEAN /\ overdue \in BOOLEAN
    /\ tries \in 0 .. RequestTries + ReplyErrors /\ sent \in 0 .. MaxFrames
    /\ {handled, unacked} \subseteq SUBSET (1 .. accepts)
    /\ net \subseteq Datagram /\ copies \in 0 .. MaxCopies /\ compatible \in BOOLEAN
    /\ server \in ServerState /\ open \in BOOLEAN /\ quiet \in 0 .. 3
    /\ first \in 0 .. MaxFrames /\ had \subseteq 1 .. MaxFrames
    /\ accepts \in 0 .. MaxFrames /\ joined \in 0 .. 1

\* Whatever the network does, connect() succeeds only with a server that has
\* processed a ConnectionRequest, and blames the version only when the server
\* does not speak it (handshake.rs 340-375, 516-575).
OutcomeIsHonest ==
    /\ status = "Completed" => accepts > 0
    /\ status = "IncompatibleVersion" => ~compatible
    /\ phase = "Online" => status = "Completed"

\* connect() comes to an end, as long as the server it has reached goes on
\* sending: after so many requests it gives up (handshake.rs 441-463).
ConnectConcludes ==
    TickRuns =>
        (phase \in {"Ping", "Discovery", "Session", "Accept", "Finish"} ~>
            (phase \in {"Online", "Failed"} \/ (server # None /\ ~open)))

\* A Connection whose client has given up ends by itself, whatever was still on
\* the way to it and wherever it was in the handshake, unless its tick is blocked
\* (connection/mod.rs 272-282).
HalfOpenEnds == TickRuns => ((phase = "Failed" /\ open) ~> ~open)
=============================================================================
