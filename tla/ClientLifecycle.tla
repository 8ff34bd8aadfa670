-------------------------- MODULE ClientLifecycle --------------------------
(***************************************************************************)
(* The life of a Client (client/mod.rs): connect(), the three tasks it     *)
(* spawns, the timeout, recv(), close() and drop.  The application owns    *)
(* the client (connect() and recv() take &mut self), so it is one actor;   *)
(* each task is another.  An action is what runs between two awaits that   *)
(* another actor can observe; time is counted in halves of the timeout.    *)
(*                                                                         *)
(* What datagrams carry is in RakLink; here any of them may turn out to    *)
(* end up at the application, not to (an ACK, a NACK, a ping or pong, a    *)
(* held fragment), or to be the peer's Disconnect.                         *)
(***************************************************************************)
EXTENDS Naturals

CONSTANTS
    NetRoom,    \* capacity of the channel from the socket (10)
    InboxRoom   \* capacity of the channel to the application (4096)

ASSUME RoomAssumption == NetRoom \in Nat \ {0} /\ InboxRoom \in Nat \ {0}

VARIABLES
    state,      \* ConnectionState
    spent,      \* close_notifier has been notified (once for all)
    user,       \* where the application is
    socket,     \* the socket task: in its select, holding a datagram, or ended
    net,        \* how many datagrams wait for the receive task
    recv,       \* the receive task
    inbox,      \* how many packets wait for the application
    tick,       \* the tick task
    heard,      \* age of recv_time; Never while it is 0
    seen,       \* age of the recv_time the tick has loaded (Never between ticks)
    tasks,      \* the tasks are in the client's list
    doomed      \* tasks that have been aborted and not yet been dropped

clientVars ==
    <<state, spent, user, socket, net, recv, inbox, tick, heard, seen, tasks, doomed>>
applicationVars == <<user, tasks>>

Role == {"socket", "recv", "tick"}

\* Ages of recv_time, in halves of the timeout.
Timeout == 2
Never == Timeout + 1
Age == 0 .. Never

\* ConnectionState::is_reliable() and is_available().  A client is never
\* Connecting.
State == {"Offline", "Unidentified", "Identified", "Connected", "TimingOut",
          "Disconnecting", "Disconnected"}
Reliable(s) == s \notin {"Disconnected", "TimingOut", "Offline"}
Available(s) == s \in {"Connected", "Unidentified", "Disconnecting"}

NoTaskLeft == socket = "done" /\ recv = "done" /\ tick = "done"

ClientInit ==
    /\ state = "Offline" /\ spent = FALSE /\ user = "idle"
    /\ socket = "done" /\ recv = "done" /\ tick = "done"
    /\ net = 0 /\ inbox = 0
    /\ heard = Never /\ seen = Never
    /\ tasks = FALSE /\ doomed = {}

----------------------------------------------------------------------------
(* connect().  A bound of the model: it is not called again while tasks of *)
(* an earlier connect() run.                                               *)

UnchangedTasks == UNCHANGED <<socket, net, recv, inbox, tick, heard, seen, tasks, doomed>>

\* No address, or no socket to bind.
ConnectRefused ==
    /\ user \in {"idle", "told", "closed"} /\ NoTaskLeft
    /\ ~Available(state)
    /\ state' = "Offline"
    /\ UNCHANGED <<spent, user>> /\ UnchangedTasks

\* The socket does not connect within 5 seconds.
ConnectTimesOut ==
    /\ user \in {"idle", "told", "closed"} /\ NoTaskLeft
    /\ ~Available(state)
    /\ spent' = TRUE
    /\ user' = "failing"
    /\ UNCHANGED state /\ UnchangedTasks

ConnectFails ==
    /\ user = "failing"
    /\ state' = "Offline" /\ user' = "idle"
    /\ UNCHANGED spent /\ UnchangedTasks

\* The ping is answered.  (When it is not, connect() changes nothing.)
ConnectBegins ==
    /\ user \in {"idle", "told", "closed"} /\ NoTaskLeft
    /\ ~Available(state)
    /\ state' = "Unidentified" /\ user' = "handshake"
    /\ UNCHANGED spent /\ UnchangedTasks

HandshakeEnds ==
    /\ user = "handshake"
    /\ \/ state' = "Offline" /\ user' = "idle"
       \/ state' = "Identified" /\ user' = "spawn"
    /\ UNCHANGED spent /\ UnchangedTasks

Spawn ==
    /\ user = "spawn"
    /\ user' = "check"
    /\ socket' = "select" /\ recv' = "select" /\ tick' = "sleep"
    /\ net' = 0
    /\ UNCHANGED <<state, spent, inbox, heard, seen, tasks, doomed>>

\* AlreadyOnline leaves the tasks running and out of the list.
Check ==
    /\ user = "check"
    /\ user' = IF state = "Identified" THEN "announce" ELSE "idle"
    /\ UNCHANGED <<state, spent>> /\ UnchangedTasks

Announce ==
    /\ user = "announce"
    /\ state' = "Connected" /\ tasks' = TRUE /\ user' = "idle"
    /\ UNCHANGED <<spent, socket, net, recv, inbox, tick, heard, seen, doomed>>

----------------------------------------------------------------------------
(* recv(), close() and drop. *)

UserReceives ==
    /\ user = "idle"
    /\ inbox > 0
    /\ inbox' = inbox - 1
    /\ UNCHANGED <<state, spent, user, socket, net, recv, tick, heard, seen, tasks, doomed>>

\* recv() returns RecvError::Closed.
UserTold ==
    /\ user = "idle"
    /\ spent
    /\ user' = "told"
    /\ UNCHANGED <<state, spent>> /\ UnchangedTasks

Close ==
    /\ user \in {"idle", "told"}
    /\ state' = "Disconnecting" /\ user' = "notify"
    /\ UNCHANGED spent /\ UnchangedTasks

CloseNotifies ==
    /\ user = "notify"
    /\ spent' = TRUE /\ user' = "abort"
    /\ UNCHANGED state /\ UnchangedTasks

\* An aborted task is dropped at its next await: the step it is in the middle
\* of may still come.
CloseAborts ==
    /\ user = "abort"
    /\ doomed' = IF tasks THEN Role ELSE doomed
    /\ tasks' = FALSE /\ user' = "closed"
    /\ UNCHANGED <<state, spent, socket, net, recv, inbox, tick, heard, seen>>

Dropped(t) ==
    /\ t \in doomed
    /\ doomed' = doomed \ {t}
    /\ socket' = IF t = "socket" THEN "done" ELSE socket
    /\ recv' = IF t = "recv" THEN "done" ELSE recv
    /\ tick' = IF t = "tick" THEN "done" ELSE tick
    /\ seen' = IF t = "tick" THEN Never ELSE seen
    /\ UNCHANGED <<state, spent, net, inbox, heard, applicationVars>>

\* Drop notifies, and the application's end of the inbox goes with the client.
Drop ==
    /\ user \in {"idle", "told", "closed"}
    /\ spent' = TRUE /\ user' = "gone"
    /\ UNCHANGED state /\ UnchangedTasks

----------------------------------------------------------------------------
(* The socket task. *)

SocketReads ==
    /\ socket = "select"
    /\ socket' = "holding"
    /\ UNCHANGED <<state, spent, net, recv, inbox, tick, heard, seen, doomed, applicationVars>>

\* Mutant: the channel from the socket is unbounded.
SocketPassesAlways ==
    /\ socket = "holding"
    /\ \/ recv = "done" /\ socket' = "done" /\ UNCHANGED net
       \/ recv # "done" /\ net <= NetRoom /\ net' = net + 1 /\ socket' = "select"
    /\ UNCHANGED <<state, spent, recv, inbox, tick, heard, seen, doomed, applicationVars>>

\* net_send.send() waits for room and fails once the receive task is gone.
SocketPasses ==
    /\ socket = "holding"
    /\ \/ recv = "done" /\ socket' = "done" /\ UNCHANGED net
       \/ /\ recv # "done" /\ net < NetRoom
          /\ net' = net + 1 /\ socket' = "select"
    /\ UNCHANGED <<state, spent, recv, inbox, tick, heard, seen, doomed, applicationVars>>

SocketStops ==
    /\ socket = "select" /\ spent
    /\ socket' = "done"
    /\ UNCHANGED <<state, spent, net, recv, inbox, tick, heard, seen, doomed, applicationVars>>

----------------------------------------------------------------------------
(* The receive task. *)

\* recv_time is stored before the state is locked.
RecvTakes ==
    /\ recv = "select" /\ net > 0
    /\ recv' = "holding" /\ net' = net - 1
    /\ heard' = 0
    /\ UNCHANGED <<state, spent, socket, inbox, tick, seen, doomed, applicationVars>>

\* Mutant: any packet makes a client that had stopped Connected again.
AwakeFromAny(s) == IF Reliable(s) THEN s ELSE "Connected"

\* What a packet does to the state.
Awake(s) == IF s = "TimingOut" THEN "Connected" ELSE s

RecvWakes ==
    /\ recv = "holding"
    /\ state' = Awake(state)
    /\ recv' \in IF state = "Disconnecting" THEN {"done"} ELSE {"select", "deliver", "done"}
    /\ UNCHANGED <<spent, socket, net, inbox, tick, heard, seen, doomed, applicationVars>>

\* Mutant: the receiving end of the channel outlives the client.
RecvDeliversWaiting ==
    /\ recv = "deliver"
    /\ inbox < InboxRoom
    /\ inbox' = inbox + 1 /\ recv' \in {"select", "deliver", "done"}
    /\ UNCHANGED <<state, spent, socket, net, tick, heard, seen, doomed, applicationVars>>

\* A datagram may release several packets, a Disconnect among them.  Without
\* an application sending fails: the task goes on after an online packet it
\* does not know, and ends after any other.
RecvDelivers ==
    /\ recv = "deliver"
    /\ \/ user = "gone" /\ recv' \in {"select", "done"} /\ UNCHANGED inbox
       \/ /\ user # "gone" /\ inbox < InboxRoom
          /\ inbox' = inbox + 1 /\ recv' \in {"select", "deliver", "done"}
    /\ UNCHANGED <<state, spent, socket, net, tick, heard, seen, doomed, applicationVars>>

\* The notifier, or the end of the socket task.
RecvStops ==
    /\ recv = "select"
    /\ spent \/ (socket = "done" /\ net = 0)
    /\ recv' = "done"
    /\ UNCHANGED <<state, spent, socket, net, inbox, tick, heard, seen, doomed, applicationVars>>

----------------------------------------------------------------------------
(* The tick task: recv_time is loaded before the state is locked. *)

TickLoads ==
    /\ tick = "sleep"
    /\ tick' = "loaded" /\ seen' = heard
    /\ UNCHANGED <<state, spent, socket, net, recv, inbox, heard, doomed, applicationVars>>

TimedOut(age) == age # Never /\ age >= Timeout

\* recv_time + timeout / 2 is past: always so while recv_time is 0.
Quiet(age) == age >= Timeout \div 2

\* Mutant: the timeout is noticed and nobody is told.
TickBodySilent ==
    /\ tick = "loaded"
    /\ IF state = "Disconnected" \/ TimedOut(seen)
         THEN state' = "Disconnected" /\ tick' = "done"
         ELSE /\ state' = IF Quiet(seen) /\ Reliable(state) THEN "TimingOut" ELSE state
              /\ tick' = "sleep"
    /\ seen' = Never
    /\ UNCHANGED <<spent, socket, net, recv, inbox, heard, doomed, applicationVars>>

TickBody ==
    /\ tick = "loaded"
    /\ \/ /\ state = "Disconnected" \/ TimedOut(seen)
          /\ state' = "Disconnected" /\ spent' = TRUE /\ tick' = "done"
       \/ /\ state # "Disconnected" /\ ~TimedOut(seen)
          /\ state' = IF Quiet(seen) /\ Reliable(state) THEN "TimingOut" ELSE state
          /\ tick' = "sleep"
          /\ UNCHANGED spent
    /\ seen' = Never
    /\ UNCHANGED <<socket, net, recv, inbox, heard, doomed, applicationVars>>

TickStops ==
    /\ tick = "sleep" /\ spent
    /\ tick' = "done"
    /\ UNCHANGED <<state, spent, socket, net, recv, inbox, heard, seen, doomed, applicationVars>>

\* Half a timeout passes.
Older(age) == IF age < Timeout THEN age + 1 ELSE age

Elapse ==
    /\ heard' = Older(heard) /\ seen' = Older(seen)
    /\ UNCHANGED <<state, spent, socket, net, recv, inbox, tick, doomed, applicationVars>>

----------------------------------------------------------------------------
Application ==
    \/ ConnectRefused \/ ConnectTimesOut \/ ConnectFails \/ ConnectBegins
    \/ HandshakeEnds \/ Spawn \/ Check \/ Announce
    \/ UserReceives \/ UserTold \/ Close \/ CloseNotifies \/ CloseAborts \/ Drop

TaskStep ==
    \/ SocketPasses \/ RecvTakes \/ RecvWakes \/ RecvDelivers \/ TickLoads \/ TickBody

Stop == SocketStops \/ RecvStops \/ TickStops

ClientNext ==
    \/ Application \/ TaskStep \/ Stop \/ Elapse
    \/ SocketReads
    \/ \E t \in Role : Dropped(t)

ClientSpec == ClientInit /\ [][ClientNext]_clientVars

\* Every task is scheduled, time passes, and a select! that has the notifier
\* among its ready branches time and again takes it.  The application finishes
\* the call it is in, and drops a client that has told it that it is closed;
\* nothing says that it reads, or that a datagram ever comes.
ClientFairSpec ==
    /\ ClientSpec
    /\ WF_clientVars(SocketPasses) /\ WF_clientVars(RecvTakes) /\ WF_clientVars(RecvWakes)
    /\ WF_clientVars(RecvDelivers) /\ WF_clientVars(TickLoads) /\ WF_clientVars(TickBody)
    /\ \A t \in Role : WF_clientVars(Dropped(t))
    /\ WF_clientVars(ConnectFails \/ HandshakeEnds \/ Spawn \/ Check \/ Announce
                       \/ CloseNotifies \/ CloseAborts)
    /\ WF_clientVars(user = "told" /\ Drop) /\ WF_clientVars(user = "closed" /\ Drop)
    /\ WF_clientVars(Elapse)
    /\ SF_clientVars(Stop \/ UserTold)

----------------------------------------------------------------------------
(* Properties. *)

ClientTypeOK ==
    /\ state \in State /\ spent \in BOOLEAN /\ tasks \in BOOLEAN
    /\ user \in {"idle", "failing", "handshake", "spawn", "check", "announce", "told",
                 "notify", "abort", "closed", "gone"}
    /\ socket \in {"select", "holding", "done"}
    /\ recv \in {"select", "holding", "deliver", "done"}
    /\ tick \in {"sleep", "loaded", "done"}
    /\ net \in 0 .. NetRoom /\ inbox \in 0 .. InboxRoom
    /\ heard \in Age /\ seen \in Age
    /\ doomed \subseteq Role

\* A client the tick has given up does not come back by itself: a packet that
\* was on its way, or the other tasks, leave it Disconnected.
TimeoutIsFinal ==
    [][state = "Disconnected" /\ state' # state => UNCHANGED <<socket, recv, tick>>]_clientVars

\* When the receive task of a running client ends, be it at the peer's
\* Disconnect, which tells nobody, the application's recv() ends too: the tick
\* finds that nothing is heard any more.
EndIsTold == (recv = "done" /\ tick # "done") ~> spent

\* Once the notifier is spent every task ends, also one that holds a packet
\* for a full channel, and one that connect() left out of the list.
TasksEnd == spent ~> NoTaskLeft

\* A client that hears nothing for the timeout is told so ("The time it takes
\* to timeout a client. This is used to determine if a client is still
\* connected.", client/mod.rs).  It does not hold (the README says why).
SilenceEnds == (state = "Connected" /\ tick # "done") ~> (spent \/ heard = 0)

\* The tick times a client out only when nothing has been heard for the timeout
\* by then.  It does not hold: the tick loads recv_time before it waits for the
\* state (client/mod.rs:1096).  No run checks it.
TimeoutIsEarned ==
    [][state # "Disconnected" /\ state' = "Disconnected" => TimedOut(heard)]_clientVars

=============================================================================
