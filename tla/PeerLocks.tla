----------------------------- MODULE PeerLocks -----------------------------
(***************************************************************************)
(* Who waits for whom: the tasks of a Client (client/mod.rs) and of a      *)
(* server-side Connection (connection/mod.rs) share the locks on the       *)
(* state, the send queue and the receive queue, and a bounded channel      *)
(* towards the application.  A task is the set of its passes: each one the *)
(* lock and channel operations of one way through its body, in the order   *)
(* of the code.  What the passes compute is in RakLink and                 *)
(* ClientLifecycle; here only the waiting counts.                          *)
(***************************************************************************)
EXTENDS Naturals, Sequences, FiniteSets

CONSTANTS
    Passes,     \* [task -> set of passes]
    Room        \* capacity of the channel towards the application

VARIABLES
    todo,       \* per task, what is left of the pass it is in
    holder,     \* per lock, the set of tasks (at most one) that hold it
    channel     \* how many messages wait in the channel

lockVars == <<todo, holder, channel>>

Lock == {"state", "send", "recv"}
Task == DOMAIN Passes

take(lock) == [op |-> "take", on |-> lock]
give(lock) == [op |-> "give", on |-> lock]
put == [op |-> "put", on |-> "channel"]
get == [op |-> "get", on |-> "channel"]

----------------------------------------------------------------------------
(* The client. *)

\* Mutant: the tick keeps the receive queue while it sends the ACKs.
ClientTickKeepsRecv == {<<take("state"), take("send"), give("send"), take("recv"),
                          take("send"), give("send"), give("recv"), give("state")>>}

\* tick_body!: the state guard lives to its end; the guards of the send and
\* receive queues each have a block of their own.
ClientTick == {<<take("state"), give("state")>>,
               <<take("state"), take("send"), give("send"), take("recv"), give("recv"),
                 give("state")>>,
               <<take("state"), take("send"), give("send"), take("recv"), give("recv"),
                 take("send"), give("send"), give("state")>>}

\* Mutant: the receive queue stays locked while what it released is passed on.
ClientRecvKeepsRecv ==
    LET woken == <<take("state"), give("state")>>
    IN  {woken, woken \o <<take("recv"), put, give("recv")>>,
         woken \o <<take("send"), give("send")>>}

\* recv_body!: state; then a frame packet (its payloads answered or passed on
\* when the queue is released), an ACK or a NACK, or a packet passed on.
ClientRecv ==
    LET woken == <<take("state"), give("state")>>
        frames == woken \o <<take("recv"), give("recv")>>
        answer == <<take("send"), give("send")>>
    IN  {woken, frames, frames \o answer, frames \o <<put>>,
         frames \o answer \o <<put>>, woken \o answer, woken \o <<put>>}

\* The send functions look at the state first; flush_ack() holds the send
\* queue while it empties the receive queue.
ClientCalls == {<<take("state"), give("state"), take("send"), give("send")>>,
                <<take("send"), take("recv"), give("recv"), give("send")>>,
                <<take("state"), give("state")>>}

ClientReader == {<<get>>}

ClientPasses == [tick |-> ClientTick, recv |-> ClientRecv, calls |-> ClientCalls,
                 reader |-> ClientReader]

----------------------------------------------------------------------------
(* The connection of a server. *)

\* tick_body!: all three guards live to its end.
ConnTick == {<<take("state"), give("state")>>,
             <<take("state"), take("send"), take("recv"), give("recv"), give("send"),
               give("state")>>}

\* handle_payload!: the receive queue stays locked while process_packet()
\* answers a ping or a connection request, changes the state or passes on.
ConnRecv ==
    LET woken == <<take("state"), give("state")>>
        inside(steps) == woken \o <<take("recv")>> \o steps \o <<give("recv")>>
        answer == <<take("send"), give("send")>>
    IN  {woken, inside(<<>>), inside(answer),
         inside(<<take("send"), take("state"), give("state"), give("send")>>),
         inside(<<take("state"), give("state")>>), inside(<<put>>),
         woken \o answer, woken \o answer \o <<take("recv"), give("recv")>>}

\* send(), close() and is_closed().
ConnCalls == {<<take("send"), give("send")>>, <<take("state"), give("state")>>}

ConnReader == {<<get>>}

ConnPasses == [tick |-> ConnTick, recv |-> ConnRecv, calls |-> ConnCalls,
               reader |-> ConnReader]

----------------------------------------------------------------------------
LockInit ==
    /\ todo = [t \in Task |-> <<>>]
    /\ holder = [l \in Lock |-> {}]
    /\ channel = 0

Begin(t, pass) ==
    /\ todo[t] = <<>>
    /\ todo' = [todo EXCEPT ![t] = pass]
    /\ UNCHANGED <<holder, channel>>

Possible(t, step) ==
    CASE step.op = "take" -> holder[step.on] = {}
      [] step.op = "give" -> holder[step.on] = {t}
      [] step.op = "put"  -> channel < Room
      [] step.op = "get"  -> channel > 0

Step(t) ==
    LET step == Head(todo[t])
    IN  /\ todo[t] # <<>>
        /\ Possible(t, step)
        /\ todo' = [todo EXCEPT ![t] = Tail(@)]
        /\ holder' = CASE step.op = "take" -> [holder EXCEPT ![step.on] = {t}]
                       [] step.op = "give" -> [holder EXCEPT ![step.on] = {}]
                       [] OTHER -> holder
        /\ channel' = CASE step.op = "put" -> channel + 1
                        [] step.op = "get" -> channel - 1
                        [] OTHER -> channel

LockNext == \E t \in Task : Step(t) \/ \E pass \in Passes[t] : Begin(t, pass)

LockSpec == LockInit /\ [][LockNext]_lockVars

\* tokio's locks are FIFO, so a task that waits for one gets it when those
\* before it are done.  Nothing says that the application reads.
LockFairSpec == LockSpec /\ \A t \in Task \ {"reader"} : SF_lockVars(Step(t))

----------------------------------------------------------------------------
(* Properties. *)

Holding(t) == {l \in Lock : t \in holder[l]}

WaitsFor(t) ==
    IF todo[t] # <<>> /\ Head(todo[t]).op = "take" THEN holder[Head(todo[t]).on] ELSE {}

\* No circle of tasks each of which waits for a lock the next one holds.
NoWaitCircle ==
    \A circle \in (SUBSET Task) \ {{}} :
        \E t \in circle : WaitsFor(t) \cap circle = {}

\* A task that waits for the application to make room in the channel keeps
\* nobody else waiting.
WaitsForReaderAlone ==
    \A t \in Task : todo[t] # <<>> /\ Head(todo[t]).op = "put" => Holding(t) = {}

\* The tick comes to the end of every pass it begins: it is what notices a
\* silent peer ("keep the connection from being in memory longer than it
\* should be", connection/mod.rs).
TickCompletes == todo["tick"] # <<>> ~> todo["tick"] = <<>>
=============================================================================
