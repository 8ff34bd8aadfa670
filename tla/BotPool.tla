------------------------------- MODULE BotPool -------------------------------
(***************************************************************************)
(* The pool of bots (pool.rs): the caller that owns it, the command loop   *)
(* of each bot with its bounded channel, and the buffers they share.       *)
(*                                                                         *)
(* The caller does one thing at a time; the loops run at once.  A command  *)
(* is Disconnect or some other, what it carries is left out.  The owner    *)
(* may drop the future of shutdown_all() and keep the pool, or drop the    *)
(* pool, and the loops that are in no map then find their channels closed. *)
(* A bound: the place of such a loop is taken again only when it has       *)
(* ended.                                                                  *)
(***************************************************************************)
EXTENDS Naturals, Sequences, FiniteSets

CONSTANTS
    Bot,           \* bots the pool has room for, max_concurrent
    CommandBuffer, \* command_buffer, the length of a channel
    PerBot         \* buffers made for each bot, 4

ASSUME BotPoolAssumption == IsFiniteSet(Bot) /\ {CommandBuffer, PerBot} \subseteq Nat \ {0}

Command == {"Disconnect", "Other"}

VARIABLES
    owner,  \* what the caller does: nothing, shutdown_all() telling or joining, gone
    bots,   \* bots of the map
    untold, \* bots shutdown_all() has still to tell
    joins,  \* bots it has still to wait for
    loop,   \* the command loop of each bot
    queue,  \* its channel
    free,   \* buffers of the ArrayQueue
    misses  \* get() found none

poolVars == <<owner, bots, untold, joins, loop, queue, free, misses>>

PoolSize == PerBot * Cardinality(Bot)

PoolInit ==
    /\ owner = "idle" /\ bots = {} /\ untold = {} /\ joins = {}
    /\ loop = [b \in Bot |-> "none"] /\ queue = [b \in Bot |-> <<>>]
    /\ free = PoolSize /\ misses = FALSE

\* A command is sent once there is room; to a loop that has ended it fails.
Sends(b, command) ==
    \/ /\ loop[b] # "ended" /\ Len(queue[b]) < CommandBuffer
       /\ queue' = [queue EXCEPT ![b] = Append(@, command)]
    \/ loop[b] = "ended" /\ UNCHANGED queue

\* A bot whose loop has ended counts until the pool shuts down.
SpawnBot(b) ==
    /\ owner = "idle" /\ b \notin bots /\ loop[b] \in {"none", "ended"}
    /\ bots' = bots \cup {b} /\ loop' = [loop EXCEPT ![b] = "waiting"]
    /\ queue' = [queue EXCEPT ![b] = <<>>]
    /\ UNCHANGED <<owner, untold, joins, free, misses>>

SendCommand(b, command) ==
    /\ owner = "idle" /\ b \in bots
    /\ Sends(b, command)
    /\ UNCHANGED <<owner, bots, untold, joins, loop, free, misses>>

\* shutdown_all(): every bot is told in turn,
Shutdown ==
    /\ owner = "idle" /\ bots # {}
    /\ owner' = "telling" /\ untold' = bots
    /\ UNCHANGED <<bots, joins, loop, queue, free, misses>>

Tell(b) ==
    /\ owner = "telling" /\ b \in untold
    /\ Sends(b, "Disconnect") /\ untold' = untold \ {b}
    /\ UNCHANGED <<owner, bots, joins, loop, free, misses>>

\* the map is emptied,
TakeAll ==
    /\ owner = "telling" /\ untold = {}
    /\ owner' = "joining" /\ bots' = {} /\ joins' = bots
    /\ UNCHANGED <<untold, loop, queue, free, misses>>

\* and every loop waited for.
Join(b) ==
    /\ owner = "joining" /\ b \in joins /\ loop[b] = "ended"
    /\ joins' = joins \ {b}
    /\ loop' = [loop EXCEPT ![b] = "none"] /\ queue' = [queue EXCEPT ![b] = <<>>]
    /\ UNCHANGED <<owner, bots, untold, free, misses>>

ShutDown ==
    /\ owner = "joining" /\ joins = {}
    /\ owner' = "idle"
    /\ UNCHANGED <<bots, untold, joins, loop, queue, free, misses>>

\* The future of shutdown_all() is dropped and the pool is kept: while it
\* tells, with all its bots, some of them told; while it joins, with none.
Abandon ==
    /\ owner \in {"telling", "joining"} /\ owner' = "idle"
    /\ untold' = {} /\ joins' = {}
    /\ UNCHANGED <<bots, loop, queue, free, misses>>

\* The pool is dropped, once nothing borrows it.
DropPool ==
    /\ owner = "idle" /\ owner' = "gone"
    /\ bots' = {} /\ untold' = {} /\ joins' = {}
    /\ UNCHANGED <<loop, queue, free, misses>>

\* Mutant: Disconnect is a command like any other.
ReceivePast(b) ==
    /\ loop[b] = "waiting" /\ queue[b] # <<>>
    /\ queue' = [queue EXCEPT ![b] = Tail(@)]
    /\ loop' = [loop EXCEPT ![b] = "working"]
    /\ free' = IF free > 0 THEN free - 1 ELSE free
    /\ misses' = (misses \/ free = 0)
    /\ UNCHANGED <<owner, bots, untold, joins>>

\* run_bot_command_loop() receives a command and takes a buffer, a new one if
\* the pool has none.
Receive(b) ==
    /\ loop[b] = "waiting" /\ queue[b] # <<>>
    /\ queue' = [queue EXCEPT ![b] = Tail(@)]
    /\ loop' = [loop EXCEPT ![b] = IF Head(queue[b]) = "Disconnect" THEN "leaving" ELSE "working"]
    /\ free' = IF free > 0 THEN free - 1 ELSE free
    /\ misses' = (misses \/ free = 0)
    /\ UNCHANGED <<owner, bots, untold, joins>>

\* Mutant: the buffer of the last command is lost with the loop.
ReturnButLast(b) ==
    /\ loop[b] \in {"working", "leaving"}
    /\ loop' = [loop EXCEPT ![b] = IF @ = "working" THEN "waiting" ELSE "ended"]
    /\ free' = IF loop[b] = "working" THEN free + 1 ELSE free
    /\ UNCHANGED <<owner, bots, untold, joins, queue, misses>>

\* PooledBuffer's drop(): the buffer goes back, if the pool is not full.
Return(b) ==
    /\ loop[b] \in {"working", "leaving"}
    /\ loop' = [loop EXCEPT ![b] = IF @ = "working" THEN "waiting" ELSE "ended"]
    /\ free' = IF free < PoolSize THEN free + 1 ELSE free
    /\ UNCHANGED <<owner, bots, untold, joins, queue, misses>>

\* The channel is closed and empty.
LoopEnds(b) ==
    /\ loop[b] = "waiting" /\ queue[b] = <<>> /\ b \notin bots \cup joins
    /\ loop' = [loop EXCEPT ![b] = "ended"]
    /\ UNCHANGED <<owner, bots, untold, joins, queue, free, misses>>

LoopStep(b) == Receive(b) \/ Return(b) \/ LoopEnds(b)
ShutdownStep == (\E b \in Bot : Tell(b) \/ Join(b)) \/ TakeAll \/ ShutDown

PoolNext ==
    \/ \E b \in Bot : SpawnBot(b) \/ LoopStep(b) \/ \E c \in Command : SendCommand(b, c)
    \/ Shutdown \/ ShutdownStep \/ Abandon \/ DropPool

\* The runtime polls every loop, and the future of shutdown_all() while its
\* caller awaits it.
PoolFairness == WF_poolVars(ShutdownStep) /\ \A b \in Bot : WF_poolVars(LoopStep(b))

-----------------------------------------------------------------------------
(* Properties. *)

Holding == {b \in Bot : loop[b] \in {"working", "leaving"}}

\* The values of the variables; the buffers are those of the queue and those
\* the loops hold, and there was one for every command.
PoolTypeOK ==
    /\ owner \in {"idle", "telling", "joining", "gone"}
    /\ bots \subseteq Bot /\ untold \subseteq bots /\ joins \subseteq Bot
    /\ loop \in [Bot -> {"none", "waiting", "working", "leaving", "ended"}]
    /\ \A b \in Bot : Len(queue[b]) <= CommandBuffer
    /\ free + Cardinality(Holding) = PoolSize /\ ~misses

\* shutdown_all() comes to its end, whatever the channels hold and whichever
\* loops have ended already, unless it is dropped; and a pool that is dropped
\* leaves no loop behind (shutdown_all(), run_bot_command_loop()).
ShutdownEnds ==
    owner \in {"telling", "joining", "gone"} ~>
        \/ owner = "idle"
        \/ owner = "gone" /\ \A b \in Bot : loop[b] \in {"none", "ended"}

=============================================================================
