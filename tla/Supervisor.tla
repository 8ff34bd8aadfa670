------------------------------ MODULE Supervisor ------------------------------
(***************************************************************************)
(* The supervisor of the engine's bots (bot/supervisor.rs), looked at for  *)
(* one bot: the start and stop requests of the API, the tasks they spawn   *)
(* and abort, and the status of the bot's row of the database.             *)
(*                                                                         *)
(* The map of tasks is guarded by a lock, which a request holds only for a *)
(* look-up, an insertion or a removal with the abort of what it removed.   *)
(* What a task does against the server is one reachability ping            *)
(* (native_client.rs, native.rs): it reads the account and changes nothing *)
(* of it.                                                                  *)
(***************************************************************************)
EXTENDS FiniteSets

CONSTANTS
    BotRequest, \* requests at work at once
    Reconnect,  \* values of the row's reconnect_enabled
    Task,       \* bound: tasks that exist at once
    NoTask      \* not a task

ASSUME SupervisorAssumption ==
    /\ IsFiniteSet(BotRequest) /\ Reconnect \subseteq BOOLEAN /\ IsFiniteSet(Task)
    /\ NoTask \notin Task

VARIABLES
    botRequest,  \* what each request does next, and the task it has spawned
    reconnect,   \* reconnect_enabled of the row, read at the start
    task,        \* where each task is
    registered,  \* the task in the map
    status,      \* status of the row
    late,        \* writes of aborted tasks the database has still to make
    botOverlap,  \* two requests have been at work at once
    disturbed    \* a request was interrupted, or a write refused or made late

supervisorVars == <<botRequest, reconnect, task, registered, status, late, botOverlap, disturbed>>

NoRequest == [at |-> "idle", spawned |-> NoTask]

SupervisorInit ==
    /\ botRequest = [r \in BotRequest |-> NoRequest]
    /\ reconnect \in Reconnect
    /\ task = [t \in Task |-> "none"] /\ registered = NoTask
    /\ status = "stopped" /\ late = {}
    /\ botOverlap = FALSE /\ disturbed = FALSE

\* A task that has been spawned and neither ended nor been aborted.
Live == {t \in Task : task[t] \notin {"none", "ended"}}

BotAt(r, step) == botRequest[r].at = step
BotWorking == {r \in BotRequest : ~BotAt(r, "idle")}

Takes(r, step) == botRequest' = [botRequest EXCEPT ![r].at = step]
Answers(r) == botRequest' = [botRequest EXCEPT ![r] = NoRequest]

-----------------------------------------------------------------------------
(* start(). *)

\* With a task in the map nothing is done, whether or not that task has ended.
Start(r) ==
    /\ BotAt(r, "idle")
    /\ IF registered # NoTask
       THEN UNCHANGED <<botRequest, botOverlap>>
       ELSE Takes(r, "load") /\ botOverlap' = (botOverlap \/ BotWorking # {})
    /\ UNCHANGED <<reconnect, task, registered, status, late, disturbed>>

\* get_bot_with_server() and the status.
LoadBot(r) ==
    /\ BotAt(r, "load")
    /\ status' = "starting" /\ Takes(r, "spawn")
    /\ UNCHANGED <<reconnect, task, registered, late, botOverlap, disturbed>>

Spawn(r) ==
    /\ BotAt(r, "spawn")
    /\ \E t \in Task :
          /\ task[t] = "none"
          /\ task' = [task EXCEPT ![t] = "authenticating"]
          /\ botRequest' = [botRequest EXCEPT ![r] = [at |-> "insert", spawned |-> t]]
    /\ UNCHANGED <<reconnect, registered, status, late, botOverlap, disturbed>>

\* The map forgets a task inserted in between, which goes on.
Insert(r) ==
    /\ BotAt(r, "insert")
    /\ registered' = botRequest[r].spawned /\ Answers(r)
    /\ UNCHANGED <<reconnect, task, status, late, botOverlap, disturbed>>

-----------------------------------------------------------------------------
(* stop(). *)

\* Writes of the row a task awaits.
Writes == [authenticating |-> "authenticating", connecting |-> "connecting",
           joining |-> "connected", leaving |-> "error"]

\* Mutant: the task is taken out of the map but not aborted.
StopKeepsTask(r) ==
    /\ BotAt(r, "idle")
    /\ registered' = NoTask
    /\ Takes(r, "left") /\ botOverlap' = (botOverlap \/ BotWorking # {})
    /\ UNCHANGED <<reconnect, task, status, late, disturbed>>

\* The task in the map is aborted: it stops at the await it has reached, and
\* a write it awaits may still be made.
Stop(r) ==
    /\ BotAt(r, "idle")
    /\ registered' = NoTask
    /\ task' = [t \in Task |-> IF t = registered THEN "none" ELSE task[t]]
    /\ \/ UNCHANGED late
       \/ /\ registered # NoTask /\ task[registered] \in DOMAIN Writes
          /\ late' = late \cup {Writes[task[registered]]}
    /\ Takes(r, "left") /\ botOverlap' = (botOverlap \/ BotWorking # {})
    /\ UNCHANGED <<reconnect, status, disturbed>>

MarkStopped(r) ==
    /\ BotAt(r, "left")
    /\ status' = "stopped" /\ Answers(r)
    /\ UNCHANGED <<reconnect, task, registered, late, botOverlap, disturbed>>

-----------------------------------------------------------------------------
(* A task. *)

Moves(t, from, to) == task[t] = from /\ task' = [task EXCEPT ![t] = to]

taskFrame == <<botRequest, reconnect, registered, late, botOverlap, disturbed>>

\* A write of the row; if the database refuses it the round fails, and what
\* mark_bot_left() answers is ignored.
Update(t, from, to) ==
    /\ \/ Moves(t, from, to) /\ status' = Writes[from]
       \/ Moves(t, from, "leaving") /\ UNCHANGED status
    /\ UNCHANGED taskFrame

Authenticating(t) == Update(t, "authenticating", "connecting")
Connecting(t) == Update(t, "connecting", "pinging")
Joining(t) == Update(t, "joining", "resting")

\* ping_addr(): the first datagram that arrives within the timeout decides.
Ping(t) ==
    /\ Moves(t, "pinging", "joining") \/ Moves(t, "pinging", "leaving")
    /\ UNCHANGED <<status, taskFrame>>

\* The entry of the log is written; after 30 s the next round begins.
Rest(t) ==
    /\ Moves(t, "resting", "authenticating") \/ Moves(t, "resting", "leaving")
    /\ UNCHANGED <<status, taskFrame>>

\* mark_bot_left(): the task ends, or tries again after 10 s.
Leave(t) ==
    /\ Moves(t, "leaving", IF reconnect THEN "waiting" ELSE "ended")
    /\ \/ status' = "error" /\ UNCHANGED disturbed
       \/ disturbed' = TRUE /\ UNCHANGED status
    /\ UNCHANGED <<botRequest, reconnect, registered, late, botOverlap>>

Retry(t) ==
    /\ Moves(t, "waiting", "authenticating")
    /\ UNCHANGED <<status, taskFrame>>

-----------------------------------------------------------------------------
(* What goes on around them. *)

\* A write of an aborted task is made.
LateWrite ==
    /\ \E value \in late : status' = value /\ late' = late \ {value}
    /\ disturbed' = TRUE
    /\ UNCHANGED <<botRequest, reconnect, task, registered, botOverlap>>

\* The client of a request goes away, or the database refuses a statement.
InterruptBot(r) ==
    /\ r \in BotWorking /\ Answers(r) /\ disturbed' = TRUE
    /\ UNCHANGED <<reconnect, task, registered, status, late, botOverlap>>

\* The engine ends and starts again: the tasks are gone, the row stays.
Restart ==
    /\ \/ Live # {} \/ BotWorking # {} \/ late # {} \/ registered # NoTask
    /\ botRequest' = [r \in BotRequest |-> NoRequest]
    /\ task' = [t \in Task |-> "none"]
    /\ registered' = NoTask /\ late' = {}
    /\ disturbed' = TRUE
    /\ UNCHANGED <<reconnect, status, botOverlap>>

TaskStep(t) ==
    \/ Authenticating(t) \/ Connecting(t) \/ Ping(t) \/ Joining(t) \/ Rest(t) \/ Leave(t)
    \/ Retry(t)

BotRequestStep(r) == LoadBot(r) \/ Spawn(r) \/ Insert(r) \/ MarkStopped(r)

SupervisorNext ==
    \/ \E r \in BotRequest : Start(r) \/ Stop(r) \/ BotRequestStep(r) \/ InterruptBot(r)
    \/ \E t \in Task : TaskStep(t)
    \/ LateWrite \/ Restart

SupervisorSpec == SupervisorInit /\ [][SupervisorNext]_supervisorVars

-----------------------------------------------------------------------------
(* Properties. *)

\* The values of the variables.
SupervisorTypeOK ==
    /\ botRequest \in [BotRequest -> [at : {"idle", "load", "spawn", "insert", "left"},
                                      spawned : Task \cup {NoTask}]]
    /\ task \in [Task -> {"none", "authenticating", "connecting", "pinging", "joining", "resting",
                          "leaving", "waiting", "ended"}]
    /\ registered \in Task \cup {NoTask}
    /\ status \in {"stopped", "starting", "authenticating", "connecting", "connected", "error"}
    /\ {reconnect, botOverlap, disturbed} \subseteq BOOLEAN

\* While requests come one at a time and nothing is interrupted, the bot has
\* at most one task, the one in the map; and between requests the row shows
\* 'stopped' exactly when there is no task in the map.  A task in the map that
\* has ended, so that start() does nothing, is one whose row has reconnecting
\* switched off (start() and stop() and the loop they share the row with).
OneTask ==
    ~botOverlap /\ ~disturbed =>
        /\ \A t, u \in Live : t = u
        /\ BotWorking = {} => /\ Live \subseteq {registered}
                              /\ (status = "stopped") = (registered = NoTask)
                              /\ registered \notin Live \cup {NoTask} => ~reconnect

\* At most one task of a bot is at work, and the row shows 'stopped' when there
\* is none, whatever the requests do.  The code does not keep this: start()
\* looks at the map and inserts under two locks (bot/supervisor.rs:31), and a
\* write of an aborted task may follow the 'stopped' of stop() (128).  No run
\* checks it.
OneTaskAlways ==
    /\ \A t, u \in Live : t = u
    /\ BotWorking = {} /\ Live = {} /\ registered = NoTask => status = "stopped"

=============================================================================
