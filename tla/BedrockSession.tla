---------------------------- MODULE BedrockSession ----------------------------
(***************************************************************************)
(* A Bedrock session from connect to its report: the protocol adapter      *)
(* (protocol_adapter.rs) and the two loops that drive it,                  *)
(* validate_real_server_for() and run_instant_script() (session.rs), the   *)
(* second inside the reconnect loop of the lite bot (main.rs), whose script *)
(* (ScriptedBot) carries out.                                              *)
(*                                                                         *)
(* The server is external: it may send any packets in any batches.  A      *)
(* packet is its kind.  What is sent can fail, and then ends the session.  *)
(* Movement and gameplay (Gameplay) are here one drive, at the end of a    *)
(* batch, that may show a capability; the status fields that are TRUE from *)
(* the login on (login, keepalive), forms and the diagnostics are left out.*)
(***************************************************************************)
EXTENDS ScriptedBot, FiniteSets

CONSTANTS
    Required,   \* required_duration, in units of time
    Grace,      \* how much longer the validation goes on without success (90 s)
    Versions,   \* protocol versions the lite bot tries
    Driver,     \* loops to look at, of "validate" and "script"
    Batches,    \* bound: the batches the server may send
    MaxKept     \* bound: packets the login handshake leaves to the loop

\* Odd stands for a packet the codec cannot decode, BadEnum for an
\* UpdateSoftEnum that cannot be decoded, BareStart for a StartGame of which
\* only the codec makes sense, Content for the items of an inventory, Window for
\* ContainerOpen, Dead for Respawn.
Kind == {"Status", "Spawned", "Packs", "Stack", "Start", "BareStart", "Latency", "Chat",
         "Content", "Window", "Dead", "BadEnum", "Odd", "Bye"}

ASSUME SessionAssumption ==
    /\ {Required, Versions, MaxKept} \subseteq Nat \ {0} /\ Grace \in Nat
    /\ Driver \subseteq {"validate", "script"}
    /\ Batches \subseteq Seq(Kind) \ {<<>>}

VARIABLES
    driver,     \* the loop that runs
    stage,      \* where it is
    outcome,    \* how it ended
    todo,       \* packets of the batch still to be handled
    pending,    \* typed packets the login handshake has left
    elapsed,    \* time since the loop began
    age,        \* time since StartGame, as status.connected_duration sees it
    spawn, player_spawn, remained,      \* status
    shown,      \* other capabilities of the status, one for each way to see them
    stackDone,  \* resource_stack_done
    movement,   \* there is a MovementValidation
    initSent,   \* movement_init_sent
    hold,       \* post_spawn_decode_hold
    owed,       \* what the server waits for an answer to
    bot,        \* the lite bot: running, asleep before it reconnects, stopped
    again,      \* it reconnects after a session that is over
    version,    \* protocol version it tries, 1 .. Versions
    script      \* the ScriptedBot of its session

statusVars == <<age, spawn, player_spawn, remained, shown>>
loopVars == <<elapsed, stackDone, movement, initSent, hold>>
batchVars == <<todo, pending>>
botVars == <<bot, again, version>>
sessionVars == <<driver, stage, outcome, batchVars, statusVars, loopVars, owed,
                 botVars, script>>

Has(batch, kinds) == \E i \in DOMAIN batch : batch[i] \in kinds
Typed(batch) == [i \in DOMAIN batch |-> [kind |-> batch[i], raw |-> FALSE]]
Raw(batch) == [i \in DOMAIN batch |-> [kind |-> batch[i], raw |-> TRUE]]

Answerable == {"Packs", "Stack", "Latency"}
Asked(batch) == {k \in Answerable : Has(batch, {k})}
Capability == {"chat", "movement"}

Ended == {"Closed", "Failed"}
Limit == IF driver = "validate" THEN Required + Grace ELSE Required

\* Protocol versions to try, one after the other (resolve_protocol_attempts()).
Attempts == 1 .. Versions

\* run_config(): a lite bot is a task of its own.  It loads its session first.
LiteBotInit ==
    /\ bot = IF driver = "script" THEN "running" ELSE "none"
    /\ again \in BOOLEAN /\ (driver = "validate" => ~again)
    /\ version = 1 /\ script = NewScript

Fresh ==
    /\ stage = (IF driver = "script" THEN "Load" ELSE "Connect") /\ outcome = "none"
    /\ todo = <<>> /\ pending = <<>>
    /\ elapsed = 0 /\ age = 0 /\ spawn = FALSE /\ player_spawn = FALSE
    /\ remained = FALSE /\ shown = {} /\ stackDone = FALSE
    /\ movement = FALSE /\ initSent = FALSE /\ hold = FALSE /\ owed = {}

SessionInit ==
    /\ driver \in Driver
    /\ Fresh
    /\ LiteBotInit

----------------------------------------------------------------------------
(* How a session ends.  Fails is an error to the caller, Closes a report. *)

Fails(why) == stage' = "Failed" /\ outcome' = why

Succeeded(isPlayerSpawned, isRemained, capabilities) ==
    spawn /\ isPlayerSpawned /\ isRemained /\ capabilities = Capability

\* Mutant: remained_connected counts as TRUE when the session is cut short.
ClosesEarly(isRemained) ==
    /\ stage' = "Closed"
    /\ outcome' = IF driver = "validate" /\ Succeeded(player_spawn, TRUE, shown)
                  THEN "success" ELSE "report"

\* finalize_status(): the report is a success when no critical capability is
\* missing.
Closes(isRemained) ==
    /\ stage' = "Closed"
    /\ outcome' = IF driver = "validate" /\ Succeeded(player_spawn, isRemained, shown)
                  THEN "success" ELSE "report"

----------------------------------------------------------------------------
(* The login. *)

\* connect(): the RakNet handshake, which waits for its last answer without a
\* timeout (handshake.rs 438).
Connect ==
    /\ stage = "Connect"
    /\ \/ stage' = "Settings" /\ UNCHANGED outcome
       \/ Fails("error")
    /\ UNCHANGED <<driver, batchVars, statusVars, loopVars, owed, botVars, script>>

\* RequestNetworkSettings: the first batch that comes has the settings in it,
\* or the step fails, as it does after 30 seconds; or the connection does.
NetworkSettings ==
    /\ stage = "Settings"
    /\ \/ stage' = "Login" /\ UNCHANGED outcome
       \/ \E why \in {"settings", "error"} : Fails(why)
    /\ UNCHANGED <<driver, batchVars, statusVars, loopVars, owed, botVars, script>>

SendLogin ==
    /\ stage = "Login"
    /\ \/ stage' = "Handshake" /\ UNCHANGED outcome
       \/ Fails("error")
    /\ UNCHANGED <<driver, batchVars, statusVars, loopVars, owed, botVars, script>>

\* The packets that end the wait for the server's handshake, if it sends none.
LoginProgress == {"Status", "Spawned", "Packs", "Stack", "Start", "BareStart"}

\* A batch of the login handshake: all of it is decoded by the codec, and what is
\* neither a refusal nor the handshake is kept for the loop.  Once encrypted, or
\* with a packet of the next step, the loop begins.
LoginBatch(batch, secures) ==
    /\ stage = "Handshake"
    /\ \/ /\ ~Has(batch, {"Odd", "BadEnum", "Bye"})
          /\ Len(pending) + Len(batch) <= MaxKept
          /\ pending' = pending \o batch
          /\ owed' = owed \union (Asked(batch) \ {"Latency"})
          /\ stage' = IF secures \/ Has(pending', LoginProgress) THEN "Head" ELSE stage
          /\ UNCHANGED outcome
       \/ /\ Has(batch, {"Bye"}) /\ ~Has(batch, {"Odd", "BadEnum"})
          /\ Fails("refused") /\ UNCHANGED <<pending, owed>>
       \/ /\ Has(batch, {"Odd", "BadEnum"})
          /\ Fails("error") /\ UNCHANGED <<pending, owed>>
    /\ UNCHANGED <<driver, todo, statusVars, loopVars, botVars, script>>

\* PlayStatus says why the login fails, or nothing is heard for 30 seconds, or the
\* key cannot be derived.
LoginFails ==
    /\ stage = "Handshake"
    /\ \E why \in {"refused", "error"} : Fails(why)
    /\ UNCHANGED <<driver, batchVars, statusVars, loopVars, owed, botVars, script>>

----------------------------------------------------------------------------
(* The head of the loop. *)

\* Mutant: no deadline.
GoesForEver == ~remained

Goes == ~remained /\ elapsed < Limit

LoopEnds ==
    /\ stage = "Head" /\ ~Goes
    /\ Closes(remained)
    /\ UNCHANGED <<driver, batchVars, statusVars, loopVars, owed, botVars, script>>

TakePending ==
    /\ stage = "Head" /\ Goes /\ ~hold /\ pending # <<>>
    /\ todo' = Typed(pending) /\ pending' = <<>>
    /\ stage' = "Packets"
    /\ UNCHANGED <<driver, outcome, statusVars, loopVars, owed, botVars, script>>

Await ==
    /\ stage = "Head" /\ Goes /\ ~hold /\ pending = <<>>
    /\ stage' = "Wait"
    /\ UNCHANGED <<driver, outcome, batchVars, statusVars, loopVars, owed, botVars, script>>

\* While it holds, the loop receives nothing any more: it sleeps and drives.
HoldOn ==
    /\ stage = "Head" /\ Goes /\ hold
    /\ stage' = "Tail"
    /\ UNCHANGED <<driver, outcome, batchVars, statusVars, loopVars, owed, botVars, script>>

TimePasses ==
    /\ \/ stage = "Wait" \/ (stage = "Tail" /\ hold)
       \/ stage = "Packets" /\ driver = "script"         \* the delay of a step
    /\ elapsed < Limit
    /\ elapsed' = elapsed + 1
    /\ age' = IF spawn /\ age < Required THEN age + 1 ELSE age
    /\ UNCHANGED <<driver, stage, outcome, batchVars, spawn, player_spawn, remained,
                   shown, stackDone, movement, initSent, hold, owed, botVars, script>>

----------------------------------------------------------------------------
(* Receiving. *)

\* The latency requests of a batch, which recv_lossy() hands on besides the
\* typed packets.
KeptRaw(batch) ==
    [n \in 1 .. Cardinality({i \in DOMAIN batch : batch[i] = "Latency"}) |->
        [kind |-> "Latency", raw |-> TRUE]]

\* Mutant: only typed packets when the codec does not fail.
LossyTyped(batch) == IF Has(batch, {"Odd"}) THEN Raw(batch) ELSE Typed(batch)

\* recv_lossy(): typed packets; when the codec fails, what the raw bytes show.
Lossy(batch) ==
    IF Has(batch, {"Odd"}) THEN Raw(batch) ELSE Typed(batch) \o KeptRaw(batch)

Progress == {"Status", "Spawned", "Packs", "Stack", "Start", "BareStart", "Bye"}

\* recv_lenient() leaves every packet to the raw bytes.
Lenient == driver = "script" \/ stackDone

ReceiveBatch(batch) ==
    /\ stage = "Wait"
    /\ ~Lenient => ~Has(batch, {"BadEnum"})
    /\ IF ~Lenient /\ Has(batch, {"Odd"}) /\ ~Has(batch, Progress) /\ ~spawn
       THEN Fails("error") /\ UNCHANGED <<todo, owed>>
       ELSE /\ stage' = "Packets"
            /\ todo' = IF Lenient THEN Raw(batch) ELSE Lossy(batch)
            /\ owed' = owed \union Asked(batch)
            /\ UNCHANGED outcome
    /\ UNCHANGED <<driver, pending, statusVars, loopVars, botVars, script>>

\* A batch that cannot be decrypted or taken apart puts a spawned session on
\* hold; any other error after the movement ends it with a report.
AfterError(undecodable) ==
    \/ /\ spawn /\ undecodable
       /\ hold' = TRUE /\ stage' = "Head" /\ remained' = (age >= Required)
       /\ UNCHANGED outcome
    \/ /\ spawn /\ ~undecodable /\ "movement" \in shown
       /\ remained' = (age >= Required) /\ Closes(remained') /\ UNCHANGED hold
    \/ /\ ~spawn \/ (~undecodable /\ "movement" \notin shown)
       /\ Fails("error") /\ UNCHANGED <<hold, remained>>

ReceiveFails(undecodable) ==
    /\ stage = "Wait" /\ driver = "validate"
    /\ AfterError(undecodable)
    /\ UNCHANGED <<driver, batchVars, age, spawn, player_spawn, shown, elapsed,
                   stackDone, movement, initSent, owed, botVars, script>>

\* Nothing has come: an error before the spawn, a turn of the loop after it.
ReceiveTimesOut ==
    /\ stage = "Wait" /\ driver = "validate"
    /\ IF spawn THEN stage' = "Tail" /\ UNCHANGED outcome ELSE Fails("error")
    /\ UNCHANGED <<driver, batchVars, statusVars, loopVars, owed, botVars, script>>

\* The loop of a script goes on when nothing comes, and ends with any error.
ScriptReceives ==
    /\ stage = "Wait" /\ driver = "script"
    /\ \/ stage' = "Tail" /\ UNCHANGED outcome
       \/ Fails("error")
    /\ UNCHANGED <<driver, batchVars, statusVars, loopVars, owed, botVars, script>>

----------------------------------------------------------------------------
(* The packets of a batch. *)

Head1 == todo[1]
Turn(kinds) == stage = "Packets" /\ todo # <<>> /\ Head1.kind \in kinds

\* Mutant: past the last packet, too.
PastTheEnd == todo' = Tail(todo) /\ stage' = "Packets"

\* Past the packet: to the next one, or to the end of the batch.
Past == todo' = Tail(todo) /\ stage' = IF Len(todo) = 1 THEN "Tail" ELSE "Packets"

Validating(kinds, raw) == driver = "validate" /\ Turn(kinds) /\ Head1.raw = raw
Scripting(kinds) == driver = "script" /\ Turn(kinds) /\ ~Head1.raw

\* Does the loop handle this packet?  A script does the typed ones.
Heard == driver = "validate" \/ ~Head1.raw

\* What the loop of a script tells the ScriptedBot of a typed packet.
ScriptEvent(kind) ==
    CASE kind = "Spawned" /\ movement -> OnSpawn(script)
      [] kind \in {"Start", "BareStart"} -> OnSpawn(script)
      [] kind = "Window" -> OnInventoryGui(script)
      [] OTHER -> script

\* send_movement_initialization(): a send that takes two seconds counts.
InitPlayer(ready) == initSent' = (initSent \/ ready)

SendFails ==
    /\ \/ Turn(Answerable \union {"Spawned", "Status", "Start", "BareStart"}) /\ Heard
       \/ Scripting({"Window"}) /\ script # OnInventoryGui(script)
       \/ Scripting({"Dead"}) /\ DeathSteps # {}
    /\ Fails("error")
    /\ UNCHANGED <<driver, batchVars, statusVars, loopVars, owed, botVars, script>>

Ignored ==
    /\ \/ Turn({"Odd", "BadEnum"})
       \/ Turn(Kind \ {"Content"}) /\ ~Heard
       \/ Turn({"Content"}) /\ (driver = "validate" \/ ~Head1.raw)
       \/ Turn({"Window", "Dead"}) /\ driver = "validate"
       \/ Turn({"Latency"}) /\ driver = "validate" /\ ~Head1.raw
       \/ Turn({"Start", "BareStart"}) /\ Heard /\ Head1.raw /\ spawn
    /\ Past
    /\ UNCHANGED <<driver, outcome, pending, statusVars, loopVars, owed, botVars, script>>

StatusKind == {"Status", "Spawned"}

\* PlayStatus: a typed one, a raw one, and one that a script is told of.
StatusSeen(ready) ==
    /\ Past
    /\ player_spawn' = (player_spawn \/ Head1.kind = "Spawned")
    /\ InitPlayer(ready /\ movement)
    /\ UNCHANGED <<driver, outcome, pending, age, spawn, remained, shown,
                   elapsed, stackDone, movement, hold, owed, botVars>>

TypedStatus ==
    /\ Validating(StatusKind, FALSE)
    /\ StatusSeen(player_spawn \/ Head1.kind = "Spawned") /\ UNCHANGED script

RawStatus ==
    /\ Validating(StatusKind, TRUE)
    /\ StatusSeen(Head1.kind = "Spawned") /\ UNCHANGED script

ScriptStatus ==
    /\ Scripting(StatusKind)
    /\ StatusSeen(Head1.kind = "Spawned") /\ script' = ScriptEvent(Head1.kind)

PacksAnswered ==
    /\ Turn({"Packs"}) /\ Heard
    /\ Past
    /\ owed' = owed \ {"Packs"}
    /\ UNCHANGED <<driver, outcome, pending, statusVars, loopVars, botVars, script>>

StackAnswered ==
    /\ Turn({"Stack"}) /\ Heard
    /\ Past
    /\ owed' = owed \ {"Stack"} /\ stackDone' = TRUE
    /\ UNCHANGED <<driver, outcome, pending, statusVars, elapsed, movement,
                   initSent, hold, botVars, script>>

LatencyAnswered ==
    /\ Turn({"Latency"}) /\ (Head1.raw = (driver = "validate"))
    /\ Past
    /\ owed' = owed \ {"Latency"}
    /\ UNCHANGED <<driver, outcome, pending, statusVars, loopVars, botVars, script>>

\* A StartGame begins the session, also when it is not the first.
SessionBegins(moves) ==
    /\ Past
    /\ spawn' = TRUE /\ age' = 0 /\ stackDone' = TRUE
    /\ movement' = (movement \/ moves)
    /\ UNCHANGED <<driver, outcome, pending, player_spawn, remained, shown,
                   elapsed, hold, owed, botVars>>

StartKind == {"Start", "BareStart"}

\* Mutant: the player is initialised at once.
TypedStartAtOnce ==
    /\ Validating(StartKind, FALSE)
    /\ SessionBegins(TRUE) /\ InitPlayer(TRUE) /\ UNCHANGED script

\* A validation initialises the player only when PlayerSpawn has come.
TypedStart ==
    /\ Validating(StartKind, FALSE)
    /\ SessionBegins(TRUE) /\ InitPlayer(player_spawn) /\ UNCHANGED script

\* Of raw ones the first counts; without a position there is no movement.
RawStart ==
    /\ Validating(StartKind, TRUE) /\ ~spawn
    /\ SessionBegins(Head1.kind = "Start")
    /\ InitPlayer(player_spawn /\ Head1.kind = "Start") /\ UNCHANGED script

ScriptStart ==
    /\ Scripting(StartKind)
    /\ SessionBegins(TRUE) /\ InitPlayer(TRUE) /\ script' = ScriptEvent(Head1.kind)

\* Other packets a script is told of, the items of an inventory among them.
ScriptTold ==
    /\ \/ /\ Scripting({"Window", "Dead"})
          /\ script' = ScriptEvent(Head1.kind)
       \/ /\ driver = "script" /\ Turn({"Content"}) /\ Head1.raw
          /\ script' = OnInventoryContent(script)
    /\ Past
    /\ UNCHANGED <<driver, outcome, pending, statusVars, loopVars, owed, botVars>>

CapabilitySeen ==
    /\ Turn({"Chat"}) /\ Heard
    /\ Past
    /\ shown' = shown \union {"chat"}
    /\ UNCHANGED <<driver, outcome, pending, age, spawn, player_spawn, remained,
                   loopVars, owed, botVars, script>>

Disconnected ==
    /\ Turn({"Bye"}) /\ Heard
    /\ Closes(remained)
    /\ UNCHANGED <<driver, batchVars, statusVars, loopVars, owed, botVars, script>>

\* send_movement_frame(): a frame the server may accept, an error or a timeout.
DriveSends ==
    /\ initSent /\ movement
    /\ \/ shown' = shown \union {"movement"} /\ stage' = "Head" /\ UNCHANGED outcome
       \/ Fails("error") /\ UNCHANGED shown

\* The end of a turn: the time is taken, and the movement driven.
TurnEnds ==
    /\ stage = "Tail"
    /\ remained' = (driver = "validate" /\ spawn /\ age >= Required)
    /\ \/ stage' = "Head" /\ UNCHANGED <<shown, outcome>>
       \/ DriveSends
    /\ UNCHANGED <<driver, batchVars, age, spawn, player_spawn, loopVars, owed, botVars, script>>

----------------------------------------------------------------------------
(* The lite bot around run_instant_script(): another version after a       *)
(* failure to negotiate, no more after a refusal, without its session file *)
(* or when the versions are exhausted, and otherwise a new connection five *)
(* seconds later, if it is one that reconnects.  (again is reconnect of a  *)
(* bot without a duration; one with a duration ends with its session.)     *)

Restart ==
    /\ stage' = "Load" /\ outcome' = "none"
    /\ todo' = <<>> /\ pending' = <<>>
    /\ elapsed' = 0 /\ age' = 0 /\ spawn' = FALSE /\ player_spawn' = FALSE
    /\ remained' = FALSE /\ shown' = {} /\ stackDone' = FALSE
    /\ movement' = FALSE /\ initSent' = FALSE /\ hold' = FALSE /\ owed' = {}
    /\ script' = NewScript
    /\ UNCHANGED <<driver, again>>

NextVersion ==
    /\ bot = "running" /\ stage = "Failed" /\ outcome = "settings" /\ version + 1 \in Attempts
    /\ version' = version + 1 /\ UNCHANGED bot
    /\ Restart

UnchangedSession ==
    UNCHANGED <<driver, stage, outcome, batchVars, statusVars, loopVars, owed, again,
                script>>

\* load_bot_session(), the session file or an offline session, and
\* Database::connect().  What cannot be read stops the bot; without the database
\* one that has reconnect set sleeps, also with a duration.
LoadSession ==
    /\ stage = "Load"
    /\ \/ stage' = "Connect" /\ UNCHANGED <<outcome, bot>>
       \/ Fails("unloaded") /\ bot' \in {"stopped", "asleep"}
    /\ UNCHANGED <<driver, batchVars, statusVars, loopVars, owed, again, version, script>>

BotStops ==
    /\ bot = "running" /\ stage \in Ended
    /\ outcome = "settings" => version + 1 \notin Attempts
    /\ \/ outcome = "refused" \/ ~again
       \/ outcome = "settings" /\ Versions > 1
    /\ bot' = "stopped" /\ UNCHANGED version
    /\ UnchangedSession

\* Mutant: a refusal, or the failure of the last version, is an error like any
\* other.
BotWaitsAnyway ==
    /\ bot = "running" /\ again /\ stage \in Ended
    /\ outcome = "settings" => version + 1 \notin Attempts
    /\ bot' = "asleep" /\ UNCHANGED version
    /\ UnchangedSession

BotWaits ==
    /\ bot = "running" /\ again /\ stage \in Ended
    /\ outcome # "refused"
    /\ outcome = "settings" => Versions = 1
    /\ bot' = "asleep" /\ UNCHANGED version
    /\ UnchangedSession

Reconnect ==
    /\ bot = "asleep"
    /\ bot' = "running" /\ version' = 1
    /\ Restart

----------------------------------------------------------------------------
Login == LoadSession \/ NetworkSettings \/ SendLogin \/ LoginFails
Loop == LoopEnds \/ TakePending \/ Await \/ HoldOn \/ ReceiveTimesOut \/ ScriptReceives \/ TurnEnds
Packet ==
    \/ SendFails \/ Ignored \/ TypedStatus \/ RawStatus \/ ScriptStatus
    \/ PacksAnswered \/ StackAnswered \/ LatencyAnswered
    \/ TypedStart \/ RawStart \/ ScriptStart \/ ScriptTold
    \/ CapabilitySeen \/ Disconnected
LiteBot == NextVersion \/ BotStops \/ BotWaits \/ Reconnect

SessionNext ==
    \/ Connect \/ Login \/ Loop \/ Packet \/ LiteBot \/ TimePasses
    \/ \E batch \in Batches :
          \/ ReceiveBatch(batch)
          \/ \E secures \in BOOLEAN : LoginBatch(batch, secures)
    \/ \E undecodable \in BOOLEAN : ReceiveFails(undecodable)

SessionSpec == SessionInit /\ [][SessionNext]_sessionVars

\* The steps of the login and the waits of the loop have timeouts, and time
\* passes in them.  Connect has none: nothing is assumed of it.
SessionFairSpec ==
    /\ SessionSpec
    /\ WF_sessionVars(Login) /\ WF_sessionVars(Loop) /\ WF_sessionVars(Packet)
    /\ WF_sessionVars(LiteBot) /\ SF_sessionVars(TimePasses)

----------------------------------------------------------------------------
(* Properties. *)

\* The variables have values of their kinds.
SessionTypeOK ==
    /\ driver \in Driver /\ bot \in {"none", "running", "asleep", "stopped"}
    /\ again \in BOOLEAN /\ version \in Attempts /\ ScriptTypeOK(script)
    /\ stage \in {"Load", "Connect", "Settings", "Login", "Handshake", "Head", "Wait", "Packets",
                  "Tail"} \union Ended
    /\ outcome \in {"none", "settings", "refused", "error", "unloaded",
                   "report", "success"}
    /\ \A i \in DOMAIN todo : todo[i].kind \in Kind /\ todo[i].raw \in BOOLEAN
    /\ \A i \in DOMAIN pending : pending[i] \in Kind
    /\ elapsed \in 0 .. Required + Grace /\ age \in 0 .. Required
    /\ {spawn, player_spawn, remained, stackDone, movement, initSent, hold}
            \subseteq BOOLEAN
    /\ shown \subseteq Capability /\ owed \subseteq Answerable
    /\ stage = "Packets" => todo # <<>>

\* Whether the codec could decode the batch or not, whether the packet came with
\* the login, before or after the resource packs: when the loop comes round, every
\* resource pack packet has been answered, and every latency request that came
\* after the login (session.rs 3277-3307, 3778-3808, 3941-3962).
AskedIsAnswered == driver = "validate" /\ stage \in {"Head", "Wait"} /\ pending = <<>> =>
                       owed = {}

\* The same of either loop, which the one of the lite bot does not do (the
\* README says why).
AnsweredByAll == stage \in {"Head", "Wait"} /\ pending = <<>> => owed = {}

\* On all four ways to it, a validation initialises the player only after both
\* StartGame and PlayerSpawn, and drives the movement of that StartGame
\* (session.rs 3236-3275, 3382-3404, 3745-3776, 3854-3888).
InitAfterSpawn ==
    driver = "validate" /\ initSent => spawn /\ player_spawn /\ movement

\* A report of success is one of a session that has lasted, and has moved, also
\* when a disconnect or an error has ended it (session.rs 5622-5656).
SuccessIsEarned == outcome = "success" => age >= Required /\ initSent /\ shown = Capability

\* Whatever the server sends or leaves out once RakNet is connected, a session
\* comes to an end: every step of the login and every wait of the loop has its
\* timeout.  (connect() itself may wait for ever, and is no part of it.)
SessionEnds == stage = "Settings" ~> stage \in Ended

\* The last of several configured versions failed to negotiate.
Exhausted == outcome = "settings" /\ Versions > 1 /\ version + 1 \notin Attempts

\* A lite bot that is refused, or has tried every version it is configured with,
\* stops for good, also one that reconnects (LITE_BOT_INSTALL.md 143, main.rs
\* 744-770).
RefusedBotStops ==
    bot = "running" /\ (outcome = "refused" \/ Exhausted) ~> [](bot = "stopped")
=============================================================================
