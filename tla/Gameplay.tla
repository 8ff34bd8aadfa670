------------------------------ MODULE Gameplay ------------------------------
(***************************************************************************)
(* The gameplay validation of the engine's Bedrock session                 *)
(* (engine/src/bedrock/session.rs): the struct MovementValidation, the     *)
(* methods that record what the server reports and drive_movement_-        *)
(* validation(), which is called after every packet and at every receive   *)
(* timeout and takes the bot through movement, random teleport (RTP), the  *)
(* breaking of a block, the pick-up of its drop and the placing of it.     *)
(*                                                                         *)
(* The struct is one record, m, and a method with &mut self is an operator *)
(* from the record to the record (or to the set of the records it may      *)
(* leave, where an elapsed time or the nearest of several equals decides). *)
(* A block target names a position too: the place above it.  Distances are *)
(* the classes the code compares with: 0 in reach (4.5), 1 up to 32, 2 up  *)
(* to 64, 3 up to 128 and 4 beyond.                                        *)
(***************************************************************************)
EXTENDS Naturals, FiniteSets

CONSTANTS
  Block,        \* block targets, and the positions above them
  Hub,          \* the block below the position of StartGame, near (0, 0)
  Dist,         \* Dist[p][b]: the class of the distance of b from position p
  Runtime,      \* runtime ids of solid blocks
  Droppable,    \* those accepted as "normal placeable drops"
  Item,         \* runtime ids of item entities
  ItemPlace,    \* ItemPlace[i]: where the item lies
  Priority,     \* priorities of the RTP menu items the server shows
  MaxClicks,    \* RTP_MENU_MAX_CLICK_ATTEMPTS
  MaxCommands,  \* RTP_MAX_COMMAND_ATTEMPTS
  MaxBreaks,    \* GAMEPLAY_MAX_BREAK_TARGET_ATTEMPTS
  ClickMenu,    \* should_click_rtp_menu()
  MaxInputs     \* bound: packets of the server that say something

\* rtp_menu_item_priority(): which place an item teleports to, or only selects
MenuPriority == {10, 20, 40, 80, 90, 100, 110, 120}

ASSUME GameplayAssumption ==
  /\ Hub \in Block /\ Droppable \subseteq Runtime
  /\ Dist \in [Block -> [Block -> 0 .. 4]]
  /\ \A b \in Block : Dist[b][b] = 0
  /\ ItemPlace \in [Item -> Block]
  /\ Priority \subseteq MenuPriority /\ MaxInputs \in Nat
  /\ {MaxClicks, MaxCommands, MaxBreaks} \subseteq Nat \ {0}
  /\ ClickMenu \in BOOLEAN

None == "none"          \* Option::None
Air == "air"            \* OBSERVED_AIR_RUNTIME_ID
Marker == "marker"      \* OBSERVED_CHEST_RUNTIME_ID

ASSUME NamesAssumption ==
  {None, Air, Marker} \cap (Block \cup Runtime \cup Item) = {}

\* rtp_menu_item: its priority, and after how many /rtp it was reported
MenuItem == [after : 0 .. MaxCommands, prio : Priority \cup {0, 220}]
NoMenu == [after |-> 0, prio |-> 0]

VARIABLES
  m,       \* MovementValidation, with the CapabilityStatus flags it feeds
  due,     \* a packet was handled and the drive that follows it is due
  inputs   \* packets so far

gvars == <<m, due, inputs>>

-----------------------------------------------------------------------------
(* The observed blocks and the choice of a target *)

Current(s) == IF s.serverPos = None THEN s.pos ELSE s.serverPos
\* Mutant: a kind of block that was given up is tried elsewhere.
AllowedAgain(s, b) == b \notin s.rejT

Allowed(s, b) == b \notin s.rejT /\ (s.seen[b] = None \/ s.seen[b] \notin s.rejR)

AllowedDrop(s, b) == Allowed(s, b) /\ s.seen[b] \in Droppable

Within(s, drop, limit) ==
  {b \in Block : /\ s.seen[b] # None
                 /\ IF drop THEN AllowedDrop(s, b) ELSE Allowed(s, b)
                 /\ Dist[s.pos][b] <= limit}

Nearest(s, drop, limit) ==
  {b \in Within(s, drop, limit) :
     \A c \in Within(s, drop, limit) : Dist[s.pos][b] <= Dist[s.pos][c]}

Sampled(s) == Within(s, TRUE, 0) # {}
Approachable(s) == Within(s, TRUE, 1) # {}
Walkable(s) == Within(s, TRUE, 3) # {}

\* fallback_break_target(): what lies around the feet, seen or not
Fallback(s) == {b \in Block : Dist[s.pos][b] = 0 /\ Allowed(s, b)}

Remember(s, b, rt) ==
  CASE rt = Air -> [s EXCEPT !.seen[b] = None]
    [] rt = Marker -> s
    [] OTHER -> [s EXCEPT !.seen[b] = rt]

\* ensure_gameplay_targets()
EnsureTargets(s) ==
  LET drop == ~s.held
      near == Nearest(s, drop, 0)
      cand == {b \in {s.candidate} \ {None} :
                 /\ IF drop THEN AllowedDrop(s, b) ELSE Allowed(s, b)
                 /\ Dist[s.pos][b] = 0}
      pick == IF near # {} THEN near
              ELSE IF cand # {} THEN cand
              ELSE IF drop THEN {}
              ELSE IF Fallback(s) # {} THEN Fallback(s)
              ELSE {b \in Block : Dist[s.pos][b] = 0}            \* forward_guess
  IN IF s.target # None THEN {s}
     ELSE IF pick # {}
     THEN {[s EXCEPT !.target = b, !.targetRt = s.seen[b]] : b \in pick}
     ELSE {[s EXCEPT !.terminal = @ \/ ~Walkable(s)]}

-----------------------------------------------------------------------------
(* Resets *)
\* Mutant: the probe is not taken back with its target.
ClearActionKeepsProbe(s) ==
  [s EXCEPT !.target = None, !.targetRt = None, !.breaking = FALSE,
            !.stop = FALSE, !.confirmed = FALSE, !.breakFailed = FALSE,
            !.placeSent = FALSE, !.pickup = None, !.prebreak = FALSE,
            !.pickupFailed = FALSE, !.item = None, !.items = {}, !.rejI = {}]

\* Mutant: the start of the pick-up is kept.
ClearActionKeepsPickup(s) ==
  [s EXCEPT !.target = None, !.targetRt = None, !.breaking = FALSE,
            !.stop = FALSE, !.confirmed = FALSE, !.breakFailed = FALSE,
            !.placeSent = FALSE, !.prebreak = FALSE,
            !.pickupFailed = FALSE, !.item = None, !.items = {}, !.rejI = {},
            !.probe = FALSE]

\* What every retry forgets of the break, the pick-up and the placing.
ClearAction(s) ==
  [s EXCEPT !.target = None, !.targetRt = None, !.breaking = FALSE,
            !.stop = FALSE, !.confirmed = FALSE, !.breakFailed = FALSE,
            !.placeSent = FALSE, !.pickup = None, !.prebreak = FALSE,
            !.pickupFailed = FALSE, !.item = None, !.items = {}, !.rejI = {},
            !.probe = FALSE]

\* reset_for_rtp_retry_after_target_failure(): rtp_menu_item and the rejected
\* runtime ids are kept.
CanRetryRtp(s) ==
  /\ s.cmdSent \/ s.clicked \/ s.waitDone
  /\ s.commands < MaxCommands

ResetForRtpRetry(s) ==
  [ClearAction(s) EXCEPT
     !.inventoryProbe = FALSE, !.cmdSent = FALSE, !.clicked = FALSE,
     !.clicks = 0, !.hint = FALSE, !.marker = FALSE, !.terrain = FALSE,
     !.terrainFailed = FALSE, !.waitDone = FALSE, !.terminal = FALSE,
     !.held = FALSE, !.equipped = FALSE, !.rejT = {}, !.attempts = 0,
     !.candidate = None, !.seen = [b \in Block |-> None]]

RetryRtpOrFail(s) ==
  IF CanRetryRtp(s) THEN ResetForRtpRetry(s) ELSE [s EXCEPT !.terminal = TRUE]

\* The part prepare_next_break_target_after_*_failure() share: the target and
\* its kind are rejected and the attempt is counted.
RejectTarget(s) ==
  LET b == s.target
      rt == IF s.targetRt # None THEN s.targetRt ELSE s.seen[b]
  IN [s EXCEPT !.rejT = @ \cup {b},
               !.rejR = @ \cup ({rt} \ {None}),
               !.seen[b] = None,
               !.candidate = IF @ = b THEN None ELSE @,
               !.attempts = @ + 1]

NextAfterPickupFailure(s) ==
  LET r == RejectTarget(s)
  IN IF s.target = None THEN s
     ELSE IF r.attempts >= MaxBreaks THEN [r EXCEPT !.terminal = TRUE]
     ELSE IF ~Walkable(r) THEN RetryRtpOrFail(r)
     ELSE [ClearAction(r) EXCEPT !.terminal = FALSE, !.held = FALSE, !.equipped = FALSE]

NextAfterBreakFailure(s) ==
  LET r == RejectTarget(s)
      more == IF ~r.held THEN Walkable(r)
              ELSE Within(r, FALSE, 3) # {} \/ Fallback(r) # {}
  IN IF s.target = None THEN [s EXCEPT !.terminal = TRUE]
     ELSE IF r.attempts >= MaxBreaks THEN [r EXCEPT !.terminal = TRUE]
     ELSE IF ~more THEN RetryRtpOrFail(r)
     ELSE ClearAction(r)

\* select_observed_item_entity()
SelectItem(s, from) ==
  LET open == s.items \ s.rejI
  IN IF open = {} THEN None
     ELSE CHOOSE i \in open :
            \A j \in open : Dist[from][ItemPlace[i]] <= Dist[from][ItemPlace[j]]
\* Mutant: the first item that cannot be had ends the pick-up.
NextItemNever(s) ==
  [s EXCEPT !.rejI = @ \cup {s.item}, !.items = @ \ {s.item},
            !.item = None, !.terminal = TRUE]
\* Mutant: the item that could not be had is chosen again.
NextItemAgain(s) ==
  [s EXCEPT !.pickup = None, !.pickupFailed = FALSE, !.terminal = FALSE]

\* prepare_next_item_entity_after_pickup_failure()
NextItem(s) ==
  LET r == [s EXCEPT !.rejI = @ \cup {s.item}, !.items = @ \ {s.item}]
      next == SelectItem(r, r.pos)
  IN IF s.item = None THEN [s EXCEPT !.terminal = TRUE]
     ELSE IF next = None THEN [r EXCEPT !.item = None, !.terminal = TRUE]
     ELSE [r EXCEPT !.item = next, !.pickup = None,
                    !.pickupFailed = FALSE, !.terminal = FALSE]

-----------------------------------------------------------------------------
(* What the server reports *)

\* can_accept_late_rtp_position_hint() and reopen_rtp_for_late_position_hint()
Idle(s) == s.target = None /\ ~s.breaking /\ s.pickup = None /\ ~s.confirmed
           /\ ~s.placeSent
\* Mutant: a late hint is taken while the bot is at work.
CanAcceptLateBusy(s) == s.cmdSent /\ s.clicked /\ ~s.terrain

CanAcceptLate(s) == s.cmdSent /\ s.clicked /\ ~s.terrain /\ Idle(s)

Reopen(s) == [s EXCEPT !.waitDone = FALSE, !.inventoryProbe = FALSE,
                       !.probe = FALSE, !.terminal = FALSE,
                       !.terrainFailed = FALSE]

ReopenIfLate(s) ==
  IF (s.waitDone \/ s.probe) /\ CanAcceptLate(s) THEN Reopen(s) ELSE s

MoveTo(s, p) == [s EXCEPT !.serverPos = p, !.pos = p, !.placeholder = (p = Hub)]

\* A position hint that is believed: the bot is there from now on.
AcceptHint(s, p) ==
  [MoveTo(s, p) EXCEPT
     !.hint = TRUE, !.terrain = TRUE, !.terrainFailed = FALSE,
     !.target = None, !.targetRt = None, !.breaking = FALSE, !.stop = FALSE]

StopClicks(s) == IF s.clicked THEN [s EXCEPT !.clicks = MaxClicks] ELSE s

ForgetItems(s) == [s EXCEPT !.item = None, !.items = {}, !.rejI = {}]

InRtpPhase(s) == (s.completed \/ s.cmdSent \/ s.clicked) /\ ~s.waitDone /\ ~s.probe

Far(s, p) == Dist[Current(s)][p] >= 3       \* 64 blocks or more

\* record_rtp_position_hint_from_update_block(): the block is noted, a late
\* change far away reopens RTP, and the block is the candidate to break ...
NoteBlock(s, b, rt) ==
  LET noted == Remember(s, b, rt)
      r == IF Far(s, b) THEN ReopenIfLate(noted) ELSE noted
  IN IF ~InRtpPhase(r) \/ rt = Marker THEN r
     ELSE IF rt = Air THEN [r EXCEPT !.candidate = IF @ = b THEN None ELSE @]
     ELSE [r EXCEPT !.candidate = b]

\* ... and in the RTP phase a change far away says where the bot is.
RecordUpdateBlock(s, b, rt) ==
  LET r == NoteBlock(s, b, rt)
      expected == r.marker \/ r.clicked \/ r.cmdSent
  IN IF ~Far(s, b) \/ ~InRtpPhase(r) \/ rt = Air THEN r
     ELSE IF rt = Marker THEN [r EXCEPT !.hint = TRUE, !.marker = TRUE]
     ELSE IF ~expected \/ r.terrain THEN r
     ELSE StopClicks(ForgetItems(AcceptHint(r, b)))

\* apply_update_block_evidence(): the result of placing is the broken target
ApplyEvidence(s, b, rt) ==
  IF b # s.target THEN s
  ELSE [s EXCEPT !.confirmed = @ \/ rt = Air,
                 !.breakingOk = @ \/ rt = Air,
                 !.placingOk = @ \/ (s.placeSent /\ rt # Air)]

UpdateBlock(s, b, rt) == ApplyEvidence(RecordUpdateBlock(s, b, rt), b, rt)

\* record_initial_position_hint_from_item_entity()
InitialHint(s, p) ==
  IF /\ ~s.frames /\ s.serverPos = None /\ s.placeholder
     /\ ~s.cmdSent /\ ~s.clicked /\ ~s.terrain
     /\ Dist[s.pos][p] >= 3
  THEN [s EXCEPT !.pos = p, !.placeholder = (p = Hub)]
  ELSE s

\* record_rtp_position_hint_from_item_entity()
ItemHint(s, p) ==
  LET region == s.clicked /\ s.menu.prio >= 120
      r == IF region THEN ReopenIfLate(s) ELSE s
  IN IF /\ region /\ ~r.waitDone /\ ~r.probe /\ ~r.terrain
        /\ Far(r, p)
     THEN StopClicks(AcceptHint(r, p)) ELSE r

\* record_observed_item_entity() of an item that could be placed
RecordItem(s, i) ==
  LET r == ItemHint(InitialHint(s, ItemPlace[i]), ItemPlace[i])
      from == IF r.target # None THEN r.target ELSE r.pos
      kept == [r EXCEPT !.items = @ \cup {i}]
  IN IF r.target # None /\ Dist[from][ItemPlace[i]] > 0 THEN r
     ELSE [kept EXCEPT !.item = SelectItem(kept, from)]

\* record_take_item_entity()
RecordTake(s, i) ==
  LET r == [s EXCEPT !.items = @ \ {i}]
  IN IF s.item = i THEN [r EXCEPT !.item = SelectItem(r, r.pos)] ELSE r

\* recover_late_rtp_menu()
RecoverLateMenu(s) ==
  IF /\ s.cmdSent /\ ClickMenu
     /\ s.waitDone \/ s.inventoryProbe \/ s.probe \/ s.terminal
     /\ ~(s.clicked /\ s.clicks >= MaxClicks)
     /\ Idle(s)
  THEN Reopen(s) ELSE s

\* Random teleports that do not leave the overworld
Neutral == {90, 100, 120}

\* record_observed_inventory_item() of a menu item: 110 selects the
\* overworld, after a click on which a teleport there counts as 220.
RecordMenuItem(s, p) ==
  LET second == s.clicked /\ s.menu.prio = 110 /\ p \in Neutral
      q == IF second THEN 220 ELSE p
      better == q > s.menu.prio
      fresh == [s EXCEPT !.menu = [after |-> s.commands, prio |-> q],
                         !.clicks = IF s.clicked THEN 0 ELSE @,
                         !.clicked = FALSE]
  IN RecoverLateMenu(IF better THEN fresh ELSE s)

\* record_inventory_item() and record_observed_inventory_item() of an item
\* that can be placed: the first one is kept
RecordHeld(s) == IF s.held THEN s ELSE [s EXCEPT !.held = TRUE, !.equipped = FALSE]

\* record_server_position() of MovePlayer and Respawn
RecordServerPosition(s, p) ==
  IF s.completed THEN MoveTo(s, p) ELSE [s EXCEPT !.serverPos = p]

\* MovePlayer, Respawn and CorrectPlayerMovePrediction
Positions(s) ==
  {RecordServerPosition(s, p) : p \in Block} \cup {[s EXCEPT !.corrected = TRUE]}

\* InventoryContent, InventorySlot and UpdateBlock, as the codec decodes them
Contents(s) ==
  {RecordHeld(s)} \cup {UpdateBlock(s, b, rt) : b \in Block, rt \in Runtime \cup {Air, Marker}}

\* record_observed_block_sample(): a block of a LevelChunk
RecordSample(s, b, rt) == IF rt \in {Air, Marker} THEN s ELSE Remember(s, b, rt)

\* What the adapter observes in the raw packets besides: item entities, menu
\* items and the blocks of a LevelChunk
Observations(s) ==
  {RecordItem(s, i) : i \in Item} \cup {RecordTake(s, i) : i \in Item}
  \cup {RecordMenuItem(s, p) : p \in Priority}
  \cup {RecordSample(s, b, rt) : b \in Block, rt \in Runtime}

Receive ==
  /\ ~due /\ inputs < MaxInputs /\ ~m.failed
  /\ m' \in Positions(m) \cup Contents(m) \cup Observations(m)
  /\ due' = TRUE /\ inputs' = inputs + 1

-----------------------------------------------------------------------------
(* What one call of drive_movement_validation() does.  A retry interval or a *)
(* wait that has not elapsed leaves the record as it is, so each part may.   *)

\* ready_for_prebreak_pickup(), ready_for_pickup() and ready_for_place()
ReadyForPrebreak(s) ==
  ~s.probe /\ ~s.held /\ s.item # None /\ ~s.terminal /\ ~Walkable(s)
ReadyForPickup(s) ==
  s.probe /\ s.confirmed /\ ~s.placeSent /\ ~s.held /\ ~s.terminal
ReadyForPlace(s) == s.probe /\ ~s.placeSent /\ s.held

\* adopt_observed_terrain_position_hint()
AdoptTerrain(s) ==
  LET drop == ~s.held
      cand == {b \in {s.candidate} \ {None} :
                 IF drop THEN AllowedDrop(s, b) ELSE Allowed(s, b)}
      pick == IF cand # {} THEN cand ELSE Within(s, drop, 4)
  IN IF s.terrain \/ (\A b \in Block : s.seen[b] = None) \/ pick = {} THEN {s}
     ELSE {ForgetItems(AcceptHint(s, b)) : b \in pick}
\* Mutant: clicks are not counted against their limit.
CanClickOn(s) == ClickMenu /\ s.menu # NoMenu

CanClick(s) == ClickMenu /\ s.menu # NoMenu /\ s.clicks < MaxClicks

Click(s) == [s EXCEPT !.clicked = TRUE, !.clicks = @ + 1]

SendCommand(s) == [s EXCEPT !.cmdSent = TRUE, !.commands = @ + 1]

InventoryProbe(s) == [s EXCEPT !.inventoryProbe = TRUE]

\* The wait for a teleport is over: another command, a position taken from
\* the blocks seen, a failure, or the end of the RTP stage.
RtpWaitExpired(s) ==
  LET noMenu == ClickMenu /\ s.menu = NoMenu /\ ~s.clicked /\ ~s.hint
      arrived(r) ==
        LET here == IF r.serverPos = None THEN r ELSE MoveTo(r, r.serverPos)
        IN InventoryProbe([here EXCEPT !.waitDone = TRUE])
      after(r) ==
        IF r.marker /\ ~r.terrain
        THEN {r, [r EXCEPT !.terrainFailed = TRUE,
                           !.terminal = @ \/ ~r.terrainFailed]}
        ELSE {arrived(r)}
  IN IF noMenu /\ s.commands \in 1 .. MaxCommands - 1 THEN {SendCommand(s)}
     ELSE UNION {after(r) : r \in IF ~s.hint /\ s.placeholder
                                  THEN AdoptTerrain(s) ELSE {s}}

DriveRtp(s) ==
  LET skip == Approachable(s)
      r == [s EXCEPT !.waitDone = @ \/ skip]
  IN IF ~r.cmdSent /\ ~skip /\ r.commands < MaxCommands THEN {SendCommand(r)}
     ELSE IF ~r.cmdSent \/ r.waitDone THEN {InventoryProbe(r)}
     ELSE IF CanClick(r) THEN {r, Click(r)}
     ELSE {r} \cup RtpWaitExpired(r)

\* next_frame(): straight on, which stays in reach of the same blocks
NextFrame(s) == [s EXCEPT !.frames = TRUE]

\* next_gameplay_approach_frame_with_limits(): the last of the frames to a block
ApproachFrame(s, limit) == {[s EXCEPT !.pos = b] : b \in Nearest(s, TRUE, limit)}

\* On the way or arrived
Approach(s) == {s} \cup ApproachFrame(s, IF Approachable(s) THEN 1 ELSE 3)

\* send_gameplay_action_probe()
ActionProbe(s) ==
  {IF r.target = None THEN r
   ELSE [r EXCEPT !.probe = TRUE, !.breaking = TRUE, !.stop = FALSE,
                  !.confirmed = FALSE, !.breakFailed = FALSE] : r \in EnsureTargets(s)}

\* drive_gameplay_break(): continue, finish, or give the target up
DriveBreak(s) ==
  IF ~s.probe \/ s.confirmed \/ s.terminal THEN {s}
  ELSE IF ~s.breaking THEN ActionProbe(s)
  ELSE IF s.target = None THEN {s, [s EXCEPT !.failed = TRUE]}
  ELSE IF ~s.stop THEN {s, [s EXCEPT !.stop = TRUE]}
  ELSE IF s.breakFailed THEN {s}
  ELSE {s, NextAfterBreakFailure([s EXCEPT !.breakFailed = TRUE])}

\* pickup_target_position()
PickupPosition(s) ==
  IF s.item # None THEN {ItemPlace[s.item]} ELSE {s.target} \ {None}

\* next_pickup_frame(), the last of them
PickupFrame(s) == {[s EXCEPT !.pos = p] : p \in PickupPosition(s)}

\* drive_gameplay_pickup()
DrivePickup(s) ==
  LET r == [s EXCEPT !.pickup = IF @ = None THEN "running" ELSE @]
      late == [r EXCEPT !.pickupFailed = TRUE]
  IN IF s.terminal THEN {s}
     ELSE IF r.pickup = "running" THEN {r} \cup PickupFrame(r)
     ELSE IF r.held \/ r.pickupFailed THEN {r}
     ELSE IF r.prebreak THEN {NextItem(late)}
     ELSE {NextAfterPickupFailure(late)}

\* ensure_held_item_equipped()
Equip(s) == [s EXCEPT !.equipped = @ \/ s.held]

\* send_place_action_probe()
PlaceProbe(s) ==
  {IF r.target = None THEN [r EXCEPT !.failed = TRUE]
   ELSE [r EXCEPT !.placeSent = TRUE] :
     r \in EnsureTargets(s)}

Act(s) ==
  UNION {UNION {IF ReadyForPlace(q) THEN PlaceProbe(Equip(q)) ELSE {q} :
                  q \in IF ReadyForPickup(r) THEN DrivePickup(r) ELSE {r}} :
           r \in DriveBreak(s)}

Drive(s) ==
  LET r == IF s.reported THEN s
           ELSE [s EXCEPT !.reported = TRUE, !.movementOk = ~s.corrected]
  IN IF ~s.completed THEN {s, NextFrame(s)}
     ELSE IF ~r.movementOk THEN {r}
     ELSE IF ReadyForPrebreak(r)
     THEN DrivePickup([r EXCEPT !.waitDone = TRUE, !.inventoryProbe = TRUE,
                                !.prebreak = TRUE])
     ELSE IF ~r.inventoryProbe THEN DriveRtp(r)
     ELSE IF ~r.chatProbe THEN {[r EXCEPT !.chatProbe = TRUE]}
     ELSE IF r.probe \/ r.terminal THEN Act(r)
     ELSE IF ~Sampled(r) /\ Walkable(r) THEN Approach(r)
     ELSE UNION {Act(n) : n \in ActionProbe(r)}

DriveMovementValidation ==
  /\ ~m.failed
  /\ m' \in Drive(m) /\ due' = FALSE /\ UNCHANGED inputs

\* The ten seconds of the movement, the eight of a pick-up.
Elapse ==
  /\ ~due /\ ~m.failed
  /\ \/ ~m.completed /\ m' = [m EXCEPT !.completed = TRUE]
     \/ m.pickup = "running" /\ m' = [m EXCEPT !.pickup = "expired"]
  /\ UNCHANGED <<due, inputs>>

\* MovementValidation::new()
New ==
  [completed |-> FALSE, reported |-> FALSE, frames |-> FALSE,
   corrected |-> FALSE, movementOk |-> FALSE, chatProbe |-> FALSE,
   pos |-> Hub, serverPos |-> None, placeholder |-> TRUE,
   held |-> FALSE, equipped |-> FALSE, menu |-> NoMenu,
   inventoryProbe |-> FALSE, cmdSent |-> FALSE, commands |-> 0,
   clicked |-> FALSE, clicks |-> 0, hint |-> FALSE, marker |-> FALSE,
   terrain |-> FALSE, terrainFailed |-> FALSE, waitDone |-> FALSE,
   probe |-> FALSE, breaking |-> FALSE, stop |-> FALSE, confirmed |-> FALSE,
   breakFailed |-> FALSE, placeSent |-> FALSE, pickup |-> None,
   prebreak |-> FALSE, pickupFailed |-> FALSE, terminal |-> FALSE,
   target |-> None, targetRt |-> None, rejT |-> {}, rejR |-> {},
   attempts |-> 0, candidate |-> None, seen |-> [b \in Block |-> None],
   item |-> None, items |-> {}, rejI |-> {},
   breakingOk |-> FALSE, placingOk |-> FALSE, failed |-> FALSE]

GameplayInit == m = New /\ due = FALSE /\ inputs = 0

GameplayNext == Receive \/ DriveMovementValidation \/ Elapse

GameplaySpec == GameplayInit /\ [][GameplayNext]_gvars

\* The session calls the drive at every packet and at every receive timeout
\* (50 ms), and time passes, as long as the session lasts.
GameplayFairSpec ==
  GameplaySpec /\ WF_gvars(DriveMovementValidation) /\ WF_gvars(Elapse)

-----------------------------------------------------------------------------
(* Properties *)

\* Every field of the record keeps its range; at most MaxCommands teleports
\* are asked for and MaxBreaks targets tried per stay.
GameplayTypeOK ==
  /\ \A f \in {"equipped", "completed", "reported", "frames", "corrected", "movementOk",
               "chatProbe", "placeholder", "held", "inventoryProbe",
               "cmdSent", "clicked", "hint", "marker", "terrain",
               "terrainFailed", "waitDone", "probe", "breaking", "stop",
               "confirmed", "breakFailed", "placeSent", "prebreak",
               "pickupFailed", "terminal", "breakingOk", "placingOk",
               "failed"} : m[f] \in BOOLEAN
  /\ m.pos \in Block /\ m.serverPos \in Block \cup {None}
  /\ m.menu \in MenuItem
  /\ m.commands \in 0 .. MaxCommands /\ m.clicks \in 0 .. MaxClicks
  /\ m.attempts \in 0 .. MaxBreaks
  /\ m.pickup \in {None, "running", "expired"}
  /\ {m.target, m.candidate} \subseteq Block \cup {None}
  /\ m.targetRt \in Runtime \cup {None} /\ m.rejT \subseteq Block
  /\ m.rejR \subseteq Runtime /\ m.seen \in [Block -> Runtime \cup {None}]
  /\ m.item \in Item \cup {None} /\ m.items \cup m.rejI \subseteq Item
  /\ due \in BOOLEAN /\ inputs \in 0 .. MaxInputs

\* While a probe is under way there is a target, and the two errors "missing
\* gameplay break target" and "missing gameplay place base", which end the
\* whole session, are never raised: no reset forgets the target alone.
ProbeHasTarget == ~m.failed /\ (m.probe => m.target # None /\ m.breaking)

\* A pick-up other than the one before RTP runs only after the server has
\* confirmed the break of the present target, whatever retries came before.
PickupNeedsBreak == m.pickup # None /\ ~m.prebreak => m.confirmed

\* No packet of the server, however late, takes the target of a running
\* break, pick-up or placing away: late menus and hints reopen RTP only when
\* the bot is idle.
PacketsKeepAction ==
  [][~due /\ due' /\ m.target # None =>
       m'.target = m.target /\ m'.probe = m.probe /\ m'.waitDone = m.waitDone]_gvars

\* A bot without an item never starts to break a target or a kind of block it
\* has given up, also after another teleport has cleared what it saw.
RejectedNotRetried ==
  [][m'.breaking /\ m'.target # m.target /\ m'.target # None /\ ~m'.held =>
       m'.target \notin m.rejT /\ m'.targetRt \notin m.rejR]_gvars

\* "retries all normal observed item entities before marking pickup terminal":
\* the pick-up before RTP gives up only when every item cached was tried.
AllItemsTried ==
  [][m.prebreak /\ m'.pickupFailed /\ ~m.terminal /\ m'.terminal =>
       m'.items \subseteq m'.rejI]_gvars

\* Once the movement is accepted, and the server says no more, the stages end:
\* a block is placed or the failure is marked; no wait or retry goes on.
GameplayConcludes == m.movementOk ~> (m.placeSent \/ m.terminal)

\* A click on the menu is a click on an item reported after the last command:
\* a retry clears what the earlier command brought
\* ("rtp_retry_after_target_failure_clears_stale_gameplay_state").  The code
\* does not keep it (the README says why).
ClicksPresentMenu ==
  [][m'.clicks = m.clicks + 1 => m.menu.after = m.commands]_gvars

\* A terrain hint that is "accepted_for_gameplay" leaves the gameplay open, which
\* the code does not keep either (the README says why).
AcceptedHintRevives == [][m'.terrain /\ ~m.terrain => ~m'.terminal]_gvars

=============================================================================
