----------------------------- MODULE ScriptedBot -----------------------------
(***************************************************************************)
(* The script of a lite bot (lite-bot/src/main.rs, ScriptedBot): a list of *)
(* steps and the events of the session that run them.  A step is its       *)
(* trigger; what it asks of the server (a command, a click, a respawn) is  *)
(* one send of the session, and its delay is time that passes meanwhile.   *)
(*                                                                         *)
(* The struct is one record and an event an operator on it.  Of the window *)
(* and the items of the container the record says whether the script knows *)
(* any: a click takes what it knows, and zeros otherwise.                  *)
(***************************************************************************)
EXTENDS Naturals, Sequences

CONSTANTS
    Script,        \* the triggers of the steps
    ResetOnSpawn,  \* reset_on_spawn
    SkipSteps      \* skip_steps_on_respawn

Trigger == {"on_spawn", "on_inventory_gui", "after_previous", "on_death"}

ASSUME ScriptAssumption ==
    /\ Script \in Seq(Trigger) /\ ResetOnSpawn \in BOOLEAN /\ SkipSteps \in Nat

\* ScriptedBot::new(): current_step_index, spawn_count > 0, current_window_id
\* and container_items.
NewScript == [index |-> 0, spawned |-> FALSE, window |-> FALSE, items |-> FALSE]

Waiting(s, triggers) == s.index < Len(Script) /\ Script[s.index + 1] \in triggers

\* run_chain(): the steps that follow without an event of their own.
RunChain(s) ==
    LET chained(n) == \A i \in s.index + 1 .. n : Script[i] = "after_previous"
        ends == {n \in s.index .. Len(Script) : chained(n)}
    IN IF ends = {} THEN s
       ELSE [s EXCEPT !.index = CHOOSE n \in ends : \A k \in ends : k <= n]

\* execute_step() and what follows it: the step under the index is done.
RunStep(s) == RunChain([s EXCEPT !.index = @ + 1])

StepIf(s, triggers) == IF Waiting(s, triggers) THEN RunStep(s) ELSE s

\* InstantScriptEvent::Spawn: from the beginning, or past the first steps when it
\* is not the first Spawn.
OnSpawn(s) ==
    LET first == IF s.spawned THEN SkipSteps ELSE 0
        r == [s EXCEPT !.index = IF ResetOnSpawn THEN first ELSE @, !.spawned = TRUE]
    IN StepIf(r, {"on_spawn", "after_previous"})

OnInventoryGui(s) == StepIf([s EXCEPT !.window = TRUE], {"on_inventory_gui"})

OnInventoryContent(s) == [s EXCEPT !.items = TRUE]

\* Death runs every on_death step and leaves the index where it is.
DeathSteps == {i \in DOMAIN Script : Script[i] = "on_death"}

ScriptTypeOK(s) ==
    /\ s.index \in 0 .. (IF SkipSteps > Len(Script) THEN SkipSteps ELSE Len(Script))
    /\ {s.spawned, s.window, s.items} \subseteq BOOLEAN
=============================================================================
