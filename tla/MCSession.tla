------------------------------ MODULE MCSession ------------------------------
(* Either loop, against a server that sends one packet of any kind in a batch *)
(* or any two of those that change how the session goes on, and a script with *)
(* a step of each trigger.                                                    *)
EXTENDS BedrockSession

Turning == {"Status", "Spawned", "Packs", "Stack", "Start", "BareStart", "Latency", "Odd", "Bye"}

AnyBatch == [1 .. 1 -> Kind] \union [1 .. 2 -> Turning]

SpawnGuiScript == <<"on_spawn", "after_previous", "on_inventory_gui", "on_death">>
=============================================================================
