----------------------------- MODULE MCGameplay -----------------------------
(***************************************************************************)
(* A world of three blocks: the hub, where the bot spawns, a block in      *)
(* walking distance and a place that only a teleport reaches.  Of the two  *)
(* kinds of blocks one gives a drop that can be placed.                    *)
(***************************************************************************)
EXTENDS Gameplay

MCDist == [hub  |-> [hub |-> 0, walk |-> 2, far |-> 4],
           walk |-> [hub |-> 2, walk |-> 0, far |-> 4],
           far  |-> [hub |-> 4, walk |-> 4, far |-> 0]]

MCItemPlace == [i |-> "walk", j |-> "far"]

=============================================================================
