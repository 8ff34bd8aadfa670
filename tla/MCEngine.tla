------------------------------ MODULE MCEngine ------------------------------
(* Instances of the engine: two requests at once in the server.            *)
EXTENDS Engine

=============================================================================
