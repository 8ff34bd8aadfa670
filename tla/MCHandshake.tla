---------------------------- MODULE MCHandshake ----------------------------
(* One connect() against one Connection. *)
EXTENDS Handshake
=============================================================================
