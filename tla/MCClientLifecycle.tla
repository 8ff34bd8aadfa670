------------------------- MODULE MCClientLifecycle -------------------------
(* ClientLifecycle with room for one or two packets in each channel. *)
EXTENDS ClientLifecycle
=============================================================================
