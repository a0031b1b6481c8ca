-------------------------- MODULE MCReconnectGrace --------------------------
(* Model-checking instance of ReconnectGrace. *)
EXTENDS ReconnectGrace
=============================================================================
