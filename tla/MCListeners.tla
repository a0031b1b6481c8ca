---------------------------- MODULE MCListeners -----------------------------
(* Model-checking instance of Listeners. *)
EXTENDS Listeners
=============================================================================
