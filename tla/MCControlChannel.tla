-------------------------- MODULE MCControlChannel --------------------------
(* Model-checking instance of ControlChannel.  Liveness is checked, so the processes are
   not declared symmetric. *)
EXTENDS ControlChannel
=============================================================================
