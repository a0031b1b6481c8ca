------------------------- MODULE MCLaunchLifecycle --------------------------
(* The TLC instance of LaunchLifecycle; liveness is checked too, so without symmetry. *)
EXTENDS LaunchLifecycle
=============================================================================
