--------------------------- MODULE MCAsyncWriter ---------------------------
(* The TLC instance of AsyncWriter; liveness is checked too, so without symmetry. *)
EXTENDS AsyncWriter
=============================================================================
