--------------------------- MODULE MCDriverInput ----------------------------
(* The threads are interchangeable. *)
EXTENDS DriverInput, TLC

Symmetric == Permutations(Threads)
=============================================================================
