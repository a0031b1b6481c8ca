-------------------------- MODULE MCWindowRouting --------------------------
(* Two descriptor numbers and two windows, interchangeable. *)
EXTENDS WindowRouting, TLC

Symmetric == Permutations(Fds) \cup Permutations(Hwnds)
=============================================================================
