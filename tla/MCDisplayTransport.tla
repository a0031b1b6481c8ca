------------------------ MODULE MCDisplayTransport --------------------------
(* Small instances of DisplayTransport: descriptor numbers and window handles are
   interchangeable; framebuffer identities are, too. *)
EXTENDS DisplayTransport, TLC

Symmetric == Permutations(Fds) \cup Permutations(Frames) \cup Permutations(Hwnds)
=============================================================================
