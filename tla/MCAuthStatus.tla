---------------------------- MODULE MCAuthStatus ----------------------------
(* Instances of AuthStatus for TLC.  Peers, invites and workers are        *)
(* interchangeable; the symmetry is not used where liveness is checked.    *)
EXTENDS AuthStatus, TLC

Symmetry == Permutations(Peers) \cup Permutations(Workers)
=============================================================================
