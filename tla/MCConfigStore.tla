---------------------------- MODULE MCConfigStore ---------------------------
(* Instance of ConfigStore for TLC. *)
EXTENDS ConfigStore, TLC

Symmetry == Permutations(Mutators)
=============================================================================
