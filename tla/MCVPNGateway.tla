---------------------------- MODULE MCVPNGateway ----------------------------
EXTENDS VPNGateway, TLC

(* Bound: fields of the configuration whose last change is not on disk. *)
MaxUnsaved == 1

Unsaved == Cardinality({f \in DOMAIN disk : disk[f] # Snapshot[f]}) <= MaxUnsaved

Symmetry == Permutations(Workers)
=============================================================================
