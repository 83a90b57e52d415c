-------------------------- MODULE MCLocalIndexSync --------------------------
(* Instances of LocalIndexSync for TLC. *)
EXTENDS LocalIndexSyncProps

Symmetry == Permutations(Targets)
=============================================================================
