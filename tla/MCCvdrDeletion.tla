--------------------------- MODULE MCCvdrDeletion ---------------------------
(* Instances of CvdrDeletion for TLC. *)
EXTENDS CvdrDeletionProps, TLC

Symmetry == Permutations(LocalUsers)
=============================================================================
