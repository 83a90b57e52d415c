------------------------------ MODULE MCEscrow ------------------------------
(* Instances of Escrow for TLC. *)
EXTENDS EscrowProps, TLC

Symmetry == Permutations(Users)
=============================================================================
