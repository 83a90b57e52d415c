------------------------- MODULE MCGroupMembership --------------------------
(* GroupMembership on small instances. *)
EXTENDS GroupMembershipProps, TLC

=============================================================================
