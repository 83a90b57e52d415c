--------------------------- MODULE DeletionLedger ---------------------------
(***************************************************************************)
(* What the deletion of users promises, without queues, drafts, trees,     *)
(* timers or upgrades: a requested user is deleted once and for all, and a *)
(* deleted user gets at most one official package, which never changes.    *)
(***************************************************************************)
CONSTANT Users       \* the users whose deletion is recorded

VARIABLES
    requested,  \* users whose deletion was asked for
    deleted,    \* users whose deletion is complete
    official    \* the packages each user has
vars == <<requested, deleted, official>>

Init ==
    /\ requested = {} /\ deleted = {}
    /\ official = [u \in Users |-> {}]

Request(u) ==
    /\ requested' = requested \union {u}
    /\ UNCHANGED <<deleted, official>>

Delete(u) ==
    /\ u \in requested \ deleted
    /\ deleted' = deleted \union {u}
    /\ UNCHANGED <<requested, official>>

Publish(u) ==
    /\ u \in deleted /\ official[u] = {}
    /\ \E p \in official'[u] : official' = [official EXCEPT ![u] = {p}]
    /\ UNCHANGED <<requested, deleted>>

Next == \E u \in Users : Request(u) \/ Delete(u) \/ Publish(u)

Spec == Init /\ [][Next]_vars
=============================================================================
