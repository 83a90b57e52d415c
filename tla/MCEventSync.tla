---------------------------- MODULE MCEventSync -----------------------------
(***************************************************************************)
(* EventSync on a small instance.  Time passes only in behaviours that     *)
(* push to a single target: targets share the queue but no timestamps.     *)
(***************************************************************************)
EXTENDS EventSyncProps

VARIABLE notified   \* the targets of this behaviour

MCInit ==
    /\ Init
    /\ notified \in {Targets} \union {{k} : k \in Targets}

MCNext ==
    /\ Next
    /\ \A k \in Targets \ notified : pushed'[k] = 0
    /\ Cardinality(notified) > 1 => now' = now
    /\ UNCHANGED notified

MCFairSpec == MCInit /\ [][MCNext]_<<vars, notified>> /\ Fairness
=============================================================================
