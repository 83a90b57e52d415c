----------------------------- MODULE MCServices -----------------------------
(***************************************************************************)
(* Four small services in one run, each alone: a prize message, a swap     *)
(* offered in a chat, the retries of a FireAndForgetHandler, and the files *)
(* of a storage bucket.  They share nothing, so a behaviour is one of the  *)
(* service chosen at its start while the others stand still.               *)
(***************************************************************************)
EXTENDS PrizeClaims, ChatSwap, FireAndForget, FileStorage

VARIABLE service

vars == <<service, prizeVars, swapVars, retryVars, storageVars>>

\* Two prizes whose fees are rounded.
TwoPrizes == <<100, 255>>

\* Every blob fills the allowance.
Unit == [b \in Blobs |-> 1]

\* Users and Accepters are the same two members.
Symmetry == Permutations(Users) \union Permutations(Owners) \union Permutations(Blobs)

Init ==
    /\ service \in {"prize", "swap", "retry", "storage"}
    /\ PrizeInit /\ SwapInit /\ RetryInit /\ StorageInit
    /\ service # "prize" => unpaid = 0

Next ==
    \/ /\ service = "prize" /\ PrizeNext
       /\ UNCHANGED <<service, swapVars, retryVars, storageVars>>
    \/ /\ service = "swap" /\ SwapNext
       /\ UNCHANGED <<service, prizeVars, retryVars, storageVars>>
    \/ /\ service = "retry" /\ RetryNext
       /\ UNCHANGED <<service, prizeVars, swapVars, storageVars>>
    \/ /\ service = "storage" /\ StorageNext
       /\ UNCHANGED <<service, prizeVars, swapVars, retryVars>>

Spec == Init /\ [][Next]_vars
=============================================================================
