---------------------------- MODULE EventChannel ----------------------------
(***************************************************************************)
(* What one canister's stream of events to other canisters promises: each  *)
(* target handles the events pushed for it in order and at most once, and, *)
(* as long as it does not refuse any for good, without a gap.              *)
(***************************************************************************)
EXTENDS SequencesExt

CONSTANTS Targets, Lossy

VARIABLES
    pushed,     \* number of events pushed for each target
    handled     \* the events each target handled, by their numbers
vars == <<pushed, handled>>

Init ==
    /\ pushed = [k \in Targets |-> 0]
    /\ handled = [k \in Targets |-> <<>>]

\* One message may push events for several targets.
Push ==
    /\ pushed' = [k \in Targets |-> pushed'[k]]
    /\ \A k \in Targets : pushed'[k] >= pushed[k]
    /\ UNCHANGED handled

InOrder(s) == \A i, j \in DOMAIN s : i < j => s[i] < s[j]

\* Target k handles the next events, several at a time.
Handle(k) ==
    /\ handled' = [handled EXCEPT ![k] = handled'[k]]
    /\ IsStrictPrefix(handled[k], handled'[k])
    /\ InOrder(handled'[k])
    /\ \A i \in DOMAIN handled'[k] :
          /\ handled'[k][i] \in 1..pushed[k]
          /\ k \notin Lossy => handled'[k][i] = i
    /\ UNCHANGED pushed

Next == Push \/ \E k \in Targets : Handle(k)

Spec == Init /\ [][Next]_vars
=============================================================================
