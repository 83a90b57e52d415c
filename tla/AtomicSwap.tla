----------------------------- MODULE AtomicSwap -----------------------------
(***************************************************************************)
(* What the escrow canister promises of a swap: either both deposits are   *)
(* exchanged, or each that was received goes back to its depositor, never  *)
(* some of both.  The promise of a swap ends when a race happens to it.    *)
(***************************************************************************)
CONSTANTS Swaps

Token == {"token0", "token1"}

VARIABLES
    phase,      \* of each swap: open, agreed, ended or raced
    paid,       \* tokens paid to the other party
    returned    \* tokens returned to their depositor

vars == <<phase, paid, returned>>

Init ==
    /\ phase = [s \in Swaps |-> "open"]
    /\ paid = [s \in Swaps |-> {}]
    /\ returned = [s \in Swaps |-> {}]

Close(s, p) ==
    /\ phase[s] = "open"
    /\ phase' = [phase EXCEPT ![s] = p]
    /\ UNCHANGED <<paid, returned>>

\* Both deposits are there.
Agree(s) == Close(s, "agreed")

\* Cancelled, or expired without both deposits.
End(s) == Close(s, "ended")

Pay(s, t) ==
    /\ phase[s] = "agreed" /\ t \notin paid[s]
    /\ paid' = [paid EXCEPT ![s] = @ \union {t}]
    /\ UNCHANGED <<phase, returned>>

Return(s, t) ==
    /\ phase[s] = "ended" /\ t \notin returned[s]
    /\ returned' = [returned EXCEPT ![s] = @ \union {t}]
    /\ UNCHANGED <<phase, paid>>

\* Nothing is promised of the swap any more.
Race(s) ==
    /\ phase[s] # "raced"
    /\ phase' = [phase EXCEPT ![s] = "raced"]
    /\ paid' = [paid EXCEPT ![s] = {}]
    /\ returned' = [returned EXCEPT ![s] = {}]

Next == \E s \in Swaps :
    \/ Agree(s) \/ End(s) \/ Race(s)
    \/ \E t \in Token : Pay(s, t) \/ Return(s, t)

Spec == Init /\ [][Next]_vars
=============================================================================
