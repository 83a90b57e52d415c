--------------------------- MODULE EventSyncProps ---------------------------
(***************************************************************************)
(* What the stream of events from one canister to others promises.         *)
(***************************************************************************)
EXTENDS EventSync

\* A target's events are never forgotten: while it has items, its key is
\* queued or its batch, at whose end the key is queued, is in progress.
KeysScheduled ==
    \A k \in Targets : items[k] # <<>> => k \in Range(queue) \union inProgress

\* The stream is an in-order channel without duplicates, whatever is retried,
\* late, lost or interrupted by an upgrade.
Channel == INSTANCE EventChannel WITH
    Lossy <- Refusing,
    handled <- [k \in Targets |-> receiver[k].handled]

ImplementsChannel == Channel!Spec

\* Every event pushed is handled.
AllHandled ==
    \A k \in Targets \ Refusing : \A n \in 1..MaxPushes :
        (pushed[k] >= n) ~> (n \in Range(receiver[k].handled))
=============================================================================
