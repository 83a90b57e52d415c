------------------------ MODULE LocalIndexSyncProps -------------------------
(***************************************************************************)
(* What the stream of events from the user_index promises.                 *)
(***************************************************************************)
EXTENDS LocalIndexSync

\* Exactly the canisters with events are queued, each once: none is forgotten
\* and none is taken twice in a batch.
QueueMatchesEvents ==
    /\ IsInjective(queue)
    /\ Range(queue) = {c \in Targets : events[c] # <<>>}

\* The stream is an in-order channel without duplicates: it is what makes the
\* deletion of a user reach its index once.
Channel == INSTANCE EventChannel WITH Lossy <- Refusing

ImplementsChannel == Channel!Spec

\* Every event pushed is handled.
AllHandled ==
    \A c \in Targets \ Refusing : \A n \in 1..MaxPushes :
        (pushed[c] >= n) ~> (n \in Range(handled[c]))
=============================================================================
