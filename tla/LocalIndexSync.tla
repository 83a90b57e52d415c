--------------------------- MODULE LocalIndexSync ---------------------------
(***************************************************************************)
(* The events the user_index sends to the local_user_indexes (among them   *)
(* the deletion of a user), which carry no idempotency ids:                *)
(*                                                                         *)
(*   libraries/utils/src/canister_event_sync_queue.rs                      *)
(*   jobs/sync_events_to_local_user_index_canisters.rs                     *)
(*                                                                         *)
(* The calls are unbounded-wait: one that failed was not handled.          *)
(***************************************************************************)
EXTENDS SequencesExt

CONSTANTS
    Targets,            \* the local_user_index canisters
    MaxCanisters,       \* max_canisters_per_batch
    MaxEvents,          \* max_events_per_canister_per_batch
    Refusing,           \* targets that may refuse for good
    MaxPushes           \* bound on the events of a target

ASSUME ConstantsAssumption ==
    /\ IsFiniteSet(Targets)
    /\ MaxCanisters \in Nat \ {0} /\ MaxEvents \in Nat \ {0}
    /\ Refusing \subseteq Targets /\ MaxPushes \in Nat

VARIABLES
    pushed,         \* number of events pushed for each target
    queue,          \* the canisters with events to send
    events,         \* events; no entry is the empty sequence
    syncing,        \* sync_in_progress
    timer,          \* is the job's TIMER_ID set?
    taken,          \* the events of a target's sync_events coroutine
    call,           \* its call: not made, not handled yet, or handled
    handled         \* the events a target handled

queueVars == <<queue, events, syncing, timer>>
callVars == <<taken, call>>
vars == <<pushed, queueVars, callVars, handled>>

Smaller(m, n) == IF m < n THEN m ELSE n

Init ==
    /\ pushed = [c \in Targets |-> 0]
    /\ queue = <<>> /\ syncing = FALSE /\ timer = FALSE
    /\ events = [c \in Targets |-> <<>>]
    /\ taken = [c \in Targets |-> <<>>]
    /\ call = [c \in Targets |-> "none"]
    /\ handled = [c \in Targets |-> <<>>]

-----------------------------------------------------------------------------
\* CanisterEventSyncQueue::push, for n new events of each target in S; the
\* canisters that had none are queued in any order.
Orders(S) == Bijection(1..Cardinality(S), S)
PushedEvents(S, n) ==
    [c \in Targets |-> IF c \in S
        THEN events[c] \o [i \in 1..n |-> pushed[c] + i] ELSE events[c]]
PushedQueues(S) == {queue \o s : s \in Orders({c \in S : events[c] = <<>>})}

\* How many of the events take_events takes.
BatchLen(ev) == Smaller(MaxEvents, Len(ev))

\* try_start_batch: the first canisters and their first events; those that have
\* more are queued again, in the same order.
CanStart(q) == ~syncing /\ q # <<>>

StartBatch(q, ev) ==
    LET n == Smaller(MaxCanisters, Len(q))
        first == SubSeq(q, 1, n)
        more == {i \in 1..n : Len(ev[q[i]]) > BatchLen(ev[q[i]])}
    IN  /\ \E readd \in Orders(more) :
              /\ \A i, j \in DOMAIN readd : i < j => readd[i] < readd[j]
              /\ queue' = SubSeq(q, n + 1, Len(q)) \o [i \in DOMAIN readd |-> q[readd[i]]]
        /\ events' = [c \in Targets |-> IF c \in Range(first)
                THEN SubSeq(ev[c], BatchLen(ev[c]) + 1, Len(ev[c])) ELSE ev[c]]
        /\ taken' = [c \in Targets |-> IF c \in Range(first)
                THEN SubSeq(ev[c], 1, BatchLen(ev[c])) ELSE taken[c]]
        /\ call' = [c \in Targets |-> IF c \in Range(first) THEN "made" ELSE call[c]]
        /\ syncing' = TRUE

Stay(q, ev) == queue' = q /\ events' = ev /\ UNCHANGED <<syncing, callVars>>

\* try_run_now
TryRunNow(q, ev) ==
    IF CanStart(q) THEN StartBatch(q, ev) /\ timer' = FALSE
                   ELSE Stay(q, ev) /\ UNCHANGED timer

NewEvents(S, n) ==
    /\ \A c \in S : pushed[c] + n <= MaxPushes
    /\ pushed' = [c \in Targets |-> IF c \in S THEN pushed[c] + n ELSE pushed[c]]
    /\ UNCHANGED handled

\* push_event_to_local_user_index, push_event_to_all_local_user_indexes, and
\* the many events of a local_user_index that is added.
Push(S, n) ==
    /\ NewEvents(S, n)
    /\ \E q \in PushedQueues(S) : TryRunNow(q, PushedEvents(S, n))

\* update_bot pushes to S after the push to all, in the same message, and
\* tries nothing: the push to all has left a batch in progress.
PushMore(S, n) ==
    /\ syncing
    /\ NewEvents(S, n)
    /\ \E q \in PushedQueues(S) : Stay(q, PushedEvents(S, n))
    /\ UNCHANGED timer

\* run
Run ==
    /\ timer
    /\ timer' = FALSE
    /\ IF CanStart(queue) THEN StartBatch(queue, events) ELSE Stay(queue, events)
    /\ UNCHANGED <<pushed, handled>>

\* A local_user_index handles the events of a request, all or none.
Handle(c) ==
    /\ call[c] = "made"
    /\ handled' = [handled EXCEPT ![c] = @ \o taken[c]]
    /\ call' = [call EXCEPT ![c] = "handled"]
    /\ UNCHANGED <<pushed, queueVars, taken>>

\* requeue_failed_events
MergedBack(c) == events[c] \o taken[c]      \* mutant
Merged(c) == taken[c] \o events[c]
RequeuedAlways(c) == Append(queue, c)       \* mutant
Requeued(c) == IF events[c] = <<>> THEN Append(queue, c) ELSE queue

\* The end of sync_events; the last one ends process_batch, which starts the
\* job again.
EndSyncUnarmed(c) ==    \* mutant
    /\ taken' = [taken EXCEPT ![c] = <<>>]
    /\ call' = [call EXCEPT ![c] = "none"]
    /\ syncing' = (\E d \in Targets : call'[d] # "none")
    /\ UNCHANGED <<pushed, handled, timer>>
EndSync(c) ==
    /\ taken' = [taken EXCEPT ![c] = <<>>]
    /\ call' = [call EXCEPT ![c] = "none"]
    /\ syncing' = (\E d \in Targets : call'[d] # "none")
    /\ timer' = (timer \/ (~syncing' /\ queue' # <<>>))
    /\ UNCHANGED <<pushed, handled>>

Succeeds(c) ==
    /\ call[c] = "handled"
    /\ UNCHANGED <<queue, events>>
    /\ EndSync(c)

\* An error that is retried.
Retried(c) ==
    /\ call[c] = "made"
    /\ events' = [events EXCEPT ![c] = Merged(c)]
    /\ queue' = Requeued(c)
    /\ EndSync(c)

\* An error that is not retried: the events are dropped.
Refused(c) ==
    /\ c \in Refusing /\ call[c] = "made"
    /\ UNCHANGED <<queue, events>>
    /\ EndSync(c)

\* stop_canister waits for every call; jobs::start arms the timer.
Upgrade ==
    /\ \A c \in Targets : call[c] = "none"
    /\ timer' = (queue # <<>>)
    /\ UNCHANGED <<pushed, queue, events, syncing, callVars, handled>>

Next ==
    \/ \E S \in SUBSET Targets \ {{}}, n \in 1..MaxPushes : Push(S, n) \/ PushMore(S, n)
    \/ Run \/ Upgrade
    \/ \E c \in Targets : Handle(c) \/ Succeeds(c) \/ Retried(c) \/ Refused(c)

Spec == Init /\ [][Next]_vars

\* Timers fire, calls are answered, and a call that is retried for ever
\* succeeds in the end.
Fairness ==
    /\ WF_vars(Run)
    /\ \A c \in Targets : SF_vars(Handle(c)) /\ WF_vars(Succeeds(c))

FairSpec == Spec /\ Fairness
=============================================================================
