----------------------------- MODULE EventSync ------------------------------
(***************************************************************************)
(* The stream of events from one canister to others, as the backend's      *)
(* canisters keep it with each other:                                      *)
(*                                                                         *)
(*   libraries/timer_job_queues   GroupedTimerJobQueue, the sender's queue *)
(*                                (BatchedTimerJobQueue is the case of one *)
(*                                target and MaxConcurrency = 1)           *)
(*   model/<name>_event_batch.rs  the batch that is sent                   *)
(*   libraries/utils              IdempotencyChecker, at the receiver      *)
(*                                                                         *)
(* The calls are bounded-wait: after the timeout the sender does not know  *)
(* whether its request was, or will yet be, handled.                       *)
(***************************************************************************)
EXTENDS SequencesExt

CONSTANTS
    Targets,            \* keys of the queue, the canisters to notify
    MaxConcurrency,     \* max_concurrency
    BatchSize,          \* when a batch is full
    DeferProcessing,    \* defer_processing
    Refusing,           \* targets that may refuse for good
    Reordering,         \* targets that may handle a late request after others
    MaxPushes, MaxTime, MaxStale    \* bounds

ASSUME ConstantsAssumption ==
    /\ IsFiniteSet(Targets)
    /\ MaxConcurrency \in Nat \ {0} /\ BatchSize \in Nat \ {0}
    /\ DeferProcessing \in BOOLEAN
    /\ Refusing \subseteq Targets /\ Reordering \subseteq Targets
    /\ {MaxPushes, MaxTime, MaxStale} \subseteq Nat

VARIABLES
    now,            \* IC time
    pushed,         \* number of events pushed for each target
    queue,          \* the keys to process
    items,          \* items_map; no entry is the empty sequence
    inProgress,     \* in_progress
    timer,          \* is timer_id set?
    batch,          \* the batch of a key's process_batch coroutine
    call,           \* its call: not made, not handled yet, or handled
    wire,           \* requests on their way to a target
    receiver        \* the IdempotencyChecker of a target, and what it handled

senderVars == <<queue, items, inProgress, timer>>
callVars == <<batch, call, wire>>
vars == <<now, pushed, senderVars, callVars, receiver>>

-----------------------------------------------------------------------------
(* Data *)

\* An event is an IdempotentEnvelope [id, at]: its id is its number, unique as
\* the code's random idempotency_id is.  The caller of a stale request
\* [events, stale] no longer waits for it.

Smaller(m, n) == IF m < n THEN m ELSE n

Init ==
    /\ now = 1
    /\ pushed = [k \in Targets |-> 0]
    /\ queue = <<>> /\ inProgress = {} /\ timer = FALSE
    /\ items = [k \in Targets |-> <<>>]
    /\ batch = [k \in Targets |-> <<>>]
    /\ call = [k \in Targets |-> "none"]
    /\ wire = [k \in Targets |-> <<>>]
    /\ receiver = [k \in Targets |-> [latest |-> 0, ids |-> {}, handled |-> <<>>]]

-----------------------------------------------------------------------------
(* The queue *)

\* set_timer_if_required
SetTimerNever == UNCHANGED timer    \* mutant
SetTimer == timer' = (timer \/ queue' # <<>>)

\* The keys among the first n of q that flush starts: those with items that
\* are not in progress.
Startable(q, it, n) ==
    {k \in Range(SubSeq(q, 1, n)) : it[k] # <<>> /\ k \notin inProgress}

\* flush pops keys until it has started as many batches as it may.
Popped(q, it) ==
    LET free == {n \in 0..Len(q) :
            Cardinality(inProgress) + Cardinality(Startable(q, it, n)) < MaxConcurrency}
    IN  IF free = {} THEN 0
        ELSE Smaller(Len(q), 1 + Max(free))

Flush(q, it) ==
    LET started == Startable(q, it, Popped(q, it))
        size == [k \in Targets |-> Smaller(BatchSize, Len(it[k]))]
        first == [k \in Targets |-> SubSeq(it[k], 1, size[k])]
    IN  /\ queue' = SubSeq(q, Popped(q, it) + 1, Len(q))
        /\ inProgress' = inProgress \union started
        /\ items' = [k \in Targets |-> IF k \in started
                THEN SubSeq(it[k], size[k] + 1, Len(it[k])) ELSE it[k]]
        /\ timer' = (timer /\ queue' # <<>>)
        /\ batch' = [k \in Targets |-> IF k \in started THEN first[k] ELSE batch[k]]
        /\ call' = [k \in Targets |-> IF k \in started THEN "made" ELSE call[k]]
        /\ wire' = [k \in Targets |-> IF k \in started
                THEN Append(wire[k], [events |-> first[k], stale |-> FALSE])
                ELSE wire[k]]

\* created_at of the envelope
CreatedAt == now

\* push_many of n events created now.
Push(k, n) ==
    LET new == [i \in 1..n |-> [id |-> pushed[k] + i, at |-> CreatedAt]]
        q == IF items[k] = <<>> THEN Append(queue, k) ELSE queue
        it == [items EXCEPT ![k] = @ \o new]
    IN  /\ pushed[k] + n <= MaxPushes
        /\ pushed' = [pushed EXCEPT ![k] = @ + n]
        /\ IF DeferProcessing
           THEN /\ queue' = q /\ items' = it /\ SetTimer
                /\ UNCHANGED <<inProgress, callVars>>
           ELSE Flush(q, it)
        /\ UNCHANGED <<now, receiver>>

\* The timer is an interval timer: it stays set while keys are queued.
TimerFires ==
    /\ timer
    /\ Flush(queue, items)
    /\ UNCHANGED <<now, pushed, receiver>>

\* The end of process_batch for key k; its items are kept for a retry.
EndBatchForgotten(k, kept) ==   \* mutant
    /\ inProgress' = inProgress \ {k}
    /\ items' = [items EXCEPT ![k] = kept \o @]
    /\ UNCHANGED queue
    /\ SetTimer
    /\ batch' = [batch EXCEPT ![k] = <<>>]
    /\ call' = [call EXCEPT ![k] = "none"]
    /\ UNCHANGED <<now, pushed, receiver>>
EndBatchBack(k, kept) ==    \* mutant
    /\ inProgress' = inProgress \ {k}
    /\ items' = [items EXCEPT ![k] = @ \o kept]
    /\ queue' = IF items'[k] # <<>> THEN Append(queue, k) ELSE queue
    /\ SetTimer
    /\ batch' = [batch EXCEPT ![k] = <<>>]
    /\ call' = [call EXCEPT ![k] = "none"]
    /\ UNCHANGED <<now, pushed, receiver>>
EndBatch(k, kept) ==
    /\ inProgress' = inProgress \ {k}
    /\ items' = [items EXCEPT ![k] = kept \o @]
    /\ queue' = IF items'[k] # <<>> THEN Append(queue, k) ELSE queue
    /\ SetTimer
    /\ batch' = [batch EXCEPT ![k] = <<>>]
    /\ call' = [call EXCEPT ![k] = "none"]
    /\ UNCHANGED <<now, pushed, receiver>>

-----------------------------------------------------------------------------
(* Calls *)

Current(k) == {i \in DOMAIN wire[k] : ~wire[k][i].stale}
Stale(k) == {i \in DOMAIN wire[k] : wire[k][i].stale}

\* IdempotencyChecker::check, and the handling of an event that passes.
Check(c, e) ==
    LET ids == IF e.at > c.latest THEN {} ELSE c.ids
    IN  IF e.at < c.latest \/ e.id \in ids THEN c
        ELSE [latest |-> e.at, ids |-> ids \union {e.id},
              handled |-> Append(c.handled, e.id)]

\* The handling of a request, event by event.
CheckAll(c, ev) ==
    LET after[n \in 0..Len(ev)] == IF n = 0 THEN c ELSE Check(after[n - 1], ev[n])
    IN  after[Len(ev)]

\* The target handles request i.  Requests arrive in order, but a handler that
\* first verifies its caller may finish a late one after others.
Handle(k, i) ==
    /\ i = 1 \/ k \in Reordering
    /\ receiver' = [receiver EXCEPT ![k] = CheckAll(@, wire[k][i].events)]
    /\ call' = IF wire[k][i].stale THEN call ELSE [call EXCEPT ![k] = "handled"]
    /\ wire' = [wire EXCEPT ![k] = RemoveAt(@, i)]
    /\ UNCHANGED <<now, pushed, senderVars, batch>>

\* Ok: nothing is kept.
Succeeds(k) ==
    /\ call[k] = "handled"
    /\ EndBatch(k, <<>>)
    /\ UNCHANGED wire

\* Timeout: a retryable error, whatever became of the request.
TimesOut(k) ==
    /\ call[k] # "none"
    /\ Cardinality(Stale(k)) < MaxStale
    /\ wire' = [wire EXCEPT ![k] = [i \in DOMAIN @ |-> [@[i] EXCEPT !.stale = TRUE]]]
    /\ EndBatch(k, batch[k])

\* The target rejected the request and changed nothing: transient errors are
\* retried, otherwise the batch is dropped.
Rejected(k, retry) ==
    /\ retry \/ k \in Refusing
    /\ \E i \in Current(k) : wire' = [wire EXCEPT ![k] = RemoveAt(@, i)]
    /\ EndBatch(k, IF retry THEN batch[k] ELSE <<>>)

\* A request that nobody waits for is lost.
Lost(k, i) ==
    /\ wire[k][i].stale
    /\ wire' = [wire EXCEPT ![k] = RemoveAt(@, i)]
    /\ UNCHANGED <<now, pushed, senderVars, batch, call, receiver>>

-----------------------------------------------------------------------------
\* stop_canister waits for every call; the queue is serialized, its timer is
\* not, and deserializing sets it again.
Upgrade ==
    /\ inProgress = {}
    /\ timer' = (queue # <<>>)
    /\ UNCHANGED <<now, pushed, queue, items, inProgress, callVars, receiver>>

Tick ==
    /\ now < MaxTime
    /\ now' = now + 1
    /\ UNCHANGED <<pushed, senderVars, callVars, receiver>>

SenderStep ==
    \/ TimerFires
    \/ \E k \in Targets : Succeeds(k) \/ TimesOut(k)
    \/ \E k \in Targets, n \in 1..MaxPushes : Push(k, n)
    \/ \E k \in Targets, retry \in BOOLEAN : Rejected(k, retry)

TargetStep == \E k \in Targets : \E i \in DOMAIN wire[k] : Handle(k, i) \/ Lost(k, i)

Next == SenderStep \/ TargetStep \/ Upgrade \/ Tick

Spec == Init /\ [][Next]_vars

\* Timers fire, replies arrive, and a request that is retried for ever is
\* handled in the end.
Fairness ==
    /\ WF_vars(TimerFires)
    /\ \A k \in Targets :
          /\ SF_vars(Succeeds(k))
          /\ SF_vars(\E i \in Current(k) : Handle(k, i))

FairSpec == Spec /\ Fairness
=============================================================================
