--------------------------- MODULE FireAndForget ----------------------------
(***************************************************************************)
(* FireAndForgetHandler: calls whose answer nobody awaits.  The first      *)
(* attempt of a call is made at once; a failed call is queued under its    *)
(* target and retried in batches, one at a time per target, by a job that  *)
(* runs while anything is queued.                                          *)
(*                                                                         *)
(* Time is left out: which queued calls are due is open.  So is the limit  *)
(* of a batch.  The handler survives upgrades but not its timer, and an    *)
(* upgrade waits for the calls in flight.                                  *)
(***************************************************************************)
EXTENDS Naturals

CONSTANTS
    Canisters,      \* targets
    MaxAttempt,     \* 50
    MaxCalls        \* bound

ASSUME RetryAssumption == {MaxAttempt, MaxCalls} \subseteq Nat

VARIABLES
    nextId,         \* next_id
    retries,        \* canisters: the PendingC2cCalls of some targets
    flying,         \* process_single coroutines awaiting their target
    retryTimer      \* is timer_id set?

retryVars == <<nextId, retries, flying, retryTimer>>

RetryInit ==
    /\ nextId = 0 /\ flying = {} /\ retryTimer = FALSE
    /\ retries = [c \in {} |-> {}]

\* start_job_if_required, with the targets left by the step
StartJob == retryTimer' = (retryTimer \/ DOMAIN retries' # {})

Send(c) ==
    /\ nextId < MaxCalls
    /\ nextId' = nextId + 1
    /\ flying' = flying \union {[id |-> nextId, to |-> c, attempt |-> 0]}
    /\ UNCHANGED <<retries, retryTimer>>

PendingOf(c) ==     \* entry(c).or_default()
    IF c \in DOMAIN retries THEN retries[c] ELSE [inProgress |-> {}, queue |-> {}]

Store(c, pending) ==
    retries' = [x \in DOMAIN retries \union {c} |-> IF x = c THEN pending ELSE retries[x]]

Forget(c) == retries' = [x \in DOMAIN retries \ {c} |-> retries[x]]

FinishedKept(call) == PendingOf(call.to)    \* mutant
Finished(call) == [PendingOf(call.to) EXCEPT !.inProgress = @ \ {call.id}]

\* process_single after the await: the call was handled, failed in a way worth
\* a retry, or failed for good.
Returned(call) ==
    /\ flying' = flying \ {call}
    /\ \E result \in {"ok", "retry", "fatal"} :
          LET pending == Finished(call)
          IN  IF result = "ok" /\ call.attempt = 0 THEN UNCHANGED retries
              ELSE IF result = "retry" /\ call.attempt < MaxAttempt
              THEN Store(call.to, [pending EXCEPT
                        !.queue = @ \union {[call EXCEPT !.attempt = @ + 1]}])
              ELSE IF pending.inProgress = {} /\ pending.queue = {}
              THEN Forget(call.to)
              ELSE Store(call.to, pending)
    /\ StartJob
    /\ UNCHANGED nextId

\* run, with next_batch: due calls of targets without a batch under way
StartBatch ==
    /\ retryTimer /\ DOMAIN retries # {}
    /\ \E batch \in SUBSET UNION {retries[c].queue :
                                     c \in {c \in DOMAIN retries : retries[c].inProgress = {}}} :
          /\ batch # {}
          /\ flying' = flying \union batch
          /\ retries' = [c \in DOMAIN retries |->
                [inProgress |-> retries[c].inProgress \union
                                    {call.id : call \in {b \in batch : b.to = c}},
                 queue |-> retries[c].queue \ batch]]
    /\ UNCHANGED <<nextId, retryTimer>>

StopJob ==
    /\ retryTimer /\ DOMAIN retries = {}
    /\ retryTimer' = FALSE
    /\ UNCHANGED <<nextId, retries, flying>>

Restart ==
    /\ flying = {}
    /\ retryTimer' = (DOMAIN retries # {})
    /\ UNCHANGED <<nextId, retries, flying>>

RetryNext ==
    \/ \E c \in Canisters : Send(c)
    \/ \E call \in flying : Returned(call)
    \/ StartBatch \/ StopJob \/ Restart

RetrySpec == RetryInit /\ [][RetryNext]_retryVars

-----------------------------------------------------------------------------
(* Properties *)

Queued == UNION {retries[c].queue : c \in DOMAIN retries}

RetriesTo(c) == {call \in flying : call.to = c /\ call.attempt > 0}

\* No retry is lost, repeated or stuck: a target with queued calls has the job
\* running and is blocked only by retries that are in flight, a target without
\* calls does not keep the job spinning, and a call is in one place at a time.
RetriesGoOn ==
    /\ DOMAIN retries # {} => retryTimer
    /\ \A c \in DOMAIN retries :
          /\ retries[c].inProgress = {call.id : call \in RetriesTo(c)}
          /\ retries[c].inProgress # {} \/ retries[c].queue # {}
    /\ \A call \in flying : call.attempt > 0 => call.to \in DOMAIN retries
    /\ flying \intersect Queued = {}
    /\ \A x, y \in flying \union Queued : x.id = y.id => x = y
=============================================================================
