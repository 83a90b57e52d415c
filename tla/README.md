# OpenChat in TLA+

TLA+ models of OpenChat's canisters (`src/backend`), the TLC runs that check
them on small instances and the TLAPS proofs about them. OpenChat is a chat
system on the Internet Computer: every user, group and community has a canister
of its own, a few index canisters know which canister is where, and services
(storage, escrow, cycles, notifications, proposals) surround them.

A canister handles one message at a time, so between two `await`s nothing else
runs in it; at an `await` anything may. That is the grain of every model here:
**an action is one message** (an update call, a timer, or the callback after an
await) with everything the code does in it. The hard behaviours come from what
happens between messages: state read before an await and used after it, timers
that are cleared and must be set again, calls whose outcome is unknown, and
upgrades, which keep the stable memory and lose timers and coroutines.

Contents: 1 inventory, 2 plan, 3 the models, 4 runs and bounds, 5 fairness,
6 proofs, 7 findings, 8 what is not modelled.

## 1. Inventory

| Part | State it keeps | Operations | Talks to | What is hard | What makes it correct |
|---|---|---|---|---|---|
| Deletion pipeline, `local_user_index` (`jobs/delete_users.rs`, `jobs/self_finalize_cvdr.rs`, `updates/finalize_cvdr.rs`, `model/cvdr.rs`) | delete queue, drafts and frozen packages (stable), receipt tree (heap), certified data, two timers | DeleteUser event, capture, uninstall, publish, sweep, self-fetch, backstop, recovery | user canisters, management canister, its own HTTP endpoint, finalizers | five awaits per deletion, two racing finalizers, tree lost by upgrades, cap against window | a deletion completes once and leaves one verifiable, immutable receipt |
| Escrow (`canisters/escrow`) | swaps, timer jobs, payment and notification queues | create, cancel, notify_deposit, expiry, payments, notifications | ICRC-1 ledgers, user/group/community canisters | balance read before a cancellation or another deposit and used after it, repeated notifications, retries of payments, the instant of expiry | both deposits change hands or each goes back |
| Event streams to users and indexes (`timer_job_queues/grouped_timer_job_queue.rs`, `utils/idempotency_checker.rs`) | items by key, queue of keys, batches in progress, timer; at the receiver the last timestamp and its ids | push, flush, end of a batch | any canister to any other, by bounded-wait calls | a timed-out call may be handled now, later or never; batches grow when retried | exactly once, in order |
| Events from `user_index` to `local_user_index` (`utils/canister_event_sync_queue.rs`) | events by canister, queue, `sync_in_progress`, timer | push, start a batch, requeue, run | `local_user_index` canisters, by unbounded-wait calls | no ids: everything rests on requeueing in the right order | exactly once, in order |
| Prize messages (`chat_events`, `c2c_claim_prize.rs`, final payments) | prizes left, reservations, winners, paid amount | reserve, claim, unreserve, final payments, hard delete | ledgers | claims in flight when the prize ends or the message goes | every token is won, refunded or the fee |
| Swap offers in chats (`P2PSwapContentInternal`, `accept_p2p_swap.rs`) | status of the offer | reserve, accept, complete, cancel, expire | escrow, the accepter's user canister | unknown result of a transfer, notifications that overtake | follows the escrow, one accepter at a time in the group, whoever else deposits |
| FireAndForgetHandler, TimerJobQueue, timer jobs | calls by canister with due times; a queue; jobs by due time | send, batch, retry; push, run; enqueue, cancel, run | any canister | order of retries, limits, timers after upgrades | at-least-once up to the attempt limit |
| Group and community core (`group_chat_core`, `chat_events`, `group`, `community`) | members, roles, events and messages, threads, invitations, gates | join, leave, change role, send, edit, delete, import a group | user, indexes, storage, ledgers | gate checks across awaits, expiring members, group import in chunks | there is an owner, indexes are dense, hidden events stay hidden |
| User canister (`user`) | direct chats, local copy of group state, wallet operations, MKTd02 tombstone | send (with transfer), receive events, execute and finalize deletion | other users, groups, ledgers, local index | two copies of a direct chat, transfer before message, writes after the tombstone | both copies agree, no write after the tombstone |
| `user_index`, `local_user_index` (rest), `group_index` | users, upgrade queues, canister pools, payments, deleted and frozen groups | register, pay, suspend, upgrade, route events | all | concurrent upgrades, payments with retries | each canister upgraded once per version, each payment made once |
| `receipts` | write-once map | put, get | deletion export | conflicting bytes under one id | never overwritten |
| Storage (`storage_index`, `storage_bucket`) | files, blobs, reference counts, quotas | upload, forward, delete, sync events | each other, users | files and their owners' bytes kept in two canisters by events in batches; an upload races its refusal and the removal of its user | blobs agree with the files, files with the index, a user is charged once per blob |
| `cycles_dispenser` | last top-up and flag per canister | request cycles | management canister | flag across an await | balance above the minimum, throttled |
| Others: registry, proposals_bot, identity, sign_in_with_email, notifications_index, online_users, event_relay, airdrop_bot, market_maker, neuron_controller, translations, installer | see PROJECT.json | | | | |

How the modelled parts meet: a deletion starts in `user_index`, which removes
the user and pushes one `DeleteUser` event to the user's `local_user_index`
through **LocalIndexSync**; its in-order, exactly-once promise is why
**CvdrDeletion** receives each event once. A swap offered in a chat is created
and paid in **Escrow**; the message of **ChatSwap** learns of its status by the
escrow's notification queue. Its reservation lets one member at a time take the
swap *through the group*, and none while the group withdraws it (`OneTaker`).
The escrow does not know the reservation: `notify_deposit` is public and takes
any depositor (`notify_deposit.rs:11`, `:153`), and a swap of a chat is
restricted to nobody (`send_message_with_transfer.rs:317`). So the escrow may
accept a user who never reserved the swap, or whose acceptance failed after the
deposit, and what it guarantees has to hold for callers of any kind. A user's files are stored by a bucket and
accounted for by the index (**FileStorage**). Users learn of what happens in their groups
through **EventSync**; calls whose answer nobody awaits go through
**FireAndForget**.

PROJECT.json lists every hazard at its line.

## 2. Plan

1. *Done.* The deletion pipeline (`CvdrDeletion`), its abstract ledger
   (`DeletionLedger`), and the proofs of all its safety properties.
2. *Done.* `Escrow` against `AtomicSwap`, whatever its callers do: what it
   guarantees at all times, and what until one of three races happens to a swap,
   with the proofs of both, the refinement of `AtomicSwap` among them.
3. *Done.* The two event streams, `EventSync` and `LocalIndexSync`, both against
   `EventChannel`, with the proofs of both refinements.
4. *Done.* Membership of a group (`GroupMembers`, `GroupMembership`), with the
   proofs of its safety properties.
5. *Done.* `PrizeClaims`, `ChatSwap`, `FireAndForget` and `FileStorage`, with
   proofs about each.
6. *Left.* `TopUp` for the cycles dispenser, `Upgrades` for the child canisters, the write guard of MKTd02 with `Receipts`,
   the order of `TimerJobQueue`, direct chats and communities.

Every safety and action property the passing runs check and every refinement is
proved; what is left to prove is liveness, out of the prover's reach.

## 3. The models

Definitions marked `\* mutant` are variants with a plausible bug, each used to
confirm that a property notices it. They are not part of the models.

### CvdrDeletion, CvdrDeletionProps, DeletionLedger

Proofs: `CvdrDeletionProofs`, `CvdrPackageProofs`.

State and code: `queue` and `deleteTimer` are `users_to_delete_queue` and the
job's `TIMER_ID`; `leg[u]` is the `process_user` coroutine of a user, named by
the await it is at; `draft` is the stable map of drafts, `tree` the heap's
`cvdr_receipt_tree`, `certified` what `certified_data_set` last got, `certs` the
certificates the subnet has issued that are still fresh, `frozen` the package
store, `fetching[u]` the `attempt_finalize` coroutines.

A leg goes `StartCapture` (pop, ask the user canister for its groups),
`GroupsReply`, `StatusPreReply` (takes the sequence number), `RandReply` (stores
the Captured draft and calls uninstall), `UninstallReply`, `StatusPostReply`
(publishes: commit time, leaf, root, stage, clean-up in one message).
`LegRetry` is a failed call at any of them, `RandTraps` the one failure that
traps. `Republish` and `SkipTerminal` are what a leg does for a draft that is
already published or finished, as happens after an upgrade. `RunSweep` gives up
on old receipts and reserves attempts for due ones; `CaptureCertificate` and
`AttemptMiss` end an attempt; `FinalizeCvdr` is the permissionless backstop.
`Upgrade` is `stop_canister` (which waits for callbacks) followed by
`post_upgrade`.

Abstractions: a hash is what it hashes, a Merkle root is the set of leaves
under it (both injective), so a witness is membership. A leaf carries
`scrubbed` because a scrubbed draft computes another body. A certificate is a
root and a time; its signature is valid.

`DeletionLedger` knows only requests, deletions and official packages;
`ImplementsLedger` maps a deletion to the moment the mappings go.

### Escrow, EscrowProps, AtomicSwap

Proofs: `EscrowProofs`.

`checks` are the `notify_deposit` coroutines between their `icrc1_balance_of`
call and its reply, `paying` the `process_payment` coroutines, `sending` the
notifications in flight; a ledger call has three steps (sent, executed,
reply handled). `held` and `paid` are the ledgers' side. Queues and timers are
the code's.

Users deposit, notify, cancel and let a swap expire in any order. Three things
can then happen to a swap between two messages, each in the code, after which a
swap may be exchanged and refunded, exchanged twice, or paid on one side only
(`Races`; the history `raced` is the set of swaps one of them happened to):

* `overlap`: while the balance of an acceptable deposit is awaited, the swap is
  cancelled or expires, or another acceptable deposit is notified
  (`notify_deposit.rs:47`; finding 3). A second accepter then overwrites
  `accepted_by` and the swap completes again.
* `late`: a deposit is found acceptable after the expiry job has run
  (`notify_deposit.rs:151`; finding 4).
* `again`: a deposit is notified that counts as received, or whose last
  notification or payment is not finished. The jobs of a group retry a
  notification up to twenty times, and each such call may return a deposit that
  counts (`notify_deposit.rs:179`).

No step is forbidden because of a race: `Race` records it, and the properties
say what holds of the swaps to which none happened. That is the exact content of
the proofs: nothing else in the code, no order of deposits, checks, failures,
payments, refunds and upgrades, makes a swap go both ways. Only the two runs
that are expected to fail leave races out (`Avoided`), each all but the one it
is about, so that the trace shows that one alone.

`AtomicSwap` has a phase per swap (open, agreed, ended, raced) and lets tokens
be paid only when agreed and returned only when ended; a race ends its promise.

A ledger may also refuse a transfer it could make (`LedgerMayRefuse`). The
escrow drops it (`make_pending_payments.rs:97`), so one side is paid alone.
`CompletedWasPaid` says that such a swap is never reported as Completed; that it
is not paid whole is what the code does.

### EventSync, EventSyncProps, EventChannel

Proofs: `EventSyncProofs`.

`queue`, `items`, `inProgress`, `timer` are the fields of
`GroupedTimerJobQueueInner`; `Flush` is `flush`, including the keys it pops and
skips because their batch is still out; `EndBatch` is `process_batch` after its
await. A request on the wire that its caller gave up on is `stale`: it may
still be handled (`Handle`) or `Lost`. `Reordering` targets handle late requests
after newer ones, as `c2c_user_canister` can when it awaits the verification of
an unknown sender. `Refusing` targets may reject for good (their canister is
gone). Each event has an id and a creation time; `Check` is
`IdempotencyChecker::check`, `CheckAll` the receiver's loop over a batch.

### LocalIndexSync, LocalIndexSyncProps

Proofs: `LocalIndexSyncProofs`.

The queue without idempotency ids. `StartBatch` is `try_start_batch`,
`TryRunNow` and `Run` the two callers, `PushMore` the push of `update_bot` that
does not start anything itself. Calls are unbounded-wait, so a failed call was
not handled; that is the only reason its order is safe, and the model says so
in `Retried` (`call[c] = "made"`).

### GroupMembers, GroupMembership, GroupMembershipProps

Proofs: `GroupMembershipProofs`.

`GroupMembers` is `group_chat_core/members.rs`: `members` (roles and
suspension), `member_ids`, and the sets kept beside it (owners, admins,
moderators, lapsed, blocked, suspended), with the operations that change
several of them at once: `Add`, `Remove`, `Block`, `ChangeRole`, `Lapse`,
`Unlapse`, `SetSuspended`. `Verified`, `SameOrSenior` and `CanChangeRole` are the
rules who may do what to whom.

`GroupMembership` is the group canister around it. A call that awaits is a
record in `calls`: a join waiting for its gate check, a removal of an owner
waiting to hear whether the remover is a platform moderator, a gate update
waiting for its verification, and the two calls of
`process_expire_member_actions` (a look-up of diamond memberships, a check of
one member). `expiring` is the heap of memberships to check, `actions` the queue
of checks, `expireTimer` and `actionTimer` the two jobs' timers. `UpdateCommit`
is what a new gate does to the members: who is unlapsed, put on the heap, or
moved in it. `ExpireMembers` and `ProcessActions` are the two jobs, `LookupReply`
and `CheckReply` the answers. A gate is a behaviour (checked with a look-up first, checked by a
call, or lapsing at once) and an expiry. `Upgrade` waits for the calls and
starts the jobs again.

### PrizeClaims

A claim is a coroutine: `Claim` reserves the last prize and sends its transfer,
`LedgerAnswers` is the ledger, `ClaimPaid` and `ClaimNotPaid` the rest of
`c2c_claim_prize`. `EndPrize`, `HardDelete` and `RemoveEvent` are the three
places that make the final payments (the refund to the sender and the fee to
the treasury), `MakeTransfer` the job that retries them. `balance` is what is
left of the sender's deposit in the group's account, which all its prize
messages share. The sender pays in the fee or, as the code still accepts, does
not (`Deposit`). A claim in the millisecond of `end_date` is accepted also after
the final payments (`Claim`). Both let the group pay out more for a message than
was paid in for it. Two histories count how much: `unpaid` is the fee that was
not paid in, `late` what the claims after the final payments take. `PrizeSolvent`
says that this is all.

### ChatSwap

`status` is the `P2PSwapStatus` of the message. `Accept` reserves and calls the
user canister, which deposits; `AcceptDeposited` enqueues the job that notifies
the escrow, up to twenty times; `CancelSwap` enqueues the one that cancels
there. `escrow` is what the group can see of module `Escrow`, with its two-step
balance check: `Prepared` is what `prepare` answers, `Received` what a deposit
does to the swap. The group's job goes through them by `NotifyPrepared` and
`NotifyAccepted` or `NotifyTooLow`; anybody else, for members and for
`Strangers`, by `OtherPrepared` and `OtherChecked`, as often as they like.
`taken` is a history of the users whose deposit the escrow confirmed to the
group's jobs; it is what tells the members' taker from everybody the escrow
accepts. The two canisters have clocks of their own. `SwapNews` is `c2c_notify_p2p_swap_status_change`.

### FireAndForget

`retries` is the handler's map of pending calls, `flying` the coroutines. A
first attempt is not in `in_progress`, a retry is; `Returned` is everything
`process_single` does after its await, including the removal of a target with
nothing left.

### FileStorage

The index and one bucket. A file starts in `pendingFiles`, when it is not
uploaded by its first chunk, and moves to `files`; `counts` are the
`reference_counts` of blobs, `blobs` the blob storage. `Insert` and
`RemoveFiles` are the two places that change them. `toIndex` and `toBucket` are
the queues of events, which `SyncBucket` and `SyncIndex` deliver in batches of
any size; between a batch and the next stands the reply that names the files the
index refused (`rejected`, dropped by `DropRejected`). `listed`, `used` and
`account` are the index's files, `bytes_used` and users; `Oldest` is what it
evicts when a blob does not fit. The calls are unbounded-wait and a failed one
was not handled, so an event is delivered once.

Proofs about the last four modules: `ServicesProofs`.

### FoldLemmas

What the proofs need to know of the community modules' folds: the least element
of a set of numbers, induction over a set of numbers or finite sets (as the
statement that a set which holds zero and each successor holds every number, which needs no
operator as a parameter), the largest element (`Max`), and `SumFunction` of a
function with one argument more, one argument less or one value changed.

### MC modules

`MCCvdrDeletion` and `MCEscrow` add the symmetry sets, used in safety runs whose
constants treat the elements alike and never in liveness runs. `MCEventSync`
restricts its instance: `notified` is the set of targets a behaviour pushes to,
and time passes only in behaviours with one of them (targets share the queue,
which needs no clock, and timestamps matter within one target only).
`MCServices` runs the four services of above in one run, with a symmetry set for
the members, users and blobs: a behaviour is one of the services, chosen
at its start, while the others stand still. `MCLocalIndexSync` and
`MCGroupMembership` add nothing.

## 4. Runs, bounds and what they show

No run checks for deadlock: the clock and every supply of requests are bounded,
so each model stops when the bounds are used up.

| Run | Bounds | Shows |
|---|---|---|
| `cvdr_safety` | 2 users, time to 4, window = give-up = 1, 2 upgrades | types; one leg per user; tree against drafts; draft before destruction; one notice; stage against package; packages verify; stages go forward; receipts are immutable; upgrades drop only given-up receipts; refinement of `DeletionLedger` |
| `cvdr_liveness` | 1 local and 1 remote user, time to 4, 1 upgrade, raw_rand does not fail | jobs stay armed, no user is forgotten, deletions complete, captures resolve |
| `cvdr_stuck_receipt_dropped` | as `cvdr_safety`, raw_rand does not fail | finding 1 |
| `cvdr_raw_rand_trap` | as `cvdr_safety` | finding 2 |
| `escrow_safety` | 3 principals, 1 swap that expires at once, 3 deposits, 3 notifications, calls refused and lost | unless a race happened to it, a swap is exchanged once, between the offerer and one accepter whose deposits cover it, or goes back; Completed means both transfers were made; jobs stay armed |
| `escrow_atomic` | 2 principals, 1 swap of lifetime 1, 2 partial or whole deposits, which may add up to one with an excess, 2 notifications, time to 2, fair | until a race: refinement of `AtomicSwap`, and a received deposit leaves the escrow; a completed swap is told |
| `escrow_cancel_race` | 2 principals, 2 deposits, time to 2; of the races only `overlap` | finding 3 |
| `escrow_expiry_instant` | the same with only `late` | finding 4 |
| `event_sync` | 2 targets, one that reorders and one that may refuse for good, 2 events each, batches of 2, 2 calls at once, up to 1 stale request each; time to 2 in behaviours with one target | no key forgotten; refinement of `EventChannel`; every event is handled |
| `local_index_sync` | 3 targets, 3 events each, batches of 2 canisters and 2 events | queue matches events; refinement of `EventChannel`; every event is handled |
| `group_membership` | an owner and one other user, 2 roles, gates of 3 behaviours with expiry 0 or 1, check delay 1, batches of 2, 1 call awaited at a time beside the jobs', 1 gate update, time to 2 | the sets of the members agree; nobody is forgotten by the expiry; the jobs wake; an owner remains |
| `services` | prize: 2 members, prizes of 100 and 255, fee of 5 percent rounded, ledger fee 2, end at 1, time to 2, 1 retry; swap: 2 members, the sender and a stranger, 2 retries, 3 notifications; retries: 2 targets, 4 calls, 2 retries; storage: 2 users, 2 blobs that each fill the allowance, 3 files | a prize is overpaid in the two known ways only, one per winner, and stranded only by late claims; one taker of a swap in the group, whose status is what the escrow confirmed; no retry is lost or stuck; blobs are stored as long as files have them; files are listed by the index; users are charged once per blob |

Why these bounds: the pipeline's interesting cases need two users (one leg
runs while another is queued), a clock that reaches one tick past window and
give-up after a late commit (4 ticks), and two upgrades (one that drops or
rebuilds, one that sees the result). A swap has two sides and at most one
winner of a race, so three principals are an offerer and two racers, and three
notifications let one deposit be notified again after it was received, or the
second accepter overwrite the first. Amount 2, fee 1 and deposits of 2 and 3 are
a deposit too small by the fee, an exact one and, in sum, one with an excess. Swaps
share only the queues, so one swap suffices for safety of a swap. For streams
two events of a key let one be pushed while the other is out, batches of two
let a retried batch grow, two timestamps separate equal from later creation
times, and a stale request may come before or after its retry. Three
`local_user_index`es with batches of two canisters leave one queued behind a
full batch. Of a group two users suffice: what is said of the sets and of the
expiry is said of each member alone, and an owner is lost by two steps at most
two users take; a gate update during any call and three instants let a check,
started before its date or gate changed, answer after it. A prize needs two
members for one claim to be under way while the other's is settled, and prizes
whose percentages are rounded up and down, because the fee of the whole is not
the sum of the fees. A swap message needs the second member and the sender as
competitors, a stranger who takes the swap behind the group's back, and two retries a notification and a cancellation that overlap
their predecessor's effect. Two users let a file be forwarded and its original
be removed, two blobs one evict the other, and three files a blob have two files
while another is evicted for it. Four calls to two targets leave a call behind
another's retry in both.

`escrow_safety` fixes the lifetime to 0 (`create_swap` allows an expiry equal
to now), so that cancellation, expiry and acceptance all compete at one
instant; `escrow_atomic` lets time pass. In `services` the
end of the prize lasts as long as the clock stands at it, so claims come before,
between and after the final payments of that instant.

## 5. Fairness

Weak fairness of timers and callbacks: the IC runs due timers and delivers every
reply or reject of an unbounded-wait call. Strong fairness of a success: a call
that is retried for ever does not fail for ever; without it no retry loop ends.
Time passes. Nothing is assumed of users, finalizers or upgrades: no deposit,
notification, `finalize_cvdr` call or upgrade ever has to happen.

* `CvdrDeletion`: strong fairness of the four replies that may fail and be
  retried; weak fairness of `RandReply` (with `RawRandMayFail` a deletion may be
  lost, finding 2), the job, the sweep and the clock. A certificate never has to
  be fetched: `CaptureResolves` holds because the sweep gives up.
* `Escrow`: strong fairness of the ledger's answer and of a notification's
  arrival.
* `EventSync`: strong fairness of the handling of the request that the caller
  still waits for and of its reply arriving before the timeout. `Lost` and
  timeouts remain possible for ever in between.
* `LocalIndexSync`: strong fairness of handling.
* `GroupMembership`, `PrizeClaims`, `ChatSwap`, `FireAndForget` and
  `FileStorage` state no fairness: their properties are safety, and that work goes on is stated as
  `JobsWake` and `RetriesGoOn` (whatever is left to do has a timer or a
  coroutine).

## 6. Proofs

Every theorem holds for all values of the constants: any users, windows, delays,
swaps and members, any number of upgrades, any bound on the clock. Of the
constants only the named assumptions of the component's module are used.

| Module | Theorem | Statement |
|---|---|---|
| `CvdrDeletionProofs` | `TypeCorrect` | `Spec => []TypeOK` |
| | `LegInvariant` | `Spec => []LegInv` |
| | `LegOnce` | `Spec => []OneLegPerUser` |
| | `DraftBeforeDestruction` | `Spec => []NothingDestroyedEarly` |
| | `OneNotice` | `Spec => []NotifiedOnce` |
| | `RootCertified` | `Spec => []CertifiedIsTree` |
| `CvdrPackageProofs` | `FrozenInvariant` | `Spec => [](LegInv /\ FrozenInv)` |
| | `StagesAgree` | `Spec => []StageMatchesPackage` |
| | `PackagesAreSound` | `Spec => []PackagesVerify` |
| | `DraftsForward` | `Spec => StageForward` |
| | `ReceiptsFixed` | `Spec => ReceiptFixed` |
| | `PipelineImplementsLedger` | `Spec => ImplementsLedger` |
| | `TreeAgrees` | `Spec => []TreeMatchesDrafts` |
| | `OnlyStuckLeave` | `Spec => OnlyStuckDropped` |
| | `JobsStayArmed` | `~RawRandMayFail => (Spec => []JobsArmed)` |
| | `NothingForgotten` | `~RawRandMayFail => (Spec => []NeverForgotten)` |
| `EscrowProofs` | `SwapInvariant` | `Spec => []SwapInv` |
| | `EscrowTypes` | `Spec => []TypeOK` |
| | `CompletedPaid` | `Spec => []CompletedWasPaid` |
| | `JobsKeepArmed` | `Spec => []QueuesArmed` |
| | `RaceInvariant` | `Spec => [](SwapInv /\ RaceInv)` |
| | `ExchangeIsWhole` | `Spec => []ExchangedWhole` |
| | `EscrowIsAtomic` | `Spec => ImplementsAtomicSwap` |
| `GroupMembershipProofs` | `MembershipTypes` | `Spec => []TypeOK` |
| | `MembershipSetsAgree` | `Spec => []SetsAgree` |
| | `MembershipJobsWake` | `Spec => []JobsWake` |
| | `MembershipChecksScheduled` | `Spec => []ChecksScheduled` |
| | `MembershipOwnerRemains` | `Spec => OwnerRemains` |
| `ServicesProofs` | `SwapHasOneTaker` | `SwapSpec => []OneTaker` |
| | `SwapIsTruthful` | `SwapSpec => []TruthfulSwap` |
| | `HandlerRetriesGoOn` | `RetrySpec => []RetriesGoOn` |
| | `StorageBlobsAgree` | `StorageSpec => []BlobsAgree` |
| | `StorageChargedOnce` | `StorageSpec => []ChargedOnce` |
| | `StorageFilesAccounted` | `StorageSpec => []FilesAccounted` |
| | `OnePrizeForEach` | `PrizeSpec => []OnePrizeEach` |
| | `PrizeIsSolvent` | `PrizeSpec => []PrizeSolvent` |
| | `StrandedOnlyByLateClaims` | `PrizeSpec => StrandedByLateClaims` |
| `LocalIndexSyncProofs` | `TypeCorrect` | `Spec => []TypeOK` |
| | `QueueIsExact` | `Spec => []QueueMatchesEvents` |
| | `SyncIsAChannel` | `Spec => ImplementsChannel` |
| `EventSyncProofs` | `SenderInvariant` | `Spec => []SenderInv` |
| | `NoKeyForgotten` | `Spec => []KeysScheduled` |
| | `StreamsInvariant` | `Refusing \cap Reordering = {} => (Spec => []StreamsInv)` |
| | `StreamIsAChannel` | `Refusing \cap Reordering = {} => (Spec => ImplementsChannel)` |

**The delete leg.** `OneLegPerUser` is not inductive: that a user popped from
the queue has no second entry depends on where its draft is, and that a publish
happens once depends on the leg being the only one. `LegInv` adds, for each user
(`UserOK`), how its leg, its draft's stage, its code, its registration and its
notices go together: a leg before `uninstall` has no draft, a leg at or after it
a Captured one, a draft beyond Captured belongs to a user whose mappings and
code are gone and whose notice was pushed once. It holds initially, each action
keeps it (`LegStepQueue` and `OwnUser` for the acting user, `OtherUser` for the
rest, `CaptureStepLeg` for the certificate side, `UpgradeLeg` for recovery,
where the queue grows by exactly the drafts it does not hold), and it implies
the three properties. `CertifiedIsTree` is inductive: every action that changes
the tree sets the certified root in the same message.

**The packages.** `StepDraft` sorts every step of the pipeline by what it does to
a draft: keep it, create it, publish it, give it up, or finalize it together
with storing its package. Everything else in `CvdrPackageProofs` argues about
these five cases and not about the actions. `FrozenInv` adds to `LegInv` that
every stored package verifies and belongs to a committed draft (`PackageOK`),
that a user has at most one, and that a draft in a published stage has one. It
needs `LegInv`: that a publish never touches a draft whose package is stored
rests on the leg of a `Captured` draft being the only one. `StageForward` and
`ReceiptFixed` follow by the cases. For the refinement of `DeletionLedger`
the delivery of `DeleteUser` is a request, `StatusPostReply` that publishes is
the deletion, a capture or `FinalizeCvdr` that stores a package is the
publication, and every other step stutters.

**The tree.** `TreeMatchesDrafts` is inductive beside those two invariants. A
publish replaces the leaf of its own receipt, if there was one, by the body of
now; an upgrade rebuilds the tree from the drafts that did not give up, which is
why the leaves it drops are exactly theirs.

**The jobs.** `JobsArmed` and `NeverForgotten` are false if `raw_rand` may fail
(finding 2), so the two theorems assume that it does not. Their proofs show
that a step that leaves work behind arms the timer, and that the hand-over from
queue to leg to draft never has a gap.

**The escrow.** `SwapInv` says that checks and payments are of swaps that exist,
that a payment which is not a refund is of the agreed amount, between the
offerer and somebody, and of a swap with both deposits (`PaymentOK`), and that a
recorded transfer was made (`RecordedOK`): `CompletedWasPaid` needs the last,
because the ledger executes a transfer a step before the escrow reads the
answer. `KeepInv` states once what a step has to respect, `KeepSwaps` the case
of a step that leaves the swaps alone; then there is a lemma for each action.
These properties survive every race, also those in which a swap is refunded
*and* exchanged.

**The escrow and its races.** The callers are assumed to do nothing in
particular. `RaceInv` says of a swap to which no race happened (`SwapOK`) that it
has one check that may take a deposit, and a deposit one check (`Sole`); that
what `prepare` found still holds when the balance is there, and the balance is
still in the account (`DecidingOK`); that a whole deposit goes back only when it
cannot be exchanged any more (`RefundOK`, `Gone`); and that a deposit which
counts is in its account, or was exchanged, until the swap is over
(`DepositOK`). Each of the three races is the step that breaks one of these:
`overlap` the first and what `prepare` found, `late` that a swap whose expiry job
ran stays over, `again` that a deposit has one check and that nothing of a
deposit that counts goes back. `QuietSteps` sorts the steps of `Next` once by
what they do to swaps, checks and payments, so that the later proofs look only at
the few that do something. `ExchangedWhole` follows from the
invariant. For `EscrowIsAtomic` a step that is a race maps to `Race`, the
check that brings the second deposit to `Agree`, a cancellation or the expiry job
to `End`, the ledger's transfers of an exchange to `Pay`, those of whole refunds
of deposits that count to `Return`, and everything else to no step.

**The members.** Each operation of `GroupMembers` is shown to keep the type and
`MembersAgree` for any record of members that has them, so the proof of a
handler has only to say which operations it makes. `ChecksScheduled` is kept
because a check that takes a member out of the heap puts it in the queue, one
that leaves the queue becomes a call, and the answer of a call lapses the
member or puts it back on the heap; a new gate puts every member on it.
`JobsWake` needs the first entry of the heap to exist, which is proved by
well-foundedness of the natural numbers (`WFMin`). For `OwnerRemains` every
step that makes an owner go is shown to leave another or to be one of the two
exceptions.

**The swap message.** `OneTaker` is not inductive. `SwapInvariant` says that the
reservation is a lock: while the message is reserved there is one coroutine or
one job of the one who holds it, no deposit was confirmed to the group before
that job succeeded, and while the message is open, withdrawn or gone without a
taker none is. Of the escrow it says only what cannot be undone whoever calls
it: a user confirmed to the group is the offerer, or the swap has an accepter,
and an exchange remains one. `EscrowOnly` collects the steps of others, which
change nothing else. `TruthfulSwap` follows from the same invariant, as a
notification in flight states what the escrow can no longer undo.

**The retries.** `RetryInvariant` says that `in_progress` of a target is the set
of ids of its retries in flight and that ids in use are below `next_id`, so a
call that returns is the only one of its id and the entry it leaves empty is
removed.

**The files.** `StorageInv` says that the count of a blob is the cardinality of
its files, that ids are at most the number of files created, and that no file
is pending and stored at once; a new or completed file is therefore counted
once. `FileInserted` and `FilesGo` are the two ways to change a count, for one
file more and for any set of files less; the blobs follow.

**The storage index.** `IndexInv` adds to `StorageInv` that an open user's bytes
are the sizes of the blobs among the user's listed files (`Charged`; the
property itself, `ChargedOnce`, and the type of what is listed). It is kept event
by event: `AddReferenceKeeps` and `RemoveReferenceKeeps` charge a blob exactly
when the set of the user's blobs grows or shrinks, and `BatchHeard` carries that
through the two loops of `c2c_sync_bucket` over a batch of any length. The same
lemma says what the loops do to files: an added file is refused, listed, or
removed again in the batch, and only removed files leave the list.
`FilesAccounted` needs both canisters and both queues. `UserOK` says that a user
is added to the bucket once, and that a user the bucket knows, or will hear of,
and whom the index has removed is one of whose removal the bucket hears later.
`FilesInv` says that ids are unique, that no file of the bucket has its removal
in the queue, and that each file of a known user is `Noted`: its addition is in
the queue, it is in the list, or its refusal is under way. With both queues
empty the last is the property. Two things are less obvious than they look. A
pending file stays in the bucket when its user is removed, and a refusal of it is
then ignored: it never becomes a stored file only because no event to come makes
the bucket know that user again (`Settled`). And a batch that takes a file off
the list holds the file's removal, which the bucket sends only once the file has
left it, so no file of the bucket is taken off.

**The prizes.** `OneClaimEach` says that a claim under way holds the reservation
of its user and that who has a reservation did not win yet; `OnePrizeEach` is
part of it. The two properties about money need what the balance is. While the
prize is not settled, `Untouched` gives it exactly: what the transfers under way
still take, and for every prize that is left its tokens, its share of the fee
and a ledger fee. It is inductive because each step moves the same sum from one
term to another. `CoveredInv` adds that after the settlement the balance covers
everything that is still due: `SettlingLeaves` shows that a settlement pays what
`Untouched` says is there, and that no more than the rounding of the fee
remains. `SettledSteps` shows that afterwards every step takes from the balance
no more than it takes from what is due; a claim after the settlement adds the
same to both `Promised` and `late`, and takes it from `late` again when it fails
(`HistorySteps`). Where the fee was not paid in, `unpaid` stands for it
throughout. The sums are over sets of claims and
transfers that one step extends or shortens by one (`FoldLemmas`).

**The queue without ids.** `SyncInv` is inductive: types, `QueueMatchesEvents`,
calls that are never empty, and `StreamsAgree`, which says that what a
target has handled, then the events of a call not handled yet, then the queued
events, are the pushed events in order. Every step moves events along
this sequence or, for a target that may refuse, drops some; requeueing a batch
puts it back before the newer events. The refinement follows: what a target has
handled is a prefix.

**The stream with ids.** `StreamsInv` says of each target (`StreamAt`), for some
times at which its events were created (`at`): its batch and its items are runs of
consecutive ids, the last ones pushed (`RunOf`); each request on the wire is such a run,
starts no later than the batch and is in the order of sending (`WireOK`), and the
one that is still waited for is the batch (`CallOK`); the checker's timestamp
and ids are those of the last handled event (`CheckerOK`); and no event that may
still come was passed over, that is, each one up to the last handled is handled
(`Complete`). One lemma per way a request leaves the wire keeps this. The
interesting step is `Handle`: `CheckAll` of a run accepts exactly the part
beyond the last handled event, because an earlier event has an older time, or
the same time and a known id. A target that handles requests out of order and
also refuses for good is excluded by assumption (`Refusing \cap Reordering = {}`),
see section 8.

Only model-checked: liveness (fairness and `ENABLED` are outside what the
proof system handles). Induction over data is proved only where a set of numbers
or of finite sets can carry it (`NatSetInduction` of `FoldLemmas`): the loops of
the checker and of the storage index over a batch, and the sums of the prizes and
of the sizes of blobs. The property of finding 1 is refuted and nothing is proved
of it; `NothingForgotten` is that of finding 2 without the failure it needs.

## 7. Findings

1. `cvdr_stuck_receipt_dropped`: an upgrade after the give-up drops a
   `FailedStuck` receipt from the certified tree (`delete_users.rs:331`), which
   the comment at `model/cvdr.rs:472` and section 10 of the build
   specification exclude. The backstop cannot land such a receipt afterwards.
2. `cvdr_raw_rand_trap`: when `raw_rand` fails, `get_random_seed` traps after
   the user was popped and before a draft exists; the deletion is forgotten
   although the module promises a durable, upgrade-surviving machine. The users
   queued behind it wait until something else arms the timer.
3. `escrow_cancel_race`: `process_swap` does not look at the swap again after
   the balance call, so a swap cancelled meanwhile is exchanged as well as
   refunded; one side's transfer then fails at the ledger.
4. `escrow_expiry_instant`: `prepare` and `Swap::status` disagree about the
   millisecond of `expires_at`, with the same effect.

Observed while modelling; no run is about these.

* Prizes. A claim in the millisecond of `end_date`, after the final payments of
  that time, is paid and refunded (`chat_events.rs:1090`).
  `send_message_with_transfer` still accepts a deposit without the fee (`:288`),
  and the final payments pay and return that fee all the same. In both cases the
  tokens of other prize messages in the group pay for it: without `late` or
  without `unpaid` TLC refutes `PrizeSolvent`. `MakeTransferJob` does not retry a
  transfer that the ledger refuses.
* Escrow. A second accepter whose check overlaps the first's overwrites
  `accepted_by`, and the swap completes twice. A deposit that counts and is
  notified again while its swap is open goes back, and the exchange finds its
  account empty. If the expiry job runs during the balance check of the offerer,
  the deposit counts afterwards and no job returns it, until it is notified
  again: without `raced` TLC refutes `DepositLeaves`.
* Swaps. A message may show a swap as cancelled that the escrow accepted and
  exchanged, when the accepter, a stranger or a member whose acceptance failed
  after the deposit, had the escrow notified without the group; the cancellation
  job ignores `SwapAlreadyAccepted` (`timer_job_types.rs:377`). It may show a
  user as taker while `accepted_by` is somebody else, whose check overlapped.
  A sender who accepts the own swap is shown as its taker while the
  escrow accepted nobody. A status notification that arrives before the reply of
  `notify_deposit` leaves the message `Accepted`. A call that fails after its
  deposit opens the reservation again and the deposit stays in the escrow until
  it is notified. The expiry of the message does not cancel in the escrow.
* FireAndForget. The `break` of `next_batch` leaves the inner loop only, so a
  batch over several targets may exceed 50 calls.
* Membership. A check of a member uses the cache of before the look-up queued
  ahead of it, while the comment at `expire_members.rs:137` says that the look-up
  comes first. An expiring gate that is replaced by one that does not expire and
  then removed leaves lapsed members lapsed (`update_group_v2.rs:209`). The
  payment of a lapsed member who rejoins is not queued (`c2c_join_group.rs:149`).
  A user deleted during the await of a join becomes a member.
* Storage. Additions of a batch are applied before its removals, so deleting
  one file and uploading another may evict a third. The eviction of a file that
  is still pending does nothing in the bucket, which completes it: the user then
  stores more than "a byte allowance which they can't exceed"
  (`architecture/doc.md:271`). `forward` reports the owner and time of the
  original, so the index charges the original's owner and never recognizes the
  removal of the copy. Files removed by `c2c_sync_index` are returned to an
  index that ignores the reply. `remove_accessor` lowers a count twice, but has
  no caller in the repository. `expiration_queue` is not restored by an upgrade.

## 8. Not modelled, and known limits

* Per deployment: the frozen log filling up, the HTTP gateway, signatures and
  hashing; `upgrade_users` racing an uninstall.
* Escrow: `c2c_set_token_enabled` and token checks of `create_swap`, the second
  attempt of a transfer with a corrected fee, swap admins other than the
  offerer (any admin may cancel), and sums above the ledgers' width. What a swap
  comes to after a race is modelled, but no property is about it beyond
  `CompletedWasPaid` and `QueuesArmed`.
* EventSync: `clear` and changing the limits while events flow (no callers). A
  target that both refuses for good and reorders is excluded: a refusal for
  good means that its canister is gone.
* LocalIndexSync: the three operations of the queue that have no caller.
* GroupMembership: payments of gates, frozen and private groups, rules,
  permissions other than those of membership, import into a community.
* PrizeClaims and ChatSwap: who may claim, direct chats and communities (which
  repeat the group's code), the import of a message into a community. In
  `ChatSwap` the escrow is cancelled by the group's job only, while its other
  admins may cancel directly; its amounts, refunds and races are those of
  `Escrow`.
* FireAndForget: when a call is due and how many a batch takes.
* FileStorage: accessors, changes of a principal or a byte limit, the expiry's
  timing, totals, several buckets, their allocation, top-up and upgrade. A user
  is added once (`user_index` adds and removes by separate queues, so a delayed
  configuration may add a removed user again, with no bytes used).
* The remaining components of section 1, in the order of section 2: the order
  of `TimerJobQueue`, the cycles dispenser, upgrades of child canisters, direct
  chats, communities, MKTd02 (its engine is an external crate) with the
  receipts. PROJECT.json gives the reason for each.
