---------------------------- MODULE CvdrDeletion ----------------------------
(***************************************************************************)
(* The user-deletion pipeline of the local_user_index canister and the     *)
(* certified deletion receipt (CVDR) each deletion leaves behind:          *)
(*                                                                         *)
(*   jobs/delete_users.rs        the delete leg: capture, uninstall,       *)
(*                               publish, clean up, resume after upgrade   *)
(*   jobs/self_finalize_cvdr.rs  the sweep that captures the certificate   *)
(*   updates/finalize_cvdr.rs    the permissionless backstop               *)
(*   model/cvdr.rs               drafts, receipt tree, frozen packages     *)
(*                                                                         *)
(* A canister runs one message at a time, so an action is one message: a   *)
(* timer, an incoming call, or the callback after an await.  A user id is  *)
(* also the id of the user's canister.  A hash is the record it hashes and *)
(* a tree root is the set of leaves under it, both injective.              *)
(***************************************************************************)
EXTENDS Naturals, Sequences, FiniteSets

CONSTANTS
    Users,              \* user ids known to this index
    LocalUsers,         \* those whose canister this index owns
    NoDraft,            \* no draft stored under a key
    Window,             \* ALLOWED_FINALIZATION_WINDOW_NS, in clock ticks
    GiveUp,             \* FINALIZE_GIVE_UP_MS, in clock ticks
    MaxOffset,          \* CERT_MAX_OFFSET_MS, in clock ticks
    FirstDelay,         \* backoff_ms(0), in clock ticks
    RetryDelay,         \* backoff_ms(n), n > 0, in clock ticks
    RawRandMayFail,     \* may the management canister's raw_rand fail?
    MaxTime,            \* bound: the clock stops here
    MaxUpgrades         \* bound on upgrades of the index

ASSUME ConstantsAssumption ==
    /\ IsFiniteSet(Users) /\ LocalUsers \subseteq Users
    /\ {Window, GiveUp, MaxOffset, FirstDelay, RetryDelay} \subseteq Nat
    /\ RawRandMayFail \in BOOLEAN
    /\ MaxTime \in Nat /\ MaxUpgrades \in Nat

VARIABLES
    now,            \* IC consensus time; 0 is the "unset" timestamp of a draft
    upgrades,       \* upgrades of the index so far
    requested,      \* users whose DeleteUser event was delivered
    globalUsers,    \* state.data.global_users
    localUsers,     \* state.data.local_users
    installed,      \* user canisters that hold code
    queue,          \* users_to_delete_queue
    deleteTimer,    \* is the delete job's TIMER_ID set?
    leg,            \* the process_user coroutine of a user: what it awaits
                    \* and the deletion_seq it holds
    nextSeq,        \* cvdr_next_deletion_seq
    draft,          \* cvdr.drafts, by user canister id (stable memory)
    tree,           \* cvdr_receipt_tree (heap)
    certified,      \* certified_data: the root last set, {} when cleared
    certs,          \* certificates the subnet issued that are still fresh
    notices,        \* NotifyOfUserDeleted chains pushed, per user
    sweepTimer,     \* is the sweep's TIMER_ID set?
    fetching,       \* attempt_finalize coroutines in flight, per user
    frozen          \* the frozen-package store (stable memory)

legVars   == <<requested, globalUsers, localUsers, installed, queue,
               deleteTimer, leg, nextSeq, notices>>
treeVars  == <<tree, certified, certs>>
sweepVars == <<sweepTimer, fetching, frozen>>
vars == <<now, upgrades, legVars, draft, treeVars, sweepVars>>

-----------------------------------------------------------------------------
(* Data *)

LegPoint == {"idle", "groups", "statusPre", "rand", "uninstall", "statusPost"}

DraftStage == {"Captured", "Uninstalled", "AwaitingCertificate",
               "CertificateCaptured", "LateFinalized", "FailedStuck"}
RepublishAll == DraftStage   \* mutant
Republished == {"Uninstalled", "AwaitingCertificate"}
Terminal == {"CertificateCaptured", "LateFinalized", "FailedStuck"}

CvdrDraft == [stage : DraftStage, seq : Nat, uninstalledAt : Nat,
              committedAt : Nat, attempt : Nat, lastAttemptAt : Nat,
              scrubbed : BOOLEAN]

ASSUME NoDraftAssumption == NoDraft \notin CvdrDraft

\* A leaf of the receipt tree.  user and seq are the receipt id, the rest is
\* the hashed body: once a draft is scrubbed of its salt and targets, another
\* body is computed.
Leaf == [user : Users, seq : Nat, uninstalledAt : Nat, committedAt : Nat,
         scrubbed : BOOLEAN]

LeafOf(u, d) == [user |-> u, seq |-> d.seq, uninstalledAt |-> d.uninstalledAt,
                 committedAt |-> d.committedAt, scrubbed |-> d.scrubbed]

SameReceipt(l, m) == l.user = m.user /\ l.seq = m.seq

Certificate == [root : SUBSET Leaf, time : Nat]
Package == [leaf : Leaf, root : SUBSET Leaf, time : Nat]

Drafted == {u \in Users : draft[u] # NoDraft}
Awaiting == {u \in Drafted : draft[u].stage = "AwaitingCertificate"}
IsFinalizable(d) == d.stage \in {"AwaitingCertificate", "FailedStuck"}

\* ReceiptTree::insert: one leaf per receipt id.
Insert(t, l) == {m \in t : ~SameReceipt(m, l)} \union {l}

\* certified_data_set(root): certificates over the new root can be issued.
SetCertified(root) ==
    /\ certified' = root
    /\ certs' = certs \union {[root |-> root, time |-> now]}

\* verify_finalization_package: fresh, the leaf is under the certified root,
\* not issued before the commit; then the window splits what verified.
VerifiedAnyRoot(u, c) == draft[u].committedAt <= c.time   \* mutant
Verified(u, c) ==
    /\ now <= c.time + MaxOffset
    /\ LeafOf(u, draft[u]) \in c.root
    /\ draft[u].committedAt <= c.time
InWindow(u, c) == c.time <= draft[u].committedAt + Window

HasPackage(u) == \E p \in frozen : SameReceipt(p.leaf, LeafOf(u, draft[u]))

\* FrozenPackageStore::insert: a second package for a receipt is refused.
InsertFrozen(u, c) ==
    frozen' = IF HasPackage(u) THEN frozen
              ELSE frozen \union {[leaf |-> LeafOf(u, draft[u]),
                                   root |-> c.root, time |-> c.time]}

\* The draft is kept, without its salt and its list of targets.
Scrubbed(d, s) == [d EXCEPT !.stage = s, !.scrubbed = TRUE]

Queued(u) == \E i \in DOMAIN queue : queue[i] = u
InFlight(u) == leg[u].at # "idle"

-----------------------------------------------------------------------------
Init ==
    /\ now = 1 /\ upgrades = 0 /\ requested = {} /\ nextSeq = 0
    /\ globalUsers = Users /\ localUsers = LocalUsers
    /\ installed = LocalUsers
    /\ queue = <<>> /\ deleteTimer = FALSE /\ sweepTimer = FALSE
    /\ leg = [u \in Users |-> [at |-> "idle", seq |-> 0]]
    /\ draft = [u \in Users |-> NoDraft]
    /\ tree = {} /\ certified = {} /\ certs = {} /\ frozen = {}
    /\ notices = [u \in Users |-> 0]
    /\ fetching = [u \in Users |-> 0]

-----------------------------------------------------------------------------
(* The delete leg *)

\* push_back and start_job_if_required.
EnqueueLost(u) == UNCHANGED queue /\ deleteTimer' = (queue # <<>>)   \* mutant
Enqueue(u) == queue' = Append(queue, u) /\ deleteTimer' = TRUE

\* UserIndexEvent::DeleteUser.  The user_index removes a user once and pushes
\* the event once, so it reaches this index once per user.
DeleteUser(u) ==
    /\ u \notin requested
    /\ requested' = requested \union {u}
    /\ IF u \in localUsers
       THEN Enqueue(u) /\ UNCHANGED globalUsers
       ELSE /\ globalUsers' = globalUsers \ {u}
            /\ UNCHANGED <<queue, deleteTimer>>
    /\ UNCHANGED <<now, upgrades, localUsers, installed, leg, nextSeq,
                   notices, draft, treeVars, sweepVars>>

\* run() takes the user at the front; the timer is armed only over a
\* non-empty queue that nothing else pops.
Pop(u) == deleteTimer /\ queue # <<>> /\ u = Head(queue) /\ queue' = Tail(queue)

DoneUnarmed ==   \* mutant
    /\ sweepTimer' = sweepTimer
    /\ deleteTimer' = (queue' # <<>>)

\* apply_outcome for AwaitingCertificate, and the end of process_user.
Done ==
    /\ sweepTimer' = (sweepTimer \/ \E v \in Users :
          draft'[v] # NoDraft /\ draft'[v].stage = "AwaitingCertificate")
    /\ deleteTimer' = (queue' # <<>>)

CompleteDeletion(u) ==
    /\ globalUsers' = globalUsers \ {u}
    /\ localUsers' = localUsers \ {u}
    /\ notices' = [notices EXCEPT ![u] = @ + 1]

\* The clean-up runs on the first publish only.
EveryPublish(d) == TRUE   \* mutant
NoPublish(d) == FALSE   \* mutant
FirstPublish(d) == d.stage # "AwaitingCertificate"
CommitNow(d) == now   \* mutant
CommitTime(d) == IF d.committedAt = 0 THEN now ELSE d.committedAt

\* advance_publish for draft d of u: commit time, tree, root, stage and the
\* first time the clean-up, in one message.
AdvancePublish(u, d) ==
    LET p == [d EXCEPT !.committedAt = CommitTime(d),
                       !.stage = "AwaitingCertificate"]
    IN  /\ draft' = [draft EXCEPT ![u] = p]
        /\ tree' = Insert(tree, LeafOf(u, p))
        /\ SetCertified(tree')
        /\ IF FirstPublish(d)
           THEN CompleteDeletion(u)
           ELSE UNCHANGED <<globalUsers, localUsers, notices>>

\* A popped user without a draft: ask the user canister for its groups and
\* communities.
StartCapture(u) ==
    /\ Pop(u) /\ draft[u] = NoDraft
    /\ deleteTimer' = FALSE
    /\ leg' = [leg EXCEPT ![u].at = "groups"]
    /\ UNCHANGED <<now, upgrades, requested, globalUsers, localUsers,
                   installed, nextSeq, notices, draft, treeVars, sweepVars>>

\* A popped user whose draft is Captured: uninstall the canister.
StartUninstall(u) ==
    /\ Pop(u) /\ draft[u] # NoDraft /\ draft[u].stage = "Captured"
    /\ deleteTimer' = FALSE
    /\ leg' = [leg EXCEPT ![u].at = "uninstall"]
    /\ UNCHANGED <<now, upgrades, requested, globalUsers, localUsers,
                   installed, nextSeq, notices, draft, treeVars, sweepVars>>

\* A popped user already published (after an upgrade): publish again.
Republish(u) ==
    /\ Pop(u) /\ draft[u] # NoDraft
    /\ draft[u].stage \in Republished
    /\ AdvancePublish(u, draft[u])
    /\ Done
    /\ UNCHANGED <<now, upgrades, requested, installed, leg, nextSeq,
                   fetching, frozen>>

\* A popped user whose draft is terminal: nothing is left to do.
SkipTerminal(u) ==
    /\ Pop(u) /\ draft[u] # NoDraft /\ draft[u].stage \in Terminal
    /\ UNCHANGED draft
    /\ Done
    /\ UNCHANGED <<now, upgrades, requested, globalUsers, localUsers,
                   installed, leg, nextSeq, notices, treeVars, fetching, frozen>>

\* The user canister answered; only installed code can.
GroupsReply(u) ==
    /\ leg[u].at = "groups" /\ u \in installed
    /\ leg' = [leg EXCEPT ![u].at = "statusPre"]
    /\ UNCHANGED <<now, upgrades, requested, globalUsers, localUsers,
                   installed, queue, deleteTimer, nextSeq, notices, draft,
                   treeVars, sweepVars>>

\* canister_status answered: the sequence number is taken before the await of
\* raw_rand.
StatusPreReply(u) ==
    /\ leg[u].at = "statusPre"
    /\ leg' = [leg EXCEPT ![u] = [at |-> "rand", seq |-> nextSeq]]
    /\ nextSeq' = nextSeq + 1
    /\ UNCHANGED <<now, upgrades, requested, globalUsers, localUsers,
                   installed, queue, deleteTimer, notices, draft, treeVars,
                   sweepVars>>

RandReplyUnsaved(u) ==   \* mutant
    /\ leg[u].at = "rand"
    /\ leg' = [leg EXCEPT ![u].at = "uninstall"]
    /\ UNCHANGED <<now, upgrades, requested, globalUsers, localUsers,
                   installed, queue, deleteTimer, nextSeq, notices, draft,
                   treeVars, sweepVars>>

\* raw_rand answered: the Captured draft is stored, then the canister is
\* uninstalled.
RandReply(u) ==
    /\ leg[u].at = "rand"
    /\ draft' = [draft EXCEPT ![u] =
          [stage |-> "Captured", seq |-> leg[u].seq, uninstalledAt |-> 0,
           committedAt |-> 0, attempt |-> 0, lastAttemptAt |-> 0,
           scrubbed |-> FALSE]]
    /\ leg' = [leg EXCEPT ![u].at = "uninstall"]
    /\ UNCHANGED <<now, upgrades, requested, globalUsers, localUsers,
                   installed, queue, deleteTimer, nextSeq, notices, treeVars,
                   sweepVars>>

\* raw_rand failed: get_random_seed traps and the coroutine is gone.
RandTraps(u) ==
    /\ RawRandMayFail /\ leg[u].at = "rand"
    /\ leg' = [leg EXCEPT ![u].at = "idle"]
    /\ UNCHANGED <<now, upgrades, requested, globalUsers, localUsers,
                   installed, queue, deleteTimer, nextSeq, notices, draft,
                   treeVars, sweepVars>>

UninstallReply(u) ==
    /\ leg[u].at = "uninstall"
    /\ installed' = installed \ {u}
    /\ leg' = [leg EXCEPT ![u].at = "statusPost"]
    /\ UNCHANGED <<now, upgrades, requested, globalUsers, localUsers, queue,
                   deleteTimer, nextSeq, notices, draft, treeVars, sweepVars>>

\* canister_status confirms that no module is left: Uninstalled, whatever the
\* stored stage is, and published in the same message.
StatusPostReply(u) ==
    /\ leg[u].at = "statusPost" /\ u \notin installed /\ draft[u] # NoDraft
    /\ AdvancePublish(u, [draft[u] EXCEPT
          !.uninstalledAt = IF @ = 0 THEN now ELSE @,
          !.stage = "Uninstalled"])
    /\ leg' = [leg EXCEPT ![u].at = "idle"]
    /\ UNCHANGED queue
    /\ Done
    /\ UNCHANGED <<now, upgrades, requested, installed, nextSeq, fetching, frozen>>

\* A failed call of the leg: the user goes to the back of the queue.
LegRetry(u) ==
    /\ leg[u].at \in {"groups", "statusPre", "uninstall", "statusPost"}
    /\ leg' = [leg EXCEPT ![u].at = "idle"]
    /\ Enqueue(u)
    /\ UNCHANGED <<now, upgrades, requested, globalUsers, localUsers,
                   installed, nextSeq, notices, draft, treeVars, sweepVars>>

-----------------------------------------------------------------------------
(* Certificate capture *)

DueAt(d) == IF d.attempt = 0 THEN d.committedAt + FirstDelay
                             ELSE d.lastAttemptAt + RetryDelay

\* run_sweep: give up on old receipts, reserve an attempt for the due ones.
RunSweep ==
    LET stuck == {u \in Awaiting : now > draft[u].committedAt + GiveUp}
        due   == {u \in Awaiting \ stuck : now >= DueAt(draft[u])}
    IN  /\ sweepTimer
        /\ draft' = [u \in Users |->
              IF u \in stuck THEN [draft[u] EXCEPT !.stage = "FailedStuck"]
              ELSE IF u \in due THEN [draft[u] EXCEPT !.attempt = @ + 1,
                                                      !.lastAttemptAt = now]
              ELSE draft[u]]
        /\ fetching' = [u \in Users |->
              IF u \in due THEN fetching[u] + 1 ELSE fetching[u]]
        /\ sweepTimer' = (Awaiting \ stuck # {})
        /\ UNCHANGED <<now, upgrades, legVars, treeVars, frozen>>

\* attempt_finalize got certificate c for u and the draft, read again, still
\* awaits it: an in-window package is stored.
CaptureCertificate(u, c) ==
    /\ fetching[u] > 0
    /\ u \in Awaiting /\ Verified(u, c) /\ InWindow(u, c)
    /\ InsertFrozen(u, c)
    /\ draft' = [draft EXCEPT ![u] = Scrubbed(@, "CertificateCaptured")]
    /\ fetching' = [fetching EXCEPT ![u] = @ - 1]
    /\ UNCHANGED <<now, upgrades, legVars, treeVars, sweepTimer>>

AttemptMissUnreserved(u) ==   \* mutant
    /\ fetching' = [fetching EXCEPT ![u] = @ - 1]
    /\ UNCHANGED <<now, upgrades, legVars, draft, treeVars, sweepTimer, frozen>>

\* The fetch failed, or its answer is rejected, late, too late for the draft
\* or finds the log full: nothing is stored.
AttemptMiss(u) ==
    /\ fetching[u] > 0
    /\ fetching' = [fetching EXCEPT ![u] = @ - 1]
    /\ UNCHANGED <<now, upgrades, legVars, draft, treeVars, sweepTimer, frozen>>

StageForCaptured(u, c) == "CertificateCaptured"   \* mutant
StageFor(u, c) == IF InWindow(u, c) THEN "CertificateCaptured" ELSE "LateFinalized"

\* finalize_cvdr with certificate c.  Refusals change nothing.
FinalizeCvdr(u, c) ==
    /\ u \in Drafted /\ IsFinalizable(draft[u])
    /\ ~HasPackage(u)
    /\ Verified(u, c)
    /\ InsertFrozen(u, c)
    /\ draft' = [draft EXCEPT ![u] = Scrubbed(@, StageFor(u, c))]
    /\ UNCHANGED <<now, upgrades, legVars, treeVars, sweepTimer, fetching>>

-----------------------------------------------------------------------------
(* Upgrade and time *)

\* The sequences that hold each element of S once.
Orders(S) == {s \in [1..Cardinality(S) -> S] :
                 \A i, j \in 1..Cardinality(S) : s[i] = s[j] => i = j}

\* The drafts to queue again.
AllDrafts == Drafted   \* mutant
LostByQueue == {u \in Drafted : ~Queued(u)}

\* The tree resume_in_flight_drafts rebuilds.
TreeOfFrozen == {p.leaf : p \in frozen}   \* mutant
TreeOfAwaiting == {LeafOf(u, draft[u]) : u \in Awaiting}   \* mutant
RebuiltTree == {p.leaf : p \in frozen} \union {LeafOf(u, draft[u]) : u \in Awaiting}

\* stop_canister waits for every outstanding callback, then post_upgrade
\* rebuilds the tree, queues the drafts again and arms the timers.
Upgrade ==
    /\ upgrades < MaxUpgrades
    /\ \A u \in Users : ~InFlight(u) /\ fetching[u] = 0
    /\ upgrades' = upgrades + 1
    /\ tree' = RebuiltTree
    /\ SetCertified(tree')
    /\ \E missing \in Orders(LostByQueue) : queue' = queue \o missing
    /\ deleteTimer' = (queue' # <<>>)
    /\ sweepTimer' = (Awaiting # {})
    /\ UNCHANGED <<now, requested, globalUsers, localUsers, installed, leg,
                   nextSeq, notices, draft, fetching, frozen>>

\* Certificates that can no longer pass the freshness check are forgotten.
Tick ==
    /\ now < MaxTime
    /\ now' = now + 1
    /\ certs' = {c \in certs : now' <= c.time + MaxOffset}
                  \union {[root |-> certified, time |-> now']}
    /\ UNCHANGED <<upgrades, legVars, draft, tree, certified, sweepVars>>

LegStep(u) ==
    \/ DeleteUser(u) \/ StartCapture(u) \/ StartUninstall(u)
    \/ Republish(u) \/ SkipTerminal(u) \/ GroupsReply(u)
    \/ StatusPreReply(u) \/ RandReply(u) \/ RandTraps(u)
    \/ UninstallReply(u) \/ StatusPostReply(u) \/ LegRetry(u)

CaptureStep ==
    \/ RunSweep
    \/ \E u \in Users : AttemptMiss(u)
    \/ \E u \in Users, c \in certs : CaptureCertificate(u, c) \/ FinalizeCvdr(u, c)

Next == (\E u \in Users : LegStep(u)) \/ CaptureStep \/ Upgrade \/ Tick

Spec == Init /\ [][Next]_vars

\* Timers fire, callbacks run, and a call that is retried for ever does not
\* fail for ever.  Nothing makes a finalizer or an upgrade arrive.
Fairness ==
    /\ \A u \in Users :
          /\ WF_vars(StartCapture(u)) /\ WF_vars(StartUninstall(u))
          /\ WF_vars(Republish(u)) /\ WF_vars(SkipTerminal(u))
          /\ WF_vars(RandReply(u))
          /\ SF_vars(GroupsReply(u)) /\ SF_vars(StatusPreReply(u))
          /\ SF_vars(UninstallReply(u)) /\ SF_vars(StatusPostReply(u))
          /\ WF_vars(AttemptMiss(u))
    /\ WF_vars(RunSweep)
    /\ WF_vars(Tick)

FairSpec == Spec /\ Fairness
=============================================================================
