------------------------- MODULE CvdrDeletionProofs -------------------------
(***************************************************************************)
(* Proofs about the deletion pipeline, for every set of users, every       *)
(* window and every number of upgrades.                                    *)
(***************************************************************************)
EXTENDS CvdrDeletionProps, FiniteSetTheorems, TLAPS

Before(u) == draft[u] = NoDraft \/ draft[u].stage = "Captured"
After(u) == draft[u] # NoDraft /\ draft[u].stage # "Captured"

\* How the leg, the draft and the accounts of one user go together.
UserOK(u) ==
    /\ InFlight(u) => u \in requested /\ u \in LocalUsers
    /\ leg[u].at \in {"groups", "statusPre", "rand"} => draft[u] = NoDraft
    /\ leg[u].at \in {"uninstall", "statusPost"} =>
          draft[u] # NoDraft /\ draft[u].stage = "Captured"
    /\ draft[u] # NoDraft => /\ u \in requested /\ u \in LocalUsers
                             /\ draft[u].stage # "Uninstalled"
                             /\ draft[u].scrubbed <=>
                                  draft[u].stage \in {"CertificateCaptured", "LateFinalized"}
    /\ Before(u) /\ u \in LocalUsers => u \in localUsers /\ notices[u] = 0
    /\ Before(u) /\ draft[u] # NoDraft => draft[u].committedAt = 0
    /\ draft[u] = NoDraft /\ u \in LocalUsers => u \in installed
    /\ After(u) => /\ u \notin localUsers /\ u \notin installed
                   /\ draft[u].committedAt > 0 /\ draft[u].uninstalledAt > 0
                   /\ notices[u] = 1

QueueOK ==
    /\ OneLegPerUser
    /\ \A i \in DOMAIN queue : queue[i] \in requested /\ queue[i] \in LocalUsers

LegInv == TypeOK /\ now > 0 /\ QueueOK /\ \A u \in Users : UserOK(u)

USE DEF vars, legVars, treeVars, sweepVars

-----------------------------------------------------------------------------
\* The orders of a finite set are sequences over it.
LEMMA OrdersAreSeqs ==
    ASSUME NEW S \in SUBSET Users, NEW s \in Orders(S)
    PROVE  /\ s \in Seq(Users) /\ \A i \in DOMAIN s : s[i] \in S
           /\ \A i, j \in DOMAIN s : s[i] = s[j] => i = j
<1>1. IsFiniteSet(S) /\ Cardinality(S) \in Nat
    BY ConstantsAssumption, FS_Subset, FS_CardinalityType
<1>2. s \in [1..Cardinality(S) -> S]
    BY DEF Orders
<1>3. s \in Seq(S)
    BY <1>1, <1>2
<1> QED
    BY <1>1, <1>2, <1>3 DEF Orders

\* A leaf built from a draft is a leaf.
LEMMA LeafOfType ==
    ASSUME NEW u \in Users, NEW d \in CvdrDraft
    PROVE  LeafOf(u, d) \in Leaf
BY DEF LeafOf, Leaf, CvdrDraft

\* What advance_publish does to the types.
LEMMA AdvancePublishType ==
    ASSUME TypeOK, NEW u \in Users, NEW d \in CvdrDraft, AdvancePublish(u, d)
    PROVE  /\ draft' \in [Users -> CvdrDraft \union {NoDraft}]
           /\ tree' \subseteq Leaf /\ certified' \subseteq Leaf
           /\ certs' \subseteq Certificate
           /\ globalUsers' \subseteq Users /\ localUsers' \subseteq LocalUsers
           /\ notices' \in [Users -> Nat]
<1> DEFINE p == [d EXCEPT !.committedAt = CommitTime(d), !.stage = "AwaitingCertificate"]
<1>1. p \in CvdrDraft
    BY DEF CvdrDraft, CommitTime, TypeOK, DraftStage
<1>2. draft' = [draft EXCEPT ![u] = p] /\ tree' = Insert(tree, LeafOf(u, p))
      /\ SetCertified(tree')
    BY DEF AdvancePublish
<1>3. tree' \subseteq Leaf
    BY <1>1, <1>2, LeafOfType DEF Insert, TypeOK
<1>4. certified' \subseteq Leaf /\ certs' \subseteq Certificate
    BY <1>2, <1>3 DEF SetCertified, Certificate, TypeOK
<1>5. /\ globalUsers' \subseteq Users /\ localUsers' \subseteq LocalUsers
      /\ notices' \in [Users -> Nat]
  <2>1. CASE FirstPublish(d)
    <3>1. CompleteDeletion(u)
        BY <2>1 DEF AdvancePublish
    <3>2. [notices EXCEPT ![u] = @ + 1] \in [Users -> Nat]
        BY DEF TypeOK
    <3> QED
        BY <3>1, <3>2 DEF CompleteDeletion, TypeOK
  <2>2. CASE ~FirstPublish(d)
      BY <2>2 DEF AdvancePublish, TypeOK
  <2> QED
      BY <2>1, <2>2
<1> QED
    BY <1>1, <1>2, <1>3, <1>4, <1>5 DEF TypeOK

-----------------------------------------------------------------------------
(* Types *)

LEMMA InitType == ASSUME Init PROVE TypeOK
<1>1. /\ leg \in [Users -> [at : LegPoint, seq : Nat]]
      /\ draft \in [Users -> CvdrDraft \union {NoDraft}]
      /\ notices \in [Users -> Nat] /\ fetching \in [Users -> Nat]
    BY DEF Init, LegPoint
<1>2. queue \in Seq(Users)
    BY DEF Init
<1> QED
    BY <1>1, <1>2, ConstantsAssumption DEF Init, TypeOK

LEMMA PopType ==
    ASSUME TypeOK, NEW u \in Users, Pop(u)
    PROVE  queue' \in Seq(Users)
BY DEF Pop, TypeOK

LEMMA EnqueueType ==
    ASSUME TypeOK, NEW u \in Users, Enqueue(u)
    PROVE  queue' \in Seq(Users) /\ deleteTimer' \in BOOLEAN
BY DEF Enqueue, TypeOK

LEMMA LegStepType ==
    ASSUME TypeOK, NEW u \in Users, LegStep(u)
    PROVE  TypeOK'
<1>1. CASE DeleteUser(u)
  <2>1. queue' \in Seq(Users) /\ deleteTimer' \in BOOLEAN
      BY <1>1, EnqueueType DEF DeleteUser, TypeOK
  <2> QED
      BY <1>1, <2>1 DEF DeleteUser, TypeOK
<1>2. CASE StartCapture(u)
    BY <1>2, PopType DEF StartCapture, TypeOK, LegPoint
<1>3. CASE StartUninstall(u)
    BY <1>3, PopType DEF StartUninstall, TypeOK, LegPoint
<1>4. CASE Republish(u)
  <2>1. draft[u] \in CvdrDraft
      BY <1>4 DEF Republish, TypeOK
  <2>2. AdvancePublish(u, draft[u])
      BY <1>4 DEF Republish
  <2>3. queue' \in Seq(Users) /\ deleteTimer' \in BOOLEAN /\ sweepTimer' \in BOOLEAN
      BY <1>4, PopType DEF Republish, Done, TypeOK
  <2> QED
      BY <1>4, <2>1, <2>2, <2>3, AdvancePublishType DEF Republish, TypeOK
<1>5. CASE SkipTerminal(u)
    BY <1>5, PopType DEF SkipTerminal, Done, TypeOK
<1>6. CASE GroupsReply(u)
    BY <1>6 DEF GroupsReply, TypeOK, LegPoint
<1>7. CASE StatusPreReply(u)
    BY <1>7 DEF StatusPreReply, TypeOK, LegPoint
<1>8. CASE RandReply(u)
    BY <1>8 DEF RandReply, TypeOK, LegPoint, CvdrDraft, DraftStage
<1>9. CASE RandTraps(u)
    BY <1>9 DEF RandTraps, TypeOK, LegPoint
<1>10. CASE UninstallReply(u)
    BY <1>10 DEF UninstallReply, TypeOK, LegPoint
<1>11. CASE StatusPostReply(u)
  <2> DEFINE d == [draft[u] EXCEPT !.uninstalledAt = IF @ = 0 THEN now ELSE @,
                                   !.stage = "Uninstalled"]
  <2>1. d \in CvdrDraft
      BY <1>11 DEF StatusPostReply, TypeOK, CvdrDraft, DraftStage
  <2>2. AdvancePublish(u, d)
      BY <1>11 DEF StatusPostReply
  <2>3. /\ deleteTimer' \in BOOLEAN /\ sweepTimer' \in BOOLEAN
        /\ leg' \in [Users -> [at : LegPoint, seq : Nat]]
      BY <1>11 DEF StatusPostReply, Done, TypeOK, LegPoint
  <2> HIDE DEF d
  <2> QED
      BY <1>11, <2>1, <2>2, <2>3, AdvancePublishType DEF StatusPostReply, TypeOK
<1>12. CASE LegRetry(u)
  <2>1. queue' \in Seq(Users) /\ deleteTimer' \in BOOLEAN
      BY <1>12, EnqueueType DEF LegRetry
  <2> QED
      BY <1>12, <2>1 DEF LegRetry, TypeOK, LegPoint
<1> QED
    BY <1>1, <1>2, <1>3, <1>4, <1>5, <1>6, <1>7, <1>8, <1>9, <1>10, <1>11, <1>12
    DEF LegStep

\* A package built from a fresh certificate is a package.
LEMMA InsertFrozenType ==
    ASSUME TypeOK, NEW u \in Users, NEW c \in certs, draft[u] \in CvdrDraft,
           InsertFrozen(u, c)
    PROVE  frozen' \subseteq Package
<1>1. c \in Certificate /\ LeafOf(u, draft[u]) \in Leaf
    BY LeafOfType DEF TypeOK
<1>2. [leaf |-> LeafOf(u, draft[u]), root |-> c.root, time |-> c.time] \in Package
    BY <1>1 DEF Package, Certificate
<1> QED
    BY <1>2 DEF InsertFrozen, TypeOK

LEMMA CaptureStepType ==
    ASSUME TypeOK, CaptureStep
    PROVE  TypeOK'
<1>1. CASE RunSweep
  <2>1. ASSUME NEW d \in CvdrDraft
        PROVE  /\ [d EXCEPT !.stage = "FailedStuck"] \in CvdrDraft
               /\ [d EXCEPT !.attempt = @ + 1, !.lastAttemptAt = now] \in CvdrDraft
    <3>1. [d EXCEPT !.stage = "FailedStuck"] \in CvdrDraft
        BY DEF CvdrDraft, DraftStage
    <3>2. d.attempt + 1 \in Nat /\ now \in Nat
        BY DEF CvdrDraft, TypeOK
    <3>3. [d EXCEPT !.attempt = @ + 1, !.lastAttemptAt = now] \in CvdrDraft
        BY <3>2 DEF CvdrDraft
    <3> QED
        BY <3>1, <3>3
  <2>2. draft' \in [Users -> CvdrDraft \union {NoDraft}]
      BY <1>1, <2>1 DEF RunSweep, TypeOK, Awaiting, Drafted
  <2>3. fetching' \in [Users -> Nat] /\ sweepTimer' \in BOOLEAN
    <3>1. sweepTimer' \in BOOLEAN
        BY <1>1 DEF RunSweep
    <3>2. \A u \in Users : fetching[u] + 1 \in Nat /\ fetching[u] \in Nat
        BY DEF TypeOK
    <3> QED
        BY <1>1, <3>1, <3>2 DEF RunSweep
  <2> QED
      BY <1>1, <2>2, <2>3 DEF RunSweep, TypeOK
<1>2. ASSUME NEW u \in Users, AttemptMiss(u) PROVE TypeOK'
    BY <1>2 DEF AttemptMiss, TypeOK
<1>3. ASSUME NEW u \in Users, NEW c \in certs, CaptureCertificate(u, c) PROVE TypeOK'
  <2>1. draft[u] \in CvdrDraft
      BY <1>3 DEF CaptureCertificate, Awaiting, Drafted, TypeOK
  <2>2. frozen' \subseteq Package
      BY <1>3, <2>1, InsertFrozenType DEF CaptureCertificate
  <2>3. Scrubbed(draft[u], "CertificateCaptured") \in CvdrDraft
      BY <2>1 DEF Scrubbed, CvdrDraft, DraftStage
  <2> QED
      BY <1>3, <2>2, <2>3 DEF CaptureCertificate, TypeOK
<1>4. ASSUME NEW u \in Users, NEW c \in certs, FinalizeCvdr(u, c) PROVE TypeOK'
  <2>1. draft[u] \in CvdrDraft
      BY <1>4 DEF FinalizeCvdr, Drafted, TypeOK
  <2>2. frozen' \subseteq Package
      BY <1>4, <2>1, InsertFrozenType DEF FinalizeCvdr
  <2>3. Scrubbed(draft[u], StageFor(u, c)) \in CvdrDraft
      BY <2>1 DEF Scrubbed, StageFor, CvdrDraft, DraftStage
  <2> QED
      BY <1>4, <2>2, <2>3 DEF FinalizeCvdr, TypeOK
<1> QED
    BY <1>1, <1>2, <1>3, <1>4 DEF CaptureStep

LEMMA UpgradeType ==
    ASSUME TypeOK, Upgrade
    PROVE  TypeOK'
<1>1. tree' \subseteq Leaf
  <2>1. {p.leaf : p \in frozen} \subseteq Leaf
      BY DEF TypeOK, Package
  <2>2. \A u \in Awaiting : LeafOf(u, draft[u]) \in Leaf
      BY LeafOfType DEF Awaiting, Drafted, TypeOK
  <2> QED
      BY <2>1, <2>2 DEF Upgrade, RebuiltTree
<1>2. certified' \subseteq Leaf /\ certs' \subseteq Certificate
    BY <1>1 DEF Upgrade, SetCertified, TypeOK, Certificate
<1>3. LostByQueue \subseteq Users
    BY DEF LostByQueue, Drafted
<1>4. PICK missing \in Orders(LostByQueue) : queue' = queue \o missing
    BY DEF Upgrade
<1>5. missing \in Seq(Users)
    BY <1>3, <1>4, OrdersAreSeqs
<1>6. queue' \in Seq(Users)
    BY <1>4, <1>5 DEF TypeOK
<1> QED
    BY <1>1, <1>2, <1>6 DEF Upgrade, TypeOK

LEMMA TickType ==
    ASSUME TypeOK, Tick
    PROVE  TypeOK'
<1>1. certs' \subseteq Certificate
    BY DEF Tick, TypeOK, Certificate
<1> QED
    BY <1>1 DEF Tick, TypeOK

LEMMA NextType ==
    ASSUME TypeOK, [Next]_vars
    PROVE  TypeOK'
<1>1. CASE UNCHANGED vars
    BY <1>1 DEF TypeOK
<1> QED
    BY <1>1, LegStepType, CaptureStepType, UpgradeType, TickType DEF Next

\* Every variable keeps its type, for every set of users and every bound.
THEOREM TypeCorrect == Spec => []TypeOK
BY InitType, NextType, PTL DEF Spec

-----------------------------------------------------------------------------
(* The delete leg *)

\* Nothing about a user changes when its own state does not.
LEMMA SameUser ==
    ASSUME NEW u \in Users, UserOK(u),
           leg'[u] = leg[u], draft'[u] = draft[u], notices'[u] = notices[u],
           u \in requested => u \in requested',
           u \in localUsers' <=> u \in localUsers,
           u \in installed' <=> u \in installed
    PROVE  UserOK(u)'
BY DEF UserOK, InFlight, Before, After

\* A popped user was requested, is not in flight, and is queued no more.
LEMMA PopQueue ==
    ASSUME TypeOK, QueueOK, NEW u \in Users, Pop(u)
    PROVE  /\ u \in requested /\ u \in LocalUsers /\ ~InFlight(u)
           /\ \A i, j \in DOMAIN queue' : queue'[i] = queue'[j] => i = j
           /\ \A i \in DOMAIN queue' :
                 /\ queue'[i] # u
                 /\ queue'[i] \in requested /\ queue'[i] \in LocalUsers
                 /\ ~InFlight(queue'[i])
<1>1. queue \in Seq(Users) /\ queue # <<>> /\ queue' = Tail(queue) /\ u = queue[1]
    BY DEF Pop, TypeOK
<1>2. Len(queue) >= 1 /\ DOMAIN queue = 1..Len(queue)
    BY <1>1
<1>3. /\ DOMAIN queue' = 1..(Len(queue) - 1)
      /\ \A i \in DOMAIN queue' : queue'[i] = queue[i + 1]
    BY <1>1, <1>2
<1>4. \A i \in DOMAIN queue' : i + 1 \in DOMAIN queue /\ i + 1 # 1
    BY <1>2, <1>3
<1>5. 1 \in DOMAIN queue
    BY <1>2
<1>6. \A i, j \in DOMAIN queue' : i + 1 = j + 1 => i = j
    BY <1>2, <1>3
<1> QED
    BY <1>1, <1>3, <1>4, <1>5, <1>6 DEF QueueOK, OneLegPerUser

\* Queueing a user that is not queued repeats nobody.
LEMMA PushQueue ==
    ASSUME TypeOK, QueueOK, NEW u \in Users, Enqueue(u), ~Queued(u)
    PROVE  /\ \A i, j \in DOMAIN queue' : queue'[i] = queue'[j] => i = j
           /\ \A i \in DOMAIN queue' :
                 \/ queue'[i] = u
                 \/ /\ queue'[i] # u
                    /\ queue'[i] \in requested /\ queue'[i] \in LocalUsers
                    /\ ~InFlight(queue'[i])
<1>1. queue \in Seq(Users) /\ queue' = Append(queue, u)
    BY DEF Enqueue, TypeOK
<1>2. /\ DOMAIN queue = 1..Len(queue) /\ Len(queue) \in Nat
      /\ DOMAIN queue' = 1..(Len(queue) + 1)
      /\ queue'[Len(queue) + 1] = u
      /\ \A i \in DOMAIN queue : queue'[i] = queue[i]
    BY <1>1
<1>3. \A i \in DOMAIN queue' : i \in DOMAIN queue \/ i = Len(queue) + 1
    BY <1>2
<1>4. \A i \in DOMAIN queue : queue[i] # u
    BY DEF Queued
<1> QED
    BY <1>2, <1>3, <1>4 DEF QueueOK, OneLegPerUser

\* An upgrade queues drafts that are not queued, each once.
LEMMA UpgradeQueue ==
    ASSUME LegInv, Upgrade
    PROVE  /\ \A i, j \in DOMAIN queue' : queue'[i] = queue'[j] => i = j
           /\ \A i \in DOMAIN queue' :
                 queue'[i] \in Users /\ queue'[i] \in requested /\ queue'[i] \in LocalUsers
<1>1. PICK m \in Orders(LostByQueue) : queue' = queue \o m
    BY DEF Upgrade
<1>2. LostByQueue \in SUBSET Users
    BY DEF LostByQueue, Drafted
<1>3. /\ m \in Seq(Users) /\ \A i \in DOMAIN m : m[i] \in LostByQueue
      /\ \A i, j \in DOMAIN m : m[i] = m[j] => i = j
    BY <1>1, <1>2, OrdersAreSeqs
<1>4. queue \in Seq(Users)
    BY DEF LegInv, TypeOK
<1>5. /\ DOMAIN queue = 1..Len(queue) /\ Len(queue) \in Nat
      /\ DOMAIN m = 1..Len(m) /\ Len(m) \in Nat
      /\ DOMAIN queue' = 1..(Len(queue) + Len(m))
      /\ \A i \in DOMAIN queue : queue'[i] = queue[i]
      /\ \A i \in DOMAIN queue' \ DOMAIN queue : queue'[i] = m[i - Len(queue)]
    BY <1>1, <1>3, <1>4
<1>6. \A i \in DOMAIN queue' \ DOMAIN queue :
          i - Len(queue) \in DOMAIN m /\ queue'[i] \in LostByQueue
    BY <1>3, <1>5
<1>7. \A i \in DOMAIN queue, j \in DOMAIN queue' \ DOMAIN queue : queue'[i] # queue'[j]
    BY <1>5, <1>6 DEF LostByQueue, Queued
<1>8. \A i, j \in DOMAIN queue' \ DOMAIN queue : queue'[i] = queue'[j] => i = j
  <2> SUFFICES ASSUME NEW i \in DOMAIN queue' \ DOMAIN queue,
                      NEW j \in DOMAIN queue' \ DOMAIN queue, queue'[i] = queue'[j]
               PROVE  i = j
      OBVIOUS
  <2>1. i - Len(queue) = j - Len(queue)
      BY <1>3, <1>5, <1>6
  <2> QED
      BY <1>5, <2>1
<1>9. \A i \in DOMAIN queue : queue[i] \in Users
    BY <1>4
<1>10. \A u \in LostByQueue : u \in Users /\ u \in requested /\ u \in LocalUsers
    BY DEF LegInv, UserOK, LostByQueue, Drafted
<1>11. \A i \in DOMAIN queue' :
           queue'[i] \in Users /\ queue'[i] \in requested /\ queue'[i] \in LocalUsers
    BY <1>5, <1>6, <1>9, <1>10 DEF LegInv, QueueOK
<1>12. \A i, j \in DOMAIN queue' : queue'[i] = queue'[j] => i = j
    BY <1>5, <1>7, <1>8 DEF LegInv, QueueOK, OneLegPerUser
<1> QED
    BY <1>11, <1>12

\* What advance_publish leaves alone, and what it makes of its user.
LEMMA AdvancePublishUser ==
    ASSUME TypeOK, NEW u \in Users, NEW d \in CvdrDraft, AdvancePublish(u, d)
    PROVE  /\ \A v \in Users \ {u} :
                 /\ draft'[v] = draft[v] /\ notices'[v] = notices[v]
                 /\ v \in localUsers' <=> v \in localUsers
           /\ draft'[u] = [d EXCEPT !.committedAt = CommitTime(d),
                                    !.stage = "AwaitingCertificate"]
           /\ FirstPublish(d) => u \notin localUsers' /\ notices'[u] = notices[u] + 1
           /\ ~FirstPublish(d) => localUsers' = localUsers /\ notices' = notices
<1>1. draft' = [draft EXCEPT ![u] = [d EXCEPT !.committedAt = CommitTime(d),
                                              !.stage = "AwaitingCertificate"]]
    BY DEF AdvancePublish
<1>2. CASE FirstPublish(d)
  <2>1. CompleteDeletion(u)
      BY <1>2 DEF AdvancePublish
  <2> QED
      BY <1>1, <1>2, <2>1 DEF CompleteDeletion, TypeOK
<1>3. CASE ~FirstPublish(d)
    BY <1>1, <1>3 DEF AdvancePublish, TypeOK
<1> QED
    BY <1>2, <1>3

\* A step of one user's leg does not touch another user.
LEMMA OtherUserFrame ==
    ASSUME LegInv, NEW u \in Users, NEW v \in Users \ {u}, LegStep(u)
    PROVE  /\ leg'[v] = leg[v] /\ draft'[v] = draft[v] /\ notices'[v] = notices[v]
           /\ v \in requested' <=> v \in requested
           /\ v \in localUsers' <=> v \in localUsers
           /\ v \in installed' <=> v \in installed
<1> USE DEF LegInv
<1>1. CASE DeleteUser(u)
    BY <1>1 DEF DeleteUser
<1>2. CASE StartCapture(u)
    BY <1>2 DEF StartCapture, TypeOK
<1>3. CASE StartUninstall(u)
    BY <1>3 DEF StartUninstall, TypeOK
<1>4. CASE Republish(u)
  <2>1. draft[u] \in CvdrDraft /\ AdvancePublish(u, draft[u])
      BY <1>4 DEF Republish, TypeOK
  <2> QED
      BY <1>4, <2>1, AdvancePublishUser DEF Republish
<1>5. CASE SkipTerminal(u)
    BY <1>5 DEF SkipTerminal
<1>6. CASE GroupsReply(u)
    BY <1>6 DEF GroupsReply, TypeOK
<1>7. CASE StatusPreReply(u)
    BY <1>7 DEF StatusPreReply, TypeOK
<1>8. CASE RandReply(u)
    BY <1>8 DEF RandReply, TypeOK
<1>9. CASE RandTraps(u)
    BY <1>9 DEF RandTraps, TypeOK
<1>10. CASE UninstallReply(u)
    BY <1>10 DEF UninstallReply, TypeOK
<1>11. CASE StatusPostReply(u)
  <2> DEFINE d == [draft[u] EXCEPT !.uninstalledAt = IF @ = 0 THEN now ELSE @,
                                   !.stage = "Uninstalled"]
  <2>1. d \in CvdrDraft
      BY <1>11 DEF StatusPostReply, TypeOK, CvdrDraft, DraftStage
  <2>2. AdvancePublish(u, d)
      BY <1>11 DEF StatusPostReply
  <2>3. leg'[v] = leg[v] /\ UNCHANGED <<requested, installed>>
      BY <1>11 DEF StatusPostReply, TypeOK
  <2> HIDE DEF d
  <2> QED
      BY <2>1, <2>2, <2>3, AdvancePublishUser
<1>12. CASE LegRetry(u)
    BY <1>12 DEF LegRetry, TypeOK
<1> QED
    BY <1>1, <1>2, <1>3, <1>4, <1>5, <1>6, <1>7, <1>8, <1>9, <1>10, <1>11, <1>12
    DEF LegStep

LEMMA OtherUser ==
    ASSUME LegInv, NEW u \in Users, NEW v \in Users \ {u}, LegStep(u)
    PROVE  UserOK(v)'
BY OtherUserFrame, SameUser DEF LegInv

\* Writing back a draft's own commit time and stage changes nothing.
LEMMA SameDraft ==
    ASSUME NEW d \in CvdrDraft
    PROVE  [d EXCEPT !.committedAt = d.committedAt, !.stage = d.stage] = d
BY DEF CvdrDraft

\* A step of a leg keeps its own user consistent.
LEMMA OwnUser ==
    ASSUME LegInv, NEW u \in Users, LegStep(u)
    PROVE  UserOK(u)'
<1>0. UserOK(u) /\ TypeOK /\ now > 0 /\ draft[u] \in CvdrDraft \union {NoDraft}
    BY DEF LegInv, TypeOK
<1>1. CASE DeleteUser(u)
    BY <1>0, <1>1, SameUser DEF DeleteUser
<1>2. CASE StartCapture(u)
  <2>1. u \in requested /\ u \in LocalUsers
      BY <1>2, PopQueue DEF StartCapture, LegInv
  <2> QED
      BY <1>0, <1>2, <2>1 DEF StartCapture, UserOK, InFlight, Before, After, TypeOK
<1>3. CASE StartUninstall(u)
  <2>1. u \in requested /\ u \in LocalUsers
      BY <1>3, PopQueue DEF StartUninstall, LegInv
  <2> QED
      BY <1>0, <1>3, <2>1 DEF StartUninstall, UserOK, InFlight, Before, After, TypeOK
<1>4. CASE Republish(u)
  <2>1. draft[u] \in CvdrDraft /\ AdvancePublish(u, draft[u])
      BY <1>4 DEF Republish, TypeOK, LegInv
  <2>2. draft[u].stage = "AwaitingCertificate" /\ draft[u].committedAt > 0
      BY <1>0, <1>4 DEF Republish, Republished, UserOK, After
  <2>3. draft'[u] = draft[u]
    <3>1. draft'[u] = [draft[u] EXCEPT !.committedAt = CommitTime(draft[u]),
                                       !.stage = "AwaitingCertificate"]
        BY <1>0, <2>1, AdvancePublishUser
    <3>2. CommitTime(draft[u]) = draft[u].committedAt
        BY <2>1, <2>2 DEF CommitTime, CvdrDraft
    <3> QED
        BY <2>1, <2>2, <3>1, <3>2, SameDraft
  <2> QED
      BY <1>0, <1>4, <2>1, <2>2, <2>3, AdvancePublishUser, SameUser
      DEF Republish, FirstPublish
<1>5. CASE SkipTerminal(u)
    BY <1>0, <1>5, SameUser DEF SkipTerminal
<1>6. CASE GroupsReply(u)
    BY <1>0, <1>6 DEF GroupsReply, UserOK, InFlight, Before, After, TypeOK
<1>7. CASE StatusPreReply(u)
    BY <1>0, <1>7 DEF StatusPreReply, UserOK, InFlight, Before, After, TypeOK
<1>8. CASE RandReply(u)
  <2>1. draft'[u] = [stage |-> "Captured", seq |-> leg[u].seq, uninstalledAt |-> 0,
                     committedAt |-> 0, attempt |-> 0, lastAttemptAt |-> 0,
                     scrubbed |-> FALSE]
      BY <1>8 DEF RandReply, LegInv, TypeOK
  <2>2. leg'[u].at = "uninstall"
      BY <1>8 DEF RandReply, LegInv, TypeOK
  <2>3. leg[u].seq \in Nat
      BY <1>0 DEF TypeOK
  <2>4. draft'[u] \in CvdrDraft
      BY <2>1, <2>3 DEF CvdrDraft, DraftStage
  <2>5. /\ u \in requested /\ u \in LocalUsers /\ draft[u] = NoDraft
        /\ u \in localUsers /\ notices[u] = 0
      BY <1>0, <1>8 DEF RandReply, UserOK, InFlight, Before
  <2>6. UNCHANGED <<requested, localUsers, installed, notices>>
      BY <1>8 DEF RandReply
  <2>7. draft'[u].stage = "Captured" /\ draft'[u].committedAt = 0 /\ ~draft'[u].scrubbed
      BY <2>1
  <2> QED
      BY <2>2, <2>4, <2>5, <2>6, <2>7, NoDraftAssumption
      DEF UserOK, InFlight, Before, After
<1>9. CASE RandTraps(u)
    BY <1>0, <1>9 DEF RandTraps, UserOK, InFlight, Before, After, TypeOK
<1>10. CASE UninstallReply(u)
    BY <1>0, <1>10 DEF UninstallReply, UserOK, InFlight, Before, After, TypeOK
<1>11. CASE StatusPostReply(u)
  <2> DEFINE d == [draft[u] EXCEPT !.uninstalledAt = IF @ = 0 THEN now ELSE @,
                                   !.stage = "Uninstalled"]
  <2>1. draft[u] \in CvdrDraft /\ d \in CvdrDraft
      BY <1>11 DEF StatusPostReply, LegInv, TypeOK, CvdrDraft, DraftStage
  <2>2. AdvancePublish(u, d)
      BY <1>11 DEF StatusPostReply
  <2>3. /\ leg'[u].at = "idle" /\ UNCHANGED <<requested, installed>>
        /\ u \notin installed
      BY <1>0, <1>11 DEF StatusPostReply, TypeOK
  <2>4. /\ draft[u].committedAt = 0 /\ u \in requested /\ u \in LocalUsers
        /\ notices[u] = 0 /\ ~draft[u].scrubbed
      BY <1>0, <1>11 DEF StatusPostReply, UserOK, Before, InFlight
  <2>5. /\ d.stage = "Uninstalled" /\ d.uninstalledAt > 0 /\ d.committedAt = 0
        /\ d.scrubbed = draft[u].scrubbed
      BY <1>0, <2>1, <2>4 DEF CvdrDraft, TypeOK
  <2> HIDE DEF d
  <2>6. u \notin localUsers' /\ notices'[u] = 1
    <3>1. FirstPublish(d)
        BY <2>5 DEF FirstPublish
    <3>2. u \notin localUsers' /\ notices'[u] = notices[u] + 1
        BY <1>0, <2>1, <2>2, <3>1, AdvancePublishUser
    <3> QED
        BY <2>4, <3>2
  <2>7. /\ draft'[u] \in CvdrDraft /\ draft'[u].stage = "AwaitingCertificate"
        /\ draft'[u].committedAt = now /\ draft'[u].uninstalledAt = d.uninstalledAt
        /\ draft'[u].scrubbed = draft[u].scrubbed
    <3>1. draft'[u] = [d EXCEPT !.committedAt = CommitTime(d),
                                !.stage = "AwaitingCertificate"]
        BY <1>0, <2>1, <2>2, AdvancePublishUser
    <3>2. CommitTime(d) = now /\ now \in Nat
        BY <1>0, <2>5 DEF CommitTime, TypeOK
    <3> QED
        BY <2>1, <2>5, <3>1, <3>2 DEF CvdrDraft, DraftStage
  <2> QED
      BY <1>0, <2>3, <2>4, <2>5, <2>6, <2>7, NoDraftAssumption
      DEF UserOK, InFlight, Before, After
<1>12. CASE LegRetry(u)
    BY <1>0, <1>12 DEF LegRetry, UserOK, InFlight, Before, After, TypeOK
<1> QED
    BY <1>1, <1>2, <1>3, <1>4, <1>5, <1>6, <1>7, <1>8, <1>9, <1>10, <1>11, <1>12
    DEF LegStep

\* A step of a leg leaves every user in the queue or in a leg at most once.
LEMMA LegStepQueue ==
    ASSUME LegInv, NEW u \in Users, LegStep(u)
    PROVE  QueueOK'
<1>0. TypeOK /\ QueueOK /\ UserOK(u)
    BY DEF LegInv
<1>1. CASE DeleteUser(u)
  <2>1. ~Queued(u) /\ ~InFlight(u) /\ UNCHANGED leg /\ requested' = requested \union {u}
      BY <1>0, <1>1 DEF DeleteUser, QueueOK, UserOK, Queued
  <2>2. CASE u \in localUsers
    <3>1. Enqueue(u) /\ u \in LocalUsers
        BY <1>0, <1>1, <2>2 DEF DeleteUser, TypeOK
    <3> QED
        BY <1>0, <2>1, <3>1, PushQueue DEF QueueOK, OneLegPerUser, InFlight
  <2>3. CASE u \notin localUsers
      BY <1>0, <1>1, <2>1, <2>3 DEF DeleteUser, QueueOK, OneLegPerUser, InFlight
  <2> QED
      BY <2>2, <2>3
<1>2. CASE StartCapture(u) \/ StartUninstall(u) \/ Republish(u) \/ SkipTerminal(u)
  <2>1. Pop(u) /\ UNCHANGED requested /\ \A v \in Users \ {u} : leg'[v] = leg[v]
      BY <1>0, <1>2 DEF StartCapture, StartUninstall, Republish, SkipTerminal, TypeOK
  <2>2. queue' \in Seq(Users)
      BY <1>0, <2>1, PopType
  <2>3. \A i \in DOMAIN queue' : queue'[i] \in Users \ {u}
      BY <1>0, <2>1, <2>2, PopQueue
  <2> QED
      BY <1>0, <2>1, <2>3, PopQueue DEF QueueOK, OneLegPerUser, InFlight
<1>3. CASE LegRetry(u)
  <2>1. /\ InFlight(u) /\ Enqueue(u) /\ UNCHANGED requested /\ leg'[u].at = "idle"
        /\ \A v \in Users \ {u} : leg'[v] = leg[v]
      BY <1>0, <1>3 DEF LegRetry, TypeOK, InFlight
  <2>2. ~Queued(u) /\ u \in requested /\ u \in LocalUsers
      BY <1>0, <2>1 DEF QueueOK, OneLegPerUser, Queued, UserOK
  <2>3. queue' \in Seq(Users)
      BY <1>0, <2>1, EnqueueType
  <2>4. \A i \in DOMAIN queue' : queue'[i] \in Users
      BY <2>3
  <2> QED
      BY <1>0, <2>1, <2>2, <2>4, PushQueue DEF QueueOK, OneLegPerUser, InFlight
<1>4. CASE \/ GroupsReply(u) \/ StatusPreReply(u) \/ RandReply(u)
           \/ RandTraps(u) \/ UninstallReply(u) \/ StatusPostReply(u)
  <2>1. /\ InFlight(u) /\ UNCHANGED <<queue, requested>>
        /\ \A v \in Users \ {u} : leg'[v] = leg[v]
      BY <1>0, <1>4 DEF GroupsReply, StatusPreReply, RandReply, RandTraps,
            UninstallReply, StatusPostReply, InFlight, TypeOK
  <2>2. \A i \in DOMAIN queue : queue[i] \in Users \ {u}
      BY <1>0, <2>1 DEF QueueOK, OneLegPerUser, TypeOK
  <2> QED
      BY <1>0, <2>1, <2>2 DEF QueueOK, OneLegPerUser, InFlight
<1> QED
    BY <1>1, <1>2, <1>3, <1>4 DEF LegStep

\* The sweep and the finalizers touch drafts that were published already.
LEMMA CaptureStepLeg ==
    ASSUME LegInv, CaptureStep
    PROVE  LegInv'
<1>1. TypeOK'
    BY CaptureStepType DEF LegInv
<1>2. UNCHANGED <<now, legVars>>
    BY DEF CaptureStep, RunSweep, AttemptMiss, CaptureCertificate, FinalizeCvdr
<1>3. QueueOK' /\ now' > 0
    BY <1>2 DEF LegInv, QueueOK, OneLegPerUser, InFlight
<1>4. ASSUME NEW v \in Users
      PROVE  \/ draft'[v] = draft[v]
             \/ /\ draft[v] # NoDraft /\ draft[v].stage # "Captured"
                /\ draft'[v] # NoDraft
                /\ draft'[v].stage \notin {"Captured", "Uninstalled"}
                /\ draft'[v].committedAt = draft[v].committedAt
                /\ draft'[v].uninstalledAt = draft[v].uninstalledAt
                /\ draft'[v].scrubbed <=>
                      draft'[v].stage \in {"CertificateCaptured", "LateFinalized"}
  <2>0. draft \in [Users -> CvdrDraft \union {NoDraft}] /\ draft' \in [Users -> CvdrDraft \union {NoDraft}]
      BY <1>1 DEF LegInv, TypeOK
  <2>1. CASE RunSweep
    <3>1. draft'[v] = draft[v] \/ (v \in Awaiting /\ draft'[v] =
            [draft[v] EXCEPT !.stage = "FailedStuck"]) \/ (v \in Awaiting /\ draft'[v] =
            [draft[v] EXCEPT !.attempt = @ + 1, !.lastAttemptAt = now])
        BY <2>1 DEF RunSweep
    <3>2. v \in Awaiting => /\ draft[v] \in CvdrDraft
                            /\ draft[v].stage = "AwaitingCertificate"
                            /\ ~draft[v].scrubbed
        BY <2>0 DEF Awaiting, Drafted, LegInv, UserOK
    <3>3. ASSUME v \in Awaiting, draft'[v] = [draft[v] EXCEPT !.stage = "FailedStuck"]
          PROVE  /\ draft'[v] \in CvdrDraft /\ draft'[v].stage = "FailedStuck"
                 /\ draft'[v].committedAt = draft[v].committedAt
                 /\ draft'[v].uninstalledAt = draft[v].uninstalledAt
                 /\ ~draft'[v].scrubbed
        BY <3>2, <3>3 DEF CvdrDraft, DraftStage
    <3>4. ASSUME v \in Awaiting,
                 draft'[v] = [draft[v] EXCEPT !.attempt = @ + 1, !.lastAttemptAt = now]
          PROVE  /\ draft'[v] \in CvdrDraft /\ draft'[v].stage = "AwaitingCertificate"
                 /\ draft'[v].committedAt = draft[v].committedAt
                 /\ draft'[v].uninstalledAt = draft[v].uninstalledAt
                 /\ ~draft'[v].scrubbed
      <4>1. draft[v].attempt + 1 \in Nat /\ now \in Nat
          BY <3>2, <3>4 DEF CvdrDraft, LegInv, TypeOK
      <4> QED
          BY <3>2, <3>4, <4>1 DEF CvdrDraft
    <3>5. v \in Awaiting => draft[v] # NoDraft
        BY DEF Awaiting, Drafted
    <3> QED
        BY <3>1, <3>2, <3>3, <3>4, <3>5, NoDraftAssumption
  <2>2. ASSUME NEW u \in Users, AttemptMiss(u) PROVE draft' = draft
      BY <2>2 DEF AttemptMiss
  <2>3. ASSUME NEW u \in Users, NEW c \in certs, CaptureCertificate(u, c) \/ FinalizeCvdr(u, c)
        PROVE  \/ draft'[v] = draft[v]
               \/ /\ draft[v] \in CvdrDraft /\ IsFinalizable(draft[v])
                  /\ \E s \in {"CertificateCaptured", "LateFinalized"} :
                        draft'[v] = Scrubbed(draft[v], s)
      BY <2>0, <2>3 DEF CaptureCertificate, FinalizeCvdr, StageFor, Drafted, Awaiting, IsFinalizable
  <2>4. ASSUME draft[v] \in CvdrDraft, IsFinalizable(draft[v]),
               NEW s \in {"CertificateCaptured", "LateFinalized"},
               draft'[v] = Scrubbed(draft[v], s)
        PROVE  /\ draft[v] # NoDraft /\ draft[v].stage # "Captured"
               /\ draft'[v] # NoDraft
               /\ draft'[v].stage \notin {"Captured", "Uninstalled"}
               /\ draft'[v].committedAt = draft[v].committedAt
               /\ draft'[v].uninstalledAt = draft[v].uninstalledAt
               /\ draft'[v].scrubbed <=>
                     draft'[v].stage \in {"CertificateCaptured", "LateFinalized"}
    <3>1. Scrubbed(draft[v], s) \in CvdrDraft
        BY <2>4 DEF Scrubbed, CvdrDraft, DraftStage
    <3> QED
        BY <2>4, <3>1, NoDraftAssumption DEF Scrubbed, CvdrDraft, IsFinalizable
  <2> QED
      BY <2>1, <2>2, <2>3, <2>4 DEF CaptureStep
<1>5. ASSUME NEW v \in Users PROVE UserOK(v)'
    BY <1>2, <1>4 DEF LegInv, UserOK, InFlight, Before, After
<1> QED
    BY <1>1, <1>3, <1>5 DEF LegInv

LEMMA UpgradeLeg ==
    ASSUME LegInv, Upgrade
    PROVE  LegInv'
<1>1. /\ UNCHANGED <<now, requested, localUsers, installed, leg, notices, draft>>
      /\ \A u \in Users : ~InFlight(u)
    BY DEF Upgrade
<1>2. QueueOK'
    BY <1>1, UpgradeQueue DEF QueueOK, OneLegPerUser, InFlight
<1>3. \A u \in Users : UserOK(u)'
    BY <1>1, SameUser DEF LegInv
<1> QED
    BY <1>1, <1>2, <1>3, UpgradeType DEF LegInv

\* The strengthening the invariants of the leg rest on: the queue and the legs
\* hold a user once, and each user's leg, draft and accounts fit together.
LEMMA NextLeg ==
    ASSUME LegInv, [Next]_vars
    PROVE  LegInv'
<1>1. ASSUME NEW u \in Users, LegStep(u) PROVE LegInv'
  <2>1. TypeOK' /\ now' > 0
      BY <1>1, LegStepType DEF LegInv, LegStep, DeleteUser, StartCapture,
            StartUninstall, Republish, SkipTerminal, GroupsReply, StatusPreReply,
            RandReply, RandTraps, UninstallReply, StatusPostReply, LegRetry
  <2>2. \A v \in Users : UserOK(v)'
      BY <1>1, OwnUser, OtherUser
  <2> QED
      BY <1>1, <2>1, <2>2, LegStepQueue DEF LegInv
<1>2. CASE Tick
  <2>1. /\ UNCHANGED <<requested, localUsers, installed, leg, notices, draft, queue>>
        /\ now' > 0
      BY <1>2 DEF Tick, LegInv, TypeOK
  <2>2. QueueOK'
      BY <2>1 DEF LegInv, QueueOK, OneLegPerUser, InFlight
  <2>3. \A u \in Users : UserOK(u)'
      BY <2>1, SameUser DEF LegInv
  <2> QED
      BY <1>2, <2>1, <2>2, <2>3, TickType DEF LegInv
<1>3. CASE UNCHANGED vars
  <2>1. QueueOK' /\ TypeOK' /\ now' > 0
      BY <1>3 DEF LegInv, QueueOK, OneLegPerUser, InFlight, TypeOK
  <2>2. \A u \in Users : UserOK(u)'
      BY <1>3, SameUser DEF LegInv
  <2> QED
      BY <2>1, <2>2 DEF LegInv
<1>4. CASE CaptureStep
    BY <1>4, CaptureStepLeg
<1>5. CASE Upgrade
    BY <1>5, UpgradeLeg
<1> QED
    BY <1>1, <1>2, <1>3, <1>4, <1>5 DEF Next

LEMMA InitLeg == ASSUME Init PROVE LegInv
<1>1. TypeOK
    BY InitType
<1>0. now > 0
    BY DEF Init
<1>2. QueueOK
    BY DEF Init, QueueOK, OneLegPerUser
<1>3. ASSUME NEW u \in Users PROVE UserOK(u)
    BY DEF Init, UserOK, InFlight, Before, After
<1> QED
    BY <1>0, <1>1, <1>2, <1>3 DEF LegInv

THEOREM LegInvariant == Spec => []LegInv
BY InitLeg, NextLeg, PTL DEF Spec

\* No upgrade and no retry ever gives a user a second leg or queue entry.
THEOREM LegOnce == Spec => []OneLegPerUser
<1>1. LegInv => OneLegPerUser
    BY DEF LegInv, QueueOK
<1> QED
    BY <1>1, LegInvariant, PTL

\* The draft is durable before the uninstall, and the receipt is committed
\* before the user's mappings go.
THEOREM DraftBeforeDestruction == Spec => []NothingDestroyedEarly
<1>1. LegInv => NothingDestroyedEarly
    BY ConstantsAssumption DEF LegInv, NothingDestroyedEarly, UserOK, Before, After
<1> QED
    BY <1>1, LegInvariant, PTL

\* The membership-removal chain is pushed exactly once per deleted user.
THEOREM OneNotice == Spec => []NotifiedOnce
<1>1. LegInv => NotifiedOnce
    BY ConstantsAssumption DEF LegInv, NotifiedOnce, UserOK, Before, After
<1> QED
    BY <1>1, LegInvariant, PTL

\* certified_data is the tree's root in every state.
THEOREM RootCertified == Spec => []CertifiedIsTree
<1>1. Init => CertifiedIsTree
    BY DEF Init, CertifiedIsTree
<1>2. CertifiedIsTree /\ [Next]_vars => CertifiedIsTree'
  <2> SUFFICES ASSUME CertifiedIsTree, [Next]_vars PROVE CertifiedIsTree'
      OBVIOUS
  <2>1. ASSUME NEW u \in Users, Republish(u) \/ StatusPostReply(u)
        PROVE  CertifiedIsTree'
    <3>1. PICK d : AdvancePublish(u, d)
        BY <2>1 DEF Republish, StatusPostReply
    <3> QED
        BY <3>1 DEF AdvancePublish, SetCertified, CertifiedIsTree
  <2>2. ASSUME NEW u \in Users, LegStep(u), ~Republish(u), ~StatusPostReply(u)
        PROVE  CertifiedIsTree'
      BY <2>2 DEF LegStep, DeleteUser, StartCapture, StartUninstall, SkipTerminal,
         GroupsReply, StatusPreReply, RandReply, RandTraps, UninstallReply,
         LegRetry, CertifiedIsTree
  <2>3. CASE CaptureStep \/ Tick \/ UNCHANGED vars
      BY <2>3 DEF CaptureStep, RunSweep, AttemptMiss, CaptureCertificate,
         FinalizeCvdr, Tick, CertifiedIsTree
  <2>4. CASE Upgrade
      BY <2>4 DEF Upgrade, SetCertified, CertifiedIsTree
  <2> QED
      BY <2>1, <2>2, <2>3, <2>4 DEF Next
<1> QED
    BY <1>1, <1>2, PTL DEF Spec
=============================================================================
