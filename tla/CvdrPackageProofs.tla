------------------------- MODULE CvdrPackageProofs -------------------------
(***************************************************************************)
(* Proofs about the receipts of the deletion pipeline: drafts go forward,  *)
(* receipts are immutable, the stored packages agree with the drafts, and  *)
(* the pipeline implements the ledger of deletions; then about the tree of *)
(* receipts and about the jobs, which never sleep over work.               *)
(***************************************************************************)
EXTENDS CvdrDeletionProofs

USE DEF vars, legVars, treeVars, sweepVars

Published == {"CertificateCaptured", "LateFinalized"}

\* What a step may make of the draft of a user.
KeptDraft(u) ==
    \/ draft'[u] = draft[u]
    \/ /\ draft[u] \in CvdrDraft /\ draft'[u] \in CvdrDraft
       /\ draft'[u].stage = draft[u].stage
       /\ LeafOf(u, draft'[u]) = LeafOf(u, draft[u])
CreatedDraft(u) ==
    /\ draft[u] = NoDraft /\ draft'[u] \in CvdrDraft
    /\ draft'[u].stage = "Captured"
PublishedDraft(u) ==
    /\ draft[u] \in CvdrDraft /\ draft'[u] \in CvdrDraft
    /\ draft[u].stage = "Captured" /\ draft[u].committedAt = 0
    /\ draft'[u].stage = "AwaitingCertificate"
StuckDraft(u) ==
    /\ draft[u] \in CvdrDraft /\ draft'[u] \in CvdrDraft
    /\ draft[u].stage = "AwaitingCertificate"
    /\ draft'[u] = [draft[u] EXCEPT !.stage = "FailedStuck"]
FinalizedDraft(u) ==
    \E c \in certs, s \in Published :
        /\ draft[u] \in CvdrDraft /\ IsFinalizable(draft[u])
        /\ Verified(u, c) /\ s = StageFor(u, c)
        /\ InsertFrozen(u, c)
        /\ draft'[u] = Scrubbed(draft[u], s)

\* The leg creates and publishes drafts.
LEMMA LegStepDraft ==
    ASSUME LegInv, NEW u \in Users, LegStep(u)
    PROVE  /\ \A v \in Users \ {u} : draft'[v] = draft[v]
           /\ KeptDraft(u) \/ CreatedDraft(u) \/ PublishedDraft(u)
           /\ frozen' = frozen
<1>0. UserOK(u) /\ TypeOK /\ draft[u] \in CvdrDraft \union {NoDraft}
    BY DEF LegInv, TypeOK
<1>1. CASE Republish(u)
  <2>1. draft[u] \in CvdrDraft /\ AdvancePublish(u, draft[u]) /\ frozen' = frozen
      BY <1>0, <1>1 DEF Republish
  <2>2. draft[u].stage = "AwaitingCertificate" /\ draft[u].committedAt > 0
      BY <1>0, <1>1 DEF Republish, Republished, UserOK, After
  <2>3. CommitTime(draft[u]) = draft[u].committedAt
      BY <2>1, <2>2 DEF CommitTime, CvdrDraft
  <2>4. draft'[u] = draft[u]
    <3>1. draft'[u] = [draft[u] EXCEPT !.committedAt = CommitTime(draft[u]),
                                       !.stage = "AwaitingCertificate"]
        BY <1>0, <2>1, AdvancePublishUser
    <3> QED
        BY <2>1, <2>2, <2>3, <3>1, SameDraft
  <2> QED
      BY <1>0, <2>1, <2>4, AdvancePublishUser DEF KeptDraft
<1>2. CASE RandReply(u)
  <2>1. /\ draft' = [draft EXCEPT ![u] =
              [stage |-> "Captured", seq |-> leg[u].seq, uninstalledAt |-> 0,
               committedAt |-> 0, attempt |-> 0, lastAttemptAt |-> 0,
               scrubbed |-> FALSE]]
        /\ leg[u].seq \in Nat /\ draft[u] = NoDraft /\ frozen' = frozen
      BY <1>0, <1>2 DEF RandReply, UserOK, TypeOK, sweepVars
  <2> QED
      BY <1>0, <2>1 DEF CreatedDraft, CvdrDraft, DraftStage, TypeOK
<1>3. CASE StatusPostReply(u)
  <2> DEFINE d == [draft[u] EXCEPT !.uninstalledAt = IF @ = 0 THEN now ELSE @,
                                   !.stage = "Uninstalled"]
  <2>1. draft[u] \in CvdrDraft /\ d \in CvdrDraft
      BY <1>0, <1>3 DEF StatusPostReply, TypeOK, CvdrDraft, DraftStage
  <2>2. AdvancePublish(u, d) /\ frozen' = frozen
      BY <1>3 DEF StatusPostReply
  <2>3. draft[u].stage = "Captured" /\ draft[u].committedAt = 0
      BY <1>0, <1>3 DEF StatusPostReply, UserOK, Before
  <2>4. CommitTime(d) \in Nat
      BY <1>0, <2>1 DEF CommitTime, CvdrDraft, TypeOK
  <2> HIDE DEF d
  <2>5. draft'[u] = [d EXCEPT !.committedAt = CommitTime(d),
                              !.stage = "AwaitingCertificate"]
      BY <1>0, <2>1, <2>2, AdvancePublishUser
  <2>6. draft'[u] \in CvdrDraft /\ draft'[u].stage = "AwaitingCertificate"
      BY <2>1, <2>4, <2>5 DEF CvdrDraft, DraftStage
  <2> QED
      BY <1>0, <2>1, <2>2, <2>3, <2>6, AdvancePublishUser DEF PublishedDraft
<1>4. CASE \/ DeleteUser(u) \/ StartCapture(u) \/ StartUninstall(u)
           \/ SkipTerminal(u) \/ GroupsReply(u) \/ StatusPreReply(u)
           \/ RandTraps(u) \/ UninstallReply(u) \/ LegRetry(u)
  <2>1. draft' = draft /\ frozen' = frozen
    <3>1. CASE DeleteUser(u) BY <3>1 DEF DeleteUser
    <3>2. CASE StartCapture(u) BY <3>2 DEF StartCapture
    <3>3. CASE StartUninstall(u) BY <3>3 DEF StartUninstall
    <3>4. CASE SkipTerminal(u) BY <3>4 DEF SkipTerminal
    <3>5. CASE GroupsReply(u) BY <3>5 DEF GroupsReply
    <3>6. CASE StatusPreReply(u) BY <3>6 DEF StatusPreReply
    <3>7. CASE RandTraps(u) BY <3>7 DEF RandTraps
    <3>8. CASE UninstallReply(u) BY <3>8 DEF UninstallReply
    <3>9. CASE LegRetry(u) BY <3>9 DEF LegRetry
    <3> QED
        BY <1>4, <3>1, <3>2, <3>3, <3>4, <3>5, <3>6, <3>7, <3>8, <3>9
  <2> QED
      BY <2>1 DEF KeptDraft
<1> QED
    BY <1>1, <1>2, <1>3, <1>4 DEF LegStep

\* The sweep keeps drafts or gives them up.
LEMMA SweepDraft ==
    ASSUME LegInv, TypeOK', RunSweep, NEW v \in Users
    PROVE  KeptDraft(v) \/ StuckDraft(v)
<1>1. draft'[v] = draft[v] \/ (v \in Awaiting /\ draft'[v] =
        [draft[v] EXCEPT !.stage = "FailedStuck"]) \/ (v \in Awaiting /\ draft'[v] =
        [draft[v] EXCEPT !.attempt = @ + 1, !.lastAttemptAt = now])
    BY DEF RunSweep
<1>2. v \in Awaiting => draft[v] \in CvdrDraft /\ draft[v].stage = "AwaitingCertificate"
    BY DEF Awaiting, Drafted, LegInv, TypeOK
<1>3. ASSUME v \in Awaiting, draft'[v] = [draft[v] EXCEPT !.stage = "FailedStuck"]
      PROVE  StuckDraft(v)
    BY <1>2, <1>3 DEF StuckDraft, CvdrDraft, DraftStage
<1>4. ASSUME v \in Awaiting,
             draft'[v] = [draft[v] EXCEPT !.attempt = @ + 1, !.lastAttemptAt = now]
      PROVE  KeptDraft(v)
  <2>1. draft[v].attempt + 1 \in Nat /\ now \in Nat
      BY <1>2, <1>4, SMTT(40) DEF CvdrDraft, LegInv, TypeOK
  <2> QED
      BY <1>2, <1>4, <2>1 DEF KeptDraft, CvdrDraft, LeafOf
<1> QED
    BY <1>1, <1>3, <1>4 DEF KeptDraft

\* A certificate finalizes one draft and stores one package.
LEMMA FinalizeDraft ==
    ASSUME LegInv, NEW u \in Users, NEW c \in certs,
           CaptureCertificate(u, c) \/ FinalizeCvdr(u, c)
    PROVE  /\ FinalizedDraft(u) /\ UNCHANGED <<now, legVars>>
           /\ \A v \in Users \ {u} : draft'[v] = draft[v]
<1>1. draft \in [Users -> CvdrDraft \union {NoDraft}]
    BY DEF LegInv, TypeOK
<1>2. CASE CaptureCertificate(u, c)
  <2>1. /\ draft[u] \in CvdrDraft /\ IsFinalizable(draft[u])
        /\ StageFor(u, c) = "CertificateCaptured"
      BY <1>1, <1>2 DEF CaptureCertificate, Awaiting, Drafted, IsFinalizable, StageFor
  <2> QED
      BY <1>1, <1>2, <2>1 DEF CaptureCertificate, FinalizedDraft, Published
<1>3. CASE FinalizeCvdr(u, c)
  <2>1. draft[u] \in CvdrDraft /\ StageFor(u, c) \in Published
      BY <1>1, <1>3 DEF FinalizeCvdr, Drafted, StageFor, Published
  <2> QED
      BY <1>1, <1>3, <2>1 DEF FinalizeCvdr, FinalizedDraft
<1> QED
    BY <1>2, <1>3

\* Every step: the leg and the sweep leave the packages alone, a certificate
\* finalizes one draft.
LEMMA StepDraft ==
    ASSUME LegInv, [Next]_vars
    PROVE  \/ /\ frozen' = frozen
              /\ \A v \in Users : \/ KeptDraft(v) \/ CreatedDraft(v)
                                   \/ PublishedDraft(v) \/ StuckDraft(v)
           \/ \E u \in Users : /\ FinalizedDraft(u)
                               /\ \A v \in Users \ {u} : draft'[v] = draft[v]
<1>1. CASE \E u \in Users : LegStep(u)
  <2>1. PICK u \in Users : LegStep(u)
      BY <1>1
  <2>2. \A v \in Users \ {u} : KeptDraft(v)
      BY <2>1, LegStepDraft DEF KeptDraft
  <2> QED
      BY <2>1, <2>2, LegStepDraft
<1>2. CASE RunSweep
  <2>1. TypeOK'
      BY <1>2, CaptureStepType DEF CaptureStep, LegInv
  <2> QED
      BY <1>2, <2>1, SweepDraft DEF RunSweep
<1>3. CASE \/ \E u \in Users : AttemptMiss(u)
           \/ Upgrade \/ Tick \/ UNCHANGED vars
    BY <1>3 DEF AttemptMiss, Upgrade, Tick, KeptDraft
<1>4. CASE \E u \in Users, c \in certs : CaptureCertificate(u, c) \/ FinalizeCvdr(u, c)
    BY <1>4, FinalizeDraft
<1> QED
    BY <1>1, <1>2, <1>3, <1>4 DEF Next, CaptureStep

-----------------------------------------------------------------------------
\* A stored package is of the receipt of its user's draft, verifies, and its
\* time agrees with the stage of the draft.
PackageOK(p) ==
    LET u == p.leaf.user IN
    /\ u \in Users /\ draft[u] \in CvdrDraft /\ draft[u].stage \in Published
    /\ p.leaf = ReceiptOf(u)
    /\ draft[u].stage = "CertificateCaptured"
          <=> p.time <= p.leaf.committedAt + Window
    /\ p.leaf \in p.root /\ p.leaf.committedAt <= p.time

\* Packages and drafts agree, and a user has one package.
FrozenInv ==
    /\ \A p \in frozen : PackageOK(p)
    /\ \A p, q \in frozen : p.leaf.user = q.leaf.user => p = q
    /\ \A u \in Drafted : draft[u].stage \in Published => HasPackage(u)

LEMMA InitFrozen == ASSUME Init PROVE FrozenInv
BY DEF Init, FrozenInv, Drafted

\* A step that stores nothing keeps the packages in agreement.
LEMMA KeepFrozen ==
    ASSUME LegInv, FrozenInv, frozen' = frozen,
           \A v \in Users : KeptDraft(v) \/ CreatedDraft(v)
                             \/ PublishedDraft(v) \/ StuckDraft(v)
    PROVE  FrozenInv'
<1>1. ASSUME NEW p \in frozen PROVE PackageOK(p)'
  <2> DEFINE u == p.leaf.user
  <2>1. u \in Users /\ draft[u] \in CvdrDraft /\ draft[u].stage \in Published
      BY <1>1 DEF FrozenInv, PackageOK
  <2>2. KeptDraft(u)
      BY <2>1, NoDraftAssumption DEF CreatedDraft, PublishedDraft, StuckDraft, Published
  <2>3. /\ draft'[u] \in CvdrDraft /\ draft'[u].stage = draft[u].stage
        /\ LeafOf(u, draft'[u]) = LeafOf(u, draft[u])
      BY <2>1, <2>2 DEF KeptDraft
  <2> QED
      BY <1>1, <2>1, <2>3 DEF FrozenInv, PackageOK, ReceiptOf
<1>2. ASSUME NEW u \in Drafted', draft'[u].stage \in Published PROVE HasPackage(u)'
  <2>1. u \in Users /\ draft'[u] # NoDraft
      BY <1>2 DEF Drafted
  <2>2. KeptDraft(u)
    <3>1. ~CreatedDraft(u)
        BY <1>2 DEF CreatedDraft, Published
    <3>2. ~PublishedDraft(u)
        BY <1>2 DEF PublishedDraft, Published
    <3>3. ~StuckDraft(u)
      <4>1. ASSUME StuckDraft(u) PROVE draft'[u].stage = "FailedStuck"
          BY <4>1 DEF StuckDraft, CvdrDraft, DraftStage
      <4> QED
          BY <1>2, <4>1 DEF Published
    <3> QED
        BY <2>1, <3>1, <3>2, <3>3
  <2>3. /\ draft[u] # NoDraft /\ draft[u].stage \in Published
        /\ LeafOf(u, draft'[u]) = LeafOf(u, draft[u])
      BY <1>2, <2>1, <2>2, NoDraftAssumption DEF KeptDraft
  <2> QED
      BY <2>1, <2>3 DEF FrozenInv, Drafted, HasPackage
<1> QED
    BY <1>1, <1>2 DEF FrozenInv

\* The leaf of a draft under another scrub mark.
LEMMA ScrubLeaf ==
    ASSUME NEW u \in Users, NEW d \in CvdrDraft, NEW e \in CvdrDraft,
           e.seq = d.seq,
           e.uninstalledAt = d.uninstalledAt, e.committedAt = d.committedAt
    PROVE  LeafOf(u, d) = [LeafOf(u, e) EXCEPT !.scrubbed = d.scrubbed]
<1>1. ASSUME NEW l \in Leaf, NEW m \in Leaf, l.user = m.user, l.seq = m.seq,
             l.uninstalledAt = m.uninstalledAt, l.committedAt = m.committedAt,
             l.scrubbed = m.scrubbed
      PROVE  l = m
    BY <1>1 DEF Leaf
<1>3. LeafOf(u, d) \in Leaf /\ LeafOf(u, e) \in Leaf
    BY LeafOfType
<1> DEFINE m == [LeafOf(u, e) EXCEPT !.scrubbed = d.scrubbed]
<1>2. /\ m \in Leaf /\ m.user = LeafOf(u, e).user /\ m.seq = LeafOf(u, e).seq
      /\ m.uninstalledAt = LeafOf(u, e).uninstalledAt
      /\ m.committedAt = LeafOf(u, e).committedAt /\ m.scrubbed = d.scrubbed
    BY <1>3 DEF Leaf, CvdrDraft
<1>4. /\ LeafOf(u, d).user = u /\ LeafOf(u, e).user = u
      /\ LeafOf(u, d).seq = LeafOf(u, e).seq
      /\ LeafOf(u, d).uninstalledAt = LeafOf(u, e).uninstalledAt
      /\ LeafOf(u, d).committedAt = LeafOf(u, e).committedAt
      /\ LeafOf(u, d).scrubbed = d.scrubbed
    BY DEF LeafOf
<1> HIDE DEF m
<1>5. LeafOf(u, d) = m
    BY <1>1, <1>2, <1>3, <1>4
<1> QED
    BY <1>5 DEF m

\* What a finalized draft keeps, and the package it leaves.
LEMMA FinalizedFacts ==
    ASSUME LegInv, FrozenInv, NEW u \in Users, FinalizedDraft(u)
    PROVE  \E p : /\ frozen' = frozen \union {p}
                  /\ p.leaf = LeafOf(u, draft[u]) /\ p.leaf.user = u
                  /\ p.leaf = [LeafOf(u, draft'[u]) EXCEPT !.scrubbed = FALSE]
                  /\ p.leaf \in p.root /\ p.leaf.committedAt <= p.time
                  /\ draft'[u] \in CvdrDraft /\ draft'[u].stage \in Published
                  /\ draft'[u].stage = "CertificateCaptured"
                        <=> p.time <= p.leaf.committedAt + Window
                  /\ \A q \in frozen : q.leaf.user # u
<1>1. PICK c \in certs, s \in Published :
        /\ draft[u] \in CvdrDraft /\ IsFinalizable(draft[u])
        /\ Verified(u, c) /\ s = StageFor(u, c) /\ InsertFrozen(u, c)
        /\ draft'[u] = Scrubbed(draft[u], s)
    BY DEF FinalizedDraft
<1>2. ~draft[u].scrubbed
    BY <1>1, NoDraftAssumption DEF LegInv, UserOK, IsFinalizable
<1>3. \A q \in frozen : q.leaf.user # u
    BY <1>1 DEF FrozenInv, PackageOK, IsFinalizable, Published
<1>4. ~HasPackage(u)
    BY <1>3 DEF HasPackage, SameReceipt, LeafOf
<1> DEFINE p == [leaf |-> LeafOf(u, draft[u]), root |-> c.root, time |-> c.time]
<1>5. frozen' = frozen \union {p}
    BY <1>1, <1>4 DEF InsertFrozen
<1>6. /\ draft'[u] \in CvdrDraft /\ draft'[u].stage = s
      /\ p.leaf = [LeafOf(u, draft'[u]) EXCEPT !.scrubbed = FALSE]
  <2>1. Scrubbed(draft[u], s) \in CvdrDraft
      BY <1>1 DEF Scrubbed, CvdrDraft, DraftStage, Published
  <2>2. draft[u].scrubbed = FALSE
      BY <1>1, <1>2 DEF CvdrDraft
  <2> QED
    <3>1. /\ draft'[u].stage = s /\ draft'[u].seq = draft[u].seq
          /\ draft'[u].uninstalledAt = draft[u].uninstalledAt
          /\ draft'[u].committedAt = draft[u].committedAt
        BY <1>1 DEF Scrubbed, CvdrDraft
    <3>2. p.leaf = [LeafOf(u, draft'[u]) EXCEPT !.scrubbed = FALSE]
      <4>1. draft'[u] \in CvdrDraft
          BY <1>1, <2>1
      <4>2. LeafOf(u, draft[u]) = [LeafOf(u, draft'[u]) EXCEPT !.scrubbed = FALSE]
        <5>1. LeafOf(u, draft[u]) = [LeafOf(u, draft'[u]) EXCEPT !.scrubbed = draft[u].scrubbed]
            BY <1>1, <3>1, <4>1, ScrubLeaf
        <5> QED
            BY <2>2, <5>1
      <4> QED
          BY <4>2
    <3> QED
        BY <1>1, <2>1, <3>1, <3>2
<1>7. p.leaf \in p.root /\ p.leaf.committedAt <= p.time /\ p.leaf.user = u
    BY <1>1 DEF Verified, LeafOf
<1>8. s = "CertificateCaptured" <=> p.time <= p.leaf.committedAt + Window
    BY <1>1 DEF StageFor, InWindow, LeafOf
<1> HIDE DEF p
<1>9. p.leaf = LeafOf(u, draft[u])
    BY DEF p
<1> QED
    BY <1>3, <1>5, <1>6, <1>7, <1>8, <1>9

\* A stored certificate keeps packages and drafts in agreement.
LEMMA PublishFrozen ==
    ASSUME LegInv, FrozenInv, NEW u \in Users, FinalizedDraft(u),
           \A v \in Users \ {u} : draft'[v] = draft[v]
    PROVE  FrozenInv'
<1>1. PICK p : /\ frozen' = frozen \union {p}
               /\ p.leaf = LeafOf(u, draft[u]) /\ p.leaf.user = u
               /\ p.leaf = [LeafOf(u, draft'[u]) EXCEPT !.scrubbed = FALSE]
               /\ p.leaf \in p.root /\ p.leaf.committedAt <= p.time
               /\ draft'[u] \in CvdrDraft /\ draft'[u].stage \in Published
               /\ draft'[u].stage = "CertificateCaptured"
                     <=> p.time <= p.leaf.committedAt + Window
               /\ \A q \in frozen : q.leaf.user # u
    BY FinalizedFacts
<1>2. PackageOK(p)'
    BY <1>1 DEF PackageOK, ReceiptOf
<1>3. ASSUME NEW q \in frozen PROVE PackageOK(q)'
  <2>1. PackageOK(q) /\ q.leaf.user \in Users \ {u}
      BY <1>1, <1>3 DEF FrozenInv, PackageOK
  <2>2. draft'[q.leaf.user] = draft[q.leaf.user]
      BY <2>1
  <2> QED
      BY <2>1, <2>2 DEF PackageOK, ReceiptOf
<1>4. ASSUME NEW v \in Drafted', draft'[v].stage \in Published PROVE HasPackage(v)'
  <2>1. v \in Users /\ draft'[v] # NoDraft
      BY <1>4 DEF Drafted
  <2>2. CASE v = u
    <3>1. SameReceipt(p.leaf, LeafOf(u, draft'[u]))
      <4>1. p.leaf.user = u /\ p.leaf.seq = draft'[u].seq
          BY <1>1 DEF LeafOf
      <4> QED
          BY <4>1 DEF SameReceipt, LeafOf
    <3> QED
        BY <1>1, <2>2, <3>1 DEF HasPackage
  <2>3. CASE v # u
      BY <1>1, <1>4, <2>1, <2>3 DEF FrozenInv, Drafted, HasPackage
  <2> QED
      BY <2>2, <2>3
<1> QED
    BY <1>1, <1>2, <1>3, <1>4 DEF FrozenInv

LEMMA NextFrozen ==
    ASSUME LegInv, FrozenInv, [Next]_vars
    PROVE  FrozenInv'
BY StepDraft, KeepFrozen, PublishFrozen

\* The inductive invariant of the packages, beside that of the delete leg:
\* whatever coroutine ends last, every stored package is of a committed draft
\* and verifies, and a draft in a published stage has one.
THEOREM FrozenInvariant == Spec => [](LegInv /\ FrozenInv)
BY InitLeg, NextLeg, InitFrozen, NextFrozen, PTL DEF Spec

\* A draft says captured or late exactly when the package of its receipt is
\* stored, and captured exactly when that package is in the window.
THEOREM StagesAgree == Spec => []StageMatchesPackage
<1>1. FrozenInv => StageMatchesPackage
  <2> SUFFICES ASSUME FrozenInv PROVE StageMatchesPackage
      OBVIOUS
  <2>1. ASSUME NEW u \in Drafted, HasPackage(u) PROVE draft[u].stage \in Published
      BY <2>1 DEF FrozenInv, PackageOK, HasPackage, SameReceipt, LeafOf
  <2>2. \A u \in Drafted : draft[u].stage \in Published => HasPackage(u)
      BY DEF FrozenInv
  <2>3. ASSUME NEW p \in frozen
        PROVE  LET u == p.leaf.user IN
               /\ u \in Drafted /\ p.leaf = ReceiptOf(u)
               /\ draft[u].stage = "CertificateCaptured"
                     <=> p.time <= p.leaf.committedAt + Window
      BY <2>3, NoDraftAssumption DEF FrozenInv, PackageOK, Drafted
  <2> QED
      BY <2>1, <2>2, <2>3 DEF StageMatchesPackage, Published
<1> QED
    BY <1>1, FrozenInvariant, PTL

\* Every stored package verifies offline, and a receipt has one.
THEOREM PackagesAreSound == Spec => []PackagesVerify
<1>1. FrozenInv => PackagesVerify
    BY DEF FrozenInv, PackageOK, PackagesVerify, SameReceipt
<1> QED
    BY <1>1, FrozenInvariant, PTL

-----------------------------------------------------------------------------
(* Action properties *)

\* Drafts only move forward, whichever coroutine writes them.
THEOREM DraftsForward == Spec => StageForward
<1>1. ASSUME LegInv, [Next]_vars, NEW u \in Users PROVE Rank(u)' >= Rank(u)
  <2>0. \/ KeptDraft(u) \/ CreatedDraft(u) \/ PublishedDraft(u)
        \/ StuckDraft(u) \/ FinalizedDraft(u)
      BY <1>1, StepDraft DEF KeptDraft
  <2>1. Rank(u) \in 0..5
      BY DEF Rank
  <2>2. CASE KeptDraft(u)
      BY <2>1, <2>2, NoDraftAssumption DEF KeptDraft, Rank
  <2>3. CASE CreatedDraft(u)
    <3>1. Rank(u) = 0 /\ Rank(u)' = 1
        BY <2>3, NoDraftAssumption DEF CreatedDraft, Rank
    <3> QED
        BY <3>1
  <2>4. CASE PublishedDraft(u)
    <3>1. Rank(u) = 1 /\ Rank(u)' = 3
        BY <2>4, NoDraftAssumption DEF PublishedDraft, Rank
    <3> QED
        BY <3>1
  <2>5. CASE StuckDraft(u)
    <3>1. draft'[u].stage = "FailedStuck"
        BY <2>5 DEF StuckDraft, CvdrDraft, DraftStage
    <3>2. Rank(u) = 3 /\ Rank(u)' = 4
        BY <2>5, <3>1, NoDraftAssumption DEF StuckDraft, Rank
    <3> QED
        BY <3>2
  <2>6. CASE FinalizedDraft(u)
    <3>1. draft'[u] \in CvdrDraft /\ draft'[u].stage \in Published
        BY <2>6 DEF FinalizedDraft, Scrubbed, Published, CvdrDraft, DraftStage
    <3>2. Rank(u)' = 5
        BY <3>1, NoDraftAssumption DEF Rank, Published
    <3> QED
        BY <2>1, <3>2
  <2> QED
      BY <2>0, <2>2, <2>3, <2>4, <2>5, <2>6
<1>2. LegInv /\ [Next]_vars => [\A u \in Users : Rank(u)' >= Rank(u)]_vars
    BY <1>1
<1> QED
    BY <1>2, LegInvariant, PTL DEF Spec, StageForward

\* A committed receipt keeps its id and its times for ever.
THEOREM ReceiptsFixed == Spec => ReceiptFixed
<1>1. ASSUME LegInv, [Next]_vars, NEW u \in Users, draft[u] # NoDraft,
             draft[u].committedAt > 0
      PROVE  LeafOf(u, draft'[u]) \in
               {LeafOf(u, draft[u]), [LeafOf(u, draft[u]) EXCEPT !.scrubbed = TRUE]}
  <2>0. KeptDraft(u) \/ StuckDraft(u) \/ FinalizedDraft(u)
    <3>1. ~CreatedDraft(u) /\ ~PublishedDraft(u)
        BY <1>1 DEF CreatedDraft, PublishedDraft
    <3> QED
        BY <1>1, <3>1, StepDraft DEF KeptDraft
  <2>1. CASE KeptDraft(u)
      BY <2>1 DEF KeptDraft
  <2>2. CASE StuckDraft(u)
      BY <2>2 DEF StuckDraft, CvdrDraft, LeafOf
  <2>3. CASE FinalizedDraft(u)
    <3>1. PICK s \in Published :
             draft[u] \in CvdrDraft /\ draft'[u] = Scrubbed(draft[u], s)
        BY <2>3 DEF FinalizedDraft
    <3>2. /\ draft'[u] \in CvdrDraft /\ draft'[u].scrubbed = TRUE
          /\ draft'[u].seq = draft[u].seq
          /\ draft'[u].uninstalledAt = draft[u].uninstalledAt
          /\ draft'[u].committedAt = draft[u].committedAt
        BY <3>1 DEF Scrubbed, Published, CvdrDraft, DraftStage
    <3>3. LeafOf(u, draft'[u]) = [LeafOf(u, draft[u]) EXCEPT !.scrubbed = draft'[u].scrubbed]
        BY <3>1, <3>2, ScrubLeaf
    <3> QED
        BY <3>2, <3>3
  <2> QED
      BY <2>0, <2>1, <2>2, <2>3
<1>2. LegInv /\ [Next]_vars =>
        [\A u \in Users : (draft[u] # NoDraft /\ draft[u].committedAt > 0) =>
            LeafOf(u, draft'[u]) \in
              {LeafOf(u, draft[u]), [LeafOf(u, draft[u]) EXCEPT !.scrubbed = TRUE]}]_vars
    BY <1>1
<1> QED
    BY <1>2, LegInvariant, PTL DEF Spec, ReceiptFixed

-----------------------------------------------------------------------------
(* Refinement *)

\* A step of a leg requests a user, completes a deletion, or is invisible.
LEMMA LegStepLedger ==
    ASSUME LegInv, NEW u \in Users, LegStep(u)
    PROVE  \/ requested' = requested \union {u} /\ UNCHANGED <<localUsers, frozen>>
           \/ /\ u \in requested /\ u \in localUsers /\ localUsers' = localUsers \ {u}
              /\ UNCHANGED <<requested, frozen>>
           \/ UNCHANGED <<requested, localUsers, frozen>>
<1>0. UserOK(u) /\ TypeOK
    BY DEF LegInv
<1>1. CASE DeleteUser(u)
    BY <1>1 DEF DeleteUser
<1>2. CASE StatusPostReply(u)
  <2> DEFINE d == [draft[u] EXCEPT !.uninstalledAt = IF @ = 0 THEN now ELSE @,
                                   !.stage = "Uninstalled"]
  <2>1. u \in requested /\ u \in localUsers
      BY <1>0, <1>2 DEF StatusPostReply, UserOK, Before, InFlight
  <2>2. FirstPublish(d)
    <3>1. draft[u] \in CvdrDraft
        BY <1>0, <1>2 DEF StatusPostReply, TypeOK
    <3> QED
        BY <3>1 DEF FirstPublish, CvdrDraft
  <2>3. AdvancePublish(u, d) /\ UNCHANGED <<requested, frozen>>
      BY <1>2 DEF StatusPostReply
  <2> HIDE DEF d
  <2>4. localUsers' = localUsers \ {u}
      BY <2>2, <2>3 DEF AdvancePublish, CompleteDeletion
  <2> QED
      BY <2>1, <2>3, <2>4
<1>3. CASE Republish(u)
  <2>1. ~FirstPublish(draft[u])
      BY <1>0, <1>3 DEF Republish, Republished, FirstPublish, UserOK
  <2> QED
      BY <1>3, <2>1 DEF Republish, AdvancePublish
<1>4. CASE StartCapture(u) BY <1>4 DEF StartCapture
<1>5. CASE StartUninstall(u) BY <1>5 DEF StartUninstall
<1>6. CASE SkipTerminal(u) BY <1>6 DEF SkipTerminal
<1>7. CASE GroupsReply(u) BY <1>7 DEF GroupsReply
<1>8. CASE StatusPreReply(u) BY <1>8 DEF StatusPreReply
<1>9. CASE RandReply(u) BY <1>9 DEF RandReply
<1>10. CASE RandTraps(u) BY <1>10 DEF RandTraps
<1>11. CASE UninstallReply(u) BY <1>11 DEF UninstallReply
<1>12. CASE LegRetry(u) BY <1>12 DEF LegRetry
<1> QED
    BY <1>1, <1>2, <1>3, <1>4, <1>5, <1>6, <1>7, <1>8, <1>9, <1>10, <1>11, <1>12
    DEF LegStep

\* A step of the pipeline is a step of the ledger or leaves the ledger alone.
LEMMA StepLedger ==
    ASSUME LegInv, FrozenInv, [Next]_vars
    PROVE  [Ledger!Next]_(Ledger!vars)
<1> USE DEF Ledger!vars
<1>0. localUsers \subseteq LocalUsers /\ LocalUsers \subseteq Users
    BY ConstantsAssumption DEF LegInv, TypeOK
<1>1. CASE \E u \in Users : LegStep(u)
  <2>1. PICK u \in Users : LegStep(u)
      BY <1>1
  <2>2. ASSUME requested' = requested \union {u}, UNCHANGED <<localUsers, frozen>>
        PROVE  [Ledger!Next]_(Ledger!vars)
    <3>1. CASE u \in LocalUsers
      <4>1. Ledger!Request(u)
          BY <2>2, <3>1 DEF Ledger!Request
      <4> QED
          BY <3>1, <4>1 DEF Ledger!Next
    <3>2. CASE u \notin LocalUsers
        BY <2>2, <3>2
    <3> QED
        BY <3>1, <3>2
  <2>3. ASSUME u \in requested, u \in localUsers, localUsers' = localUsers \ {u},
               UNCHANGED <<requested, frozen>>
        PROVE  Ledger!Next
    <3>1. Ledger!Delete(u)
        BY <1>0, <2>3 DEF Ledger!Delete
    <3> QED
        BY <1>0, <2>3, <3>1 DEF Ledger!Next
  <2>4. ASSUME UNCHANGED <<requested, localUsers, frozen>>
        PROVE  UNCHANGED Ledger!vars
      BY <2>4
  <2> QED
      BY <2>1, <2>2, <2>3, <2>4, LegStepLedger
<1>2. CASE \/ RunSweep \/ Upgrade \/ Tick \/ UNCHANGED vars
           \/ \E u \in Users : AttemptMiss(u)
  <2>1. UNCHANGED <<requested, localUsers, frozen>>
      BY <1>2 DEF RunSweep, Upgrade, Tick, AttemptMiss
  <2> QED
      BY <2>1
<1>3. CASE \E u \in Users, c \in certs : CaptureCertificate(u, c) \/ FinalizeCvdr(u, c)
  <2>1. PICK u \in Users : FinalizedDraft(u) /\ UNCHANGED <<requested, localUsers>>
      BY <1>3, FinalizeDraft
  <2>2. draft[u] \in CvdrDraft /\ draft[u].stage # "Captured"
      BY <2>1 DEF FinalizedDraft, IsFinalizable
  <2>3. u \in LocalUsers /\ u \notin localUsers
      BY <2>2, NoDraftAssumption DEF LegInv, UserOK, After
  <2>4. PICK p : /\ frozen' = frozen \union {p} /\ p.leaf.user = u
                 /\ \A q \in frozen : q.leaf.user # u
      BY <2>1, FinalizedFacts
  <2> DEFINE official == [v \in LocalUsers |-> {q \in frozen : q.leaf.user = v}]
  <2>5. official[u] = {} /\ official' = [official EXCEPT ![u] = {p}] /\ p \in official'[u]
      BY <2>3, <2>4
  <2>6. Ledger!Publish(u)
      BY <2>1, <2>3, <2>5 DEF Ledger!Publish
  <2> QED
      BY <2>3, <2>6 DEF Ledger!Next
<1> QED
    BY <1>1, <1>2, <1>3 DEF Next, CaptureStep

\* Through queues, retries, upgrades and certificates, a requested user is
\* deleted once and for all and gets at most one official package.
THEOREM PipelineImplementsLedger == Spec => ImplementsLedger
<1>1. Init => Ledger!Init
    BY DEF Init, Ledger!Init
<1>2. LegInv /\ FrozenInv /\ [Next]_vars => [Ledger!Next]_(Ledger!vars)
    BY StepLedger
<1> QED
    BY <1>1, <1>2, FrozenInvariant, PTL DEF Spec, ImplementsLedger, Ledger!Spec

-----------------------------------------------------------------------------
(***************************************************************************)
(* Proofs about the receipt tree: it holds the bodies of the committed     *)
(* drafts, and only an upgrade drops a leaf.                               *)
(***************************************************************************)

\* A draft that is not scrubbed speaks for itself.
LEMMA UnscrubbedReceipt ==
    ASSUME NEW u \in Users, draft[u] \in CvdrDraft, ~draft[u].scrubbed
    PROVE  LeafOf(u, draft[u]) = ReceiptOf(u)
<1>1. LeafOf(u, draft[u]) = [LeafOf(u, draft[u]) EXCEPT !.scrubbed = draft[u].scrubbed]
    BY ScrubLeaf
<1>2. draft[u].scrubbed = FALSE
    BY DEF CvdrDraft
<1> QED
    BY <1>1, <1>2 DEF ReceiptOf

\* Two leaves of a user's draft differ in their scrub mark only.
LEMMA ReceiptFields ==
    ASSUME NEW u \in Users, draft[u] \in CvdrDraft
    PROVE  /\ ReceiptOf(u) \in Leaf
           /\ ReceiptOf(u).user = u /\ ReceiptOf(u).seq = draft[u].seq
<1>1. LeafOf(u, draft[u]) \in Leaf
    BY LeafOfType
<1>2. ASSUME NEW l \in Leaf
      PROVE  /\ [l EXCEPT !.scrubbed = FALSE] \in Leaf
             /\ [l EXCEPT !.scrubbed = FALSE].user = l.user
             /\ [l EXCEPT !.scrubbed = FALSE].seq = l.seq
    BY DEF Leaf
<1>3. LeafOf(u, draft[u]).user = u /\ LeafOf(u, draft[u]).seq = draft[u].seq
    BY DEF LeafOf
<1> QED
    BY <1>1, <1>2, <1>3 DEF ReceiptOf

\* The receipt of a committed draft never changes.
LEMMA SameReceiptOf ==
    ASSUME LegInv, FrozenInv, [Next]_vars, NEW u \in Users,
           draft[u] # NoDraft, draft[u].committedAt > 0
    PROVE  /\ draft'[u] # NoDraft /\ draft'[u].committedAt > 0
           /\ ReceiptOf(u)' = ReceiptOf(u)
<1>0. draft[u] \in CvdrDraft
    BY DEF LegInv, TypeOK
<1>1. ~CreatedDraft(u) /\ ~PublishedDraft(u)
    BY DEF CreatedDraft, PublishedDraft
<1>2. KeptDraft(u) \/ StuckDraft(u) \/ FinalizedDraft(u)
    BY <1>1, StepDraft DEF KeptDraft
<1>3. CASE KeptDraft(u) \/ StuckDraft(u)
  <2>1. LeafOf(u, draft'[u]) = LeafOf(u, draft[u]) /\ draft'[u] \in CvdrDraft
      BY <1>0, <1>3 DEF KeptDraft, StuckDraft, CvdrDraft, LeafOf
  <2>2. draft'[u].committedAt = draft[u].committedAt
      BY <2>1 DEF LeafOf
  <2> QED
      BY <2>1, <2>2, NoDraftAssumption DEF ReceiptOf
<1>4. CASE FinalizedDraft(u)
  <2>1. /\ draft'[u] \in CvdrDraft
        /\ LeafOf(u, draft[u]) = [LeafOf(u, draft'[u]) EXCEPT !.scrubbed = FALSE]
      BY <1>4, FinalizedFacts
  <2>2. draft'[u].committedAt = draft[u].committedAt
      BY <1>4 DEF FinalizedDraft, Scrubbed, CvdrDraft
  <2>3. LeafOf(u, draft[u]) = ReceiptOf(u)
      BY <1>0, <1>4, NoDraftAssumption, UnscrubbedReceipt
      DEF FinalizedDraft, IsFinalizable, LegInv, UserOK
  <2> QED
      BY <2>1, <2>2, <2>3, NoDraftAssumption DEF ReceiptOf
<1> QED
    BY <1>2, <1>3, <1>4

-----------------------------------------------------------------------------
(* The tree *)

\* A step that leaves the tree alone publishes no draft.
LEMMA KeepTree ==
    ASSUME LegInv, FrozenInv, TreeMatchesDrafts, [Next]_vars, tree' = tree,
           \A u \in Users : ~PublishedDraft(u)
    PROVE  TreeMatchesDrafts'
<1>1. ASSUME NEW u \in Awaiting' PROVE LeafOf(u, draft'[u]) \in tree
  <2>1. u \in Users /\ draft'[u] # NoDraft /\ draft'[u].stage = "AwaitingCertificate"
      BY <1>1 DEF Awaiting, Drafted
  <2>2. ~CreatedDraft(u) /\ ~FinalizedDraft(u) /\ ~StuckDraft(u)
    <3>1. ~CreatedDraft(u)
        BY <2>1 DEF CreatedDraft
    <3>2. ASSUME FinalizedDraft(u) PROVE draft'[u].stage \in Published
        BY <2>1, <3>2 DEF FinalizedDraft, Scrubbed, Published, CvdrDraft, DraftStage
    <3>3. ASSUME StuckDraft(u) PROVE draft'[u].stage = "FailedStuck"
        BY <3>3 DEF StuckDraft, CvdrDraft, DraftStage
    <3> QED
        BY <2>1, <3>1, <3>2, <3>3 DEF Published
  <2>3. KeptDraft(u)
      BY <2>1, <2>2, StepDraft DEF KeptDraft
  <2>4. /\ draft[u] # NoDraft /\ draft[u].stage = "AwaitingCertificate"
        /\ LeafOf(u, draft'[u]) = LeafOf(u, draft[u])
      BY <2>1, <2>3, NoDraftAssumption DEF KeptDraft
  <2> QED
      BY <2>1, <2>4 DEF TreeMatchesDrafts, Awaiting, Drafted
<1>2. ASSUME NEW l \in tree
      PROVE  \E u \in Drafted' : draft'[u].committedAt > 0 /\ l = ReceiptOf(u)'
  <2>1. PICK u \in Drafted : draft[u].committedAt > 0 /\ l = ReceiptOf(u)
      BY <1>2 DEF TreeMatchesDrafts
  <2> QED
      BY <2>1, SameReceiptOf DEF Drafted
<1> QED
    BY <1>1, <1>2 DEF TreeMatchesDrafts

\* A publish replaces the leaf of its own receipt by an equal one.
LEMMA PublishTree ==
    ASSUME LegInv, FrozenInv, TreeMatchesDrafts, [Next]_vars,
           NEW u \in Users, LegStep(u), Republish(u) \/ StatusPostReply(u)
    PROVE  TreeMatchesDrafts' /\ tree \subseteq tree'
<1>0. TypeOK /\ UserOK(u) /\ LegInv'
    BY NextLeg DEF LegInv
<1>1. /\ draft'[u] \in CvdrDraft /\ draft'[u].stage = "AwaitingCertificate"
      /\ tree' = Insert(tree, LeafOf(u, draft'[u]))
      /\ draft[u] # NoDraft
  <2>1. PICK d \in CvdrDraft : AdvancePublish(u, d)
    <3>1. CASE Republish(u)
        BY <1>0, <3>1 DEF Republish, TypeOK
    <3>2. CASE StatusPostReply(u)
      <4> DEFINE d == [draft[u] EXCEPT !.uninstalledAt = IF @ = 0 THEN now ELSE @,
                                       !.stage = "Uninstalled"]
      <4>1. d \in CvdrDraft
          BY <1>0, <3>2, ZenonT(40) DEF StatusPostReply, TypeOK, CvdrDraft, DraftStage
      <4>2. AdvancePublish(u, d)
          BY <3>2 DEF StatusPostReply
      <4> HIDE DEF d
      <4> QED
          BY <4>1, <4>2
    <3> QED
        BY <3>1, <3>2
  <2>2. draft'[u] = [d EXCEPT !.committedAt = CommitTime(d), !.stage = "AwaitingCertificate"]
      BY <1>0, <2>1, AdvancePublishUser
  <2>3. draft' = [draft EXCEPT ![u] = draft'[u]] /\ tree' = Insert(tree, LeafOf(u, draft'[u]))
      BY <1>0, <2>1, <2>2 DEF AdvancePublish
  <2>4. CommitTime(d) \in Nat
      BY <1>0, <2>1 DEF CommitTime, CvdrDraft, TypeOK
  <2>5. draft'[u] \in CvdrDraft /\ draft'[u].stage = "AwaitingCertificate"
      BY <2>1, <2>2, <2>4 DEF CvdrDraft, DraftStage
  <2> QED
      BY <2>3, <2>5 DEF Republish, StatusPostReply
<1>2. /\ draft'[u] # NoDraft /\ draft'[u].committedAt > 0 /\ ~draft'[u].scrubbed
      /\ LeafOf(u, draft'[u]) = ReceiptOf(u)'
  <2>1. draft'[u].committedAt > 0 /\ ~draft'[u].scrubbed /\ draft'[u] # NoDraft
      BY <1>0, <1>1, NoDraftAssumption DEF LegInv, UserOK, After
  <2>2. LeafOf(u, draft'[u]) = [LeafOf(u, draft'[u]) EXCEPT !.scrubbed = draft'[u].scrubbed]
      BY <1>1, ScrubLeaf
  <2>3. draft'[u].scrubbed = FALSE
      BY <1>1, <2>1 DEF CvdrDraft
  <2> QED
      BY <2>1, <2>2, <2>3 DEF ReceiptOf
<1>3. \A v \in Users \ {u} : draft'[v] = draft[v]
    BY LegStepDraft
<1>4. ASSUME NEW l \in tree
      PROVE  /\ l \in tree'
             /\ \E v \in Drafted' : draft'[v].committedAt > 0 /\ l = ReceiptOf(v)'
  <2>1. PICK v \in Drafted : draft[v].committedAt > 0 /\ l = ReceiptOf(v)
      BY <1>4 DEF TreeMatchesDrafts
  <2>2. /\ v \in Users /\ draft'[v] # NoDraft /\ draft'[v].committedAt > 0
        /\ l = ReceiptOf(v)'
      BY <2>1, SameReceiptOf DEF Drafted
  <2>3. l.user = v
      BY <2>1, <2>2, ReceiptFields DEF Drafted, LegInv, TypeOK
  <2>4. l \in tree'
    <3>1. CASE v = u
        BY <1>1, <1>2, <2>2, <3>1 DEF Insert
    <3>2. CASE v # u
      <4>1. LeafOf(u, draft'[u]).user = u
          BY DEF LeafOf
      <4> QED
          BY <1>1, <1>4, <2>3, <3>2, <4>1 DEF Insert, SameReceipt
    <3> QED
        BY <3>1, <3>2
  <2> QED
      BY <2>2, <2>4 DEF Drafted
<1>5. ASSUME NEW v \in Awaiting' PROVE LeafOf(v, draft'[v]) \in tree'
  <2>1. CASE v = u
      BY <1>1, <2>1 DEF Insert
  <2>2. CASE v # u
    <3>1. v \in Users /\ draft'[v] = draft[v] /\ v \in Awaiting
        BY <1>3, <1>5, <2>2 DEF Awaiting, Drafted
    <3> QED
        BY <1>4, <3>1 DEF TreeMatchesDrafts
  <2> QED
      BY <2>1, <2>2
<1>6. ASSUME NEW l \in tree'
      PROVE  \E v \in Drafted' : draft'[v].committedAt > 0 /\ l = ReceiptOf(v)'
  <2>1. l \in tree \/ l = ReceiptOf(u)'
      BY <1>1, <1>2, <1>6 DEF Insert
  <2> QED
      BY <1>2, <1>4, <2>1 DEF Drafted
<1> QED
    BY <1>4, <1>5, <1>6 DEF TreeMatchesDrafts

\* post_upgrade rebuilds the tree without the leaves of stuck receipts.
LEMMA UpgradeTree ==
    ASSUME LegInv, FrozenInv, TreeMatchesDrafts, Upgrade
    PROVE  /\ TreeMatchesDrafts'
           /\ \A l \in tree \ tree' :
                 \E u \in Drafted : draft[u].stage = "FailedStuck" /\ l = ReceiptOf(u)
<1>0. /\ tree' = {p.leaf : p \in frozen} \union {LeafOf(u, draft[u]) : u \in Awaiting}
      /\ draft' = draft
    BY DEF Upgrade, RebuiltTree
<1>1. ASSUME NEW u \in Awaiting
      PROVE  /\ u \in Drafted /\ draft[u].committedAt > 0
             /\ LeafOf(u, draft[u]) = ReceiptOf(u)
  <2>1. /\ u \in Users /\ draft[u] # NoDraft /\ draft[u] \in CvdrDraft
        /\ draft[u].stage = "AwaitingCertificate"
      BY <1>1 DEF Awaiting, Drafted, LegInv, TypeOK
  <2> QED
      BY <2>1, UnscrubbedReceipt DEF LegInv, UserOK, After, Drafted
<1>2. ASSUME NEW p \in frozen
      PROVE  \E u \in Drafted : draft[u].committedAt > 0 /\ p.leaf = ReceiptOf(u)
  <2>1. /\ p.leaf.user \in Users /\ draft[p.leaf.user] # NoDraft
        /\ draft[p.leaf.user].stage # "Captured" /\ p.leaf = ReceiptOf(p.leaf.user)
      BY <1>2, NoDraftAssumption DEF FrozenInv, PackageOK, Published
  <2> QED
      BY <2>1 DEF LegInv, UserOK, After, Drafted
<1>3. TreeMatchesDrafts'
  <2>1. Drafted' = Drafted /\ Awaiting' = Awaiting /\ \A u \in Users : ReceiptOf(u)' = ReceiptOf(u)
      BY <1>0 DEF Drafted, Awaiting, ReceiptOf
  <2>2. \A u \in Awaiting : LeafOf(u, draft[u]) \in tree'
      BY <1>0
  <2>3. \A l \in tree' : \E u \in Drafted : draft[u].committedAt > 0 /\ l = ReceiptOf(u)
      BY <1>0, <1>1, <1>2
  <2>4. Drafted \subseteq Users
      BY DEF Drafted
  <2> QED
      BY <1>0, <2>1, <2>2, <2>3, <2>4 DEF TreeMatchesDrafts
<1>4. ASSUME NEW l \in tree, l \notin tree'
      PROVE  \E u \in Drafted : draft[u].stage = "FailedStuck" /\ l = ReceiptOf(u)
  <2>1. PICK u \in Drafted : draft[u].committedAt > 0 /\ l = ReceiptOf(u)
      BY <1>4 DEF TreeMatchesDrafts
  <2>2. u \in Users /\ draft[u] # NoDraft /\ draft[u] \in CvdrDraft /\ UserOK(u)
      BY <2>1 DEF Drafted, LegInv, TypeOK
  <2>3. draft[u].stage # "Captured" /\ draft[u].stage # "Uninstalled"
      BY <2>1, <2>2 DEF UserOK, Before
  <2>4. draft[u].stage # "AwaitingCertificate"
      BY <1>0, <1>1, <1>4, <2>1, <2>2 DEF Awaiting
  <2>5. draft[u].stage \notin Published
    <3>1. ASSUME HasPackage(u) PROVE l \in tree'
      <4>1. PICK p \in frozen : p.leaf.user = u
          BY <3>1 DEF HasPackage, SameReceipt, LeafOf
      <4>2. p.leaf = ReceiptOf(u)
          BY <4>1 DEF FrozenInv, PackageOK
      <4> QED
          BY <1>0, <2>1, <4>1, <4>2
    <3> QED
        BY <1>4, <2>1, <3>1 DEF FrozenInv
  <2>6. draft[u].stage = "FailedStuck"
      BY <2>2, <2>3, <2>4, <2>5 DEF CvdrDraft, DraftStage, Published
  <2> QED
      BY <2>1, <2>6
<1> QED
    BY <1>3, <1>4

\* The steps that leave the tree alone.
LEMMA TreeSteps ==
    ASSUME LegInv, FrozenInv, [Next]_vars
    PROVE  \/ \E u \in Users : LegStep(u) /\ (Republish(u) \/ StatusPostReply(u))
           \/ Upgrade
           \/ tree' = tree /\ \A u \in Users : ~PublishedDraft(u)
<1>1. ASSUME NEW u \in Users, LegStep(u), ~Republish(u), ~StatusPostReply(u)
      PROVE  tree' = tree /\ \A v \in Users : ~PublishedDraft(v)
  <2>1. CASE RandReply(u)
    <3>1. draft[u] = NoDraft /\ tree' = tree
        BY <1>1, <2>1 DEF LegInv, UserOK, RandReply
    <3> QED
        BY <1>1, <3>1, LegStepDraft, NoDraftAssumption DEF PublishedDraft
  <2>2. CASE \/ DeleteUser(u) \/ StartCapture(u) \/ StartUninstall(u)
             \/ SkipTerminal(u) \/ GroupsReply(u) \/ StatusPreReply(u)
             \/ RandTraps(u) \/ UninstallReply(u) \/ LegRetry(u)
    <3>1. draft' = draft /\ tree' = tree
        BY <2>2 DEF DeleteUser, StartCapture, StartUninstall, SkipTerminal, GroupsReply,
           StatusPreReply, RandTraps, UninstallReply, LegRetry
    <3> QED
        BY <3>1 DEF PublishedDraft
  <2> QED
      BY <1>1, <2>1, <2>2 DEF LegStep
<1>2. CASE RunSweep
  <2>1. TypeOK' /\ tree' = tree
      BY <1>2, CaptureStepType DEF CaptureStep, RunSweep, LegInv
  <2>2. ASSUME NEW v \in Users, PublishedDraft(v) PROVE FALSE
    <3>1. KeptDraft(v) \/ StuckDraft(v)
        BY <1>2, <2>1, SweepDraft
    <3> QED
        BY <2>2, <3>1 DEF KeptDraft, StuckDraft, PublishedDraft
  <2> QED
      BY <2>1, <2>2
<1>3. CASE Tick \/ UNCHANGED vars \/ \E u \in Users : AttemptMiss(u)
  <2>1. draft' = draft /\ tree' = tree
      BY <1>3 DEF Tick, AttemptMiss
  <2> QED
      BY <2>1 DEF PublishedDraft
<1>4. CASE \E u \in Users, c \in certs : CaptureCertificate(u, c) \/ FinalizeCvdr(u, c)
  <2>1. PICK u \in Users : FinalizedDraft(u) /\ \A v \in Users \ {u} : draft'[v] = draft[v]
      BY <1>4, FinalizeDraft
  <2>2. tree' = tree
      BY <1>4 DEF CaptureCertificate, FinalizeCvdr
  <2>3. draft[u].stage # "Captured"
      BY <2>1 DEF FinalizedDraft, IsFinalizable
  <2> QED
      BY <2>1, <2>2, <2>3 DEF PublishedDraft
<1> QED
    BY <1>1, <1>2, <1>3, <1>4 DEF Next, CaptureStep

TreeInv == LegInv /\ FrozenInv /\ TreeMatchesDrafts

LEMMA NextTree ==
    ASSUME TreeInv, [Next]_vars
    PROVE  TreeMatchesDrafts'
BY TreeSteps, KeepTree, PublishTree, UpgradeTree DEF TreeInv

\* A receipt awaiting its certificate is in the tree with its body of now, and
\* the tree holds nothing but bodies of committed drafts.
THEOREM TreeAgrees == Spec => []TreeMatchesDrafts
<1>1. Init => TreeMatchesDrafts
    BY DEF Init, TreeMatchesDrafts, Awaiting, Drafted
<1>2. LegInv /\ FrozenInv /\ TreeMatchesDrafts /\ [Next]_vars => TreeMatchesDrafts'
    BY NextTree DEF TreeInv
<1> QED
    BY <1>1, <1>2, FrozenInvariant, PTL DEF Spec

\* Only an upgrade drops leaves, and only those of given-up receipts.
THEOREM OnlyStuckLeave == Spec => OnlyStuckDropped
<1>1. ASSUME LegInv, FrozenInv, TreeMatchesDrafts, [Next]_vars, NEW l \in tree \ tree'
      PROVE  /\ upgrades' # upgrades
             /\ \E u \in Drafted : draft[u].stage = "FailedStuck" /\ l = ReceiptOf(u)
  <2>1. Upgrade
      BY <1>1, TreeSteps, PublishTree
  <2>2. upgrades' # upgrades
      BY <1>1, <2>1 DEF Upgrade, LegInv, TypeOK
  <2> QED
      BY <1>1, <2>1, <2>2, UpgradeTree
<1>2. LegInv /\ FrozenInv /\ TreeMatchesDrafts /\ [Next]_vars =>
        [\A l \in tree \ tree' :
            /\ upgrades' # upgrades
            /\ \E u \in Drafted : draft[u].stage = "FailedStuck" /\ l = ReceiptOf(u)]_vars
    BY <1>1
<1> QED
    BY <1>2, FrozenInvariant, TreeAgrees, PTL DEF Spec, OnlyStuckDropped

-----------------------------------------------------------------------------
(***************************************************************************)
(* Proofs about the jobs of the pipeline: as long as raw_rand does not     *)
(* fail, no queue, no uncaptured receipt and no delivered deletion is      *)
(* forgotten.                                                              *)
(***************************************************************************)

\* Queueing a user keeps everybody queued, and the queue is not empty.
LEMMA PushKeeps ==
    ASSUME TypeOK, NEW u \in Users, Enqueue(u)
    PROVE  /\ deleteTimer' = TRUE /\ queue' # <<>>
           /\ Queued(u)' /\ \A v \in Users : Queued(v) => Queued(v)'
<1>1. queue \in Seq(Users) /\ queue' = Append(queue, u) /\ deleteTimer' = TRUE
    BY DEF Enqueue, TypeOK
<1>2. /\ DOMAIN queue = 1..Len(queue) /\ Len(queue) \in Nat
      /\ DOMAIN queue' = 1..(Len(queue) + 1)
      /\ queue'[Len(queue) + 1] = u
      /\ \A i \in DOMAIN queue : queue'[i] = queue[i]
    BY <1>1
<1>3. Len(queue) + 1 \in DOMAIN queue' /\ \A i \in DOMAIN queue : i \in DOMAIN queue'
    BY <1>2
<1>4. queue' # <<>>
    BY <1>1
<1> QED
    BY <1>1, <1>2, <1>3, <1>4 DEF Queued

\* Popping a user keeps the others queued.
LEMMA PopKeeps ==
    ASSUME TypeOK, NEW u \in Users, Pop(u)
    PROVE  \A v \in Users \ {u} : Queued(v) => Queued(v)'
<1>1. queue \in Seq(Users) /\ queue # <<>> /\ queue' = Tail(queue) /\ u = queue[1]
    BY DEF Pop, TypeOK
<1>2. Len(queue) \in Nat /\ DOMAIN queue = 1..Len(queue)
    BY <1>1
<1>3. /\ DOMAIN queue' = 1..(Len(queue) - 1)
      /\ \A i \in DOMAIN queue' : queue'[i] = queue[i + 1]
    BY <1>1, <1>2
<1>4. ASSUME NEW i \in DOMAIN queue, i # 1
      PROVE  \E j \in DOMAIN queue' : queue'[j] = queue[i]
  <2>1. PICK n \in Nat : n = Len(queue)
      BY <1>2
  <2>2. i \in 1..n
      BY <1>2, <2>1
  <2>3. i - 1 \in 1..(n - 1) /\ (i - 1) + 1 = i
      BY <1>4, <2>2
  <2>4. i - 1 \in DOMAIN queue' /\ queue'[i - 1] = queue[(i - 1) + 1]
      BY <1>3, <2>1, <2>3
  <2> QED
      BY <2>3, <2>4
<1> QED
    BY <1>1, <1>4 DEF Queued

\* An upgrade keeps everybody queued.
LEMMA UpgradeKeeps ==
    ASSUME LegInv, Upgrade
    PROVE  \A v \in Users : Queued(v) => Queued(v)'
<1>1. PICK m \in Orders(LostByQueue) : queue' = queue \o m
    BY DEF Upgrade
<1>2. LostByQueue \in SUBSET Users
    BY DEF LostByQueue, Drafted
<1>3. m \in Seq(Users) /\ queue \in Seq(Users)
    BY <1>1, <1>2, OrdersAreSeqs DEF LegInv, TypeOK
<1>4. \A i \in DOMAIN queue : i \in DOMAIN queue' /\ queue'[i] = queue[i]
    BY <1>1, <1>3
<1> QED
    BY <1>4 DEF Queued

-----------------------------------------------------------------------------
\* The timers and the queue after a step of a leg that does not trap.
LEMMA LegStepArms ==
    ASSUME LegInv, JobsArmed, NEW u \in Users, LegStep(u), ~RandTraps(u)
    PROVE  JobsArmed'
<1>0. TypeOK /\ leg \in [Users -> [at : LegPoint, seq : Nat]]
    BY DEF LegInv, TypeOK
<1> DEFINE Jobs == /\ queue # <<>> => deleteTimer \/ \E v \in Users : InFlight(v)
                   /\ deleteTimer => queue # <<>>
           Sweep == Awaiting # {} => sweepTimer
<1>1. CASE DeleteUser(u)
  <2>1. CASE u \in localUsers
      BY <1>0, <1>1, <2>1, PushKeeps DEF DeleteUser, JobsArmed, Awaiting, Drafted
  <2>2. CASE u \notin localUsers
      BY <1>1, <2>2 DEF DeleteUser, JobsArmed, InFlight, Awaiting, Drafted
  <2> QED
      BY <2>1, <2>2
<1>2. CASE StartCapture(u) \/ StartUninstall(u)
  <2>1. leg'[u].at # "idle" /\ deleteTimer' = FALSE /\ UNCHANGED <<draft, sweepTimer>>
      BY <1>0, <1>2 DEF StartCapture, StartUninstall
  <2> QED
      BY <2>1 DEF JobsArmed, InFlight, Awaiting, Drafted
<1>3. CASE Republish(u) \/ SkipTerminal(u) \/ StatusPostReply(u)
  <2>1. Done
      BY <1>3 DEF Republish, SkipTerminal, StatusPostReply
  <2> QED
      BY <2>1 DEF Done, JobsArmed, Awaiting, Drafted
<1>4. CASE GroupsReply(u) \/ StatusPreReply(u) \/ UninstallReply(u)
  <2>1. leg'[u].at # "idle" /\ UNCHANGED <<queue, deleteTimer, draft, sweepTimer>>
      BY <1>0, <1>4 DEF GroupsReply, StatusPreReply, UninstallReply
  <2> QED
      BY <2>1 DEF JobsArmed, InFlight, Awaiting, Drafted
<1>5. CASE RandReply(u)
  <2>1. leg'[u].at # "idle" /\ UNCHANGED <<queue, deleteTimer, sweepTimer>>
      BY <1>0, <1>5 DEF RandReply
  <2>2. Awaiting' \subseteq Awaiting
      BY <1>5 DEF RandReply, Awaiting, Drafted, LegInv, TypeOK
  <2> QED
      BY <2>1, <2>2 DEF JobsArmed, InFlight
<1>6. CASE LegRetry(u)
  <2>1. Enqueue(u) /\ UNCHANGED <<draft, sweepTimer>>
      BY <1>6 DEF LegRetry
  <2> QED
      BY <1>0, <2>1, PushKeeps DEF JobsArmed, Awaiting, Drafted
<1> QED
    BY <1>1, <1>2, <1>3, <1>4, <1>5, <1>6 DEF LegStep

\* The sweep stays armed over the receipts it leaves, and certificates only
\* take receipts away from it.
LEMMA CaptureStepArms ==
    ASSUME LegInv, JobsArmed, CaptureStep
    PROVE  JobsArmed'
<1>0. TypeOK' /\ draft \in [Users -> CvdrDraft \union {NoDraft}] /\ now \in Nat
    BY CaptureStepType DEF LegInv, TypeOK
<1>1. UNCHANGED <<queue, deleteTimer, leg>>
    BY DEF CaptureStep, RunSweep, AttemptMiss, CaptureCertificate, FinalizeCvdr
<1>2. Awaiting' # {} => sweepTimer'
  <2>1. CASE RunSweep
    <3> DEFINE stuck == {u \in Awaiting : now > draft[u].committedAt + GiveUp}
    <3>1. ASSUME NEW v \in Awaiting' PROVE v \in Awaiting \ stuck
      <4>1. /\ v \in Users /\ draft'[v] # NoDraft
            /\ draft'[v].stage = "AwaitingCertificate"
          BY <3>1 DEF Awaiting, Drafted
      <4>2. ASSUME v \in stuck PROVE draft'[v].stage = "FailedStuck"
        <5>1. draft'[v] = [draft[v] EXCEPT !.stage = "FailedStuck"]
            BY <2>1, <4>1, <4>2 DEF RunSweep
        <5>2. draft[v] \in CvdrDraft
            BY <1>0, <4>1, <4>2 DEF Awaiting, Drafted
        <5> QED
            BY <5>1, <5>2 DEF CvdrDraft
      <4>3. v \notin Awaiting => draft'[v] = draft[v]
          BY <2>1, <4>1 DEF RunSweep
      <4> QED
          BY <4>1, <4>2, <4>3 DEF Awaiting, Drafted
    <3>2. sweepTimer' = (Awaiting \ stuck # {})
        BY <2>1 DEF RunSweep
    <3> QED
        BY <3>1, <3>2
  <2>2. CASE \E u \in Users : AttemptMiss(u)
      BY <2>2 DEF AttemptMiss, JobsArmed, Awaiting, Drafted
  <2>3. CASE \E u \in Users, c \in certs : CaptureCertificate(u, c) \/ FinalizeCvdr(u, c)
    <3>1. PICK u \in Users, c \in certs : CaptureCertificate(u, c) \/ FinalizeCvdr(u, c)
        BY <2>3
    <3>2. UNCHANGED sweepTimer /\ \A v \in Users \ {u} : draft'[v] = draft[v]
        BY <1>0, <3>1 DEF CaptureCertificate, FinalizeCvdr
    <3>3. u \notin Awaiting'
      <4>1. PICK s \in {"CertificateCaptured", "LateFinalized"} :
               draft[u] \in CvdrDraft /\ draft'[u] = Scrubbed(draft[u], s)
          BY <1>0, <3>1 DEF CaptureCertificate, FinalizeCvdr, StageFor, Drafted, Awaiting
      <4> QED
          BY <4>1 DEF Scrubbed, CvdrDraft, Awaiting
    <3>4. Awaiting' \subseteq Awaiting
        BY <3>2, <3>3 DEF Awaiting, Drafted
    <3> QED
        BY <3>2, <3>4 DEF JobsArmed
  <2> QED
      BY <2>1, <2>2, <2>3 DEF CaptureStep
<1> QED
    BY <1>1, <1>2 DEF JobsArmed, InFlight

\* Without a failing raw_rand, the delete job never sleeps over a queue and
\* the sweep never over receipts that await their certificate.
THEOREM JobsStayArmed == ~RawRandMayFail => (Spec => []JobsArmed)
<1> SUFFICES ASSUME ~RawRandMayFail PROVE Spec => []JobsArmed
    OBVIOUS
<1>1. Init => JobsArmed
    BY DEF Init, JobsArmed, Awaiting, Drafted
<1>2. LegInv /\ JobsArmed /\ [Next]_vars => JobsArmed'
  <2> SUFFICES ASSUME LegInv, JobsArmed, [Next]_vars PROVE JobsArmed'
      OBVIOUS
  <2>1. ASSUME NEW u \in Users, LegStep(u) PROVE JobsArmed'
      BY <2>1, LegStepArms DEF RandTraps
  <2>2. CASE Upgrade
      BY <2>2 DEF Upgrade, JobsArmed, Awaiting, Drafted
  <2>3. CASE Tick \/ UNCHANGED vars
      BY <2>3 DEF Tick, JobsArmed, Awaiting, Drafted, InFlight
  <2> QED
      BY <2>1, <2>2, <2>3, CaptureStepArms DEF Next
<1> QED
    BY <1>1, <1>2, LegInvariant, PTL DEF Spec

-----------------------------------------------------------------------------
\* What keeps the deletion of v from being forgotten.
Remembered(v) == Queued(v) \/ InFlight(v) \/ draft[v] # NoDraft

\* A step of one user's leg remembers the others.
LEMMA LegStepQueueKeeps ==
    ASSUME LegInv, NEW u \in Users, LegStep(u), NEW v \in Users \ {u}, Queued(v)
    PROVE  Queued(v)'
<1>0. TypeOK
    BY DEF LegInv
<1>1. CASE StartCapture(u) \/ StartUninstall(u) \/ Republish(u) \/ SkipTerminal(u)
  <2>1. Pop(u)
      BY <1>1 DEF StartCapture, StartUninstall, Republish, SkipTerminal
  <2> QED
      BY <1>0, <2>1, PopKeeps
<1>2. CASE DeleteUser(u) \/ LegRetry(u)
  <2>1. Enqueue(u) \/ queue' = queue
      BY <1>2 DEF DeleteUser, LegRetry
  <2> QED
      BY <1>0, <2>1, PushKeeps DEF Queued
<1>3. CASE \/ GroupsReply(u) \/ StatusPreReply(u) \/ RandReply(u)
           \/ RandTraps(u) \/ UninstallReply(u) \/ StatusPostReply(u)
  <2>1. queue' = queue
      BY <1>3 DEF GroupsReply, StatusPreReply, RandReply, RandTraps, UninstallReply,
         StatusPostReply
  <2> QED
      BY <2>1 DEF Queued
<1> QED
    BY <1>1, <1>2, <1>3 DEF LegStep

\* A step of a leg that does not trap forgets nobody.
LEMMA LegStepKeeps ==
    ASSUME LegInv, NeverForgotten, NEW u \in Users, LegStep(u), ~RandTraps(u)
    PROVE  NeverForgotten'
<1>0. /\ TypeOK /\ leg \in [Users -> [at : LegPoint, seq : Nat]]
      /\ draft \in [Users -> CvdrDraft \union {NoDraft}]
    BY DEF LegInv, TypeOK
<1>1. ASSUME NEW v \in Users \ {u}, v \in requested', v \in localUsers'
      PROVE  Remembered(v)'
  <2>1. /\ leg'[v] = leg[v] /\ draft'[v] = draft[v]
        /\ v \in requested /\ v \in localUsers
      BY <1>1, OtherUserFrame
  <2>2. Queued(v) \/ InFlight(v) \/ draft[v] # NoDraft
      BY <2>1 DEF NeverForgotten
  <2> QED
      BY <2>1, <2>2, LegStepQueueKeeps DEF Remembered, InFlight
<1>2. draft[u] # NoDraft => draft'[u] # NoDraft
    BY LegStepDraft, NoDraftAssumption DEF KeptDraft, CreatedDraft, PublishedDraft
<1>3. ASSUME u \in requested', u \in localUsers' PROVE Remembered(u)'
  <2>1. CASE DeleteUser(u)
    <3>1. Enqueue(u)
        BY <1>3, <2>1 DEF DeleteUser
    <3> QED
        BY <1>0, <3>1, PushKeeps DEF Remembered
  <2>2. CASE \/ StartCapture(u) \/ StartUninstall(u) \/ GroupsReply(u)
             \/ StatusPreReply(u) \/ RandReply(u) \/ UninstallReply(u)
    <3>1. leg'[u].at # "idle"
        BY <1>0, <2>2 DEF StartCapture, StartUninstall, GroupsReply, StatusPreReply,
           RandReply, UninstallReply
    <3> QED
        BY <3>1 DEF Remembered, InFlight
  <2>3. CASE Republish(u) \/ SkipTerminal(u) \/ StatusPostReply(u)
    <3>1. draft[u] # NoDraft
        BY <2>3 DEF Republish, SkipTerminal, StatusPostReply
    <3> QED
        BY <1>2, <3>1 DEF Remembered
  <2>4. CASE LegRetry(u)
    <3>1. Enqueue(u)
        BY <2>4 DEF LegRetry
    <3> QED
        BY <1>0, <3>1, PushKeeps DEF Remembered
  <2> QED
      BY <2>1, <2>2, <2>3, <2>4 DEF LegStep
<1>4. \A v \in requested' \intersect localUsers' : v \in Users
    BY LegStepType DEF LegInv, TypeOK
<1> QED
    BY <1>1, <1>3, <1>4 DEF NeverForgotten, Remembered

\* Without a failing raw_rand, a delivered deletion stays queued, in a running
\* leg or behind a stored draft until it is complete.
THEOREM NothingForgotten == ~RawRandMayFail => (Spec => []NeverForgotten)
<1> SUFFICES ASSUME ~RawRandMayFail PROVE Spec => []NeverForgotten
    OBVIOUS
<1>1. Init => NeverForgotten
    BY DEF Init, NeverForgotten
<1>2. LegInv /\ NeverForgotten /\ [Next]_vars => NeverForgotten'
  <2> SUFFICES ASSUME LegInv, NeverForgotten, [Next]_vars PROVE NeverForgotten'
      OBVIOUS
  <2>0. requested \subseteq Users
      BY DEF LegInv, TypeOK
  <2>1. ASSUME NEW u \in Users, LegStep(u) PROVE NeverForgotten'
      BY <2>1, LegStepKeeps DEF RandTraps
  <2>2. CASE Upgrade
    <3>1. UNCHANGED <<requested, localUsers, leg, draft>>
        BY <2>2 DEF Upgrade
    <3> QED
        BY <2>0, <2>2, <3>1, UpgradeKeeps DEF NeverForgotten, InFlight
  <2>3. CASE Tick \/ UNCHANGED vars
      BY <2>3 DEF Tick, NeverForgotten, Queued, InFlight
  <2>4. CASE CaptureStep
    <3>1. UNCHANGED <<requested, localUsers, leg, queue>>
        BY <2>4 DEF CaptureStep, RunSweep, AttemptMiss, CaptureCertificate, FinalizeCvdr
    <3>2. ASSUME NEW v \in Users, draft[v] # NoDraft PROVE draft'[v] # NoDraft
      <4>1. ~CreatedDraft(v)
          BY <3>2 DEF CreatedDraft
      <4>2. FinalizedDraft(v) => draft'[v] \in CvdrDraft
          BY DEF FinalizedDraft, Scrubbed, Published, CvdrDraft, DraftStage
      <4>3. KeptDraft(v) \/ PublishedDraft(v) \/ StuckDraft(v) \/ FinalizedDraft(v)
          BY <4>1, StepDraft DEF KeptDraft
      <4> QED
          BY <3>2, <4>2, <4>3, NoDraftAssumption DEF KeptDraft, PublishedDraft, StuckDraft
    <3> QED
        BY <2>0, <3>1, <3>2 DEF NeverForgotten, Queued, InFlight
  <2> QED
      BY <2>1, <2>2, <2>3, <2>4 DEF Next
<1> QED
    BY <1>1, <1>2, LegInvariant, PTL DEF Spec
=============================================================================
