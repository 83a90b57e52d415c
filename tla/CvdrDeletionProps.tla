------------------------- MODULE CvdrDeletionProps -------------------------
(***************************************************************************)
(* What the deletion pipeline promises.                                    *)
(***************************************************************************)
EXTENDS CvdrDeletion

\* Every variable has its type.
TypeOK ==
    /\ now \in Nat /\ upgrades \in Nat /\ nextSeq \in Nat
    /\ requested \subseteq Users /\ globalUsers \subseteq Users
    /\ localUsers \subseteq LocalUsers /\ installed \subseteq LocalUsers
    /\ queue \in Seq(Users) /\ deleteTimer \in BOOLEAN
    /\ leg \in [Users -> [at : LegPoint, seq : Nat]]
    /\ draft \in [Users -> CvdrDraft \union {NoDraft}]
    /\ tree \subseteq Leaf /\ certified \subseteq Leaf
    /\ certs \subseteq Certificate
    /\ notices \in [Users -> Nat]
    /\ sweepTimer \in BOOLEAN /\ fetching \in [Users -> Nat]
    /\ frozen \subseteq Package

\* The body a draft committed to, before it was scrubbed.
ReceiptOf(u) == [LeafOf(u, draft[u]) EXCEPT !.scrubbed = FALSE]

\* A user is in the delete queue or in a running leg at most once in all:
\* post_upgrade queues drafts again and failed legs queue their user again,
\* and two legs of one user would publish and clean up twice.
OneLegPerUser ==
    /\ \A i, j \in DOMAIN queue : queue[i] = queue[j] => i = j
    /\ \A i \in DOMAIN queue : ~InFlight(queue[i])

\* certified_data is the root of the whole receipt tree at every moment, also
\* after an upgrade cleared it: a certificate of a stale root proves nothing.
CertifiedIsTree == certified = tree

\* A receipt that still waits for its certificate is in the tree with exactly
\* the body its draft has now, before and after upgrades, and nothing is in
\* the tree that is not the body of a committed draft.
TreeMatchesDrafts ==
    /\ \A u \in Awaiting : LeafOf(u, draft[u]) \in tree
    /\ \A l \in tree : \E u \in Drafted :
          draft[u].committedAt > 0 /\ l = ReceiptOf(u)

\* The draft is stored before anything is destroyed, and the mappings of a
\* user go only after the code is gone and the receipt is committed.
NothingDestroyedEarly ==
    \A u \in LocalUsers :
        /\ u \notin installed => draft[u] # NoDraft
        /\ u \notin localUsers => /\ u \notin installed
                                  /\ draft[u].committedAt > 0
                                  /\ draft[u].uninstalledAt > 0

\* The membership-removal chain is pushed once for each deleted user, at the
\* moment its mappings go, and never again by a retry, an upgrade or a capture.
NotifiedOnce ==
    \A u \in LocalUsers : notices[u] = IF u \in localUsers THEN 0 ELSE 1

\* A draft says captured or late exactly when a package of its receipt is
\* stored, of the body it committed to, and it says captured exactly when the
\* package is in the window.
StageMatchesPackage ==
    /\ \A u \in Drafted :
          draft[u].stage \in {"CertificateCaptured", "LateFinalized"} <=> HasPackage(u)
    /\ \A p \in frozen : LET u == p.leaf.user IN
          /\ u \in Drafted /\ p.leaf = ReceiptOf(u)
          /\ draft[u].stage = "CertificateCaptured"
                <=> p.time <= p.leaf.committedAt + Window

\* A stored package verifies offline, and a receipt has only one: its leaf is
\* under the certified root and the certificate does not predate the commit.
PackagesVerify ==
    /\ \A p \in frozen : p.leaf \in p.root /\ p.leaf.committedAt <= p.time
    /\ \A p, q \in frozen : SameReceipt(p.leaf, q.leaf) => p = q

\* The delete job cannot fall asleep over a queue, nor the sweep over receipts
\* that await a certificate: a timer is armed or a leg runs that will arm it.
JobsArmed ==
    /\ queue # <<>> => deleteTimer \/ \E u \in Users : InFlight(u)
    /\ deleteTimer => queue # <<>>
    /\ Awaiting # {} => sweepTimer

\* A user whose deletion was delivered is not forgotten: until it is deleted
\* it is queued, in a running leg, or has a durable draft.
NeverForgotten ==
    \A u \in requested \intersect localUsers :
        Queued(u) \/ InFlight(u) \/ draft[u] # NoDraft

-----------------------------------------------------------------------------
Rank(u) == IF draft[u] = NoDraft THEN 0
           ELSE CASE draft[u].stage = "Captured" -> 1
                  [] draft[u].stage = "Uninstalled" -> 2
                  [] draft[u].stage = "AwaitingCertificate" -> 3
                  [] draft[u].stage = "FailedStuck" -> 4
                  [] OTHER -> 5

\* Drafts only move forward, whatever coroutine writes them: never back to a
\* stage that would run again, never off a stored package.
StageForward == [][\A u \in Users : Rank(u)' >= Rank(u)]_vars

\* Once committed, a receipt keeps its id and both its times, so the leaf in
\* the tree, the witness and the package all speak of one body.
ReceiptFixed ==
    [][\A u \in Users :
         (draft[u] # NoDraft /\ draft[u].committedAt > 0) =>
            LeafOf(u, draft'[u]) \in
              {LeafOf(u, draft[u]), [LeafOf(u, draft[u]) EXCEPT !.scrubbed = TRUE]}]_vars

\* Leaves stay in the tree with their bodies; an upgrade alone drops some, and
\* only those of receipts whose capture was given up.
OnlyStuckDropped ==
    [][\A l \in tree \ tree' :
          /\ upgrades' # upgrades
          /\ \E u \in Drafted : draft[u].stage = "FailedStuck" /\ l = ReceiptOf(u)]_vars

\* "Receipts are never deleted, mutated, or removed from the tree", spec
\* paragraph 10, and "the receipt remains in the tree (never removed)" of a
\* FailedStuck draft.
ReceiptsNeverRemoved == [][tree \subseteq tree']_vars

-----------------------------------------------------------------------------
\* Every delivered deletion completes, whatever the certificate does.
DeletionCompletes ==
    \A u \in LocalUsers : (u \in requested) ~> (u \notin localUsers)

\* A receipt does not await its certificate for ever: it is captured or, past
\* the cap, parked as stuck.  Only receipts old enough for the bounded clock.
CaptureResolves ==
    \A u \in LocalUsers :
        (u \in Awaiting /\ draft[u].committedAt + GiveUp < MaxTime)
            ~> (draft[u] # NoDraft /\ draft[u].stage \in Terminal)

-----------------------------------------------------------------------------
\* The pipeline implements the ledger of deletions: a user is deleted when its
\* mappings go, and its official packages are the frozen ones of its receipt.
Ledger == INSTANCE DeletionLedger WITH
    Users <- LocalUsers,
    requested <- requested \intersect LocalUsers,
    deleted <- LocalUsers \ localUsers,
    official <- [u \in LocalUsers |-> {p \in frozen : p.leaf.user = u}]

ImplementsLedger == Ledger!Spec
=============================================================================
