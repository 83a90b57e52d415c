--------------------------- MODULE ServicesProofs ---------------------------
(***************************************************************************)
(* Proofs about the swap offered in a chat (ChatSwap), the retries of      *)
(* FireAndForgetHandler (FireAndForget), the files of FileStorage and the  *)
(* prizes of PrizeClaims.                                                  *)
(***************************************************************************)
EXTENDS ChatSwap, FireAndForget, FileStorage, PrizeClaims, FoldLemmas, SequenceTheorems

(***************************************************************************)
(* ChatSwap.  The reservation is a lock: whoever takes the swap through    *)
(* the group holds one coroutine or job, no deposit is confirmed to the    *)
(* group before that job got its success, and the message is open only     *)
(* when nobody takes the swap.                                             *)
(***************************************************************************)
Depositors == Members \union Strangers
Statuses ==
    [is : {"open", "reserved", "accepted", "completed", "cancelled", "expired", "gone"},
     user : Depositors \union {Nobody}]

Ats == {"call", "balance", "replied"}
Replies == {"none", "success", "expired", "refused", "failed"}
NotifyJobs == [user : Members, attempt : Nat, at : Ats, reply : Replies]

SwapTypes ==
    /\ status \in Statuses /\ news \subseteq Statuses
    /\ accepting \subseteq [user : Members, reply : {"none", "success", "error"}]
    /\ notifying \subseteq NotifyJobs
    /\ taken \subseteq Members /\ checking \subseteq Depositors
    /\ escrow \in [offered : BOOLEAN, acceptedBy : (Depositors \ {Sender}) \union {Nobody},
                   cancelled : BOOLEAN, out : BOOLEAN]

OneCall ==
    /\ \A x, y \in accepting : x = y
    /\ \A x, y \in notifying : x = y
    /\ accepting = {} \/ notifying = {}

\* Whose deposit was confirmed while a notification is under way
ConfirmedTo(n) == IF n.at = "replied" /\ n.reply = "success" THEN {n.user} ELSE {}

TakenByJob ==
    /\ accepting # {} => taken = {}
    /\ \A n \in notifying : taken = ConfirmedTo(n)
    /\ \A u, v \in taken : u = v
    /\ \A u \in taken : u = Sender \/ escrow.acceptedBy # Nobody

NoTaker == accepting = {} /\ notifying = {} /\ taken = {}

Withdrawn ==
    \/ cancelling # {} \/ escrow.cancelled \/ status.is = "cancelled"
    \/ \E s \in news : s.is = "cancelled"

FreeMeansFree ==
    /\ status = Open => NoTaker
    /\ Withdrawn => NoTaker /\ status # Open

NewsTrue == \A s \in news :
    s.is \in {"completed", "cancelled", "expired"} /\ (s.is = "completed" => escrow.out)

SwapInvariant ==
    SwapTypes /\ OneCall /\ TakenByJob /\ FreeMeansFree /\ NewsTrue /\ TruthfulSwap

\* A lock held by one job has one taker.
LEMMA SwapInvariantGivesOneTaker == SwapInvariant => OneTaker
<1> SUFFICES ASSUME SwapInvariant PROVE OneTaker
    OBVIOUS
<1> USE DEF SwapInvariant, OneCall, TakenByJob
<1>1. \A u, v \in Takers : u = v
  <2>1. CASE accepting # {}
    BY <2>1 DEF Takers
  <2>2. CASE notifying # {}
    BY <2>2 DEF Takers, ConfirmedTo
  <2>3. CASE accepting = {} /\ notifying = {}
    BY <2>3 DEF Takers
  <2> QED BY <2>1, <2>2, <2>3
<1>2. cancelling # {} => Takers = {}
  BY DEF FreeMeansFree, Withdrawn, NoTaker, Takers
<1> QED BY <1>1, <1>2 DEF OneTaker

\* Nobody takes a swap that is offered.
LEMMA SwapInitially == SwapInit => SwapInvariant
<1> SUFFICES ASSUME SwapInit PROVE SwapInvariant
    OBVIOUS
<1> USE SwapAssumption DEF SwapInit, Open, Is
<1>1. SwapTypes
  BY DEF SwapTypes, Statuses
<1>2. OneCall /\ TakenByJob
  BY DEF OneCall, TakenByJob
<1>3. FreeMeansFree
  BY DEF FreeMeansFree, NoTaker, Withdrawn
<1>4. NewsTrue /\ TruthfulSwap
  BY DEF NewsTrue, TruthfulSwap
<1> QED BY <1>1, <1>2, <1>3, <1>4 DEF SwapInvariant

-----------------------------------------------------------------------------
(* The escrow may accept anybody: no step of it alone takes or withdraws.    *)

EscrowOnly ==
    /\ UNCHANGED <<status, accepting, notifying, cancelling, taken>>
    /\ checking' \subseteq Depositors
    /\ escrow' \in [offered : BOOLEAN, acceptedBy : (Depositors \ {Sender}) \union {Nobody},
                    cancelled : BOOLEAN, out : BOOLEAN]
    /\ escrow'.cancelled = escrow.cancelled
    /\ escrow.out => escrow'.out
    /\ escrow.acceptedBy # Nobody => escrow'.acceptedBy # Nobody
    /\ news' \subseteq Statuses
    /\ \A s \in news' \ news : \/ s.is = "completed" /\ escrow.out
                               \/ s.is = "cancelled" /\ escrow.cancelled
                               \/ s.is = "expired"

LEMMA EscrowOnlyKeeps == SwapInvariant /\ EscrowOnly => SwapInvariant'
<1> SUFFICES ASSUME SwapInvariant, EscrowOnly PROVE SwapInvariant'
    OBVIOUS
<1> USE DEF SwapInvariant, EscrowOnly
<1>1. SwapTypes'
  BY DEF SwapTypes
<1>2. OneCall' /\ TakenByJob'
  BY DEF OneCall, TakenByJob, ConfirmedTo
<1>3. NewsTrue' /\ TruthfulSwap'
  BY DEF NewsTrue, TruthfulSwap
<1>4. Withdrawn' => Withdrawn
  BY DEF Withdrawn
<1>5. FreeMeansFree'
  BY <1>4 DEF FreeMeansFree, NoTaker, Open, Is
<1> QED BY <1>1, <1>2, <1>3, <1>5

\* What a deposit received does to the swap in the escrow.
LEMMA ReceivedIs ==
    ASSUME SwapTypes, NEW u \in Depositors, Received(u)
    PROVE  /\ escrow' \in [offered : BOOLEAN, acceptedBy : (Depositors \ {Sender}) \union {Nobody},
                           cancelled : BOOLEAN, out : BOOLEAN]
           /\ escrow'.cancelled = escrow.cancelled /\ escrow'.out = escrow.out
           /\ escrow.acceptedBy # Nobody => escrow'.acceptedBy # Nobody
           /\ u # Sender => escrow'.acceptedBy # Nobody
BY SwapAssumption DEF Received, SwapTypes, Depositors, Members

LEMMA EscrowSteps ==
    ASSUME SwapInvariant,
           \/ \E u \in Members \union Strangers : OtherPrepared(u)
           \/ \E u \in checking : OtherChecked(u)
           \/ Exchange \/ EscrowTells \/ GroupClockPasses \/ EscrowClockPasses
           \/ UNCHANGED swapVars
    PROVE  EscrowOnly
<1> USE DEF EscrowOnly, swapClocks, swapMessage, swapCalls, swapEscrow
<1>1. SwapTypes
  BY DEF SwapInvariant
<1>2. ASSUME NEW u \in Members \union Strangers, OtherPrepared(u) PROVE EscrowOnly
  BY <1>1, <1>2 DEF OtherPrepared, SwapTypes, Depositors
<1>3. ASSUME NEW u \in checking, OtherChecked(u) PROVE EscrowOnly
  <2>1. u \in Depositors /\ checking' \subseteq Depositors
    BY <1>1, <1>3 DEF SwapTypes, OtherChecked
  <2>2. CASE Received(u)
    BY <1>1, <1>3, <2>1, <2>2, ReceivedIs DEF OtherChecked, SwapTypes
  <2>3. CASE UNCHANGED escrow
    BY <1>1, <1>3, <2>1, <2>3 DEF OtherChecked, SwapTypes
  <2> QED BY <1>3, <2>2, <2>3 DEF OtherChecked
<1>4. CASE Exchange
  BY <1>1, <1>4 DEF Exchange, SwapTypes
<1>5. CASE EscrowTells
  <2>1. /\ EscrowStatus \in Statuses
        /\ EscrowStatus.is = "completed" => escrow.out
        /\ EscrowStatus.is = "cancelled" => escrow.cancelled
    BY <1>1 DEF EscrowStatus, BothIn, Is, Open, Statuses, SwapTypes
  <2>2. /\ UNCHANGED <<status, accepting, notifying, cancelling, taken, checking, escrow>>
        /\ news' = news \union {EscrowStatus}
        /\ EscrowStatus.is \in {"completed", "cancelled", "expired"}
    BY <1>5 DEF EscrowTells
  <2> QED BY <1>1, <2>1, <2>2 DEF SwapTypes
<1>6. CASE GroupClockPasses \/ EscrowClockPasses \/ UNCHANGED swapVars
  BY <1>1, <1>6 DEF GroupClockPasses, EscrowClockPasses, swapVars, SwapTypes
<1> QED BY <1>2, <1>3, <1>4, <1>5, <1>6

-----------------------------------------------------------------------------
(* The calls of the group: who reserved the swap, and the job that follows.  *)

LEMMA AcceptStep == ASSUME SwapInvariant, NEW u \in Members, Accept(u) PROVE SwapInvariant'
<1> USE DEF SwapInvariant, Accept, Reservable, swapClocks, swapMessage, swapEscrow
<1>1. NoTaker /\ ~Withdrawn
  BY DEF FreeMeansFree
<1>2. SwapTypes'
  BY DEF SwapTypes, Statuses, Depositors, Is
<1>3. OneCall' /\ TakenByJob'
  BY <1>1 DEF NoTaker, OneCall, TakenByJob
<1>4. FreeMeansFree' /\ NewsTrue' /\ TruthfulSwap'
  BY <1>1 DEF FreeMeansFree, Withdrawn, NewsTrue, TruthfulSwap, Open, Is
<1> QED BY <1>2, <1>3, <1>4

LEMMA AcceptingStep ==
    ASSUME SwapInvariant, NEW a \in accepting,
           UserReplies(a) \/ AcceptDeposited(a) \/ AcceptFailed(a)
    PROVE  SwapInvariant'
<1> USE DEF SwapInvariant, swapClocks, swapMessage, swapCalls, swapEscrow
<1>1. /\ a \in [user : Members, reply : {"none", "success", "error"}]
      /\ accepting = {a} /\ notifying = {} /\ taken = {} /\ ~Withdrawn /\ status # Open
  BY DEF SwapTypes, OneCall, TakenByJob, FreeMeansFree, NoTaker
<1>2. CASE UserReplies(a)
  <2>1. PICK reply \in {"success", "error"} :
           accepting' = (accepting \ {a}) \union {[a EXCEPT !.reply = reply]}
    BY <1>2 DEF UserReplies
  <2>2. /\ accepting' = {[a EXCEPT !.reply = reply]}
        /\ UNCHANGED <<status, notifying, cancelling, taken, checking, escrow, news>>
    BY <1>1, <1>2, <2>1 DEF UserReplies
  <2>3. SwapTypes'
    BY <1>1, <2>2 DEF SwapTypes
  <2> QED
    BY <1>1, <2>2, <2>3 DEF OneCall, TakenByJob, FreeMeansFree, Withdrawn, NewsTrue,
       TruthfulSwap, Open, Is
<1>3. CASE AcceptDeposited(a)
  <2>1. PICK m : m = Job(a.user, 0)
    OBVIOUS
  <2>2. m \in NotifyJobs /\ ConfirmedTo(m) = {}
    BY <1>1, <2>1 DEF Job, NotifyJobs, Ats, Replies, ConfirmedTo
  <2>3. /\ accepting' = {} /\ notifying' = {m}
        /\ UNCHANGED <<status, cancelling, taken, checking, escrow, news>>
    BY <1>1, <1>3, <2>1 DEF AcceptDeposited
  <2>4. SwapTypes'
    BY <2>2, <2>3 DEF SwapTypes
  <2> QED
    BY <1>1, <2>2, <2>3, <2>4 DEF OneCall, TakenByJob, ConfirmedTo, FreeMeansFree, Withdrawn,
       NewsTrue, TruthfulSwap, Open, Is
<1>4. CASE AcceptFailed(a)
  <2>1. /\ accepting' = {} /\ status' \in {status, Open}
        /\ UNCHANGED <<notifying, cancelling, taken, checking, escrow, news>>
    BY <1>1, <1>4 DEF AcceptFailed, Unreserve
  <2>2. SwapTypes'
    BY <2>1 DEF SwapTypes, Statuses, Open, Is
  <2> QED
    BY <1>1, <2>1, <2>2 DEF OneCall, TakenByJob, FreeMeansFree, NoTaker, Withdrawn, NewsTrue,
       TruthfulSwap, Open, Is
<1> QED BY <1>2, <1>3, <1>4

\* A job that stays one job: what it learned is what was confirmed.
LEMMA JobMoves ==
    ASSUME SwapInvariant, NEW n \in notifying, NEW m \in NotifyJobs,
           notifying' = (notifying \ {n}) \union {m},
           taken' = ConfirmedTo(m), taken' \subseteq Members,
           \A u \in taken' : u = Sender \/ escrow'.acceptedBy # Nobody,
           UNCHANGED <<status, accepting, cancelling, checking, news>>,
           escrow' \in [offered : BOOLEAN, acceptedBy : (Depositors \ {Sender}) \union {Nobody},
                        cancelled : BOOLEAN, out : BOOLEAN],
           escrow'.cancelled = escrow.cancelled, escrow'.out = escrow.out,
           escrow.acceptedBy # Nobody => escrow'.acceptedBy # Nobody,
           taken \subseteq taken'
    PROVE  SwapInvariant'
<1> USE DEF SwapInvariant
<1>1. notifying = {n} /\ accepting = {} /\ ~Withdrawn /\ status # Open
  BY DEF OneCall, FreeMeansFree, NoTaker
<1>2. notifying' = {m}
  BY <1>1
<1>3. SwapTypes'
  BY <1>2 DEF SwapTypes
<1>4. OneCall'
  BY <1>1, <1>2 DEF OneCall
<1>5. TakenByJob'
  <2>1. \A x \in notifying' : taken' = ConfirmedTo(x)
    BY <1>2
  <2>2. \A u, v \in taken' : u = v
    BY DEF ConfirmedTo
  <2> QED
    BY <1>1, <2>1, <2>2 DEF TakenByJob, ConfirmedTo
<1>6. FreeMeansFree' /\ NewsTrue'
  BY <1>1 DEF FreeMeansFree, Withdrawn, NewsTrue, Open, Is
<1>7. TruthfulSwap'
  BY <1>1 DEF TruthfulSwap, Withdrawn
<1> QED BY <1>3, <1>4, <1>5, <1>6, <1>7

LEMMA NotifyingStep ==
    ASSUME SwapInvariant, NEW n \in notifying,
           NotifyPrepared(n) \/ NotifyAccepted(n) \/ NotifyTooLow(n) \/ NotifyFails(n)
    PROVE  SwapInvariant'
<1> USE DEF swapClocks, swapMessage, swapEscrow
<1>1. /\ SwapTypes /\ n \in NotifyJobs /\ n.user \in Members /\ n.user \in Depositors
      /\ taken = ConfirmedTo(n)
  BY DEF SwapInvariant, SwapTypes, NotifyJobs, TakenByJob, Depositors
<1>2. n.at # "replied" /\ taken = {}
  BY <1>1 DEF NotifyPrepared, NotifyAccepted, NotifyTooLow, NotifyFails, ConfirmedTo
<1>3. PICK at \in Ats, reply \in Replies :
         /\ Moves(n, at, reply)
         /\ taken' = IF reply = "success" THEN {n.user} ELSE {}
         /\ reply = "success" => at = "replied"
         /\ \/ reply = "success" /\ Received(n.user)
            \/ UNCHANGED escrow /\ (reply = "success" => n.user = Sender \/ escrow.acceptedBy # Nobody)
         /\ UNCHANGED <<status, accepting, cancelling, checking, news>>
  <2>1. CASE NotifyPrepared(n)
    <3>1. /\ Prepared(n.user) \in Replies
          /\ Prepared(n.user) = "success" => n.user = Sender \/ escrow.acceptedBy # Nobody
      BY <1>1, SwapAssumption DEF Prepared, Replies, Members
    <3>2. (IF Prepared(n.user) = "none" THEN "balance" ELSE "replied") \in Ats
      BY DEF Ats
    <3> QED BY <1>2, <2>1, <3>1, <3>2 DEF NotifyPrepared, Confirmed
  <2>2. CASE NotifyAccepted(n)
    BY <1>2, <2>2 DEF NotifyAccepted, Confirmed, Ats, Replies
  <2>3. CASE NotifyTooLow(n) \/ NotifyFails(n)
    BY <1>2, <2>3 DEF NotifyTooLow, NotifyFails, Ats, Replies
  <2> QED BY <2>1, <2>2, <2>3
<1>4. PICK m : m = [n EXCEPT !.at = at, !.reply = reply]
  OBVIOUS
<1>5. m \in NotifyJobs /\ m.user = n.user /\ m.at = at /\ m.reply = reply
  BY <1>1, <1>4 DEF NotifyJobs
<1>6. notifying' = (notifying \ {n}) \union {m} /\ taken' = ConfirmedTo(m)
  BY <1>3, <1>4, <1>5 DEF Moves, ConfirmedTo
<1>7. /\ escrow' \in [offered : BOOLEAN, acceptedBy : (Depositors \ {Sender}) \union {Nobody},
                      cancelled : BOOLEAN, out : BOOLEAN]
      /\ escrow'.cancelled = escrow.cancelled /\ escrow'.out = escrow.out
      /\ escrow.acceptedBy # Nobody => escrow'.acceptedBy # Nobody
      /\ \A u \in taken' : u = Sender \/ escrow'.acceptedBy # Nobody
  <2>1. CASE Received(n.user) /\ reply = "success"
    BY <1>1, <1>3, <2>1, ReceivedIs
  <2>2. CASE UNCHANGED escrow /\ (reply = "success" => n.user = Sender \/ escrow.acceptedBy # Nobody)
    BY <1>1, <1>3, <2>2 DEF SwapTypes
  <2> QED BY <1>3, <2>1, <2>2
<1>8. taken' \subseteq Members /\ taken \subseteq taken'
  BY <1>1, <1>2, <1>3
<1> QED BY <1>3, <1>5, <1>6, <1>7, <1>8, JobMoves

LEMMA RepliedStep ==
    ASSUME SwapInvariant, NEW n \in notifying, NotifyReplied(n)
    PROVE  SwapInvariant'
<1> USE DEF swapClocks, swapEscrow
<1>1. /\ SwapTypes /\ n \in NotifyJobs /\ taken = ConfirmedTo(n) /\ notifying = {n}
      /\ accepting = {} /\ ~Withdrawn /\ status # Open
  BY DEF SwapInvariant, SwapTypes, TakenByJob, OneCall, FreeMeansFree, NoTaker
<1>2. UNCHANGED <<accepting, cancelling, taken, checking, escrow, news>> /\ n.at = "replied"
  BY DEF NotifyReplied
<1>3. CASE n.reply = "failed" /\ n.attempt < MaxRetries
  <2>1. PICK m : m = Job(n.user, n.attempt + 1)
    OBVIOUS
  <2>2. m \in NotifyJobs /\ ConfirmedTo(m) = {} /\ taken = {}
    BY <1>1, <1>3, <2>1 DEF Job, NotifyJobs, Ats, Replies, ConfirmedTo
  <2>3. notifying' = (notifying \ {n}) \union {m} /\ status' = status
    BY <1>3, <2>1 DEF NotifyReplied
  <2> QED
    BY <1>1, <1>2, <2>2, <2>3, JobMoves DEF SwapTypes
<1>4. CASE notifying' = {}
  <2>1. \/ status' = status
        \/ status' = Is("accepted", n.user) /\ n.reply = "success"
        \/ status' = Open /\ n.reply = "expired"
    BY DEF NotifyReplied, Unreserve
  <2>2. n.user \in Members /\ taken = (IF n.reply = "success" THEN {n.user} ELSE {})
    BY <1>1, <1>2 DEF NotifyJobs, ConfirmedTo
  <2>3. SwapTypes'
    BY <1>1, <1>2, <1>4, <2>1, <2>2 DEF SwapTypes, Statuses, Depositors, Open, Is
  <2>4. OneCall' /\ TakenByJob'
    BY <1>1, <1>2, <1>4 DEF SwapInvariant, OneCall, TakenByJob
  <2>5. ~Withdrawn'
    BY <1>1, <1>2, <2>1 DEF Withdrawn, Open, Is
  <2>6. status' = Open => NoTaker'
    BY <1>1, <1>2, <1>4, <2>1, <2>2 DEF NoTaker, Open, Is
  <2>7. NewsTrue'
    BY <1>2 DEF SwapInvariant, NewsTrue
  <2>8. TruthfulSwap'
    BY <1>2, <2>1, <2>2 DEF SwapInvariant, TruthfulSwap, TakenByJob, Open, Is
  <2> QED
    BY <2>3, <2>4, <2>5, <2>6, <2>7, <2>8 DEF SwapInvariant, FreeMeansFree, Open, Is
<1> QED
  BY <1>1, <1>3, <1>4 DEF NotifyReplied

-----------------------------------------------------------------------------
(* What withdraws or ends the swap takes nothing.                            *)

LEMMA EndingStep ==
    ASSUME SwapInvariant,
           \/ CancelSwap \/ MarkExpired \/ HardDeleteSwap \/ RemoveSwap
           \/ \E attempt \in cancelling : EscrowCancels(attempt) \/ CancelFails(attempt)
           \/ \E s \in news : SwapNews(s)
    PROVE  SwapInvariant'
<1> USE DEF swapClocks, swapMessage, swapCalls, swapEscrow
<1>1. SwapTypes /\ NewsTrue /\ TruthfulSwap /\ FreeMeansFree
  BY DEF SwapInvariant
<1>2. /\ UNCHANGED <<accepting, notifying, taken, checking>>
      /\ news' \subseteq news
      /\ status' \in Statuses /\ (status' = status \/ status' # Open)
      /\ escrow' \in [offered : BOOLEAN, acceptedBy : (Depositors \ {Sender}) \union {Nobody},
                      cancelled : BOOLEAN, out : BOOLEAN]
      /\ escrow'.out = escrow.out /\ escrow'.acceptedBy = escrow.acceptedBy
      /\ Withdrawn' => NoTaker /\ status' # Open
      /\ \/ status' = status \/ status'.is \in {"expired", "gone", "cancelled"}
         \/ status'.is = "completed" /\ escrow.out /\ status = Is("accepted", status'.user)
  <2>1. CASE CancelSwap
    <3>1. NoTaker /\ status' = Is("cancelled", Nobody)
          /\ UNCHANGED <<accepting, notifying, taken, checking, escrow, news>>
      BY <1>1, <2>1 DEF CancelSwap, Cancellable, FreeMeansFree
    <3> QED BY <1>1, <3>1 DEF SwapTypes, Statuses, Open, Is
  <2>2. CASE MarkExpired
    <3>1. /\ status' = status \/ status' = Is("expired", Nobody)
          /\ UNCHANGED <<accepting, notifying, taken, checking, escrow, news, cancelling>>
      BY <2>2 DEF MarkExpired
    <3>2. Withdrawn' => Withdrawn
      BY <3>1 DEF Withdrawn, Is
    <3> QED BY <1>1, <3>1, <3>2 DEF SwapTypes, Statuses, FreeMeansFree, Open, Is
  <2>3. CASE HardDeleteSwap \/ RemoveSwap
    <3>1. /\ status' = Is("gone", Nobody)
          /\ cancelling' = cancelling \/ status = Open
          /\ UNCHANGED <<accepting, notifying, taken, checking, escrow, news>>
      BY <2>3 DEF HardDeleteSwap, RemoveSwap
    <3>2. Withdrawn' => Withdrawn \/ status = Open
      BY <3>1 DEF Withdrawn, Is
    <3> QED BY <1>1, <3>1, <3>2 DEF SwapTypes, Statuses, FreeMeansFree, Open, Is
  <2>4. ASSUME NEW k \in cancelling, EscrowCancels(k) \/ CancelFails(k)
        PROVE  /\ UNCHANGED <<status, accepting, notifying, taken, checking, news>> /\ Withdrawn
               /\ escrow' \in [offered : BOOLEAN,
                               acceptedBy : (Depositors \ {Sender}) \union {Nobody},
                               cancelled : BOOLEAN, out : BOOLEAN]
               /\ escrow'.out = escrow.out /\ escrow'.acceptedBy = escrow.acceptedBy
    BY <1>1, <2>4 DEF EscrowCancels, CancelFails, Withdrawn, SwapTypes
  <2>5. ASSUME NEW s \in news, SwapNews(s)
        PROVE  /\ UNCHANGED <<accepting, notifying, taken, checking, escrow, cancelling>>
               /\ news' \subseteq news /\ status' \in Statuses
               /\ status' = status \/ s.is # "completed" \/ status = Is("accepted", s.user)
               /\ status' \in {status, s}
    BY <1>1, <2>5 DEF SwapNews, SwapTypes
  <2>6. ASSUME NEW s \in news, SwapNews(s)
        PROVE  /\ status' = status \/ status' # Open
               /\ Withdrawn' => Withdrawn
               /\ \/ status' = status \/ status'.is \in {"expired", "gone", "cancelled"}
                  \/ status'.is = "completed" /\ escrow.out /\ status = Is("accepted", status'.user)
    <3>1. s.is \in {"completed", "cancelled", "expired"} /\ (s.is = "completed" => escrow.out)
      BY <1>1 DEF NewsTrue
    <3>2. Withdrawn' => Withdrawn
      BY <2>5, <2>6 DEF Withdrawn
    <3> QED BY <2>5, <2>6, <3>1, <3>2 DEF Open, Is
  <2>7. CASE \E s \in news : SwapNews(s)
    <3>1. PICK s \in news : SwapNews(s)
      BY <2>7
    <3> QED BY <1>1, <2>5, <2>6, <3>1 DEF SwapTypes, FreeMeansFree
  <2>8. CASE \E k \in cancelling : EscrowCancels(k) \/ CancelFails(k)
    BY <1>1, <2>4, <2>8 DEF SwapTypes, FreeMeansFree
  <2> QED BY <2>1, <2>2, <2>3, <2>7, <2>8
<1>3. SwapTypes'
  BY <1>1, <1>2 DEF SwapTypes
<1>4. OneCall' /\ TakenByJob'
  BY <1>2 DEF SwapInvariant, OneCall, TakenByJob, ConfirmedTo
<1>5. FreeMeansFree'
  BY <1>1, <1>2 DEF FreeMeansFree, NoTaker, Open, Is
<1>6. NewsTrue'
  BY <1>1, <1>2 DEF NewsTrue
<1>7. TruthfulSwap'
  BY <1>1, <1>2 DEF TruthfulSwap, Withdrawn, NoTaker, Is
<1> QED BY <1>3, <1>4, <1>5, <1>6, <1>7 DEF SwapInvariant

\* Each action of message, group, user and escrow keeps the lock.
LEMMA SwapStep == SwapInvariant /\ [SwapNext]_swapVars => SwapInvariant'
<1> SUFFICES ASSUME SwapInvariant, [SwapNext]_swapVars PROVE SwapInvariant'
    OBVIOUS
<1>1. CASE \E u \in Members : Accept(u)
  BY <1>1, AcceptStep
<1>2. CASE \E a \in accepting : UserReplies(a) \/ AcceptDeposited(a) \/ AcceptFailed(a)
  BY <1>2, AcceptingStep
<1>3. CASE \E n \in notifying : \/ NotifyPrepared(n) \/ NotifyAccepted(n) \/ NotifyTooLow(n)
                                \/ NotifyFails(n) \/ NotifyReplied(n)
  BY <1>3, NotifyingStep, RepliedStep
<1>4. CASE \/ CancelSwap \/ MarkExpired \/ HardDeleteSwap \/ RemoveSwap
           \/ \E attempt \in cancelling : EscrowCancels(attempt) \/ CancelFails(attempt)
           \/ \E s \in news : SwapNews(s)
  BY <1>4, EndingStep
<1>5. CASE \/ \E u \in Members \union Strangers : OtherPrepared(u)
           \/ \E u \in checking : OtherChecked(u)
           \/ Exchange \/ EscrowTells \/ GroupClockPasses \/ EscrowClockPasses
           \/ UNCHANGED swapVars
  BY <1>5, EscrowSteps, EscrowOnlyKeeps
<1> QED BY <1>1, <1>2, <1>3, <1>4, <1>5 DEF SwapNext

\* The reservation of the message is the lock of the swap in the group: for any
\* members, strangers and number of retries, one member at a time takes the swap
\* through the group, and none once the group withdraws it.
THEOREM SwapHasOneTaker == SwapSpec => []OneTaker
<1>1. SwapSpec => []SwapInvariant
  BY SwapInitially, SwapStep, PTL DEF SwapSpec
<1> QED BY <1>1, SwapInvariantGivesOneTaker, PTL

\* What members see of a swap is what became of the deposit that was confirmed to
\* the group, whoever else deposits and has the escrow notified.
THEOREM SwapIsTruthful == SwapSpec => []TruthfulSwap
<1>1. SwapSpec => []SwapInvariant
  BY SwapInitially, SwapStep, PTL DEF SwapSpec
<1>2. SwapInvariant => TruthfulSwap
  BY DEF SwapInvariant
<1> QED BY <1>1, <1>2, PTL

(***************************************************************************)
(* FireAndForgetHandler                                                    *)
(***************************************************************************)
Calls == [id : Nat, to : Canisters, attempt : Nat]

RetryTypes ==
    /\ nextId \in Nat /\ retryTimer \in BOOLEAN
    /\ flying \subseteq Calls
    /\ retries \in [DOMAIN retries -> [inProgress : SUBSET Nat, queue : SUBSET Calls]]

\* Calls are numbered in order and queued under their target to be retried.
RetryCalls ==
    /\ \A call \in flying : call.id < nextId
    /\ \A c \in DOMAIN retries : \A call \in retries[c].queue :
          call.id < nextId /\ call.to = c /\ call.attempt > 0

RetryInvariant == RetryTypes /\ RetryCalls /\ RetriesGoOn

\* A handler without calls
LEMMA RetryInitially == RetryInit => RetryInvariant
<1> SUFFICES ASSUME RetryInit PROVE RetryInvariant
    OBVIOUS
<1>1. DOMAIN retries = {} /\ retries = [c \in {} |-> {}]
  BY DEF RetryInit
<1>2. RetryTypes
  <2>1. retries \in [DOMAIN retries -> [inProgress : SUBSET Nat, queue : SUBSET Calls]]
    BY <1>1
  <2> QED BY <2>1 DEF RetryInit, RetryTypes
<1>3. RetryCalls
  BY <1>1 DEF RetryInit, RetryCalls
<1>4. RetriesGoOn
  BY <1>1 DEF RetryInit, RetriesGoOn, Queued
<1> QED BY <1>2, <1>3, <1>4 DEF RetryInvariant

\* The entry of a returned call's target lists the other retries in flight.
LEMMA FinishedEntry ==
    ASSUME RetryInvariant, NEW call \in flying
    PROVE  /\ Finished(call) \in [inProgress : SUBSET Nat, queue : SUBSET Calls]
           /\ Finished(call).inProgress = {x.id : x \in RetriesTo(call.to) \ {call}}
           /\ Finished(call).queue = PendingOf(call.to).queue
           /\ Finished(call).queue \subseteq Queued
           /\ \A x \in Finished(call).queue : x.id < nextId /\ x.to = call.to /\ x.attempt > 0
           /\ call.to \in DOMAIN retries => retries[call.to].queue = Finished(call).queue
<1> DEFINE c == call.to
<1>1. call \in Calls /\ \A x, y \in flying : x.id = y.id => x = y
  BY DEF RetryInvariant, RetryTypes, RetriesGoOn
<1>2. PendingOf(c) \in [inProgress : SUBSET Nat, queue : SUBSET Calls]
  BY DEF RetryInvariant, RetryTypes, PendingOf
<1>3. PendingOf(c).inProgress = {x.id : x \in RetriesTo(c)}
  <2>1. CASE c \in DOMAIN retries
    BY <2>1 DEF RetryInvariant, RetriesGoOn, PendingOf
  <2>2. CASE c \notin DOMAIN retries
    BY <2>2 DEF RetryInvariant, RetriesGoOn, PendingOf, RetriesTo
  <2> QED BY <2>1, <2>2
<1>4. /\ Finished(call) \in [inProgress : SUBSET Nat, queue : SUBSET Calls]
      /\ Finished(call).inProgress = PendingOf(c).inProgress \ {call.id}
      /\ Finished(call).queue = PendingOf(c).queue
  BY <1>2 DEF Finished
<1>5. {x.id : x \in RetriesTo(c)} \ {call.id} = {x.id : x \in RetriesTo(c) \ {call}}
  BY <1>1 DEF RetriesTo
<1>6. /\ PendingOf(c).queue \subseteq Queued
      /\ \A x \in PendingOf(c).queue : x.id < nextId /\ x.to = c /\ x.attempt > 0
      /\ c \in DOMAIN retries => retries[c].queue = PendingOf(c).queue
  BY DEF PendingOf, Queued, RetryInvariant, RetryCalls
<1> QED BY <1>3, <1>4, <1>5, <1>6

\* A returned call leaves its target's entry without it, or with its next
\* attempt queued.
LEMMA StoredAfter ==
    ASSUME RetryInvariant, NEW call \in flying,
           flying' = flying \ {call}, nextId' = nextId, StartJob,
           NEW more \in SUBSET Calls, \A x \in more : x.id = call.id /\ x.to = call.to /\ x.attempt > 0,
           \A x, y \in more : x = y,
           NEW p \in [inProgress : SUBSET Nat, queue : SUBSET Calls],
           p.inProgress = Finished(call).inProgress, p.queue = Finished(call).queue \union more,
           p.inProgress # {} \/ p.queue # {},
           Store(call.to, p)
    PROVE  RetryInvariant'
<1> DEFINE c == call.to
<1>1. /\ DOMAIN retries' = DOMAIN retries \union {c}
      /\ retries'[c] = p
      /\ \A x \in DOMAIN retries \ {c} : retries'[x] = retries[x]
  BY DEF Store
<1>2. retries' \in [DOMAIN retries' -> [inProgress : SUBSET Nat, queue : SUBSET Calls]]
  BY <1>1 DEF Store, RetryInvariant, RetryTypes
<1>3. RetryTypes'
  BY <1>1, <1>2 DEF RetryInvariant, RetryTypes, StartJob
<1>4. RetryCalls'
  BY <1>1, FinishedEntry DEF RetryInvariant, RetryCalls
<1>5. DOMAIN retries' # {} => retryTimer'
  BY DEF StartJob
<1>6. RetriesTo(c)' = RetriesTo(c) \ {call} /\ \A x : x # c => RetriesTo(x)' = RetriesTo(x)
  BY DEF RetriesTo
<1>7. \A x \in DOMAIN retries' :
         /\ retries'[x].inProgress = {y.id : y \in RetriesTo(x)'}
         /\ retries'[x].inProgress # {} \/ retries'[x].queue # {}
  BY <1>1, <1>6, FinishedEntry DEF RetryInvariant, RetriesGoOn
<1>8. \A x \in flying' : x.attempt > 0 => x.to \in DOMAIN retries'
  BY <1>1 DEF RetryInvariant, RetriesGoOn
<1>9. Queued' \subseteq Queued \union more
  BY <1>1, FinishedEntry DEF Queued
<1>10. \A x, y \in flying' \union Queued' : x.id = y.id => x = y
  <2>1. \A x, y \in flying \union Queued : x.id = y.id => x = y
    BY DEF RetryInvariant, RetriesGoOn, Queued
  <2>2. \A x \in (flying' \union Queued') : x \in more \/ (x \in flying \union Queued /\ x # call)
    BY <1>9 DEF RetryInvariant, RetriesGoOn
  <2> QED BY <2>1, <2>2
<1>11. flying' \intersect Queued' = {}
  <2>1. \A x, y \in flying \union Queued : x.id = y.id => x = y
    BY DEF RetryInvariant, RetriesGoOn
  <2> QED BY <1>9, <2>1 DEF RetryInvariant, RetriesGoOn
<1> QED BY <1>3, <1>4, <1>5, <1>7, <1>8, <1>10, <1>11 DEF RetryInvariant, RetriesGoOn, Queued

\* A returned call that was the last of its target takes the entry with it.
LEMMA ForgottenAfter ==
    ASSUME RetryInvariant, NEW call \in flying,
           flying' = flying \ {call}, nextId' = nextId, StartJob,
           Finished(call).inProgress = {}, Finished(call).queue = {},
           Forget(call.to)
    PROVE  RetryInvariant'
<1> DEFINE c == call.to
<1>1. /\ DOMAIN retries' = DOMAIN retries \ {c}
      /\ \A x \in DOMAIN retries' : retries'[x] = retries[x]
  BY DEF Forget
<1>2. retries' \in [DOMAIN retries' -> [inProgress : SUBSET Nat, queue : SUBSET Calls]]
  BY <1>1 DEF Forget, RetryInvariant, RetryTypes
<1>3. RetryTypes'
  BY <1>1, <1>2 DEF RetryInvariant, RetryTypes, StartJob
<1>4. RetryCalls'
  BY <1>1 DEF RetryInvariant, RetryCalls
<1>5. RetriesTo(c)' = {} /\ \A x : x # c => RetriesTo(x)' = RetriesTo(x)
  <2>1. RetriesTo(c) \ {call} = {}
    BY FinishedEntry
  <2> QED BY <2>1 DEF RetriesTo
<1>6. Queued' \subseteq Queued
  BY <1>1 DEF Queued
<1>7. \A x \in flying' : x.attempt > 0 => x.to \in DOMAIN retries'
  BY <1>1, <1>5 DEF RetryInvariant, RetriesGoOn, RetriesTo
<1>8. \A x \in DOMAIN retries' : retries'[x].inProgress = {y.id : y \in RetriesTo(x)'}
  BY <1>1, <1>5 DEF RetryInvariant, RetriesGoOn
<1>9. RetriesGoOn'
  BY <1>1, <1>6, <1>7, <1>8 DEF RetryInvariant, RetriesGoOn, StartJob
<1> QED BY <1>3, <1>4, <1>9 DEF RetryInvariant

\* A call that returns, whatever its answer
LEMMA ReturnedStep ==
    ASSUME RetryInvariant, NEW call \in flying, Returned(call)
    PROVE  RetryInvariant'
<1> DEFINE pending == Finished(call)
<1>0. flying' = flying \ {call} /\ nextId' = nextId /\ StartJob
  BY DEF Returned
<1>1. CASE call.attempt = 0 /\ UNCHANGED retries
  <2>1. \A c : RetriesTo(c)' = RetriesTo(c)
    BY <1>0, <1>1 DEF RetriesTo
  <2>2. Queued' = Queued
    BY <1>1 DEF Queued
  <2>3. RetriesGoOn'
    BY <1>0, <1>1, <2>1, <2>2 DEF RetryInvariant, RetriesGoOn, StartJob
  <2> QED BY <1>0, <1>1, <2>3 DEF RetryInvariant, RetryTypes, RetryCalls, StartJob
<1>2. CASE Store(call.to, [pending EXCEPT !.queue = @ \union {[call EXCEPT !.attempt = @ + 1]}])
  <2> DEFINE more == {[call EXCEPT !.attempt = @ + 1]}
             p == [pending EXCEPT !.queue = @ \union more]
  <2>1. call \in Calls
    BY DEF RetryInvariant, RetryTypes
  <2>2. /\ [call EXCEPT !.attempt = @ + 1] \in Calls
        /\ [call EXCEPT !.attempt = @ + 1].attempt > 0
        /\ [call EXCEPT !.attempt = @ + 1].id = call.id
        /\ [call EXCEPT !.attempt = @ + 1].to = call.to
    BY <2>1 DEF Calls
  <2>3. pending \in [inProgress : SUBSET Nat, queue : SUBSET Calls]
    BY FinishedEntry
  <2>4. /\ p \in [inProgress : SUBSET Nat, queue : SUBSET Calls]
        /\ p.inProgress = pending.inProgress /\ p.queue = pending.queue \union more
    BY <2>2, <2>3
  <2>5. p.queue # {}
    BY <2>4
  <2>6. Store(call.to, p)
    BY <1>2
  <2>7. more \in SUBSET Calls /\ \A x, y \in more : x = y
    BY <2>2
  <2>8. \A x \in more : x.id = call.id /\ x.to = call.to /\ x.attempt > 0
    BY <2>2
  <2> HIDE DEF more, p, pending
  <2> QED BY <1>0, <2>4, <2>5, <2>6, <2>7, <2>8, StoredAfter DEF pending
<1>3. CASE pending.inProgress = {} /\ pending.queue = {} /\ Forget(call.to)
  BY <1>0, <1>3, ForgottenAfter
<1>4. CASE ~(pending.inProgress = {} /\ pending.queue = {}) /\ Store(call.to, pending)
  <2>1. pending \in [inProgress : SUBSET Nat, queue : SUBSET Calls]
    BY FinishedEntry
  <2> HIDE DEF pending
  <2>2. pending.queue = pending.queue \union {}
    OBVIOUS
  <2>3. {} \in SUBSET Calls
    OBVIOUS
  <2> QED BY <1>0, <1>4, <2>1, <2>2, <2>3, StoredAfter DEF pending
<1> QED BY <1>1, <1>2, <1>3, <1>4 DEF Returned

\* A batch takes queued calls of targets without retries in flight.
LEMMA BatchStep ==
    ASSUME RetryInvariant, StartBatch
    PROVE  RetryInvariant'
<1> DEFINE free == {c \in DOMAIN retries : retries[c].inProgress = {}}
<1>1. PICK batch \in SUBSET UNION {retries[c].queue : c \in free} :
         /\ batch # {}
         /\ flying' = flying \union batch
         /\ retries' = [c \in DOMAIN retries |->
                [inProgress |-> retries[c].inProgress \union
                                    {call.id : call \in {b \in batch : b.to = c}},
                 queue |-> retries[c].queue \ batch]]
         /\ UNCHANGED <<nextId, retryTimer>>
  BY DEF StartBatch
<1>2. /\ batch \subseteq Queued /\ batch \subseteq Calls
      /\ \A b \in batch : b.to \in free /\ b.id < nextId /\ b.attempt > 0
  BY DEF Queued, RetryInvariant, RetryTypes, RetryCalls
<1>3. /\ DOMAIN retries' = DOMAIN retries
      /\ \A c \in DOMAIN retries :
            /\ retries'[c].queue = retries[c].queue \ batch
            /\ retries'[c].inProgress = retries[c].inProgress \union
                    {call.id : call \in {b \in batch : b.to = c}}
  BY <1>1
<1>4. Queued' = Queued \ batch
  BY <1>3 DEF Queued
<1>5. RetryTypes'
  <2>1. \A c \in DOMAIN retries : retries[c] \in [inProgress : SUBSET Nat, queue : SUBSET Calls]
    BY DEF RetryInvariant, RetryTypes
  <2>2. \A b \in batch : b.id \in Nat
    BY <1>2 DEF Calls
  <2>3. retries' \in [DOMAIN retries' -> [inProgress : SUBSET Nat, queue : SUBSET Calls]]
    BY <1>1, <1>3, <2>1, <2>2
  <2> QED BY <1>1, <1>2, <2>3 DEF RetryInvariant, RetryTypes
<1>6. RetryCalls'
  BY <1>1, <1>2, <1>3 DEF RetryInvariant, RetryCalls
<1>7. \A c : RetriesTo(c)' = RetriesTo(c) \union {b \in batch : b.to = c}
  BY <1>1, <1>2 DEF RetriesTo
<1>8. \A c \in DOMAIN retries' :
         /\ retries'[c].inProgress = {x.id : x \in RetriesTo(c)'}
         /\ retries'[c].inProgress # {} \/ retries'[c].queue # {}
  <2> SUFFICES ASSUME NEW c \in DOMAIN retries
               PROVE  /\ retries'[c].inProgress = {x.id : x \in RetriesTo(c)'}
                      /\ retries'[c].inProgress # {} \/ retries'[c].queue # {}
    BY <1>3
  <2>1. retries[c].inProgress = {x.id : x \in RetriesTo(c)}
    BY DEF RetryInvariant, RetriesGoOn
  <2>2. retries'[c].inProgress = {x.id : x \in RetriesTo(c)'}
    BY <1>3, <1>7, <2>1
  <2>3. retries'[c].inProgress # {} \/ retries'[c].queue # {}
    BY <1>3 DEF RetryInvariant, RetriesGoOn, RetryCalls
  <2> QED BY <2>2, <2>3
<1>9. \A x \in flying' : x.attempt > 0 => x.to \in DOMAIN retries'
  BY <1>1, <1>2, <1>3 DEF RetryInvariant, RetriesGoOn
<1>10. /\ flying' \intersect Queued' = {}
       /\ \A x, y \in flying' \union Queued' : x.id = y.id => x = y
  BY <1>1, <1>2, <1>4 DEF RetryInvariant, RetriesGoOn
<1> QED BY <1>1, <1>3, <1>5, <1>6, <1>8, <1>9, <1>10 DEF RetryInvariant, RetriesGoOn

\* Each action of the handler keeps the invariant.
LEMMA RetryStep == RetryInvariant /\ [RetryNext]_retryVars => RetryInvariant'
<1> SUFFICES ASSUME RetryInvariant, [RetryNext]_retryVars PROVE RetryInvariant'
    OBVIOUS
<1>1. ASSUME NEW c \in Canisters, Send(c) PROVE RetryInvariant'
  <2> DEFINE new == [id |-> nextId, to |-> c, attempt |-> 0]
  <2>1. /\ flying' = flying \union {new} /\ nextId' = nextId + 1
        /\ UNCHANGED <<retries, retryTimer>>
    BY <1>1 DEF Send
  <2>2. \A x \in flying \union Queued : x.id < nextId
    BY DEF RetryInvariant, RetryCalls, Queued
  <2>3. new \in Calls /\ nextId \in Nat
    BY DEF RetryInvariant, RetryTypes, Calls
  <2>4. RetryTypes' /\ RetryCalls'
    BY <2>1, <2>3 DEF RetryInvariant, RetryTypes, RetryCalls, Calls
  <2>5. Queued' = Queued /\ \A x : RetriesTo(x)' = RetriesTo(x)
    BY <2>1 DEF Queued, RetriesTo
  <2>6. RetriesGoOn'
    BY <2>1, <2>2, <2>3, <2>5 DEF RetryInvariant, RetriesGoOn
  <2> QED BY <2>4, <2>6 DEF RetryInvariant
<1>2. ASSUME NEW call \in flying, Returned(call) PROVE RetryInvariant'
  BY <1>2, ReturnedStep
<1>3. CASE StartBatch
  BY <1>3, BatchStep
<1>4. CASE StopJob
  <2>1. /\ UNCHANGED <<nextId, retries, flying>> /\ retryTimer' = FALSE
        /\ DOMAIN retries' = {}
    BY <1>4 DEF StopJob
  <2>2. Queued' = Queued /\ \A c : RetriesTo(c)' = RetriesTo(c)
    BY <2>1 DEF Queued, RetriesTo
  <2>3. RetryTypes' /\ RetryCalls'
    BY <2>1 DEF RetryInvariant, RetryTypes, RetryCalls
  <2>4. RetriesGoOn'
    BY <2>1, <2>2 DEF RetryInvariant, RetriesGoOn
  <2> QED BY <2>3, <2>4 DEF RetryInvariant
<1>5. CASE Restart
  BY <1>5 DEF Restart, RetryInvariant, RetryTypes, RetryCalls, RetriesGoOn, RetriesTo, Queued
<1>6. CASE UNCHANGED retryVars
  BY <1>6 DEF retryVars, RetryInvariant, RetryTypes, RetryCalls, RetriesGoOn, RetriesTo, Queued
<1> QED BY <1>1, <1>2, <1>3, <1>4, <1>5, <1>6 DEF RetryNext

\* RetriesGoOn, for any targets and any number of attempts.
THEOREM HandlerRetriesGoOn == RetrySpec => []RetriesGoOn
<1>1. RetrySpec => []RetryInvariant
  BY RetryInitially, RetryStep, PTL DEF RetrySpec
<1>2. RetryInvariant => RetriesGoOn
  BY DEF RetryInvariant
<1> QED BY <1>1, <1>2, PTL

(***************************************************************************)
(* FileStorage.  Files are new when they are created and are not pending   *)
(* and stored at once, so each is counted once.                            *)
(***************************************************************************)
WithBlob(b, fs) == {f \in fs : f.blob = b}

FilesKnown ==
    /\ created \in Nat /\ IsFiniteSet(files)
    /\ pendingFiles \intersect files = {}
    /\ \A f \in pendingFiles \union files : f.id \in 1..created /\ f.blob \in Blobs

StorageInv ==
    /\ FilesKnown
    /\ counts \in [Blobs -> Nat]
    /\ \A b \in Blobs : counts[b] = Cardinality(WithBlob(b, files))
    /\ blobs = {b \in Blobs : counts[b] > 0}

\* One file more of its blob: an upload that is complete, or a forwarded file.
LEMMA FileInserted ==
    ASSUME StorageInv, FilesKnown', NEW f, f \notin files, f.blob \in Blobs,
           files' = files \union {f},
           counts' = [counts EXCEPT ![f.blob] = @ + 1],
           blobs' = blobs \union {f.blob}
    PROVE  StorageInv'
<1>1. /\ counts \in [Blobs -> Nat] /\ IsFiniteSet(files)
      /\ \A b \in Blobs : counts[b] = Cardinality(WithBlob(b, files))
      /\ blobs = {b \in Blobs : counts[b] > 0}
  BY DEF StorageInv, FilesKnown
<1>2. counts' \in [Blobs -> Nat]
  BY <1>1
<1>3. ASSUME NEW b \in Blobs PROVE counts'[b] = Cardinality(WithBlob(b, files'))
  <2>1. IsFiniteSet(WithBlob(b, files))
    BY <1>1, FS_Subset DEF WithBlob
  <2>2. CASE b = f.blob
    <3>1. WithBlob(b, files') = WithBlob(b, files) \union {f} /\ f \notin WithBlob(b, files)
      BY <2>2 DEF WithBlob
    <3>2. Cardinality(WithBlob(b, files')) = Cardinality(WithBlob(b, files)) + 1
      BY <2>1, <3>1, FS_AddElement
    <3> QED BY <1>1, <2>2, <3>2
  <2>3. CASE b # f.blob
    <3>1. WithBlob(b, files') = WithBlob(b, files)
      BY <2>3 DEF WithBlob
    <3> QED BY <1>1, <2>3, <3>1
  <2> QED BY <2>2, <2>3
<1>4. blobs' = {b \in Blobs : counts'[b] > 0}
  BY <1>1, <1>2
<1> QED BY <1>2, <1>3, <1>4 DEF StorageInv

\* Files that go, with the blobs whose last files they are
LEMMA FilesGo ==
    ASSUME StorageInv, NEW fs \in SUBSET files, RemoveFiles(fs),
           pendingFiles' \subseteq pendingFiles, created' = created
    PROVE  StorageInv'
<1>1. /\ counts \in [Blobs -> Nat] /\ IsFiniteSet(files)
      /\ \A b \in Blobs : counts[b] = Cardinality(WithBlob(b, files))
      /\ blobs = {b \in Blobs : counts[b] > 0}
  BY DEF StorageInv, FilesKnown
<1>2. /\ files' = files \ fs
      /\ counts' = [b \in Blobs |-> counts[b] - Cardinality(WithBlob(b, fs))]
      /\ blobs' = blobs \ {f.blob : f \in {f \in fs : counts'[f.blob] = 0}}
  BY DEF RemoveFiles, WithBlob
<1>3. FilesKnown'
  <2>1. IsFiniteSet(files')
    BY <1>1, <1>2, FS_Subset
  <2> QED BY <1>2, <2>1 DEF StorageInv, FilesKnown
<1>4. ASSUME NEW b \in Blobs
      PROVE  /\ counts'[b] \in Nat /\ counts'[b] = Cardinality(WithBlob(b, files'))
             /\ WithBlob(b, fs) = {} => counts'[b] = counts[b]
             /\ WithBlob(b, fs) # {} => counts[b] > 0
  <2>1. IsFiniteSet(WithBlob(b, files)) /\ IsFiniteSet(WithBlob(b, fs))
    BY <1>1, FS_Subset DEF WithBlob
  <2> DEFINE S == WithBlob(b, files)
             T == WithBlob(b, fs)
             R == WithBlob(b, files')
  <2>2. R = S \ T /\ S \intersect T = T
    BY <1>2 DEF WithBlob
  <2>3. IsFiniteSet(R) /\ Cardinality(R) = Cardinality(S) - Cardinality(T)
    <3>1. IsFiniteSet(S)
      BY <2>1
    <3> HIDE DEF S, T, R
    <3>2. IsFiniteSet(S \ T) /\ Cardinality(S \ T) = Cardinality(S) - Cardinality(S \intersect T)
      BY <3>1, FS_Difference
    <3> QED BY <2>2, <3>2, Zenon
  <2>4. {Cardinality(R), Cardinality(S), Cardinality(T)} \subseteq Nat
    BY <2>1, <2>3, FS_CardinalityType
  <2>5. counts'[b] = counts[b] - Cardinality(T)
    BY <1>2
  <2>6. T = {} => Cardinality(T) = 0
    BY FS_EmptySet
  <2>7. T # {} => Cardinality(S) # 0
    BY <2>1, <2>2, FS_EmptySet
  <2> QED BY <1>1, <2>3, <2>4, <2>5, <2>6, <2>7
<1>5. counts' \in [Blobs -> Nat]
  BY <1>2, <1>4
<1>6. blobs' = {b \in Blobs : counts'[b] > 0}
  <2>1. ASSUME NEW b \in Blobs PROVE b \in blobs' <=> counts'[b] > 0
    <3>1. b \in {f.blob : f \in {f \in fs : counts'[f.blob] = 0}}
            <=> WithBlob(b, fs) # {} /\ counts'[b] = 0
      BY DEF WithBlob
    <3>2. b \in blobs' <=> counts[b] > 0 /\ ~(WithBlob(b, fs) # {} /\ counts'[b] = 0)
      BY <1>1, <1>2, <3>1
    <3> QED BY <1>4, <3>2
  <2>2. blobs' \subseteq Blobs
    BY <1>1, <1>2
  <2> QED BY <2>1, <2>2
<1> QED BY <1>3, <1>4, <1>5, <1>6 DEF StorageInv

\* A step that changes only which files are pending
LEMMA BucketStands ==
    ASSUME StorageInv, FilesKnown', UNCHANGED <<files, counts, blobs>>
    PROVE  StorageInv'
  BY DEF StorageInv

\* An empty bucket
LEMMA StorageInitially == StorageInit => StorageInv
<1> SUFFICES ASSUME StorageInit PROVE StorageInv
    OBVIOUS
<1>1. /\ created = 0 /\ pendingFiles = {} /\ files = {}
      /\ counts = [b \in Blobs |-> 0] /\ blobs = {}
  BY DEF StorageInit
<1>2. \A b : WithBlob(b, files) = {}
  BY <1>1 DEF WithBlob
<1> QED BY <1>1, <1>2, FS_EmptySet DEF StorageInv, FilesKnown

\* The only chunk of an upload, or the first of several
LEMMA UploadStep ==
    ASSUME StorageInv, NEW u \in Owners, NEW b \in Blobs, Upload(u, b)
    PROVE  StorageInv'
<1> DEFINE f == NewFile(u, b)
<1>1. f.id = created + 1 /\ f.blob = b /\ created \in Nat /\ created' = created + 1
  BY DEF NewFile, Upload, StorageInv, FilesKnown
<1>2. f \notin files \union pendingFiles
  BY <1>1 DEF StorageInv, FilesKnown
<1> HIDE DEF f
<1>3. CASE Insert(f) /\ UNCHANGED pendingFiles
  <2>1. files' = files \union {f}
    BY <1>3 DEF Insert
  <2>2. IsFiniteSet(files')
    BY <2>1, FS_AddElement DEF StorageInv, FilesKnown
  <2>3. FilesKnown'
    BY <1>1, <1>2, <1>3, <2>1, <2>2 DEF StorageInv, FilesKnown
  <2> QED BY <1>1, <1>2, <1>3, <2>3, FileInserted DEF Insert
<1>4. CASE pendingFiles' = pendingFiles \union {f} /\ UNCHANGED <<files, counts, blobs>>
  <2>1. FilesKnown'
    BY <1>1, <1>2, <1>4 DEF StorageInv, FilesKnown
  <2> QED BY <1>4, <2>1, BucketStands
<1> QED BY <1>3, <1>4 DEF Upload, f

\* A pending file is completed.
LEMMA LastChunkStep ==
    ASSUME StorageInv, NEW f \in pendingFiles, LastChunk(f)
    PROVE  StorageInv'
<1>1. f \notin files /\ f.blob \in Blobs
  BY DEF StorageInv, FilesKnown
<1>2. files' = files \union {f} /\ pendingFiles' = pendingFiles \ {f} /\ created' = created
  BY DEF LastChunk, Insert
<1>3. IsFiniteSet(files')
  BY <1>2, FS_AddElement DEF StorageInv, FilesKnown
<1>4. FilesKnown'
  BY <1>2, <1>3 DEF StorageInv, FilesKnown
<1> QED BY <1>1, <1>4, FileInserted DEF LastChunk, Insert

\* A new file of a blob that is stored
LEMMA ForwardStep ==
    ASSUME StorageInv, NEW f \in files, NEW u \in Owners, Forward(u, f)
    PROVE  StorageInv'
<1> DEFINE g == NewFile(u, f.blob)
<1>1. /\ g.id = created + 1 /\ g.blob = f.blob /\ created \in Nat /\ created' = created + 1
      /\ f.blob \in Blobs
  BY DEF NewFile, Forward, StorageInv, FilesKnown
<1>2. g \notin files \union pendingFiles
  BY <1>1 DEF StorageInv, FilesKnown
<1>3. /\ files' = files \union {g} /\ counts' = [counts EXCEPT ![f.blob] = @ + 1]
      /\ UNCHANGED <<blobs, pendingFiles>> /\ f.blob \in blobs
  BY DEF Forward
<1> HIDE DEF g
<1>4. IsFiniteSet(files')
  BY <1>3, FS_AddElement DEF StorageInv, FilesKnown
<1>5. FilesKnown'
  BY <1>1, <1>2, <1>3, <1>4 DEF StorageInv, FilesKnown
<1>6. blobs' = blobs \union {g.blob}
  BY <1>1, <1>3
<1> QED BY <1>1, <1>2, <1>3, <1>5, <1>6, FileInserted

\* Each action of bucket and index keeps the invariant.
LEMMA StorageStep == StorageInv /\ [StorageNext]_storageVars => StorageInv'
<1> SUFFICES ASSUME StorageInv, [StorageNext]_storageVars PROVE StorageInv'
    OBVIOUS
<1>1. ASSUME UNCHANGED bucketVars PROVE StorageInv'
  <2>1. FilesKnown'
    BY <1>1 DEF bucketVars, StorageInv, FilesKnown
  <2> QED BY <1>1, <2>1, BucketStands DEF bucketVars
<1>2. ASSUME NEW u \in Owners, AddUser(u) \/ RemoveUser(u) PROVE StorageInv'
  BY <1>1, <1>2 DEF AddUser, RemoveUser
<1>3. ASSUME NEW u \in Owners, NEW b \in Blobs, Upload(u, b) PROVE StorageInv'
  BY <1>3, UploadStep
<1>4. ASSUME NEW f \in pendingFiles, LastChunk(f) PROVE StorageInv'
  BY <1>4, LastChunkStep
<1>5. ASSUME NEW f \in pendingFiles, HashMismatch(f) \/ PendingDropped(f) PROVE StorageInv'
  <2>1. /\ pendingFiles' = pendingFiles \ {f}
        /\ UNCHANGED <<created, files, counts, blobs>>
    BY <1>5 DEF HashMismatch, PendingDropped
  <2>2. FilesKnown'
    BY <2>1 DEF StorageInv, FilesKnown
  <2> QED BY <2>1, <2>2, BucketStands
<1>6. ASSUME NEW f \in files, Delete(f) PROVE StorageInv'
  <2>1. RemoveFiles({f}) /\ UNCHANGED <<created, pendingFiles>>
    BY <1>6 DEF Delete
  <2>2. {f} \in SUBSET files
    OBVIOUS
  <2> QED BY <2>1, <2>2, FilesGo
<1>7. ASSUME NEW f \in files, NEW u \in Owners, Forward(u, f) PROVE StorageInv'
  BY <1>7, ForwardStep
<1>8. ASSUME NEW n, SyncBucket(n) PROVE StorageInv'
  BY <1>1, <1>8 DEF SyncBucket
<1>9. ASSUME NEW n, SyncIndex(n) PROVE StorageInv'
  <2>1. \E fs \in SUBSET files : RemoveFiles(fs)
    BY <1>9 DEF SyncIndex
  <2>2. UNCHANGED <<created, pendingFiles>>
    BY <1>9 DEF SyncIndex
  <2> QED BY <2>1, <2>2, FilesGo
<1>10. CASE DropRejected
  <2>1. RemoveFiles(files \intersect Rejected)
    BY <1>10 DEF DropRejected
  <2>2. pendingFiles' \subseteq pendingFiles /\ created' = created
    BY <1>10 DEF DropRejected
  <2>3. files \intersect Rejected \in SUBSET files
    OBVIOUS
  <2> QED BY <2>1, <2>2, <2>3, FilesGo
<1>11. CASE UNCHANGED storageVars
  BY <1>1, <1>11 DEF storageVars
<1> QED
  BY <1>2, <1>3, <1>4, <1>5, <1>6, <1>7, <1>8, <1>9, <1>10, <1>11 DEF StorageNext

\* BlobsAgree, for any users, blobs and number of files.
THEOREM StorageBlobsAgree == StorageSpec => []BlobsAgree
<1>1. StorageSpec => []StorageInv
  BY StorageInitially, StorageStep, PTL DEF StorageSpec
<1>2. StorageInv => BlobsAgree
  BY DEF StorageInv, BlobsAgree, WithBlob
<1> QED BY <1>1, <1>2, PTL

(***************************************************************************)
(* FileStorage, the index.  What a user is charged follows the blobs among *)
(* the user's listed files through each event of a batch.                  *)
(***************************************************************************)
FileRecords == [id : Nat, owner : Owners, created : Nat, blob : Blobs]
FileEvents == [is : {"added", "removed"}, file : FileRecords]

BlobsOf(fs, u) == {f.blob : f \in {f \in fs : f.owner = u}}

\* The users of files are no new ones, and used is what their blobs take.
Charged(fs, bytes) ==
    /\ fs \subseteq FileRecords /\ IsFiniteSet(fs) /\ bytes \in [Owners -> Int]
    /\ \A f \in fs : account[f.owner] # "new"
    /\ \A u \in Owners : account[u] # "closed" => bytes[u] = SumFunctionOnSet(Size, BlobsOf(fs, u))

\* The blobs of a user are finitely many.
LEMMA BlobsAreFinite ==
    ASSUME NEW fs, IsFiniteSet(fs), fs \subseteq FileRecords, NEW u
    PROVE  IsFiniteSet(BlobsOf(fs, u)) /\ BlobsOf(fs, u) \subseteq Blobs
<1> DEFINE mine == {f \in fs : f.owner = u}
<1>1. IsFiniteSet(mine)
  BY FS_Subset
<1>2. mine \subseteq FileRecords
  OBVIOUS
<1> HIDE DEF mine
<1>3. IsFiniteSet({f.blob : f \in mine})
  <2> DEFINE T == {f.blob : f \in mine}
             g == [f \in mine |-> f.blob]
  <2>1. g \in Surjection(mine, T)
    BY DEF Surjection
  <2> HIDE DEF g, T
  <2>2. IsFiniteSet(T)
    BY <1>1, <2>1, FS_Surjection
  <2> QED
    BY <2>2 DEF T
<1>4. {f.blob : f \in mine} \subseteq Blobs
  BY <1>2 DEF FileRecords
<1> QED
  BY <1>3, <1>4 DEF BlobsOf, mine

\* A blob more to charge
LEMMA SizeMore ==
    ASSUME NEW S, IsFiniteSet(S), S \subseteq Blobs, NEW b \in Blobs, b \notin S
    PROVE  /\ SumFunctionOnSet(Size, S) \in Int /\ Size[b] \in Int
           /\ SumFunctionOnSet(Size, S \union {b}) = SumFunctionOnSet(Size, S) + Size[b]
<1> DEFINE R == S \union {b}
           r == SumFunctionOnSet(Size, R)
           s == SumFunctionOnSet(Size, S)
<1>1. /\ IsFiniteSet(R) /\ b \in R /\ R \ {b} = S
      /\ Size[b] \in Int /\ \A x \in R : Size[x] \in Int
  BY FS_AddElement, StorageAssumption
<1> HIDE DEF R
<1>2. /\ r = Size[b] + SumFunctionOnSet(Size, R \ {b})
      /\ SumFunctionOnSet(Size, R \ {b}) \in Int
  BY <1>1, SumWithout
<1>3. r = Size[b] + s /\ s \in Int
  BY <1>1, <1>2
<1> HIDE DEF r, s
<1>4. r = s + Size[b]
  BY <1>1, <1>3
<1> QED
  BY <1>1, <1>3, <1>4 DEF r, s, R

\* The same blobs, the same charges
LEMMA SameBlobs ==
    ASSUME NEW fs, NEW gs, NEW bytes, Charged(fs, bytes),
           gs \subseteq FileRecords, IsFiniteSet(gs), \A f \in gs : account[f.owner] # "new",
           \A u \in Owners : account[u] # "closed" => BlobsOf(gs, u) = BlobsOf(fs, u)
    PROVE  Charged(gs, bytes)
BY DEF Charged

\* A blob more, charged to its owner
LEMMA BlobMore ==
    ASSUME NEW fs, NEW gs, NEW bytes, Charged(fs, bytes),
           gs \subseteq FileRecords, IsFiniteSet(gs), \A f \in gs : account[f.owner] # "new",
           NEW o \in Owners, NEW b \in Blobs, b \notin BlobsOf(fs, o),
           BlobsOf(gs, o) = BlobsOf(fs, o) \union {b},
           \A u \in Owners \ {o} : BlobsOf(gs, u) = BlobsOf(fs, u)
    PROVE  Charged(gs, [bytes EXCEPT ![o] = @ + Size[b]])
<1> DEFINE more == [bytes EXCEPT ![o] = @ + Size[b]]
           s == SumFunctionOnSet(Size, BlobsOf(fs, o))
<1>1. /\ s \in Int /\ Size[b] \in Int
      /\ SumFunctionOnSet(Size, BlobsOf(gs, o)) = s + Size[b]
  BY BlobsAreFinite, SizeMore DEF Charged
<1>2. bytes \in [Owners -> Int]
  BY DEF Charged
<1>3. more \in [Owners -> Int] /\ more[o] = bytes[o] + Size[b]
      /\ \A u \in Owners \ {o} : more[u] = bytes[u]
  BY <1>1, <1>2
<1> HIDE DEF more, s
<1>4. ASSUME NEW u \in Owners, account[u] # "closed"
      PROVE  more[u] = SumFunctionOnSet(Size, BlobsOf(gs, u))
  <2>1. bytes[u] = SumFunctionOnSet(Size, BlobsOf(fs, u))
    BY <1>4 DEF Charged
  <2>2. CASE u = o
    BY <1>1, <1>3, <2>1, <2>2 DEF s
  <2>3. CASE u # o
    BY <1>3, <2>1, <2>3
  <2> QED
    BY <2>2, <2>3
<1>5. Charged(gs, more)
  BY <1>3, <1>4 DEF Charged
<1> QED
  BY <1>5 DEF more

\* A blob less
LEMMA BlobLess ==
    ASSUME NEW fs, NEW gs, NEW bytes, Charged(fs, bytes),
           gs \subseteq FileRecords, IsFiniteSet(gs), \A f \in gs : account[f.owner] # "new",
           NEW o \in Owners, NEW b \in Blobs, b \notin BlobsOf(gs, o),
           BlobsOf(fs, o) = BlobsOf(gs, o) \union {b},
           \A u \in Owners \ {o} : BlobsOf(gs, u) = BlobsOf(fs, u)
    PROVE  Charged(gs, [bytes EXCEPT ![o] = @ - Size[b]])
<1> DEFINE less == [bytes EXCEPT ![o] = @ - Size[b]]
           s == SumFunctionOnSet(Size, BlobsOf(gs, o))
<1>1. /\ s \in Int /\ Size[b] \in Int
      /\ SumFunctionOnSet(Size, BlobsOf(fs, o)) = s + Size[b]
  BY BlobsAreFinite, SizeMore
<1>2. bytes \in [Owners -> Int]
  BY DEF Charged
<1>3. less \in [Owners -> Int] /\ less[o] = bytes[o] - Size[b]
      /\ \A u \in Owners \ {o} : less[u] = bytes[u]
  BY <1>1, <1>2
<1> HIDE DEF less, s
<1>4. ASSUME NEW u \in Owners, account[u] # "closed"
      PROVE  less[u] = SumFunctionOnSet(Size, BlobsOf(gs, u))
  <2>1. bytes[u] = SumFunctionOnSet(Size, BlobsOf(fs, u))
    BY <1>4 DEF Charged
  <2>2. CASE u = o
    <3>1. bytes[o] = s + Size[b] /\ less[o] = bytes[o] - Size[b]
      BY <1>1, <1>3, <2>1, <2>2
    <3>2. less[o] = s
      BY <1>1, <3>1
    <3> QED
      BY <2>2, <3>2 DEF s
  <2>3. CASE u # o
    BY <1>3, <2>1, <2>3
  <2> QED
    BY <2>2, <2>3
<1>5. Charged(gs, less)
  BY <1>3, <1>4 DEF Charged
<1> QED
  BY <1>5 DEF less

IsSequence(q) == \E S : q \in Seq(S)

\* Events that say to remove files; q is p with some more of them.
Removals(e) == IsSequence(e) /\ \A i \in 1..Len(e) : e[i].is = "file to remove"
Prolongs(q, p) == IsSequence(p) /\ \E e : Removals(e) /\ q = p \o e

LEMMA Joined ==
    ASSUME NEW p, NEW q, IsSequence(p), IsSequence(q)
    PROVE  /\ IsSequence(p \o q)
           /\ Len(p \o q) = Len(p) + Len(q) /\ Len(p) \in Nat /\ Len(q) \in Nat
           /\ \A i \in 1..Len(p) : (p \o q)[i] = p[i]
           /\ \A i \in 1..Len(q) : (p \o q)[Len(p) + i] = q[i]
<1>1. PICK S : p \in Seq(S)
  BY DEF IsSequence
<1>2. PICK T : q \in Seq(T)
  BY DEF IsSequence
<1> DEFINE W == S \union T
<1>3. p \in Seq(W) /\ q \in Seq(W)
  BY <1>1, <1>2, SeqMonotonic
<1> HIDE DEF W
<1>4. p \o q \in Seq(W) /\ Len(p \o q) = Len(p) + Len(q)
  BY <1>3
<1>5. Len(p) \in Nat /\ Len(q) \in Nat
  BY <1>3
<1>6. ASSUME NEW i \in 1..Len(p)
      PROVE  (p \o q)[i] = p[i]
  BY <1>3
<1>7. ASSUME NEW i \in 1..Len(q)
      PROVE  (p \o q)[Len(p) + i] = q[i]
  BY <1>3
<1> QED
  BY <1>4, <1>5, <1>6, <1>7 DEF IsSequence

\* Removals after removals
LEMMA MoreRemovals ==
    ASSUME NEW d, NEW e, Removals(d), Removals(e)
    PROVE  Removals(d \o e)
<1> DEFINE r == d \o e
           m == Len(d)
           n == Len(e)
           k == Len(r)
<1>4. IsSequence(d) /\ IsSequence(e)
  BY DEF Removals
<1>1. /\ IsSequence(r) /\ k = m + n /\ m \in Nat /\ n \in Nat
      /\ \A i \in 1..m : r[i] = d[i]
      /\ \A i \in 1..n : r[m + i] = e[i]
  BY <1>4, Joined
<1>2. /\ \A i \in 1..m : d[i].is = "file to remove"
      /\ \A i \in 1..n : e[i].is = "file to remove"
  BY DEF Removals
<1> HIDE DEF r, m, n, k
<1>3. ASSUME NEW i \in 1..k
      PROVE  r[i].is = "file to remove"
  <2>1. CASE i <= m
    <3>1. i \in 1..m
      BY <1>1, <2>1
    <3> QED
      BY <1>1, <1>2, <3>1
  <2>2. CASE i > m
    <3>1. i - m \in 1..n /\ m + (i - m) = i
      BY <1>1, <2>2
    <3>2. r[m + (i - m)] = e[i - m]
      BY <1>1, <3>1
    <3>3. e[i - m].is = "file to remove"
      BY <1>2, <3>1
    <3> QED
      BY <3>1, <3>2, <3>3
  <2>3. k \in Nat /\ m \in Nat
    BY <1>1
  <2>4. i <= m \/ i > m
    BY <2>3
  <2> QED
    BY <2>1, <2>2, <2>4
<1> QED
  BY <1>1, <1>3 DEF Removals, r, k

LEMMA ProlongedMore ==
    ASSUME NEW p, NEW q, Prolongs(q, p), NEW e, Removals(e)
    PROVE  Prolongs(q \o e, p)
<1>1. PICK d : Removals(d) /\ q = p \o d
  BY DEF Prolongs
<1>2. PICK S : p \in Seq(S)
  BY DEF Prolongs, IsSequence
<1>3. PICK T : d \in Seq(T)
  BY <1>1 DEF Removals, IsSequence
<1>4. PICK U : e \in Seq(U)
  BY DEF Removals, IsSequence
<1> DEFINE W == S \union (T \union U)
<1>5. p \in Seq(W) /\ d \in Seq(W) /\ e \in Seq(W)
  BY <1>2, <1>3, <1>4, SeqMonotonic
<1> HIDE DEF W
<1>6. (p \o d) \o e = p \o (d \o e)
  BY <1>5, ConcatAssociative, SMTT(30)
<1>7. Removals(d \o e)
  BY <1>1, MoreRemovals
<1> QED
  BY <1>1, <1>6, <1>7 DEF Prolongs

LEMMA ProlongsItself ==
    ASSUME NEW p, IsSequence(p)
    PROVE  Prolongs(p, p)
<1>1. PICK S : p \in Seq(S)
  BY DEF IsSequence
<1>2. <<>> \in Seq(S) /\ Len(<<>>) = 0 /\ p \o <<>> = p
  BY <1>1, EmptySeq, ConcatEmptySeq
<1>3. Removals(<<>>)
  BY <1>2 DEF Removals, IsSequence
<1> QED
  BY <1>2, <1>3 DEF Prolongs

\* What is evicted is a sequence of files to remove.
LEMMA EvictIs ==
    ASSUME NEW s, IsFiniteSet(s.listed), NEW f
    PROVE  Removals(Evict(s, f))
<1> DEFINE gone == Oldest(s, f)
           n == Cardinality(gone)
           id(k) == (CHOOSE g \in gone : Cardinality({h \in gone : Older(h, g)}) = k - 1).id
           e == [k \in 1..n |-> Event("file to remove", id(k))]
           S == {Event("file to remove", id(k)) : k \in 1..n}
<1>1. n \in Nat
  <2>1. gone \subseteq s.listed
    BY DEF Oldest, FilesOf
  <2>2. IsFiniteSet(gone)
    BY <2>1, FS_Subset
  <2> QED
    BY <2>2, FS_CardinalityType
<1>2. Evict(s, f) = e
  BY DEF Evict
<1> HIDE DEF n, id
<1>3. e \in [1..n -> S]
  OBVIOUS
<1>4. \A k \in 1..n : e[k].is = "file to remove"
  BY DEF Event
<1> HIDE DEF e, S
<1>5. e \in Seq(S) /\ Len(e) = n
  BY <1>1, <1>3
<1> QED
  BY <1>2, <1>4, <1>5 DEF Removals, IsSequence

(***************************************************************************)
(* One event: what add_file_reference and remove_file_reference change.    *)
(***************************************************************************)
Accounts == account \in [Owners -> {"new", "open", "closed"}]

IsIndex(s) == s = [used |-> s.used, listed |-> s.listed, toBucket |-> s.toBucket, rejected |-> s.rejected]

\* The index is right, and its queue is p with files to remove added.
IndexOK(s, p) == IsIndex(s) /\ Charged(s.listed, s.used) /\ Prolongs(s.toBucket, p)

\* A file refused, one of a blob that its owner has, and one of a new blob
LEMMA AddReferenceKeeps ==
    ASSUME NEW s, NEW p, IndexOK(s, p), NEW f \in FileRecords
    PROVE  LET r == AddReference(s, f)
           IN  /\ IndexOK(r, p)
               /\ s.listed \subseteq r.listed /\ s.rejected \subseteq r.rejected
               /\ f.id \in r.rejected \/ f \in r.listed
<1> DEFINE o == f.owner
           b == f.blob
           fs == s.listed
           gs == fs \union {f}
           r == AddReference(s, f)
<1>1. /\ IsIndex(s) /\ Charged(fs, s.used) /\ Prolongs(s.toBucket, p)
      /\ o \in Owners /\ b \in Blobs
  BY DEF IndexOK, FileRecords
<1>2. CASE account[o] # "open"
  <2>1. r = [s EXCEPT !.rejected = @ \union {f.id}]
    BY <1>2 DEF AddReference
  <2>2. /\ IsIndex(r) /\ r.listed = fs /\ r.used = s.used /\ r.toBucket = s.toBucket
        /\ r.rejected = s.rejected \union {f.id}
    BY <1>1, <2>1 DEF IsIndex
  <2> HIDE DEF r
  <2>3. IndexOK(r, p)
    BY <1>1, <2>2 DEF IndexOK
  <2> QED
    BY <2>2, <2>3 DEF r
<1>3. CASE account[o] = "open"
  <2>1. /\ gs \subseteq FileRecords /\ IsFiniteSet(gs)
        /\ \A g \in gs : account[g.owner] # "new"
    BY <1>1, <1>3, FS_AddElement DEF Charged
  <2>2. ASSUME NEW u, u # o
        PROVE  BlobsOf(gs, u) = BlobsOf(fs, u)
    BY <2>2 DEF BlobsOf
  <2>3. BlobsOf(gs, o) = BlobsOf(fs, o) \union {b}
    BY DEF BlobsOf
  <2>4. OwnsBlob(s, f) <=> b \in BlobsOf(fs, o)
    BY DEF OwnsBlob, BlobsOf, FilesOf
  <2>5. CASE OwnsBlob(s, f)
    <3>1. r = [s EXCEPT !.listed = @ \union {f}]
      BY <1>3, <2>5 DEF AddReference
    <3>2. /\ IsIndex(r) /\ r.listed = gs /\ r.used = s.used /\ r.toBucket = s.toBucket
          /\ r.rejected = s.rejected
      BY <1>1, <3>1 DEF IsIndex
    <3>3. \A u \in Owners : BlobsOf(gs, u) = BlobsOf(fs, u)
      BY <2>2, <2>3, <2>4, <2>5
    <3> HIDE DEF r, gs, fs
    <3>4. Charged(gs, s.used)
      BY <1>1, <2>1, <3>3, SameBlobs
    <3>5. IndexOK(r, p)
      BY <1>1, <3>2, <3>4 DEF IndexOK
    <3> QED
      BY <3>2, <3>5 DEF r, gs, fs
  <2>6. CASE ~OwnsBlob(s, f)
    <3>1. r = [s EXCEPT !.listed = @ \union {f}, !.used[f.owner] = @ + Size[f.blob],
                        !.toBucket = @ \o Evict(s, f)]
      BY <1>3, <2>6 DEF AddReference
    <3>2. /\ IsIndex(r) /\ r.listed = gs /\ r.used = [s.used EXCEPT ![o] = @ + Size[b]]
          /\ r.toBucket = s.toBucket \o Evict(s, f) /\ r.rejected = s.rejected
      BY <1>1, <3>1 DEF IsIndex
    <3>3. b \notin BlobsOf(fs, o)
      BY <2>4, <2>6
    <3>4. IsFiniteSet(s.listed)
      BY <1>1 DEF Charged
    <3>5. Prolongs(r.toBucket, p)
      BY <1>1, <3>2, <3>4, EvictIs, ProlongedMore
    <3> HIDE DEF r, gs, fs, o, b
    <3>6. Charged(gs, [s.used EXCEPT ![o] = @ + Size[b]])
      BY <1>1, <2>1, <2>2, <2>3, <3>3, BlobMore
    <3>7. IndexOK(r, p)
      BY <3>2, <3>5, <3>6 DEF IndexOK
    <3> QED
      BY <3>2, <3>7 DEF r, gs, fs
  <2> QED
    BY <2>5, <2>6
<1> QED
  BY <1>2, <1>3

\* Bytes that are taken back
LEMMA BytesLess ==
    ASSUME NEW s, IsIndex(s), NEW o, NEW k
    PROVE  LET r == [s EXCEPT !.used[o] = @ - k]
           IN  /\ IsIndex(r) /\ r.listed = s.listed /\ r.used = [s.used EXCEPT ![o] = @ - k]
               /\ r.toBucket = s.toBucket /\ r.rejected = s.rejected
BY DEF IsIndex

\* A file that is not listed, one of several of its blob, and the last one
LEMMA RemoveReferenceKeeps ==
    ASSUME Accounts, NEW s, NEW p, IndexOK(s, p), NEW f \in FileRecords
    PROVE  LET r == RemoveReference(s, f)
           IN  /\ IndexOK(r, p)
               /\ r.rejected = s.rejected /\ s.listed \ {f} \subseteq r.listed
<1> DEFINE o == f.owner
           b == f.blob
           fs == s.listed
           gs == fs \ {f}
           less == [s EXCEPT !.listed = @ \ {f}]
           r == RemoveReference(s, f)
<1>1. /\ IsIndex(s) /\ Charged(fs, s.used) /\ Prolongs(s.toBucket, p)
      /\ o \in Owners /\ b \in Blobs
  BY DEF IndexOK, FileRecords
<1>2. CASE f \notin fs
  <2>1. r = s
    BY <1>2 DEF RemoveReference
  <2> QED
    BY <1>1, <2>1
<1>3. CASE f \in fs
  <2>1. /\ IsIndex(less) /\ less.listed = gs /\ less.used = s.used
        /\ less.toBucket = s.toBucket /\ less.rejected = s.rejected
    BY <1>1 DEF IsIndex
  <2>2. /\ gs \subseteq FileRecords /\ IsFiniteSet(gs)
        /\ \A g \in gs : account[g.owner] # "new"
    BY <1>1, FS_Subset DEF Charged
  <2>3. ASSUME NEW u, u # o
        PROVE  BlobsOf(gs, u) = BlobsOf(fs, u)
    BY <2>3 DEF BlobsOf
  <2>4. BlobsOf(fs, o) = BlobsOf(gs, o) \union {b}
    BY <1>3 DEF BlobsOf
  <2>5. OwnsBlob(less, f) <=> b \in BlobsOf(gs, o)
    BY <2>1 DEF OwnsBlob, BlobsOf, FilesOf
  <2>6. account[o] # "new"
    BY <1>1, <1>3 DEF Charged
  <2>7. CASE account[o] # "open" \/ OwnsBlob(less, f)
    <3>1. r = less
      BY <1>3, <2>7 DEF RemoveReference
    <3>2. ASSUME NEW u \in Owners, account[u] # "closed"
          PROVE  BlobsOf(gs, u) = BlobsOf(fs, u)
      <4>1. CASE u = o
        <5>1. account[u] \in {"new", "open", "closed"}
          BY DEF Accounts
        <5> QED
          BY <2>4, <2>5, <2>6, <2>7, <3>2, <4>1, <5>1
      <4> QED
        BY <2>3, <4>1
    <3> HIDE DEF r, gs, fs, o, b, less
    <3>3. Charged(gs, s.used)
      BY <1>1, <2>2, <3>2, SameBlobs
    <3>4. IndexOK(r, p)
      BY <1>1, <2>1, <3>1, <3>3 DEF IndexOK
    <3> QED
      BY <2>1, <3>1, <3>4 DEF r, gs, fs
  <2>8. CASE account[o] = "open" /\ ~OwnsBlob(less, f)
    <3>1. r = [less EXCEPT !.used[f.owner] = @ - Size[f.blob]]
      BY <1>3, <2>8 DEF RemoveReference
    <3>2. /\ IsIndex(r) /\ r.listed = gs /\ r.used = [s.used EXCEPT ![o] = @ - Size[b]]
          /\ r.toBucket = s.toBucket /\ r.rejected = s.rejected
      <4> HIDE DEF r, less, gs
      <4> QED
        BY <2>1, <3>1, BytesLess
    <3>3. b \notin BlobsOf(gs, o)
      BY <2>5, <2>8
    <3> HIDE DEF r, gs, fs, o, b
    <3>4. Charged(gs, [s.used EXCEPT ![o] = @ - Size[b]])
      BY <1>1, <2>2, <2>3, <2>4, <3>3, BlobLess
    <3>5. IndexOK(r, p)
      BY <1>1, <3>2, <3>4 DEF IndexOK
    <3> QED
      BY <3>2, <3>5 DEF r, gs, fs
  <2> QED
    BY <2>7, <2>8
<1> QED
  BY <1>2, <1>3

\* The events of a batch are told one after the other.
LEMMA ToldSteps ==
    ASSUME NEW what, NEW c, NEW S, NEW ev \in Seq(S)
    PROVE  \E a : /\ a[0] = c
                  /\ \A n \in 1..Len(ev) : a[n] = Tell(what, a[n - 1], ev[n])
                  /\ Told(what, ev, c) = a[Len(ev)]
<1> DEFINE l == Len(ev)
           Steps(g, n) == g = [i \in 0..n |-> IF i = 0 THEN c ELSE Tell(what, g[i - 1], ev[i])]
           T == {n \in Nat : \E g : Steps(g, n)}
<1>1. l \in Nat
  OBVIOUS
<1>2. 0 \in T
  <2> DEFINE z == [i \in 0..0 |-> c]
  <2>1. Steps(z, 0)
    OBVIOUS
  <2> HIDE DEF z
  <2> QED
    BY <2>1
<1>3. ASSUME NEW n \in Nat, n \in T
      PROVE  n + 1 \in T
  <2>1. PICK g : Steps(g, n)
    BY <1>3
  <2> DEFINE h == [i \in 0..n + 1 |-> IF i <= n THEN g[i] ELSE Tell(what, g[n], ev[n + 1])]
  <2>2. \A i \in 0..n : h[i] = g[i]
    OBVIOUS
  <2>3. ASSUME NEW i \in 0..n + 1
        PROVE  h[i] = IF i = 0 THEN c ELSE Tell(what, h[i - 1], ev[i])
    <3>1. CASE i = 0
      <4>1. 0 \in 0..n
        OBVIOUS
      <4> QED
        BY <2>1, <2>2, <3>1, <4>1
    <3>2. CASE i \in 1..n
      <4>1. i \in 0..n /\ i - 1 \in 0..n /\ i # 0
        BY <3>2
      <4>2. g[i] = Tell(what, g[i - 1], ev[i])
        BY <2>1, <4>1
      <4> HIDE DEF h
      <4> QED
        BY <2>2, <4>1, <4>2
    <3>3. CASE i = n + 1
      <4>1. n \in 0..n /\ i - 1 = n /\ i # 0 /\ h[i] = Tell(what, g[n], ev[n + 1])
        BY <3>3
      <4> HIDE DEF h
      <4> QED
        BY <2>2, <3>3, <4>1
    <3> QED
      BY <3>1, <3>2, <3>3
  <2>4. Steps(h, n + 1)
    BY <2>3
  <2>5. \E z : Steps(z, n + 1)
    <3> HIDE DEF h, Steps
    <3> QED
      BY <2>4
  <2> HIDE DEF Steps
  <2> QED
    BY <2>5
<1> HIDE DEF T
<1>4. l \in T
  BY <1>1, <1>2, <1>3, NatSetInduction
<1> DEFINE a == CHOOSE g : Steps(g, l)
<1>5. Steps(a, l)
  BY <1>4 DEF T
<1>6. Told(what, ev, c) = a[l]
  BY DEF Told
<1> HIDE DEF a
<1>7. a[0] = c
  BY <1>1, <1>5
<1>8. ASSUME NEW n \in 1..l
      PROVE  a[n] = Tell(what, a[n - 1], ev[n])
  BY <1>1, <1>5
<1> QED
  BY <1>6, <1>7, <1>8

\* What is known after the first n events of ev, of which the added files, or
\* the removed ones, were told to the index s.
Accepted(r, s, p, ev, n) ==
    /\ IndexOK(r, p)
    /\ s.listed \subseteq r.listed /\ s.rejected \subseteq r.rejected
    /\ \A i \in 1..n : ev[i].is = "added" => ev[i].file.id \in r.rejected \/ ev[i].file \in r.listed

Dropped(r, s, p, ev, n) ==
    /\ IndexOK(r, p) /\ r.rejected = s.rejected
    /\ \A f \in s.listed : f \notin r.listed => \E i \in 1..n : ev[i].is = "removed" /\ ev[i].file = f

LEMMA AcceptedMore ==
    ASSUME NEW s, NEW p, NEW r, NEW ev, NEW n \in Nat, Accepted(r, s, p, ev, n),
           ev[n + 1] \in FileEvents
    PROVE  Accepted(Tell("added", r, ev[n + 1]), s, p, ev, n + 1)
<1> DEFINE e == ev[n + 1]
           t == Tell("added", r, e)
<1>1. e.file \in FileRecords
  BY DEF FileEvents
<1>2. /\ IndexOK(t, p)
      /\ r.listed \subseteq t.listed /\ r.rejected \subseteq t.rejected
      /\ e.is = "added" => e.file.id \in t.rejected \/ e.file \in t.listed
  <2>1. CASE e.is = "added"
    <3>1. t = AddReference(r, e.file)
      BY <2>1 DEF Tell
    <3> HIDE DEF e
    <3> QED
      BY <1>1, <3>1, AddReferenceKeeps DEF Accepted
  <2>2. CASE e.is # "added"
    <3>1. t = r
      BY <2>2 DEF Tell
    <3> QED
      BY <2>2, <3>1 DEF Accepted
  <2> QED
    BY <2>1, <2>2
<1> HIDE DEF t
<1>3. ASSUME NEW i \in 1..n + 1, ev[i].is = "added"
      PROVE  ev[i].file.id \in t.rejected \/ ev[i].file \in t.listed
  <2>1. CASE i = n + 1
    BY <1>2, <1>3, <2>1
  <2>2. CASE i # n + 1
    <3>1. i \in 1..n
      BY <2>2
    <3>2. ev[i].file.id \in r.rejected \/ ev[i].file \in r.listed
      BY <1>3, <3>1 DEF Accepted
    <3> QED
      BY <1>2, <3>2
  <2> QED
    BY <2>1, <2>2
<1>4. s.listed \subseteq t.listed /\ s.rejected \subseteq t.rejected
  BY <1>2 DEF Accepted
<1>5. Accepted(t, s, p, ev, n + 1)
  BY <1>2, <1>3, <1>4 DEF Accepted
<1> QED
  BY <1>5 DEF t

LEMMA DroppedMore ==
    ASSUME Accounts, NEW s, NEW p, NEW r, NEW ev, NEW n \in Nat, Dropped(r, s, p, ev, n),
           ev[n + 1] \in FileEvents
    PROVE  Dropped(Tell("removed", r, ev[n + 1]), s, p, ev, n + 1)
<1> DEFINE e == ev[n + 1]
           t == Tell("removed", r, e)
<1>1. e.file \in FileRecords /\ n + 1 \in 1..n + 1 /\ \A i \in 1..n : i \in 1..n + 1
  BY DEF FileEvents
<1>2. /\ IndexOK(t, p) /\ t.rejected = r.rejected
      /\ \A f \in r.listed : f \notin t.listed => e.is = "removed" /\ e.file = f
  <2>1. CASE e.is = "removed"
    <3>1. t = RemoveReference(r, e.file)
      BY <2>1 DEF Tell
    <3> HIDE DEF e, t
    <3>2. IndexOK(t, p) /\ t.rejected = r.rejected /\ r.listed \ {e.file} \subseteq t.listed
      BY <1>1, <3>1, RemoveReferenceKeeps DEF Dropped
    <3> QED
      BY <2>1, <3>2
  <2>2. CASE e.is # "removed"
    <3>1. t = r
      BY <2>2 DEF Tell
    <3> QED
      BY <3>1 DEF Dropped
  <2> QED
    BY <2>1, <2>2
<1> HIDE DEF t
<1>3. ASSUME NEW f \in s.listed, f \notin t.listed
      PROVE  \E i \in 1..n + 1 : ev[i].is = "removed" /\ ev[i].file = f
  <2>1. CASE f \in r.listed
    BY <1>1, <1>2, <1>3, <2>1
  <2>2. CASE f \notin r.listed
    <3>1. PICK i \in 1..n : ev[i].is = "removed" /\ ev[i].file = f
      BY <2>2 DEF Dropped
    <3> QED
      BY <1>1, <3>1
  <2> QED
    BY <2>1, <2>2
<1>4. t.rejected = s.rejected
  BY <1>2 DEF Dropped
<1>5. Dropped(t, s, p, ev, n + 1)
  BY <1>2, <1>3, <1>4 DEF Dropped
<1> QED
  BY <1>5 DEF t

\* What the index knows of the added files of a batch.
LEMMA BatchAccepted ==
    ASSUME NEW s, NEW p, IndexOK(s, p), NEW ev \in Seq(FileEvents)
    PROVE  Accepted(Told("added", ev, s), s, p, ev, Len(ev))
<1> DEFINE l == Len(ev)
<1>1. PICK a : /\ a[0] = s
               /\ \A n \in 1..l : a[n] = Tell("added", a[n - 1], ev[n])
               /\ Told("added", ev, s) = a[l]
  BY ToldSteps
<1>2. l \in Nat /\ \A n \in 1..l : ev[n] \in FileEvents
  OBVIOUS
<1> HIDE DEF l
<1> DEFINE T == {n \in Nat : n <= l => Accepted(a[n], s, p, ev, n)}
<1>3. 0 \in T
  BY <1>1 DEF Accepted
<1>4. ASSUME NEW n \in Nat, n \in T
      PROVE  n + 1 \in T
  <2> SUFFICES ASSUME n + 1 <= l
               PROVE  Accepted(a[n + 1], s, p, ev, n + 1)
    OBVIOUS
  <2>1. n <= l /\ n + 1 \in 1..l /\ (n + 1) - 1 = n
    BY <1>2
  <2>2. a[n + 1] = Tell("added", a[n], ev[n + 1]) /\ ev[n + 1] \in FileEvents
    BY <1>1, <1>2, <2>1
  <2>3. Accepted(a[n], s, p, ev, n)
    BY <1>4, <2>1
  <2> QED
    BY <2>2, <2>3, AcceptedMore
<1>5. l \in T
  <2> HIDE DEF T
  <2> QED
    BY <1>2, <1>3, <1>4, NatSetInduction
<1>6. Accepted(a[l], s, p, ev, l)
  BY <1>2, <1>5
<1> QED
  BY <1>1, <1>6 DEF l

\* Only the removed files of a batch go.
LEMMA BatchDropped ==
    ASSUME Accounts, NEW s, NEW p, IndexOK(s, p), NEW ev \in Seq(FileEvents)
    PROVE  Dropped(Told("removed", ev, s), s, p, ev, Len(ev))
<1> DEFINE l == Len(ev)
<1>1. PICK a : /\ a[0] = s
               /\ \A n \in 1..l : a[n] = Tell("removed", a[n - 1], ev[n])
               /\ Told("removed", ev, s) = a[l]
  BY ToldSteps
<1>2. l \in Nat /\ \A n \in 1..l : ev[n] \in FileEvents
  OBVIOUS
<1> HIDE DEF l
<1> DEFINE T == {n \in Nat : n <= l => Dropped(a[n], s, p, ev, n)}
<1>3. 0 \in T
  BY <1>1 DEF Dropped
<1>4. ASSUME NEW n \in Nat, n \in T
      PROVE  n + 1 \in T
  <2> SUFFICES ASSUME n + 1 <= l
               PROVE  Dropped(a[n + 1], s, p, ev, n + 1)
    OBVIOUS
  <2>1. n <= l /\ n + 1 \in 1..l /\ (n + 1) - 1 = n
    BY <1>2
  <2>2. a[n + 1] = Tell("removed", a[n], ev[n + 1]) /\ ev[n + 1] \in FileEvents
    BY <1>1, <1>2, <2>1
  <2>3. Dropped(a[n], s, p, ev, n)
    BY <1>4, <2>1
  <2> QED
    BY <2>2, <2>3, DroppedMore
<1>5. l \in T
  <2> HIDE DEF T
  <2> QED
    BY <1>2, <1>3, <1>4, NatSetInduction
<1>6. Dropped(a[l], s, p, ev, l)
  BY <1>2, <1>5
<1> QED
  BY <1>1, <1>6 DEF l

(***************************************************************************)
(* The charges of the index.                                               *)
(***************************************************************************)
IndexInv ==
    /\ StorageInv /\ Accounts
    /\ pendingFiles \union files \subseteq FileRecords
    /\ toIndex \in Seq(FileEvents) /\ IsSequence(toBucket)
    /\ Charged(listed, used)

\* The rest of a queue after its first n elements
LEMMA RestOf ==
    ASSUME NEW S, NEW q \in Seq(S), NEW n \in 1..Len(q)
    PROVE  /\ SubSeq(q, 1, n) \in Seq(S) /\ Len(SubSeq(q, 1, n)) = n
           /\ \A i \in 1..n : SubSeq(q, 1, n)[i] = q[i]
           /\ SubSeq(q, n + 1, Len(q)) \in Seq(S)
           /\ Len(SubSeq(q, n + 1, Len(q))) = Len(q) - n
           /\ \A i \in 1..Len(q) - n : SubSeq(q, n + 1, Len(q))[i] = q[i + n]
<1> DEFINE l == Len(q)
           a == SubSeq(q, 1, n)
           b == SubSeq(q, n + 1, l)
<1>1. l \in Nat /\ n \in Nat /\ n <= l /\ n >= 1
  OBVIOUS
<1>2. a \in Seq(S) /\ Len(a) = n /\ \A i \in 1..n : a[i] = q[i]
  OBVIOUS
<1>3. b \in Seq(S) /\ Len(b) = l - n
  OBVIOUS
<1>4. \A i \in 1..l - n : b[i] = q[i + n]
  <2> SUFFICES ASSUME NEW i \in 1..l - n
               PROVE  b[i] = q[i + n]
    OBVIOUS
  <2>1. b[i] = q[(n + 1) + i - 1] /\ (n + 1) + i - 1 = i + n
    BY <1>1
  <2> QED
    BY <2>1
<1> QED
  BY <1>2, <1>3, <1>4

\* One event more
LEMMA OneMore ==
    ASSUME NEW S, NEW q \in Seq(S), NEW e
    PROVE  /\ e \in S => Append(q, e) \in Seq(S)
           /\ Len(Append(q, e)) = Len(q) + 1 /\ Append(q, e)[Len(q) + 1] = e
           /\ \A i \in 1..Len(q) : Append(q, e)[i] = q[i]
  OBVIOUS

LEMMA StillSequence ==
    ASSUME NEW q, IsSequence(q)
    PROVE  /\ \A e : IsSequence(Append(q, e))
           /\ \A n \in 1..Len(q) : IsSequence(SubSeq(q, n + 1, Len(q)))
<1>1. PICK S : q \in Seq(S)
  BY DEF IsSequence
<1>2. ASSUME NEW e
      PROVE  IsSequence(Append(q, e))
  <2>1. q \in Seq(S \union {e})
    BY <1>1, SeqMonotonic
  <2>2. e \in S \union {e}
    OBVIOUS
  <2>3. Append(q, e) \in Seq(S \union {e})
    BY <2>1, <2>2, OneMore
  <2> QED
    BY <2>3 DEF IsSequence
<1>3. ASSUME NEW n \in 1..Len(q)
      PROVE  IsSequence(SubSeq(q, n + 1, Len(q)))
  <2>1. SubSeq(q, n + 1, Len(q)) \in Seq(S)
    BY <1>1, RestOf
  <2> QED
    BY <2>1 DEF IsSequence
<1> QED
  BY <1>2, <1>3

\* What a batch changes in the index: it knows the added files, or refuses
\* them, and only removed files go.
LEMMA BatchHeard ==
    ASSUME IndexInv, NEW n \in 1..Len(toIndex), SyncBucket(n)
    PROVE  /\ Charged(listed', used') /\ Prolongs(toBucket', toBucket)
           /\ \A i \in 1..n : toIndex[i].is = "added" =>
                \/ toIndex[i].file.id \in rejected'
                \/ toIndex[i].file \in listed'
                \/ \E j \in 1..n : toIndex[j].is = "removed" /\ toIndex[j].file = toIndex[i].file
           /\ \A f \in listed : f \notin listed' =>
                \E j \in 1..n : toIndex[j].is = "removed" /\ toIndex[j].file = f
<1> DEFINE ev == SubSeq(toIndex, 1, n)
           s == [used |-> used, listed |-> listed, toBucket |-> toBucket, rejected |-> {}]
           r == Told("added", ev, s)
           t == Told("removed", ev, r)
<1>1. /\ ev \in Seq(FileEvents) /\ Len(ev) = n /\ \A i \in 1..n : ev[i] = toIndex[i]
  BY RestOf DEF IndexInv
<1>2. Accounts /\ IsSequence(toBucket) /\ Charged(listed, used)
  BY DEF IndexInv
<1>3. IsIndex(s) /\ s.used = used /\ s.listed = listed /\ s.toBucket = toBucket
  BY DEF IsIndex
<1>4. used' = t.used /\ listed' = t.listed /\ toBucket' = t.toBucket /\ rejected' = t.rejected
  BY DEF SyncBucket
<1> HIDE DEF s, ev
<1>5. IndexOK(s, toBucket)
  BY <1>2, <1>3, ProlongsItself DEF IndexOK
<1>6. Accepted(r, s, toBucket, ev, n)
  BY <1>1, <1>5, BatchAccepted
<1>7. IndexOK(r, toBucket)
  BY <1>6 DEF Accepted
<1>8. Dropped(t, r, toBucket, ev, n)
  BY <1>1, <1>2, <1>7, BatchDropped
<1> HIDE DEF r, t
<1>9. Charged(listed', used') /\ Prolongs(toBucket', toBucket)
  BY <1>4, <1>8 DEF Dropped, IndexOK
<1>10. ASSUME NEW f \in r.listed, f \notin listed'
       PROVE  \E j \in 1..n : toIndex[j].is = "removed" /\ toIndex[j].file = f
  BY <1>1, <1>4, <1>8, <1>10 DEF Dropped
<1>11. ASSUME NEW i \in 1..n, toIndex[i].is = "added"
       PROVE  toIndex[i].file.id \in rejected' \/ toIndex[i].file \in r.listed
  BY <1>1, <1>4, <1>6, <1>8, <1>11 DEF Accepted, Dropped
<1>12. listed \subseteq r.listed
  BY <1>3, <1>6 DEF Accepted
<1> QED
  BY <1>9, <1>10, <1>11, <1>12

LEMMA IndexInitially == StorageInit => IndexInv
<1> SUFFICES ASSUME StorageInit
             PROVE  IndexInv
  OBVIOUS
<1>1. /\ pendingFiles = {} /\ files = {} /\ toIndex = <<>> /\ listed = {} /\ toBucket = <<>>
      /\ account = [u \in Owners |-> "new"] /\ used = [u \in Owners |-> 0]
  BY DEF StorageInit
<1>2. Accounts
  BY <1>1 DEF Accounts
<1>3. toIndex \in Seq(FileEvents) /\ IsSequence(toBucket)
  BY <1>1, EmptySeq DEF IsSequence
<1>4. \A u : BlobsOf({}, u) = {}
  BY DEF BlobsOf
<1>5. Charged(listed, used)
  <2>1. IsFiniteSet({}) /\ SumFunctionOnSet(Size, {}) = 0
    BY FS_EmptySet, SumEmpty
  <2>2. used \in [Owners -> Int] /\ \A u \in Owners : used[u] = 0
    BY <1>1
  <2>3. listed \subseteq FileRecords /\ \A f \in listed : FALSE
    BY <1>1
  <2>4. \A u \in Owners : used[u] = SumFunctionOnSet(Size, BlobsOf(listed, u))
    BY <1>1, <1>4, <2>1, <2>2
  <2> QED
    BY <1>1, <2>1, <2>2, <2>3, <2>4 DEF Charged
<1> QED
  BY <1>1, <1>2, <1>3, <1>5, StorageInitially DEF IndexInv

\* The records and events of the bucket
LEMMA FilesTyped ==
    ASSUME IndexInv, [StorageNext]_storageVars
    PROVE  /\ (pendingFiles \union files \subseteq FileRecords)'
           /\ toIndex' \in Seq(FileEvents)
<1>1. /\ pendingFiles \union files \subseteq FileRecords /\ toIndex \in Seq(FileEvents)
      /\ created \in Nat
  BY DEF IndexInv, StorageInv, FilesKnown
<1>2. \A f \in FileRecords : FileAdded(f) \in FileEvents /\ FileRemoved(f) \in FileEvents
  BY DEF FileAdded, FileRemoved, FileEvents
<1>3. ASSUME NEW u \in Owners, NEW b \in Blobs
      PROVE  NewFile(u, b) \in FileRecords
  BY <1>1 DEF NewFile, FileRecords
<1>4. ASSUME NEW u \in Owners, AddUser(u) \/ RemoveUser(u)
      PROVE  UNCHANGED <<pendingFiles, files, toIndex>>
  BY <1>4 DEF AddUser, RemoveUser, bucketVars
<1>5. ASSUME NEW u \in Owners, NEW b \in Blobs, Upload(u, b)
      PROVE  /\ (pendingFiles \union files \subseteq FileRecords)'
             /\ toIndex' \in Seq(FileEvents)
  <2> DEFINE f == NewFile(u, b)
  <2>1. /\ pendingFiles' \subseteq pendingFiles \union {f} /\ files' \subseteq files \union {f}
        /\ toIndex' = Append(toIndex, FileAdded(f))
    BY <1>5 DEF Upload, Insert
  <2>2. f \in FileRecords
    BY <1>3
  <2> HIDE DEF f
  <2> QED
    BY <1>1, <1>2, <2>1, <2>2
<1>6. ASSUME NEW f \in pendingFiles, LastChunk(f) \/ HashMismatch(f) \/ PendingDropped(f)
      PROVE  /\ (pendingFiles \union files \subseteq FileRecords)'
             /\ toIndex' \in Seq(FileEvents)
  <2>1. /\ pendingFiles' \subseteq pendingFiles /\ files' \subseteq files \union {f}
        /\ toIndex' \in {toIndex, Append(toIndex, FileRemoved(f))}
    BY <1>6 DEF LastChunk, Insert, HashMismatch, PendingDropped
  <2>2. f \in FileRecords
    BY <1>1
  <2> QED
    BY <1>1, <1>2, <2>1, <2>2
<1>7. ASSUME NEW f \in files, Delete(f)
      PROVE  /\ (pendingFiles \union files \subseteq FileRecords)'
             /\ toIndex' \in Seq(FileEvents)
  <2>1. /\ pendingFiles' = pendingFiles /\ files' \subseteq files
        /\ toIndex' = Append(toIndex, FileRemoved(f))
    BY <1>7 DEF Delete, RemoveFiles
  <2>2. f \in FileRecords
    BY <1>1
  <2> QED
    BY <1>1, <1>2, <2>1, <2>2
<1>8. ASSUME NEW f \in files, NEW u \in Owners, Forward(u, f)
      PROVE  /\ (pendingFiles \union files \subseteq FileRecords)'
             /\ toIndex' \in Seq(FileEvents)
  <2> DEFINE g == NewFile(u, f.blob)
             e == [f EXCEPT !.id = created + 1]
  <2>1. /\ pendingFiles' = pendingFiles /\ files' = files \union {g}
        /\ toIndex' = Append(toIndex, FileAdded(e))
    BY <1>8 DEF Forward
  <2>2. f \in FileRecords
    BY <1>1
  <2>3. f.blob \in Blobs /\ e \in FileRecords
    BY <1>1, <2>2 DEF FileRecords
  <2>4. g \in FileRecords
    BY <1>3, <2>3
  <2> HIDE DEF g, e
  <2> QED
    BY <1>1, <1>2, <2>1, <2>3, <2>4
<1>9. ASSUME NEW n \in 1..Len(toIndex), SyncBucket(n)
      PROVE  UNCHANGED <<pendingFiles, files>> /\ toIndex' \in Seq(FileEvents)
  <2>1. UNCHANGED <<pendingFiles, files>> /\ toIndex' = SubSeq(toIndex, n + 1, Len(toIndex))
    BY <1>9 DEF SyncBucket, bucketVars
  <2> QED
    BY <1>1, <2>1, RestOf
<1>10. ASSUME NEW n \in 1..Len(toBucket), SyncIndex(n)
       PROVE  files' \subseteq files /\ UNCHANGED <<pendingFiles, toIndex>>
  BY <1>10 DEF SyncIndex, RemoveFiles
<1>11. CASE DropRejected
  <2>1. files' \subseteq files /\ pendingFiles' \subseteq pendingFiles /\ toIndex' = toIndex
    BY <1>11 DEF DropRejected, RemoveFiles
  <2> QED
    BY <1>1, <2>1
<1>12. CASE UNCHANGED storageVars
  BY <1>1, <1>12 DEF storageVars, bucketVars
<1> QED
  BY <1>1, <1>4, <1>5, <1>6, <1>7, <1>8, <1>9, <1>10, <1>11, <1>12 DEF StorageNext

\* The bytes of the users and the queue to the bucket
LEMMA ChargesKept ==
    ASSUME IndexInv, [StorageNext]_storageVars
    PROVE  Accounts' /\ IsSequence(toBucket') /\ Charged(listed, used)'
<1>1. Accounts /\ IsSequence(toBucket) /\ Charged(listed, used)
  BY DEF IndexInv
<1>2. ASSUME UNCHANGED <<account, used, listed>>
      PROVE  Accounts' /\ Charged(listed, used)'
  BY <1>1, <1>2 DEF Accounts, Charged
<1>3. ASSUME UNCHANGED indexVars
      PROVE  Accounts' /\ IsSequence(toBucket') /\ Charged(listed, used)'
  BY <1>1, <1>2, <1>3 DEF indexVars
<1>4. ASSUME NEW u \in Owners, AddUser(u) \/ RemoveUser(u)
      PROVE  Accounts' /\ IsSequence(toBucket') /\ Charged(listed, used)'
  <2>1. /\ UNCHANGED <<used, listed>> /\ \E e : toBucket' = Append(toBucket, e)
        /\ \/ account[u] = "new" /\ account' = [account EXCEPT ![u] = "open"]
           \/ account[u] = "open" /\ account' = [account EXCEPT ![u] = "closed"]
    BY <1>4 DEF AddUser, RemoveUser
  <2>2. Accounts'
    BY <1>1, <2>1 DEF Accounts
  <2>3. \A v \in Owners : /\ account[v] # "new" => account'[v] # "new"
                          /\ account'[v] # "closed" => account[v] # "closed"
    BY <1>1, <2>1 DEF Accounts
  <2>4. \A f \in listed : f.owner \in Owners
    BY <1>1 DEF Charged, FileRecords
  <2>5. Charged(listed, used)'
    BY <1>1, <2>1, <2>3, <2>4 DEF Charged
  <2> QED
    BY <1>1, <2>1, <2>2, <2>5, StillSequence
<1>5. ASSUME NEW n \in 1..Len(toIndex), SyncBucket(n)
      PROVE  Accounts' /\ IsSequence(toBucket') /\ Charged(listed, used)'
  <2>1. Charged(listed', used') /\ Prolongs(toBucket', toBucket)
    BY <1>5, BatchHeard
  <2>2. account' = account
    BY <1>5 DEF SyncBucket
  <2>3. IsSequence(toBucket')
    <3>1. PICK e : Removals(e) /\ toBucket' = toBucket \o e
      BY <2>1 DEF Prolongs
    <3> QED
      BY <1>1, <3>1, Joined DEF Removals
  <2> QED
    BY <1>1, <2>1, <2>2, <2>3 DEF Charged, Accounts
<1>6. ASSUME NEW n \in 1..Len(toBucket), SyncIndex(n)
      PROVE  Accounts' /\ IsSequence(toBucket') /\ Charged(listed, used)'
  <2>1. UNCHANGED <<account, used, listed>> /\ toBucket' = SubSeq(toBucket, n + 1, Len(toBucket))
    BY <1>6 DEF SyncIndex
  <2> QED
    BY <1>1, <1>2, <2>1, StillSequence
<1>7. CASE \E f \in pendingFiles : LastChunk(f) \/ HashMismatch(f) \/ PendingDropped(f)
  BY <1>3, <1>7 DEF LastChunk, HashMismatch, PendingDropped
<1>8. CASE \E f \in files : Delete(f) \/ \E u \in Owners : Forward(u, f)
  BY <1>3, <1>8 DEF Delete, Forward
<1>9. CASE \E u \in Owners, b \in Blobs : Upload(u, b)
  BY <1>3, <1>9 DEF Upload
<1>10. CASE DropRejected
  BY <1>3, <1>10 DEF DropRejected
<1>11. CASE UNCHANGED storageVars
  BY <1>3, <1>11 DEF storageVars
<1> QED
  BY <1>4, <1>5, <1>6, <1>7, <1>8, <1>9, <1>10, <1>11 DEF StorageNext

LEMMA IndexStep == IndexInv /\ [StorageNext]_storageVars => IndexInv'
<1> SUFFICES ASSUME IndexInv, [StorageNext]_storageVars
             PROVE  IndexInv'
  OBVIOUS
<1>1. StorageInv'
  BY StorageStep DEF IndexInv
<1> QED
  BY <1>1, FilesTyped, ChargesKept DEF IndexInv

\* A user is charged for each blob among the own listed files, once, in
\* whichever batches the index hears of uploads and deletions, and whatever it
\* evicts for them.
THEOREM StorageChargedOnce == StorageSpec => []ChargedOnce
<1>1. StorageSpec => []IndexInv
  BY IndexInitially, IndexStep, PTL DEF StorageSpec
<1>2. IndexInv => ChargedOnce
  <2> SUFFICES ASSUME IndexInv, NEW u \in Owners, account[u] = "open"
               PROVE  used[u] = SumFunctionOnSet(Size, BlobsOf(listed, u))
    BY DEF ChargedOnce, BlobsOf
  <2> QED
    BY DEF IndexInv, Charged
<1> QED
  BY <1>1, <1>2, PTL

(***************************************************************************)
(* Users and files, seen from both canisters.                              *)
(***************************************************************************)
At(q, i, what, about) == i \in 1..Len(q) /\ q[i].is = what /\ q[i].about = about
Adds(q, i, u) == At(q, i, "user added", u)
Removes(q, i, u) == At(q, i, "user removed", u)

\* The bucket heard of the user.
Settled(u) == account[u] # "new" /\ \A i \in Nat : ~Adds(toBucket, i, u)

\* A user is added once, before the removal, of which the bucket hears.
UserOK(u) ==
    /\ u \in known => Settled(u)
    /\ \A i, j \in Nat : Adds(toBucket, i, u) /\ Adds(toBucket, j, u) => i = j
    /\ \A i \in Nat : Adds(toBucket, i, u) => account[u] # "new"
    /\ u \in known /\ account[u] # "open" => \E j \in Nat : Removes(toBucket, j, u)
    /\ \A i \in Nat : Adds(toBucket, i, u) /\ account[u] # "open" =>
          \E j \in Nat : Removes(toBucket, j, u) /\ i < j

UsersInv == \A u \in Owners : UserOK(u)

\* The index has heard of the file, hears of it, or has refused it.
EventsToIndex == ToSet(toIndex)

Noted(f) ==
    \/ \E e \in EventsToIndex : e.is = "added" /\ e.file.id = f.id
    \/ f.id \in rejected
    \/ \E g \in listed : g.id = f.id

Present == pendingFiles \union files

FilesInv ==
    /\ \A f, g \in Present : f.id = g.id => f = g
    /\ \A f \in files : f.owner \in known
    /\ \A f \in pendingFiles : Settled(f.owner)
    /\ \A e \in EventsToIndex : e.file.id \in 1..created
    /\ \A e \in EventsToIndex, f \in Present : e.is = "removed" => f.id # e.file.id
    /\ \A f \in Present : f.owner \in known => Noted(f)

AccountsInv == IndexInv /\ UsersInv /\ FilesInv

\* Where the events of a longer queue are
LEMMA AtAppended ==
    ASSUME NEW q, IsSequence(q), NEW e, NEW i \in Nat, NEW what, NEW about
    PROVE  At(Append(q, e), i, what, about) <=>
             At(q, i, what, about) \/ (i = Len(q) + 1 /\ e.is = what /\ e.about = about)
<1>1. PICK S : q \in Seq(S)
  BY DEF IsSequence
<1> DEFINE r == Append(q, e)
           l == Len(q)
           m == Len(r)
<1>2. m = l + 1 /\ l \in Nat /\ r[l + 1] = e /\ \A k \in 1..l : r[k] = q[k]
  BY <1>1, OneMore
<1> HIDE DEF r, l, m
<1>3. CASE i = l + 1
  <2>1. i \in 1..m /\ i \notin 1..l /\ r[i] = e
    BY <1>2, <1>3
  <2> QED
    BY <1>3, <2>1 DEF At, l, m, r
<1>4. CASE i # l + 1
  <2>1. i \in 1..m <=> i \in 1..l
    BY <1>2, <1>4
  <2>2. i \in 1..l => r[i] = q[i]
    BY <1>2
  <2> QED
    BY <1>4, <2>1, <2>2 DEF At, l, m, r
<1> QED
  BY <1>3, <1>4

LEMMA AtProlonged ==
    ASSUME NEW q, NEW r, Prolongs(r, q), NEW i \in Nat, NEW u
    PROVE  (Adds(r, i, u) <=> Adds(q, i, u)) /\ (Removes(r, i, u) <=> Removes(q, i, u))
<1>1. PICK e : Removals(e) /\ r = q \o e
  BY DEF Prolongs
<1>2. IsSequence(q) /\ IsSequence(e)
  BY <1>1 DEF Prolongs, Removals
<1> DEFINE l == Len(q)
           m == Len(r)
           n == Len(e)
<1>3. /\ m = l + n /\ l \in Nat /\ n \in Nat
      /\ \A k \in 1..l : r[k] = q[k]
      /\ \A k \in 1..n : r[l + k] = e[k]
  <2> DEFINE d == q \o e
  <2>1. /\ Len(d) = l + n /\ l \in Nat /\ n \in Nat
        /\ \A k \in 1..l : d[k] = q[k]
        /\ \A k \in 1..n : d[l + k] = e[k]
    BY <1>2, Joined
  <2>2. r = d
    BY <1>1
  <2> HIDE DEF d, l, n
  <2> QED
    BY <2>1, <2>2
<1>4. \A k \in 1..n : e[k].is = "file to remove"
  BY <1>1 DEF Removals
<1> HIDE DEF l, m, n
<1>7. m = l + n /\ l \in Nat /\ n \in Nat
  BY <1>3
<1>5. CASE i <= l
  <2>1. i \in 1..m <=> i \in 1..l
    BY <1>5, <1>7
  <2>2. i \in 1..l => r[i] = q[i]
    BY <1>3
  <2> QED
    BY <2>1, <2>2 DEF Adds, Removes, At, l, m
<1>6. CASE i > l
  <2>1. i \notin 1..l
    BY <1>6, <1>7
  <2>2. i \in 1..m => i - l \in 1..n /\ l + (i - l) = i
    BY <1>6, <1>7
  <2>3. i \in 1..m => r[i].is = "file to remove"
    BY <1>3, <1>4, <2>2
  <2> QED
    BY <2>1, <2>3 DEF Adds, Removes, At, l, m
<1> QED
  BY <1>5, <1>6, <1>7

\* Where the events of the rest of a queue are, and those of its beginning
LEMMA AtRest ==
    ASSUME NEW q, IsSequence(q), NEW n \in 1..Len(q), NEW i \in Nat, NEW what, NEW about
    PROVE  At(SubSeq(q, n + 1, Len(q)), i, what, about) <=> i > 0 /\ At(q, i + n, what, about)
<1>1. PICK S : q \in Seq(S)
  BY DEF IsSequence
<1> DEFINE r == SubSeq(q, n + 1, Len(q))
           l == Len(q)
           m == Len(r)
<1>2. m = l - n /\ l \in Nat /\ n \in 1..l /\ \A k \in 1..l - n : r[k] = q[k + n]
  BY <1>1, RestOf
<1> HIDE DEF r, l, m
<1>3. i \in 1..m <=> i > 0 /\ i + n \in 1..l
  BY <1>2
<1>4. i \in 1..m => r[i] = q[i + n]
  BY <1>2
<1> QED
  BY <1>3, <1>4 DEF At, l, m, r

LEMMA SaidAt ==
    ASSUME NEW q, IsSequence(q), NEW n \in 1..Len(q), NEW what, NEW about
    PROVE  about \in Said(what, SubSeq(q, 1, n)) <=> \E i \in Nat : i <= n /\ At(q, i, what, about)
<1>1. PICK S : q \in Seq(S)
  BY DEF IsSequence
<1> DEFINE b == SubSeq(q, 1, n)
           l == Len(q)
<1>2. Len(b) = n /\ b \in Seq(S) /\ l \in Nat /\ n \in 1..l /\ \A i \in 1..n : b[i] = q[i]
  BY <1>1, RestOf
<1> HIDE DEF b
<1>3. \A e : e \in ToSet(b) <=> \E i \in 1..n : q[i] = e
  BY <1>2 DEF ToSet
<1>4. about \in Said(what, b) <=> \E e \in ToSet(b) : e.is = what /\ e.about = about
  BY DEF Said
<1>5. about \in Said(what, b) <=> \E i \in 1..n : q[i].is = what /\ q[i].about = about
  BY <1>3, <1>4
<1> HIDE DEF l
<1>6. \A i : i \in 1..n <=> i \in Nat /\ i <= n /\ i \in 1..l
  BY <1>2
<1> QED
  BY <1>5, <1>6 DEF At, b, l

\* What the queue says of users, in another queue of the same user events
LEMMA SameUserEvents ==
    ASSUME UsersInv, UNCHANGED <<known, account>>,
           \A i \in Nat, u \in Owners :
              /\ Adds(toBucket', i, u) <=> Adds(toBucket, i, u)
              /\ Removes(toBucket', i, u) <=> Removes(toBucket, i, u)
    PROVE  UsersInv' /\ \A u \in Owners : Settled(u) => Settled(u)'
<1>1. ASSUME NEW u \in Owners
      PROVE  UserOK(u)' /\ (Settled(u) => Settled(u)')
  <2>1. UserOK(u) /\ known' = known /\ account' = account
    BY DEF UsersInv
  <2>2. Settled(u)' <=> Settled(u)
    BY <2>1 DEF Settled
  <2> QED
    BY <2>1, <2>2 DEF UserOK
<1> QED
  BY <1>1 DEF UsersInv

\* A user is added.
LEMMA AddUserKeeps ==
    ASSUME IndexInv, UsersInv, NEW u \in Owners, AddUser(u)
    PROVE  UsersInv' /\ \A v \in Owners : Settled(v) => Settled(v)'
<1>1. /\ account[u] = "new" /\ account' = [account EXCEPT ![u] = "open"]
      /\ toBucket' = Append(toBucket, Event("user added", u)) /\ known' = known
  BY DEF AddUser, bucketVars
<1>2. Accounts /\ IsSequence(toBucket)
  BY DEF IndexInv
<1>3. account'[u] = "open" /\ \A v \in Owners : v # u => account'[v] = account[v]
  BY <1>1, <1>2 DEF Accounts
<1> DEFINE l == Len(toBucket)
<1>4. ASSUME NEW i \in Nat, NEW v
      PROVE  /\ Adds(toBucket', i, v) <=> Adds(toBucket, i, v) \/ (i = l + 1 /\ u = v)
             /\ Removes(toBucket', i, v) <=> Removes(toBucket, i, v)
  <2> DEFINE e == Event("user added", u)
  <2>1. e.is = "user added" /\ e.about = u
    BY DEF Event
  <2> HIDE DEF e
  <2>2. /\ At(toBucket', i, "user added", v) <=>
             At(toBucket, i, "user added", v) \/ (i = l + 1 /\ e.is = "user added" /\ e.about = v)
        /\ At(toBucket', i, "user removed", v) <=>
             At(toBucket, i, "user removed", v) \/ (i = l + 1 /\ e.is = "user removed" /\ e.about = v)
    BY <1>1, <1>2, AtAppended DEF e
  <2> QED
    BY <2>1, <2>2 DEF Adds, Removes
<1> HIDE DEF l
<1>5. ~Settled(u) /\ u \notin known /\ \A i \in Nat : ~Adds(toBucket, i, u)
  BY <1>1 DEF Settled, UsersInv, UserOK
<1>6. UserOK(u)'
  <2>1. u \notin known' /\ account'[u] = "open"
    BY <1>1, <1>3, <1>5
  <2>2. \A i \in Nat : Adds(toBucket', i, u) => i = l + 1
    BY <1>4, <1>5
  <2> QED
    BY <2>1, <2>2 DEF UserOK
<1>7. ASSUME NEW v \in Owners, v # u
      PROVE  UserOK(v)' /\ (Settled(v) => Settled(v)')
  <2>1. account'[v] = account[v] /\ known' = known /\ UserOK(v)
    BY <1>1, <1>3, <1>7 DEF UsersInv
  <2>2. \A i \in Nat : /\ Adds(toBucket', i, v) <=> Adds(toBucket, i, v)
                       /\ Removes(toBucket', i, v) <=> Removes(toBucket, i, v)
    BY <1>4, <1>7
  <2>3. Settled(v)' <=> Settled(v)
    BY <2>1, <2>2 DEF Settled
  <2> QED
    BY <2>1, <2>2, <2>3 DEF UserOK
<1> QED
  BY <1>1, <1>5, <1>6, <1>7 DEF UsersInv

\* A user is removed.
LEMMA RemoveUserKeeps ==
    ASSUME IndexInv, UsersInv, NEW u \in Owners, RemoveUser(u)
    PROVE  UsersInv' /\ \A v \in Owners : Settled(v) => Settled(v)'
<1>1. /\ account[u] = "open" /\ account' = [account EXCEPT ![u] = "closed"]
      /\ toBucket' = Append(toBucket, Event("user removed", u)) /\ known' = known
  BY DEF RemoveUser, bucketVars
<1>2. Accounts /\ IsSequence(toBucket)
  BY DEF IndexInv
<1>3. account'[u] = "closed" /\ \A v \in Owners : v # u => account'[v] = account[v]
  BY <1>1, <1>2 DEF Accounts
<1> DEFINE l == Len(toBucket)
<1>4. ASSUME NEW i \in Nat, NEW v
      PROVE  /\ Adds(toBucket', i, v) <=> Adds(toBucket, i, v)
             /\ Removes(toBucket', i, v) <=> Removes(toBucket, i, v) \/ (i = l + 1 /\ u = v)
  <2> DEFINE e == Event("user removed", u)
  <2>1. e.is = "user removed" /\ e.about = u
    BY DEF Event
  <2> HIDE DEF e
  <2>2. /\ At(toBucket', i, "user added", v) <=>
             At(toBucket, i, "user added", v) \/ (i = l + 1 /\ e.is = "user added" /\ e.about = v)
        /\ At(toBucket', i, "user removed", v) <=>
             At(toBucket, i, "user removed", v) \/ (i = l + 1 /\ e.is = "user removed" /\ e.about = v)
    BY <1>1, <1>2, AtAppended DEF e
  <2> QED
    BY <2>1, <2>2 DEF Adds, Removes
<1>5. l \in Nat /\ \A i \in Nat : Adds(toBucket, i, u) => i < l + 1
  <2>1. PICK S : toBucket \in Seq(S)
    BY <1>2 DEF IsSequence
  <2>2. l \in Nat
    BY <2>1
  <2>3. \A i \in Nat : i \in 1..l => i < l + 1
    BY <2>2
  <2> QED
    BY <2>2, <2>3 DEF Adds, At
<1> HIDE DEF l
<1>6. UserOK(u)' /\ (Settled(u) => Settled(u)')
  <2>1. UserOK(u) /\ known' = known /\ account'[u] = "closed" /\ account[u] = "open"
    BY <1>1, <1>3 DEF UsersInv
  <2>2. l + 1 \in Nat /\ Removes(toBucket', l + 1, u)
    BY <1>4, <1>5
  <2>3. \A i \in Nat : Adds(toBucket', i, u) <=> Adds(toBucket, i, u)
    BY <1>4
  <2>4. Settled(u)' <=> Settled(u)
    BY <2>1, <2>3 DEF Settled
  <2>5. \A i \in Nat : Adds(toBucket', i, u) => i < l + 1
    BY <2>3, <1>5
  <2> QED
    BY <2>1, <2>2, <2>3, <2>4, <2>5 DEF UserOK
<1>7. ASSUME NEW v \in Owners, v # u
      PROVE  UserOK(v)' /\ (Settled(v) => Settled(v)')
  <2>1. account'[v] = account[v] /\ known' = known /\ UserOK(v)
    BY <1>1, <1>3, <1>7 DEF UsersInv
  <2>2. \A i \in Nat : /\ Adds(toBucket', i, v) <=> Adds(toBucket, i, v)
                       /\ Removes(toBucket', i, v) <=> Removes(toBucket, i, v)
    BY <1>4, <1>7
  <2>3. Settled(v)' <=> Settled(v)
    BY <2>1, <2>2 DEF Settled
  <2> QED
    BY <2>1, <2>2, <2>3 DEF UserOK
<1> QED
  BY <1>1, <1>6, <1>7 DEF UsersInv

\* The bucket hears of users added and removed.
LEMMA SyncIndexKeeps ==
    ASSUME IndexInv, UsersInv, NEW n \in 1..Len(toBucket), SyncIndex(n)
    PROVE  /\ UsersInv' /\ \A v \in Owners : Settled(v) => Settled(v)'
           /\ \A v \in Owners : Settled(v) /\ v \in known' => v \in known
           /\ \A f \in files' : f \in files /\ f.owner \notin known \ known'
<1> DEFINE batch == SubSeq(toBucket, 1, n)
           added == Said("user added", batch)
           leaving == Said("user removed", batch)
<1>1. /\ toBucket' = SubSeq(toBucket, n + 1, Len(toBucket)) /\ account' = account
      /\ known' = (known \union added) \ leaving
      /\ files' = files \ {f \in files : f.owner \in leaving \/ f.id \in Said("file to remove", batch)}
  BY DEF SyncIndex, RemoveFiles
<1>2. IsSequence(toBucket)
  BY DEF IndexInv
<1>3. ASSUME NEW u
      PROVE  /\ u \in added <=> \E i \in Nat : i <= n /\ Adds(toBucket, i, u)
             /\ u \in leaving <=> \E i \in Nat : i <= n /\ Removes(toBucket, i, u)
  BY <1>2, SaidAt DEF Adds, Removes
<1>4. ASSUME NEW i \in Nat, NEW u
      PROVE  /\ Adds(toBucket', i, u) <=> i > 0 /\ Adds(toBucket, i + n, u)
             /\ Removes(toBucket', i, u) <=> i > 0 /\ Removes(toBucket, i + n, u)
  BY <1>1, <1>2, AtRest DEF Adds, Removes
<1>5. n \in Nat
  OBVIOUS
<1> HIDE DEF batch, added, leaving
<1>6. ASSUME NEW u \in Owners
      PROVE  UserOK(u)' /\ (Settled(u) => Settled(u)' /\ u \notin added)
  <2>1. /\ u \in known => Settled(u)
        /\ \A i, j \in Nat : Adds(toBucket, i, u) /\ Adds(toBucket, j, u) => i = j
        /\ \A i \in Nat : Adds(toBucket, i, u) => account[u] # "new"
        /\ u \in known /\ account[u] # "open" => \E j \in Nat : Removes(toBucket, j, u)
        /\ \A i \in Nat : Adds(toBucket, i, u) /\ account[u] # "open" =>
              \E j \in Nat : Removes(toBucket, j, u) /\ i < j
    BY DEF UsersInv, UserOK
  <2>2. \A i \in Nat : i + n \in Nat
    BY <1>5
  <2>3. Settled(u) => Settled(u)' /\ u \notin added
    BY <1>1, <1>3, <1>4, <2>2 DEF Settled
  <2>4. u \in added => Settled(u)'
    <3> SUFFICES ASSUME NEW i \in Nat, i <= n, Adds(toBucket, i, u)
                 PROVE  Settled(u)'
      BY <1>3
    <3>1. account'[u] # "new"
      BY <1>1, <2>1
    <3>2. ASSUME NEW j \in Nat, Adds(toBucket', j, u)
          PROVE  FALSE
      <4>1. j > 0 /\ Adds(toBucket, j + n, u) /\ j + n \in Nat
        BY <1>4, <2>2, <3>2
      <4>2. j + n = i
        BY <2>1, <4>1
      <4> QED
        BY <1>5, <4>1, <4>2
    <3> QED
      BY <3>1, <3>2 DEF Settled
  <2>5. u \in known' => Settled(u)'
    BY <1>1, <2>1, <2>3, <2>4
  <2>6. ASSUME NEW i \in Nat, NEW j \in Nat, Adds(toBucket', i, u), Adds(toBucket', j, u)
        PROVE  i = j
    <3>1. i + n = j + n
      BY <1>4, <2>1, <2>2, <2>6
    <3> QED
      BY <1>5, <3>1
  <2>7. \A i \in Nat : Adds(toBucket', i, u) => account'[u] # "new"
    BY <1>1, <1>4, <2>1, <2>2
  <2>8. ASSUME NEW j \in Nat, Removes(toBucket, j, u), j > n
        PROVE  j - n \in Nat /\ Removes(toBucket', j - n, u)
    <3>1. j - n \in Nat /\ j - n > 0 /\ (j - n) + n = j
      BY <1>5, <2>8
    <3> QED
      BY <1>4, <2>8, <3>1
  <2>9. ASSUME u \in known', account'[u] # "open"
        PROVE  \E j \in Nat : Removes(toBucket', j, u)
    <3>1. PICK j \in Nat : Removes(toBucket, j, u)
      BY <1>1, <1>3, <2>1, <2>9
    <3>2. j > n
      <4>1. u \notin leaving
        BY <1>1, <2>9
      <4>2. ~(j <= n)
        BY <1>3, <3>1, <4>1
      <4> QED
        BY <1>5, <4>2
    <3> QED
      BY <2>8, <3>1, <3>2
  <2>10. ASSUME NEW i \in Nat, Adds(toBucket', i, u), account'[u] # "open"
         PROVE  \E j \in Nat : Removes(toBucket', j, u) /\ i < j
    <3>1. i > 0 /\ Adds(toBucket, i + n, u) /\ i + n \in Nat /\ account[u] # "open"
      BY <1>1, <1>4, <2>2, <2>10
    <3>2. PICK j \in Nat : Removes(toBucket, j, u) /\ i + n < j
      BY <2>1, <3>1
    <3>3. j > n /\ i < j - n
      BY <1>5, <3>2
    <3> QED
      BY <2>8, <3>2, <3>3
  <2> QED
    BY <2>3, <2>5, <2>6, <2>7, <2>9, <2>10 DEF UserOK
<1> QED
  BY <1>1, <1>6 DEF UsersInv

\* The elements of a longer queue, and those of the rest of one
LEMMA QueuedMore ==
    ASSUME NEW S, NEW q \in Seq(S), NEW e
    PROVE  ToSet(Append(q, e)) = ToSet(q) \union {e}
<1> DEFINE r == Append(q, e)
           l == Len(q)
           m == Len(r)
<1>1. m = l + 1 /\ l \in Nat /\ r[l + 1] = e /\ \A k \in 1..l : r[k] = q[k]
  BY OneMore
<1>2. ToSet(q) = {q[k] : k \in 1..l}
  BY DEF ToSet
<1>3. r \in Seq(S \union {e})
  <2>1. q \in Seq(S \union {e})
    BY SeqMonotonic
  <2> QED
    BY <2>1, OneMore
<1>4. ToSet(r) = {r[k] : k \in 1..m}
  BY <1>3 DEF ToSet
<1> HIDE DEF r, l, m
<1>5. 1..m = 1..l \union {l + 1}
  BY <1>1
<1>6. ToSet(r) = ToSet(q) \union {e}
  BY <1>1, <1>2, <1>4, <1>5
<1> QED
  BY <1>6 DEF r

LEMMA QueuedRest ==
    ASSUME NEW S, NEW q \in Seq(S), NEW n \in 1..Len(q)
    PROVE  LET rest == ToSet(SubSeq(q, n + 1, Len(q)))
           IN  rest \subseteq ToSet(q) /\ \A e \in ToSet(q) : e \in rest \/ \E i \in 1..n : e = q[i]
<1> DEFINE r == SubSeq(q, n + 1, Len(q))
           l == Len(q)
           m == Len(r)
<1>1. /\ m = l - n /\ l \in Nat /\ n \in 1..l /\ r \in Seq(S)
      /\ \A k \in 1..l - n : r[k] = q[k + n]
  BY RestOf
<1>2. ToSet(q) = {q[k] : k \in 1..l}
  BY DEF ToSet
<1> HIDE DEF r
<1>3. ToSet(r) = {r[k] : k \in 1..m}
  BY <1>1 DEF ToSet
<1> HIDE DEF l, m
<1>4. ASSUME NEW k \in 1..m
      PROVE  r[k] \in ToSet(q)
  <2>1. k + n \in 1..l
    BY <1>1
  <2> QED
    BY <1>1, <1>2, <2>1
<1>5. ASSUME NEW k \in 1..l, ~(k \in 1..n)
      PROVE  q[k] \in ToSet(r)
  <2>1. k - n \in 1..m /\ (k - n) + n = k
    BY <1>1, <1>5
  <2> QED
    BY <1>1, <1>3, <2>1
<1>6. /\ ToSet(r) \subseteq ToSet(q)
      /\ \A e \in ToSet(q) : e \in ToSet(r) \/ \E i \in 1..n : e = q[i]
  BY <1>2, <1>3, <1>4, <1>5
<1> QED
  BY <1>6 DEF r, l

\* No file more
LEMMA FewerFilesKeep ==
    ASSUME IndexInv, FilesInv, created' = created, Present' \subseteq Present,
           pendingFiles' \subseteq pendingFiles, \A f \in files' : f.owner \in known',
           \A u \in Owners : Settled(u) => Settled(u)',
           \A e \in EventsToIndex' : e \notin EventsToIndex => e.file \in Present /\ e.file \notin Present',
           \A f \in Present' : f.owner \in known' => Noted(f)'
    PROVE  FilesInv'
<1>1. Present \subseteq FileRecords
  BY DEF IndexInv, Present
<1>2. \A f \in Present : f.id \in 1..created
  BY DEF IndexInv, StorageInv, FilesKnown, Present
<1>3. (\A f, g \in Present : f.id = g.id => f = g)'
  BY DEF FilesInv
<1>4. (\A f \in pendingFiles : Settled(f.owner))'
  <2>1. \A f \in pendingFiles : f.owner \in Owners
    BY <1>1 DEF Present, FileRecords
  <2> QED
    BY <2>1 DEF FilesInv
<1>5. (\A e \in EventsToIndex : e.file.id \in 1..created)'
  BY <1>2 DEF FilesInv
<1>6. (\A e \in EventsToIndex, f \in Present : e.is = "removed" => f.id # e.file.id)'
  BY DEF FilesInv
<1> QED
  BY <1>3, <1>4, <1>5, <1>6 DEF FilesInv

\* What is noted stays so as long as nothing leaves the queue.
LEMMA NotedStays ==
    ASSUME NEW f, Noted(f), EventsToIndex \subseteq EventsToIndex', UNCHANGED <<rejected, listed>>
    PROVE  Noted(f)'
BY DEF Noted

\* A new file, whose event is appended
LEMMA NewFileKeeps ==
    ASSUME IndexInv, UsersInv, FilesInv, created' = created + 1,
           NEW f \in FileRecords, f.id = created + 1, f.owner \in known,
           Present' = Present \union {f}, pendingFiles' \subseteq pendingFiles \union {f},
           files' \subseteq files \union {f}, NEW e, e.is = "added", e.file.id = created + 1,
           toIndex' = Append(toIndex, e), UNCHANGED <<known, account, toBucket, rejected, listed>>
    PROVE  FilesInv'
<1> DEFINE c == created
           d == created'
<1>1. Present \subseteq FileRecords /\ toIndex \in Seq(FileEvents) /\ c \in Nat
  BY DEF IndexInv, StorageInv, FilesKnown, Present
<1>2. 1..c \subseteq 1..d /\ c + 1 \in 1..d /\ c + 1 \notin 1..c
  BY <1>1
<1>3. \A g \in Present : g.id \in 1..c
  BY DEF IndexInv, StorageInv, FilesKnown, Present
<1>4. EventsToIndex' = EventsToIndex \union {e}
  BY <1>1, QueuedMore DEF EventsToIndex
<1>5. \A g \in EventsToIndex : g.file.id \in 1..c
  BY DEF FilesInv
<1>6. f.id = c + 1 /\ e.file.id = c + 1
  OBVIOUS
<1>7. \A u : Settled(u)' <=> Settled(u)
  BY DEF Settled
<1> HIDE DEF c, d
<1>8. (\A g, h \in Present : g.id = h.id => g = h)'
  BY <1>2, <1>3, <1>6 DEF FilesInv
<1>9. (\A g \in files : g.owner \in known)'
  BY DEF FilesInv
<1>10. (\A g \in pendingFiles : Settled(g.owner))'
  <2>1. f.owner \in Owners
    BY DEF FileRecords
  <2>2. Settled(f.owner)
    BY <2>1 DEF UsersInv, UserOK
  <2> QED
    BY <1>7, <2>2 DEF FilesInv
<1>11. \A g \in EventsToIndex' : g.file.id \in 1..d
  BY <1>2, <1>4, <1>5, <1>6
<1>12. (\A g \in EventsToIndex, h \in Present : g.is = "removed" => h.id # g.file.id)'
  <2>1. \A g \in EventsToIndex, h \in Present : g.is = "removed" => h.id # g.file.id
    BY DEF FilesInv
  <2>2. \A g \in EventsToIndex : f.id # g.file.id
    BY <1>2, <1>5, <1>6
  <2>3. e.is # "removed"
    OBVIOUS
  <2> QED
    BY <1>4, <2>1, <2>2, <2>3
<1>13. (\A g \in Present : g.owner \in known => Noted(g))'
  <2>1. Noted(f)'
    BY <1>4, <1>6 DEF Noted
  <2>2. \A g \in Present : g.owner \in known => Noted(g)'
    BY <1>4, NotedStays DEF FilesInv
  <2> QED
    BY <2>1, <2>2
<1> QED
  BY <1>8, <1>9, <1>10, <1>11, <1>12, <1>13 DEF FilesInv, d

\* The index hears of files.
LEMMA SyncBucketKeeps ==
    ASSUME IndexInv, UsersInv, FilesInv, NEW n \in 1..Len(toIndex), SyncBucket(n)
    PROVE  UsersInv' /\ FilesInv'
<1>1. /\ rejected = {} /\ UNCHANGED <<created, known, pendingFiles, files, account>>
      /\ toIndex' = SubSeq(toIndex, n + 1, Len(toIndex))
  BY DEF SyncBucket, bucketVars
<1>2. /\ Prolongs(toBucket', toBucket)
      /\ \A i \in 1..n : toIndex[i].is = "added" =>
           \/ toIndex[i].file.id \in rejected'
           \/ toIndex[i].file \in listed'
           \/ \E j \in 1..n : toIndex[j].is = "removed" /\ toIndex[j].file = toIndex[i].file
      /\ \A f \in listed : f \notin listed' =>
           \E j \in 1..n : toIndex[j].is = "removed" /\ toIndex[j].file = f
  BY BatchHeard
<1>3. UsersInv' /\ \A u \in Owners : Settled(u) => Settled(u)'
  <2>1. \A i \in Nat, u \in Owners : /\ Adds(toBucket', i, u) <=> Adds(toBucket, i, u)
                                     /\ Removes(toBucket', i, u) <=> Removes(toBucket, i, u)
    BY <1>2, AtProlonged
  <2> QED
    BY <1>1, <2>1, SameUserEvents
<1>4. toIndex \in Seq(FileEvents)
  BY DEF IndexInv
<1>5. EventsToIndex' \subseteq EventsToIndex /\ \A e \in EventsToIndex : e \in EventsToIndex' \/ \E i \in 1..n : e = toIndex[i]
  BY <1>1, <1>4, QueuedRest DEF EventsToIndex
<1>6. \A i \in 1..n : toIndex[i] \in EventsToIndex
  <2>1. \A i \in 1..n : i \in 1..Len(toIndex)
    BY <1>4
  <2> QED
    BY <1>4, <2>1 DEF EventsToIndex, ToSet
<1>7. ASSUME NEW f \in Present, f.owner \in known
      PROVE  Noted(f)'
  <2>1. \A j \in 1..n : toIndex[j].is = "removed" => toIndex[j].file.id # f.id
    BY <1>6 DEF FilesInv
  <2>2. Noted(f)
    BY <1>7 DEF FilesInv
  <2>3. ASSUME NEW e \in EventsToIndex, e.is = "added", e.file.id = f.id
        PROVE  Noted(f)'
    <3>1. CASE e \in EventsToIndex'
      BY <2>3, <3>1 DEF Noted
    <3>2. CASE \E i \in 1..n : e = toIndex[i]
      BY <1>2, <2>1, <2>3, <3>2 DEF Noted
    <3> QED
      BY <1>5, <3>1, <3>2
  <2>4. ASSUME NEW g \in listed, g.id = f.id
        PROVE  Noted(f)'
    BY <1>2, <2>1, <2>4 DEF Noted
  <2> QED
    BY <1>1, <2>2, <2>3, <2>4 DEF Noted
<1>8. FilesInv'
  <2>1. Present' = Present /\ \A f \in files' : f.owner \in known'
    BY <1>1 DEF Present, FilesInv
  <2>2. \A f \in Present' : f.owner \in known' => Noted(f)'
    BY <1>1, <1>7, <2>1
  <2>3. EventsToIndex' \subseteq EventsToIndex
    BY <1>5
  <2> QED
    BY <1>1, <1>3, <2>1, <2>2, <2>3, FewerFilesKeep
<1> QED
  BY <1>3, <1>8

\* The bucket hears of users and of files to remove.
LEMMA SyncIndexKeepsFiles ==
    ASSUME IndexInv, UsersInv, FilesInv, NEW n \in 1..Len(toBucket), SyncIndex(n)
    PROVE  FilesInv'
<1>1. /\ UNCHANGED <<created, pendingFiles, toIndex, rejected, listed>>
  BY DEF SyncIndex
<1>2. /\ \A u \in Owners : Settled(u) => Settled(u)'
      /\ \A u \in Owners : Settled(u) /\ u \in known' => u \in known
      /\ \A f \in files' : f \in files /\ f.owner \notin known \ known'
  BY SyncIndexKeeps
<1>3. Present' \subseteq Present /\ \A f \in files' : f.owner \in known'
  BY <1>1, <1>2 DEF Present, FilesInv
<1>4. ASSUME NEW f \in Present', f.owner \in known'
      PROVE  Noted(f)'
  <2>1. f \in Present /\ f.owner \in Owners
    BY <1>3 DEF IndexInv, Present, FileRecords
  <2>2. f.owner \in known
    BY <1>2, <1>4, <2>1 DEF Present, FilesInv
  <2>3. Noted(f)
    BY <2>1, <2>2 DEF FilesInv
  <2>4. EventsToIndex' = EventsToIndex
    BY <1>1 DEF EventsToIndex
  <2> QED
    BY <1>1, <2>3, <2>4, NotedStays
<1>5. EventsToIndex' \subseteq EventsToIndex
  BY <1>1 DEF EventsToIndex
<1>6. pendingFiles' \subseteq pendingFiles
  BY <1>1
<1> QED
  BY <1>1, <1>2, <1>3, <1>4, <1>5, <1>6, FewerFilesKeep

\* A file goes, or its last chunk comes.
LEMMA OneFileKeeps ==
    ASSUME IndexInv, FilesInv, NEW f \in Present,
           UNCHANGED <<created, known, rejected, listed, account, toBucket>>,
           pendingFiles' \subseteq pendingFiles,
           \/ Present' \subseteq Present /\ toIndex' = toIndex
           \/ Present' \subseteq Present \ {f} /\ toIndex' = Append(toIndex, FileRemoved(f)),
           \A g \in files' : g.owner \in known
    PROVE  FilesInv'
<1>1. toIndex \in Seq(FileEvents)
  BY DEF IndexInv
<1>2. \A u : Settled(u) => Settled(u)'
  BY DEF Settled
<1>3. /\ EventsToIndex \subseteq EventsToIndex'
      /\ \A e \in EventsToIndex' : e \notin EventsToIndex => e.file \in Present /\ e.file \notin Present'
  <2>1. CASE toIndex' = toIndex
    BY <2>1 DEF EventsToIndex
  <2>2. CASE Present' \subseteq Present \ {f} /\ toIndex' = Append(toIndex, FileRemoved(f))
    <3>1. EventsToIndex' = EventsToIndex \union {FileRemoved(f)}
      BY <1>1, <2>2, QueuedMore DEF EventsToIndex
    <3>2. FileRemoved(f).file = f
      BY DEF FileRemoved
    <3> QED
      BY <2>2, <3>1, <3>2
  <2> QED
    BY <2>1, <2>2
<1>4. Present' \subseteq Present
  OBVIOUS
<1>5. \A g \in Present' : g.owner \in known' => Noted(g)'
  BY <1>3, <1>4, NotedStays DEF FilesInv
<1>6. created' = created /\ known' = known
  OBVIOUS
<1> QED
  BY <1>2, <1>3, <1>4, <1>5, <1>6, FewerFilesKeep

LEMMA FilesStep == AccountsInv /\ [StorageNext]_storageVars => UsersInv' /\ FilesInv'
<1> SUFFICES ASSUME IndexInv, UsersInv, FilesInv, [StorageNext]_storageVars
             PROVE  UsersInv' /\ FilesInv'
  BY DEF AccountsInv
<1>1. /\ Present \subseteq FileRecords /\ pendingFiles \subseteq Present /\ files \subseteq Present
      /\ pendingFiles \intersect files = {} /\ created \in Nat
  BY DEF IndexInv, StorageInv, FilesKnown, Present
<1>2. ASSUME UNCHANGED <<known, account, toBucket>>
      PROVE  UsersInv'
  BY <1>2, SameUserEvents
<1>3. \A f \in files : f.owner \in known
  BY DEF FilesInv
<1>4. ASSUME NEW u \in Owners, AddUser(u) \/ RemoveUser(u)
      PROVE  UsersInv' /\ FilesInv'
  <2>1. UNCHANGED <<created, known, pendingFiles, files, toIndex, rejected, listed>>
    BY <1>4 DEF AddUser, RemoveUser, bucketVars
  <2>2. UsersInv' /\ \A v \in Owners : Settled(v) => Settled(v)'
    BY <1>4, AddUserKeeps, RemoveUserKeeps
  <2>3. Present' = Present /\ EventsToIndex' = EventsToIndex /\ pendingFiles' \subseteq pendingFiles
    BY <2>1 DEF Present, EventsToIndex
  <2>4. \A f \in Present' : f.owner \in known' => Noted(f)'
    BY <2>1, <2>3, NotedStays DEF FilesInv
  <2>5. EventsToIndex' \subseteq EventsToIndex
    BY <2>3
  <2>6. \A f \in files' : f.owner \in known'
    BY <1>3, <2>1
  <2> QED
    BY <2>1, <2>2, <2>3, <2>4, <2>5, <2>6, FewerFilesKeep
<1>5. ASSUME NEW u \in Owners, NEW b \in Blobs, Upload(u, b)
      PROVE  UsersInv' /\ FilesInv'
  <2> DEFINE f == NewFile(u, b)
             e == FileAdded(f)
  <2>1. /\ u \in known /\ created' = created + 1 /\ toIndex' = Append(toIndex, e)
        /\ pendingFiles' \subseteq pendingFiles \union {f} /\ files' \subseteq files \union {f}
        /\ Present' = Present \union {f}
        /\ UNCHANGED <<known, account, toBucket, rejected, listed>>
    BY <1>5 DEF Upload, Insert, Present, indexVars
  <2>2. f \in FileRecords /\ f.id = created + 1 /\ f.owner = u
    BY <1>1 DEF NewFile, FileRecords
  <2>3. e.is = "added" /\ e.file.id = created + 1
    BY <2>2 DEF FileAdded
  <2> HIDE DEF f, e
  <2>4. FilesInv'
    BY <2>1, <2>2, <2>3, NewFileKeeps
  <2> QED
    BY <1>2, <2>1, <2>4
<1>6. ASSUME NEW u \in Owners, NEW g \in files, Forward(u, g)
      PROVE  UsersInv' /\ FilesInv'
  <2> DEFINE f == NewFile(u, g.blob)
             h == [g EXCEPT !.id = created + 1]
             e == FileAdded(h)
  <2>1. /\ u \in known /\ created' = created + 1 /\ toIndex' = Append(toIndex, e)
        /\ pendingFiles' \subseteq pendingFiles \union {f} /\ files' \subseteq files \union {f}
        /\ Present' = Present \union {f}
        /\ UNCHANGED <<known, account, toBucket, rejected, listed>>
    BY <1>6 DEF Forward, Present, indexVars
  <2>2. g \in FileRecords
    BY <1>1
  <2>3. f \in FileRecords /\ f.id = created + 1 /\ f.owner = u
    BY <1>1, <2>2 DEF NewFile, FileRecords
  <2>4. h.id = created + 1
    BY <2>2 DEF FileRecords
  <2>5. e.is = "added" /\ e.file.id = created + 1
    BY <2>4 DEF FileAdded
  <2> HIDE DEF f, e, h
  <2>6. FilesInv'
    BY <2>1, <2>3, <2>5, NewFileKeeps
  <2> QED
    BY <1>2, <2>1, <2>6
<1>7. ASSUME NEW f \in pendingFiles, LastChunk(f) \/ HashMismatch(f) \/ PendingDropped(f)
      PROVE  UsersInv' /\ FilesInv'
  <2>1. /\ UNCHANGED <<created, known, rejected, listed, account, toBucket>>
        /\ pendingFiles' = pendingFiles \ {f}
        /\ \/ f.owner \in known /\ files' = files \union {f} /\ toIndex' = toIndex
           \/ files' = files /\ toIndex' = Append(toIndex, FileRemoved(f))
           \/ files' = files /\ toIndex' = toIndex
    BY <1>7 DEF LastChunk, Insert, HashMismatch, PendingDropped, indexVars
  <2>2. /\ pendingFiles' \subseteq pendingFiles /\ \A g \in files' : g.owner \in known
        /\ \/ Present' \subseteq Present /\ toIndex' = toIndex
           \/ Present' \subseteq Present \ {f} /\ toIndex' = Append(toIndex, FileRemoved(f))
    BY <1>1, <1>3, <2>1 DEF Present
  <2>3. FilesInv'
    BY <1>1, <2>1, <2>2, OneFileKeeps
  <2> QED
    BY <1>2, <2>1, <2>3
<1>8. ASSUME NEW f \in files, Delete(f)
      PROVE  UsersInv' /\ FilesInv'
  <2>1. /\ UNCHANGED <<created, known, pendingFiles, rejected, listed, account, toBucket>>
        /\ files' = files \ {f} /\ toIndex' = Append(toIndex, FileRemoved(f))
    BY <1>8 DEF Delete, RemoveFiles, indexVars
  <2>2. /\ pendingFiles' \subseteq pendingFiles /\ \A g \in files' : g.owner \in known
        /\ Present' \subseteq Present \ {f}
    BY <1>1, <1>3, <2>1 DEF Present
  <2>3. FilesInv'
    BY <1>1, <2>1, <2>2, OneFileKeeps
  <2> QED
    BY <1>2, <2>1, <2>3
<1>9. CASE DropRejected
  <2>1. /\ UNCHANGED <<created, known, toIndex, listed, account, toBucket>>
        /\ pendingFiles' = pendingFiles \ Rejected /\ files' = files \ (files \intersect Rejected)
    BY <1>9 DEF DropRejected, RemoveFiles, indexVars
  <2>2. /\ Present' = Present \ Rejected /\ pendingFiles' \subseteq pendingFiles
        /\ \A f \in files' : f.owner \in known'
    BY <1>3, <2>1 DEF Present
  <2>3. EventsToIndex' = EventsToIndex /\ \A u \in Owners : Settled(u) => Settled(u)'
    BY <2>1 DEF EventsToIndex, Settled
  <2>4. ASSUME NEW f \in Present', f.owner \in known'
        PROVE  Noted(f)'
    <3>1. f.id \notin rejected
      BY <2>1, <2>2, <2>4 DEF Rejected, Present
    <3> QED
      BY <2>1, <2>2, <2>3, <2>4, <3>1 DEF FilesInv, Noted
  <2>5. EventsToIndex' \subseteq EventsToIndex
    BY <2>3
  <2>6. FilesInv'
    BY <2>1, <2>2, <2>3, <2>4, <2>5, FewerFilesKeep
  <2> QED
    BY <1>2, <2>1, <2>6
<1>10. CASE UNCHANGED storageVars
  BY <1>10 DEF storageVars, bucketVars, indexVars, UsersInv, UserOK, Settled, FilesInv,
               Present, EventsToIndex, Noted
<1> QED
  BY <1>4, <1>5, <1>6, <1>7, <1>8, <1>9, <1>10, SyncBucketKeeps, SyncIndexKeeps,
     SyncIndexKeepsFiles DEF StorageNext

LEMMA FilesInitially == StorageInit => AccountsInv
<1> SUFFICES ASSUME StorageInit
             PROVE  UsersInv /\ FilesInv
  BY IndexInitially DEF AccountsInv
<1>1. /\ known = {} /\ pendingFiles = {} /\ files = {} /\ toIndex = <<>> /\ toBucket = <<>>
  BY DEF StorageInit
<1>2. \A i \in Nat : \A u : ~Adds(toBucket, i, u)
  <2>1. \A i \in Nat : i \notin 1..Len(<<>>)
    OBVIOUS
  <2> QED
    BY <1>1, <2>1 DEF Adds, At
<1>3. EventsToIndex = {} /\ Present = {}
  BY <1>1 DEF EventsToIndex, ToSet, Present
<1>4. UsersInv
  BY <1>1, <1>2 DEF UsersInv, UserOK
<1> QED
  BY <1>1, <1>3, <1>4 DEF FilesInv

\* When both streams are at rest, every file of the bucket belongs to a user of
\* the index, which lists it, whichever uploads, forwards and removals crossed.
THEOREM StorageFilesAccounted == StorageSpec => []FilesAccounted
<1>1. AccountsInv /\ [StorageNext]_storageVars => AccountsInv'
  BY IndexStep, FilesStep DEF AccountsInv
<1>2. StorageSpec => []AccountsInv
  BY <1>1, FilesInitially, PTL DEF StorageSpec
<1>3. AccountsInv => FilesAccounted
  <2> SUFFICES ASSUME AccountsInv, toIndex = <<>>, rejected = {}, toBucket = <<>>,
                      NEW f \in files
               PROVE  account[f.owner] = "open" /\ \E g \in listed : g.id = f.id
    BY DEF FilesAccounted
  <2>1. f \in Present /\ f.owner \in known /\ f.owner \in Owners
    BY DEF AccountsInv, FilesInv, IndexInv, FileRecords, Present
  <2>2. \A j \in Nat : ~Removes(toBucket, j, f.owner)
    <3>1. \A j \in Nat : j \notin 1..Len(<<>>)
      OBVIOUS
    <3> QED
      BY <3>1 DEF Removes, At
  <2>3. account[f.owner] = "open"
    BY <2>1, <2>2 DEF AccountsInv, UsersInv, UserOK
  <2>4. EventsToIndex = {}
    BY DEF EventsToIndex, ToSet
  <2>5. Noted(f)
    BY <2>1 DEF AccountsInv, FilesInv
  <2> QED
    BY <2>3, <2>4, <2>5 DEF Noted
<1> QED
  BY <1>2, <1>3, PTL

-----------------------------------------------------------------------------
(***************************************************************************)
(* PrizeClaims.  A claim holds a reservation of its user until it ends, so *)
(* nobody is paid twice; and until the prize is settled the group holds    *)
(* exactly what is under way and what was paid in for the rest.            *)
(***************************************************************************)
ClaimRecords ==
    [user : Users, amount : Nat, answer : {"none", "ok", "refused", "failed"}, late : BOOLEAN]
TransferRecords == [to : {"treasury", "sender"}, amount : Nat, attempt : Nat]
PrizeRecords ==
    [remaining : Seq(Nat), reservations : SUBSET Users, winners : SUBSET Users,
     paid : Nat, started : BOOLEAN, ledgerError : BOOLEAN]

PrizeTypes ==
    /\ content \in {"prize", "deleted", "removed"} /\ endJob \in BOOLEAN
    /\ prize \in PrizeRecords
    /\ IsFiniteSet(claims) /\ claims \subseteq ClaimRecords
    /\ IsFiniteSet(transfers) /\ transfers \subseteq TransferRecords
    /\ won \in [Users -> Nat] /\ balance \in Int

OneClaimEach ==
    /\ \A c, d \in claims : c.user = d.user => c = d
    /\ \A c \in claims : /\ c.user \in prize.reservations
                         /\ won[c.user] = IF c.answer = "ok" THEN 1 ELSE 0
    /\ prize.reservations \intersect prize.winners = {}
    /\ \A u \in Users : /\ won[u] <= 1
                        /\ u \in prize.winners => won[u] = 1
                        /\ ~Claimed(u) => won[u] = 0

\* The final payments are made by the job of the end, or by what removes it.
Settlement == content = "prize" /\ ~endJob => prize.started

\* What was paid in for the prizes that are not under way.
Held(p) == Percent(p.paid + Amounts(claims) + Total(p.remaining))
             + Total(p.remaining) + Len(p.remaining) * Fee

Untouched == Unsettled => transfers = {} /\ balance + unpaid = Due(UnderWay) + Held(prize)

Payments(S) == IsFiniteSet(S) /\ \A t \in S : t.amount \in Nat

\* What one payment more takes.
LEMMA PaymentAdded ==
    ASSUME NEW S, NEW x, x \notin S, Payments(S), x.amount \in Nat
    PROVE  /\ Payments(S \union {x})
           /\ Due(S) \in Int /\ Due(S \union {x}) = Due(S) + (x.amount + Fee)
           /\ Amounts(S) \in Nat /\ Amounts(S \union {x}) = Amounts(S) + x.amount
<1> DEFINE R == S \union {x}
           f == [t \in S |-> t.amount + Fee]
           g == [t \in R |-> t.amount + Fee]
           a == [t \in S |-> t.amount]
           b == [t \in R |-> t.amount]
<1>1. Payments(R)
  BY FS_AddElement DEF Payments
<1>2. Fee \in Nat
  BY PrizeAssumption
<1>3. /\ f \in [S -> Int] /\ g \in [R -> Int] /\ (\A y \in S : g[y] = f[y])
      /\ a \in [S -> Int] /\ b \in [R -> Int] /\ (\A y \in S : b[y] = a[y])
      /\ g[x] = x.amount + Fee /\ b[x] = x.amount
  BY <1>1, <1>2 DEF Payments
<1>4. DOMAIN a = S /\ \A t \in S : a[t] \in Nat
  BY DEF Payments
<1>5. Due(S) = SumFunction(f) /\ Due(R) = SumFunction(g)
      /\ Amounts(S) = SumFunction(a) /\ Amounts(R) = SumFunction(b)
  BY DEF Due, Amounts
<1>9. IsFiniteSet(S)
  BY DEF Payments
<1> HIDE DEF f, g, a, b
<1>6. SumFunction(f) \in Int /\ SumFunction(g) = SumFunction(f) + g[x]
  <2>1. Extends(g, f, x)
    BY <1>3, <1>9 DEF Extends
  <2> QED
    BY <2>1, SumExtends
<1>7. SumFunction(b) = SumFunction(a) + b[x]
  <2>1. Extends(b, a, x)
    BY <1>3, <1>9 DEF Extends
  <2> QED
    BY <2>1, SumExtends
<1>8. SumFunction(a) \in Nat
  <2>1. Nat \in {Nat, Int}
    OBVIOUS
  <2>2. SumFunctionOnSet(a, S) \in Nat
    BY <1>4, <2>1, SumType DEF Payments
  <2> QED
    BY <1>4, <2>2 DEF SumFunction
<1> QED
  BY <1>1, <1>3, <1>5, <1>6, <1>7, <1>8

\* No payment takes nothing.
LEMMA NoPayment == Payments({}) /\ Due({}) = 0 /\ Amounts({}) = 0
<1>1. \A f : DOMAIN f = {} => SumFunction(f) = 0
  BY SumEmpty DEF SumFunction
<1> QED
  BY <1>1, FS_EmptySet DEF Payments, Due, Amounts

\* What payments take is a number.
LEMMA PaymentsType ==
    ASSUME NEW S, Payments(S)
    PROVE  Due(S) \in Int /\ Amounts(S) \in Nat
<1>1. CASE S = {}
  BY <1>1, NoPayment
<1>2. ASSUME NEW x \in S
      PROVE  Due(S) \in Int /\ Amounts(S) \in Nat
  <2> DEFINE R == S \ {x}
  <2>1. Payments(R) /\ x \notin R /\ x.amount \in Nat /\ R \union {x} = S
    BY FS_RemoveElement DEF Payments
  <2> HIDE DEF R
  <2>2. /\ Due(R) \in Int /\ Due(S) = Due(R) + (x.amount + Fee)
        /\ Amounts(R) \in Nat /\ Amounts(S) = Amounts(R) + x.amount
    BY <2>1, PaymentAdded
  <2>3. Fee \in Nat
    BY PrizeAssumption
  <2> QED
    BY <2>1, <2>2, <2>3
<1> QED
  BY <1>1, <1>2

\* What one payment less takes.
LEMMA PaymentRemoved ==
    ASSUME NEW S, NEW x \in S, Payments(S)
    PROVE  /\ Payments(S \ {x}) /\ x.amount \in Nat
           /\ Due(S \ {x}) \in Int /\ Due(S) = Due(S \ {x}) + (x.amount + Fee)
           /\ Amounts(S \ {x}) \in Nat /\ Amounts(S) = Amounts(S \ {x}) + x.amount
<1> DEFINE R == S \ {x}
<1>1. Payments(R) /\ x \notin R /\ x.amount \in Nat /\ R \union {x} = S
  BY FS_RemoveElement DEF Payments
<1> HIDE DEF R
<1>2. /\ Due(R) \in Int /\ Due(S) = Due(R) + (x.amount + Fee)
      /\ Amounts(R) \in Nat /\ Amounts(S) = Amounts(R) + x.amount
  BY <1>1, PaymentAdded
<1> QED
  BY <1>1, <1>2 DEF R

\* A payment more takes no more than its amount and fee, also if it is in the set.
LEMMA PaymentAtMost ==
    ASSUME NEW S, NEW x, Payments(S), x.amount \in Nat
    PROVE  /\ Payments(S \union {x})
           /\ Due(S \union {x}) <= Due(S) + (x.amount + Fee)
<1>1. Due(S) \in Int /\ Fee \in Nat
  BY PaymentsType, PrizeAssumption
<1>2. CASE x \in S
  <2>1. S \union {x} = S
    BY <1>2
  <2>2. Payments(S \union {x}) /\ Due(S \union {x}) = Due(S)
    BY <2>1
  <2> QED
    BY <1>1, <2>2
<1>3. CASE x \notin S
  <2>1. Payments(S \union {x}) /\ Due(S \union {x}) = Due(S) + (x.amount + Fee)
    BY <1>3, PaymentAdded
  <2> QED
    BY <1>1, <2>1
<1> QED
  BY <1>2, <1>3

\* The last prize, and one put back.
LEMMA TotalAppended ==
    ASSUME NEW s \in Seq(Nat), NEW x \in Nat
    PROVE  /\ Append(s, x) \in Seq(Nat) /\ Len(Append(s, x)) = Len(s) + 1
           /\ Total(s) \in Nat /\ Total(Append(s, x)) = Total(s) + x
<1> DEFINE l == Len(s)
           t == Append(s, x)
<1>1. /\ l \in Nat /\ t \in Seq(Nat) /\ Len(t) = l + 1 /\ t[l + 1] = x
      /\ \A i \in 1..l : t[i] = s[i]
  OBVIOUS
<1> HIDE DEF t
<1>6. s \in [1..l -> Nat] /\ t \in [1..l + 1 -> Nat]
  BY <1>1
<1> HIDE DEF l
<1>7. IsFiniteSet(1..l)
  BY <1>1, FS_Interval, 1 \in Int
<1>4. Extends(t, s, l + 1)
  BY <1>1, <1>6, <1>7 DEF Extends
<1>5. SumFunction(s) \in Nat
  <2>1. Nat \in {Nat, Int} /\ DOMAIN s = 1..l /\ \A i \in 1..l : s[i] \in Nat
    BY <1>6
  <2>2. SumFunctionOnSet(s, 1..l) \in Nat
    BY <1>7, <2>1, SumType
  <2> QED
    BY <2>1, <2>2 DEF SumFunction
<1>8. SumFunction(t) = SumFunction(s) + t[l + 1]
  BY <1>4, SumExtends
<1> QED
  BY <1>1, <1>5, <1>8 DEF Total, t, l

LEMMA TotalFront ==
    ASSUME NEW s \in Seq(Nat), s # <<>>
    PROVE  /\ Front(s) \in Seq(Nat) /\ Last(s) \in Nat /\ Len(s) = Len(Front(s)) + 1
           /\ Total(Front(s)) \in Nat /\ Total(s) = Total(Front(s)) + Last(s)
<1> DEFINE l == Len(s)
           r == Front(s)
           x == Last(s)
<1>1. l \in Nat /\ l # 0 /\ x = s[l] /\ r = SubSeq(s, 1, l - 1)
  BY EmptySeq DEF Front, Last
<1>2. x \in Nat /\ r \in Seq(Nat) /\ Len(r) = l - 1 /\ \A i \in 1..l - 1 : r[i] = s[i]
  <2> HIDE DEF r, x
  <2>1. x \in Nat
    BY <1>1
  <2>2. SubSeq(s, 1, l - 1) \in Seq(Nat) /\ Len(SubSeq(s, 1, l - 1)) = l - 1
    <3> DEFINE k == l - 1
    <3>1. k \in Nat /\ \A i \in 1..k : s[i] \in Nat
      BY <1>1
    <3> HIDE DEF k
    <3>2. SubSeq(s, 1, k) \in Seq(Nat) /\ Len(SubSeq(s, 1, k)) = k
      BY <3>1
    <3> QED
      BY <3>2 DEF k
  <2>3. \A i \in 1..l - 1 : SubSeq(s, 1, l - 1)[i] = s[i]
    BY <1>1
  <2> QED
    BY <1>1, <2>1, <2>2, <2>3
<1> HIDE DEF r, x
<1>3. Append(r, x) = s
  <2> DEFINE t == Append(r, x)
  <2>4. /\ t \in Seq(Nat) /\ Len(t) = Len(r) + 1 /\ t[Len(r) + 1] = x
        /\ \A i \in 1..Len(r) : t[i] = r[i]
    BY <1>2
  <2> HIDE DEF t
  <2>1. /\ t \in Seq(Nat) /\ Len(t) = l
        /\ \A i \in 1..l - 1 : t[i] = s[i]
        /\ t[l] = s[l]
    BY <1>1, <1>2, <2>4
  <2>2. \A i \in 1..l : i \in 1..l - 1 \/ i = l
    BY <1>1
  <2>3. \A i \in 1..l : t[i] = s[i]
    BY <2>1, <2>2
  <2>5. t = s
    <3>1. t \in [1..l -> Nat] /\ s \in [1..l -> Nat]
      BY <1>1, <2>1, SMTT(30)
    <3> QED
      BY <2>3, <3>1
  <2> QED
    BY <2>5 DEF t
<1>4. Total(r) \in Nat /\ Total(Append(r, x)) = Total(r) + x /\ Len(Append(r, x)) = Len(r) + 1
  BY <1>2, TotalAppended
<1> QED
  BY <1>2, <1>3, <1>4 DEF r, x, l

\* A total is a number.
LEMMA TotalType ==
    ASSUME NEW s \in Seq(Nat)
    PROVE  Total(s) \in Nat
BY TotalAppended, 0 \in Nat

\* Rounding down loses less than one.
LEMMA PercentSum ==
    ASSUME NEW a \in Nat, NEW b \in Nat
    PROVE  /\ Percent(a) \in Nat /\ Percent(b) \in Nat /\ Percent(a + b) \in Nat
           /\ Percent(a) + Percent(b) <= Percent(a + b)
           /\ Percent(a + b) <= Percent(a) + Percent(b) + 1
<1> DEFINE x == a * FeePercent
           y == b * FeePercent
<1>1. FeePercent \in Nat
  BY PrizeAssumption
<1>2. x \in Nat /\ y \in Nat /\ (a + b) * FeePercent = x + y
  BY <1>1
<1> HIDE DEF x, y
<1>3. /\ x \div 100 \in Nat /\ y \div 100 \in Nat /\ (x + y) \div 100 \in Nat
      /\ x \div 100 + y \div 100 <= (x + y) \div 100
      /\ (x + y) \div 100 <= x \div 100 + y \div 100 + 1
  BY <1>2
<1> QED
  BY <1>2, <1>3 DEF Percent, x, y

\* What the parts of a prize that is to be settled are.
LEMMA Parts ==
    ASSUME NEW p \in PrizeRecords
    PROVE  /\ OcFee(p) \in Nat /\ Total(p.remaining) \in Nat /\ Percent(Total(p.remaining)) \in Nat
           /\ Len(p.remaining) * Fee \in Nat /\ Refund(p) \in Nat
           /\ Refund(p) = Total(p.remaining) + Percent(Total(p.remaining)) + Len(p.remaining) * Fee
<1>1. p.paid \in Nat /\ p.remaining \in Seq(Nat)
  BY DEF PrizeRecords
<1>2. OcFee(p) \in Nat
  BY <1>1, PercentSum, 0 \in Nat DEF OcFee
<1>3. Total(p.remaining) \in Nat
  BY <1>1, TotalType
<1>4. Percent(Total(p.remaining)) \in Nat
  BY <1>3, PercentSum, 0 \in Nat
<1>5. Len(p.remaining) * Fee \in Nat
  <2>1. Len(p.remaining) \in Nat /\ Fee \in Nat
    BY <1>1, PrizeAssumption
  <2>2. \A m, n \in Nat : m * n \in Nat
    OBVIOUS
  <2> QED
    BY <2>1, <2>2
<1> QED
  BY <1>2, <1>3, <1>4, <1>5 DEF Refund

\* One of the final payments, if it is worth its fee.
Final(to, amount) ==
    IF amount > Fee THEN {[to |-> to, amount |-> amount - Fee, attempt |-> 0]} ELSE {}

LEMMA FinalPaymentsAre ==
    ASSUME NEW p
    PROVE  FinalPayments(p) = IF p.started THEN {}
                ELSE Final("treasury", OcFee(p)) \union Final("sender", Refund(p))
BY DEF FinalPayments, Started, Final

\* The final payments take what is due, but for those too small to be made.
LEMMA FinalPaymentsDue ==
    ASSUME NEW p \in PrizeRecords
    PROVE  /\ IsFiniteSet(FinalPayments(p)) /\ FinalPayments(p) \subseteq TransferRecords
           /\ p.started => FinalPayments(p) = {}
           /\ ~p.started =>
                /\ Due(FinalPayments(p)) \in Int
                /\ Due(FinalPayments(p)) <= OcFee(p) + Refund(p)
                /\ Due(FinalPayments(p)) >= OcFee(p) + Refund(p) - 2 * Fee
<1> DEFINE a == OcFee(p)
           b == Refund(p)
           F == Final("treasury", a)
           G == Final("sender", b)
           x == [to |-> "treasury", amount |-> a - Fee, attempt |-> 0]
           y == [to |-> "sender", amount |-> b - Fee, attempt |-> 0]
<1>1. a \in Nat /\ b \in Nat /\ Fee \in Nat
  BY Parts, PrizeAssumption
<1>2. FinalPayments(p) = IF p.started THEN {} ELSE F \union G
  BY FinalPaymentsAre
<1>3. /\ F = (IF a > Fee THEN {x} ELSE {}) /\ G = (IF b > Fee THEN {y} ELSE {})
      /\ x \notin G /\ x.amount = a - Fee /\ y.amount = b - Fee
  BY DEF Final
<1>4. /\ a > Fee => x \in TransferRecords /\ x.amount \in Nat
      /\ b > Fee => y \in TransferRecords /\ y.amount \in Nat
  BY <1>1 DEF TransferRecords
<1> HIDE DEF F, G, x, y, a, b
<1>5. /\ Payments(G) /\ Due(G) \in Int /\ Due(G) <= b /\ Due(G) >= b - Fee
  <2>1. Payments({}) /\ Due({}) = 0
    BY NoPayment
  <2>2. CASE b > Fee
    <3>1. y \notin {} /\ {} \union {y} = {y}
      OBVIOUS
    <3>2. Payments({y}) /\ Due({y}) = Due({}) + (y.amount + Fee)
      BY <1>4, <2>1, <2>2, <3>1, PaymentAdded
    <3> QED
      BY <1>1, <1>3, <2>1, <2>2, <3>2
  <2>3. CASE ~(b > Fee)
    BY <1>1, <1>3, <2>1, <2>3
  <2> QED
    BY <2>2, <2>3
<1>6. /\ Payments(F \union G) /\ Due(F \union G) \in Int
      /\ Due(F \union G) <= a + b /\ Due(F \union G) >= a + b - 2 * Fee
  <2>1. CASE a > Fee
    <3>1. F \union G = G \union {x}
      BY <1>3, <2>1
    <3>2. Payments(G \union {x}) /\ Due(G \union {x}) = Due(G) + (x.amount + Fee)
      BY <1>3, <1>4, <1>5, <2>1, PaymentAdded
    <3> QED
      <4>1. x.amount + Fee = a
        BY <1>1, <1>3, <2>1
      <4>2. Payments(F \union G) /\ Due(F \union G) = Due(G) + a
        BY <3>1, <3>2, <4>1
      <4> QED
        BY <1>1, <1>5, <4>2
  <2>2. CASE ~(a > Fee)
    <3>1. F \union G = G
      BY <1>3, <2>2
    <3> QED
      <4>1. Payments(F \union G) /\ Due(F \union G) = Due(G)
        BY <1>5, <3>1
      <4> QED
        BY <1>1, <1>5, <2>2, <4>1
  <2> QED
    BY <2>1, <2>2
<1>7. IsFiniteSet(FinalPayments(p))
  BY <1>2, <1>6, FS_EmptySet DEF Payments
<1>8. FinalPayments(p) \subseteq TransferRecords
  BY <1>2, <1>3, <1>4
<1> QED
  BY <1>1, <1>2, <1>6, <1>7, <1>8 DEF a, b

\* The claims of a prize, its users and their reservations.
ClaimsInv == PrizeTypes /\ OneClaimEach /\ Settlement

LEMMA ClaimsInit == PrizeInit => ClaimsInv
<1> SUFFICES ASSUME PrizeInit PROVE ClaimsInv
  OBVIOUS
<1> USE DEF PrizeInit
<1>1. \A fee \in {0, Percent(Total(Prizes))} : Deposit(fee) \in Int
  <2>1. Prizes \in Seq(Nat) /\ Fee \in Nat
    BY PrizeAssumption
  <2>2. Total(Prizes) \in Nat
    BY <2>1, TotalType
  <2>3. Percent(Total(Prizes)) \in Nat
    BY <2>2, PercentSum, 0 \in Nat
  <2>4. Len(Prizes) * Fee \in Int
    BY <2>1
  <2> QED
    BY <2>2, <2>3, <2>4 DEF Deposit
<1>2. PrizeTypes
  <2>1. prize \in PrizeRecords
    BY PrizeAssumption DEF PrizeRecords
  <2>2. IsFiniteSet(claims) /\ IsFiniteSet(transfers)
    BY FS_EmptySet
  <2>3. won \in [Users -> Nat]
    OBVIOUS
  <2> QED
    BY <1>1, <2>1, <2>2, <2>3 DEF PrizeTypes
<1>3. OneClaimEach
  BY DEF OneClaimEach, Claimed
<1>4. Settlement
  BY DEF Settlement
<1> QED
  BY <1>2, <1>3, <1>4 DEF ClaimsInv

LEMMA ClaimKeeps ==
    ASSUME ClaimsInv, NEW u \in Users, Claim(u)
    PROVE  ClaimsInv'
<1> DEFINE c == [user |-> u, amount |-> Last(prize.remaining), answer |-> "none",
                 late |-> prize.started]
<1>1. /\ prize.remaining \in Seq(Nat) /\ prize.remaining # <<>> /\ ~Claimed(u)
      /\ prize' = [prize EXCEPT !.remaining = Front(@), !.reservations = @ \union {u}]
      /\ claims' = claims \union {c}
      /\ UNCHANGED <<content, endJob, transfers, won, balance>>
  BY DEF ClaimsInv, PrizeTypes, PrizeRecords, Claim, prizeJobs
<1>2. Front(prize.remaining) \in Seq(Nat) /\ Last(prize.remaining) \in Nat
  BY <1>1, TotalFront
<1>3. PrizeTypes'
  <2>1. prize' \in PrizeRecords
    BY <1>1, <1>2 DEF ClaimsInv, PrizeTypes, PrizeRecords
  <2>2. IsFiniteSet(claims') /\ claims' \subseteq ClaimRecords
    <3>1. c \in ClaimRecords
      BY <1>2 DEF ClaimRecords, ClaimsInv, PrizeTypes, PrizeRecords
    <3> QED
      BY <1>1, <3>1, FS_AddElement DEF ClaimsInv, PrizeTypes
  <2> QED
    BY <1>1, <2>1, <2>2 DEF ClaimsInv, PrizeTypes
<1>4. OneClaimEach'
  <2>1. /\ prize'.reservations = prize.reservations \union {u}
        /\ prize'.winners = prize.winners /\ won' = won
    BY <1>1 DEF ClaimsInv, PrizeTypes, PrizeRecords
  <2>2. \A d \in claims : d.user # u
    BY <1>1 DEF ClaimsInv, OneClaimEach, Claimed
  <2>3. c.user = u /\ c.answer = "none"
    OBVIOUS
  <2> HIDE DEF c
  <2>4. \A d \in claims', e \in claims' : d.user = e.user => d = e
    BY <1>1, <2>2, <2>3 DEF ClaimsInv, OneClaimEach
  <2>5. \A d \in claims' : /\ d.user \in prize'.reservations
                           /\ won'[d.user] = IF d.answer = "ok" THEN 1 ELSE 0
    BY <1>1, <2>1, <2>3 DEF ClaimsInv, OneClaimEach, Claimed
  <2>6. prize'.reservations \intersect prize'.winners = {}
    BY <1>1, <2>1 DEF ClaimsInv, OneClaimEach, Claimed
  <2> QED
    BY <1>1, <2>1, <2>4, <2>5, <2>6 DEF ClaimsInv, OneClaimEach, Claimed
<1>5. Settlement'
  BY <1>1 DEF ClaimsInv, Settlement, PrizeTypes, PrizeRecords
<1> QED
  BY <1>3, <1>4, <1>5 DEF ClaimsInv

\* A claim that is answered is the same claim of its user.
LEMMA AnsweredIs ==
    ASSUME ClaimsInv, NEW c \in claims, NEW answer \in {"ok", "refused", "failed"},
           Answered(c, answer)
    PROVE  \E d \in ClaimRecords :
                /\ d.user = c.user /\ d.amount = c.amount /\ d.answer = answer
                /\ d \notin claims \ {c} /\ claims' = (claims \ {c}) \union {d}
<1> DEFINE d == [c EXCEPT !.answer = answer]
<1>1. c \in ClaimRecords
  BY DEF ClaimsInv, PrizeTypes
<1>2. /\ d \in ClaimRecords /\ d.user = c.user /\ d.amount = c.amount /\ d.answer = answer
      /\ claims' = (claims \ {c}) \union {d}
  BY <1>1 DEF ClaimRecords, Answered
<1> HIDE DEF d
<1>3. d \notin claims \ {c}
  BY <1>2 DEF ClaimsInv, OneClaimEach
<1> QED
  BY <1>2, <1>3

LEMMA AnswerKeeps ==
    ASSUME ClaimsInv, NEW c \in claims, LedgerAnswers(c)
    PROVE  ClaimsInv'
<1>1. PICK answer \in {"ok", "refused", "failed"} :
        /\ Answered(c, answer)
        /\ won' = IF answer = "ok" THEN [won EXCEPT ![c.user] = @ + 1] ELSE won
  BY DEF LedgerAnswers
<1>2. /\ c.answer = "none" /\ balance' \in Int
      /\ UNCHANGED <<content, prize, endJob, transfers>>
  <2>1. c.amount \in Nat /\ Fee \in Nat /\ balance \in Int
    BY PrizeAssumption DEF ClaimsInv, PrizeTypes, ClaimRecords
  <2> QED
    BY <2>1 DEF LedgerAnswers, messageVars, prizeJobs
<1>3. PICK d \in ClaimRecords :
        /\ d.user = c.user /\ d.answer = answer /\ claims' = (claims \ {c}) \union {d}
  BY <1>1, AnsweredIs
<1>4. c.user \in Users /\ won \in [Users -> Nat] /\ won[c.user] = 0
  BY <1>2 DEF ClaimsInv, PrizeTypes, OneClaimEach, ClaimRecords
<1>5. /\ won' \in [Users -> Nat] /\ won'[c.user] = (IF answer = "ok" THEN 1 ELSE 0)
      /\ \A u \in Users : u # c.user => won'[u] = won[u]
  BY <1>1, <1>4
<1>6. PrizeTypes'
  <2>1. IsFiniteSet(claims') /\ claims' \subseteq ClaimRecords
    BY <1>3, FS_AddElement, FS_RemoveElement DEF ClaimsInv, PrizeTypes
  <2> QED
    BY <1>2, <1>5, <2>1 DEF ClaimsInv, PrizeTypes
<1>7. OneClaimEach'
  <2>1. \A e \in claims : e.user \in Users /\ (e # c => e.user # c.user)
    BY DEF ClaimsInv, PrizeTypes, OneClaimEach, ClaimRecords
  <2>2. \A e \in claims', f \in claims' : e.user = f.user => e = f
    BY <1>3, <2>1 DEF ClaimsInv, OneClaimEach
  <2>3. \A e \in claims' : /\ e.user \in prize'.reservations
                           /\ won'[e.user] = IF e.answer = "ok" THEN 1 ELSE 0
    BY <1>2, <1>3, <1>5, <2>1 DEF ClaimsInv, OneClaimEach
  <2>4. c.user \in prize.reservations /\ c.user \notin prize.winners
    BY DEF ClaimsInv, OneClaimEach
  <2>5. \A u \in Users : /\ won'[u] <= 1
                         /\ u \in prize.winners => won'[u] = 1
                         /\ ~Claimed(u) => won'[u] = 0
    BY <1>4, <1>5, <2>4 DEF ClaimsInv, OneClaimEach, Claimed
  <2> QED
    BY <1>2, <2>2, <2>3, <2>5 DEF ClaimsInv, OneClaimEach, Claimed
<1>8. Settlement'
  BY <1>2 DEF ClaimsInv, Settlement
<1> QED
  BY <1>6, <1>7, <1>8 DEF ClaimsInv

LEMMA PaidKeeps ==
    ASSUME ClaimsInv, NEW c \in claims, ClaimPaid(c)
    PROVE  ClaimsInv'
<1>1. /\ c.answer = "ok" /\ claims' = claims \ {c}
      /\ UNCHANGED <<content, endJob, transfers, won, balance>>
  BY DEF ClaimPaid, prizeJobs
<1>2. /\ c.user \in Users /\ c.amount \in Nat /\ won[c.user] = 1
      /\ c.user \in prize.reservations
  BY <1>1 DEF ClaimsInv, PrizeTypes, OneClaimEach, ClaimRecords
<1>3. /\ prize' \in PrizeRecords /\ prize'.started = prize.started
      /\ \/ prize' = prize
         \/ /\ prize'.reservations = prize.reservations \ {c.user}
            /\ prize'.winners = prize.winners \union {c.user}
  <2>1. prize \in PrizeRecords
    BY DEF ClaimsInv, PrizeTypes
  <2>2. CASE prize' = prize
    BY <2>1, <2>2
  <2>3. CASE prize' = [prize EXCEPT !.reservations = @ \ {c.user},
                                    !.winners = @ \union {c.user}, !.paid = @ + c.amount]
    <3>1. prize.paid + c.amount \in Nat
      BY <1>2, <2>1 DEF PrizeRecords
    <3>2. prize.winners \union {c.user} \in SUBSET Users
      BY <1>2, <2>1 DEF PrizeRecords
    <3> QED
      BY <2>1, <2>3, <3>1, <3>2 DEF PrizeRecords
  <2> QED
    BY <2>2, <2>3 DEF ClaimPaid
<1>4. PrizeTypes'
  BY <1>1, <1>3, FS_RemoveElement DEF ClaimsInv, PrizeTypes
<1>5. OneClaimEach'
  <2>1. \A d \in claims' : d \in claims /\ d.user # c.user
    BY <1>1 DEF ClaimsInv, OneClaimEach
  <2>2. \A d \in claims' : /\ d.user \in prize'.reservations
                           /\ won'[d.user] = IF d.answer = "ok" THEN 1 ELSE 0
    BY <1>1, <1>3, <2>1 DEF ClaimsInv, OneClaimEach
  <2>3. prize'.reservations \intersect prize'.winners = {}
    BY <1>3 DEF ClaimsInv, OneClaimEach
  <2>4. \A u \in Users : /\ won'[u] <= 1
                         /\ u \in prize'.winners => won'[u] = 1
                         /\ u \notin prize'.winners /\ u \notin prize'.reservations => won'[u] = 0
    BY <1>1, <1>2, <1>3 DEF ClaimsInv, OneClaimEach, Claimed
  <2>5. \A d \in claims', e \in claims' : d.user = e.user => d = e
    BY <1>1 DEF ClaimsInv, OneClaimEach
  <2> QED
    BY <2>2, <2>3, <2>4, <2>5 DEF OneClaimEach, Claimed
<1>6. Settlement'
  BY <1>1, <1>3 DEF ClaimsInv, Settlement
<1> QED
  BY <1>4, <1>5, <1>6 DEF ClaimsInv

LEMMA NotPaidKeeps ==
    ASSUME ClaimsInv, NEW c \in claims, ClaimNotPaid(c)
    PROVE  ClaimsInv'
<1>1. /\ c.answer # "ok" /\ claims' = claims \ {c}
      /\ UNCHANGED <<content, endJob, transfers, won, balance>>
  BY DEF ClaimNotPaid, prizeJobs
<1>2. /\ c.user \in Users /\ c.amount \in Nat /\ won[c.user] = 0
      /\ c.user \in prize.reservations
  BY <1>1 DEF ClaimsInv, PrizeTypes, OneClaimEach, ClaimRecords
<1>3. /\ prize' \in PrizeRecords /\ prize'.started = prize.started
      /\ \/ prize' = prize
         \/ /\ prize'.reservations = prize.reservations \ {c.user}
            /\ prize'.winners = prize.winners
  <2>1. prize.remaining \in Seq(Nat)
    BY DEF ClaimsInv, PrizeTypes, PrizeRecords
  <2>2. Append(prize.remaining, c.amount) \in Seq(Nat)
    BY <1>2, <2>1
  <2> QED
    BY <1>2, <2>2 DEF ClaimNotPaid, PutBack, ClaimsInv, PrizeTypes, PrizeRecords
<1>4. PrizeTypes'
  BY <1>1, <1>3, FS_RemoveElement DEF ClaimsInv, PrizeTypes
<1>5. OneClaimEach'
  <2>1. \A d \in claims' : d \in claims /\ d.user # c.user
    BY <1>1 DEF ClaimsInv, OneClaimEach
  <2>2. \A d \in claims' : /\ d.user \in prize'.reservations
                           /\ won'[d.user] = IF d.answer = "ok" THEN 1 ELSE 0
    BY <1>1, <1>3, <2>1 DEF ClaimsInv, OneClaimEach
  <2>3. prize'.reservations \intersect prize'.winners = {}
    BY <1>3 DEF ClaimsInv, OneClaimEach
  <2>4. \A u \in Users : /\ won'[u] <= 1
                         /\ u \in prize'.winners => won'[u] = 1
                         /\ u \notin prize'.winners /\ u \notin prize'.reservations => won'[u] = 0
    BY <1>1, <1>2, <1>3 DEF ClaimsInv, OneClaimEach, Claimed
  <2>5. \A d \in claims', e \in claims' : d.user = e.user => d = e
    BY <1>1 DEF ClaimsInv, OneClaimEach
  <2> QED
    BY <2>2, <2>3, <2>4, <2>5 DEF OneClaimEach, Claimed
<1>6. Settlement'
  BY <1>1, <1>3 DEF ClaimsInv, Settlement
<1> QED
  BY <1>4, <1>5, <1>6 DEF ClaimsInv

\* The steps that may settle a prize, and what they do to the message.
Settles ==
    /\ \/ UNCHANGED <<content, prize, transfers>>
       \/ /\ content = "prize"
          /\ content' \in {"prize", "deleted", "removed"}
          /\ prize' = [prize EXCEPT !.started = TRUE]
          /\ transfers' = transfers \union FinalPayments(prize)
       \/ content # "prize" /\ content' = "removed" /\ UNCHANGED <<prize, transfers>>
    /\ content' = "prize" /\ endJob' # endJob => prize'.started
    /\ endJob' \in BOOLEAN
    /\ UNCHANGED <<claims, won, balance>>

LEMMA SettlingSteps ==
    ASSUME ClaimsInv, EndPrize \/ HardDelete \/ RemoveEvent
    PROVE  Settles
<1>1. prize \in PrizeRecords /\ content \in {"prize", "deleted", "removed"} /\ endJob \in BOOLEAN
  BY DEF ClaimsInv, PrizeTypes
<1>2. CASE EndPrize
  BY <1>1, <1>2 DEF EndPrize, Settles, PrizeRecords
<1>3. CASE RemoveEvent
  BY <1>1, <1>3 DEF RemoveEvent, Settles, PrizeRecords, prizeJobs
<1>4. CASE HardDelete
  <2>1. CASE content # "prize"
    BY <1>1, <1>4, <2>1 DEF HardDelete, Settles
  <2>2. CASE content = "prize"
    <3>1. /\ content' = "deleted" /\ endJob' = FALSE
          /\ transfers' = transfers \union (IF endJob THEN FinalPayments(prize) ELSE {})
          /\ prize' = [prize EXCEPT !.started = @ \/ endJob]
          /\ UNCHANGED <<claims, won, balance>>
      BY <1>4, <2>2 DEF HardDelete
    <3>2. endJob = FALSE => prize.started = TRUE /\ FinalPayments(prize) = {}
      BY <1>1, <2>2, FinalPaymentsDue DEF ClaimsInv, Settlement, PrizeRecords
    <3>3. prize' = [prize EXCEPT !.started = TRUE]
      BY <1>1, <3>1, <3>2 DEF PrizeRecords
    <3> QED
      BY <1>1, <2>2, <3>1, <3>2, <3>3 DEF Settles
  <2> QED
    BY <2>1, <2>2
<1> QED
  BY <1>2, <1>3, <1>4

LEMMA SettlingKeeps ==
    ASSUME ClaimsInv, Settles
    PROVE  ClaimsInv'
<1>1. prize \in PrizeRecords /\ content \in {"prize", "deleted", "removed"}
  BY DEF ClaimsInv, PrizeTypes
<1>2. /\ prize' \in PrizeRecords /\ prize'.reservations = prize.reservations
      /\ prize'.winners = prize.winners
      /\ prize' = prize \/ prize'.started = TRUE
  BY <1>1 DEF Settles, PrizeRecords
<1>3. PrizeTypes'
  <2>1. IsFiniteSet(transfers') /\ transfers' \subseteq TransferRecords
    <3>1. IsFiniteSet(FinalPayments(prize)) /\ FinalPayments(prize) \subseteq TransferRecords
      BY <1>1, FinalPaymentsDue
    <3> QED
      <4>1. IsFiniteSet(transfers \union FinalPayments(prize))
        BY <3>1, FS_Union DEF ClaimsInv, PrizeTypes
      <4>2. transfers' = transfers \/ transfers' = transfers \union FinalPayments(prize)
        BY DEF Settles
      <4> HIDE DEF ClaimsInv
      <4> QED
        BY <3>1, <4>1, <4>2 DEF ClaimsInv, PrizeTypes
  <2>2. content' \in {"prize", "deleted", "removed"}
    BY <1>1 DEF Settles
  <2> QED
    BY <1>2, <2>1, <2>2 DEF Settles, ClaimsInv, PrizeTypes
<1>4. OneClaimEach'
  BY <1>2 DEF Settles, ClaimsInv, OneClaimEach, Claimed
<1>5. Settlement'
  <2>1. CASE endJob' # endJob
    BY <1>1, <1>2, <2>1 DEF Settles, Settlement
  <2>2. CASE endJob' = endJob
    BY <1>1, <1>2, <2>2 DEF Settles, Settlement, ClaimsInv, PrizeTypes
  <2> QED
    BY <2>1, <2>2
<1> QED
  BY <1>3, <1>4, <1>5 DEF ClaimsInv

LEMMA TransferKeeps ==
    ASSUME ClaimsInv, NEW t \in transfers, MakeTransfer(t)
    PROVE  ClaimsInv'
<1>1. t.amount \in Nat /\ t.attempt \in Nat /\ Fee \in Nat /\ balance \in Int /\ t \in TransferRecords
  BY PrizeAssumption DEF ClaimsInv, PrizeTypes, TransferRecords
<1>2. [t EXCEPT !.attempt = @ + 1] \in TransferRecords
  BY <1>1 DEF TransferRecords
<1>3. balance' \in Int /\ UNCHANGED <<content, prize, endJob, claims, won>>
  BY <1>1 DEF MakeTransfer, messageVars, prizeJobs
<1>4. IsFiniteSet(transfers') /\ transfers' \subseteq TransferRecords
  <2>1. /\ IsFiniteSet(transfers \ {t})
        /\ IsFiniteSet((transfers \ {t}) \union {[t EXCEPT !.attempt = @ + 1]})
    BY FS_AddElement, FS_RemoveElement DEF ClaimsInv, PrizeTypes
  <2> QED
    BY <1>2, <2>1 DEF MakeTransfer, ClaimsInv, PrizeTypes
<1> QED
  BY <1>3, <1>4 DEF ClaimsInv, PrizeTypes, OneClaimEach, Claimed, Settlement

\* Steps that change neither the prize nor a claim, nor a payment.
OtherSteps ==
    \/ \E by \in {"sender", "moderator"} : DeleteMessage(by)
    \/ UndeleteMessage \/ ClockTicks \/ UNCHANGED prizeVars

LEMMA OthersKeep ==
    ASSUME OtherSteps
    PROVE  UNCHANGED <<content, prize, endJob, claims, transfers, won, balance>>
BY DEF OtherSteps, DeleteMessage, UndeleteMessage, ClockTicks, prizeVars, messageVars, prizeJobs

\* What a step is.
LEMMA PrizeSteps ==
    ASSUME ClaimsInv, [PrizeNext]_prizeVars
    PROVE  \/ \E u \in Users : Claim(u)
           \/ \E c \in claims : LedgerAnswers(c) \/ ClaimPaid(c) \/ ClaimNotPaid(c)
           \/ \E t \in transfers : MakeTransfer(t)
           \/ Settles \/ OtherSteps
BY SettlingSteps DEF PrizeNext, OtherSteps

LEMMA ClaimsStep ==
    ASSUME ClaimsInv, [PrizeNext]_prizeVars
    PROVE  ClaimsInv'
<1>1. CASE OtherSteps
  <2>1. UNCHANGED <<content, prize, endJob, claims, transfers, won, balance>>
    BY <1>1, OthersKeep
  <2> QED
    BY <2>1 DEF ClaimsInv, PrizeTypes, OneClaimEach, Claimed, Settlement
<1> QED
  BY <1>1, PrizeSteps, ClaimKeeps, AnswerKeeps, PaidKeeps, NotPaidKeeps, SettlingKeeps, TransferKeeps

-----------------------------------------------------------------------------
(* The history: what was not paid in, and what late claims take. *)

HistoryInv ==
    /\ unpaid \in Nat /\ late \in Int
    /\ ~prize.started => late = 0 /\ \A c \in claims : ~c.late

LEMMA HistoryInit == PrizeInit => HistoryInv
<1>1. Percent(Total(Prizes)) \in Nat /\ 0 \in Nat
  BY TotalType, PercentSum, 0 \in Nat, PrizeAssumption
<1>2. \A fee \in {0, Percent(Total(Prizes))} : Percent(Total(Prizes)) - fee \in Nat
  BY <1>1
<1> QED
  BY <1>2 DEF PrizeInit, HistoryInv

\* A claim after the final payments is late, as long as it may still be paid.
LEMMA HistorySteps ==
    ASSUME ClaimsInv, [PrizeNext]_prizeVars
    PROVE  /\ unpaid' = unpaid
           /\ \/ late' = late
              \/ \E u \in Users : Claim(u)
              \/ \E c \in claims : ClaimNotPaid(c)
BY DEF PrizeNext, prizeVars, historyVars, Claim, LedgerAnswers, ClaimPaid, ClaimNotPaid, EndPrize,
   MakeTransfer, DeleteMessage, UndeleteMessage, HardDelete, RemoveEvent, ClockTicks

LEMMA HistoryStep ==
    ASSUME ClaimsInv, HistoryInv, [PrizeNext]_prizeVars
    PROVE  HistoryInv'
<1>1. unpaid' \in Nat
  BY HistorySteps DEF HistoryInv
<1>2. prize \in PrizeRecords /\ claims \subseteq ClaimRecords /\ late \in Int
  BY DEF ClaimsInv, PrizeTypes, HistoryInv
<1>3. ASSUME NEW u \in Users, Claim(u)
      PROVE  HistoryInv'
  <2> DEFINE a == Last(prize.remaining)
  <2>1. a \in Nat /\ Fee \in Nat
    BY <1>2, <1>3, TotalFront, PrizeAssumption DEF Claim, PrizeRecords
  <2>2. /\ prize'.started = prize.started
        /\ late' = late + (IF prize.started THEN a + Fee ELSE 0)
    BY <1>2, <1>3 DEF Claim, PrizeRecords
  <2>3. \A c \in claims' : c \in claims \/ c.late = prize.started
    BY <1>3 DEF Claim
  <2> HIDE DEF a
  <2>4. late' \in Int /\ (~prize.started => late' = late)
    BY <1>2, <2>1, <2>2
  <2> QED
    BY <1>1, <2>2, <2>3, <2>4 DEF HistoryInv
<1>4. ASSUME NEW c \in claims, ClaimNotPaid(c)
      PROVE  HistoryInv'
  <2>1. c.amount \in Nat /\ Fee \in Nat /\ c.late \in BOOLEAN
    BY <1>2, PrizeAssumption DEF ClaimRecords
  <2>2. /\ prize'.started = prize.started /\ claims' = claims \ {c}
        /\ late' = late - (IF c.late THEN c.amount + Fee ELSE 0)
    BY <1>2, <1>4 DEF ClaimNotPaid, PutBack, PrizeRecords
  <2>3. late' \in Int /\ (~c.late => late' = late)
    BY <1>2, <2>1, <2>2
  <2> QED
    BY <1>1, <2>2, <2>3 DEF HistoryInv
<1>5. ASSUME late' = late, prize'.started \/ prize'.started = prize.started,
             \A d \in claims' : \E c \in claims : d.late = c.late
      PROVE  HistoryInv'
  BY <1>1, <1>5 DEF HistoryInv
<1>6. CASE late' = late
  <2>1. ASSUME NEW c \in claims, LedgerAnswers(c)
        PROVE  HistoryInv'
    <3>1. \A d \in claims' : \E e \in claims : d.late = e.late
      BY <1>2, <2>1 DEF LedgerAnswers, Answered, ClaimRecords
    <3>2. prize' = prize
      BY <2>1 DEF LedgerAnswers, messageVars
    <3> QED
      BY <1>5, <1>6, <3>1, <3>2
  <2>2. ASSUME NEW c \in claims, ClaimPaid(c)
        PROVE  HistoryInv'
    <3>1. claims' = claims \ {c} /\ prize'.started = prize.started
      BY <1>2, <2>2 DEF ClaimPaid, PrizeRecords
    <3> QED
      BY <1>5, <1>6, <3>1
  <2>3. ASSUME NEW t \in transfers, MakeTransfer(t)
        PROVE  HistoryInv'
    BY <1>5, <1>6, <2>3 DEF MakeTransfer, messageVars
  <2>4. CASE Settles
    <3>1. claims' = claims /\ (prize'.started \/ prize' = prize)
      BY <1>2, <2>4 DEF Settles, PrizeRecords
    <3> QED
      BY <1>5, <1>6, <3>1
  <2>5. CASE OtherSteps
    BY <1>5, <1>6, <2>5, OthersKeep
  <2> QED
    BY <1>3, <1>4, <2>1, <2>2, <2>3, <2>4, <2>5, PrizeSteps
<1> QED
  BY <1>3, <1>4, <1>6, HistorySteps

\* A claim holds a reservation of its user from the first step to the last, and
\* who has one, or has won, makes no other: no member is paid twice.
THEOREM OnePrizeForEach == PrizeSpec => []OnePrizeEach
<1>1. ClaimsInv => OnePrizeEach
  BY DEF ClaimsInv, OneClaimEach, OnePrizeEach
<1>2. ClaimsInv /\ [PrizeNext]_prizeVars => ClaimsInv'
  BY ClaimsStep
<1> QED
  BY <1>1, <1>2, ClaimsInit, PTL DEF PrizeSpec

-----------------------------------------------------------------------------
(* What the group holds. *)

LEMMA PaymentSets ==
    ASSUME ClaimsInv
    PROVE  /\ Payments(claims) /\ Payments(UnderWay) /\ Payments(transfers)
           /\ Due(UnderWay) \in Int /\ Due(transfers) \in Int /\ Amounts(claims) \in Nat
           /\ Held(prize) \in Int
<1>1. Payments(claims) /\ Payments(transfers)
  BY DEF Payments, ClaimsInv, PrizeTypes, ClaimRecords, TransferRecords
<1>2. Payments(UnderWay)
  <2>1. UnderWay \subseteq claims
    BY DEF UnderWay
  <2> QED
    BY <1>1, <2>1, FS_Subset DEF Payments
<1>3. Due(UnderWay) \in Int /\ Due(transfers) \in Int /\ Amounts(claims) \in Nat
  BY <1>1, <1>2, PaymentsType
<1>4. Held(prize) \in Int
  <2>1. prize \in PrizeRecords /\ prize.paid \in Nat
    BY DEF ClaimsInv, PrizeTypes, PrizeRecords
  <2>2. Total(prize.remaining) \in Nat /\ Len(prize.remaining) * Fee \in Nat
    BY <2>1, Parts
  <2>3. prize.paid + Amounts(claims) + Total(prize.remaining) \in Nat
    BY <1>3, <2>1, <2>2
  <2>4. Percent(prize.paid + Amounts(claims) + Total(prize.remaining)) \in Nat
    BY <2>3, PercentSum, 0 \in Nat
  <2> QED
    BY <2>2, <2>4 DEF Held
<1> QED
  BY <1>1, <1>2, <1>3, <1>4

\* What the group holds beyond the prizes under way.
Left == balance - Due(UnderWay)

\* A step of a claim moves what it takes between the parts.
Carries ==
    /\ Unsettled' = Unsettled /\ transfers' = transfers
    /\ Unsettled => Left' - Held(prize)' = Left - Held(prize)

\* One prize less is one amount and one fee less.
LEMMA HeldMoves ==
    ASSUME NEW r \in Seq(Nat), NEW s \in Seq(Nat), NEW a \in Nat,
           Len(s) = Len(r) + 1, Total(s) = Total(r) + a
    PROVE  Total(s) + Len(s) * Fee = Total(r) + Len(r) * Fee + (a + Fee)
<1>1. Len(r) \in Nat /\ Fee \in Nat /\ Total(r) \in Nat
  BY PrizeAssumption, TotalType
<1>2. \A m, n \in Nat : (m + 1) * n = m * n + n /\ m * n \in Nat
  OBVIOUS
<1>3. Len(s) * Fee = Len(r) * Fee + Fee /\ Len(r) * Fee \in Nat
  BY <1>1, <1>2
<1> QED
  BY <1>1, <1>3

LEMMA ClaimAccounts ==
    ASSUME ClaimsInv, NEW u \in Users, Claim(u)
    PROVE  /\ Carries /\ Left' <= Left
           /\ Last(prize.remaining) \in Nat /\ Left' = Left - (Last(prize.remaining) + Fee)
<1> DEFINE r == Front(prize.remaining)
           a == Last(prize.remaining)
           c == [user |-> u, amount |-> a, answer |-> "none", late |-> prize.started]
<1>1. /\ prize.remaining \in Seq(Nat) /\ prize.remaining # <<>> /\ ~Claimed(u)
      /\ prize \in PrizeRecords /\ prize.paid \in Nat
  BY DEF ClaimsInv, PrizeTypes, PrizeRecords, Claim
<1>2. /\ prize' = [prize EXCEPT !.remaining = r, !.reservations = @ \union {u}]
      /\ claims' = claims \union {c}
      /\ UNCHANGED <<content, transfers, balance>>
  BY DEF Claim
<1>3. prize'.remaining = r /\ prize'.paid = prize.paid /\ prize'.started = prize.started
  BY <1>1, <1>2 DEF PrizeRecords
<1>4. /\ r \in Seq(Nat) /\ a \in Nat /\ Len(prize.remaining) = Len(r) + 1
      /\ Total(prize.remaining) = Total(r) + a /\ Total(r) \in Nat
  BY <1>1, TotalFront
<1>5. c.user = u /\ c.amount = a /\ c.answer = "none"
  OBVIOUS
<1> HIDE DEF r, a, c
<1>6. c \notin claims
  BY <1>1, <1>5 DEF ClaimsInv, OneClaimEach, Claimed
<1>7. UnderWay' = UnderWay \union {c} /\ c \notin UnderWay
  BY <1>2, <1>5, <1>6 DEF UnderWay
<1>8. /\ Due(UnderWay)' = Due(UnderWay) + (a + Fee) /\ Due(UnderWay) \in Int
      /\ Amounts(claims') = Amounts(claims) + a /\ Amounts(claims) \in Nat
  BY <1>2, <1>4, <1>5, <1>6, <1>7, PaymentSets, PaymentAdded
<1>9. Total(prize.remaining) + Len(prize.remaining) * Fee = Total(r) + Len(r) * Fee + (a + Fee)
  BY <1>1, <1>4, HeldMoves
<1>10. Fee \in Nat /\ balance \in Int /\ Len(r) * Fee \in Int /\ Len(prize.remaining) * Fee \in Int
  <2>1. Fee \in Nat /\ balance \in Int
    BY PrizeAssumption DEF ClaimsInv, PrizeTypes
  <2>2. Len(r) \in Nat /\ Len(prize.remaining) \in Nat
    BY <1>4
  <2>3. \A k, n \in Nat : k * n \in Int
    OBVIOUS
  <2> QED
    BY <2>1, <2>2, <2>3
<1>11. Left' = Left - (a + Fee) /\ Left \in Int
  <2> DEFINE d == Due(UnderWay)
             e == Due(UnderWay)'
  <2>1. e = d + (a + Fee) /\ d \in Int /\ Left = balance - d /\ Left' = balance - e
    BY <1>2, <1>8 DEF Left
  <2> HIDE DEF d, e
  <2> QED
    BY <1>4, <1>10, <2>1
<1>12. Held(prize)' = Held(prize) - (a + Fee)
  <2>1. prize.paid + (Amounts(claims) + a) + Total(r) = prize.paid + Amounts(claims) + (Total(r) + a)
    BY <1>1, <1>4, <1>8
  <2> DEFINE P == Percent(prize.paid + Amounts(claims) + Total(prize.remaining))
  <2>2. Held(prize)' = P + Total(r) + Len(r) * Fee
    BY <1>3, <1>4, <1>8, <2>1 DEF Held
  <2>3. Held(prize) = P + Total(prize.remaining) + Len(prize.remaining) * Fee
    BY DEF Held
  <2>4. P \in Int
    <3>1. prize.paid + Amounts(claims) + Total(prize.remaining) \in Nat
      BY <1>1, <1>4, <1>8
    <3> QED
      BY <3>1, PercentSum, 0 \in Nat
  <2>5. Total(prize.remaining) \in Int
    BY <1>4
  <2> DEFINE R == Total(prize.remaining)
             k == Len(prize.remaining) * Fee
             S == Total(r)
             j == Len(r) * Fee
  <2>6. /\ R \in Int /\ S \in Int /\ j \in Int /\ k \in Int /\ a \in Int /\ Fee \in Int
        /\ R + k = S + j + (a + Fee)
        /\ Held(prize)' = P + S + j /\ Held(prize) = P + R + k
    BY <1>4, <1>9, <1>10, <2>2, <2>3, <2>5
  <2> HIDE DEF P, R, S, j, k
  <2> QED
    BY <2>4, <2>6
<1>13. Held(prize) \in Int
  BY PaymentSets
<1> QED
  <2>1. Left' <= Left /\ (Unsettled => Left' - Held(prize)' = Left - Held(prize))
    BY <1>4, <1>10, <1>11, <1>12, <1>13, SMTT(30)
  <2>2. Unsettled' = Unsettled
    BY <1>2, <1>3 DEF Unsettled
  <2> QED
    BY <1>2, <1>4, <1>11, <2>1, <2>2 DEF Carries, a

LEMMA AnswerAccounts ==
    ASSUME ClaimsInv, NEW c \in claims, LedgerAnswers(c)
    PROVE  Carries /\ Left' = Left
<1> DEFINE paid == balance' = balance - (c.amount + Fee)
<1>1. PICK answer \in {"ok", "refused", "failed"} :
        /\ Answered(c, answer)
        /\ balance' = IF answer = "ok" THEN balance - (c.amount + Fee) ELSE balance
  BY DEF LedgerAnswers
<1>2. c.answer = "none" /\ UNCHANGED <<content, prize, transfers>>
  BY DEF LedgerAnswers, messageVars
<1>3. PICK d \in ClaimRecords :
        /\ d.user = c.user /\ d.amount = c.amount /\ d.answer = answer
        /\ d \notin claims \ {c} /\ claims' = (claims \ {c}) \union {d}
  BY <1>1, AnsweredIs
<1>4. /\ c.amount \in Nat /\ Fee \in Nat /\ balance \in Int
      /\ Payments(claims) /\ Payments(UnderWay) /\ c \in UnderWay
  BY <1>2, PaymentSets, PrizeAssumption DEF ClaimsInv, PrizeTypes, ClaimRecords, UnderWay
<1>5. /\ Payments(claims \ {c}) /\ Payments(UnderWay \ {c})
      /\ Due(UnderWay \ {c}) \in Int /\ Due(UnderWay) = Due(UnderWay \ {c}) + (c.amount + Fee)
      /\ Amounts(claims \ {c}) \in Nat /\ Amounts(claims) = Amounts(claims \ {c}) + c.amount
  BY <1>4, PaymentRemoved
<1>6. Amounts(claims') = Amounts(claims)
  <2>1. Amounts((claims \ {c}) \union {d}) = Amounts(claims \ {c}) + d.amount
    BY <1>3, <1>4, <1>5, PaymentAdded
  <2> QED
    BY <1>3, <1>5, <2>1
<1>7. Left' = Left
  <2>1. CASE answer = "ok"
    <3>1. UnderWay' = UnderWay \ {c}
      BY <1>2, <1>3, <2>1 DEF UnderWay
    <3>2. Due(UnderWay)' = Due(UnderWay \ {c})
      BY <3>1
    <3> QED
      BY <1>1, <1>4, <1>5, <2>1, <3>2 DEF Left
  <2>2. CASE answer # "ok"
    <3>1. UnderWay' = (UnderWay \ {c}) \union {d} /\ d \notin UnderWay \ {c}
      BY <1>2, <1>3, <2>2 DEF UnderWay
    <3>2. Due((UnderWay \ {c}) \union {d}) = Due(UnderWay \ {c}) + (c.amount + Fee)
      BY <1>3, <1>4, <1>5, <3>1, PaymentAdded
    <3>3. Due(UnderWay)' = Due(UnderWay)
      BY <1>5, <3>1, <3>2
    <3> QED
      BY <1>1, <2>2, <3>3 DEF Left
  <2> QED
    BY <2>1, <2>2
<1>8. Held(prize)' = Held(prize)
  BY <1>2, <1>6 DEF Held
<1> QED
  BY <1>2, <1>7, <1>8 DEF Carries, Unsettled

LEMMA PaidAccounts ==
    ASSUME ClaimsInv, NEW c \in claims, ClaimPaid(c)
    PROVE  Carries /\ Left' = Left
<1>1. /\ c.answer = "ok" /\ claims' = claims \ {c}
      /\ UNCHANGED <<content, transfers, balance>>
  BY DEF ClaimPaid
<1>2. /\ c.user \in prize.reservations /\ c.amount \in Nat
      /\ prize \in PrizeRecords /\ prize.paid \in Nat /\ prize.remaining \in Seq(Nat)
  BY DEF ClaimsInv, PrizeTypes, OneClaimEach, ClaimRecords, PrizeRecords
<1>3. Amounts(claims) = Amounts(claims') + c.amount /\ Amounts(claims') \in Nat
  BY <1>1, PaymentSets, PaymentRemoved
<1>4. UnderWay' = UnderWay
  BY <1>1 DEF UnderWay
<1>5. Left' = Left
  BY <1>1, <1>4 DEF Left
<1>6. prize'.started = prize.started
  BY <1>2 DEF ClaimPaid, PrizeRecords
<1>7. ASSUME content = "prize"
      PROVE  Held(prize)' = Held(prize)
  <2>1. prize'.paid = prize.paid + c.amount /\ prize'.remaining = prize.remaining
    BY <1>2, <1>7 DEF ClaimPaid, PrizeRecords
  <2>2. Total(prize.remaining) \in Nat
    BY <1>2, TotalType
  <2>3. prize.paid + c.amount + Amounts(claims') = prize.paid + Amounts(claims)
    BY <1>2, <1>3
  <2> QED
    BY <2>1, <2>3 DEF Held
<1> QED
  BY <1>1, <1>5, <1>6, <1>7 DEF Carries, Unsettled

LEMMA NotPaidAccounts ==
    ASSUME ClaimsInv, NEW c \in claims, ClaimNotPaid(c)
    PROVE  Carries /\ Left' = Left + (c.amount + Fee)
<1> DEFINE a == c.amount
           s == Append(prize.remaining, a)
<1>1. /\ c.answer # "ok" /\ claims' = claims \ {c}
      /\ UNCHANGED <<content, transfers, balance>>
  BY DEF ClaimNotPaid
<1>2. /\ c.user \in prize.reservations /\ a \in Nat /\ Fee \in Nat /\ balance \in Int
      /\ prize \in PrizeRecords /\ prize.paid \in Nat /\ prize.remaining \in Seq(Nat)
  BY PrizeAssumption DEF ClaimsInv, PrizeTypes, OneClaimEach, ClaimRecords, PrizeRecords
<1>3. Amounts(claims) = Amounts(claims') + a /\ Amounts(claims') \in Nat
  BY <1>1, PaymentSets, PaymentRemoved
<1>4. UnderWay' = UnderWay \ {c} /\ c \in UnderWay
  BY <1>1 DEF UnderWay
<1>5. Due(UnderWay) = Due(UnderWay \ {c}) + (a + Fee) /\ Due(UnderWay \ {c}) \in Int
  BY <1>4, PaymentSets, PaymentRemoved
<1>6. Left' = Left + (a + Fee) /\ Left \in Int
  BY <1>1, <1>2, <1>4, <1>5 DEF Left
<1>7. prize'.started = prize.started
  BY <1>2 DEF ClaimNotPaid, PutBack, PrizeRecords
<1>8. ASSUME content = "prize"
      PROVE  Held(prize)' = Held(prize) + (a + Fee)
  <2>1. prize'.paid = prize.paid /\ prize'.remaining = s
    BY <1>2, <1>8 DEF ClaimNotPaid, PutBack, PrizeRecords
  <2>2. /\ s \in Seq(Nat) /\ Len(s) = Len(prize.remaining) + 1
        /\ Total(prize.remaining) \in Nat /\ Total(s) = Total(prize.remaining) + a
    BY <1>2, TotalAppended
  <2> HIDE DEF s
  <2>3. Total(s) + Len(s) * Fee = Total(prize.remaining) + Len(prize.remaining) * Fee + (a + Fee)
    BY <1>2, <2>2, HeldMoves
  <2>4. Len(s) * Fee \in Int /\ Len(prize.remaining) * Fee \in Int
    BY <1>2, <2>2
  <2> DEFINE P == Percent(prize.paid + Amounts(claims) + Total(prize.remaining))
             R == Total(prize.remaining)
             k == Len(prize.remaining) * Fee
             S == Total(s)
             j == Len(s) * Fee
  <2>5. prize.paid + Amounts(claims') + S = prize.paid + Amounts(claims) + R
    BY <1>2, <1>3, <2>2
  <2>6. P \in Int
    <3>1. prize.paid + Amounts(claims) + R \in Nat
      BY <1>2, <1>3, <2>2
    <3> QED
      BY <3>1, PercentSum, 0 \in Nat
  <2>7. Held(prize)' = P + S + j /\ Held(prize) = P + R + k
    BY <2>1, <2>5 DEF Held
  <2>8. R \in Int /\ S \in Int /\ j \in Int /\ k \in Int /\ S + j = R + k + (a + Fee)
    BY <1>2, <2>2, <2>3, <2>4
  <2> HIDE DEF P, R, S, j, k, a
  <2> QED
    BY <1>2, <2>6, <2>7, <2>8
<1>9. Held(prize) \in Int
  BY PaymentSets
<1> HIDE DEF a
<1>11. content = "prize" => Left' - Held(prize)' = Left - Held(prize)
  BY <1>2, <1>6, <1>8, <1>9
<1> QED
  BY <1>1, <1>6, <1>7, <1>11 DEF Carries, Unsettled, a

\* What is held for the prizes that are not under way is what would be paid for
\* them if the prize ended now, and what the claims will add to the fee, but for
\* the rounding of three percentages.
LEMMA HeldIsEnough ==
    ASSUME ClaimsInv
    PROVE  /\ Percent(Amounts(claims)) \in Nat
           /\ OcFee(prize) \in Nat /\ Refund(prize) \in Nat /\ Held(prize) \in Int
           /\ OcFee(prize) + Refund(prize) + Percent(Amounts(claims)) <= Held(prize)
           /\ Held(prize) <= OcFee(prize) + Refund(prize) + Percent(Amounts(claims)) + 2
           /\ claims = {} => Held(prize) <= OcFee(prize) + Refund(prize) + 1
<1> DEFINE P == prize.paid
           A == Amounts(claims)
           R == Total(prize.remaining)
           k == Len(prize.remaining) * Fee
<1>1. prize \in PrizeRecords /\ P \in Nat /\ A \in Nat /\ Held(prize) \in Int
  BY PaymentSets DEF ClaimsInv, PrizeTypes, PrizeRecords
<1>2. R \in Nat /\ k \in Nat /\ OcFee(prize) \in Nat /\ Refund(prize) \in Nat
  BY <1>1, Parts
<1>3. OcFee(prize) = Percent(P) /\ Refund(prize) = R + Percent(R) + k
  BY <1>1, Parts DEF OcFee
<1>4. Held(prize) = Percent((P + A) + R) + R + k
  BY DEF Held
<1>5. claims = {} => A = 0
  BY NoPayment
<1> HIDE DEF P, A, R, k
<1>6. /\ Percent(P) \in Nat /\ Percent(A) \in Nat /\ P + A \in Nat /\ Percent(P + A) \in Nat
      /\ Percent(P) + Percent(A) <= Percent(P + A)
      /\ Percent(P + A) <= Percent(P) + Percent(A) + 1
  BY <1>1, PercentSum
<1>7. /\ Percent(R) \in Nat /\ Percent((P + A) + R) \in Nat
      /\ Percent(P + A) + Percent(R) <= Percent((P + A) + R)
      /\ Percent((P + A) + R) <= Percent(P + A) + Percent(R) + 1
  BY <1>2, <1>6, PercentSum
<1>8. A = 0 => Percent(P + A) = Percent(P)
  <2>1. A = 0 => P + A = P
    BY <1>1
  <2> QED
    BY <2>1
<1> DEFINE p == Percent(P)
           a == Percent(A)
           b == Percent(P + A)
           r == Percent(R)
           h == Percent((P + A) + R)
<1>9. /\ p \in Nat /\ a \in Nat /\ b \in Nat /\ r \in Nat /\ h \in Nat
      /\ p + a <= b /\ b <= p + a + 1 /\ b + r <= h /\ h <= b + r + 1
      /\ OcFee(prize) = p /\ Refund(prize) = R + r + k /\ Held(prize) = h + R + k
      /\ claims = {} => b = p
  BY <1>3, <1>4, <1>5, <1>6, <1>7, <1>8
<1> HIDE DEF p, a, b, r, h
<1>10. p + (R + r + k) + a <= h + R + k
  BY <1>2, <1>9
<1>11. h + R + k <= p + (R + r + k) + a + 2
  BY <1>2, <1>9
<1>12. b = p => h + R + k <= p + (R + r + k) + 1
  BY <1>2, <1>9
<1> QED
  BY <1>1, <1>2, <1>9, <1>10, <1>11, <1>12 DEF A, a

\* As long as a prize is not settled, all of it is there.
UntouchedInv == ClaimsInv /\ HistoryInv /\ Untouched

\* What is paid for the prize of a message that is not settled is covered, and
\* nothing but a rounding remains.
NotStranded ==
    Unsettled => Promised <= balance + unpaid + late /\ ~Stranded

LEMMA UnsettledIsWhole == UntouchedInv => NotStranded
<1> SUFFICES ASSUME UntouchedInv, Unsettled
             PROVE  Promised <= balance + unpaid + late /\ ~Stranded
  BY DEF NotStranded
<1> DEFINE U == Due(UnderWay)
           H == Held(prize)
           o == OcFee(prize)
           e == Refund(prize)
           a == Percent(Amounts(claims))
<1>1. /\ ClaimsInv /\ transfers = {} /\ balance + unpaid = U + H
      /\ balance \in Int /\ unpaid \in Nat /\ late = 0
  BY DEF UntouchedInv, Untouched, ClaimsInv, PrizeTypes, HistoryInv, Unsettled
<1>2. U \in Int
  BY <1>1, PaymentSets
<1>3. /\ a \in Nat /\ o \in Nat /\ e \in Nat /\ H \in Int /\ o + e + a <= H /\ H <= o + e + a + 2
  BY <1>1, HeldIsEnough
<1>4. Due(transfers) = 0
  BY <1>1, NoPayment
<1>5. Promised = U + Due(transfers) + (o + e) /\ FeeUnderWay = a
  BY DEF Promised, FeeUnderWay
<1>6. Fee \in Nat /\ Dust = 2 + 2 * Fee
  BY PrizeAssumption DEF Dust
<1> HIDE DEF U, H, o, e, a
<1>8. Promised = U + (o + e)
  BY <1>2, <1>3, <1>4, <1>5
<1>9. Promised <= balance + unpaid + late
  BY <1>1, <1>2, <1>3, <1>8
<1>10. balance - Promised - FeeUnderWay <= 2
  BY <1>1, <1>2, <1>3, <1>5, <1>8
<1>11. balance - Promised - FeeUnderWay \in Int
  BY <1>1, <1>2, <1>3, <1>5, <1>8
<1>12. ~Stranded
  BY <1>6, <1>10, <1>11 DEF Stranded
<1> QED
  BY <1>9, <1>12

LEMMA UntouchedInit == PrizeInit => UntouchedInv
<1> SUFFICES ASSUME PrizeInit PROVE UntouchedInv
  OBVIOUS
<1>1. ClaimsInv
  BY ClaimsInit
<1>2. /\ claims = {} /\ transfers = {}
      /\ prize.paid = 0 /\ prize.remaining = Prizes
  BY DEF PrizeInit
<1>10. PICK fee \in {0, Percent(Total(Prizes))} :
          balance = Deposit(fee) /\ unpaid = Percent(Total(Prizes)) - fee
  BY DEF PrizeInit
<1>3. UnderWay = {}
  BY <1>2 DEF UnderWay
<1>4. Due(UnderWay) = 0 /\ Amounts(claims) = 0
  BY <1>2, <1>3, NoPayment
<1>5. Total(Prizes) \in Nat
  BY TotalType, PrizeAssumption
<1>6. 0 + 0 + Total(Prizes) = Total(Prizes)
  BY <1>5
<1>7. Held(prize) = Percent(Total(Prizes)) + Total(Prizes) + Len(Prizes) * Fee
  BY <1>2, <1>4, <1>6 DEF Held
<1>8. Percent(Total(Prizes)) \in Nat /\ Len(Prizes) * Fee \in Int
  <2>1. Len(Prizes) \in Nat /\ Fee \in Nat
    BY PrizeAssumption
  <2> QED
    BY <1>5, <2>1, PercentSum, 0 \in Nat
<1>9. balance + unpaid = Due(UnderWay) + Held(prize)
  <2> DEFINE p == Percent(Total(Prizes))
             t == Total(Prizes)
             k == Len(Prizes) * Fee
  <2>1. /\ Due(UnderWay) = 0 /\ Held(prize) = p + t + k
        /\ balance = t + k + fee /\ unpaid = p - fee
    BY <1>4, <1>7, <1>10 DEF Deposit
  <2>2. p \in Int /\ t \in Int /\ k \in Int /\ fee \in Int
    BY <1>5, <1>8
  <2> HIDE DEF p, t, k
  <2> QED
    BY <2>1, <2>2
<1> QED
  BY <1>1, <1>2, <1>9, HistoryInit DEF UntouchedInv, Untouched

\* A transfer that is made, given up or tried again takes no more than was due.
LEMMA TransferAccounts ==
    ASSUME ClaimsInv, NEW t \in transfers, MakeTransfer(t)
    PROVE  /\ UNCHANGED <<content, prize, claims>> /\ balance' \in Int
           /\ Due(transfers') \in Int /\ Due(transfers) \in Int
           /\ balance - Due(transfers) <= balance' - Due(transfers')
<1> DEFINE a == t.amount + Fee
           r == [t EXCEPT !.attempt = @ + 1]
           T == transfers \ {t}
<1>1. UNCHANGED <<content, prize, claims>>
  BY DEF MakeTransfer, messageVars
<1>2. /\ t.amount \in Nat /\ Fee \in Nat /\ balance \in Int /\ t \in TransferRecords
      /\ Payments(transfers)
  BY PaymentSets, PrizeAssumption DEF ClaimsInv, PrizeTypes, TransferRecords
<1>3. /\ Payments(T) /\ Due(T) \in Int /\ Due(transfers) = Due(T) + a
  BY <1>2, PaymentRemoved
<1>4. r.amount = t.amount
  BY <1>2 DEF TransferRecords
<1>5. Payments(T \union {r}) /\ Due(T \union {r}) <= Due(T) + a /\ Due(T \union {r}) \in Int
  BY <1>2, <1>3, <1>4, PaymentAtMost, PaymentsType
<1>6. \/ transfers' = T /\ balance' = balance - a
      \/ transfers' = T /\ balance' = balance
      \/ transfers' = T \union {r} /\ balance' = balance
  BY DEF MakeTransfer
<1>7. a \in Nat
  BY <1>2
<1> HIDE DEF a, r, T
<1> QED
  BY <1>1, <1>2, <1>3, <1>5, <1>6, <1>7

\* A settling step either settles the prize, or changes nothing of it.
LEMMA SettleAccounts ==
    ASSUME ClaimsInv, Settles
    PROVE  /\ claims' = claims /\ Left' = Left /\ balance' = balance
           /\ \/ /\ Unsettled' = Unsettled /\ transfers' = transfers
                 /\ Unsettled => prize' = prize
              \/ Unsettled /\ ~Unsettled' /\ transfers' = transfers \union FinalPayments(prize)
<1>1. prize \in PrizeRecords
  BY DEF ClaimsInv, PrizeTypes
<1>2. claims' = claims /\ balance' = balance
  BY DEF Settles
<1>3. Left' = Left
  BY <1>2 DEF Left, UnderWay
<1>4. CASE UNCHANGED <<content, prize, transfers>>
  BY <1>2, <1>3, <1>4 DEF Unsettled
<1>5. CASE /\ content = "prize"
           /\ prize' = [prize EXCEPT !.started = TRUE]
           /\ transfers' = transfers \union FinalPayments(prize)
  <2>1. prize'.started = TRUE
    BY <1>1, <1>5 DEF PrizeRecords
  <2>2. CASE prize.started
    <3>1. FinalPayments(prize) = {}
      BY <1>1, <2>2, FinalPaymentsDue
    <3> QED
      BY <1>2, <1>3, <1>5, <2>1, <2>2, <3>1 DEF Unsettled
  <2>3. CASE ~prize.started
    BY <1>2, <1>3, <1>5, <2>1, <2>3 DEF Unsettled
  <2> QED
    BY <2>2, <2>3
<1>6. CASE content # "prize" /\ content' = "removed" /\ UNCHANGED <<prize, transfers>>
  BY <1>2, <1>3, <1>6 DEF Unsettled
<1> QED
  BY <1>4, <1>5, <1>6 DEF Settles

\* The amounts are numbers, before and after a step.
Numbers ==
    /\ balance \in Int /\ Due(UnderWay) \in Int /\ Due(transfers) \in Int /\ Held(prize) \in Int

LEMMA AmountsAreNumbers ==
    /\ ClaimsInv => Numbers
    /\ ClaimsInv' => /\ balance' \in Int /\ Due(UnderWay)' \in Int
                     /\ Due(transfers)' \in Int /\ Held(prize)' \in Int
<1>1. ClaimsInv => Numbers
  BY PaymentSets DEF Numbers, ClaimsInv, PrizeTypes
<1>2. ClaimsInv' => Numbers'
  BY <1>1, PTL
<1> QED
  BY <1>1, <1>2 DEF Numbers

LEMMA UntouchedStep ==
    ASSUME UntouchedInv, [PrizeNext]_prizeVars
    PROVE  UntouchedInv'
<1>1. ClaimsInv /\ Untouched
  BY DEF UntouchedInv
<1>2. ClaimsInv' /\ HistoryInv'
  BY <1>1, ClaimsStep, HistoryStep DEF UntouchedInv
<1>10. unpaid' = unpaid /\ unpaid \in Int
  BY <1>1, HistorySteps DEF UntouchedInv, HistoryInv
<1>3. balance \in Int /\ Due(UnderWay) \in Int /\ Held(prize) \in Int
  BY <1>1, AmountsAreNumbers DEF Numbers
<1>4. balance' \in Int /\ Due(UnderWay)' \in Int /\ Held(prize)' \in Int
  BY <1>2, AmountsAreNumbers
<1>5. CASE OtherSteps
  <2>1. UNCHANGED <<content, prize, claims, transfers, balance>>
    BY <1>5, OthersKeep
  <2> QED
    BY <1>1, <1>2, <1>10, <2>1 DEF UntouchedInv, Untouched, Unsettled, UnderWay, Held
<1>6. ASSUME Carries
      PROVE  Untouched'
  <2>1. Unsettled' = Unsettled /\ transfers' = transfers
    BY <1>6 DEF Carries
  <2>2. ASSUME Unsettled
        PROVE  balance' + unpaid' = Due(UnderWay)' + Held(prize)'
    <3>1. balance + unpaid = Due(UnderWay) + Held(prize)
      BY <1>1, <2>2 DEF Untouched
    <3>2. (balance' - Due(UnderWay)') - Held(prize)' = (balance - Due(UnderWay)) - Held(prize)
      BY <1>6, <2>2 DEF Carries, Left
    <3> DEFINE b == balance'
               u == Due(UnderWay)'
               h == Held(prize)'
               x == Due(UnderWay)
               y == Held(prize)
               v == unpaid
    <3>3. /\ b \in Int /\ u \in Int /\ h \in Int /\ x \in Int /\ y \in Int /\ v \in Int
          /\ balance + v = x + y /\ (b - u) - h = (balance - x) - y
      BY <1>3, <1>4, <1>10, <3>1, <3>2
    <3> HIDE DEF b, u, h, x, y, v
    <3>4. b + v = u + h
      BY <1>3, <3>3
    <3> QED
      BY <1>10, <3>4 DEF b, u, h, v
  <2> QED
    BY <1>1, <2>1, <2>2 DEF Untouched
<1>7. CASE \E t \in transfers : MakeTransfer(t)
  <2>1. ~Unsettled
    BY <1>1, <1>7 DEF Untouched
  <2>2. UNCHANGED <<content, prize>>
    BY <1>1, <1>7, TransferAccounts
  <2> QED
    BY <1>2, <2>1, <2>2 DEF UntouchedInv, Untouched, Unsettled
<1>8. CASE Settles
  <2>1. ASSUME Unsettled'
        PROVE  transfers' = {} /\ balance' + unpaid' = Due(UnderWay)' + Held(prize)'
    <3>1. /\ Unsettled /\ UNCHANGED <<claims, prize, transfers, balance>>
      BY <1>1, <1>8, <2>1, SettleAccounts
    <3> QED
      BY <1>1, <1>10, <3>1 DEF Untouched, UnderWay, Held
  <2> QED
    BY <1>2, <2>1 DEF UntouchedInv, Untouched
<1>9. ASSUME \/ \E u \in Users : Claim(u)
             \/ \E c \in claims : LedgerAnswers(c) \/ ClaimPaid(c) \/ ClaimNotPaid(c)
      PROVE  Carries
  BY <1>1, <1>9, ClaimAccounts, AnswerAccounts, PaidAccounts, NotPaidAccounts
<1> QED
  BY <1>1, <1>2, <1>5, <1>6, <1>7, <1>8, <1>9, PrizeSteps DEF UntouchedInv

\* What a step does to what is left when the prize is settled already.
LEMMA SettledSteps ==
    ASSUME ClaimsInv, HistoryInv, [PrizeNext]_prizeVars, ~Unsettled
    PROVE  /\ ~Unsettled'
           /\ \/ /\ \E t \in transfers : MakeTransfer(t) /\ Left' - balance' = Left - balance
                 /\ late' = late
              \/ transfers' = transfers /\ Left' + late' >= Left + late
           /\ \/ \E t \in transfers : MakeTransfer(t)
              \/ \E c \in claims : ClaimNotPaid(c)
              \/ transfers' = transfers /\ Left' <= Left
<1>1. Left \in Int /\ late \in Int
  BY PaymentSets DEF Left, ClaimsInv, PrizeTypes, HistoryInv
<1>2. CASE OtherSteps
  <2>1. UNCHANGED <<content, prize, claims, transfers, balance>>
    BY <1>2, OthersKeep
  <2>2. late' = late
    BY <1>2 DEF OtherSteps, DeleteMessage, UndeleteMessage, ClockTicks, prizeVars, historyVars
  <2>3. Left' = Left
    BY <2>1 DEF Left, UnderWay
  <2> QED
    BY <1>1, <2>1, <2>2, <2>3 DEF Unsettled
<1>3. ASSUME NEW t \in transfers, MakeTransfer(t)
      PROVE  ~Unsettled' /\ Left' - balance' = Left - balance /\ late' = late
  <2>1. UNCHANGED <<content, prize, claims>> /\ balance' \in Int
    BY <1>3, TransferAccounts
  <2>2. Due(UnderWay)' = Due(UnderWay) /\ Due(UnderWay) \in Int /\ balance \in Int
    BY <2>1, PaymentSets DEF UnderWay, ClaimsInv, PrizeTypes
  <2>3. late' = late
    BY <1>3 DEF MakeTransfer, historyVars
  <2> QED
    BY <2>1, <2>2, <2>3 DEF Left, Unsettled
<1>4. CASE EndPrize \/ HardDelete \/ RemoveEvent
  <2>1. late' = late
    BY <1>4 DEF EndPrize, HardDelete, RemoveEvent, historyVars
  <2>2. ~Unsettled' /\ transfers' = transfers /\ Left' = Left
    BY <1>4, SettlingSteps, SettleAccounts
  <2> QED
    BY <1>1, <2>1, <2>2
<1>5. ASSUME NEW u \in Users, Claim(u)
      PROVE  /\ ~Unsettled' /\ transfers' = transfers /\ Left' <= Left
             /\ Left' + late' >= Left + late
  <2>1. ~Unsettled' /\ transfers' = transfers /\ Left' <= Left
    BY <1>5, ClaimAccounts DEF Carries
  <2> DEFINE a == Last(prize.remaining)
  <2>2. Left' = Left - (a + Fee) /\ a \in Nat
    BY <1>5, ClaimAccounts
  <2>3. late' = late + (a + Fee)
    BY <1>5 DEF Claim, Unsettled
  <2> HIDE DEF a
  <2>4. Fee \in Nat
    BY PrizeAssumption
  <2> QED
    BY <1>1, <2>1, <2>2, <2>3, <2>4
<1>6. ASSUME NEW c \in claims, LedgerAnswers(c) \/ ClaimPaid(c)
      PROVE  ~Unsettled' /\ transfers' = transfers /\ Left' = Left /\ late' = late
  <2>1. late' = late
    BY <1>6 DEF LedgerAnswers, ClaimPaid, historyVars
  <2> QED
    BY <1>6, <2>1, AnswerAccounts, PaidAccounts DEF Carries
<1>7. ASSUME NEW c \in claims, ClaimNotPaid(c)
      PROVE  ~Unsettled' /\ transfers' = transfers /\ Left' + late' >= Left + late
  <2>1. ~Unsettled' /\ transfers' = transfers
    BY <1>7, NotPaidAccounts DEF Carries
  <2> DEFINE a == c.amount
  <2>2. Left' = Left + (a + Fee)
    BY <1>7, NotPaidAccounts
  <2>3. late' = late - (IF c.late THEN a + Fee ELSE 0)
    BY <1>7 DEF ClaimNotPaid
  <2>4. Fee \in Nat /\ a \in Nat
    BY PrizeAssumption DEF ClaimsInv, PrizeTypes, ClaimRecords
  <2> HIDE DEF a
  <2> QED
    BY <1>1, <2>1, <2>2, <2>3, <2>4
<1>8. \/ \E u \in Users : Claim(u)
      \/ \E c \in claims : LedgerAnswers(c) \/ ClaimPaid(c) \/ ClaimNotPaid(c)
      \/ \E t \in transfers : MakeTransfer(t)
      \/ (EndPrize \/ HardDelete \/ RemoveEvent) \/ OtherSteps
  BY DEF PrizeNext, OtherSteps
<1> QED
  BY <1>1, <1>2, <1>3, <1>4, <1>5, <1>6, <1>7, <1>8

\* What settling leaves: the final payments take what is due now, and what
\* remains is what claims under way will add, and what is too small.
LEMMA SettlingLeaves ==
    ASSUME UntouchedInv, [PrizeNext]_prizeVars, Unsettled, ~Unsettled'
    PROVE  /\ balance' + unpaid - Due(UnderWay)' - Due(transfers)' \in Nat
           /\ claims = {} => balance' + unpaid - Due(UnderWay)' - Due(transfers)' <= Dust
<1>1. /\ ClaimsInv /\ transfers = {} /\ balance + unpaid = Due(UnderWay) + Held(prize)
      /\ balance \in Int /\ unpaid \in Nat
  BY DEF UntouchedInv, Untouched, HistoryInv, ClaimsInv, PrizeTypes
<1>2. Settles
  <2>1. ~OtherSteps
    BY OthersKeep DEF Unsettled
  <2>2. ~(\E t \in transfers : MakeTransfer(t))
    BY <1>1
  <2>3. ~Carries
    BY DEF Carries
  <2> QED
    BY <1>1, <2>1, <2>2, <2>3, PrizeSteps, ClaimAccounts, AnswerAccounts, PaidAccounts, NotPaidAccounts
<1>3. claims' = claims /\ balance' = balance /\ transfers' = FinalPayments(prize)
  BY <1>1, <1>2, SettleAccounts
<1>4. Due(UnderWay)' = Due(UnderWay)
  BY <1>3 DEF UnderWay
<1> DEFINE U == Due(UnderWay)
           H == Held(prize)
           o == OcFee(prize)
           e == Refund(prize)
           a == Percent(Amounts(claims))
           F == Due(FinalPayments(prize))
<1>5. ~prize.started /\ prize \in PrizeRecords
  BY <1>1 DEF Unsettled, ClaimsInv, PrizeTypes
<1>6. F \in Int /\ F <= o + e /\ F >= o + e - 2 * Fee
  BY <1>5, FinalPaymentsDue
<1>7. /\ a \in Nat /\ o \in Nat /\ e \in Nat /\ H \in Int /\ o + e + a <= H
      /\ claims = {} => H <= o + e + 1
  BY <1>1, HeldIsEnough
<1>8. U \in Int /\ Fee \in Nat /\ Dust = 2 + 2 * Fee
  BY <1>1, PaymentSets, PrizeAssumption DEF Dust
<1>9. balance' + unpaid = U + H /\ Due(UnderWay)' = U /\ Due(transfers)' = F
  BY <1>1, <1>3, <1>4
<1>11. balance' \in Int /\ unpaid \in Int
  BY <1>1, <1>3
<1> DEFINE b == balance'
           x == Due(UnderWay)'
           y == Due(transfers)'
<1>12. b + unpaid = U + H /\ x = U /\ y = F /\ b \in Int
  BY <1>9, <1>11
<1> HIDE DEF U, H, o, e, a, F, b, x, y
<1>13. b + unpaid - x - y = H - F
  BY <1>6, <1>7, <1>8, <1>11, <1>12
<1>10. balance' + unpaid - Due(UnderWay)' - Due(transfers)' = H - F
  BY <1>13 DEF b, x, y
<1> QED
  BY <1>6, <1>7, <1>8, <1>10

\* What is still due of a prize that is settled is there, or was not paid in, or
\* is what late claims take.
CoveredInv ==
    /\ UntouchedInv
    /\ ~Unsettled => Due(UnderWay) + Due(transfers) <= balance + unpaid + late

LEMMA CoveredStep ==
    ASSUME CoveredInv, [PrizeNext]_prizeVars
    PROVE  CoveredInv'
<1>1. UntouchedInv /\ ClaimsInv /\ HistoryInv /\ UntouchedInv' /\ ClaimsInv' /\ HistoryInv'
  BY UntouchedStep DEF CoveredInv, UntouchedInv
<1>2. /\ Due(UnderWay) \in Int /\ Due(transfers) \in Int /\ balance \in Int
      /\ Due(UnderWay)' \in Int /\ Due(transfers)' \in Int /\ balance' \in Int
  BY <1>1, AmountsAreNumbers DEF Numbers
<1>3. unpaid \in Nat /\ late \in Int /\ late' \in Int /\ unpaid' = unpaid
  BY <1>1, HistorySteps DEF HistoryInv
<1> DEFINE w == Due(UnderWay)
           t == Due(transfers)
           x == Due(UnderWay)'
           y == Due(transfers)'
           b == balance
           d == balance'
<1>4. ASSUME ~Unsettled', Unsettled
      PROVE  x + y <= d + unpaid' + late'
  <2>1. late' = 0
    <3>1. late = 0 /\ \A c \in claims : ~c.late
      BY <1>1, <1>4 DEF Unsettled, HistoryInv
    <3>2. ~(\E u \in Users : Claim(u)) /\ ~(\E c \in claims : ClaimNotPaid(c))
      BY <1>1, <1>4, ClaimAccounts, NotPaidAccounts DEF Carries
    <3> QED
      BY <1>1, <3>1, <3>2, HistorySteps
  <2>2. d + unpaid - x - y \in Nat
    BY <1>1, <1>4, SettlingLeaves
  <2> HIDE DEF x, y, d
  <2>3. x \in Int /\ y \in Int /\ d \in Int
    BY <1>2 DEF x, y, d
  <2> QED
    BY <1>3, <2>1, <2>2, <2>3
<1>5. ASSUME ~Unsettled', ~Unsettled
      PROVE  x + y <= d + unpaid' + late'
  <2>1. w + t <= b + unpaid + late
    BY <1>5 DEF CoveredInv
  <2>2. ASSUME transfers' = transfers, Left' + late' >= Left + late
        PROVE  x + y <= d + unpaid' + late'
    <3>1. y = t /\ (d - x) + late' >= (b - w) + late
      BY <2>2 DEF Left
    <3> HIDE DEF w, t, x, y, b, d
    <3> QED
      BY <1>2, <1>3, <2>1, <3>1 DEF w, t, x, y, b, d
  <2>3. ASSUME NEW m \in transfers, MakeTransfer(m), Left' - balance' = Left - balance,
               late' = late
        PROVE  x + y <= d + unpaid' + late'
    <3>1. b - t <= d - y
      BY <1>1, <2>3, TransferAccounts
    <3>2. (d - x) - d = (b - w) - b
      BY <2>3 DEF Left
    <3> HIDE DEF w, t, x, y, b, d
    <3> QED
      BY <1>2, <1>3, <2>1, <2>3, <3>1, <3>2 DEF w, t, x, y, b, d
  <2> QED
    BY <1>1, <1>5, <2>2, <2>3, SettledSteps
<1> QED
  BY <1>1, <1>4, <1>5 DEF CoveredInv

\* The group never pays out more for a prize than was paid in for it, but for the
\* fee when that was not paid in and for claims after the final payments, whatever
\* claims, deletions and final payments overlap, for any prizes, users and fees.
THEOREM PrizeIsSolvent == PrizeSpec => []PrizeSolvent
<1>1. PrizeInit => CoveredInv
  BY UntouchedInit DEF CoveredInv, PrizeInit, Unsettled
<1>2. CoveredInv /\ [PrizeNext]_prizeVars => CoveredInv'
  BY CoveredStep
<1>3. CoveredInv => PrizeSolvent
  <2> SUFFICES ASSUME CoveredInv PROVE PrizeSolvent
    OBVIOUS
  <2>1. CASE Unsettled
    BY <2>1, UnsettledIsWhole DEF CoveredInv, NotStranded, PrizeSolvent
  <2>2. CASE ~Unsettled
    <3>1. Due(UnderWay) \in Int /\ Due(transfers) \in Int
      BY PaymentSets DEF CoveredInv, UntouchedInv
    <3> QED
      BY <2>2, <3>1 DEF CoveredInv, PrizeSolvent, Promised
  <2> QED
    BY <2>1, <2>2
<1> QED
  BY <1>1, <1>2, <1>3, PTL DEF PrizeSpec

\* A step that strands more than dust is one of those the property names.
LEMMA StrandingStep ==
    ASSUME UntouchedInv, UntouchedInv', NotStranded', [PrizeNext]_prizeVars,
           Stranded', ~Stranded,
           ~(Unsettled /\ ~Unsettled' /\ claims # {}),
           ~(~Unsettled /\ \E c \in claims : ClaimNotPaid(c)),
           ~(\E t \in transfers : MakeTransfer(t))
    PROVE  FALSE
<1>1. ClaimsInv /\ ClaimsInv' /\ HistoryInv /\ unpaid \in Nat /\ ~Unsettled'
  BY DEF UntouchedInv, NotStranded, HistoryInv
<1>2. /\ Due(UnderWay) \in Int /\ Due(transfers) \in Int /\ balance \in Int
      /\ Due(UnderWay)' \in Int /\ Due(transfers)' \in Int /\ balance' \in Int
  BY <1>1, AmountsAreNumbers DEF Numbers
<1>3. Dust \in Int /\ Dust' = Dust
  BY PrizeAssumption DEF Dust
<1>4. balance' - Due(UnderWay)' - Due(transfers)' > Dust
  <2>1. (balance - Promised - FeeUnderWay)' > Dust
    BY <1>3 DEF Stranded
  <2>2. Promised' = Due(UnderWay)' + Due(transfers)' + 0 /\ FeeUnderWay' = 0
    BY <1>1 DEF Promised, FeeUnderWay
  <2> QED
    BY <1>2, <1>3, <2>1, <2>2
<1>5. CASE Unsettled
  <2>1. claims = {}
    BY <1>1, <1>5
  <2>2. balance' + unpaid - Due(UnderWay)' - Due(transfers)' <= Dust
    BY <1>1, <1>5, <2>1, SettlingLeaves
  <2> QED
    BY <1>1, <1>2, <1>3, <1>4, <2>2
<1>6. CASE ~Unsettled
  <2>1. transfers' = transfers /\ Left' <= Left
    BY <1>1, <1>6, SettledSteps
  <2>2. Promised = Due(UnderWay) + Due(transfers) + 0 /\ FeeUnderWay = 0
    BY <1>6 DEF Promised, FeeUnderWay
  <2>3. balance - Due(UnderWay) - Due(transfers) <= Dust
    BY <1>2, <1>3, <2>2 DEF Stranded
  <2>4. balance' - Due(UnderWay)' <= balance - Due(UnderWay) /\ Due(transfers)' = Due(transfers)
    BY <2>1 DEF Left
  <2> QED
    BY <1>2, <1>3, <1>4, <2>3, <2>4
<1> QED
  BY <1>5, <1>6

\* More than dust stays in the group only when the prize is settled with a
\* claim under way, when such a claim fails, or when a payment is given up.
THEOREM StrandedOnlyByLateClaims == PrizeSpec => StrandedByLateClaims
<1>1. PrizeInit => UntouchedInv
  BY UntouchedInit
<1>2. UntouchedInv /\ [PrizeNext]_prizeVars => UntouchedInv'
  BY UntouchedStep
<1>3. UntouchedInv => NotStranded
  BY UnsettledIsWhole
<1>4. UntouchedInv /\ UntouchedInv' /\ NotStranded' /\ [PrizeNext]_prizeVars =>
        [Stranded' =>
         \/ Stranded
         \/ Unsettled /\ ~Unsettled' /\ claims # {}
         \/ ~Unsettled /\ \E c \in claims : ClaimNotPaid(c)
         \/ \E t \in transfers : MakeTransfer(t)]_prizeVars
  BY StrandingStep
<1> QED
  BY <1>1, <1>2, <1>3, <1>4, PTL DEF PrizeSpec, StrandedByLateClaims
=============================================================================
