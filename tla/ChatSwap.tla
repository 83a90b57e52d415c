------------------------------ MODULE ChatSwap ------------------------------
(***************************************************************************)
(* A swap offered in a message of a group: a member reserves it, deposits  *)
(* its tokens in the escrow and has the escrow notified; the sender may    *)
(* cancel it, the message may go, and the escrow reports how it ended.     *)
(*                                                                         *)
(*   updates/accept_p2p_swap.rs, cancel_p2p_swap.rs                        *)
(*   updates/c2c_notify_p2p_swap_status_change.rs                          *)
(*   timer_job_types.rs                    the calls of the escrow         *)
(*   libraries/chat_events                 the status of the message       *)
(*                                                                         *)
(* The escrow is what the group can see of module Escrow.  Anyone may have *)
(* it look for the deposit of anyone, so it accepts who never reserved the *)
(* swap, and a member whose acceptance failed after the deposit was made.  *)
(* Each canister has a clock of its own.  A call that fails was not        *)
(* executed.                                                               *)
(***************************************************************************)
EXTENDS Naturals

CONSTANTS
    Accepters,      \* members other than the sender
    Strangers,      \* who is not a member and may deposit all the same
    Sender,         \* who offered the swap; reserve_p2p_swap does not refuse it
    Nobody,         \* Option::None of a user
    MaxRetries,     \* 20
    MaxNews         \* bound on status notifications

ASSUME SwapAssumption ==
    /\ Sender \notin Accepters \union Strangers
    /\ Nobody \notin Accepters \union Strangers \union {Sender}
    /\ {MaxRetries, MaxNews} \subseteq Nat

VARIABLES
    groupPast,      \* has expires_at come on the clock of the group?
    escrowTime,     \* on the escrow's: 0 before expires_at, 1 at it, 2 after it
    status,         \* P2PSwapStatus, or "gone" with the content of the message
    expiryJob,      \* is the MarkP2PSwapExpired job still to run?
    accepting,      \* accept_p2p_swap coroutines awaiting the user canister
    notifying,      \* NotifyEscrowCanisterOfDeposit jobs, waiting or calling
    cancelling,     \* the attempt of the CancelP2PSwapInEscrowCanister job, if any
    taken,          \* history: users whose deposit the escrow confirmed to such a job
    checking,       \* users whose deposit it looks up for another caller
    escrow,         \* the swap in the escrow
    news,           \* status notifications of the escrow on their way
    newsSent        \* how many it sent

swapClocks == <<groupPast, escrowTime>>
swapMessage == <<status, expiryJob>>
swapCalls == <<accepting, notifying, cancelling>>
swapEscrow == <<checking, escrow, news, newsSent>>
swapVars == <<swapClocks, swapMessage, swapCalls, taken, swapEscrow>>

Members == Accepters \union {Sender}

Is(what, user) == [is |-> what, user |-> user]
Open == Is("open", Nobody)

SwapInit ==
    /\ groupPast = FALSE /\ escrowTime = 0
    /\ status = Open /\ expiryJob = TRUE
    /\ accepting = {} /\ notifying = {} /\ cancelling = {}
    /\ taken = {} /\ checking = {}
    /\ escrow = [offered |-> FALSE, acceptedBy |-> Nobody, cancelled |-> FALSE, out |-> FALSE]
    /\ news = {} /\ newsSent = 0

-----------------------------------------------------------------------------
(* Accepting *)

ReservableTaken == status.is \in {"open", "reserved"}   \* mutant
Reservable == status = Open

\* The expiry found here is returned and not stored.
Accept(u) ==
    /\ Reservable /\ ~groupPast
    /\ status' = Is("reserved", u)
    /\ accepting' = accepting \union {[user |-> u, reply |-> "none"]}
    /\ UNCHANGED <<swapClocks, expiryJob, notifying, cancelling, taken, swapEscrow>>

\* An error may come after the transfer was made.
UserReplies(a) ==
    /\ a.reply = "none"
    /\ \E reply \in {"success", "error"} :
          accepting' = (accepting \ {a}) \union {[a EXCEPT !.reply = reply]}
    /\ UNCHANGED <<swapClocks, swapMessage, notifying, cancelling, taken, swapEscrow>>

Unreserve(u) == status' = IF status = Is("reserved", u) THEN Open ELSE status

Job(u, attempt) == [user |-> u, attempt |-> attempt, at |-> "call", reply |-> "none"]

AcceptDeposited(a) ==
    /\ a.reply = "success"
    /\ accepting' = accepting \ {a}
    /\ notifying' = notifying \union {Job(a.user, 0)}
    /\ UNCHANGED <<swapClocks, swapMessage, cancelling, taken, swapEscrow>>

AcceptFailed(a) ==
    /\ a.reply = "error"
    /\ accepting' = accepting \ {a}
    /\ Unreserve(a.user)
    /\ UNCHANGED <<swapClocks, expiryJob, notifying, cancelling, taken, swapEscrow>>

Moves(n, at, reply) ==
    notifying' = (notifying \ {n}) \union {[n EXCEPT !.at = at, !.reply = reply]}

\* prepare, of notify_deposit: what it answers at once, or "none" to look up the
\* deposit of a user.  "refused" is SwapCancelled or SwapAlreadyAccepted.
Prepared(u) ==
    IF escrowTime = 2 THEN "expired"
    ELSE IF escrow.cancelled THEN "refused"
    ELSE IF u = Sender THEN IF escrow.offered THEN "success" ELSE "none"
    ELSE IF escrow.acceptedBy = Nobody THEN "none"
    ELSE IF escrow.acceptedBy = u THEN "success" ELSE "refused"

\* process_swap: the deposit is there, and the swap's status is not looked at again.
Received(u) ==
    escrow' = IF u = Sender THEN [escrow EXCEPT !.offered = TRUE]
              ELSE [escrow EXCEPT !.acceptedBy = u]

Confirmed(n, reply) == taken' = taken \union (IF reply = "success" THEN {n.user} ELSE {})

NotifyPrepared(n) ==
    /\ n.at = "call"
    /\ Moves(n, IF Prepared(n.user) = "none" THEN "balance" ELSE "replied", Prepared(n.user))
    /\ Confirmed(n, Prepared(n.user))
    /\ UNCHANGED <<swapClocks, swapMessage, accepting, cancelling, swapEscrow>>

NotifyAccepted(n) ==
    /\ n.at = "balance"
    /\ Moves(n, "replied", "success")
    /\ Confirmed(n, "success")
    /\ Received(n.user)
    /\ UNCHANGED <<swapClocks, swapMessage, accepting, cancelling, checking, news,
                   newsSent>>

\* BalanceTooLow: the deposit went back after the call of somebody else.
NotifyTooLow(n) ==
    /\ n.at = "balance"
    /\ Moves(n, "replied", "refused")
    /\ UNCHANGED <<swapClocks, swapMessage, accepting, cancelling, taken, swapEscrow>>

\* The call or one of its ledger calls fails.
NotifyFails(n) ==
    /\ n.at \in {"call", "balance"}
    /\ Moves(n, "replied", "failed")
    /\ UNCHANGED <<swapClocks, swapMessage, accepting, cancelling, taken, swapEscrow>>

NotifyReplied(n) ==
    /\ n.at = "replied"
    /\ IF n.reply = "failed" /\ n.attempt < MaxRetries
       THEN notifying' = (notifying \ {n}) \union {Job(n.user, n.attempt + 1)}
       ELSE notifying' = notifying \ {n}
    /\ CASE n.reply = "success" /\ status = Is("reserved", n.user) ->
                status' = Is("accepted", n.user)
         [] n.reply = "expired" -> Unreserve(n.user)
         [] OTHER -> UNCHANGED status
    /\ UNCHANGED <<swapClocks, expiryJob, accepting, cancelling, taken, swapEscrow>>

-----------------------------------------------------------------------------
(* Cancellation, expiry and the end of the message *)

CancellableAny == status.is # "gone"    \* mutant
Cancellable == status = Open

CancelSwap ==
    /\ Cancellable
    /\ status' = Is("cancelled", Nobody)
    /\ cancelling' = {0}
    /\ UNCHANGED <<swapClocks, expiryJob, accepting, notifying, taken, swapEscrow>>

EscrowCancels(attempt) ==
    /\ cancelling' = cancelling \ {attempt}
    /\ escrow' = [escrow EXCEPT !.cancelled = @ \/ (escrow.acceptedBy = Nobody /\ escrowTime < 2)]
    /\ UNCHANGED <<swapClocks, swapMessage, accepting, notifying, taken, checking, news,
                   newsSent>>

CancelFails(attempt) ==
    /\ cancelling' = IF attempt < MaxRetries THEN {attempt + 1} ELSE {}
    /\ UNCHANGED <<swapClocks, swapMessage, accepting, notifying, taken, swapEscrow>>

MarkExpired ==
    /\ expiryJob /\ groupPast
    /\ expiryJob' = FALSE
    /\ status' = IF status = Open THEN Is("expired", Nobody) ELSE status
    /\ UNCHANGED <<swapClocks, swapCalls, taken, swapEscrow>>

\* HardDeleteMessageContentJob, some time after the sender deleted the message
HardDeleteSwap ==
    /\ status.is # "gone"
    /\ status' = Is("gone", Nobody)
    /\ cancelling' = IF status = Open THEN {0} ELSE cancelling
    /\ UNCHANGED <<swapClocks, expiryJob, accepting, notifying, taken, swapEscrow>>

\* The message expires, or old messages are removed: the escrow is not told.
RemoveSwap ==
    /\ status.is # "gone"
    /\ status' = Is("gone", Nobody)
    /\ UNCHANGED <<swapClocks, expiryJob, swapCalls, taken, swapEscrow>>

-----------------------------------------------------------------------------
(* The escrow *)

\* notify_deposit is open to every caller: the sender's user canister calls it for
\* the offer, and anyone may for anyone, as often as they like.
OtherPrepared(u) ==
    /\ u \notin checking /\ Prepared(u) = "none"
    /\ checking' = checking \union {u}
    /\ UNCHANGED <<swapClocks, swapMessage, swapCalls, taken, escrow, news, newsSent>>

\* The deposit is there, or it is not or the call fails.
OtherChecked(u) ==
    /\ checking' = checking \ {u}
    /\ Received(u) \/ UNCHANGED escrow
    /\ UNCHANGED <<swapClocks, swapMessage, swapCalls, taken, news, newsSent>>

BothIn == escrow.offered /\ escrow.acceptedBy # Nobody

\* Both payments were made.
Exchange ==
    /\ BothIn /\ ~escrow.out
    /\ escrow' = [escrow EXCEPT !.out = TRUE]
    /\ UNCHANGED <<swapClocks, swapMessage, swapCalls, taken, checking, news, newsSent>>

\* Swap::status
EscrowStatus ==
    IF BothIn THEN Is(IF escrow.out THEN "completed" ELSE "accepted", escrow.acceptedBy)
    ELSE IF escrow.cancelled THEN Is("cancelled", Nobody)
    ELSE IF escrowTime > 0 THEN Is("expired", Nobody)
    ELSE Open

\* Sent when the exchange or a refund was made, and again after a failure.
EscrowTells ==
    /\ EscrowStatus.is \in {"completed", "cancelled", "expired"}
    /\ newsSent < MaxNews
    /\ newsSent' = newsSent + 1
    /\ news' = news \union {EscrowStatus}
    /\ UNCHANGED <<swapClocks, swapMessage, swapCalls, taken, checking, escrow>>

\* c2c_notify_p2p_swap_status_change
SwapNews(s) ==
    /\ news' = news \ {s}
    /\ status' = IF status.is = "gone" \/ (s.is = "completed" /\ status # Is("accepted", s.user))
                 THEN status ELSE s
    /\ UNCHANGED <<swapClocks, expiryJob, swapCalls, taken, checking, escrow, newsSent>>

GroupClockPasses ==
    /\ ~groupPast
    /\ groupPast' = TRUE
    /\ UNCHANGED <<escrowTime, swapMessage, swapCalls, taken, swapEscrow>>

EscrowClockPasses ==
    /\ escrowTime < 2
    /\ escrowTime' = escrowTime + 1
    /\ UNCHANGED <<groupPast, swapMessage, swapCalls, taken, swapEscrow>>

SwapNext ==
    \/ \E u \in Members : Accept(u)
    \/ \E a \in accepting : UserReplies(a) \/ AcceptDeposited(a) \/ AcceptFailed(a)
    \/ \E n \in notifying : NotifyPrepared(n) \/ NotifyAccepted(n) \/ NotifyTooLow(n)
                                \/ NotifyFails(n) \/ NotifyReplied(n)
    \/ \E u \in Members \union Strangers : OtherPrepared(u)
    \/ \E u \in checking : OtherChecked(u)
    \/ \E attempt \in cancelling : EscrowCancels(attempt) \/ CancelFails(attempt)
    \/ \E s \in news : SwapNews(s)
    \/ CancelSwap \/ MarkExpired \/ HardDeleteSwap \/ RemoveSwap
    \/ Exchange \/ EscrowTells
    \/ GroupClockPasses \/ EscrowClockPasses

SwapSpec == SwapInit /\ [][SwapNext]_swapVars

-----------------------------------------------------------------------------
(* Properties *)

\* Who is paying for the swap through the group, having the group notify the
\* escrow, or was confirmed to the group
Takers == {a.user : a \in accepting} \union {n.user : n \in notifying} \union taken

\* The reservation in the message is the only lock of the swap, held over the
\* calls of a user canister and the escrow and up to twenty retries: one member
\* at a time takes the swap through the group, and none once the group withdraws
\* it.  The escrow does not know the reservation, so this says nothing of who
\* deposits and notifies it without the group.
OneTaker ==
    /\ \A u, v \in Takers : u = v
    /\ cancelling # {} => Takers = {}

\* What members see is what became of the deposit the group vouched for: a swap
\* shows as accepted or completed by a user only after the escrow confirmed that
\* user's deposit to the group and while it has an accepter, as completed only
\* after the exchange, and as cancelled only when no deposit was ever confirmed
\* to the group, whatever acceptances, cancellations, expiry, notifications and
\* calls of others overlap.  Others can make it show as cancelled although the
\* escrow accepted and exchanged: see README.
TruthfulSwap ==
    /\ status.is \in {"accepted", "completed"} =>
            /\ status.user \in taken
            /\ status.user = Sender \/ escrow.acceptedBy # Nobody
    /\ status.is = "completed" => escrow.out
    /\ status.is = "cancelled" => taken = {}
=============================================================================
