---------------------------- MODULE PrizeClaims -----------------------------
(***************************************************************************)
(* A prize message of a group: members claim its prizes, and at its end,   *)
(* or when it is deleted or expires, what is left goes back to its sender  *)
(* and the fee to the treasury.                                            *)
(*                                                                         *)
(*   updates/c2c_claim_prize.rs       reserve, transfer, claim or roll back*)
(*   libraries/chat_events            the message and its content          *)
(*   timer_job_types.rs               final payments, hard deletion        *)
(*                                                                         *)
(* Claims that are refused change nothing, so who is eligible is left out. *)
(* The timer jobs survive upgrades, and an upgrade waits for every call.   *)
(***************************************************************************)
EXTENDS Integers, SequencesExt

CONSTANTS
    Users,          \* members who may claim
    Prizes,         \* prizes_v2, the amounts
    Fee,            \* the ledger's transfer fee
    FeePercent,     \* PRIZE_FEE_PERCENT
    EndDate,        \* end_date
    MaxAttempts,    \* of a transfer
    MaxTime         \* bound

ASSUME PrizeAssumption ==
    /\ Prizes \in Seq(Nat) /\ {Fee, FeePercent, EndDate, MaxAttempts, MaxTime} \subseteq Nat

VARIABLES
    clock,
    content,        \* is the content still the prize, deleted or removed?
    prize,          \* PrizeContentInternal
    deletedBy,      \* deleted_by
    endJob,         \* is the FinalPrizePayments job still to run?
    deleteJob,      \* is a HardDeleteMessageContent job still to run?
    claims,         \* c2c_claim_prize coroutines awaiting the ledger
    transfers,      \* MakeTransfer jobs
    won,            \* number of prizes the ledger transferred to a user
    balance,        \* what the group still holds of the sender's transfer
    unpaid,         \* history: the fee, when the sender did not pay it in
    late            \* history: what claims after the final payments take

messageVars == <<content, prize, deletedBy>>
prizeJobs == <<endJob, deleteJob>>
historyVars == <<unpaid, late>>
prizeVars ==
    <<clock, messageVars, prizeJobs, claims, transfers, won, balance, historyVars>>

Total(s) == SumFunction(s)
Percent(n) == (n * FeePercent) \div 100

\* What the sender transfers before the message is sent: the prizes and the fees
\* of their transfers (total_amount_to_send_old), and usually the fee on them.
Deposit(fee) == Total(Prizes) + Len(Prizes) * Fee + fee

PrizeInit ==
    /\ clock = 0 /\ content = "prize" /\ deletedBy = "nobody"
    /\ prize = [remaining |-> Prizes, reservations |-> {}, winners |-> {},
                paid |-> 0, started |-> FALSE, ledgerError |-> FALSE]
    /\ endJob = TRUE /\ deleteJob = FALSE
    /\ claims = {} /\ transfers = {}
    /\ won = [u \in Users |-> 0]
    /\ \E fee \in {0, Percent(Total(Prizes))} :
          balance = Deposit(fee) /\ unpaid = Percent(Total(Prizes)) - fee
    /\ late = 0

-----------------------------------------------------------------------------
(* Claims *)

ClaimedWon(u) == u \in prize.winners    \* mutant
Claimed(u) == u \in prize.winners \/ u \in prize.reservations

\* prepare: the last prize is reserved and its transfer sent; in the millisecond
\* of end_date also after the final payments.
Claim(u) ==
    /\ content = "prize"
    /\ clock <= EndDate
    /\ prize.remaining # <<>> /\ ~Claimed(u) /\ ~prize.ledgerError
    /\ prize' = [prize EXCEPT !.remaining = Front(@), !.reservations = @ \union {u}]
    /\ claims' = claims \union
            {[user |-> u, amount |-> Last(prize.remaining), answer |-> "none",
              late |-> prize.started]}
    /\ late' = late + (IF prize.started THEN Last(prize.remaining) + Fee ELSE 0)
    /\ UNCHANGED <<clock, content, deletedBy, prizeJobs, transfers, won, balance, unpaid>>

Answered(c, answer) == claims' = (claims \ {c}) \union {[c EXCEPT !.answer = answer]}

\* The ledger transfers the prize, refuses to, or the call fails.
LedgerAnswers(c) ==
    /\ c.answer = "none"
    /\ \/ /\ Answered(c, "ok")
          /\ won' = [won EXCEPT ![c.user] = @ + 1]
          /\ balance' = balance - (c.amount + Fee)
       \/ /\ \E answer \in {"refused", "failed"} : Answered(c, answer)
          /\ UNCHANGED <<won, balance>>
    /\ UNCHANGED <<clock, messageVars, prizeJobs, transfers, historyVars>>

\* commit: without a reservation the winner is paid and that is all.
ClaimPaid(c) ==
    /\ c.answer = "ok"
    /\ prize' = IF content = "prize" /\ c.user \in prize.reservations
            THEN [prize EXCEPT !.reservations = @ \ {c.user}, !.winners = @ \union {c.user},
                               !.paid = @ + c.amount]
            ELSE prize
    /\ claims' = claims \ {c}
    /\ UNCHANGED <<clock, content, deletedBy, prizeJobs, transfers, won, balance,
                   historyVars>>

PutBackForgotten(p, c) ==       \* mutant
    [p EXCEPT !.reservations = @ \ {c.user}]
PutBack(p, c) ==
    [p EXCEPT !.reservations = @ \ {c.user}, !.remaining = Append(@, c.amount)]

\* rollback: an error of the ledger ends all claims; without a reservation
\* nothing is stored.
ClaimNotPaid(c) ==
    /\ c.answer \in {"refused", "failed"}
    /\ prize' = IF content = "prize" /\ c.user \in prize.reservations
            THEN [PutBack(prize, c) EXCEPT !.ledgerError = @ \/ c.answer = "refused"]
            ELSE prize
    /\ claims' = claims \ {c}
    /\ late' = late - (IF c.late THEN c.amount + Fee ELSE 0)
    /\ UNCHANGED <<clock, content, deletedBy, prizeJobs, transfers, won, balance, unpaid>>

-----------------------------------------------------------------------------
(* Final payments *)

OcFee(p) == Percent(p.paid)

Refund(p) == Total(p.remaining) + Percent(Total(p.remaining)) + Len(p.remaining) * Fee

\* final_payments, at most once; each payment bears its own fee.
StartedNever(p) == FALSE        \* mutant
Started(p) == p.started
FinalPayments(p) ==
    IF Started(p) THEN {}
    ELSE {[to |-> t, amount |-> (IF t = "treasury" THEN OcFee(p) ELSE Refund(p)) - Fee,
           attempt |-> 0] :
              t \in {t \in {"treasury", "sender"} :
                        (IF t = "treasury" THEN OcFee(p) ELSE Refund(p)) > Fee}}

\* FinalPrizePaymentsJob
EndPrize ==
    /\ endJob /\ clock >= EndDate
    /\ endJob' = FALSE
    /\ IF content = "prize"
       THEN /\ transfers' = transfers \union FinalPayments(prize)
            /\ prize' = [prize EXCEPT !.started = TRUE]
       ELSE UNCHANGED <<transfers, prize>>
    /\ UNCHANGED <<clock, content, deletedBy, deleteJob, claims, won, balance, historyVars>>

\* MakeTransferJob: an error of the call is retried, one of the ledger is not.
MakeTransfer(t) ==
    /\ \/ /\ transfers' = transfers \ {t}
          /\ balance' = balance - (t.amount + Fee)
       \/ /\ transfers' = transfers \ {t}
          /\ UNCHANGED balance
       \/ /\ t.attempt < MaxAttempts
          /\ transfers' = (transfers \ {t}) \union {[t EXCEPT !.attempt = @ + 1]}
          /\ UNCHANGED balance
    /\ UNCHANGED <<clock, messageVars, prizeJobs, claims, won, historyVars>>

-----------------------------------------------------------------------------
(* The message *)

\* Only its sender's deletion of a message is followed by its hard deletion.
DeleteMessage(by) ==
    /\ content = "prize" /\ deletedBy = "nobody"
    /\ deletedBy' = by
    /\ deleteJob' = (by = "sender")
    /\ UNCHANGED <<clock, content, prize, endJob, claims, transfers, won, balance,
                   historyVars>>

UndeleteMessage ==
    /\ content = "prize" /\ deletedBy # "nobody"
    /\ deletedBy' = "nobody"
    /\ deleteJob' = FALSE
    /\ UNCHANGED <<clock, content, prize, endJob, claims, transfers, won, balance,
                   historyVars>>

\* HardDeleteMessageContentJob: if the final payments are still to be made it
\* makes them.
HardDelete ==
    /\ deleteJob
    /\ deleteJob' = FALSE
    /\ IF content = "prize"
       THEN /\ content' = "deleted"
            /\ endJob' = FALSE
            /\ transfers' = transfers \union (IF endJob THEN FinalPayments(prize) ELSE {})
            /\ prize' = [prize EXCEPT !.started = @ \/ endJob]
       ELSE UNCHANGED <<content, endJob, transfers, prize>>
    /\ UNCHANGED <<clock, deletedBy, claims, won, balance, historyVars>>

\* remove_event: the message expires or the chat's old messages are removed.
RemoveEvent ==
    /\ content # "removed"
    /\ content' = "removed"
    /\ IF content = "prize"
       THEN /\ transfers' = transfers \union FinalPayments(prize)
            /\ prize' = [prize EXCEPT !.started = TRUE]
       ELSE UNCHANGED <<transfers, prize>>
    /\ UNCHANGED <<clock, deletedBy, prizeJobs, claims, won, balance, historyVars>>

ClockTicks ==
    /\ clock < MaxTime
    /\ clock' = clock + 1
    /\ UNCHANGED <<messageVars, prizeJobs, claims, transfers, won, balance, historyVars>>

PrizeNext ==
    \/ \E u \in Users : Claim(u)
    \/ \E c \in claims : LedgerAnswers(c) \/ ClaimPaid(c) \/ ClaimNotPaid(c)
    \/ \E t \in transfers : MakeTransfer(t)
    \/ \E by \in {"sender", "moderator"} : DeleteMessage(by)
    \/ EndPrize \/ UndeleteMessage \/ HardDelete \/ RemoveEvent \/ ClockTicks

PrizeSpec == PrizeInit /\ [][PrizeNext]_prizeVars

-----------------------------------------------------------------------------
(* Properties *)

UnderWay == {c \in claims : c.answer # "ok"}
Unsettled == content = "prize" /\ ~prize.started

\* What a set of payments takes from the group, and what it brings.
Due(payments) == SumFunction([t \in payments |-> t.amount + Fee])
Amounts(payments) == SumFunction([t \in payments |-> t.amount])

\* What the group has still to pay: prizes under way, transfers to make and,
\* as long as the prize is not settled, the refund and the fee of now.
Promised ==
    Due(UnderWay) + Due(transfers) + IF Unsettled THEN OcFee(prize) + Refund(prize) ELSE 0

\* There are two ways for the group to pay out more for a prize message than its
\* sender paid in, and so with the prizes of other messages: the sender did not
\* pay in the fee, which is paid and returned all the same; and prizes that were
\* returned are claimed once more in the millisecond of the end.  Whatever claims,
\* deletions and final payments overlap, there is no third.
PrizeSolvent == Promised <= balance + unpaid + late

\* A user is paid at most one prize of a message, and who is a winner was paid.
OnePrizeEach == \A u \in Users :
    /\ won[u] <= 1
    /\ u \in prize.winners => won[u] = 1

\* What the prizes under way will add to the fee.
FeeUnderWay == IF Unsettled THEN Percent(Amounts(claims)) ELSE 0

\* Two rounded percentages, and payments too small to be made.
Dust == 2 + 2 * Fee

Stranded == balance - Promised - FeeUnderWay > Dust

\* Money of a prize message stays in the group for ever only when the message
\* is settled while a claim is under way, when such a claim fails later, or
\* when a final payment is given up.
StrandedByLateClaims ==
    [][Stranded' =>
         \/ Stranded
         \/ Unsettled /\ ~Unsettled' /\ claims # {}
         \/ ~Unsettled /\ \E c \in claims : ClaimNotPaid(c)
         \/ \E t \in transfers : MakeTransfer(t)]_prizeVars
=============================================================================
