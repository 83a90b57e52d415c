------------------------------- MODULE Escrow -------------------------------
(***************************************************************************)
(* The escrow canister: peer-to-peer token swaps over deposit accounts of  *)
(* ICRC-1 ledgers.                                                         *)
(*                                                                         *)
(*   updates/create_swap.rs, notify_deposit.rs, cancel_swap.rs             *)
(*   timer_job_types.rs               the expiry of a swap                 *)
(*   jobs/make_pending_payments.rs    the payment queue                    *)
(*   jobs/notify_status_change.rs     the status notifications             *)
(*                                                                         *)
(* A deposit account belongs to one swap and one principal, so its token   *)
(* is token0 for the offerer and token1 for anybody else.  A call to a     *)
(* ledger has three steps: it is sent, the ledger executes it, its reply   *)
(* is handled; other messages run in between.  Calls are unbounded-wait,   *)
(* so a call that failed was not executed.                                 *)
(***************************************************************************)
EXTENDS Naturals, Sequences

CONSTANTS
    Users,          \* principals
    NoOne,          \* Option::None of a principal
    Amount,         \* amount0 and amount1
    Fee,            \* the ledgers' transfer fee
    DepositSizes,   \* what a user may transfer to a deposit account at once
    Lifetimes,      \* expires_at - now of a new swap
    LedgerMayRefuse,    \* may a ledger refuse a transfer it could make?
    TargetMayRefuse,    \* may the notified canister refuse for good?
    Avoided,        \* the races a run leaves out, see below
    MaxSwaps, MaxDeposits, MaxHeld, MaxNotifies, MaxTime    \* bounds

\* What can happen to a swap between two messages of the escrow:
\* overlap: while the balance of a deposit is awaited that prepare found
\*          acceptable, the swap is cancelled or expires, or another such
\*          deposit is notified
\* late:    a deposit is found acceptable after the expiry job has run
\* again:   a deposit is notified that counts as received, or whose last
\*          notification or payment is not finished
Races == {"overlap", "late", "again"}

ASSUME ConstantsAssumption ==
    /\ NoOne \notin Users
    /\ Amount \in Nat \ {0} /\ Fee \in Nat
    /\ DepositSizes \subseteq Nat /\ Lifetimes \subseteq Nat
    /\ LedgerMayRefuse \in BOOLEAN /\ TargetMayRefuse \in BOOLEAN
    /\ Avoided \subseteq Races
    /\ {MaxSwaps, MaxDeposits, MaxHeld, MaxNotifies, MaxTime} \subseteq Nat

VARIABLES
    now,            \* time in milliseconds
    swaps,          \* data.swaps, id = index
    expiring,       \* swaps whose ExpireSwap timer job has not run
    checks,         \* notify_deposit coroutines awaiting a balance
    calls,          \* notify_deposit calls so far
    raced,          \* history: the swaps to which a race happened
    pending,        \* pending_payments_queue
    payTimer,       \* is the TIMER_ID of make_pending_payments set?
    paying,         \* process_payment coroutines awaiting the ledger
    notifyQueue,    \* notify_status_change_queue
    notifyTimer,    \* is the TIMER_ID of notify_status_change set?
    sending,        \* status notifications in flight, in order
    told,           \* the status a swap's canister_to_notify last received
    held,           \* ledger balance of the deposit accounts
    deposits,       \* transfers to deposit accounts so far
    paid            \* transfers out the ledgers executed

checkVars == <<checks, calls, raced>>
payVars == <<pending, payTimer, paying>>
notifyVars == <<notifyQueue, notifyTimer, sending, told>>
ledgerVars == <<held, deposits, paid>>
vars == <<now, swaps, expiring, checkVars, payVars, notifyVars, ledgerVars>>

-----------------------------------------------------------------------------
(* Data *)

SwapIds == 1..MaxSwaps
Known == DOMAIN swaps

Swap == [offeredBy : Users, restrictedTo : Users \union {NoOne},
         expiresAt : Nat, notify : BOOLEAN, cancelled : BOOLEAN,
         acceptedBy : Users \union {NoOne},
         received0 : BOOLEAN, received1 : BOOLEAN,
         out0 : BOOLEAN, out1 : BOOLEAN]

\* What a deposit account must hold for its side to count as received.
Required == Amount + Fee

Payment == [swap : SwapIds, from : Users, to : Users, amount : Nat, at : Nat]
IsRefund(p) == p.from = p.to

SwapStatus == {"Open", "Accepted", "Completed", "Cancelled", "Expired"}

IsCompleteEither(w) == w.out0 \/ w.out1     \* mutant
IsComplete(w) == w.out0 /\ w.out1

Status(s) ==
    LET w == swaps[s]
    IN  IF w.received0 /\ w.acceptedBy # NoOne
        THEN IF IsComplete(w) THEN "Completed" ELSE "Accepted"
        ELSE IF w.cancelled THEN "Cancelled"
        ELSE IF w.expiresAt <= now THEN "Expired" ELSE "Open"

\* A coroutine of notify_deposit.  purpose tells process_swap from
\* check_for_refund; the balance is read when the ledger executes the call.
Check == [id : Nat, swap : SwapIds, user : Users, purpose : {"swap", "refund"},
          read : BOOLEAN, balance : Nat]

\* A coroutine of process_payment and what the ledger answered so far.
Paying == [payment : Payment, answer : {"none", "ok", "refused"}]

\* u is the offerer, or the accepter, and the deposit was received.
Counted(s, u) ==
    \/ u = swaps[s].offeredBy /\ swaps[s].received0
    \/ u = swaps[s].acceptedBy /\ swaps[s].received1

\* The checks of s that may take a deposit
Deciding(s) == {c \in checks : c.swap = s /\ c.purpose = "swap"}

\* The payments the escrow has yet to hear of
Queued == {pending[i] : i \in DOMAIN pending}
Due == Queued \union {j.payment : j \in paying}

Busy(s, u) ==
    \/ Counted(s, u)
    \/ \E c \in checks : c.swap = s /\ c.user = u
    \/ \E p \in Due : p.swap = s /\ p.from = u

\* The races of this step to s; no guard, unless a run avoids one.
Race(s, races) ==
    /\ races \cap Avoided = {}
    /\ raced' = IF races = {} THEN raced ELSE raced \union {s}

Overlap(s) == IF Deciding(s) = {} THEN {} ELSE {"overlap"}

-----------------------------------------------------------------------------
Init ==
    /\ now = 1 /\ swaps = <<>> /\ expiring = {}
    /\ checks = {} /\ calls = 0 /\ raced = {}
    /\ pending = <<>> /\ payTimer = FALSE /\ paying = {}
    /\ notifyQueue = <<>> /\ notifyTimer = FALSE /\ sending = <<>>
    /\ told = [s \in SwapIds |-> "Open"]
    /\ held = [s \in SwapIds |-> [u \in Users |-> 0]]
    /\ deposits = 0 /\ paid = {}

-----------------------------------------------------------------------------
(* Swaps *)

\* push to the payment queue and start_job_if_required
PayUnarmed(ps) == pending' = pending \o ps /\ UNCHANGED payTimer    \* mutant
Pay(ps) ==
    /\ pending' = pending \o ps
    /\ payTimer' = (payTimer \/ pending' # <<>>)

Owed(s, from, to, amount) ==
    [swap |-> s, from |-> from, to |-> to, amount |-> amount, at |-> now]

\* push_refunds
Refunds(s) ==
    LET w == swaps[s]
    IN  (IF w.received0 THEN <<Owed(s, w.offeredBy, w.offeredBy, Amount)>> ELSE <<>>)
        \o (IF w.received1 /\ w.acceptedBy # NoOne
            THEN <<Owed(s, w.acceptedBy, w.acceptedBy, Amount)>> ELSE <<>>)

CreateSwap(offerer, accepter, lifetime, notify) ==
    /\ Len(swaps) < MaxSwaps
    /\ accepter # offerer
    /\ swaps' = Append(swaps,
          [offeredBy |-> offerer, restrictedTo |-> accepter,
           expiresAt |-> now + lifetime, notify |-> notify,
           cancelled |-> FALSE, acceptedBy |-> NoOne,
           received0 |-> FALSE, received1 |-> FALSE,
           out0 |-> FALSE, out1 |-> FALSE])
    /\ expiring' = expiring \union {Len(swaps')}
    /\ UNCHANGED <<now, checkVars, payVars, notifyVars, ledgerVars>>

CancelSwap(s) ==
    /\ Race(s, Overlap(s))
    /\ swaps[s].acceptedBy = NoOne
    /\ now <= swaps[s].expiresAt
    /\ ~swaps[s].cancelled
    /\ swaps' = [swaps EXCEPT ![s].cancelled = TRUE]
    /\ Pay(Refunds(s))
    /\ UNCHANGED <<now, expiring, checks, calls, paying, notifyVars, ledgerVars>>

\* The ExpireSwap timer job; it runs once.
ExpireSwap(s) ==
    /\ Race(s, Overlap(s))
    /\ s \in expiring /\ swaps[s].expiresAt <= now
    /\ expiring' = expiring \ {s}
    /\ IF Status(s) = "Expired" THEN Pay(Refunds(s)) ELSE UNCHANGED <<pending, payTimer>>
    /\ UNCHANGED <<now, swaps, checks, calls, paying, notifyVars, ledgerVars>>

-----------------------------------------------------------------------------
(* notify_deposit *)

\* prepare: a deposit of u to s can still be taken.
AcceptableCancelled(s, u) == now <= swaps[s].expiresAt    \* mutant
AcceptableTaken(s, u) ==                                  \* mutant
    LET w == swaps[s]
    IN  now <= w.expiresAt /\ ~w.cancelled /\ (u = w.offeredBy => ~w.received0)
Acceptable(s, u) ==
    LET w == swaps[s]
    IN  /\ now <= w.expiresAt /\ ~w.cancelled
        /\ IF u = w.offeredBy
           THEN ~w.received0
           ELSE w.acceptedBy = NoOne /\ w.restrictedTo \in {NoOne, u}

NotifyRaces(s, u) ==
    (IF Acceptable(s, u) THEN Overlap(s) \union (IF s \in expiring THEN {} ELSE {"late"})
     ELSE {})
    \union (IF Busy(s, u) THEN {"again"} ELSE {})

\* In every other case prepare asks for a refund check, also for a deposit
\* that was received before.
NotifyDeposit(s, u) ==
    /\ Race(s, NotifyRaces(s, u))
    /\ calls < MaxNotifies
    /\ calls' = calls + 1
    /\ checks' = checks \union
          {[id |-> calls, swap |-> s, user |-> u,
            purpose |-> IF Acceptable(s, u) THEN "swap" ELSE "refund",
            read |-> FALSE, balance |-> 0]}
    /\ UNCHANGED <<now, swaps, expiring, payVars, notifyVars, ledgerVars>>

\* The ledger executes icrc1_balance_of.
ReadBalance(c) ==
    /\ ~c.read
    /\ checks' = (checks \ {c}) \union
          {[c EXCEPT !.read = TRUE, !.balance = held[c.swap][c.user]]}
    /\ UNCHANGED <<now, swaps, expiring, calls, raced, payVars, notifyVars, ledgerVars>>

\* The balance, less the fee, goes back to the depositor.
RefundBalance(c) ==
    Pay(IF c.balance > Fee
        THEN <<Owed(c.swap, c.user, c.user, c.balance - Fee)>> ELSE <<>>)

\* process_swap, too little was deposited; or check_for_refund
ReturnDeposit(c) ==
    /\ c.read
    /\ c.purpose = "swap" => c.balance < Required
    /\ checks' = checks \ {c}
    /\ RefundBalance(c)
    /\ UNCHANGED <<now, swaps, expiring, calls, raced, paying, notifyVars, ledgerVars>>

ReceivedBy(w, u) ==
    IF u = w.offeredBy THEN [w EXCEPT !.received0 = TRUE]
                       ELSE [w EXCEPT !.received1 = TRUE, !.acceptedBy = u]

Complete(w) == w.received0 /\ w.received1

\* process_swap, enough was deposited: the swap is not looked at again.
TakeDeposit(c) ==
    LET w == ReceivedBy(swaps[c.swap], c.user)
    IN  /\ c.read /\ c.purpose = "swap" /\ c.balance >= Required
        /\ checks' = checks \ {c}
        /\ swaps' = [swaps EXCEPT ![c.swap] = w]
        /\ Pay(IF Complete(w)
               THEN <<Owed(c.swap, w.acceptedBy, w.offeredBy, Amount),
                      Owed(c.swap, w.offeredBy, w.acceptedBy, Amount)>>
               ELSE <<>>)
        /\ UNCHANGED <<now, expiring, calls, raced, paying, notifyVars, ledgerVars>>

\* The balance call failed: InternalError.
CheckFails(c) ==
    /\ ~c.read
    /\ checks' = checks \ {c}
    /\ UNCHANGED <<now, swaps, expiring, calls, raced, payVars, notifyVars, ledgerVars>>

-----------------------------------------------------------------------------
(* Payments *)

\* run: pop one payment, spawn process_payment, arm the timer again.
MakePayment ==
    /\ payTimer /\ pending # <<>>
    /\ pending' = Tail(pending)
    /\ paying' = paying \union {[payment |-> Head(pending), answer |-> "none"]}
    /\ payTimer' = (pending' # <<>>)
    /\ UNCHANGED <<now, swaps, expiring, checkVars, notifyVars, ledgerVars>>

\* The ledger can make a transfer it has not made already: created_at_time
\* makes two equal transfers duplicates.
CanTransfer(p) == p \notin paid /\ held[p.swap][p.from] >= p.amount + Fee

LedgerTransfers(j) ==
    LET p == j.payment
    IN  /\ j.answer = "none" /\ CanTransfer(p)
        /\ held' = [held EXCEPT ![p.swap][p.from] = @ - (p.amount + Fee)]
        /\ paid' = paid \union {p}
        /\ paying' = (paying \ {j}) \union {[j EXCEPT !.answer = "ok"]}
        /\ UNCHANGED <<now, swaps, expiring, checkVars, pending, payTimer,
                       notifyVars, deposits>>

LedgerRefuses(j) ==
    /\ j.answer = "none"
    /\ LedgerMayRefuse \/ ~CanTransfer(j.payment)
    /\ paying' = (paying \ {j}) \union {[j EXCEPT !.answer = "refused"]}
    /\ UNCHANGED <<now, swaps, expiring, checkVars, pending, payTimer,
                   notifyVars, ledgerVars>>

\* push to the notification queue and start_job_if_required
QueueNotification(s) ==
    /\ notifyQueue' = Append(notifyQueue, s)
    /\ notifyTimer' = TRUE

\* process_payment, Ok(Ok): the transfer is recorded.
PaymentMade(j) ==
    LET p == j.payment
        w == swaps[p.swap]
        out == IF p.from = w.offeredBy THEN [w EXCEPT !.out0 = TRUE]
                                       ELSE [w EXCEPT !.out1 = TRUE]
    IN  /\ j.answer = "ok"
        /\ paying' = paying \ {j}
        /\ swaps' = IF IsRefund(p) THEN swaps ELSE [swaps EXCEPT ![p.swap] = out]
        /\ IF IF IsRefund(p) THEN Status(p.swap) \in {"Expired", "Cancelled"}
                             ELSE IsComplete(out)
           THEN QueueNotification(p.swap)
           ELSE UNCHANGED <<notifyQueue, notifyTimer>>
        /\ UNCHANGED <<now, expiring, checkVars, pending, payTimer, sending,
                       told, ledgerVars>>

\* process_payment, Ok(Err): an error is recorded and the payment dropped.
PaymentRefused(j) ==
    /\ j.answer = "refused"
    /\ paying' = paying \ {j}
    /\ UNCHANGED <<now, swaps, expiring, checkVars, pending, payTimer,
                   notifyVars, ledgerVars>>

\* process_payment, Err: the payment goes to the back of the queue.
PaymentLost(j) ==    \* mutant
    /\ j.answer = "none"
    /\ paying' = paying \ {j}
    /\ UNCHANGED <<now, swaps, expiring, checkVars, pending, payTimer,
                   notifyVars, ledgerVars>>
PaymentFails(j) ==
    /\ j.answer = "none"
    /\ paying' = paying \ {j}
    /\ Pay(<<j.payment>>)
    /\ UNCHANGED <<now, swaps, expiring, checkVars, notifyVars, ledgerVars>>

-----------------------------------------------------------------------------
(* Status notifications *)

\* run and get_next: the first queued swap that has a canister to notify; its
\* status is taken now.
SendStatus ==
    LET wanted == {i \in DOMAIN notifyQueue : swaps[notifyQueue[i]].notify}
        first == CHOOSE i \in wanted : \A j \in wanted : i <= j
        s == notifyQueue[first]
    IN  /\ notifyTimer
        /\ IF wanted = {}
           THEN notifyQueue' = <<>> /\ UNCHANGED sending
           ELSE /\ notifyQueue' = SubSeq(notifyQueue, first + 1, Len(notifyQueue))
                /\ sending' = Append(sending, [swap |-> s, status |-> Status(s)])
        /\ notifyTimer' = (notifyQueue' # <<>>)
        /\ UNCHANGED <<now, swaps, expiring, checkVars, payVars, told, ledgerVars>>

StatusArrives ==
    /\ sending # <<>>
    /\ told' = [told EXCEPT ![Head(sending).swap] = Head(sending).status]
    /\ sending' = Tail(sending)
    /\ UNCHANGED <<now, swaps, expiring, checkVars, payVars, notifyQueue,
                   notifyTimer, ledgerVars>>

\* The call failed: the swap is queued again for a fresh status, unless the
\* target is gone or rejects.
StatusDropped(retry) ==     \* mutant
    /\ sending # <<>>
    /\ sending' = Tail(sending)
    /\ UNCHANGED <<now, swaps, expiring, checkVars, payVars, notifyQueue,
                   notifyTimer, told, ledgerVars>>
StatusFails(retry) ==
    /\ sending # <<>>
    /\ retry \/ TargetMayRefuse
    /\ sending' = Tail(sending)
    /\ IF retry THEN QueueNotification(Head(sending).swap)
                ELSE UNCHANGED <<notifyQueue, notifyTimer>>
    /\ UNCHANGED <<now, swaps, expiring, checkVars, payVars, told, ledgerVars>>

-----------------------------------------------------------------------------
(* Environment *)

Deposit(s, u, k) ==
    /\ deposits < MaxDeposits /\ held[s][u] + k <= MaxHeld
    /\ held' = [held EXCEPT ![s][u] = @ + k]
    /\ deposits' = deposits + 1
    /\ UNCHANGED <<now, swaps, expiring, checkVars, payVars, notifyVars, paid>>

\* stop_canister waits for the callbacks; timer jobs and queues are serialized
\* and jobs::start arms the timers.
Upgrade ==
    /\ checks = {} /\ paying = {} /\ sending = <<>>
    /\ payTimer' = (pending # <<>>)
    /\ notifyTimer' = (notifyQueue # <<>>)
    /\ UNCHANGED <<now, swaps, expiring, checkVars, pending, paying,
                   notifyQueue, sending, told, ledgerVars>>

Tick ==
    /\ now < MaxTime
    /\ now' = now + 1
    /\ UNCHANGED <<swaps, expiring, checkVars, payVars, notifyVars, ledgerVars>>

SwapStep ==
    \/ \E o \in Users, a \in Users \union {NoOne}, l \in Lifetimes, n \in BOOLEAN :
          CreateSwap(o, a, l, n)
    \/ \E s \in Known : CancelSwap(s) \/ ExpireSwap(s)

DepositStep ==
    \/ \E s \in Known, u \in Users :
          NotifyDeposit(s, u) \/ \E k \in DepositSizes : Deposit(s, u, k)
    \/ \E c \in checks :
          ReadBalance(c) \/ ReturnDeposit(c) \/ TakeDeposit(c) \/ CheckFails(c)

PaymentStep ==
    \/ MakePayment
    \/ \E j \in paying : \/ LedgerTransfers(j) \/ LedgerRefuses(j)
                         \/ PaymentMade(j) \/ PaymentRefused(j) \/ PaymentFails(j)

StatusStep == SendStatus \/ StatusArrives \/ \E retry \in BOOLEAN : StatusFails(retry)

Next == SwapStep \/ DepositStep \/ PaymentStep \/ StatusStep \/ Upgrade \/ Tick

Spec == Init /\ [][Next]_vars

\* Timers fire and calls are answered; a call that is retried for ever does not
\* fail for ever.
Fairness ==
    /\ WF_vars(MakePayment) /\ WF_vars(SendStatus) /\ WF_vars(Tick)
    /\ WF_vars(\E s \in Known : ExpireSwap(s))
    /\ WF_vars(\E c \in checks : ReadBalance(c) \/ ReturnDeposit(c) \/ TakeDeposit(c))
    /\ WF_vars(\E j \in paying : PaymentMade(j) \/ PaymentRefused(j))
    /\ SF_vars(\E j \in paying : LedgerTransfers(j) \/ LedgerRefuses(j))
    /\ SF_vars(StatusArrives)

FairSpec == Spec /\ Fairness
=============================================================================
