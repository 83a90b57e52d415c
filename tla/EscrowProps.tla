----------------------------- MODULE EscrowProps -----------------------------
(***************************************************************************)
(* What the escrow canister promises.                                      *)
(***************************************************************************)
EXTENDS Escrow

\* Every variable has its type.
TypeOK ==
    /\ now \in Nat /\ deposits \in Nat
    /\ swaps \in Seq(Swap) /\ Len(swaps) <= MaxSwaps
    /\ expiring \subseteq SwapIds
    /\ checks \subseteq Check /\ calls \in Nat /\ raced \subseteq SwapIds
    /\ pending \in Seq(Payment) /\ payTimer \in BOOLEAN
    /\ paying \subseteq Paying
    /\ notifyQueue \in Seq(SwapIds) /\ notifyTimer \in BOOLEAN
    /\ sending \in Seq([swap : SwapIds, status : SwapStatus])
    /\ told \in [SwapIds -> SwapStatus]
    /\ held \in [SwapIds -> [Users -> Nat]]
    /\ paid \subseteq Payment

\* Every payment there has been, but for those a ledger refused.
Payments == Due \union paid

Exchanged(s) == {p \in Payments : p.swap = s /\ ~IsRefund(p)}

\* Unless a race happens to a swap, it goes one way: once it is exchanged it is
\* between the offerer and one accepter, each of whom pays once, it is not
\* cancelled, and neither of the two deposits is also sent back.  (What is sent
\* back of a deposit that was too small is less than Amount.)  And no payment of
\* the exchange that is still to be made finds less in its account than it takes,
\* so that neither side is left unpaid, unless a ledger refuses what it could do.
ExchangedWhole ==
    \A s \in Known \ raced : Exchanged(s) # {} =>
        /\ \A p, q \in Exchanged(s) :
              /\ {p.from, p.to} = {swaps[s].offeredBy, swaps[s].acceptedBy}
              /\ p.from = q.from => p = q
        /\ ~swaps[s].cancelled
        /\ \A p \in Payments :
              p.swap = s /\ IsRefund(p) /\ p.amount >= Amount => ~Counted(s, p.from)
        /\ \A p \in Exchanged(s) \ paid : held[s][p.from] >= p.amount + Fee

\* A swap reported as Completed was paid both ways: both transfers were
\* executed by the ledgers, for the agreed amounts.
CompletedWasPaid ==
    \A s \in Known : Status(s) = "Completed" =>
        /\ \E p \in paid : p.swap = s /\ ~IsRefund(p) /\ p.amount = Amount
                           /\ p.from = swaps[s].offeredBy
        /\ \E p \in paid : p.swap = s /\ ~IsRefund(p) /\ p.amount = Amount
                           /\ p.to = swaps[s].offeredBy

\* No job falls asleep over its queue.
QueuesArmed ==
    /\ pending # <<>> => payTimer
    /\ notifyQueue # <<>> => notifyTimer

-----------------------------------------------------------------------------
\* Deposits that arrive after a cancellation or the expiry go back to their
\* depositors: a swap whose refunds were made is not exchanged as well.
UnavailableNotExchanged == \A s \in Known : swaps[s].cancelled => Exchanged(s) = {}

\* After the expiry job of a swap that did not have both deposits, it is not
\* exchanged.
ExpiredNotExchanged ==
    [][\A s \in Known : s \notin expiring /\ Exchanged(s) = {} => Exchanged(s)' = {}]_vars

-----------------------------------------------------------------------------
Both(s) == swaps[s].received0 /\ swaps[s].received1
Tokens(s, P) == {IF p.from = swaps[s].offeredBy THEN "token0" ELSE "token1" : p \in P}

Phase(s) ==
    IF s \notin Known THEN "open"
    ELSE IF s \in raced THEN "raced"
    ELSE IF Both(s) THEN "agreed"
    ELSE IF swaps[s].cancelled \/ s \notin expiring THEN "ended" ELSE "open"

\* The tokens of the exchanges, and of the refunds of whole deposits that count
\* as received
PaidTokens(s) ==
    IF s \notin Known \ raced THEN {}
    ELSE Tokens(s, {p \in paid : p.swap = s /\ ~IsRefund(p)})
ReturnedTokens(s) ==
    IF s \notin Known \ raced THEN {}
    ELSE Tokens(s, {p \in paid : /\ p.swap = s /\ IsRefund(p) /\ p.amount >= Amount
                                 /\ Counted(s, p.from)})

\* The escrow is an atomic swap: races end what it promises of a swap, and
\* nothing else does.
Atomic == INSTANCE AtomicSwap WITH
    Swaps <- SwapIds,
    phase <- [s \in SwapIds |-> Phase(s)],
    paid <- [s \in SwapIds |-> PaidTokens(s)],
    returned <- [s \in SwapIds |-> ReturnedTokens(s)]

ImplementsAtomicSwap == Atomic!Spec

-----------------------------------------------------------------------------
Received(s, u) ==
    /\ s \in Known
    /\ IF u = swaps[s].offeredBy THEN swaps[s].received0
       ELSE swaps[s].received1 /\ swaps[s].acceptedBy = u

\* Unless a race happens to its swap, a deposit that was received does not stay
\* in the escrow: it is exchanged or it goes back.  Only swaps that expire before
\* the bounded clock stops.
DepositLeaves ==
    \A s \in SwapIds, u \in Users :
        (Received(s, u) /\ swaps[s].expiresAt <= MaxTime)
            ~> (s \in raced \/ \E p \in paid : p.swap = s /\ p.from = u)

\* The location of a completed swap gets to know.
CompletedTold ==
    \A s \in SwapIds :
        (s \in Known /\ swaps[s].notify /\ Status(s) = "Completed") ~> (told[s] = "Completed")
=============================================================================
