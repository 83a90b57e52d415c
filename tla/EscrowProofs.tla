---------------------------- MODULE EscrowProofs ----------------------------
(***************************************************************************)
(* Proofs about the escrow canister, for any principals, amounts, fees,    *)
(* lifetimes and number of swaps, whatever callers and ledgers do.  The    *)
(* first part is about what is recorded and paid of every swap, the second *)
(* about the swaps to which no race happened, the third shows that the     *)
(* escrow is an atomic swap until a race happens.                          *)
(***************************************************************************)
EXTENDS EscrowProps, SequenceTheorems, WellFoundedInduction, TLAPS

USE DEF vars, checkVars, payVars, notifyVars, ledgerVars

-----------------------------------------------------------------------------
(* Sequences *)

Elems(q) == {q[i] : i \in DOMAIN q}

LEMMA ElemsConcat ==
    ASSUME NEW S, NEW q \in Seq(S), NEW r \in Seq(S)
    PROVE  q \o r \in Seq(S) /\ Elems(q \o r) = Elems(q) \union Elems(r)
<1>1. /\ q \o r \in Seq(S) /\ Len(q \o r) = Len(q) + Len(r)
      /\ \A i \in 1 .. Len(q) + Len(r) :
            (q \o r)[i] = IF i <= Len(q) THEN q[i] ELSE r[i - Len(q)]
    BY ConcatProperties
<1>2. /\ Len(q) \in Nat /\ Len(r) \in Nat
      /\ DOMAIN q = 1..Len(q) /\ DOMAIN r = 1..Len(r)
      /\ DOMAIN (q \o r) = 1..(Len(q) + Len(r))
    BY <1>1, LenProperties
<1>3. ASSUME NEW i \in DOMAIN (q \o r)
      PROVE  (q \o r)[i] \in Elems(q) \union Elems(r)
  <2>1. CASE i <= Len(q)
    <3>1. i \in DOMAIN q /\ (q \o r)[i] = q[i]
        BY <1>1, <1>2, <1>3, <2>1
    <3> QED
        BY <3>1 DEF Elems
  <2>2. CASE ~(i <= Len(q))
    <3>1. i - Len(q) \in DOMAIN r /\ (q \o r)[i] = r[i - Len(q)]
        BY <1>1, <1>2, <1>3, <2>2
    <3> QED
        BY <3>1 DEF Elems
  <2> QED
      BY <2>1, <2>2
<1>4. ASSUME NEW i \in DOMAIN q PROVE q[i] \in Elems(q \o r)
  <2>1. i \in DOMAIN (q \o r) /\ (q \o r)[i] = q[i]
      BY <1>1, <1>2, <1>4
  <2> QED
      BY <2>1 DEF Elems
<1>5. ASSUME NEW i \in DOMAIN r PROVE r[i] \in Elems(q \o r)
  <2>1. /\ i + Len(q) \in DOMAIN (q \o r) /\ ~(i + Len(q) <= Len(q))
        /\ (i + Len(q)) - Len(q) = i
      BY <1>2, <1>5
  <2>2. (q \o r)[i + Len(q)] = r[i]
      BY <1>1, <1>2, <2>1
  <2> QED
      BY <2>1, <2>2 DEF Elems
<1>6. Elems(q \o r) \subseteq Elems(q) \union Elems(r)
    BY <1>3 DEF Elems
<1>7. Elems(q) \subseteq Elems(q \o r) /\ Elems(r) \subseteq Elems(q \o r)
    BY <1>4, <1>5 DEF Elems
<1> QED
    BY <1>1, <1>6, <1>7

LEMMA ElemsNone == ASSUME NEW S PROVE <<>> \in Seq(S) /\ Elems(<<>>) = {}
BY DEF Elems

LEMMA ElemsOne ==
    ASSUME NEW S, NEW x \in S
    PROVE  <<x>> \in Seq(S) /\ Elems(<<x>>) = {x}
BY DEF Elems

LEMMA ElemsTwo ==
    ASSUME NEW S, NEW x \in S, NEW y \in S
    PROVE  <<x, y>> \in Seq(S) /\ Elems(<<x, y>>) = {x, y}
BY DEF Elems

LEMMA ElemsHeadTail ==
    ASSUME NEW S, NEW q \in Seq(S), q # <<>>
    PROVE  /\ Head(q) \in S /\ Tail(q) \in Seq(S)
           /\ Elems(q) = {Head(q)} \union Elems(Tail(q))
<1>1. /\ Head(q) \in S /\ Tail(q) \in Seq(S) /\ Len(Tail(q)) = Len(q) - 1
      /\ \A i \in 1 .. Len(Tail(q)) : Tail(q)[i] = q[i + 1]
    BY HeadTailProperties
<1>2. /\ Len(q) \in Nat \ {0} /\ DOMAIN q = 1..Len(q) /\ Head(q) = q[1]
      /\ DOMAIN Tail(q) = 1..(Len(q) - 1)
    BY <1>1, LenProperties, EmptySeq
<1>3. ASSUME NEW i \in DOMAIN q PROVE q[i] \in {Head(q)} \union Elems(Tail(q))
  <2>1. CASE i = 1
      BY <1>2, <2>1
  <2>2. CASE i # 1
    <3>1. i - 1 \in DOMAIN Tail(q) /\ Tail(q)[i - 1] = q[i]
        BY <1>1, <1>2, <1>3, <2>2
    <3> QED
        BY <3>1 DEF Elems
  <2> QED
      BY <2>1, <2>2
<1>4. ASSUME NEW i \in DOMAIN Tail(q) PROVE Tail(q)[i] \in Elems(q)
  <2>1. i + 1 \in DOMAIN q /\ Tail(q)[i] = q[i + 1]
      BY <1>1, <1>2, <1>4
  <2> QED
      BY <2>1 DEF Elems
<1>5. Head(q) \in Elems(q)
    BY <1>2 DEF Elems
<1>6. Elems(q) \subseteq {Head(q)} \union Elems(Tail(q))
    BY <1>3 DEF Elems
<1>7. Elems(Tail(q)) \subseteq Elems(q)
    BY <1>4 DEF Elems
<1> QED
    BY <1>1, <1>5, <1>6, <1>7

-----------------------------------------------------------------------------
(* The invariant *)

\* Nothing is under way for a swap that does not exist, and a second deposit
\* has a depositor.
KnownOK ==
    /\ \A c \in checks : c.swap \in Known
    /\ \A p \in Payments : p.swap \in Known
    /\ \A s \in Known : swaps[s].received1 => swaps[s].acceptedBy \in Users

\* A payment to the other party is of the agreed amount and between the
\* offerer and somebody, of a swap with both deposits.
PaymentOK(p) ==
    ~IsRefund(p) =>
        /\ swaps[p.swap].received0 /\ swaps[p.swap].received1
        /\ swaps[p.swap].offeredBy \in {p.from, p.to} /\ p.amount = Amount

PaidFrom(s) == \E p \in paid : /\ p.swap = s /\ ~IsRefund(p) /\ p.amount = Amount
                               /\ p.from = swaps[s].offeredBy
PaidTo(s) == \E p \in paid : /\ p.swap = s /\ ~IsRefund(p) /\ p.amount = Amount
                             /\ p.to = swaps[s].offeredBy

\* What is recorded as transferred was transferred.
RecordedOK ==
    /\ \A j \in paying : j.answer = "ok" => j.payment \in paid
    /\ \A s \in Known : /\ swaps[s].out0 => PaidFrom(s)
                        /\ swaps[s].out1 => PaidTo(s)

SwapInv == /\ TypeOK /\ KnownOK /\ RecordedOK
           /\ \A p \in Payments : PaymentOK(p)

-----------------------------------------------------------------------------
(* What the operations of the model do *)

LEMMA KnownIds ==
    ASSUME TypeOK
    PROVE  /\ Known = 1..Len(swaps) /\ Known \subseteq SwapIds
           /\ Len(swaps) \in Nat /\ MaxSwaps \in Nat
           /\ \A s \in Known : swaps[s] \in Swap
<1>1. /\ Len(swaps) \in Nat /\ Known = 1..Len(swaps) /\ Len(swaps) <= MaxSwaps
      /\ MaxSwaps \in Nat
    BY LenProperties, ConstantsAssumption DEF TypeOK, Known
<1>2. \A s \in Known : swaps[s] \in Swap
    BY <1>1, ElementOfSeq DEF TypeOK
<1> QED
    BY <1>1, <1>2 DEF SwapIds

\* Changing one swap.
LEMMA SwapChanged ==
    ASSUME TypeOK, NEW s \in Known, NEW w \in Swap, swaps' = [swaps EXCEPT ![s] = w]
    PROVE  /\ swaps' \in Seq(Swap) /\ Len(swaps') = Len(swaps) /\ Known' = Known
           /\ swaps'[s] = w /\ \A r \in Known \ {s} : swaps'[r] = swaps[r]
<1>1. s \in 1..Len(swaps) /\ swaps \in Seq(Swap) /\ Known = 1..Len(swaps)
    BY KnownIds DEF TypeOK
<1>2. /\ swaps' \in Seq(Swap) /\ Len(swaps') = Len(swaps)
      /\ \A r \in 1..Len(swaps) : swaps'[r] = IF r = s THEN w ELSE swaps[r]
    BY <1>1, ExceptSeq
<1>3. Known' = 1..Len(swaps')
    BY <1>2, LenProperties DEF Known
<1> QED
    BY <1>1, <1>2, <1>3

LEMMA PayFacts ==
    ASSUME TypeOK, NEW ps \in Seq(Payment), Pay(ps)
    PROVE  /\ pending' \in Seq(Payment) /\ payTimer' \in BOOLEAN
           /\ Queued' = Queued \union Elems(ps)
<1>1. pending \in Seq(Payment) /\ pending' = pending \o ps
    BY DEF TypeOK, Pay
<1>2. pending' \in Seq(Payment) /\ Elems(pending') = Elems(pending) \union Elems(ps)
    BY <1>1, ElemsConcat
<1>3. Queued = Elems(pending) /\ Queued' = Elems(pending')
    BY DEF Queued, Elems
<1>4. payTimer' \in BOOLEAN
    BY DEF Pay
<1> QED
    BY <1>2, <1>3, <1>4

LEMMA RaceFacts ==
    ASSUME TypeOK, NEW s \in SwapIds, NEW races, Race(s, races)
    PROVE  /\ raced' \subseteq SwapIds /\ raced' \in {raced, raced \union {s}}
           /\ s \in raced' \/ (raced' = raced /\ races = {})
BY DEF TypeOK, Race

LEMMA OwedType ==
    ASSUME TypeOK, NEW s \in SwapIds, NEW u \in Users, NEW v \in Users, NEW k \in Nat
    PROVE  Owed(s, u, v, k) \in Payment
BY DEF Owed, Payment, TypeOK

\* A user's refund is a refund.
LEMMA OwedRefund ==
    ASSUME NEW s, NEW u, NEW k
    PROVE  /\ Owed(s, u, u, k).swap = s /\ IsRefund(Owed(s, u, u, k))
           /\ Owed(s, u, u, k).from = u
BY DEF Owed, IsRefund

LEMMA RefundsFacts ==
    ASSUME TypeOK, NEW s \in Known
    PROVE  /\ Refunds(s) \in Seq(Payment)
           /\ \A p \in Elems(Refunds(s)) : p.swap = s /\ IsRefund(p) /\ Counted(s, p.from)
<1>0. s \in SwapIds /\ swaps[s] \in Swap /\ Amount \in Nat
    BY KnownIds, ConstantsAssumption
<1> DEFINE o == swaps[s].offeredBy
           b == swaps[s].acceptedBy
           q == IF swaps[s].received0 THEN <<Owed(s, o, o, Amount)>> ELSE <<>>
           r == IF swaps[s].received1 /\ b # NoOne
                THEN <<Owed(s, b, b, Amount)>> ELSE <<>>
<1>1. /\ q \in Seq(Payment)
      /\ \A p \in Elems(q) : p.swap = s /\ IsRefund(p) /\ p.from = o /\ swaps[s].received0
  <2>1. Owed(s, o, o, Amount) \in Payment
      BY <1>0, OwedType DEF Swap
  <2>2. /\ <<Owed(s, o, o, Amount)>> \in Seq(Payment)
        /\ Elems(<<Owed(s, o, o, Amount)>>) = {Owed(s, o, o, Amount)}
      BY <2>1, ElemsOne
  <2>3. /\ Owed(s, o, o, Amount).swap = s /\ IsRefund(Owed(s, o, o, Amount))
        /\ Owed(s, o, o, Amount).from = o
      BY OwedRefund
  <2> HIDE DEF o
  <2> QED
      BY <2>2, <2>3, ElemsNone
<1>2. /\ r \in Seq(Payment)
      /\ \A p \in Elems(r) : p.swap = s /\ IsRefund(p) /\ p.from = b /\ swaps[s].received1
  <2>1. CASE swaps[s].received1 /\ b # NoOne
    <3>1. Owed(s, b, b, Amount) \in Payment
        BY <1>0, <2>1, OwedType DEF Swap
    <3>2. /\ <<Owed(s, b, b, Amount)>> \in Seq(Payment)
          /\ Elems(<<Owed(s, b, b, Amount)>>) = {Owed(s, b, b, Amount)}
        BY <3>1, ElemsOne
    <3>3. /\ Owed(s, b, b, Amount).swap = s /\ IsRefund(Owed(s, b, b, Amount))
          /\ Owed(s, b, b, Amount).from = b
        BY OwedRefund
    <3>4. r = <<Owed(s, b, b, Amount)>>
        BY <2>1
    <3> HIDE DEF b, r
    <3> QED
        BY <2>1, <3>2, <3>3, <3>4
  <2>2. CASE ~(swaps[s].received1 /\ b # NoOne)
    <3>1. r = <<>>
        BY <2>2
    <3> QED
        BY <3>1 DEF Elems
  <2> QED
      BY <2>1, <2>2
<1>3. Refunds(s) = q \o r
    BY DEF Refunds
<1> HIDE DEF q, r
<1>4. /\ q \o r \in Seq(Payment) /\ Elems(q \o r) = Elems(q) \union Elems(r)
    BY <1>1, <1>2, ElemsConcat
<1>5. /\ \A p \in Elems(q) : Counted(s, p.from)
      /\ \A p \in Elems(r) : Counted(s, p.from)
    BY <1>1, <1>2 DEF Counted
<1> QED
    BY <1>1, <1>2, <1>3, <1>4, <1>5

-----------------------------------------------------------------------------
(* Keeping the invariant *)

\* Swap s goes on: its offerer stays and its deposits stay received.
SwapKept(s) ==
    /\ s \in Known'
    /\ swaps'[s].offeredBy = swaps[s].offeredBy
    /\ swaps[s].received0 => swaps'[s].received0
    /\ swaps[s].received1 => swaps'[s].received1

\* What is enough for a step to keep the invariant.
LEMMA KeepInv ==
    ASSUME SwapInv, TypeOK', \A s \in Known : SwapKept(s), paid \subseteq paid',
           \A c \in checks' : c.swap \in Known',
           \A p \in Payments' : p \in Payments \/ (p.swap \in Known' /\ PaymentOK(p)'),
           \A j \in paying' : j.answer = "ok" => j \in paying \/ j.payment \in paid',
           \A s \in Known' : swaps'[s].received1 => swaps'[s].acceptedBy \in Users,
           \A s \in Known' :
              /\ swaps'[s].out0 => (s \in Known /\ swaps[s].out0) \/ PaidFrom(s)'
              /\ swaps'[s].out1 => (s \in Known /\ swaps[s].out1) \/ PaidTo(s)'
    PROVE  SwapInv'
<1>1. ASSUME NEW p \in Payments' PROVE p.swap \in Known' /\ PaymentOK(p)'
  <2>1. CASE p \in Payments
    <3>1. p.swap \in Known /\ PaymentOK(p)
        BY <2>1 DEF SwapInv, KnownOK
    <3> QED
        BY <3>1 DEF SwapKept, PaymentOK
  <2> QED
      BY <1>1, <2>1
<1>2. ASSUME NEW j \in paying', j.answer = "ok" PROVE j.payment \in paid'
    BY <1>2 DEF SwapInv, RecordedOK
<1>3. ASSUME NEW s \in Known
      PROVE  (PaidFrom(s) => PaidFrom(s)') /\ (PaidTo(s) => PaidTo(s)')
  <2>1. swaps'[s].offeredBy = swaps[s].offeredBy
      BY <1>3 DEF SwapKept
  <2> QED
      BY <2>1 DEF PaidFrom, PaidTo
<1>4. ASSUME NEW s \in Known'
      PROVE  (swaps'[s].out0 => PaidFrom(s)') /\ (swaps'[s].out1 => PaidTo(s)')
  <2>1. ASSUME swaps'[s].out0 PROVE PaidFrom(s)'
    <3>1. (s \in Known /\ swaps[s].out0) \/ PaidFrom(s)'
        BY <1>4, <2>1
    <3>2. ASSUME s \in Known, swaps[s].out0 PROVE PaidFrom(s)'
      <4>1. PaidFrom(s)
          BY <3>2 DEF SwapInv, RecordedOK
      <4> QED
          BY <1>3, <3>2, <4>1
    <3> QED
        BY <3>1, <3>2
  <2>2. ASSUME swaps'[s].out1 PROVE PaidTo(s)'
    <3>1. (s \in Known /\ swaps[s].out1) \/ PaidTo(s)'
        BY <1>4, <2>2
    <3>2. ASSUME s \in Known, swaps[s].out1 PROVE PaidTo(s)'
      <4>1. PaidTo(s)
          BY <3>2 DEF SwapInv, RecordedOK
      <4> QED
          BY <1>3, <3>2, <4>1
    <3> QED
        BY <3>1, <3>2
  <2> QED
      BY <2>1, <2>2
<1>5. KnownOK'
    BY <1>1 DEF KnownOK
<1>6. RecordedOK'
    BY <1>2, <1>4 DEF RecordedOK
<1> QED
    BY <1>1, <1>5, <1>6 DEF SwapInv

\* The same for a step that leaves the swaps alone.
LEMMA KeepSwaps ==
    ASSUME SwapInv, TypeOK', swaps' = swaps, paid \subseteq paid',
           \A c \in checks' : c.swap \in Known,
           \A p \in Payments' : p \in Payments \/ (p.swap \in Known /\ IsRefund(p)),
           \A j \in paying' : j.answer = "ok" => j \in paying \/ j.payment \in paid'
    PROVE  SwapInv'
<1>1. Known' = Known /\ \A s \in Known : SwapKept(s)
    BY DEF Known, SwapKept
<1>2. \A s \in Known' : swaps'[s].received1 => swaps'[s].acceptedBy \in Users
    BY <1>1 DEF SwapInv, KnownOK
<1>3. \A p \in Payments' : p \in Payments \/ (p.swap \in Known' /\ PaymentOK(p)')
    BY <1>1 DEF PaymentOK, IsRefund
<1> QED
    BY <1>1, <1>2, <1>3, KeepInv

\* Payments and coroutines that do not change.
LEMMA SamePayments ==
    ASSUME pending' = pending, paying' = paying, paid' = paid
    PROVE  Payments' = Payments /\ Queued' = Queued /\ Due' = Due
BY DEF Payments, Due, Queued

\* Refunds that are pushed to the queue.
LEMMA PushRefunds ==
    ASSUME TypeOK, NEW ps \in Seq(Payment), Pay(ps), paying' = paying, paid' = paid,
           NEW s, s \in Known, \A p \in Elems(ps) : p.swap = s /\ IsRefund(p)
    PROVE  \A p \in Payments' : p \in Payments \/ (p.swap \in Known /\ IsRefund(p))
<1>1. Queued' = Queued \union Elems(ps)
    BY PayFacts
<1> QED
    BY <1>1 DEF Payments, Due

-----------------------------------------------------------------------------
(* The steps *)

LEMMA CreateKeeps ==
    ASSUME SwapInv, NEW o \in Users, NEW a \in Users \union {NoOne},
           NEW l \in Lifetimes, NEW n \in BOOLEAN, CreateSwap(o, a, l, n)
    PROVE  SwapInv'
<1> DEFINE w == [offeredBy |-> o, restrictedTo |-> a,
                 expiresAt |-> now + l, notify |-> n,
                 cancelled |-> FALSE, acceptedBy |-> NoOne,
                 received0 |-> FALSE, received1 |-> FALSE,
                 out0 |-> FALSE, out1 |-> FALSE]
<1>0. TypeOK /\ swaps \in Seq(Swap) /\ swaps' = Append(swaps, w) /\ Len(swaps) < MaxSwaps
    BY DEF SwapInv, TypeOK, CreateSwap
<1>1. w \in Swap
  <2>1. now + l \in Nat
      BY <1>0, ConstantsAssumption DEF TypeOK
  <2> QED
      BY <2>1 DEF Swap
<1>2. /\ ~w.received0 /\ ~w.received1 /\ ~w.out0 /\ ~w.out1
    OBVIOUS
<1> HIDE DEF w
<1>3. /\ Known = 1..Len(swaps) /\ Len(swaps) \in Nat /\ MaxSwaps \in Nat
    BY <1>0, KnownIds
<1>4. /\ swaps' \in Seq(Swap) /\ Len(swaps') = Len(swaps) + 1
      /\ DOMAIN swaps' = 1..(Len(swaps) + 1)
      /\ swaps'[Len(swaps) + 1] = w
      /\ \A i \in 1..Len(swaps) : swaps'[i] = swaps[i]
    BY <1>0, <1>1
<1>5. Len(swaps') <= MaxSwaps /\ Len(swaps') \in SwapIds
    BY <1>0, <1>3, <1>4 DEF SwapIds
<1>6. /\ Known' = 1..(Len(swaps) + 1) /\ Known \subseteq Known'
      /\ \A s \in Known' : s \in Known \/ s = Len(swaps) + 1
    BY <1>3, <1>4 DEF Known
<1>7. TypeOK'
    BY <1>0, <1>4, <1>5 DEF CreateSwap, TypeOK
<1>8. \A s \in Known : SwapKept(s) /\ swaps'[s] = swaps[s]
    BY <1>3, <1>4, <1>6 DEF SwapKept
<1>9. /\ Payments' = Payments /\ paid' = paid /\ paying' = paying /\ checks' = checks
    BY SamePayments DEF CreateSwap
<1>10. \A s \in Known' : swaps'[s] = w \/ (s \in Known /\ swaps'[s] = swaps[s])
    BY <1>4, <1>6, <1>8
<1>11. \A s \in Known' : swaps'[s].received1 => swaps'[s].acceptedBy \in Users
    BY <1>2, <1>10 DEF SwapInv, KnownOK
<1>12. \A s \in Known' :
          /\ swaps'[s].out0 => (s \in Known /\ swaps[s].out0) \/ PaidFrom(s)'
          /\ swaps'[s].out1 => (s \in Known /\ swaps[s].out1) \/ PaidTo(s)'
    BY <1>2, <1>10
<1>13. \A c \in checks' : c.swap \in Known'
    BY <1>6, <1>9 DEF SwapInv, KnownOK
<1> QED
    BY <1>7, <1>8, <1>9, <1>11, <1>12, <1>13, KeepInv

LEMMA CancelKeeps ==
    ASSUME SwapInv, NEW s \in Known, CancelSwap(s)
    PROVE  SwapInv'
<1>0. TypeOK /\ swaps[s] \in Swap
    BY KnownIds DEF SwapInv
<1> DEFINE w == [swaps[s] EXCEPT !.cancelled = TRUE]
<1>1. /\ w \in Swap /\ w.offeredBy = swaps[s].offeredBy
      /\ w.received0 = swaps[s].received0 /\ w.received1 = swaps[s].received1
      /\ w.acceptedBy = swaps[s].acceptedBy
      /\ w.out0 = swaps[s].out0 /\ w.out1 = swaps[s].out1
    BY <1>0 DEF Swap
<1>2. swaps' = [swaps EXCEPT ![s] = w]
    BY DEF CancelSwap
<1> HIDE DEF w
<1>3. /\ swaps' \in Seq(Swap) /\ Len(swaps') = Len(swaps) /\ Known' = Known
      /\ swaps'[s] = w /\ \A r \in Known \ {s} : swaps'[r] = swaps[r]
    BY <1>0, <1>1, <1>2, SwapChanged
<1>4. /\ Refunds(s) \in Seq(Payment) /\ Pay(Refunds(s))
      /\ \A p \in Elems(Refunds(s)) : p.swap = s /\ IsRefund(p)
    BY <1>0, RefundsFacts DEF CancelSwap
<1>5. pending' \in Seq(Payment) /\ payTimer' \in BOOLEAN
    BY <1>0, <1>4, PayFacts
<1>. raced' \subseteq SwapIds
    BY <1>0, KnownIds, RaceFacts DEF CancelSwap
<1>6. TypeOK'
    BY <1>0, <1>3, <1>5 DEF CancelSwap, TypeOK
<1>7. \A p \in Payments' : p \in Payments \/ (p.swap \in Known /\ IsRefund(p))
    BY <1>0, <1>4, PushRefunds DEF CancelSwap
<1>8. \A p \in Payments' : p \in Payments \/ (p.swap \in Known' /\ PaymentOK(p)')
    BY <1>3, <1>7 DEF PaymentOK, IsRefund
<1>9. \A r \in Known : SwapKept(r)
    BY <1>1, <1>3 DEF SwapKept
<1>10. /\ paid' = paid /\ paying' = paying /\ checks' = checks
    BY DEF CancelSwap
<1>11. \A r \in Known' : swaps'[r].received1 => swaps'[r].acceptedBy \in Users
    BY <1>1, <1>3 DEF SwapInv, KnownOK
<1>12. \A r \in Known' :
          /\ swaps'[r].out0 => (r \in Known /\ swaps[r].out0) \/ PaidFrom(r)'
          /\ swaps'[r].out1 => (r \in Known /\ swaps[r].out1) \/ PaidTo(r)'
    BY <1>1, <1>3
<1>13. \A c \in checks' : c.swap \in Known'
    BY <1>3, <1>10 DEF SwapInv, KnownOK
<1> QED
    BY <1>6, <1>8, <1>9, <1>10, <1>11, <1>12, <1>13, KeepInv

LEMMA ExpireKeeps ==
    ASSUME SwapInv, NEW s \in Known, ExpireSwap(s)
    PROVE  SwapInv'
<1>0. TypeOK /\ swaps' = swaps /\ UNCHANGED <<checks, paying, paid>>
    BY DEF SwapInv, ExpireSwap
<1>1. \A c \in checks' : c.swap \in Known
    BY <1>0 DEF SwapInv, KnownOK
<1>. raced' \subseteq SwapIds
    BY <1>0, KnownIds, RaceFacts DEF ExpireSwap
<1>2. CASE Status(s) = "Expired"
  <2>1. /\ Refunds(s) \in Seq(Payment) /\ Pay(Refunds(s))
        /\ \A p \in Elems(Refunds(s)) : p.swap = s /\ IsRefund(p)
      BY <1>0, <1>2, RefundsFacts DEF ExpireSwap
  <2>2. pending' \in Seq(Payment) /\ payTimer' \in BOOLEAN
      BY <1>0, <2>1, PayFacts
  <2>3. TypeOK'
      BY <1>0, <2>2 DEF ExpireSwap, TypeOK
  <2>4. \A p \in Payments' : p \in Payments \/ (p.swap \in Known /\ IsRefund(p))
      BY <1>0, <2>1, PushRefunds
  <2> QED
      BY <1>0, <1>1, <2>3, <2>4, KeepSwaps
<1>3. CASE Status(s) # "Expired"
  <2>1. UNCHANGED <<pending, payTimer>>
      BY <1>3 DEF ExpireSwap
  <2>2. TypeOK'
      BY <1>0, <2>1 DEF ExpireSwap, TypeOK
  <2> QED
      BY <1>0, <1>1, <2>1, <2>2, SamePayments, KeepSwaps
<1> QED
    BY <1>2, <1>3

LEMMA NotifyKeeps ==
    ASSUME SwapInv, NEW s \in Known, NEW u \in Users, NotifyDeposit(s, u)
    PROVE  SwapInv'
<1> DEFINE c == [id |-> calls, swap |-> s, user |-> u,
                 purpose |-> IF Acceptable(s, u) THEN "swap" ELSE "refund",
                 read |-> FALSE, balance |-> 0]
<1>0. TypeOK /\ s \in SwapIds /\ UNCHANGED <<swaps, pending, paying, paid>>
    BY KnownIds DEF SwapInv, NotifyDeposit
<1>1. checks' = checks \union {c}
    BY DEF NotifyDeposit
<1>2. c \in Check /\ c.swap = s
    BY <1>0 DEF Check, TypeOK
<1>. raced' \subseteq SwapIds
    BY <1>0, RaceFacts DEF NotifyDeposit
<1> HIDE DEF c
<1>3. TypeOK'
    BY <1>0, <1>1, <1>2 DEF NotifyDeposit, TypeOK
<1>4. \A d \in checks' : d.swap \in Known
    BY <1>1, <1>2 DEF SwapInv, KnownOK
<1> QED
    BY <1>0, <1>3, <1>4, SamePayments, KeepSwaps

LEMMA DepositKeeps ==
    ASSUME SwapInv, NEW s \in Known, NEW u \in Users, NEW k \in DepositSizes,
           Deposit(s, u, k)
    PROVE  SwapInv'
<1>0. TypeOK /\ s \in SwapIds /\ UNCHANGED <<swaps, checks, pending, paying, paid>>
    BY KnownIds DEF SwapInv, Deposit
<1>1. held[s][u] + k \in Nat
    BY <1>0, ConstantsAssumption DEF TypeOK
<1>2. held' \in [SwapIds -> [Users -> Nat]]
    BY <1>0, <1>1 DEF Deposit, TypeOK
<1>3. TypeOK'
    BY <1>0, <1>2 DEF Deposit, TypeOK
<1>4. \A c \in checks' : c.swap \in Known
    BY <1>0 DEF SwapInv, KnownOK
<1> QED
    BY <1>0, <1>3, <1>4, SamePayments, KeepSwaps

LEMMA ReadKeeps ==
    ASSUME SwapInv, NEW c \in checks, ReadBalance(c)
    PROVE  SwapInv'
<1> DEFINE d == [c EXCEPT !.read = TRUE, !.balance = held[c.swap][c.user]]
<1>0. TypeOK /\ c \in Check /\ UNCHANGED <<swaps, pending, paying, paid>>
    BY DEF SwapInv, TypeOK, ReadBalance
<1>1. d \in Check /\ d.swap = c.swap
  <2>1. held[c.swap][c.user] \in Nat
      BY <1>0 DEF Check, TypeOK
  <2> QED
      BY <1>0, <2>1 DEF Check
<1>2. checks' = (checks \ {c}) \union {d}
    BY DEF ReadBalance
<1> HIDE DEF d
<1>3. TypeOK'
    BY <1>0, <1>1, <1>2 DEF ReadBalance, TypeOK
<1>4. \A e \in checks' : e.swap \in Known
    BY <1>1, <1>2 DEF SwapInv, KnownOK
<1> QED
    BY <1>0, <1>3, <1>4, SamePayments, KeepSwaps

LEMMA ReturnKeeps ==
    ASSUME SwapInv, NEW c \in checks, ReturnDeposit(c)
    PROVE  SwapInv'
<1> DEFINE p == Owed(c.swap, c.user, c.user, c.balance - Fee)
           ps == IF c.balance > Fee THEN <<p>> ELSE <<>>
<1>0. /\ TypeOK /\ c \in Check /\ c.swap \in Known /\ UNCHANGED <<swaps, paying, paid>>
      /\ checks' \subseteq checks
    BY DEF SwapInv, KnownOK, TypeOK, ReturnDeposit
<1>1. Pay(ps)
    BY DEF ReturnDeposit, RefundBalance
<1>2. ps \in Seq(Payment) /\ \A q \in Elems(ps) : q.swap = c.swap /\ IsRefund(q)
  <2>1. CASE c.balance > Fee
    <3>1. c.balance - Fee \in Nat
        BY <1>0, <2>1, ConstantsAssumption DEF Check
    <3>2. p \in Payment
        BY <1>0, <3>1, OwedType DEF Check
    <3>3. p.swap = c.swap /\ IsRefund(p)
        BY OwedRefund
    <3>4. ps = <<p>>
        BY <2>1
    <3> HIDE DEF p, ps
    <3> QED
        BY <3>2, <3>3, <3>4, ElemsOne
  <2>2. CASE ~(c.balance > Fee)
    <3>1. ps = <<>>
        BY <2>2
    <3> HIDE DEF ps
    <3> QED
        BY <3>1, ElemsNone
  <2> QED
      BY <2>1, <2>2
<1> HIDE DEF p, ps
<1>3. pending' \in Seq(Payment) /\ payTimer' \in BOOLEAN
    BY <1>0, <1>1, <1>2, PayFacts
<1>4. TypeOK'
    BY <1>0, <1>3 DEF ReturnDeposit, TypeOK
<1>5. \A q \in Payments' : q \in Payments \/ (q.swap \in Known /\ IsRefund(q))
    BY <1>0, <1>1, <1>2, PushRefunds
<1>6. \A e \in checks' : e.swap \in Known
    BY <1>0 DEF SwapInv, KnownOK
<1> QED
    BY <1>0, <1>4, <1>5, <1>6, KeepSwaps

LEMMA CheckFailsKeeps ==
    ASSUME SwapInv, NEW c \in checks, CheckFails(c)
    PROVE  SwapInv'
<1>0. /\ TypeOK /\ UNCHANGED <<swaps, pending, paying, paid>>
      /\ checks' \subseteq checks
    BY DEF SwapInv, CheckFails
<1>1. TypeOK'
    BY <1>0 DEF CheckFails, TypeOK
<1>2. \A e \in checks' : e.swap \in Known
    BY <1>0 DEF SwapInv, KnownOK
<1> QED
    BY <1>0, <1>1, <1>2, SamePayments, KeepSwaps

\* The exchange pays each party what the other deposited, of a swap that now
\* has both deposits.
LEMMA TakeKeeps ==
    ASSUME SwapInv, NEW c \in checks, TakeDeposit(c)
    PROVE  SwapInv'
<1> DEFINE s == c.swap
           w == ReceivedBy(swaps[s], c.user)
           p == Owed(s, w.acceptedBy, w.offeredBy, Amount)
           q == Owed(s, w.offeredBy, w.acceptedBy, Amount)
           ps == IF Complete(w) THEN <<p, q>> ELSE <<>>
<1>0. /\ TypeOK /\ c \in Check /\ s \in Known /\ s \in SwapIds /\ swaps[s] \in Swap
      /\ swaps' = [swaps EXCEPT ![s] = w] /\ UNCHANGED <<paying, paid>>
      /\ checks' \subseteq checks /\ Pay(ps)
    BY KnownIds DEF SwapInv, KnownOK, TypeOK, TakeDeposit
<1>1. /\ w \in Swap /\ w.offeredBy = swaps[s].offeredBy
      /\ swaps[s].received0 => w.received0
      /\ swaps[s].received1 => w.received1
      /\ w.out0 = swaps[s].out0 /\ w.out1 = swaps[s].out1
      /\ w.received1 => w.acceptedBy \in Users
  <2>1. swaps[s].received1 => swaps[s].acceptedBy \in Users
      BY <1>0 DEF SwapInv, KnownOK
  <2>2. CASE c.user = swaps[s].offeredBy
    <3>1. w = [swaps[s] EXCEPT !.received0 = TRUE]
        BY <2>2 DEF ReceivedBy
    <3> HIDE DEF w
    <3> QED
        BY <1>0, <2>1, <3>1 DEF Swap
  <2>3. CASE c.user # swaps[s].offeredBy
    <3>1. w = [swaps[s] EXCEPT !.received1 = TRUE, !.acceptedBy = c.user]
        BY <2>3 DEF ReceivedBy
    <3>2. c.user \in Users
        BY <1>0 DEF Check
    <3> HIDE DEF w
    <3> QED
        BY <1>0, <3>1, <3>2 DEF Swap
  <2> QED
      BY <2>2, <2>3
<1> HIDE DEF w
<1>2. /\ swaps' \in Seq(Swap) /\ Len(swaps') = Len(swaps) /\ Known' = Known
      /\ swaps'[s] = w /\ \A r \in Known \ {s} : swaps'[r] = swaps[r]
    BY <1>0, <1>1, SwapChanged
<1>3. ps \in Seq(Payment) /\ \A x \in Elems(ps) : x.swap = s /\ PaymentOK(x)'
  <2>1. CASE Complete(w)
    <3>1. /\ w.received0 /\ w.received1
          /\ w.acceptedBy \in Users /\ w.offeredBy \in Users /\ Amount \in Nat
        BY <1>1, <2>1, ConstantsAssumption DEF Complete, Swap
    <3>2. p \in Payment /\ q \in Payment
        BY <1>0, <3>1, OwedType
    <3>3. /\ p.swap = s /\ p.to = w.offeredBy /\ p.amount = Amount
          /\ q.swap = s /\ q.from = w.offeredBy /\ q.amount = Amount
        BY DEF Owed
    <3>4. PICK x \in Payment, y \in Payment : x = p /\ y = q
        BY <3>2
    <3>5. ps = <<x, y>>
        BY <2>1, <3>4
    <3> HIDE DEF p, q, ps
    <3>6. PaymentOK(x)' /\ PaymentOK(y)'
        BY <1>2, <3>1, <3>3, <3>4 DEF PaymentOK
    <3>7. x.swap = s /\ y.swap = s
        BY <3>3, <3>4
    <3> QED
        BY <3>5, <3>6, <3>7, ElemsTwo
  <2>2. CASE ~Complete(w)
    <3>1. ps = <<>>
        BY <2>2
    <3> HIDE DEF ps
    <3> QED
        BY <3>1, ElemsNone
  <2> QED
      BY <2>1, <2>2
<1> HIDE DEF p, q, ps
<1>4. /\ pending' \in Seq(Payment) /\ payTimer' \in BOOLEAN
      /\ Queued' = Queued \union Elems(ps)
    BY <1>0, <1>3, PayFacts
<1>5. TypeOK'
    BY <1>0, <1>2, <1>4 DEF TakeDeposit, TypeOK
<1>6. \A x \in Payments' : x \in Payments \/ (x.swap \in Known' /\ PaymentOK(x)')
    BY <1>0, <1>2, <1>3, <1>4 DEF Payments, Due
<1>7. \A r \in Known : SwapKept(r)
    BY <1>1, <1>2 DEF SwapKept
<1>8. \A r \in Known' : swaps'[r].received1 => swaps'[r].acceptedBy \in Users
    BY <1>1, <1>2 DEF SwapInv, KnownOK
<1>9. \A r \in Known' :
          /\ swaps'[r].out0 => (r \in Known /\ swaps[r].out0) \/ PaidFrom(r)'
          /\ swaps'[r].out1 => (r \in Known /\ swaps[r].out1) \/ PaidTo(r)'
    BY <1>0, <1>1, <1>2
<1>10. \A e \in checks' : e.swap \in Known'
    BY <1>0, <1>2 DEF SwapInv, KnownOK
<1> QED
    BY <1>0, <1>5, <1>6, <1>7, <1>8, <1>9, <1>10, KeepInv

LEMMA MakePaymentKeeps ==
    ASSUME SwapInv, MakePayment
    PROVE  SwapInv'
<1> DEFINE j == [payment |-> Head(pending), answer |-> "none"]
<1>0. /\ TypeOK /\ pending \in Seq(Payment) /\ pending # <<>> /\ pending' = Tail(pending)
      /\ paying' = paying \union {j} /\ UNCHANGED <<swaps, checks, paid>>
    BY DEF SwapInv, TypeOK, MakePayment
<1>1. /\ Head(pending) \in Payment /\ Tail(pending) \in Seq(Payment)
      /\ Elems(pending) = {Head(pending)} \union Elems(Tail(pending))
    BY <1>0, ElemsHeadTail
<1>2. j \in Paying /\ j.payment = Head(pending) /\ j.answer = "none"
    BY <1>1 DEF Paying
<1> HIDE DEF j
<1>3. TypeOK'
    BY <1>0, <1>1, <1>2 DEF MakePayment, TypeOK
<1>4. Queued = Elems(pending) /\ Queued' = Elems(Tail(pending))
    BY <1>0 DEF Queued, Elems
<1>5. \A p \in Payments' : p \in Payments
    BY <1>0, <1>1, <1>2, <1>4 DEF Payments, Due
<1>6. \A i \in paying' : i.answer = "ok" => i \in paying
    BY <1>0, <1>2
<1>7. \A c \in checks' : c.swap \in Known
    BY <1>0 DEF SwapInv, KnownOK
<1> QED
    BY <1>0, <1>3, <1>5, <1>6, <1>7, KeepSwaps

LEMMA TransferKeeps ==
    ASSUME SwapInv, NEW j \in paying, LedgerTransfers(j)
    PROVE  SwapInv'
<1> DEFINE p == j.payment
           i == [j EXCEPT !.answer = "ok"]
<1>0. /\ TypeOK /\ j \in Paying /\ UNCHANGED <<swaps, checks, pending>>
      /\ paid' = paid \union {p} /\ paying' = (paying \ {j}) \union {i}
    BY DEF SwapInv, TypeOK, LedgerTransfers
<1>1. p \in Payment /\ i \in Paying /\ i.payment = p
    BY <1>0 DEF Paying
<1>2. held' \in [SwapIds -> [Users -> Nat]]
  <2>1. held[p.swap][p.from] - (p.amount + Fee) \in Nat
    <3>1. held[p.swap][p.from] >= p.amount + Fee
        BY DEF LedgerTransfers, CanTransfer
    <3>2. p.swap \in SwapIds /\ p.from \in Users /\ p.amount \in Nat
        BY <1>1 DEF Payment
    <3>3. held[p.swap][p.from] \in Nat
        BY <1>0, <3>2 DEF TypeOK
    <3> QED
        BY <3>1, <3>2, <3>3, ConstantsAssumption
  <2> QED
      BY <1>0, <1>1, <2>1 DEF LedgerTransfers, TypeOK, Payment
<1> HIDE DEF i
<1>3. TypeOK'
    BY <1>0, <1>1, <1>2 DEF LedgerTransfers, TypeOK
<1>4. \A x \in Payments' : x \in Payments
    BY <1>0, <1>1 DEF Payments, Due, Queued
<1>5. \A k \in paying' : k.answer = "ok" => k \in paying \/ k.payment \in paid'
    BY <1>0, <1>1
<1>6. \A c \in checks' : c.swap \in Known
    BY <1>0 DEF SwapInv, KnownOK
<1> QED
    BY <1>0, <1>3, <1>4, <1>5, <1>6, KeepSwaps

LEMMA RefuseKeeps ==
    ASSUME SwapInv, NEW j \in paying, LedgerRefuses(j) \/ PaymentRefused(j)
    PROVE  SwapInv'
<1> DEFINE i == [j EXCEPT !.answer = "refused"]
<1>0. /\ TypeOK /\ j \in Paying /\ UNCHANGED <<swaps, checks, pending, paid>>
      /\ paying' \subseteq paying \union {i}
    BY DEF SwapInv, TypeOK, LedgerRefuses, PaymentRefused
<1>1. i \in Paying /\ i.payment = j.payment /\ i.answer # "ok"
    BY <1>0 DEF Paying
<1> HIDE DEF i
<1>2. TypeOK'
    BY <1>0, <1>1 DEF LedgerRefuses, PaymentRefused, TypeOK
<1>3. \A x \in Payments' : x \in Payments
    BY <1>0, <1>1 DEF Payments, Due, Queued
<1>4. \A k \in paying' : k.answer = "ok" => k \in paying
    BY <1>0, <1>1
<1>5. \A c \in checks' : c.swap \in Known
    BY <1>0 DEF SwapInv, KnownOK
<1> QED
    BY <1>0, <1>2, <1>3, <1>4, <1>5, KeepSwaps

LEMMA FailKeeps ==
    ASSUME SwapInv, NEW j \in paying, PaymentFails(j)
    PROVE  SwapInv'
<1>0. /\ TypeOK /\ j.payment \in Payment /\ UNCHANGED <<swaps, checks, paid>>
      /\ paying' \subseteq paying /\ Pay(<<j.payment>>)
    BY DEF SwapInv, TypeOK, Paying, PaymentFails
<1>1. /\ <<j.payment>> \in Seq(Payment) /\ Elems(<<j.payment>>) = {j.payment}
    BY <1>0, ElemsOne
<1>2. /\ pending' \in Seq(Payment) /\ payTimer' \in BOOLEAN
      /\ Queued' = Queued \union {j.payment}
    BY <1>0, <1>1, PayFacts
<1>3. TypeOK'
    BY <1>0, <1>2 DEF PaymentFails, TypeOK
<1>4. \A x \in Payments' : x \in Payments
    BY <1>0, <1>2 DEF Payments, Due
<1>5. \A c \in checks' : c.swap \in Known
    BY <1>0 DEF SwapInv, KnownOK
<1> QED
    BY <1>0, <1>3, <1>4, <1>5, KeepSwaps

LEMMA QueueNotificationType ==
    ASSUME TypeOK, NEW s \in SwapIds, QueueNotification(s)
    PROVE  notifyQueue' \in Seq(SwapIds) /\ notifyTimer' \in BOOLEAN
BY DEF QueueNotification, TypeOK

\* A transfer is recorded for the side whose deposit left the escrow.
LEMMA MadeKeeps ==
    ASSUME SwapInv, NEW j \in paying, PaymentMade(j)
    PROVE  SwapInv'
<1> DEFINE p == j.payment
           s == p.swap
           out == IF p.from = swaps[s].offeredBy THEN [swaps[s] EXCEPT !.out0 = TRUE]
                                                 ELSE [swaps[s] EXCEPT !.out1 = TRUE]
<1>0. /\ TypeOK /\ p \in paid /\ p \in Payments /\ s \in Known /\ s \in SwapIds
      /\ swaps[s] \in Swap /\ UNCHANGED <<checks, pending, paid>>
      /\ paying' \subseteq paying
    BY KnownIds DEF SwapInv, KnownOK, RecordedOK, Payments, PaymentMade
<1>1. notifyQueue' \in Seq(SwapIds) /\ notifyTimer' \in BOOLEAN
  <2>1. QueueNotification(s) \/ UNCHANGED <<notifyQueue, notifyTimer>>
      BY DEF PaymentMade
  <2> QED
      BY <1>0, <2>1, QueueNotificationType DEF TypeOK
<1>2. \A x \in Payments' : x \in Payments
    BY <1>0 DEF Payments, Due, Queued
<1>3. \A c \in checks' : c.swap \in Known
    BY <1>0 DEF SwapInv, KnownOK
<1>4. CASE IsRefund(p)
  <2>1. swaps' = swaps
      BY <1>4 DEF PaymentMade
  <2>2. TypeOK'
      BY <1>0, <1>1, <2>1 DEF PaymentMade, TypeOK
  <2> QED
      BY <1>0, <1>2, <1>3, <2>1, <2>2, KeepSwaps
<1>5. CASE ~IsRefund(p)
  <2>1. swaps' = [swaps EXCEPT ![s] = out]
      BY <1>5 DEF PaymentMade
  <2>2. /\ out \in Swap /\ out.offeredBy = swaps[s].offeredBy
        /\ out.received0 = swaps[s].received0 /\ out.received1 = swaps[s].received1
        /\ out.acceptedBy = swaps[s].acceptedBy
        /\ out.out0 => swaps[s].out0 \/ p.from = swaps[s].offeredBy
        /\ out.out1 => swaps[s].out1 \/ p.from # swaps[s].offeredBy
    <3>1. CASE p.from = swaps[s].offeredBy
      <4>1. out = [swaps[s] EXCEPT !.out0 = TRUE]
          BY <3>1
      <4> HIDE DEF out
      <4> QED
          BY <1>0, <3>1, <4>1 DEF Swap
    <3>2. CASE p.from # swaps[s].offeredBy
      <4>1. out = [swaps[s] EXCEPT !.out1 = TRUE]
          BY <3>2
      <4> HIDE DEF out
      <4> QED
          BY <1>0, <3>2, <4>1 DEF Swap
    <3> QED
        BY <3>1, <3>2
  <2> HIDE DEF out
  <2>3. /\ swaps' \in Seq(Swap) /\ Len(swaps') = Len(swaps) /\ Known' = Known
        /\ swaps'[s] = out /\ \A r \in Known \ {s} : swaps'[r] = swaps[r]
      BY <1>0, <2>1, <2>2, SwapChanged
  <2>4. TypeOK'
      BY <1>0, <1>1, <2>3 DEF PaymentMade, TypeOK
  <2>5. swaps[s].offeredBy \in {p.from, p.to} /\ p.amount = Amount
      BY <1>0, <1>5 DEF SwapInv, PaymentOK
  <2>6. (out.out0 => swaps[s].out0 \/ PaidFrom(s)') /\ (out.out1 => swaps[s].out1 \/ PaidTo(s)')
    <3>1. p.from = swaps[s].offeredBy => PaidFrom(s)'
        BY <1>0, <1>5, <2>2, <2>3, <2>5 DEF PaidFrom, IsRefund
    <3>2. p.from # swaps[s].offeredBy => PaidTo(s)'
        BY <1>0, <1>5, <2>2, <2>3, <2>5 DEF PaidTo, IsRefund
    <3> QED
        BY <2>2, <3>1, <3>2
  <2>7. \A r \in Known' :
          /\ swaps'[r].out0 => (r \in Known /\ swaps[r].out0) \/ PaidFrom(r)'
          /\ swaps'[r].out1 => (r \in Known /\ swaps[r].out1) \/ PaidTo(r)'
      BY <2>3, <2>6
  <2>8. \A r \in Known : SwapKept(r)
      BY <2>2, <2>3 DEF SwapKept
  <2>9. \A r \in Known' : swaps'[r].received1 => swaps'[r].acceptedBy \in Users
      BY <2>2, <2>3 DEF SwapInv, KnownOK
  <2> QED
      BY <1>0, <1>2, <1>3, <2>3, <2>4, <2>7, <2>8, <2>9, KeepInv
<1> QED
    BY <1>4, <1>5

\* A set of naturals has a least element.
LEMMA Least ==
    ASSUME NEW T \in SUBSET Nat, T # {}
    PROVE  \E x \in T : \A y \in T : x <= y
<1> DEFINE R == {ss \in Nat \X Nat : ss[1] < ss[2]}
<1>1. IsWellFoundedOn(R, Nat)
    BY NatLessThanWellFounded DEF OpToRel
<1> HIDE DEF R
<1>2. PICK x \in T : \A y \in T : ~(<<y, x>> \in R)
    BY <1>1, WFMin
<1>3. ASSUME NEW y \in T PROVE x <= y
  <2>1. ~(y < x)
      BY <1>2 DEF R
  <2> QED
      BY <2>1
<1> QED
    BY <1>3

LEMMA StatusType == ASSUME NEW s PROVE Status(s) \in SwapStatus
BY DEF Status, SwapStatus

LEMMA SendKeeps ==
    ASSUME SwapInv, SendStatus
    PROVE  SwapInv'
<1> DEFINE wanted == {i \in DOMAIN notifyQueue : swaps[notifyQueue[i]].notify}
           first == CHOOSE i \in wanted : \A k \in wanted : i <= k
           s == notifyQueue[first]
<1>0. /\ TypeOK /\ notifyQueue \in Seq(SwapIds)
      /\ UNCHANGED <<swaps, checks, pending, paying, paid>>
      /\ notifyTimer' \in BOOLEAN
    BY DEF SwapInv, TypeOK, SendStatus
<1>1. /\ notifyQueue' \in Seq(SwapIds)
      /\ sending' \in Seq([swap : SwapIds, status : SwapStatus])
  <2>1. CASE wanted = {}
      BY <1>0, <2>1 DEF SendStatus, TypeOK
  <2>2. CASE wanted # {}
    <3>1. DOMAIN notifyQueue = 1..Len(notifyQueue) /\ Len(notifyQueue) \in Nat
        BY <1>0, LenProperties
    <3>2. wanted \in SUBSET Nat
        BY <3>1
    <3>3. \E i \in wanted : \A k \in wanted : i <= k
        BY <2>2, <3>2, Least
    <3>4. first \in DOMAIN notifyQueue
        BY <3>3
    <3>5. s \in SwapIds
        BY <1>0, <3>1, <3>4, ElementOfSeq
    <3>6. /\ notifyQueue' = SubSeq(notifyQueue, first + 1, Len(notifyQueue))
          /\ sending' = Append(sending, [swap |-> s, status |-> Status(s)])
        BY <2>2 DEF SendStatus
    <3>7. [swap |-> s, status |-> Status(s)] \in [swap : SwapIds, status : SwapStatus]
        BY <3>5, StatusType
    <3> HIDE DEF wanted, first, s
    <3>8. first + 1 \in Int /\ \A i \in first + 1 .. Len(notifyQueue) : notifyQueue[i] \in SwapIds
      <4>1. first \in Nat /\ first >= 1
          BY <3>1, <3>4
      <4>2. \A i \in first + 1 .. Len(notifyQueue) : i \in 1..Len(notifyQueue)
          BY <3>1, <4>1
      <4> QED
          BY <1>0, <4>1, <4>2, ElementOfSeq
    <3>9. notifyQueue' \in Seq(SwapIds)
        BY <3>1, <3>6, <3>8, SubSeqProperties
    <3> QED
        BY <1>0, <3>6, <3>7, <3>9 DEF TypeOK
  <2> QED
      BY <2>1, <2>2
<1> HIDE DEF wanted, first, s
<1>2. TypeOK'
    BY <1>0, <1>1 DEF SendStatus, TypeOK
<1>3. \A c \in checks' : c.swap \in Known
    BY <1>0 DEF SwapInv, KnownOK
<1> QED
    BY <1>0, <1>2, <1>3, SamePayments, KeepSwaps

LEMMA ArriveKeeps ==
    ASSUME SwapInv, StatusArrives \/ \E retry \in BOOLEAN : StatusFails(retry)
    PROVE  SwapInv'
<1> DEFINE m == Head(sending)
<1>0. TypeOK /\ sending # <<>> /\ UNCHANGED <<swaps, checks, pending, paying, paid>>
    BY DEF SwapInv, StatusArrives, StatusFails
<1>1. /\ m \in [swap : SwapIds, status : SwapStatus]
      /\ Tail(sending) \in Seq([swap : SwapIds, status : SwapStatus])
    BY <1>0, HeadTailProperties DEF TypeOK
<1>2. TypeOK'
  <2>1. CASE StatusArrives
      BY <1>0, <1>1, <2>1 DEF StatusArrives, TypeOK
  <2>2. CASE \E retry \in BOOLEAN : StatusFails(retry)
    <3>1. QueueNotification(m.swap) \/ UNCHANGED <<notifyQueue, notifyTimer>>
        BY <2>2 DEF StatusFails
    <3>2. m.swap \in SwapIds
        BY <1>1
    <3>3. notifyQueue' \in Seq(SwapIds) /\ notifyTimer' \in BOOLEAN
        BY <1>0, <3>1, <3>2, QueueNotificationType DEF TypeOK
    <3> QED
        BY <1>0, <1>1, <2>2, <3>3 DEF StatusFails, TypeOK
  <2> QED
      BY <2>1, <2>2
<1>3. \A c \in checks' : c.swap \in Known
    BY <1>0 DEF SwapInv, KnownOK
<1> QED
    BY <1>0, <1>2, <1>3, SamePayments, KeepSwaps

LEMMA RestKeeps ==
    ASSUME SwapInv, Upgrade \/ Tick \/ UNCHANGED vars
    PROVE  SwapInv'
<1>0. TypeOK /\ UNCHANGED <<swaps, checks, pending, paying, paid>>
    BY DEF SwapInv, Upgrade, Tick
<1>1. TypeOK'
  <2>1. CASE Upgrade
      BY <1>0, <2>1 DEF Upgrade, TypeOK
  <2>2. CASE Tick
      BY <1>0, <2>2 DEF Tick, TypeOK
  <2>3. CASE UNCHANGED vars
      BY <1>0, <2>3 DEF TypeOK
  <2> QED
      BY <2>1, <2>2, <2>3
<1>2. \A c \in checks' : c.swap \in Known
    BY <1>0 DEF SwapInv, KnownOK
<1> QED
    BY <1>0, <1>1, <1>2, SamePayments, KeepSwaps

-----------------------------------------------------------------------------
(* The theorems *)

LEMMA InitSwap == ASSUME Init PROVE SwapInv
<1>1. /\ swaps \in Seq(Swap) /\ Len(swaps) <= MaxSwaps /\ Known = {}
      /\ pending \in Seq(Payment) /\ notifyQueue \in Seq(SwapIds)
      /\ sending \in Seq([swap : SwapIds, status : SwapStatus])
    BY ConstantsAssumption DEF Init, Known
<1>2. told \in [SwapIds -> SwapStatus] /\ held \in [SwapIds -> [Users -> Nat]]
    BY DEF Init, SwapStatus
<1>3. TypeOK
    BY <1>1, <1>2 DEF Init, TypeOK
<1>4. Payments = {}
    BY DEF Init, Payments, Due, Queued
<1> QED
    BY <1>1, <1>3, <1>4 DEF Init, SwapInv, KnownOK, RecordedOK

LEMMA NextSwap ==
    ASSUME SwapInv, [Next]_vars
    PROVE  SwapInv'
<1>1. CASE SwapStep
    BY <1>1, CreateKeeps, CancelKeeps, ExpireKeeps DEF SwapStep
<1>2. CASE DepositStep
    BY <1>2, NotifyKeeps, DepositKeeps, ReadKeeps, ReturnKeeps, TakeKeeps, CheckFailsKeeps
    DEF DepositStep
<1>3. CASE PaymentStep
    BY <1>3, MakePaymentKeeps, TransferKeeps, RefuseKeeps, MadeKeeps, FailKeeps
    DEF PaymentStep
<1>4. CASE StatusStep
    BY <1>4, SendKeeps, ArriveKeeps DEF StatusStep
<1>5. CASE Upgrade \/ Tick \/ UNCHANGED vars
    BY <1>5, RestKeeps
<1> QED
    BY <1>1, <1>2, <1>3, <1>4, <1>5 DEF Next

\* The inductive invariant of the escrow: work under way is for swaps that
\* exist, exchanges are of swaps with both deposits, and what is recorded as
\* transferred was transferred.
THEOREM SwapInvariant == Spec => []SwapInv
BY InitSwap, NextSwap, PTL DEF Spec

\* Every variable keeps its type.
THEOREM EscrowTypes == Spec => []TypeOK
<1>1. SwapInv => TypeOK
    BY DEF SwapInv
<1> QED
    BY <1>1, SwapInvariant, PTL

\* A swap reported as Completed was paid both ways, for the agreed amounts.
THEOREM CompletedPaid == Spec => []CompletedWasPaid
<1>1. SwapInv => CompletedWasPaid
  <2> SUFFICES ASSUME SwapInv, NEW s \in Known, Status(s) = "Completed"
               PROVE  PaidFrom(s) /\ PaidTo(s)
      BY DEF CompletedWasPaid, PaidFrom, PaidTo
  <2>1. swaps[s].out0 /\ swaps[s].out1
      BY DEF Status, IsComplete
  <2> QED
      BY <2>1 DEF SwapInv, RecordedOK
<1> QED
    BY <1>1, SwapInvariant, PTL

\* The payment job and the notification job never sleep over their queues.
THEOREM JobsKeepArmed == Spec => []QueuesArmed
<1>1. Init => QueuesArmed
    BY DEF Init, QueuesArmed
<1>2. QueuesArmed /\ [Next]_vars => QueuesArmed'
  <2> SUFFICES ASSUME QueuesArmed, [Next]_vars PROVE QueuesArmed'
      OBVIOUS
  <2>1. CASE SwapStep
      BY <2>1 DEF SwapStep, CreateSwap, CancelSwap, ExpireSwap, Pay, QueuesArmed
  <2>2. CASE DepositStep
      BY <2>2, ZenonT(40) DEF DepositStep, NotifyDeposit, Deposit, ReadBalance, ReturnDeposit,
         RefundBalance, TakeDeposit, CheckFails, Pay, QueuesArmed
  <2>3. CASE PaymentStep
      BY <2>3 DEF PaymentStep, MakePayment, LedgerTransfers, LedgerRefuses,
         PaymentMade, PaymentRefused, PaymentFails, Pay, QueueNotification, QueuesArmed
  <2>4. CASE StatusStep
      BY <2>4 DEF StatusStep, SendStatus, StatusArrives, StatusFails,
         QueueNotification, QueuesArmed
  <2>5. CASE Upgrade \/ Tick \/ UNCHANGED vars
      BY <2>5 DEF Upgrade, Tick, QueuesArmed
  <2> QED
      BY <2>1, <2>2, <2>3, <2>4, <2>5 DEF Next
<1> QED
    BY <1>1, <1>2, PTL DEF Spec

-----------------------------------------------------------------------------
(* Races                                                                   *)
(*                                                                         *)
(* What prepare found still holds when the balance is there, unless a race *)
(* happened to the swap.                                                   *)

SameSwap(s) ==
    /\ swaps'[s].offeredBy = swaps[s].offeredBy
    /\ swaps'[s].restrictedTo = swaps[s].restrictedTo
    /\ swaps'[s].expiresAt = swaps[s].expiresAt
    /\ swaps'[s].cancelled = swaps[s].cancelled
    /\ swaps'[s].acceptedBy = swaps[s].acceptedBy
    /\ swaps'[s].received0 = swaps[s].received0
    /\ swaps'[s].received1 = swaps[s].received1

SameSwaps == Known' = Known /\ \A s \in Known : SameSwap(s)

\* A step that neither starts a check nor takes a deposit, cancels or expires,
\* and promises nothing new
Quiet ==
    /\ SameSwaps /\ UNCHANGED <<expiring, raced>> /\ checks' \subseteq checks
    /\ now' \in {now, now + 1}
    /\ Due' \subseteq Due /\ Payments' \subseteq Payments

HeldKept == \A s \in SwapIds, u \in Users : held[s][u] <= held'[s][u]

\* A deposit of u to s can be taken, but for the time.
Free(s, u) ==
    /\ ~swaps[s].cancelled
    /\ IF u = swaps[s].offeredBy THEN ~swaps[s].received0 ELSE swaps[s].acceptedBy = NoOne

\* Swap s ended without an exchange.
Over(s) == ~Both(s) /\ (swaps[s].cancelled \/ s \notin expiring)

PaidBy(s, u) == \E p \in paid : p.swap = s /\ ~IsRefund(p) /\ p.from = u

\* A deposit has one check at a time, and a swap one that may take its deposit.
Sole(s) ==
    /\ \A c, d \in checks : c.swap = s /\ d.swap = s /\ c.user = d.user => c = d
    /\ \A c, d \in Deciding(s) : c = d

\* What prepare found still holds, and the balance is still there.
DecidingOK(c) ==
    /\ c.swap \in expiring /\ Free(c.swap, c.user)
    /\ \A p \in Due : ~(p.swap = c.swap /\ p.from = c.user)
    /\ c.read => c.balance <= held[c.swap][c.user]

CheckOK(c) ==
    /\ ~Counted(c.swap, c.user)
    /\ c.purpose = "refund" => ~Acceptable(c.swap, c.user)
    /\ c.purpose = "swap" => DecidingOK(c)

\* Nothing is left of the deposit of u to s that could be exchanged.
Gone(s, u) ==
    IF Counted(s, u) THEN Over(s)
    ELSE ~Acceptable(s, u) /\ \A c \in Deciding(s) : c.user # u

\* A whole deposit goes back only if it cannot be exchanged any more.
RefundOK(p) == IsRefund(p) /\ p.amount >= Amount => Gone(p.swap, p.from)

\* A deposit that counts is there, or it was exchanged, until its swap ended.
DepositOK(s, u) ==
    Counted(s, u) /\ ~Over(s) =>
        /\ \A p \in Due : p.swap = s /\ p.from = u => ~IsRefund(p)
        /\ held[s][u] >= Required \/ PaidBy(s, u)

ExchangeOK(s) ==
    /\ swaps[s].cancelled => ~Both(s)
    /\ \A p, q \in Exchanged(s) :
          /\ {p.from, p.to} = {swaps[s].offeredBy, swaps[s].acceptedBy}
          /\ p.from = q.from => p = q

SwapOK(s) ==
    /\ Sole(s) /\ ExchangeOK(s)
    /\ \A c \in checks : c.swap = s => CheckOK(c)
    /\ \A p \in Payments : p.swap = s => RefundOK(p)
    /\ \A u \in Users : DepositOK(s, u)

RaceInv ==
    /\ \A s \in Known : swaps[s].acceptedBy # swaps[s].offeredBy
    /\ \A s \in Known \ raced : SwapOK(s)

\* The steps of Next, by what they do to swaps, checks and payments
LEMMA QuietSteps ==
    ASSUME SwapInv, [Next]_vars
    PROVE  \/ Quiet /\ paid' = paid /\ HeldKept
           \/ \E j \in paying : Quiet /\ LedgerTransfers(j)
           \/ \E o \in Users, a \in Users \union {NoOne}, l \in Lifetimes, n \in BOOLEAN :
                 CreateSwap(o, a, l, n)
           \/ \E s \in Known : CancelSwap(s) \/ ExpireSwap(s)
           \/ \E s \in Known, u \in Users : NotifyDeposit(s, u)
           \/ \E c \in checks : ReadBalance(c) \/ ReturnDeposit(c) \/ TakeDeposit(c)
<1>1. /\ DepositSizes \subseteq Nat /\ now \in Nat /\ (now' = now => now' \in {now, now + 1})
      /\ \A s \in SwapIds, u \in Users : held[s][u] \in Nat
  BY ConstantsAssumption DEF SwapInv, TypeOK
<1>h. ASSUME held' = held
      PROVE  HeldKept
  BY <1>1, <1>h DEF HeldKept
<1>2. ASSUME swaps' = swaps
      PROVE  SameSwaps
  BY <1>2 DEF SameSwaps, SameSwap, Known
<1>3. ASSUME UNCHANGED <<now, expiring, raced>>, SameSwaps, checks' \subseteq checks,
             Due' \subseteq Due, paid' \subseteq paid \union Due
      PROVE  Quiet
  BY <1>1, <1>3 DEF Quiet, Payments
<1>4. ASSUME UNCHANGED <<now, swaps, expiring, raced, pending, paying, paid>>, checks' \subseteq checks
      PROVE  Quiet /\ paid' = paid
  BY <1>2, <1>3, <1>4, SamePayments
<1>5. ASSUME NEW s \in Known, NEW u \in Users, NEW k \in DepositSizes, Deposit(s, u, k)
      PROVE  Quiet /\ paid' = paid /\ HeldKept
  <2>1. Quiet /\ paid' = paid
    BY <1>4, <1>5 DEF Deposit
  <2>2. s \in SwapIds /\ k \in Nat /\ held \in [SwapIds -> [Users -> Nat]]
    BY <1>1, KnownIds DEF SwapInv, TypeOK
  <2>3. held' = [held EXCEPT ![s][u] = held[s][u] + k]
    BY <1>5 DEF Deposit
  <2>4. \A r \in SwapIds, v \in Users :
          held'[r][v] = IF r = s /\ v = u THEN held[s][u] + k ELSE held[r][v]
    BY <2>2, <2>3
  <2>5. held[s][u] <= held[s][u] + k
    BY <1>1, <2>2
  <2>6. HeldKept
    BY <1>1, <2>4, <2>5 DEF HeldKept
  <2> QED
    BY <2>1, <2>6
<1>6. ASSUME NEW c \in checks, CheckFails(c)
      PROVE  Quiet /\ paid' = paid /\ HeldKept
  BY <1>4, <1>6, <1>h DEF CheckFails
<1>7. ASSUME MakePayment
      PROVE  Quiet /\ paid' = paid /\ HeldKept
  <2>1. /\ pending \in Seq(Payment) /\ pending # <<>> /\ pending' = Tail(pending)
        /\ paying' = paying \union {[payment |-> Head(pending), answer |-> "none"]}
        /\ UNCHANGED <<now, swaps, expiring, checkVars, paid, held>>
    BY <1>7 DEF SwapInv, TypeOK, MakePayment
  <2>2. Queued = Elems(pending) /\ Queued' = Elems(Tail(pending))
    BY <2>1 DEF Queued, Elems
  <2>3. Elems(pending) = {Head(pending)} \union Elems(Tail(pending))
    BY <2>1, ElemsHeadTail
  <2>4. Due' \subseteq Due
    BY <2>1, <2>2, <2>3 DEF Due
  <2> QED
    BY <1>2, <1>3, <1>h, <2>1, <2>4
<1>8. ASSUME NEW j \in paying, NEW i, i.payment = j.payment, UNCHANGED pending,
             paying' \subseteq paying \union {i}
      PROVE  Due' \subseteq Due
  BY <1>8 DEF Due, Queued
<1>9. ASSUME NEW j \in paying, LedgerTransfers(j) \/ LedgerRefuses(j)
      PROVE  Quiet
  <2>1. j \in Paying
    BY DEF SwapInv, TypeOK
  <2> DEFINE a == IF LedgerTransfers(j) THEN "ok" ELSE "refused"
             i == [j EXCEPT !.answer = a]
  <2>2. i.payment = j.payment
    BY <2>1 DEF Paying
  <2>3. /\ UNCHANGED <<now, swaps, expiring, checkVars, pending>>
        /\ paid' \subseteq paid \union {j.payment}
    BY <1>9 DEF LedgerTransfers, LedgerRefuses
  <2>4. paying' \subseteq paying \union {i}
    <3>1. CASE LedgerTransfers(j)
      <4>1. i = [j EXCEPT !.answer = "ok"]
        BY <3>1
      <4> HIDE DEF i
      <4> QED
        BY <3>1, <4>1 DEF LedgerTransfers
    <3>2. CASE LedgerRefuses(j) /\ ~LedgerTransfers(j)
      <4>1. i = [j EXCEPT !.answer = "refused"]
        BY <3>2
      <4> HIDE DEF i
      <4> QED
        BY <3>2, <4>1 DEF LedgerRefuses
    <3> QED
      BY <1>9, <3>1, <3>2
  <2> HIDE DEF i
  <2>5. j.payment \in Due
    BY DEF Due
  <2> QED
    BY <1>2, <1>3, <1>8, <2>2, <2>3, <2>4, <2>5
<1>10. ASSUME NEW j \in paying, PaymentMade(j)
       PROVE  Quiet /\ paid' = paid /\ HeldKept
  <2> DEFINE p == j.payment
             s == p.swap
             out == IF p.from = swaps[s].offeredBy THEN [swaps[s] EXCEPT !.out0 = TRUE]
                                                   ELSE [swaps[s] EXCEPT !.out1 = TRUE]
  <2>1. /\ TypeOK /\ s \in Known /\ swaps[s] \in Swap
        /\ UNCHANGED <<now, expiring, checkVars, pending, paid, held>> /\ paying' \subseteq paying
    BY <1>10, KnownIds DEF SwapInv, KnownOK, Payments, Due, PaymentMade
  <2>2. Due' \subseteq Due
    BY <2>1 DEF Due, Queued
  <2>3. swaps' = swaps \/ swaps' = [swaps EXCEPT ![s] = out]
    BY <1>10 DEF PaymentMade
  <2>4. ASSUME swaps' = [swaps EXCEPT ![s] = out]
        PROVE  SameSwaps
    <3>1. /\ out \in Swap /\ out.offeredBy = swaps[s].offeredBy
          /\ out.restrictedTo = swaps[s].restrictedTo /\ out.expiresAt = swaps[s].expiresAt
          /\ out.cancelled = swaps[s].cancelled /\ out.acceptedBy = swaps[s].acceptedBy
          /\ out.received0 = swaps[s].received0 /\ out.received1 = swaps[s].received1
      <4>1. CASE p.from = swaps[s].offeredBy
        <5>1. out = [swaps[s] EXCEPT !.out0 = TRUE]
          BY <4>1
        <5> HIDE DEF out
        <5> QED
          BY <2>1, <5>1 DEF Swap
      <4>2. CASE p.from # swaps[s].offeredBy
        <5>1. out = [swaps[s] EXCEPT !.out1 = TRUE]
          BY <4>2
        <5> HIDE DEF out
        <5> QED
          BY <2>1, <5>1 DEF Swap
      <4> QED
        BY <4>1, <4>2
    <3> HIDE DEF out
    <3>2. /\ Known' = Known /\ swaps'[s] = out /\ \A r \in Known \ {s} : swaps'[r] = swaps[r]
      BY <2>1, <2>4, <3>1, SwapChanged
    <3> QED
      BY <3>1, <3>2 DEF SameSwaps, SameSwap
  <2>5. SameSwaps
    BY <1>2, <2>3, <2>4
  <2> QED
    BY <1>3, <1>h, <2>1, <2>2, <2>5
<1>11. ASSUME NEW j \in paying, PaymentRefused(j)
       PROVE  Quiet /\ paid' = paid /\ HeldKept
  <2>1. UNCHANGED <<now, swaps, expiring, checkVars, pending, paid, held>> /\ paying' \subseteq paying
    BY <1>11 DEF PaymentRefused
  <2>2. Due' \subseteq Due
    BY <2>1 DEF Due, Queued
  <2> QED
    BY <1>2, <1>3, <1>h, <2>1, <2>2
<1>12. ASSUME NEW j \in paying, PaymentFails(j)
       PROVE  Quiet /\ paid' = paid /\ HeldKept
  <2>1. /\ TypeOK /\ j.payment \in Payment /\ UNCHANGED <<now, swaps, expiring, checkVars, paid, held>>
        /\ paying' \subseteq paying /\ Pay(<<j.payment>>)
    BY <1>12 DEF SwapInv, TypeOK, Paying, PaymentFails
  <2>2. <<j.payment>> \in Seq(Payment) /\ Elems(<<j.payment>>) = {j.payment}
    BY <2>1, ElemsOne
  <2>3. Queued' = Queued \union {j.payment}
    BY <2>1, <2>2, PayFacts
  <2>4. Due' \subseteq Due
    BY <2>1, <2>3 DEF Due
  <2> QED
    BY <1>2, <1>3, <1>h, <2>1, <2>4
<1>13. CASE StatusStep
  <2>1. UNCHANGED <<now, swaps, expiring, checkVars, pending, paying, paid, held>>
    BY <1>13 DEF StatusStep, SendStatus, StatusArrives, StatusFails
  <2> QED
    BY <1>4, <1>h, <2>1
<1>14. CASE Upgrade \/ UNCHANGED vars
  BY <1>4, <1>14, <1>h DEF Upgrade
<1>15. CASE Tick
  <2>1. UNCHANGED <<swaps, expiring, checkVars, pending, paying, paid, held>> /\ now' = now + 1
    BY <1>15 DEF Tick
  <2> QED
    BY <1>2, <1>h, <2>1, SamePayments DEF Quiet
<1>16. CASE SwapStep
  BY <1>16 DEF SwapStep
<1>17. CASE DepositStep
  BY <1>5, <1>6, <1>17 DEF DepositStep
<1>18. CASE PaymentStep
  <2>1. ASSUME NEW j \in paying, LedgerRefuses(j)
        PROVE  paid' = paid /\ HeldKept
    BY <1>h, <2>1 DEF LedgerRefuses
  <2> QED
    BY <1>7, <1>9, <1>10, <1>11, <1>12, <1>18, <2>1 DEF PaymentStep
<1> QED
  BY <1>13, <1>14, <1>15, <1>16, <1>17, <1>18 DEF Next

LEMMA SwapFields ==
    ASSUME SwapInv, NEW s \in Known
    PROVE  /\ s \in SwapIds /\ swaps[s] \in Swap /\ swaps[s].expiresAt \in Nat
           /\ swaps[s].offeredBy \in Users /\ NoOne \notin Users /\ now \in Nat
           /\ swaps[s].acceptedBy = NoOne => ~swaps[s].received1
BY KnownIds, ConstantsAssumption DEF SwapInv, TypeOK, KnownOK, Swap

LEMMA Created ==
    ASSUME SwapInv, NEW o \in Users, NEW a \in Users \union {NoOne},
           NEW l \in Lifetimes, NEW n \in BOOLEAN, CreateSwap(o, a, l, n)
    PROVE  /\ \A r \in Known : SameSwap(r)
           /\ \E s : /\ s \notin Known /\ Known' = Known \union {s}
                     /\ expiring' = expiring \union {s}
                     /\ swaps'[s].offeredBy = o /\ swaps'[s].acceptedBy = NoOne
                     /\ ~swaps'[s].cancelled /\ ~swaps'[s].received0 /\ ~swaps'[s].received1
<1> DEFINE w == [offeredBy |-> o, restrictedTo |-> a,
                 expiresAt |-> now + l, notify |-> n,
                 cancelled |-> FALSE, acceptedBy |-> NoOne,
                 received0 |-> FALSE, received1 |-> FALSE,
                 out0 |-> FALSE, out1 |-> FALSE]
           s == Len(swaps) + 1
<1>1. /\ TypeOK /\ swaps \in Seq(Swap) /\ swaps' = Append(swaps, w)
      /\ expiring' = expiring \union {Len(swaps')}
  BY DEF SwapInv, TypeOK, CreateSwap
<1>2. /\ w.offeredBy = o /\ w.acceptedBy = NoOne
      /\ ~w.cancelled /\ ~w.received0 /\ ~w.received1
  OBVIOUS
<1> HIDE DEF w
<1>3. /\ Len(swaps') = s /\ DOMAIN swaps' = 1..s /\ swaps'[s] = w
      /\ \A i \in 1..Len(swaps) : swaps'[i] = swaps[i]
  BY <1>1
<1>4. Known = 1..Len(swaps) /\ Len(swaps) \in Nat
  BY <1>1, KnownIds
<1>5. s \notin Known /\ Known' = Known \union {s}
  BY <1>3, <1>4 DEF Known
<1>6. \A r \in Known : SameSwap(r)
  BY <1>3, <1>4 DEF SameSwap
<1> HIDE DEF s
<1> QED
  BY <1>1, <1>2, <1>3, <1>5, <1>6

LEMMA Cancelled ==
    ASSUME SwapInv, NEW s \in Known, CancelSwap(s)
    PROVE  /\ Known' = Known /\ \A r \in Known \ {s} : SameSwap(r)
           /\ swaps'[s].offeredBy = swaps[s].offeredBy
           /\ swaps'[s].expiresAt = swaps[s].expiresAt /\ swaps'[s].cancelled
           /\ swaps'[s].acceptedBy = NoOne /\ swaps[s].acceptedBy = NoOne
           /\ swaps'[s].received0 = swaps[s].received0
           /\ ~swaps[s].received1 /\ ~swaps'[s].received1
<1> DEFINE w == [swaps[s] EXCEPT !.cancelled = TRUE]
<1>1. TypeOK /\ swaps[s] \in Swap /\ ~swaps[s].received1 /\ swaps[s].acceptedBy = NoOne
  BY SwapFields DEF SwapInv, CancelSwap
<1>2. /\ w \in Swap /\ w.offeredBy = swaps[s].offeredBy /\ w.expiresAt = swaps[s].expiresAt
      /\ w.cancelled /\ w.acceptedBy = swaps[s].acceptedBy
      /\ w.received0 = swaps[s].received0 /\ w.received1 = swaps[s].received1
  BY <1>1 DEF Swap
<1>3. swaps' = [swaps EXCEPT ![s] = w]
  BY DEF CancelSwap
<1> HIDE DEF w
<1>4. Known' = Known /\ swaps'[s] = w /\ \A r \in Known \ {s} : swaps'[r] = swaps[r]
  BY <1>1, <1>2, <1>3, SwapChanged
<1> QED
  BY <1>1, <1>2, <1>4 DEF SameSwap

LEMMA Taken ==
    ASSUME SwapInv, NEW c \in checks, TakeDeposit(c)
    PROVE  LET s == c.swap
               w == swaps'[s]
           IN  /\ s \in Known /\ c.user \in Users /\ c.purpose = "swap"
               /\ Known' = Known /\ \A r \in Known \ {s} : SameSwap(r)
               /\ w.offeredBy = swaps[s].offeredBy
               /\ w.expiresAt = swaps[s].expiresAt /\ w.cancelled = swaps[s].cancelled
               /\ w.restrictedTo = swaps[s].restrictedTo
               /\ w.received0 = (swaps[s].received0 \/ c.user = swaps[s].offeredBy)
               /\ w.received1 = (swaps[s].received1 \/ c.user # swaps[s].offeredBy)
               /\ w.acceptedBy = IF c.user = swaps[s].offeredBy
                                 THEN swaps[s].acceptedBy ELSE c.user
<1> DEFINE s == c.swap
           w == ReceivedBy(swaps[s], c.user)
<1>1. /\ TypeOK /\ s \in Known /\ swaps[s] \in Swap /\ c.user \in Users /\ c.purpose = "swap"
      /\ swaps' = [swaps EXCEPT ![s] = w]
  BY SwapFields DEF SwapInv, TypeOK, KnownOK, Check, TakeDeposit
<1>2. /\ w \in Swap /\ w.offeredBy = swaps[s].offeredBy
      /\ w.expiresAt = swaps[s].expiresAt /\ w.cancelled = swaps[s].cancelled
      /\ w.restrictedTo = swaps[s].restrictedTo
      /\ w.received0 = (swaps[s].received0 \/ c.user = swaps[s].offeredBy)
      /\ w.received1 = (swaps[s].received1 \/ c.user # swaps[s].offeredBy)
      /\ w.acceptedBy = IF c.user = swaps[s].offeredBy THEN swaps[s].acceptedBy ELSE c.user
  <2>1. CASE c.user = swaps[s].offeredBy
    <3>1. w = [swaps[s] EXCEPT !.received0 = TRUE]
      BY <2>1 DEF ReceivedBy
    <3> HIDE DEF w
    <3> QED
      BY <1>1, <2>1, <3>1 DEF Swap
  <2>2. CASE c.user # swaps[s].offeredBy
    <3>1. w = [swaps[s] EXCEPT !.received1 = TRUE, !.acceptedBy = c.user]
      BY <2>2 DEF ReceivedBy
    <3> HIDE DEF w
    <3> QED
      BY <1>1, <2>2, <3>1 DEF Swap
  <2> QED
    BY <2>1, <2>2
<1> HIDE DEF w
<1>3. Known' = Known /\ swaps'[s] = w /\ \A r \in Known \ {s} : swaps'[r] = swaps[r]
  BY <1>1, <1>2, SwapChanged
<1> QED
  BY <1>1, <1>2, <1>3 DEF SameSwap

LEMMA TimeTyped == ASSUME SwapInv, [Next]_vars PROVE now \in Nat /\ now' \in Nat /\ now <= now'
<1>1. now \in Nat
  BY DEF SwapInv, TypeOK
<1>2. SwapInv'
  BY NextSwap
<1>3. now' \in Nat
  BY <1>2 DEF SwapInv, TypeOK
<1>4. now' = now \/ now' = now + 1
  <2>1. CASE SwapStep
    BY <2>1 DEF SwapStep, CreateSwap, CancelSwap, ExpireSwap
  <2>2. CASE DepositStep
    BY <2>2 DEF DepositStep, NotifyDeposit, Deposit, ReadBalance, ReturnDeposit, TakeDeposit,
       CheckFails
  <2>3. CASE PaymentStep
    BY <2>3 DEF PaymentStep, MakePayment, LedgerTransfers, LedgerRefuses, PaymentMade,
       PaymentRefused, PaymentFails
  <2>4. CASE StatusStep
    BY <2>4 DEF StatusStep, SendStatus, StatusArrives, StatusFails
  <2> QED
    BY <2>1, <2>2, <2>3, <2>4 DEF Next, Upgrade, Tick
<1> QED
  BY <1>1, <1>3, <1>4

\* The deposits and the acceptance of a swap that did not change
LEMMA SameSwapFacts ==
    ASSUME NEW s, SameSwap(s)
    PROVE  /\ Both(s)' <=> Both(s)
           /\ \A u : Counted(s, u)' <=> Counted(s, u)
           /\ \A u : Free(s, u)' <=> Free(s, u)
BY DEF SameSwap, Both, Counted, Free

\* What cannot be taken now can never be.
LEMMA StillNot ==
    ASSUME SwapInv, NEW s \in Known, SameSwap(s), now <= now', now' \in Nat,
           NEW u, Acceptable(s, u)'
    PROVE  Acceptable(s, u)
<1>1. now \in Nat /\ swaps[s].expiresAt \in Nat
  BY SwapFields
<1>2. now' <= swaps[s].expiresAt
  BY DEF Acceptable, SameSwap
<1>3. now <= swaps[s].expiresAt
  BY <1>1, <1>2
<1> QED
  BY <1>3 DEF Acceptable, SameSwap

LEMMA PaymentsTyped ==
    ASSUME SwapInv
    PROVE  Payments \subseteq Payment /\ \A p \in Payments : p.swap \in Known /\ p.from \in Users
<1>1. Queued \subseteq Payment
  <2>1. pending \in Seq(Payment)
    BY DEF SwapInv, TypeOK
  <2>2. \A i \in DOMAIN pending : pending[i] \in Payment
    BY <2>1, LenProperties, ElementOfSeq
  <2> QED
    BY <2>2 DEF Queued
<1>2. Payments \subseteq Payment
  BY <1>1 DEF SwapInv, TypeOK, Paying, Payments, Due
<1> QED
  BY <1>2 DEF SwapInv, KnownOK, Payment

\* What a cancellation or the expiry of a swap pays
LEMMA RefundsMade ==
    ASSUME SwapInv, NEW s \in Known, CancelSwap(s) \/ ExpireSwap(s),
           NEW p \in Due', p \notin Due
    PROVE  p.swap = s /\ IsRefund(p) /\ Counted(s, p.from) /\ ~Both(s)
<1>1. TypeOK
  BY DEF SwapInv
<1>2. paying' = paying /\ paid' = paid
  BY DEF CancelSwap, ExpireSwap
<1>3. Pay(Refunds(s)) /\ ~Both(s)
  <2>1. CASE CancelSwap(s)
    <3>1. ~swaps[s].received1
      BY <2>1, Cancelled
    <3> QED
      BY <2>1, <3>1 DEF CancelSwap, Both
  <2>2. CASE ExpireSwap(s)
    <3>1. Status(s) = "Expired"
      <4>1. SUFFICES ASSUME UNCHANGED <<pending, payTimer>>
                     PROVE  FALSE
        BY <2>2 DEF ExpireSwap
      <4> QED
        BY <1>2, <4>1, SamePayments
    <3>2. ~(swaps[s].received0 /\ swaps[s].acceptedBy # NoOne)
      BY <3>1 DEF Status
    <3>3. ~Both(s)
      BY <3>2, SwapFields DEF Both
    <3> QED
      BY <2>2, <3>1, <3>3 DEF ExpireSwap
  <2> QED
    BY <2>1, <2>2
<1>4. /\ Refunds(s) \in Seq(Payment)
      /\ \A q \in Elems(Refunds(s)) : q.swap = s /\ IsRefund(q) /\ Counted(s, q.from)
  BY <1>1, RefundsFacts
<1>5. Queued' = Queued \union Elems(Refunds(s))
  BY <1>1, <1>3, <1>4, PayFacts
<1> QED
  BY <1>2, <1>3, <1>4, <1>5 DEF Due

\* What a check pays that found too little, or a swap that is over
LEMMA BalanceRefunded ==
    ASSUME SwapInv, NEW c \in checks, ReturnDeposit(c), NEW p \in Due', p \notin Due
    PROVE  /\ p.swap = c.swap /\ IsRefund(p) /\ p.from = c.user
           /\ c.purpose = "swap" => p.amount < Amount
<1> DEFINE q == Owed(c.swap, c.user, c.user, c.balance - Fee)
           ps == IF c.balance > Fee THEN <<q>> ELSE <<>>
<1>1. /\ TypeOK /\ c \in Check /\ c.swap \in Known /\ UNCHANGED <<paying, paid>>
      /\ c.balance \in Nat /\ Fee \in Nat /\ c.user \in Users /\ c.swap \in SwapIds
  BY ConstantsAssumption DEF SwapInv, KnownOK, TypeOK, Check, ReturnDeposit
<1>2. Pay(ps)
  BY DEF ReturnDeposit, RefundBalance
<1>3. ps \in Seq(Payment) /\ Elems(ps) \subseteq {q}
  <2>1. CASE c.balance > Fee
    <3>1. q \in Payment
      <4>1. c.balance - Fee \in Nat
        BY <1>1, <2>1
      <4> QED
        BY <1>1, <4>1, OwedType
    <3>2. ps = <<q>>
      BY <2>1
    <3> HIDE DEF q, ps
    <3> QED
      BY <3>1, <3>2, ElemsOne
  <2>2. CASE ~(c.balance > Fee)
    <3>1. ps = <<>>
      BY <2>2
    <3> HIDE DEF q, ps
    <3> QED
      BY <3>1, ElemsNone
  <2> QED
    BY <2>1, <2>2
<1>4. q.swap = c.swap /\ IsRefund(q) /\ q.from = c.user /\ q.amount = c.balance - Fee
  BY OwedRefund DEF Owed
<1> HIDE DEF q, ps
<1>5. Queued' = Queued \union Elems(ps)
  BY <1>1, <1>2, <1>3, PayFacts
<1>6. c.purpose = "swap" => c.balance - Fee < Amount
  <2>1. c.purpose = "swap" => c.balance < Amount + Fee
    BY DEF ReturnDeposit, Required
  <2>2. Amount \in Nat
    BY ConstantsAssumption
  <2> QED
    BY <1>1, <2>1, <2>2
<1>7. p = q
  BY <1>1, <1>3, <1>5 DEF Due
<1> QED
  BY <1>4, <1>6, <1>7

\* What a deposit pays that completes a swap
LEMMA ExchangeMade ==
    ASSUME SwapInv, NEW c \in checks, TakeDeposit(c), NEW p \in Due', p \notin Due
    PROVE  LET w == swaps'[c.swap]
           IN  /\ w.received0 /\ w.received1
               /\ \/ p = Owed(c.swap, w.acceptedBy, w.offeredBy, Amount)
                  \/ p = Owed(c.swap, w.offeredBy, w.acceptedBy, Amount)
<1> DEFINE s == c.swap
           w == ReceivedBy(swaps[s], c.user)
           x == Owed(s, w.acceptedBy, w.offeredBy, Amount)
           y == Owed(s, w.offeredBy, w.acceptedBy, Amount)
           ps == IF Complete(w) THEN <<x, y>> ELSE <<>>
<1>1. /\ TypeOK /\ s \in Known /\ s \in SwapIds /\ UNCHANGED <<paying, paid>> /\ Pay(ps)
      /\ swaps' = [swaps EXCEPT ![s] = w] /\ swaps \in Seq(Swap)
  BY SwapFields DEF SwapInv, TypeOK, KnownOK, TakeDeposit
<1>2. swaps'[s] = w /\ s \in Known'
  <2>1. s \in DOMAIN swaps
    BY <1>1 DEF Known
  <2> HIDE DEF w
  <2> QED
    BY <1>1, <2>1 DEF Known
<1>3. w.offeredBy \in Users /\ (w.received1 => w.acceptedBy \in Users) /\ Amount \in Nat
  <2>1. swaps'[s].offeredBy \in Users /\ (swaps'[s].received1 => swaps'[s].acceptedBy \in Users)
    <3>1. swaps[s].offeredBy \in Users /\ (swaps[s].received1 => swaps[s].acceptedBy \in Users)
      BY <1>1, SwapFields DEF SwapInv, KnownOK
    <3> QED
      BY <3>1, Taken
  <2> HIDE DEF w
  <2> QED
    BY <1>2, <2>1, ConstantsAssumption
<1>4. CASE Complete(w)
  <2>1. x \in Payment /\ y \in Payment
    BY <1>1, <1>3, <1>4, OwedType DEF Complete
  <2>2. ps = <<x, y>>
    BY <1>4
  <2>3. w.received0 /\ w.received1
    BY <1>4 DEF Complete
  <2> HIDE DEF x, y, ps
  <2>4. Queued' = Queued \union {x, y}
    BY <1>1, <2>1, <2>2, ElemsTwo, PayFacts
  <2>5. p = x \/ p = y
    BY <1>1, <2>4 DEF Due
  <2> HIDE DEF w
  <2> QED
    BY <1>2, <2>3, <2>5 DEF x, y
<1>5. CASE ~Complete(w)
  <2>1. ps = <<>>
    BY <1>5
  <2> HIDE DEF x, y, ps
  <2>2. Queued' = Queued
    BY <1>1, <2>1, ElemsNone, PayFacts
  <2> QED
    BY <1>1, <2>2 DEF Due
<1> QED
  BY <1>4, <1>5

-----------------------------------------------------------------------------
\* A step does nothing to swap s but add to what its depositors hold.
Untouched(s) ==
    /\ s \in Known' /\ SameSwap(s) /\ (s \in expiring' <=> s \in expiring)
    /\ \A c \in checks' : c.swap = s => c \in checks
    /\ \A p \in Due' : p.swap = s => p \in Due
    /\ \A p \in Payments' : p.swap = s => p \in Payments
    /\ paid \subseteq paid'
    /\ \A u \in Users : held[s][u] <= held'[s][u]

LEMMA HeldTyped ==
    ASSUME SwapInv, NEW s \in Known, NEW u \in Users
    PROVE  held[s][u] \in Nat /\ Required \in Nat
BY SwapFields, ConstantsAssumption DEF SwapInv, TypeOK, Required

LEMMA HeldTypedNext ==
    ASSUME SwapInv', NEW s \in Known', NEW u \in Users
    PROVE  held'[s][u] \in Nat
<1>1. TypeOK'
  BY DEF SwapInv
<1>2. s \in SwapIds
  <2>1. Known' = 1..Len(swaps') /\ Len(swaps') <= MaxSwaps /\ Len(swaps') \in Nat
    BY <1>1, LenProperties DEF TypeOK, Known
  <2> QED
    BY <2>1, ConstantsAssumption DEF SwapIds
<1> QED
  BY <1>1, <1>2 DEF TypeOK

LEMMA SameGone ==
    ASSUME SwapInv, NEW s \in Known, SameSwap(s), now <= now', now' \in Nat,
           s \in expiring' => s \in expiring,
           NEW u, \A c \in Deciding(s)' : c.user = u => c \in Deciding(s),
           Gone(s, u)
    PROVE  Gone(s, u)'
<1>1. Counted(s, u)' <=> Counted(s, u)
  BY SameSwapFacts
<1>2. CASE Counted(s, u)
  BY <1>1, <1>2, SameSwapFacts DEF Gone, Over, SameSwap
<1>3. CASE ~Counted(s, u)
  <2>1. ~Acceptable(s, u)'
    BY <1>3, StillNot DEF Gone
  <2>2. \A c \in Deciding(s)' : c.user # u
    BY <1>3 DEF Gone
  <2> QED
    BY <1>1, <1>3, <2>1, <2>2 DEF Gone
<1> QED
  BY <1>2, <1>3

LEMMA UntouchedKeeps ==
    ASSUME SwapInv, SwapInv', now <= now', now' \in Nat,
           NEW s \in Known, SwapOK(s), Untouched(s)
    PROVE  SwapOK(s)'
<1>1. /\ SameSwap(s) /\ s \in Known' /\ (s \in expiring' <=> s \in expiring)
      /\ \A u \in Users : held[s][u] \in Nat /\ held'[s][u] \in Nat
      /\ \A c \in checks : c.user \in Users /\ c.balance \in Nat
      /\ Required \in Nat
  <2>1. SameSwap(s) /\ s \in Known' /\ (s \in expiring' <=> s \in expiring)
    BY DEF Untouched
  <2>2. \A u \in Users : held'[s][u] \in Nat
    BY <2>1, HeldTypedNext
  <2>3. \A u \in Users : held[s][u] \in Nat
    BY HeldTyped
  <2>4. Required \in Nat
    BY ConstantsAssumption DEF Required
  <2>5. \A c \in checks : c.user \in Users /\ c.balance \in Nat
    BY DEF SwapInv, TypeOK, Check
  <2> QED
    BY <2>1, <2>2, <2>3, <2>4, <2>5
<1>2. Deciding(s)' \subseteq Deciding(s)
  BY DEF Untouched, Deciding
<1>3. Sole(s)'
  BY <1>2 DEF Untouched, SwapOK, Sole
<1>4. ASSUME NEW c \in checks', c.swap = s
      PROVE  CheckOK(c)'
  <2>1. c \in checks /\ CheckOK(c)
    BY <1>4 DEF Untouched, SwapOK
  <2>2. ~Counted(s, c.user)'
    BY <1>1, <1>4, <2>1, SameSwapFacts DEF CheckOK
  <2>3. c.purpose = "refund" => ~Acceptable(s, c.user)'
    BY <1>1, <1>4, <2>1, StillNot DEF CheckOK
  <2>4. ASSUME DecidingOK(c) PROVE DecidingOK(c)'
    <3>1. c.swap \in expiring' /\ Free(c.swap, c.user)'
      BY <1>1, <1>4, <2>4, SameSwapFacts DEF DecidingOK
    <3>2. (\A p \in Due : ~(p.swap = c.swap /\ p.from = c.user))'
      BY <1>4, <2>4 DEF DecidingOK, Untouched
    <3>3. c.read => c.balance <= held'[c.swap][c.user]
      <4>1. held[s][c.user] <= held'[s][c.user]
        BY <1>1, <2>1 DEF Untouched
      <4>2. c.read => c.balance <= held[s][c.user]
        BY <1>4, <2>4 DEF DecidingOK
      <4> QED
        BY <1>1, <1>4, <2>1, <4>1, <4>2
    <3> QED
      BY <3>1, <3>2, <3>3 DEF DecidingOK
  <2> QED
    BY <1>4, <2>1, <2>2, <2>3, <2>4 DEF CheckOK
<1>5. ASSUME NEW p \in Payments', p.swap = s
      PROVE  RefundOK(p)'
  <2>1. RefundOK(p)
    BY <1>5 DEF Untouched, SwapOK
  <2>2. Gone(s, p.from) => Gone(s, p.from)'
    BY <1>1, <1>2, SameGone
  <2> QED
    BY <1>5, <2>1, <2>2 DEF RefundOK, IsRefund
<1>6. ASSUME NEW u \in Users
      PROVE  DepositOK(s, u)'
  <2>1. SUFFICES ASSUME Counted(s, u)', ~Over(s)'
                 PROVE  /\ (\A p \in Due : p.swap = s /\ p.from = u => ~IsRefund(p))'
                        /\ held'[s][u] >= Required \/ PaidBy(s, u)'
    BY DEF DepositOK, Required
  <2>2. Counted(s, u) /\ ~Over(s)
    BY <1>1, <2>1, SameSwapFacts DEF Over, SameSwap
  <2>3. /\ \A p \in Due : p.swap = s /\ p.from = u => ~IsRefund(p)
        /\ held[s][u] >= Required \/ PaidBy(s, u)
    BY <2>2 DEF SwapOK, DepositOK
  <2>4. held[s][u] >= Required => held'[s][u] >= Required
    <3>1. held[s][u] <= held'[s][u]
      BY DEF Untouched
    <3> QED
      BY <1>1, <3>1
  <2>5. PaidBy(s, u) => PaidBy(s, u)'
    BY DEF Untouched, PaidBy, IsRefund
  <2>6. (\A p \in Due : p.swap = s /\ p.from = u => ~IsRefund(p))'
    BY <2>3 DEF Untouched, IsRefund
  <2> QED
    BY <2>3, <2>4, <2>5, <2>6
<1>7. ExchangeOK(s)'
  <2>1. Exchanged(s)' \subseteq Exchanged(s)
    BY DEF Untouched, Exchanged, IsRefund
  <2>2. ExchangeOK(s)
    BY DEF SwapOK
  <2>3. Both(s)' <=> Both(s)
    BY <1>1, SameSwapFacts
  <2> QED
    BY <1>1, <2>1, <2>2, <2>3 DEF ExchangeOK, SameSwap
<1> QED
  BY <1>3, <1>4, <1>5, <1>6, <1>7 DEF SwapOK

\* A step that concerns one swap leaves the others untouched.
LEMMA OthersUntouched ==
    ASSUME SwapInv, NEW s, Known \subseteq Known', \A r \in Known \ {s} : SameSwap(r),
           \A r \in Known \ {s} : r \in expiring' <=> r \in expiring,
           \A c \in checks' : c \in checks \/ c.swap = s,
           \A p \in Due' : p \in Due \/ p.swap = s,
           paid' = paid, held' = held,
           NEW r \in Known, r # s
    PROVE  Untouched(r)
<1>1. \A u \in Users : held[r][u] <= held'[r][u]
  <2> SUFFICES ASSUME NEW u \in Users PROVE held[r][u] <= held'[r][u]
    OBVIOUS
  <2>1. held[r][u] \in Nat
    BY HeldTyped
  <2> QED
    BY <2>1
<1>2. \A p \in Payments' : p.swap = r => p \in Payments
  BY DEF Payments
<1> QED
  BY <1>1, <1>2 DEF Untouched

LEMMA CreateRaces ==
    ASSUME SwapInv, SwapInv', NEW o \in Users, NEW a \in Users \union {NoOne},
           NEW l \in Lifetimes, NEW n \in BOOLEAN, CreateSwap(o, a, l, n),
           NEW r \in Known', r \in Known => SwapOK(r), now <= now', now' \in Nat
    PROVE  SwapOK(r)'
<1>1. UNCHANGED <<checks, pending, paying, paid, held>>
  BY DEF CreateSwap
<1>2. Due' = Due /\ Payments' = Payments
  BY <1>1, SamePayments
<1>3. PICK s : /\ s \notin Known /\ Known' = Known \union {s}
               /\ expiring' = expiring \union {s}
               /\ swaps'[s].offeredBy = o /\ swaps'[s].acceptedBy = NoOne
               /\ ~swaps'[s].cancelled /\ ~swaps'[s].received0 /\ ~swaps'[s].received1
  BY Created
<1>4. CASE r \in Known
  <2>1. \A q \in Known : SameSwap(q)
    BY Created
  <2>2. Untouched(r)
    BY <1>1, <1>2, <1>3, <1>4, <2>1, OthersUntouched
  <2> QED
    BY <1>4, <2>2, UntouchedKeeps
<1>5. CASE r \notin Known
  <2>1. r = s
    BY <1>3, <1>5
  <2>2. /\ \A c \in checks : c.swap # s
        /\ \A p \in Payments : p.swap # s
    BY <1>3 DEF SwapInv, KnownOK
  <2>3. Exchanged(s)' = {} /\ Deciding(s)' = {}
    BY <1>1, <1>2, <2>2 DEF Exchanged, Deciding
  <2>4. \A u : ~Counted(s, u)'
    BY <1>3 DEF Counted
  <2>5. Sole(s)' /\ ExchangeOK(s)'
    BY <1>1, <1>3, <2>2, <2>3 DEF Sole, ExchangeOK
  <2>6. \A u \in Users : DepositOK(s, u)'
    BY <2>4 DEF DepositOK
  <2> QED
    BY <1>1, <1>2, <2>1, <2>2, <2>5, <2>6 DEF SwapOK
<1> QED
  BY <1>4, <1>5

\* A deposit of a swap that is cancelled or expires while nothing is decided
LEMMA CancelRaces ==
    ASSUME SwapInv, SwapInv', NEW s \in Known, CancelSwap(s), SwapOK(s), Deciding(s) = {}
    PROVE  SwapOK(s)'
<1>1. checks' = checks /\ paid' = paid
  BY DEF CancelSwap
<1>2. /\ swaps'[s].cancelled /\ ~Both(s) /\ ~Both(s)'
      /\ swaps'[s].offeredBy = swaps[s].offeredBy /\ swaps'[s].acceptedBy = swaps[s].acceptedBy
      /\ \A u : Counted(s, u)' <=> Counted(s, u)
  BY Cancelled DEF Both, Counted
<1>3. Deciding(s)' = {} /\ \A u : ~Acceptable(s, u)'
  BY <1>1, <1>2 DEF Deciding, Acceptable
<1>4. Over(s)' /\ \A u : Gone(s, u)'
  BY <1>2, <1>3 DEF Over, Gone
<1>5. Sole(s)'
  BY <1>1, <1>3 DEF SwapOK, Sole
<1>6. ExchangeOK(s)'
  <2>1. Exchanged(s)' = {}
    <3> SUFFICES ASSUME NEW p \in Payments', p.swap = s, ~IsRefund(p)
                 PROVE  FALSE
      BY DEF Exchanged, IsRefund
    <3>1. PaymentOK(p)'
      BY DEF SwapInv
    <3> QED
      BY <1>2, <3>1 DEF PaymentOK, IsRefund, Both
  <2> QED
    BY <1>2, <2>1 DEF ExchangeOK
<1>7. ASSUME NEW c \in checks', c.swap = s
      PROVE  CheckOK(c)'
  <2>1. ~Counted(s, c.user) /\ c.purpose # "swap"
    BY <1>1, <1>7 DEF SwapOK, CheckOK, Deciding
  <2> QED
    BY <1>2, <1>3, <1>7, <2>1 DEF CheckOK
<1>8. \A p \in Payments' : p.swap = s => RefundOK(p)'
  BY <1>4 DEF RefundOK
<1>9. \A u \in Users : DepositOK(s, u)'
  BY <1>4 DEF DepositOK
<1> QED
  BY <1>5, <1>6, <1>7, <1>8, <1>9 DEF SwapOK

LEMMA ExpireRaces ==
    ASSUME SwapInv, SwapInv', NEW s \in Known, ExpireSwap(s), SwapOK(s), Deciding(s) = {},
           now <= now', now' \in Nat
    PROVE  SwapOK(s)'
<1>1. /\ checks' = checks /\ paid' = paid /\ held' = held /\ swaps' = swaps /\ now' = now
      /\ expiring' = expiring \ {s}
  BY DEF ExpireSwap
<1>2. /\ SameSwap(s) /\ (Both(s)' <=> Both(s)) /\ s \notin expiring'
      /\ \A u : Counted(s, u)' <=> Counted(s, u)
      /\ \A u : Acceptable(s, u)' <=> Acceptable(s, u)
  BY <1>1 DEF SameSwap, Both, Counted, Acceptable
<1>3. Deciding(s)' = {}
  BY <1>1 DEF Deciding
<1>4. ~Both(s) => Over(s)'
  BY <1>2 DEF Over
<1>5. \A p \in Due' : p \notin Due => IsRefund(p) /\ p.swap = s /\ Counted(s, p.from) /\ ~Both(s)
  BY RefundsMade
<1>6. \A p \in Payments' : p \in Payments \/ (p \in Due' /\ p \notin Due)
  BY <1>1 DEF Payments
<1>7. Sole(s)'
  BY <1>1, <1>3 DEF SwapOK, Sole
<1>8. ExchangeOK(s)'
  <2>1. Exchanged(s)' \subseteq Exchanged(s)
    BY <1>5, <1>6 DEF Exchanged, IsRefund
  <2>2. ExchangeOK(s)
    BY DEF SwapOK
  <2> QED
    BY <1>1, <1>2, <2>1, <2>2 DEF ExchangeOK
<1>9. ASSUME NEW c \in checks', c.swap = s
      PROVE  CheckOK(c)'
  <2>1. CheckOK(c) /\ c.purpose # "swap"
    BY <1>1, <1>9 DEF SwapOK, Deciding
  <2> QED
    BY <1>2, <1>9, <2>1 DEF CheckOK
<1>10. ASSUME NEW p \in Payments', p.swap = s
       PROVE  RefundOK(p)'
  <2>1. CASE p \in Payments
    <3>1. RefundOK(p)
      BY <1>10, <2>1 DEF SwapOK
    <3>2. Gone(s, p.from) => Gone(s, p.from)'
      BY <1>2, <1>3 DEF Gone, Over
    <3> QED
      BY <1>10, <3>1, <3>2 DEF RefundOK, IsRefund
  <2>2. CASE p \notin Payments
    <3>1. Counted(s, p.from) /\ ~Both(s)
      BY <1>5, <1>6, <1>10, <2>2
    <3>2. Gone(s, p.from)'
      BY <1>2, <1>4, <3>1 DEF Gone
    <3> QED
      BY <1>10, <3>2 DEF RefundOK
  <2> QED
    BY <2>1, <2>2
<1>11. ASSUME NEW u \in Users
       PROVE  DepositOK(s, u)'
  <2> SUFFICES ASSUME Counted(s, u)', ~Over(s)'
               PROVE  /\ (\A p \in Due : p.swap = s /\ p.from = u => ~IsRefund(p))'
                      /\ held'[s][u] >= Required \/ PaidBy(s, u)'
    BY DEF DepositOK, Required
  <2>1. Both(s) /\ Counted(s, u)
    BY <1>2, <1>4
  <2>2. /\ \A p \in Due : p.swap = s /\ p.from = u => ~IsRefund(p)
        /\ held[s][u] >= Required \/ PaidBy(s, u)
    BY <2>1 DEF SwapOK, DepositOK, Over
  <2>3. PaidBy(s, u)' <=> PaidBy(s, u)
    BY <1>1 DEF PaidBy, IsRefund
  <2>4. (\A p \in Due : p.swap = s /\ p.from = u => ~IsRefund(p))'
    BY <1>5, <2>1, <2>2 DEF IsRefund
  <2> QED
    BY <1>1, <2>2, <2>3, <2>4
<1> QED
  BY <1>7, <1>8, <1>9, <1>10, <1>11 DEF SwapOK

\* What a step leaves of swap s that only changes its checks
ChecksOnly(s) ==
    /\ UNCHANGED <<now, swaps, expiring, held>>
    /\ Due' = Due /\ Payments' = Payments /\ paid' = paid

LEMMA ChecksOnlyKeeps ==
    ASSUME SwapInv, NEW s \in Known, SwapOK(s), ChecksOnly(s), Sole(s)',
           \A c \in checks' : c.swap = s => CheckOK(c)',
           \A d \in Deciding(s)' : d \in Deciding(s) \/ Acceptable(s, d.user)
                                   \/ \E c \in Deciding(s) : c.user = d.user
    PROVE  SwapOK(s)'
<1>1. /\ SameSwap(s) /\ (Both(s)' <=> Both(s)) /\ (Over(s)' <=> Over(s))
      /\ \A u : Counted(s, u)' <=> Counted(s, u)
      /\ \A u : Acceptable(s, u)' <=> Acceptable(s, u)
  BY DEF ChecksOnly, SameSwap, Both, Counted, Acceptable, Over
<1>2. ExchangeOK(s)'
  <2>1. Exchanged(s)' = Exchanged(s)
    BY DEF ChecksOnly, Exchanged, IsRefund
  <2>2. ExchangeOK(s)
    BY DEF SwapOK
  <2> QED
    BY <1>1, <2>1, <2>2 DEF ExchangeOK, SameSwap
<1>3. ASSUME NEW p \in Payments', p.swap = s
      PROVE  RefundOK(p)'
  <2>1. RefundOK(p)
    BY <1>3 DEF SwapOK, ChecksOnly
  <2>2. Gone(s, p.from) => Gone(s, p.from)'
    BY <1>1 DEF Gone
  <2> QED
    BY <1>3, <2>1, <2>2 DEF RefundOK, IsRefund
<1>4. ASSUME NEW u \in Users
      PROVE  DepositOK(s, u)'
  <2>1. DepositOK(s, u)
    BY DEF SwapOK
  <2>2. PaidBy(s, u)' <=> PaidBy(s, u)
    BY DEF ChecksOnly, PaidBy, IsRefund
  <2>3. (\A p \in Due : p.swap = s /\ p.from = u => ~IsRefund(p))'
          <=> (\A p \in Due : p.swap = s /\ p.from = u => ~IsRefund(p))
    BY DEF ChecksOnly, IsRefund
  <2>4. (held[s][u] >= Required)' <=> held[s][u] >= Required
    BY DEF ChecksOnly, Required
  <2> QED
    BY <1>1, <2>1, <2>2, <2>3, <2>4 DEF DepositOK
<1> QED
  BY <1>2, <1>3, <1>4 DEF SwapOK

LEMMA NotifyRaced ==
    ASSUME SwapInv, NEW s \in Known, NEW u \in Users, NotifyDeposit(s, u),
           SwapOK(s), NotifyRaces(s, u) = {}
    PROVE  SwapOK(s)'
<1>0. PICK c : c = [id |-> calls, swap |-> s, user |-> u,
                    purpose |-> IF Acceptable(s, u) THEN "swap" ELSE "refund",
                    read |-> FALSE, balance |-> 0]
  OBVIOUS
<1>1. /\ UNCHANGED <<now, swaps, expiring, pending, paying, paid, held>>
      /\ checks' = checks \union {c}
  BY <1>0 DEF NotifyDeposit
<1>2. /\ c.swap = s /\ c.user = u /\ ~c.read
      /\ c.purpose = "swap" => Acceptable(s, u)
      /\ c.purpose = "refund" => ~Acceptable(s, u)
  BY <1>0
<1>3. ChecksOnly(s)
  BY <1>1, SamePayments DEF ChecksOnly
<1>4. /\ ~Busy(s, u)
      /\ Acceptable(s, u) => Deciding(s) = {} /\ s \in expiring
  BY DEF NotifyRaces, Overlap
<1>5. Deciding(s)' \subseteq Deciding(s) \union {c}
  BY <1>1 DEF Deciding
<1>6. c \in Deciding(s)' => Acceptable(s, u)
  BY <1>2 DEF Deciding
<1>7. Sole(s)'
  <2>1. \A e, d \in Deciding(s)' : e = d
    BY <1>4, <1>5, <1>6 DEF SwapOK, Sole
  <2>2. ASSUME NEW e \in checks', NEW d \in checks', e.swap = s, d.swap = s, e.user = d.user
        PROVE  e = d
    BY <1>1, <1>2, <1>4, <2>2 DEF SwapOK, Sole, Busy
  <2> QED
    BY <2>1, <2>2 DEF Sole
<1>8. ASSUME NEW d \in checks', d.swap = s
      PROVE  CheckOK(d)'
  <2>1. (\A v : Counted(s, v)' <=> Counted(s, v)) /\ (\A v : Acceptable(s, v)' <=> Acceptable(s, v))
    BY <1>1 DEF Counted, Acceptable
  <2>2. CASE d \in checks
    <3>1. CheckOK(d)
      BY <1>8, <2>2 DEF SwapOK
    <3>2. DecidingOK(d) => DecidingOK(d)'
      BY <1>3, <1>1 DEF ChecksOnly, DecidingOK, Free
    <3> QED
      BY <1>8, <2>1, <3>1, <3>2 DEF CheckOK
  <2>3. CASE d = c
    <3>1. ~Counted(s, u) /\ \A p \in Due : ~(p.swap = s /\ p.from = u)
      BY <1>4 DEF Busy
    <3>2. Acceptable(s, u) => Free(s, u)'
      BY <1>1 DEF Acceptable, Free
    <3>3. Acceptable(s, u) => DecidingOK(c)'
      BY <1>1, <1>2, <1>3, <1>4, <3>1, <3>2 DEF DecidingOK, ChecksOnly
    <3> QED
      BY <1>2, <2>1, <2>3, <3>1, <3>3 DEF CheckOK
  <2> QED
    BY <1>1, <2>2, <2>3
<1>9. \A d \in Deciding(s)' : d \in Deciding(s) \/ Acceptable(s, d.user)
  BY <1>2, <1>5, <1>6
<1> QED
  BY <1>3, <1>7, <1>8, <1>9, ChecksOnlyKeeps

LEMMA ReadRaced ==
    ASSUME SwapInv, NEW c \in checks, ReadBalance(c), SwapOK(c.swap)
    PROVE  SwapOK(c.swap)'
<1> DEFINE s == c.swap
<1>0. PICK e : e = [c EXCEPT !.read = TRUE, !.balance = held[c.swap][c.user]]
  OBVIOUS
<1>1. /\ UNCHANGED <<now, swaps, expiring, pending, paying, paid, held>>
      /\ checks' = (checks \ {c}) \union {e} /\ s \in Known
  BY <1>0 DEF ReadBalance, SwapInv, KnownOK
<1>2. c \in Check
  BY DEF SwapInv, TypeOK
<1>3. /\ e.swap = s /\ e.user = c.user /\ e.purpose = c.purpose
      /\ e.balance = held[c.swap][c.user]
  BY <1>0, <1>2 DEF Check
<1>4. ChecksOnly(s)
  BY <1>1, SamePayments DEF ChecksOnly
<1>5. e.balance \in Nat /\ e.balance = held[e.swap][e.user]
  <2>1. c.user \in Users
    BY <1>2 DEF Check
  <2> QED
    BY <1>1, <1>3, <2>1, HeldTyped
<1>6. CheckOK(c) /\ Sole(s)
  BY DEF SwapOK
<1>7. /\ e \in Deciding(s)' <=> c \in Deciding(s)
      /\ Deciding(s)' \subseteq (Deciding(s) \ {c}) \union {e}
  BY <1>1, <1>3 DEF Deciding
<1>8. Sole(s)'
  <2>1. \A b, d \in Deciding(s)' : b = d
    BY <1>6, <1>7 DEF Sole
  <2>2. ASSUME NEW b \in checks', NEW d \in checks', b.swap = s, d.swap = s, b.user = d.user
        PROVE  b = d
    BY <1>1, <1>3, <1>6, <2>2 DEF Sole
  <2> QED
    BY <2>1, <2>2 DEF Sole
<1>9. ASSUME NEW d \in checks', d.swap = s
      PROVE  CheckOK(d)'
  <2>1. (\A v : Counted(s, v)' <=> Counted(s, v)) /\ (\A v : Acceptable(s, v)' <=> Acceptable(s, v))
    BY <1>1 DEF Counted, Acceptable
  <2>2. CASE d \in checks
    <3>1. CheckOK(d)
      BY <1>9, <2>2 DEF SwapOK
    <3>2. DecidingOK(d) => DecidingOK(d)'
      BY <1>4, <1>1 DEF ChecksOnly, DecidingOK, Free
    <3> QED
      BY <1>9, <2>1, <3>1, <3>2 DEF CheckOK
  <2>3. CASE d = e
    <3>1. DecidingOK(c) => DecidingOK(e)'
      <4>1. e.balance <= held'[e.swap][e.user]
        BY <1>1, <1>5
      <4> QED
        BY <1>1, <1>3, <1>4, <4>1 DEF DecidingOK, Free, ChecksOnly
    <3> QED
      BY <1>3, <1>6, <2>1, <2>3, <3>1 DEF CheckOK
  <2> QED
    BY <1>1, <2>2, <2>3
<1>10. \A d \in Deciding(s)' : d \in Deciding(s) \/ \E b \in Deciding(s) : b.user = d.user
  BY <1>3, <1>7
<1> QED
  BY <1>1, <1>4, <1>8, <1>9, <1>10, ChecksOnlyKeeps

LEMMA ReturnRaced ==
    ASSUME SwapInv, SwapInv', NEW c \in checks, ReturnDeposit(c), SwapOK(c.swap)
    PROVE  SwapOK(c.swap)'
<1> DEFINE s == c.swap
<1>1. /\ UNCHANGED <<now, swaps, expiring, paid, held>>
      /\ checks' = checks \ {c} /\ s \in Known
  BY DEF ReturnDeposit, SwapInv, KnownOK
<1>2. \A p \in Due' : p \notin Due => /\ p.swap = s /\ IsRefund(p) /\ p.from = c.user
                                      /\ c.purpose = "swap" => p.amount < Amount
  BY BalanceRefunded
<1>3. \A p \in Payments' : p \in Payments \/ (p \in Due' /\ p \notin Due)
  BY <1>1 DEF Payments
<1>4. /\ SameSwap(s) /\ (Both(s)' <=> Both(s)) /\ (Over(s)' <=> Over(s))
      /\ \A u : Counted(s, u)' <=> Counted(s, u)
      /\ \A u : Acceptable(s, u)' <=> Acceptable(s, u)
  BY <1>1 DEF SameSwap, Both, Counted, Acceptable, Over
<1>5. CheckOK(c) /\ Sole(s)
  BY DEF SwapOK
<1>6. Deciding(s)' \subseteq Deciding(s)
  BY <1>1 DEF Deciding
<1>7. Sole(s)'
  BY <1>1, <1>5, <1>6 DEF Sole
<1>8. ExchangeOK(s)'
  <2>1. Exchanged(s)' \subseteq Exchanged(s)
    BY <1>2, <1>3 DEF Exchanged, IsRefund
  <2>2. ExchangeOK(s)
    BY DEF SwapOK
  <2> QED
    BY <1>4, <2>1, <2>2 DEF ExchangeOK, SameSwap
<1>9. ASSUME NEW d \in checks', d.swap = s
      PROVE  CheckOK(d)'
  <2>1. CheckOK(d) /\ d.user # c.user
    BY <1>1, <1>5, <1>9 DEF SwapOK, Sole
  <2>2. ASSUME DecidingOK(d) PROVE DecidingOK(d)'
    <3>1. (\A p \in Due : ~(p.swap = d.swap /\ p.from = d.user))'
      BY <1>2, <2>1, <2>2 DEF DecidingOK
    <3> QED
      BY <1>1, <2>2, <3>1 DEF DecidingOK, Free
  <2> QED
    BY <1>4, <1>9, <2>1, <2>2 DEF CheckOK
<1>10. ASSUME NEW p \in Payments', p.swap = s
       PROVE  RefundOK(p)'
  <2>1. CASE p \in Payments
    <3>1. RefundOK(p)
      BY <1>10, <2>1 DEF SwapOK
    <3>2. Gone(s, p.from) => Gone(s, p.from)'
      BY <1>4, <1>6 DEF Gone
    <3> QED
      BY <1>10, <3>1, <3>2 DEF RefundOK, IsRefund
  <2>2. CASE p \notin Payments /\ c.purpose = "swap"
    <3>1. p.amount < Amount
      BY <1>2, <1>3, <2>2
    <3>2. p.amount \in Nat /\ Amount \in Nat
      <4>1. p \in Payment
        BY PaymentsTyped, <1>10 DEF SwapInv, TypeOK, Paying, Payments, Due, Queued
      <4> QED
        BY <4>1, ConstantsAssumption DEF Payment
    <3>3. ~(p.amount >= Amount)
      BY <3>1, <3>2
    <3> QED
      BY <3>3 DEF RefundOK
  <2>3. CASE p \notin Payments /\ c.purpose # "swap"
    <3>1. p.from = c.user /\ c.purpose = "refund"
      BY <1>2, <1>3, <2>3 DEF SwapInv, TypeOK, Check
    <3>2. ~Counted(s, c.user) /\ ~Acceptable(s, c.user)
      BY <1>5, <3>1 DEF CheckOK
    <3>3. \A d \in Deciding(s)' : d.user # c.user
      BY <1>1, <1>5 DEF Deciding, Sole
    <3>4. Gone(s, p.from)'
      BY <1>4, <3>1, <3>2, <3>3 DEF Gone
    <3> QED
      BY <1>10, <3>4 DEF RefundOK
  <2> QED
    BY <2>1, <2>2, <2>3
<1>11. ASSUME NEW u \in Users
       PROVE  DepositOK(s, u)'
  <2> SUFFICES ASSUME Counted(s, u)', ~Over(s)'
               PROVE  /\ (\A p \in Due : p.swap = s /\ p.from = u => ~IsRefund(p))'
                      /\ held'[s][u] >= Required \/ PaidBy(s, u)'
    BY DEF DepositOK, Required
  <2>1. Counted(s, u) /\ ~Over(s) /\ u # c.user
    BY <1>4, <1>5 DEF CheckOK
  <2>2. /\ \A p \in Due : p.swap = s /\ p.from = u => ~IsRefund(p)
        /\ held[s][u] >= Required \/ PaidBy(s, u)
    BY <2>1 DEF SwapOK, DepositOK
  <2>3. PaidBy(s, u)' <=> PaidBy(s, u)
    BY <1>1 DEF PaidBy, IsRefund
  <2>4. (\A p \in Due : p.swap = s /\ p.from = u => ~IsRefund(p))'
    BY <1>2, <2>1, <2>2 DEF IsRefund
  <2> QED
    BY <1>1, <2>2, <2>3, <2>4
<1> QED
  BY <1>7, <1>8, <1>9, <1>10, <1>11 DEF SwapOK

\* Who is counted when a deposit is taken
LEMMA TakenFacts ==
    ASSUME SwapInv, NEW c \in checks, TakeDeposit(c), SwapOK(c.swap),
           swaps[c.swap].acceptedBy # swaps[c.swap].offeredBy
    PROVE  LET s == c.swap
           IN  /\ DecidingOK(c) /\ Sole(s) /\ ~Both(s)
               /\ ~Over(s) /\ ~Over(s)' /\ Deciding(s)' = {}
               /\ swaps'[s].acceptedBy # swaps'[s].offeredBy
               /\ ~swaps'[s].cancelled
               /\ \A u : Counted(s, u)' <=> (Counted(s, u) \/ u = c.user)
               /\ \A u : u # c.user /\ Acceptable(s, u)' => Acceptable(s, u)
<1> DEFINE s == c.swap
           w == swaps'[s]
<1>1. /\ s \in Known /\ c.user \in Users /\ c.purpose = "swap"
      /\ w.offeredBy = swaps[s].offeredBy
      /\ w.expiresAt = swaps[s].expiresAt /\ w.cancelled = swaps[s].cancelled
      /\ w.received0 = (swaps[s].received0 \/ c.user = swaps[s].offeredBy)
      /\ w.received1 = (swaps[s].received1 \/ c.user # swaps[s].offeredBy)
      /\ w.acceptedBy = IF c.user = swaps[s].offeredBy
                        THEN swaps[s].acceptedBy ELSE c.user
  BY Taken
<1>2. checks' = checks \ {c} /\ now' = now /\ expiring' = expiring
  BY DEF TakeDeposit
<1>3. DecidingOK(c) /\ Sole(s)
  BY <1>1 DEF SwapOK, CheckOK
<1>4. Deciding(s)' = {}
  BY <1>1, <1>2, <1>3 DEF Deciding, Sole
<1>5. /\ ~swaps[s].cancelled /\ s \in expiring
      /\ c.user = swaps[s].offeredBy => ~swaps[s].received0
      /\ c.user # swaps[s].offeredBy => swaps[s].acceptedBy = NoOne /\ ~swaps[s].received1
  BY <1>1, <1>3, SwapFields DEF DecidingOK, Free
<1>6. ~Both(s) /\ ~Over(s) /\ ~Over(s)'
  BY <1>1, <1>2, <1>5 DEF Both, Over
<1>7. w.acceptedBy # w.offeredBy
  BY <1>1
<1>8. \A u : Counted(s, u)' <=> (Counted(s, u) \/ u = c.user)
  BY <1>1, <1>5 DEF Counted
<1>9. ASSUME NEW u, u # c.user, Acceptable(s, u)'
      PROVE  Acceptable(s, u)
  <2>1. w.restrictedTo = swaps[s].restrictedTo
    BY Taken
  <2>2. NoOne \notin Users
    BY ConstantsAssumption
  <2> QED
    BY <1>1, <1>2, <1>5, <1>9, <2>1, <2>2 DEF Acceptable
<1> QED
  BY <1>1, <1>3, <1>4, <1>5, <1>6, <1>7, <1>8, <1>9

LEMMA TakeRaced ==
    ASSUME SwapInv, SwapInv', NEW c \in checks, TakeDeposit(c), SwapOK(c.swap),
           swaps[c.swap].acceptedBy # swaps[c.swap].offeredBy
    PROVE  SwapOK(c.swap)'
<1> DEFINE s == c.swap
<1>1. /\ UNCHANGED <<now, expiring, paid, held>>
      /\ checks' = checks \ {c} /\ s \in Known
      /\ c.read /\ c.purpose = "swap" /\ c.balance >= Required /\ c.user \in Users
      /\ c.balance \in Nat
  BY DEF TakeDeposit, SwapInv, KnownOK, TypeOK, Check
<1>2. /\ DecidingOK(c) /\ Sole(s) /\ ~Both(s)
      /\ ~Over(s) /\ ~Over(s)' /\ Deciding(s)' = {}
      /\ swaps'[s].acceptedBy # swaps'[s].offeredBy
      /\ ~swaps'[s].cancelled
      /\ \A u : Counted(s, u)' <=> (Counted(s, u) \/ u = c.user)
      /\ \A u : u # c.user /\ Acceptable(s, u)' => Acceptable(s, u)
  BY TakenFacts
<1>3. ASSUME NEW p \in Due', p \notin Due
      PROVE  LET w == swaps'[s]
             IN  /\ p.swap = s
                 /\ \/ p = Owed(s, w.acceptedBy, w.offeredBy, Amount)
                    \/ p = Owed(s, w.offeredBy, w.acceptedBy, Amount)
                 /\ ~IsRefund(p) /\ {p.from, p.to} = {w.offeredBy, w.acceptedBy}
  <2>1. \/ p = Owed(s, swaps'[s].acceptedBy, swaps'[s].offeredBy, Amount)
        \/ p = Owed(s, swaps'[s].offeredBy, swaps'[s].acceptedBy, Amount)
    BY <1>3, ExchangeMade
  <2> QED
    BY <1>2, <2>1 DEF Owed, IsRefund
<1>4. \A p \in Payments' : p \in Payments \/ (p \in Due' /\ p \notin Due)
  BY <1>1 DEF Payments
<1>5. Sole(s)'
  BY <1>1, <1>2 DEF Sole
<1>6. ExchangeOK(s)'
  <2>1. ASSUME NEW p \in Payments, p.swap = s, ~IsRefund(p)
        PROVE  FALSE
    <3>1. PaymentOK(p)
      BY DEF SwapInv
    <3> QED
      BY <1>2, <2>1, <3>1 DEF PaymentOK, Both
  <2>2. Exchanged(s)' \subseteq Due' /\ \A p \in Exchanged(s)' : p \notin Due
    BY <1>4, <2>1 DEF Exchanged, IsRefund, Payments
  <2>3. \A p, q \in Exchanged(s)' : p.from = q.from => p = q
    BY <1>2, <1>3, <2>2 DEF Owed
  <2> QED
    BY <1>2, <1>3, <2>2, <2>3 DEF ExchangeOK
<1>7. ASSUME NEW d \in checks', d.swap = s
      PROVE  CheckOK(d)'
  <2>1. CheckOK(d) /\ d.user # c.user /\ d.purpose # "swap"
    BY <1>1, <1>2, <1>7 DEF SwapOK, Sole, Deciding
  <2> QED
    BY <1>2, <1>7, <2>1 DEF CheckOK
<1>8. ASSUME NEW p \in Payments', p.swap = s
      PROVE  RefundOK(p)'
  <2>1. CASE p \in Payments
    <3>1. RefundOK(p)
      BY <1>8, <2>1 DEF SwapOK
    <3>2. Gone(s, p.from) => Gone(s, p.from)'
      <4>1. c \in Deciding(s)
        BY <1>1 DEF Deciding
      <4> QED
        BY <1>2, <4>1 DEF Gone
    <3> QED
      BY <1>8, <3>1, <3>2 DEF RefundOK, IsRefund
  <2>2. CASE p \notin Payments
    BY <1>3, <1>4, <2>2 DEF RefundOK, IsRefund
  <2> QED
    BY <2>1, <2>2
<1>9. ASSUME NEW u \in Users
      PROVE  DepositOK(s, u)'
  <2> SUFFICES ASSUME Counted(s, u)'
               PROVE  /\ (\A p \in Due : p.swap = s /\ p.from = u => ~IsRefund(p))'
                      /\ held'[s][u] >= Required \/ PaidBy(s, u)'
    BY DEF DepositOK, Required
  <2>1. /\ \A p \in Due : p.swap = s /\ p.from = u => ~IsRefund(p)
        /\ held[s][u] >= Required \/ PaidBy(s, u)
    <3>1. CASE u = c.user
      <4>1. \A p \in Due : p.swap = s => p.from # u
        BY <1>2, <3>1 DEF DecidingOK
      <4>2. c.balance <= held[s][u]
        BY <1>1, <1>2, <3>1 DEF DecidingOK
      <4>3. held[s][u] >= Required
        BY <1>1, <4>2, HeldTyped
      <4> QED
        BY <4>1, <4>3
    <3>2. CASE u # c.user
      BY <1>2, <3>2 DEF SwapOK, DepositOK
    <3> QED
      BY <3>1, <3>2
  <2>2. PaidBy(s, u)' <=> PaidBy(s, u)
    BY <1>1 DEF PaidBy, IsRefund
  <2>3. (\A p \in Due : p.swap = s /\ p.from = u => ~IsRefund(p))'
    BY <1>3, <2>1 DEF IsRefund
  <2> QED
    BY <1>1, <2>1, <2>2, <2>3
<1> QED
  BY <1>5, <1>6, <1>7, <1>8, <1>9 DEF SwapOK

\* A transfer the ledger executes
LEMMA TransferRaced ==
    ASSUME SwapInv, SwapInv', NEW j \in paying, Quiet, LedgerTransfers(j),
           now <= now', now' \in Nat,
           NEW s \in Known, SwapOK(s)
    PROVE  SwapOK(s)'
<1> DEFINE p == j.payment
<1>1. /\ p \in Due /\ p.swap \in Known /\ p.from \in Users /\ p.swap \in SwapIds
      /\ paid' = paid \union {p} /\ UNCHANGED <<now, expiring, checks>>
      /\ SameSwap(s) /\ Due' \subseteq Due /\ Payments' \subseteq Payments
  <2>1. p \in Payments /\ p \in Due
    BY DEF Payments, Due
  <2> QED
    BY <2>1, PaymentsTyped, KnownIds DEF SwapInv, LedgerTransfers, Quiet, SameSwaps
<1>2. \A r \in SwapIds, u \in Users : ~(r = p.swap /\ u = p.from) => held'[r][u] = held[r][u]
  BY <1>1 DEF SwapInv, TypeOK, LedgerTransfers
<1> HIDE DEF p
<1>3. s \in SwapIds /\ s \in Known'
  BY SwapFields DEF Quiet, SameSwaps
<1>4. /\ (Both(s)' <=> Both(s)) /\ (Over(s)' <=> Over(s))
      /\ \A u : Counted(s, u)' <=> Counted(s, u)
      /\ \A u : Acceptable(s, u)' <=> Acceptable(s, u)
      /\ \A u : Free(s, u)' <=> Free(s, u)
      /\ Deciding(s)' = Deciding(s)
  BY <1>1, SameSwapFacts DEF SameSwap, Acceptable, Over, Deciding
<1>5. Sole(s)'
  BY <1>1, <1>4 DEF SwapOK, Sole
<1>6. ExchangeOK(s)'
  <2>1. Exchanged(s)' \subseteq Exchanged(s)
    BY <1>1 DEF Exchanged, IsRefund
  <2>2. ExchangeOK(s)
    BY DEF SwapOK
  <2> QED
    BY <1>1, <1>4, <2>1, <2>2 DEF ExchangeOK, SameSwap
<1>7. ASSUME NEW c \in checks', c.swap = s
      PROVE  CheckOK(c)'
  <2>1. CheckOK(c) /\ c.user \in Users
    BY <1>1, <1>7 DEF SwapOK, SwapInv, TypeOK, Check
  <2>2. ASSUME DecidingOK(c) PROVE DecidingOK(c)'
    <3>1. ~(p.swap = s /\ p.from = c.user)
      BY <1>1, <1>7, <2>2 DEF DecidingOK
    <3>2. held'[s][c.user] = held[s][c.user]
      BY <1>2, <1>3, <2>1, <3>1
    <3> QED
      BY <1>1, <1>4, <1>7, <2>2, <3>2 DEF DecidingOK
  <2> QED
    BY <1>4, <1>7, <2>1, <2>2 DEF CheckOK
<1>8. ASSUME NEW q \in Payments', q.swap = s
      PROVE  RefundOK(q)'
  <2>1. RefundOK(q)
    BY <1>1, <1>8 DEF SwapOK
  <2>2. Gone(s, q.from) => Gone(s, q.from)'
    BY <1>4 DEF Gone
  <2> QED
    BY <1>8, <2>1, <2>2 DEF RefundOK, IsRefund
<1>9. ASSUME NEW u \in Users
      PROVE  DepositOK(s, u)'
  <2> SUFFICES ASSUME Counted(s, u)', ~Over(s)'
               PROVE  /\ (\A q \in Due : q.swap = s /\ q.from = u => ~IsRefund(q))'
                      /\ held'[s][u] >= Required \/ PaidBy(s, u)'
    BY DEF DepositOK, Required
  <2>1. /\ \A q \in Due : q.swap = s /\ q.from = u => ~IsRefund(q)
        /\ held[s][u] >= Required \/ PaidBy(s, u)
    BY <1>4 DEF SwapOK, DepositOK
  <2>2. (\A q \in Due : q.swap = s /\ q.from = u => ~IsRefund(q))'
    BY <1>1, <2>1 DEF IsRefund
  <2>3. PaidBy(s, u) => PaidBy(s, u)'
    BY <1>1 DEF PaidBy, IsRefund
  <2>4. CASE p.swap = s /\ p.from = u
    BY <1>1, <2>1, <2>2, <2>4 DEF PaidBy, IsRefund
  <2>5. CASE ~(p.swap = s /\ p.from = u)
    <3>1. held'[s][u] = held[s][u]
      BY <1>2, <1>3, <2>5
    <3> QED
      BY <2>1, <2>2, <2>3, <3>1
  <2> QED
    BY <2>4, <2>5
<1> QED
  BY <1>5, <1>6, <1>7, <1>8, <1>9 DEF SwapOK

LEMMA QuietRaced ==
    ASSUME SwapInv, SwapInv', Quiet, paid' = paid, HeldKept, now <= now', now' \in Nat,
           NEW s \in Known, SwapOK(s)
    PROVE  SwapOK(s)'
<1>1. s \in SwapIds
  BY SwapFields
<1>2. Untouched(s)
  BY <1>1 DEF Quiet, SameSwaps, HeldKept, Untouched
<1> QED
  BY <1>2, UntouchedKeeps

\* The races are not forgotten.
LEMMA RacedGrows ==
    ASSUME SwapInv, [Next]_vars
    PROVE  raced \subseteq raced'
<1>1. CASE SwapStep
  BY <1>1 DEF SwapStep, CreateSwap, CancelSwap, ExpireSwap, Race
<1>2. CASE DepositStep
  BY <1>2 DEF DepositStep, NotifyDeposit, Deposit, ReadBalance, ReturnDeposit, TakeDeposit,
     CheckFails, Race
<1>3. CASE PaymentStep
  BY <1>3 DEF PaymentStep, MakePayment, LedgerTransfers, LedgerRefuses, PaymentMade,
     PaymentRefused, PaymentFails
<1>4. CASE StatusStep
  BY <1>4 DEF StatusStep, SendStatus, StatusArrives, StatusFails
<1> QED
  BY <1>1, <1>2, <1>3, <1>4 DEF Next, Upgrade, Tick

LEMMA RaceStep ==
    ASSUME SwapInv, RaceInv, [Next]_vars
    PROVE  RaceInv'
<1>1. SwapInv' /\ raced \subseteq raced' /\ now <= now' /\ now' \in Nat
  BY NextSwap, RacedGrows, TimeTyped
<1>2. Known \subseteq SwapIds
  BY KnownIds DEF SwapInv
<1>3. \A c \in checks : c.swap \in Known
  BY DEF SwapInv, KnownOK
<1>4. ASSUME NEW r \in Known, swaps'[r].offeredBy = swaps[r].offeredBy,
             swaps'[r].acceptedBy = swaps[r].acceptedBy
      PROVE  swaps'[r].acceptedBy # swaps'[r].offeredBy
  BY <1>4 DEF RaceInv
<1> DEFINE Goal == /\ \A r \in Known' : swaps'[r].acceptedBy # swaps'[r].offeredBy
                   /\ \A r \in Known' : r \notin raced' => SwapOK(r)'
<1>5. ASSUME NEW s \in Known, Known' = Known, \A r \in Known \ {s} : SameSwap(r),
             swaps'[s].acceptedBy # swaps'[s].offeredBy,
             \A r \in Known \ {s} : Untouched(r),
             s \notin raced' => SwapOK(s)'
      PROVE  Goal
  <2>1. \A r \in Known \ {s} : r \notin raced' => SwapOK(r)'
    BY <1>1, <1>5, UntouchedKeeps DEF RaceInv
  <2>2. \A r \in Known \ {s} : swaps'[r].acceptedBy # swaps'[r].offeredBy
    BY <1>4, <1>5 DEF SameSwap
  <2> QED
    BY <1>5, <2>1, <2>2
<1>6. ASSUME swaps' = swaps
      PROVE  Known' = Known /\ \A r \in Known : SameSwap(r)
  BY <1>6 DEF SameSwap, Known
<1>7. ASSUME Quiet, paid' = paid, HeldKept
      PROVE  Goal
  <2>1. \A r \in Known : r \notin raced => SwapOK(r)'
    BY <1>1, <1>7, QuietRaced DEF RaceInv
  <2> QED
    BY <1>4, <1>7, <2>1 DEF Quiet, SameSwaps, SameSwap
<1>8. ASSUME NEW j \in paying, Quiet, LedgerTransfers(j)
      PROVE  Goal
  <2>1. \A r \in Known : r \notin raced => SwapOK(r)'
    BY <1>1, <1>8, TransferRaced DEF RaceInv
  <2> QED
    BY <1>4, <1>8, <2>1 DEF Quiet, SameSwaps, SameSwap
<1>9. ASSUME NEW o \in Users, NEW a \in Users \union {NoOne},
             NEW l \in Lifetimes, NEW n \in BOOLEAN, CreateSwap(o, a, l, n)
      PROVE  Goal
  <2>1. raced' = raced
    BY <1>9 DEF CreateSwap
  <2>2. \A r \in Known' : r \notin raced' => SwapOK(r)'
    BY <1>1, <1>9, <2>1, CreateRaces DEF RaceInv
  <2>3. \A r \in Known : SameSwap(r)
    BY <1>9, Created
  <2>4. PICK s : Known' = Known \union {s} /\ swaps'[s].offeredBy = o /\ swaps'[s].acceptedBy = NoOne
    BY <1>9, Created
  <2>5. \A r \in Known' : swaps'[r].acceptedBy # swaps'[r].offeredBy
    BY <1>4, <2>3, <2>4, ConstantsAssumption DEF SameSwap
  <2> QED
    BY <2>2, <2>5
<1>10. ASSUME NEW s \in Known, CancelSwap(s)
       PROVE  Goal
  <2>1. /\ Known' = Known /\ \A r \in Known \ {s} : SameSwap(r)
        /\ swaps'[s].offeredBy = swaps[s].offeredBy /\ swaps'[s].acceptedBy = swaps[s].acceptedBy
    BY <1>10, Cancelled
  <2>2. /\ Race(s, Overlap(s)) /\ UNCHANGED <<expiring, checks, paying, paid, held>>
    BY <1>10 DEF CancelSwap
  <2>3. \A p \in Due' : p \in Due \/ p.swap = s
    BY <1>10, RefundsMade
  <2>4. \A r \in Known \ {s} : Untouched(r)
    BY <2>1, <2>2, <2>3, OthersUntouched
  <2>5. ASSUME s \notin raced' PROVE SwapOK(s)'
    <3>1. Deciding(s) = {} /\ s \notin raced
      BY <1>1, <2>2, <2>5 DEF Race, Overlap
    <3> QED
      BY <1>1, <1>10, <3>1, CancelRaces DEF RaceInv
  <2> QED
    BY <1>4, <1>5, <2>1, <2>4, <2>5
<1>11. ASSUME NEW s \in Known, ExpireSwap(s)
       PROVE  Goal
  <2>1. Known' = Known /\ (\A r \in Known : SameSwap(r))
    BY <1>6, <1>11 DEF ExpireSwap
  <2>2. /\ Race(s, Overlap(s)) /\ UNCHANGED <<checks, paying, paid, held>>
        /\ expiring' = expiring \ {s}
    BY <1>11 DEF ExpireSwap
  <2>3. \A p \in Due' : p \in Due \/ p.swap = s
    BY <1>11, RefundsMade
  <2>4. \A r \in Known \ {s} : Untouched(r)
    BY <2>1, <2>2, <2>3, OthersUntouched
  <2>5. ASSUME s \notin raced' PROVE SwapOK(s)'
    <3>1. Deciding(s) = {} /\ s \notin raced
      BY <1>1, <2>2, <2>5 DEF Race, Overlap
    <3> QED
      BY <1>1, <1>11, <3>1, ExpireRaces DEF RaceInv
  <2> QED
    BY <1>4, <1>5, <2>1, <2>4, <2>5 DEF SameSwap
<1>12. ASSUME NEW s \in Known, NEW u \in Users, NotifyDeposit(s, u)
       PROVE  Goal
  <2>1. Known' = Known /\ (\A r \in Known : SameSwap(r))
    BY <1>6, <1>12 DEF NotifyDeposit
  <2>2. /\ Race(s, NotifyRaces(s, u))
        /\ UNCHANGED <<expiring, pending, paying, paid, held>>
        /\ \A c \in checks' : c \in checks \/ c.swap = s
    BY <1>12 DEF NotifyDeposit
  <2>3. Due' = Due
    BY <2>2, SamePayments
  <2>4. \A r \in Known \ {s} : Untouched(r)
    BY <2>1, <2>2, <2>3, OthersUntouched
  <2>5. ASSUME s \notin raced' PROVE SwapOK(s)'
    <3>1. NotifyRaces(s, u) = {} /\ s \notin raced
      BY <1>1, <2>2, <2>5 DEF Race
    <3> QED
      BY <1>12, <3>1, NotifyRaced DEF RaceInv
  <2> QED
    BY <1>4, <1>5, <2>1, <2>4, <2>5 DEF SameSwap
<1>13. ASSUME NEW c \in checks, ReadBalance(c) \/ ReturnDeposit(c)
       PROVE  Goal
  <2>1. swaps' = swaps /\ UNCHANGED <<expiring, raced, paid, held>>
    BY <1>13 DEF ReadBalance, ReturnDeposit
  <2>2. Known' = Known /\ (\A r \in Known : SameSwap(r))
    BY <1>6, <2>1
  <2>3. \A d \in checks' : d \in checks \/ d.swap = c.swap
    <3>1. CASE ReadBalance(c)
      <4>1. c \in Check
        BY DEF SwapInv, TypeOK
      <4>2. PICK e : e = [c EXCEPT !.read = TRUE, !.balance = held[c.swap][c.user]]
        OBVIOUS
      <4>3. checks' = (checks \ {c}) \union {e} /\ e.swap = c.swap
        BY <3>1, <4>1, <4>2 DEF ReadBalance, Check
      <4> QED
        BY <4>3
    <3>2. CASE ReturnDeposit(c)
      BY <3>2 DEF ReturnDeposit
    <3> QED
      BY <1>13, <3>1, <3>2
  <2>4. \A p \in Due' : p \in Due \/ p.swap = c.swap
    <3>1. CASE ReadBalance(c)
      BY <3>1, SamePayments DEF ReadBalance
    <3>2. CASE ReturnDeposit(c)
      BY <3>2, BalanceRefunded
    <3> QED
      BY <1>13, <3>1, <3>2
  <2>5. \A r \in Known \ {c.swap} : Untouched(r)
    BY <2>1, <2>2, <2>3, <2>4, OthersUntouched
  <2>6. ASSUME c.swap \notin raced' PROVE SwapOK(c.swap)'
    BY <1>1, <1>3, <1>13, <2>1, <2>6, ReadRaced, ReturnRaced DEF RaceInv
  <2> QED
    BY <1>3, <1>4, <1>5, <2>2, <2>5, <2>6 DEF SameSwap
<1>14. ASSUME NEW c \in checks, TakeDeposit(c)
       PROVE  Goal
  <2>1. UNCHANGED <<expiring, raced, paid, held>> /\ checks' \subseteq checks
    BY <1>14 DEF TakeDeposit
  <2>2. /\ Known' = Known /\ (\A r \in Known \ {c.swap} : SameSwap(r)) /\ c.swap \in Known
        /\ swaps'[c.swap].acceptedBy # swaps'[c.swap].offeredBy
    BY <1>14, Taken DEF RaceInv
  <2>3. \A p \in Due' : p \in Due \/ p.swap = c.swap
    BY <1>14, ExchangeMade DEF Owed
  <2>4. \A r \in Known \ {c.swap} : Untouched(r)
    BY <2>1, <2>2, <2>3, OthersUntouched
  <2>5. ASSUME c.swap \notin raced' PROVE SwapOK(c.swap)'
    BY <1>1, <1>14, <2>1, <2>2, <2>5, TakeRaced DEF RaceInv
  <2> QED
    BY <1>5, <2>2, <2>4, <2>5
<1>15. Goal
  BY <1>7, <1>8, <1>9, <1>10, <1>11, <1>12, <1>13, <1>14, QuietSteps
<1> QED
  BY <1>15 DEF RaceInv

LEMMA InitRaced == ASSUME Init PROVE RaceInv
BY DEF Init, RaceInv, Known

\* The second inductive invariant: as long as no race happened to a swap, what
\* notify_deposit found acceptable stays so until the balance is there, a deposit
\* that counts is there until it is exchanged or the swap has ended, and a whole
\* deposit goes back only when it can no longer be exchanged.
THEOREM RaceInvariant == Spec => [](SwapInv /\ RaceInv)
<1>1. Init => SwapInv /\ RaceInv
  BY InitSwap, InitRaced
<1>2. SwapInv /\ RaceInv /\ [Next]_vars => SwapInv' /\ RaceInv'
  BY NextSwap, RaceStep
<1> QED
  BY <1>1, <1>2, PTL DEF Spec

LEMMA ExchangedFacts ==
    ASSUME SwapInv, RaceInv, NEW s \in Known \ raced, NEW p \in Exchanged(s)
    PROVE  /\ SwapOK(s) /\ Both(s) /\ ~swaps[s].cancelled /\ ~Over(s)
           /\ Counted(s, p.from) /\ p.from \in Users /\ p.amount = Amount
<1>1. p \in Payments /\ p.swap = s /\ PaymentOK(p) /\ p.from \in Users
  BY PaymentsTyped DEF Exchanged, SwapInv
<1>2. SwapOK(s) /\ Both(s) /\ p.amount = Amount
  BY <1>1 DEF Exchanged, PaymentOK, RaceInv, Both
<1>3. ~swaps[s].cancelled /\ ~Over(s)
  BY <1>2 DEF SwapOK, ExchangeOK, Over
<1>4. Counted(s, p.from)
  <2>1. {p.from, p.to} = {swaps[s].offeredBy, swaps[s].acceptedBy}
    BY <1>2 DEF SwapOK, ExchangeOK
  <2> QED
    BY <1>2, <2>1 DEF Counted, Both
<1> QED
  BY <1>1, <1>2, <1>3, <1>4

LEMMA ExchangeCovered ==
    ASSUME SwapInv, RaceInv, NEW s \in Known \ raced, NEW p \in Exchanged(s), p \notin paid
    PROVE  held[s][p.from] >= p.amount + Fee
<1>1. /\ SwapOK(s) /\ ~Over(s) /\ Counted(s, p.from) /\ p.from \in Users /\ p.amount = Amount
  BY ExchangedFacts
<1>2. held[s][p.from] >= Required \/ PaidBy(s, p.from)
  BY <1>1 DEF SwapOK, DepositOK
<1>3. ~PaidBy(s, p.from)
  <2> SUFFICES ASSUME NEW q \in paid, q.swap = s, ~IsRefund(q), q.from = p.from
               PROVE  FALSE
    BY DEF PaidBy
  <2>1. q \in Exchanged(s)
    BY DEF Exchanged, Payments
  <2>2. p = q
    BY <1>1, <2>1 DEF SwapOK, ExchangeOK
  <2> QED
    BY <2>2
<1> QED
  BY <1>1, <1>2, <1>3 DEF Required

\* Unless a race happens to a swap it goes one way: what is exchanged is between
\* the offerer and one accepter, once each, neither deposit goes back too, and
\* what is still to be paid is there.
THEOREM ExchangeIsWhole == Spec => []ExchangedWhole
<1>1. SwapInv /\ RaceInv => ExchangedWhole
  <2> SUFFICES ASSUME SwapInv, RaceInv, NEW s \in Known \ raced, Exchanged(s) # {}
               PROVE  /\ ExchangeOK(s) /\ ~swaps[s].cancelled
                      /\ \A p \in Payments :
                            p.swap = s /\ IsRefund(p) /\ p.amount >= Amount => ~Counted(s, p.from)
                      /\ \A p \in Exchanged(s) \ paid : held[s][p.from] >= p.amount + Fee
    BY DEF ExchangedWhole, ExchangeOK
  <2>1. SwapOK(s) /\ ~swaps[s].cancelled /\ ~Over(s)
    BY ExchangedFacts
  <2>2. \A p \in Exchanged(s) \ paid : held[s][p.from] >= p.amount + Fee
    BY ExchangeCovered
  <2> QED
    BY <2>1, <2>2 DEF SwapOK, RefundOK, Gone
<1> QED
  BY <1>1, RaceInvariant, PTL

-----------------------------------------------------------------------------
(* The atomic swap *)

PhaseKept(s) == Phase(s)' = Phase(s)
TokensKept(s) == PaidTokens(s)' = PaidTokens(s) /\ ReturnedTokens(s)' = ReturnedTokens(s)
Kept(s) == PhaseKept(s) /\ TokensKept(s)

LEMMA AtomicStutters ==
    ASSUME \A s \in SwapIds : Kept(s)
    PROVE  [Atomic!Next]_Atomic!vars
BY DEF Kept, PhaseKept, TokensKept, Atomic!vars

LEMMA AtomicCloses ==
    ASSUME NEW s \in SwapIds, Phase(s) = "open", Phase(s)' \in {"agreed", "ended"},
           TokensKept(s), \A r \in SwapIds \ {s} : Kept(r)
    PROVE  [Atomic!Next]_Atomic!vars
<1> DEFINE ph == [r \in SwapIds |-> Phase(r)]
           pd == [r \in SwapIds |-> PaidTokens(r)]
           rd == [r \in SwapIds |-> ReturnedTokens(r)]
<1>1. pd' = pd /\ rd' = rd
  BY DEF Kept, TokensKept
<1>2. ASSUME NEW f, Phase(s)' = f
      PROVE  Atomic!Close(s, f)
  <2>1. ph' = [ph EXCEPT ![s] = f]
    BY <1>2 DEF Kept, PhaseKept
  <2> QED
    BY <1>1, <2>1 DEF Atomic!Close
<1> QED
  BY <1>2 DEF Atomic!Next, Atomic!Agree, Atomic!End

LEMMA AtomicRaces ==
    ASSUME NEW s \in SwapIds, Phase(s) # "raced", Phase(s)' = "raced",
           \A r \in SwapIds \ {s} : Kept(r)
    PROVE  [Atomic!Next]_Atomic!vars
<1> DEFINE ph == [r \in SwapIds |-> Phase(r)]
           pd == [r \in SwapIds |-> PaidTokens(r)]
           rd == [r \in SwapIds |-> ReturnedTokens(r)]
<1>1. PaidTokens(s)' = {} /\ ReturnedTokens(s)' = {}
  BY DEF Phase, PaidTokens, ReturnedTokens
<1>2. ph' = [ph EXCEPT ![s] = "raced"]
  BY DEF Kept, PhaseKept
<1>3. pd' = [pd EXCEPT ![s] = {}] /\ rd' = [rd EXCEPT ![s] = {}]
  BY <1>1 DEF Kept, TokensKept
<1>4. Atomic!Race(s)
  BY <1>2, <1>3 DEF Atomic!Race
<1> QED
  BY <1>4 DEF Atomic!Next

LEMMA AtomicPays ==
    ASSUME \A r \in SwapIds : PhaseKept(r), NEW s \in SwapIds, NEW t \in {"token0", "token1"},
           Phase(s) = "agreed", ReturnedTokens(s)' = ReturnedTokens(s),
           \A r \in SwapIds \ {s} : TokensKept(r),
           PaidTokens(s)' = PaidTokens(s) \union {t}
    PROVE  [Atomic!Next]_Atomic!vars
<1>1. CASE t \in PaidTokens(s)
  <2>1. PaidTokens(s)' = PaidTokens(s)
    BY <1>1
  <2> QED
    BY <2>1, AtomicStutters DEF Kept, TokensKept
<1>2. CASE t \notin PaidTokens(s)
  <2> DEFINE ph == [r \in SwapIds |-> Phase(r)]
             pd == [r \in SwapIds |-> PaidTokens(r)]
             rd == [r \in SwapIds |-> ReturnedTokens(r)]
  <2>1. pd' = [pd EXCEPT ![s] = pd[s] \union {t}]
    BY DEF TokensKept
  <2>2. ph' = ph /\ rd' = rd
    BY DEF PhaseKept, TokensKept
  <2>3. Atomic!Pay(s, t)
    BY <1>2, <2>1, <2>2 DEF Atomic!Pay
  <2> QED
    BY <2>3 DEF Atomic!Next, Atomic!Token
<1> QED
  BY <1>1, <1>2

LEMMA AtomicReturns ==
    ASSUME \A r \in SwapIds : PhaseKept(r), NEW s \in SwapIds, NEW t \in {"token0", "token1"},
           Phase(s) = "ended", PaidTokens(s)' = PaidTokens(s),
           \A r \in SwapIds \ {s} : TokensKept(r),
           ReturnedTokens(s)' = ReturnedTokens(s) \union {t}
    PROVE  [Atomic!Next]_Atomic!vars
<1>1. CASE t \in ReturnedTokens(s)
  <2>1. ReturnedTokens(s)' = ReturnedTokens(s)
    BY <1>1
  <2> QED
    BY <2>1, AtomicStutters DEF Kept, TokensKept
<1>2. CASE t \notin ReturnedTokens(s)
  <2> DEFINE ph == [r \in SwapIds |-> Phase(r)]
             pd == [r \in SwapIds |-> PaidTokens(r)]
             rd == [r \in SwapIds |-> ReturnedTokens(r)]
  <2>1. rd' = [rd EXCEPT ![s] = rd[s] \union {t}]
    BY DEF TokensKept
  <2>2. ph' = ph /\ pd' = pd
    BY DEF PhaseKept, TokensKept
  <2>3. Atomic!Return(s, t)
    BY <1>2, <2>1, <2>2 DEF Atomic!Return
  <2> QED
    BY <2>3 DEF Atomic!Next, Atomic!Token
<1> QED
  BY <1>1, <1>2

\* The whole deposits that went back from a swap
Whole(s) == {p \in paid : p.swap = s /\ IsRefund(p) /\ p.amount >= Amount /\ Counted(s, p.from)}
Swapped(s) == {p \in paid : p.swap = s /\ ~IsRefund(p)}

\* A step that neither pays nor disturbs the deposits that were returned
LEMMA UnpaidTokens ==
    ASSUME SwapInv, paid' = paid, NEW s, s \in Known => s \in Known',
           s \in Known => swaps'[s].offeredBy = swaps[s].offeredBy,
           s \in Known => (s \in raced' <=> s \in raced),
           s \in Known => \A p \in paid : p.swap = s /\ IsRefund(p) /\ p.amount >= Amount
                                => (Counted(s, p.from)' <=> Counted(s, p.from))
    PROVE  TokensKept(s)
<1>1. \A p \in paid : p.swap \in Known
  BY DEF SwapInv, KnownOK, Payments
<1>2. Swapped(s)' = Swapped(s)
  BY DEF Swapped, IsRefund
<1>3. s \notin Known => Swapped(s) = {} /\ Swapped(s)' = {} /\ Whole(s)' = {}
  BY <1>1 DEF Swapped, Whole, IsRefund
<1>4. s \in Known => Whole(s)' = Whole(s)
  BY DEF Whole, IsRefund
<1>5. /\ PaidTokens(s) = IF s \notin Known \ raced THEN {} ELSE Tokens(s, Swapped(s))
      /\ ReturnedTokens(s) = IF s \notin Known \ raced THEN {} ELSE Tokens(s, Whole(s))
      /\ PaidTokens(s)' = IF s \notin Known' \ raced' THEN {} ELSE Tokens(s, Swapped(s))'
      /\ ReturnedTokens(s)' = IF s \notin Known' \ raced' THEN {} ELSE Tokens(s, Whole(s))'
  BY DEF PaidTokens, ReturnedTokens, Swapped, Whole
<1>6. CASE s \in Known
  <2>1. Tokens(s, Swapped(s))' = Tokens(s, Swapped(s)) /\ Tokens(s, Whole(s))' = Tokens(s, Whole(s))
    BY <1>2, <1>4, <1>6 DEF Tokens
  <2> QED
    BY <1>5, <1>6, <2>1 DEF TokensKept
<1>7. CASE s \notin Known
  <2>1. Tokens(s, Swapped(s))' = {} /\ Tokens(s, Whole(s))' = {}
    BY <1>3, <1>7 DEF Tokens
  <2> QED
    BY <1>5, <1>7, <2>1 DEF TokensKept
<1> QED
  BY <1>6, <1>7

\* A swap that does not change
LEMMA SameKept ==
    ASSUME SwapInv, paid' = paid, NEW s, s \in Known' <=> s \in Known,
           s \in Known => SameSwap(s) /\ (s \in expiring' <=> s \in expiring)
                          /\ (s \in raced' <=> s \in raced)
    PROVE  Kept(s)
<1>1. TokensKept(s)
  <2>1. s \in Known => \A p \in paid : Counted(s, p.from)' <=> Counted(s, p.from)
    BY SameSwapFacts
  <2> QED
    BY <2>1, UnpaidTokens DEF SameSwap
<1>2. PhaseKept(s)
  BY SameSwapFacts DEF PhaseKept, Phase, SameSwap
<1> QED
  BY <1>1, <1>2 DEF Kept

\* A step of one swap
LEMMA OneSwap ==
    ASSUME SwapInv, NEW s \in Known, paid' = paid, Known' = Known,
           raced' \in {raced, raced \union {s}},
           \A r \in Known \ {s} : SameSwap(r) /\ (r \in expiring' <=> r \in expiring),
           s \notin raced' => /\ TokensKept(s)
                              /\ \/ PhaseKept(s)
                                 \/ Phase(s) = "open" /\ Phase(s)' \in {"agreed", "ended"}
    PROVE  [Atomic!Next]_Atomic!vars
<1>1. s \in SwapIds
  BY KnownIds DEF SwapInv
<1>2. ASSUME NEW r \in SwapIds \ {s} PROVE Kept(r)
  BY SameKept
<1>3. CASE s \in raced'
  <2>1. Phase(s)' = "raced" /\ PaidTokens(s)' = {} /\ ReturnedTokens(s)' = {}
    BY <1>3 DEF Phase, PaidTokens, ReturnedTokens
  <2>2. CASE s \in raced
    <3>1. Kept(s)
      BY <2>1, <2>2 DEF Kept, PhaseKept, TokensKept, Phase, PaidTokens, ReturnedTokens
    <3> QED
      BY <1>2, <3>1, AtomicStutters
  <2>3. CASE s \notin raced
    <3>1. Phase(s) # "raced"
      BY <2>3 DEF Phase
    <3> QED
      BY <1>1, <1>2, <2>1, <3>1, AtomicRaces
  <2> QED
    BY <2>2, <2>3
<1>4. CASE s \notin raced' /\ PhaseKept(s)
  BY <1>2, <1>4, AtomicStutters DEF Kept
<1>5. CASE s \notin raced' /\ Phase(s) = "open" /\ Phase(s)' \in {"agreed", "ended"}
  BY <1>1, <1>2, <1>5, AtomicCloses
<1> QED
  BY <1>3, <1>4, <1>5

\* A transfer the ledger executes
LEMMA TransferImplements ==
    ASSUME SwapInv, RaceInv, Quiet, NEW j \in paying, LedgerTransfers(j)
    PROVE  [Atomic!Next]_Atomic!vars
<1> DEFINE p == j.payment
           s == p.swap
           t == IF p.from = swaps[s].offeredBy THEN "token0" ELSE "token1"
<1>1. /\ p \in Payments /\ s \in Known /\ s \in SwapIds /\ paid' = paid \union {p}
      /\ PaymentOK(p) /\ t \in {"token0", "token1"}
  BY KnownIds DEF LedgerTransfers, SwapInv, KnownOK, Payments, Due
<1>2. s \notin raced => RefundOK(p)
  BY <1>1 DEF RaceInv, SwapOK
<1>3. \A P : Tokens(s, P \union {p}) = Tokens(s, P) \union {t}
  BY DEF Tokens
<1> HIDE DEF p, s, t
<1>4. /\ SameSwaps /\ expiring' = expiring /\ raced' = raced /\ Known' = Known
      /\ s = p.swap
  BY DEF Quiet, SameSwaps, s
<1>5. ASSUME NEW r \in SwapIds
      PROVE  PhaseKept(r)
  BY <1>4, SameSwapFacts DEF PhaseKept, Phase, SameSwaps, SameSwap
<1>6. ASSUME NEW r \in Known
      PROVE  /\ Swapped(r)' = IF r = s /\ ~IsRefund(p) THEN Swapped(r) \union {p} ELSE Swapped(r)
             /\ Whole(r)' = IF r = s /\ IsRefund(p) /\ p.amount >= Amount /\ Counted(r, p.from)
                            THEN Whole(r) \union {p} ELSE Whole(r)
  <2>1. \A u : Counted(r, u)' <=> Counted(r, u)
    BY <1>4, SameSwapFacts DEF SameSwaps
  <2>2. Swapped(r)' = {q \in paid' : q.swap = r /\ ~IsRefund(q)}
    BY DEF Swapped, IsRefund
  <2>3. Whole(r)' = {q \in paid' : q.swap = r /\ IsRefund(q) /\ q.amount >= Amount
                                   /\ Counted(r, q.from)}
    BY <2>1 DEF Whole, IsRefund
  <2> QED
    BY <1>1, <1>4, <2>2, <2>3 DEF Swapped, Whole
<1>7. ASSUME NEW r \in Known, r \notin raced
      PROVE  /\ PaidTokens(r) = Tokens(r, Swapped(r)) /\ PaidTokens(r)' = Tokens(r, Swapped(r)')
             /\ ReturnedTokens(r) = Tokens(r, Whole(r)) /\ ReturnedTokens(r)' = Tokens(r, Whole(r)')
  <2>1. r \in Known' \ raced' /\ swaps'[r].offeredBy = swaps[r].offeredBy
    BY <1>4, <1>7 DEF SameSwaps, SameSwap
  <2>2. PaidTokens(r) = Tokens(r, Swapped(r)) /\ ReturnedTokens(r) = Tokens(r, Whole(r))
    BY <1>7 DEF PaidTokens, ReturnedTokens, Swapped, Whole
  <2>3. PaidTokens(r)' = Tokens(r, Swapped(r))' /\ ReturnedTokens(r)' = Tokens(r, Whole(r))'
    BY <2>1 DEF PaidTokens, ReturnedTokens, Swapped, Whole
  <2>4. \A P : Tokens(r, P)' = Tokens(r, P)
    BY <2>1 DEF Tokens
  <2>5. Tokens(r, Swapped(r))' = Tokens(r, Swapped(r)') /\ Tokens(r, Whole(r))' = Tokens(r, Whole(r)')
    BY <2>1 DEF Tokens
  <2> QED
    BY <2>2, <2>3, <2>5
<1>8. ASSUME NEW r \in SwapIds, r \notin Known \/ r \in raced
      PROVE  TokensKept(r)
  BY <1>4, <1>8 DEF PaidTokens, ReturnedTokens, TokensKept
<1>9. ASSUME NEW r \in SwapIds, r # s
      PROVE  TokensKept(r)
  <2>1. CASE r \in Known /\ r \notin raced
    <3>1. Swapped(r)' = Swapped(r) /\ Whole(r)' = Whole(r)
      BY <1>6, <1>9, <2>1
    <3> QED
      BY <1>7, <2>1, <3>1 DEF TokensKept
  <2> QED
    BY <1>8, <2>1
<1>10. CASE s \in raced
  BY <1>1, <1>5, <1>8, <1>9, <1>10, AtomicStutters DEF Kept
<1>11. CASE s \notin raced /\ ~IsRefund(p)
  <2>1. Swapped(s)' = Swapped(s) \union {p} /\ Whole(s)' = Whole(s)
    BY <1>1, <1>6, <1>11
  <2>2. PaidTokens(s)' = PaidTokens(s) \union {t} /\ ReturnedTokens(s)' = ReturnedTokens(s)
    BY <1>1, <1>3, <1>7, <1>11, <2>1
  <2>3. Phase(s) = "agreed"
    BY <1>1, <1>4, <1>11 DEF PaymentOK, Phase, Both
  <2> QED
    BY <1>1, <1>5, <1>9, <2>2, <2>3, AtomicPays
<1>12. CASE s \notin raced /\ IsRefund(p) /\ p.amount >= Amount /\ Counted(s, p.from)
  <2>1. Swapped(s)' = Swapped(s) /\ Whole(s)' = Whole(s) \union {p}
    BY <1>1, <1>6, <1>12
  <2>2. PaidTokens(s)' = PaidTokens(s) /\ ReturnedTokens(s)' = ReturnedTokens(s) \union {t}
    BY <1>1, <1>3, <1>7, <1>12, <2>1
  <2>3. Phase(s) = "ended"
    BY <1>1, <1>2, <1>4, <1>12 DEF RefundOK, Gone, Over, Phase
  <2> QED
    BY <1>1, <1>5, <1>9, <2>2, <2>3, AtomicReturns
<1>13. CASE s \notin raced /\ IsRefund(p) /\ ~(p.amount >= Amount /\ Counted(s, p.from))
  <2>1. Swapped(s)' = Swapped(s) /\ Whole(s)' = Whole(s)
    BY <1>1, <1>6, <1>13
  <2>2. TokensKept(s)
    BY <1>1, <1>7, <1>13, <2>1 DEF TokensKept
  <2> QED
    BY <1>5, <1>9, <2>2, AtomicStutters DEF Kept
<1> QED
  BY <1>10, <1>11, <1>12, <1>13

LEMMA StepImplements ==
    ASSUME SwapInv, RaceInv, [Next]_vars
    PROVE  [Atomic!Next]_Atomic!vars
<1>1. ASSUME swaps' = swaps
      PROVE  Known' = Known /\ \A r \in Known : SameSwap(r)
  BY <1>1 DEF SameSwap, Known
<1>2. CASE Quiet /\ paid' = paid
  <2>1. \A r \in SwapIds : Kept(r)
    BY <1>2, SameKept DEF Quiet, SameSwaps
  <2> QED
    BY <2>1, AtomicStutters
<1>3. ASSUME NEW j \in paying, Quiet, LedgerTransfers(j)
      PROVE  [Atomic!Next]_Atomic!vars
  BY <1>3, TransferImplements
<1>4. ASSUME NEW o \in Users, NEW a \in Users \union {NoOne},
             NEW l \in Lifetimes, NEW n \in BOOLEAN, CreateSwap(o, a, l, n)
      PROVE  [Atomic!Next]_Atomic!vars
  <2>1. UNCHANGED <<paid, raced>> /\ \A r \in Known : SameSwap(r)
    BY <1>4, Created DEF CreateSwap
  <2>2. PICK s : /\ s \notin Known /\ Known' = Known \union {s}
                 /\ expiring' = expiring \union {s} /\ ~swaps'[s].cancelled
                 /\ ~swaps'[s].received0 /\ ~swaps'[s].received1
    BY <1>4, Created
  <2>3. ASSUME NEW r \in SwapIds \ {s} PROVE Kept(r)
    BY <2>1, <2>2, SameKept
  <2>4. s \in SwapIds
    <3>1. SwapInv'
      BY NextSwap
    <3>2. TypeOK'
      BY <3>1 DEF SwapInv
    <3>3. Known' \subseteq SwapIds
      <4>1. Known' = 1..Len(swaps') /\ Len(swaps') \in Nat /\ Len(swaps') <= MaxSwaps
        BY <3>2, LenProperties DEF TypeOK, Known
      <4> QED
        BY <4>1, ConstantsAssumption DEF SwapIds
    <3> QED
      BY <2>2, <3>3
  <2>5. Phase(s) = "open" /\ (s \in raced => Phase(s)' = "raced") /\ (s \notin raced => Phase(s)' = "open")
    BY <2>1, <2>2 DEF Phase, Both
  <2>6. s \notin raced => Kept(s)
    <3>1. PaidTokens(s) = {} /\ ReturnedTokens(s) = {}
      BY <2>2 DEF PaidTokens, ReturnedTokens
    <3>2. \A p \in paid : p.swap # s
      BY <2>2 DEF SwapInv, KnownOK, Payments
    <3>3. PaidTokens(s)' = {} /\ ReturnedTokens(s)' = {}
      BY <2>1, <3>2 DEF PaidTokens, ReturnedTokens, Tokens
    <3> QED
      BY <2>5, <3>1, <3>3 DEF Kept, PhaseKept, TokensKept
  <2>7. CASE s \notin raced
    BY <2>3, <2>6, <2>7, AtomicStutters
  <2>8. CASE s \in raced
    <3>1. Phase(s) # "raced" /\ Phase(s)' = "raced"
      BY <2>5, <2>8
    <3> QED
      BY <2>3, <2>4, <3>1, AtomicRaces
  <2> QED
    BY <2>7, <2>8
<1>5. ASSUME NEW s \in Known, CancelSwap(s) \/ ExpireSwap(s)
      PROVE  [Atomic!Next]_Atomic!vars
  <2>1. /\ paid' = paid /\ Known' = Known /\ \A r \in Known \ {s} : SameSwap(r)
        /\ expiring' \in {expiring, expiring \ {s}}
        /\ swaps'[s].offeredBy = swaps[s].offeredBy
        /\ Both(s)' <=> Both(s)
        /\ \A u : Counted(s, u)' <=> Counted(s, u)
        /\ swaps'[s].cancelled \/ s \notin expiring'
        /\ Race(s, Overlap(s))
    <3>1. CASE CancelSwap(s)
      <4>1. paid' = paid /\ expiring' = expiring /\ Race(s, Overlap(s))
        BY <3>1 DEF CancelSwap
      <4> QED
        BY <3>1, <4>1, Cancelled DEF Both, Counted
    <3>2. CASE ExpireSwap(s)
      <4>1. swaps' = swaps /\ expiring' = expiring \ {s} /\ paid' = paid /\ Race(s, Overlap(s))
        BY <3>2 DEF ExpireSwap
      <4>2. \A u : Counted(s, u)' <=> Counted(s, u)
        BY <4>1 DEF Counted
      <4> QED
        BY <1>1, <4>1, <4>2 DEF Both, SameSwap
    <3> QED
      BY <1>5, <3>1, <3>2
  <2>2. ASSUME s \notin raced'
        PROVE  /\ TokensKept(s)
               /\ PhaseKept(s) \/ (Phase(s) = "open" /\ Phase(s)' \in {"agreed", "ended"})
    <3>1. s \notin raced
      BY <2>1, <2>2 DEF Race
    <3>2. TokensKept(s)
      BY <2>1, <2>2, <3>1, UnpaidTokens
    <3>3. Phase(s)' = Phase(s) \/ (Phase(s) = "open" /\ Phase(s)' = "ended")
      BY <2>1, <2>2, <3>1 DEF Phase
    <3> QED
      BY <3>2, <3>3 DEF PhaseKept
  <2>3. raced' \in {raced, raced \union {s}}
    BY <2>1 DEF Race
  <2>4. \A r \in Known \ {s} : SameSwap(r) /\ (r \in expiring' <=> r \in expiring)
    BY <2>1
  <2> QED
    BY <2>1, <2>2, <2>3, <2>4, OneSwap
<1>6. ASSUME NEW s \in Known, NEW u \in Users, NotifyDeposit(s, u)
      PROVE  [Atomic!Next]_Atomic!vars
  <2>1. UNCHANGED <<swaps, expiring, paid>> /\ raced' \in {raced, raced \union {s}}
    BY <1>6 DEF NotifyDeposit, Race
  <2>2. Known' = Known /\ \A r \in Known : SameSwap(r)
    BY <1>1, <2>1
  <2>3. ASSUME s \notin raced' PROVE Kept(s)
    BY <2>1, <2>2, <2>3, SameKept
  <2> QED
    BY <2>1, <2>2, <2>3, OneSwap DEF Kept
<1>7. ASSUME NEW c \in checks, ReadBalance(c) \/ ReturnDeposit(c)
      PROVE  [Atomic!Next]_Atomic!vars
  <2>1. UNCHANGED <<swaps, expiring, paid, raced>>
    BY <1>7 DEF ReadBalance, ReturnDeposit
  <2>2. \A r \in SwapIds : Kept(r)
    BY <1>1, <2>1, SameKept
  <2> QED
    BY <2>2, AtomicStutters
<1>8. ASSUME NEW c \in checks, TakeDeposit(c)
      PROVE  [Atomic!Next]_Atomic!vars
  <2> DEFINE s == c.swap
  <2>1. /\ paid' = paid /\ expiring' = expiring /\ raced' = raced /\ s \in Known
        /\ Known' = Known /\ \A r \in Known \ {s} : SameSwap(r)
        /\ swaps'[s].offeredBy = swaps[s].offeredBy
    BY <1>8, Taken DEF TakeDeposit
  <2>2. ASSUME s \notin raced
        PROVE  /\ TokensKept(s)
               /\ PhaseKept(s) \/ (Phase(s) = "open" /\ Phase(s)' \in {"agreed", "ended"})
    <3>1. SwapOK(s) /\ swaps[s].acceptedBy # swaps[s].offeredBy
      BY <2>1, <2>2 DEF RaceInv
    <3>2. /\ ~Both(s) /\ ~Over(s) /\ ~Over(s)'
          /\ \A u : Counted(s, u)' <=> (Counted(s, u) \/ u = c.user)
      BY <1>8, <3>1, TakenFacts
    <3>3. c \in Deciding(s)
      BY <1>8 DEF Deciding, TakeDeposit
    <3>4. \A p \in paid : p.swap = s /\ IsRefund(p) /\ p.amount >= Amount => p.from # c.user
      BY <3>1, <3>2, <3>3 DEF SwapOK, RefundOK, Gone, Payments
    <3>5. TokensKept(s)
      BY <2>1, <3>2, <3>4, UnpaidTokens
    <3>6. Phase(s) = "open" /\ Phase(s)' \in {"open", "agreed"}
      BY <2>1, <2>2, <3>2 DEF Phase, Over
    <3> QED
      BY <3>5, <3>6 DEF PhaseKept
  <2> HIDE DEF s
  <2> QED
    BY <2>1, <2>2, OneSwap
<1> QED
  BY <1>2, <1>3, <1>4, <1>5, <1>6, <1>7, <1>8, QuietSteps

\* The escrow implements the atomic swap, whatever its callers and the ledgers do:
\* until a race happens to a swap, tokens are paid to the other party only after
\* both deposits were there, and whole deposits that count are returned only
\* after it ended without.
THEOREM EscrowIsAtomic == Spec => ImplementsAtomicSwap
<1>1. Init => Atomic!Init
  BY DEF Init, Atomic!Init, Phase, PaidTokens, ReturnedTokens, Known
<1>2. SwapInv /\ RaceInv /\ [Next]_vars => [Atomic!Next]_Atomic!vars
  BY StepImplements
<1> QED
  BY <1>1, <1>2, RaceInvariant, PTL DEF Spec, ImplementsAtomicSwap, Atomic!Spec
===============================================================================
