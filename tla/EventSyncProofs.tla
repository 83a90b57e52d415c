-------------------------- MODULE EventSyncProofs ---------------------------
(***************************************************************************)
(* Proofs about the stream of events from one canister to others, for any  *)
(* targets, limits and numbers of events: no key with items is forgotten,  *)
(* and the stream is an in-order channel.                                  *)
(***************************************************************************)
EXTENDS EventSyncProps, FoldLemmas, SequenceTheorems

Events == [id : Nat, at : Nat]
Requests == [events : Seq(Events), stale : BOOLEAN]

SenderTypes ==
    /\ now \in Nat \ {0}
    /\ pushed \in [Targets -> Nat]
    /\ queue \in Seq(Targets)
    /\ items \in [Targets -> Seq(Events)]
    /\ inProgress \in SUBSET Targets /\ timer \in BOOLEAN
    /\ batch \in [Targets -> Seq(Events)]
    /\ call \in [Targets -> {"none", "made", "handled"}]
    /\ wire \in [Targets -> Seq(Requests)]

(***************************************************************************)
(* The stream of a target, in terms of the times at which its P events     *)
(* were created: `at' gives the time of each number.  The events that left *)
(* the sender are the first f ones; then come its batch b and its items.   *)
(***************************************************************************)
Times(P, T) ==
    {at \in [1..P -> 1..T] : \A x, y \in 1..P : x <= y => at[x] <= at[y]}

Gone(P, b, it) == P - Len(b) - Len(it)

\* The events of ev are those numbered f + 1 and on.
RunOf(ev, f, at) == \A j \in 1..Len(ev) : ev[j].id = f + j /\ ev[j].at = at[f + j]

\* Requests are runs of events, sent in order.
Offset(r) == r.events[1].id - 1

RequestOK(r, f, P, at) ==
    /\ r.events # <<>> /\ Offset(r) \in 0..f
    /\ Offset(r) + Len(r.events) <= P
    /\ RunOf(r.events, Offset(r), at)

WireOK(w, f, P, at) ==
    /\ \A i \in 1..Len(w) : RequestOK(w[i], f, P, at)
    /\ \A i, j \in 1..Len(w) : i < j => Offset(w[i]) <= Offset(w[j])

\* The one call of a key is about its batch.
CallOK(c, b, w) ==
    /\ c = "none" => b = <<>>
    /\ \A i \in 1..Len(w) : ~w[i].stale => c = "made" /\ w[i].events = b
    /\ \A i, j \in 1..Len(w) : ~w[i].stale /\ ~w[j].stale => i = j

\* The checker agrees with what the target handled.
LastOf(h) == IF h = <<>> THEN 0 ELSE h[Len(h)]
Receivers == [latest : Nat, ids : SUBSET Nat, handled : Seq(Nat)]

CheckerOK(R, P, at) ==
    /\ R \in Receivers
    /\ \A i, j \in 1..Len(R.handled) : i < j => R.handled[i] < R.handled[j]
    /\ \A i \in 1..Len(R.handled) : R.handled[i] \in 1..P
    /\ R.latest = IF R.handled = <<>> THEN 0 ELSE at[LastOf(R.handled)]
    /\ \A x \in Range(R.handled) : at[x] = R.latest => x \in R.ids
    /\ R.ids \subseteq Range(R.handled)

\* Of the events that may still come, from x to y, none was passed over.
NonePassed(x, y, h) == \A n \in x..y : n <= LastOf(h) => n \in Range(h)

Complete(w, f, P, h) ==
    /\ NonePassed(f + 1, P, h)
    /\ \A i \in 1..Len(w) :
          NonePassed(Offset(w[i]) + 1, Offset(w[i]) + Len(w[i].events), h)

Gapless(h, n) == n <= Len(h) /\ \A i \in 1..Len(h) : h[i] = i

NoGap(c, f, b, h) ==
    /\ Gapless(h, f)
    /\ c = "handled" => f + Len(b) <= Len(h)

StreamAt(lossy, P, it, b, c, w, R, at) ==
    LET f == Gone(P, b, it)
    IN  /\ f >= 0
        /\ RunOf(b, f, at) /\ RunOf(it, f + Len(b), at)
        /\ WireOK(w, f, P, at) /\ CallOK(c, b, w)
        /\ CheckerOK(R, P, at)
        /\ Complete(w, f, P, R.handled)
        /\ ~lossy => NoGap(c, f, b, R.handled)

StreamOK(lossy, P, it, b, c, w, R, T) ==
    \E at \in Times(P, T) : StreamAt(lossy, P, it, b, c, w, R, at)

StreamsAgree == \A k \in Targets :
    StreamOK(k \in Refusing, pushed[k], items[k], batch[k], call[k], wire[k], receiver[k], now)

Busy == \A k \in Targets :
    /\ call[k] = "none" <=> k \notin inProgress
    /\ CallOK(call[k], batch[k], wire[k])

SenderInv == SenderTypes /\ Busy /\ KeysScheduled

------------------------------------------------------------------------------
(* The checker.                                                             *)

\* CheckAll checks the events one after the other.
LEMMA CheckAllSteps ==
    ASSUME NEW c, NEW S, NEW ev \in Seq(S)
    PROVE  \E a : /\ a[0] = c
                  /\ \A n \in 1..Len(ev) : a[n] = Check(a[n - 1], ev[n])
                  /\ CheckAll(c, ev) = a[Len(ev)]
<1> DEFINE l == Len(ev)
           Steps(g, n) == g = [i \in 0..n |-> IF i = 0 THEN c ELSE Check(g[i - 1], ev[i])]
           T == {n \in Nat : \E g : Steps(g, n)}
<1>1. l \in Nat
  OBVIOUS
<1>2. 0 \in T
  <2> DEFINE z == [i \in 0..0 |-> c]
  <2>1. Steps(z, 0)
    OBVIOUS
  <2> HIDE DEF z
  <2> QED
    BY <2>1
<1>3. ASSUME NEW n \in Nat, n \in T
      PROVE  n + 1 \in T
  <2>1. PICK g : Steps(g, n)
    BY <1>3
  <2> DEFINE h == [i \in 0..n + 1 |-> IF i <= n THEN g[i] ELSE Check(g[n], ev[n + 1])]
  <2>2. \A i \in 0..n : h[i] = g[i]
    OBVIOUS
  <2>3. ASSUME NEW i \in 0..n + 1
        PROVE  h[i] = IF i = 0 THEN c ELSE Check(h[i - 1], ev[i])
    <3>1. CASE i = 0
      <4>1. 0 \in 0..n
        OBVIOUS
      <4> QED
        BY <2>1, <2>2, <3>1, <4>1
    <3>2. CASE i \in 1..n
      <4>1. i \in 0..n /\ i - 1 \in 0..n /\ i # 0
        BY <3>2
      <4>2. g[i] = Check(g[i - 1], ev[i])
        BY <2>1, <4>1
      <4> HIDE DEF h
      <4> QED
        BY <2>2, <4>1, <4>2
    <3>3. CASE i = n + 1
      <4>1. n \in 0..n /\ i - 1 = n /\ i # 0 /\ h[i] = Check(g[n], ev[n + 1])
        BY <3>3
      <4> HIDE DEF h
      <4> QED
        BY <2>2, <3>3, <4>1
    <3> QED
      BY <3>1, <3>2, <3>3
  <2>4. Steps(h, n + 1)
    BY <2>3
  <2>5. \E z : Steps(z, n + 1)
    <3> HIDE DEF h, Steps
    <3> QED
      BY <2>4
  <2> HIDE DEF Steps
  <2> QED
    BY <2>5
<1> HIDE DEF T
<1>4. l \in T
  BY <1>1, <1>2, <1>3, NatSetInduction
<1> DEFINE a == CHOOSE g : Steps(g, l)
<1>5. Steps(a, l)
  BY <1>4 DEF T
<1>6. CheckAll(c, ev) = a[l]
  BY DEF CheckAll
<1> HIDE DEF a
<1>7. a[0] = c
  BY <1>1, <1>5
<1>8. ASSUME NEW n \in 1..l
      PROVE  a[n] = Check(a[n - 1], ev[n])
  BY <1>1, <1>5
<1> QED
  BY <1>6, <1>7, <1>8

\* An event that the checker passes comes after all that was handled; one that
\* it does not was handled already.
LEMMA CheckOne ==
    ASSUME NEW P \in Nat, NEW T \in Nat, NEW at \in Times(P, T),
           NEW R, CheckerOK(R, P, at), NEW e \in Events, e.id \in 1..P, e.at = at[e.id],
           e.id <= LastOf(R.handled) => e.id \in Range(R.handled)
    PROVE  LET S == Check(R, e)
           IN  /\ CheckerOK(S, P, at)
               /\ \/ S = R
                  \/ S.handled = Append(R.handled, e.id) /\ LastOf(R.handled) < e.id
               /\ e.id \in Range(S.handled)
<1> DEFINE h == R.handled
           x == e.id
           l == Len(h)
<1>1. /\ h \in Seq(Nat) /\ R.latest \in Nat /\ R.ids \in SUBSET Nat /\ l \in Nat
      /\ R = [latest |-> R.latest, ids |-> R.ids, handled |-> h]
      /\ DOMAIN h = 1..l /\ x \in Nat
  BY DEF CheckerOK, Receivers, Events
<1>2. /\ \A n \in 1..P : at[n] \in 1..T
      /\ \A m, n \in 1..P : m <= n => at[m] <= at[n]
  BY DEF Times
<1>3. /\ \A i, j \in 1..l : i < j => h[i] < h[j]
      /\ \A i \in 1..l : h[i] \in 1..P
      /\ R.latest = IF h = <<>> THEN 0 ELSE at[LastOf(h)]
      /\ \A n \in Range(h) : at[n] = R.latest => n \in R.ids
      /\ R.ids \subseteq Range(h)
  BY DEF CheckerOK
<1>8. /\ \A i, j \in 1..l : i < j => h[i] < h[j]
      /\ \A i \in 1..l : h[i] \in 1..P
      /\ l \in Nat
  BY <1>1, <1>3
<1>9. e.at = at[x] /\ e.id = x /\ (x <= LastOf(h) => x \in Range(h)) /\ x \in 1..P
      /\ R.handled = h /\ Len(h) = l
  OBVIOUS
<1> HIDE DEF h, l, x
<1>4. \A n \in Range(h) : n \in 1..P /\ n <= LastOf(h) /\ h # <<>>
  <2> SUFFICES ASSUME NEW i \in 1..l
               PROVE  h[i] \in 1..P /\ h[i] <= LastOf(h) /\ h # <<>>
    BY <1>1 DEF Range
  <2>1. h # <<>> /\ l \in 1..l
    BY <1>1
  <2>2. h[i] <= h[l]
    BY <1>8, <2>1
  <2> QED
    BY <1>8, <1>9, <2>1, <2>2 DEF LastOf
<1>5. LastOf(h) \in 0..P /\ (h # <<>> => LastOf(h) \in 1..P)
  <2>1. CASE h = <<>>
    BY <2>1 DEF LastOf
  <2>2. CASE h # <<>>
    <3>1. l \in 1..l
      BY <1>1, <2>2, EmptySeq
    <3> QED
      BY <1>8, <1>9, <2>2, <3>1 DEF LastOf
  <2> QED
    BY <2>1, <2>2
<1>6. CASE x <= LastOf(h)
  <2>1. x \in Range(h) /\ h # <<>>
    BY <1>4, <1>6, <1>9
  <2>2. at[x] <= R.latest
    BY <1>2, <1>3, <1>5, <1>6, <1>9, <2>1
  <2>3. Check(R, e) = R
    <3>1. CASE at[x] < R.latest
      BY <3>1, <1>9 DEF Check
    <3>2. CASE at[x] = R.latest
      <4>1. x \in R.ids
        BY <1>3, <2>1, <3>2
      <4> QED
        BY <3>2, <4>1, <1>1, <1>9 DEF Check
    <3> QED
      BY <1>1, <1>2, <1>9, <2>2, <3>1, <3>2
  <2> QED
    <3>1. CheckerOK(Check(R, e), P, at)
      BY <2>3
    <3>2. e.id \in Range(Check(R, e).handled)
      BY <2>1, <2>3, <1>9
    <3> QED
      BY <2>3, <3>1, <3>2
<1>7. CASE ~(x <= LastOf(h))
  <2> DEFINE ids == IF at[x] > R.latest THEN {} ELSE R.ids
             g == Append(h, x)
             S == [latest |-> at[x], ids |-> ids \union {x}, handled |-> g]
  <2>1. LastOf(h) < x
    BY <1>1, <1>5, <1>7
  <2>2. R.latest <= at[x]
    <3>1. CASE h = <<>>
      BY <1>2, <1>3, <1>9, <3>1
    <3>2. CASE h # <<>>
      <4>1. LastOf(h) \in 1..P /\ LastOf(h) <= x
        BY <1>1, <1>5, <2>1, <3>2
      <4> QED
        BY <1>2, <1>3, <1>9, <3>2, <4>1
    <3> QED
      BY <3>1, <3>2
  <2>3. x \notin R.ids
    <3>1. x \notin Range(h)
      BY <1>4, <1>7
    <3> QED
      BY <1>3, <3>1
  <2>4. Check(R, e) = S
    <3>1. ~(at[x] < R.latest) /\ x \notin ids
      BY <1>1, <1>2, <1>9, <2>2, <2>3
    <3> QED
      BY <3>1, <1>9 DEF Check
  <2>5. /\ g \in Seq(Nat) /\ Len(g) = l + 1 /\ DOMAIN g = 1..l + 1
        /\ \A i \in 1..l : g[i] = h[i]
        /\ g[l + 1] = x
    BY <1>1, <1>9
  <2>6. S \in Receivers
    <3>1. ids \union {x} \in SUBSET Nat /\ at[x] \in Nat
      BY <1>1, <1>2, <1>9
    <3> QED
      BY <2>5, <3>1 DEF Receivers
  <2>7. S.handled = g /\ S.latest = at[x] /\ S.ids = ids \union {x}
    OBVIOUS
  <2> HIDE DEF g, S
  <2>8. \A i \in 1..l : h[i] < x
    <3> SUFFICES ASSUME NEW i \in 1..l
                 PROVE  h[i] < x
      OBVIOUS
    <3>1. h[i] \in 1..P /\ h[i] <= LastOf(h)
      BY <1>1, <1>4 DEF Range
    <3> QED
      BY <1>1, <1>5, <2>1, <3>1
  <2>9. /\ \A i, j \in 1..l + 1 : i < j => g[i] < g[j]
        /\ \A i \in 1..l + 1 : g[i] \in 1..P
    <3>1. ASSUME NEW i \in 1..l + 1
          PROVE  i \in 1..l \/ i = l + 1
      BY <1>8
    <3>2. ASSUME NEW i \in 1..l + 1
          PROVE  g[i] \in 1..P
      BY <3>1, <1>8, <1>9, <2>5
    <3>3. ASSUME NEW i \in 1..l + 1, NEW j \in 1..l + 1, i < j
          PROVE  g[i] < g[j]
      <4>1. i \in 1..l
        BY <3>3, <1>8
      <4>2. CASE j \in 1..l
        BY <4>1, <4>2, <3>3, <1>8, <2>5
      <4>3. CASE j = l + 1
        BY <4>1, <4>3, <2>5, <2>8
      <4> QED
        BY <3>1, <4>2, <4>3
    <3> QED
      BY <3>2, <3>3
  <2>10. Range(g) = Range(h) \union {x}
    <3>1. \A i \in 1..l + 1 : i \in 1..l \/ i = l + 1
      BY <1>1
    <3>2. 1..l \subseteq 1..l + 1 /\ l + 1 \in 1..l + 1
      BY <1>1
    <3> QED
      BY <1>1, <2>5, <3>1, <3>2, SMTT(30) DEF Range
  <2>11. g # <<>> /\ LastOf(g) = x
    <3>1. Len(g) # 0
      BY <1>1, <2>5
    <3>2. g # <<>>
      BY <3>1
    <3> QED
      BY <2>5, <3>2 DEF LastOf
  <2>12. ASSUME NEW n \in Range(g), at[n] = at[x]
         PROVE  n \in ids \union {x}
    <3>1. CASE n \in Range(h)
      <4>1. n \in 1..P /\ at[n] <= R.latest
        <5>1. n \in 1..P /\ n <= LastOf(h) /\ h # <<>>
          BY <1>4, <3>1
        <5> QED
          BY <5>1, <1>2, <1>3, <1>5
      <4>2. at[n] = R.latest /\ ~(at[x] > R.latest)
        BY <4>1, <2>2, <2>12, <1>1, <1>2, <1>9
      <4> QED
        BY <4>2, <3>1, <1>3
    <3> QED
      BY <3>1, <2>10
  <2>13. ids \union {x} \subseteq Range(g)
    BY <1>3, <2>10
  <2>14. CheckerOK(S, P, at)
    <3> HIDE DEF ids
    <3> QED
      BY <2>5, <2>6, <2>7, <2>9, <2>11, <2>12, <2>13 DEF CheckerOK
  <2> QED
    BY <2>1, <2>4, <2>7, <2>10, <2>14, <1>9 DEF g
<1> QED
  BY <1>6, <1>7

\* What becomes of h when the n events after the f-th one are checked.
Extended(h, g) == Len(h) <= Len(g) /\ \A i \in 1..Len(h) : g[i] = h[i]

Progress(h, g, f, n) ==
    /\ Extended(h, g)
    /\ \A x \in f + 1..f + n : x \in Range(g)
    /\ LastOf(g) <= LastOf(h) \/ LastOf(g) <= f + n
    /\ Gapless(h, f) => Gapless(g, f + n)

Increasing(h) == \A i, j \in 1..Len(h) : i < j => h[i] < h[j]

\* The last number of an increasing sequence is its largest.
LEMMA LastIsLargest ==
    ASSUME NEW h \in Seq(Nat), Increasing(h)
    PROVE  /\ LastOf(h) \in Nat
           /\ \A x \in Range(h) : x \in Nat /\ x <= LastOf(h)
<1> DEFINE l == Len(h)
<1>1. l \in Nat /\ DOMAIN h = 1..l /\ \A i \in 1..l : h[i] \in Nat
  OBVIOUS
<1>2. \A i, j \in 1..l : i < j => h[i] < h[j]
  BY DEF Increasing
<1>3. CASE h = <<>>
  BY <1>3 DEF LastOf, Range
<1>4. CASE h # <<>>
  <2>1. l \in 1..l
    BY <1>1, <1>4, EmptySeq
  <2>2. LastOf(h) = h[l]
    BY <1>4 DEF LastOf
  <2> HIDE DEF l
  <2>3. ASSUME NEW i \in 1..l
        PROVE  h[i] <= h[l]
    BY <1>1, <1>2, <2>1
  <2> QED
    BY <1>1, <2>1, <2>2, <2>3 DEF Range
<1> QED
  BY <1>3, <1>4

\* An event that was handled already changes nothing.
LEMMA ProgressSkips ==
    ASSUME NEW h, NEW g \in Seq(Nat), Increasing(g), NEW f \in Nat, NEW n \in Nat,
           LastOf(h) \in Nat, Progress(h, g, f, n), f + n + 1 \in Range(g)
    PROVE  Progress(h, g, f, n + 1)
<1>1. /\ Extended(h, g)
      /\ \A x \in f + 1..f + n : x \in Range(g)
      /\ LastOf(g) <= LastOf(h) \/ LastOf(g) <= f + n
      /\ Gapless(h, f) => Gapless(g, f + n)
  BY DEF Progress
<1>2. LastOf(g) \in Nat
  BY LastIsLargest
<1>3. \A x \in f + 1..f + (n + 1) : x \in f + 1..f + n \/ x = f + n + 1
  OBVIOUS
<1>4. ASSUME Gapless(g, f + n)
      PROVE  Gapless(g, f + (n + 1))
  <2>1. PICK i \in 1..Len(g) : g[i] = f + n + 1
    BY DEF Range
  <2> QED
    BY <1>4, <2>1 DEF Gapless
<1> QED
  BY <1>1, <1>2, <1>3, <1>4 DEF Progress

\* A new event is the last.
LEMMA ProgressAppends ==
    ASSUME NEW h, NEW g \in Seq(Nat), Increasing(g), NEW f \in Nat, NEW n \in Nat,
           Len(h) \in Nat, Progress(h, g, f, n), LastOf(g) < f + n + 1
    PROVE  Progress(h, Append(g, f + n + 1), f, n + 1)
<1> DEFINE x == f + n + 1
           e == Append(g, x)
           l == Len(g)
<1>1. /\ Extended(h, g)
      /\ \A y \in f + 1..f + n : y \in Range(g)
      /\ Gapless(h, f) => Gapless(g, f + n)
  BY DEF Progress
<1>2. /\ e \in Seq(Nat) /\ Len(e) = l + 1 /\ \A i \in 1..l : e[i] = g[i]
      /\ e[l + 1] = x /\ l \in Nat /\ DOMAIN e = 1..l + 1 /\ DOMAIN g = 1..l /\ x \in Nat
  OBVIOUS
<1>3. e # <<>>
  <2> HIDE DEF e
  <2>1. Len(e) # 0
    BY <1>2
  <2> QED
    BY <2>1
<1>8. Append(g, f + n + 1) = e /\ x = f + n + 1 /\ Len(g) = l
  OBVIOUS
<1> HIDE DEF e, l, x
<1>4. LastOf(e) = x
  BY <1>2, <1>3 DEF LastOf
<1>5. Extended(h, e)
  BY <1>1, <1>2, <1>8 DEF Extended
<1>6. \A y \in f + 1..f + (n + 1) : y \in Range(e)
  <2>1. x \in Range(e)
    BY <1>2, SMTT(30) DEF Range
  <2>2. ASSUME NEW y \in Range(g)
        PROVE  y \in Range(e)
    <3>1. PICK i \in 1..l : g[i] = y
      BY <1>2 DEF Range
    <3>2. e[i] = y /\ i \in 1..l + 1
      BY <1>2, <3>1
    <3> QED
      BY <1>2, <3>2 DEF Range
  <2>3. \A y \in f + 1..f + (n + 1) : y \in f + 1..f + n \/ y = x
    BY <1>8
  <2> QED
    BY <1>1, <2>1, <2>2, <2>3
<1>7. ASSUME Gapless(g, f + n)
      PROVE  Gapless(e, f + (n + 1))
  <2>1. f + n <= l /\ \A i \in 1..l : g[i] = i
    BY <1>7, <1>8 DEF Gapless
  <2>2. l = 0 \/ LastOf(g) = l
    BY <1>2, <1>8, <2>1, EmptySeq DEF LastOf
  <2>3. l = f + n
    BY <1>2, <1>8, <2>1, <2>2
  <2>4. \A i \in 1..l + 1 : i \in 1..l \/ i = l + 1
    BY <1>2
  <2>5. \A i \in 1..l + 1 : e[i] = i
    BY <1>2, <1>8, <2>1, <2>3, <2>4
  <2> QED
    BY <1>2, <2>3, <2>5 DEF Gapless
<1>9. LastOf(e) <= f + (n + 1)
  BY <1>4, <1>8
<1> QED
  BY <1>1, <1>5, <1>6, <1>7, <1>8, <1>9 DEF Progress

\* A request is handled: the target has then handled all its events, and no
\* event twice or after a later one.
LEMMA CheckRun ==
    ASSUME NEW P \in Nat, NEW T \in Nat, NEW at \in Times(P, T), NEW R, CheckerOK(R, P, at),
           NEW ev \in Seq(Events), NEW f \in Nat, f + Len(ev) <= P, RunOf(ev, f, at),
           NonePassed(f + 1, f + Len(ev), R.handled)
    PROVE  /\ CheckerOK(CheckAll(R, ev), P, at)
           /\ Progress(R.handled, CheckAll(R, ev).handled, f, Len(ev))
<1> DEFINE h == R.handled
           l == Len(ev)
<1>1. PICK a : /\ a[0] = R
               /\ \A n \in 1..l : a[n] = Check(a[n - 1], ev[n])
               /\ CheckAll(R, ev) = a[l]
  BY CheckAllSteps, SMTT(30)
<1>2. l \in Nat /\ \A i \in 1..l : ev[i] \in Events
  OBVIOUS
<1>3. ASSUME NEW S, CheckerOK(S, P, at)
      PROVE  S.handled \in Seq(Nat) /\ Increasing(S.handled) /\ LastOf(S.handled) \in Nat
  <2>1. S.handled \in Seq(Nat) /\ Increasing(S.handled)
    BY <1>3 DEF CheckerOK, Receivers, Increasing
  <2> QED
    BY <2>1, LastIsLargest
<1>4. /\ h \in Seq(Nat) /\ Increasing(h) /\ LastOf(h) \in Nat /\ Len(h) \in Nat
      /\ NonePassed(f + 1, f + l, h) /\ f + l <= P
  BY <1>3
<1> DEFINE Good(n) == n <= l => CheckerOK(a[n], P, at) /\ Progress(h, a[n].handled, f, n)
           G == {n \in Nat : Good(n)}
<1> HIDE DEF h, l
<1>5. 0 \in G
  <2>1. f + 0 = f /\ f + 1..f + 0 = {}
    OBVIOUS
  <2>2. Progress(h, h, f, 0)
    BY <1>4, <2>1 DEF Progress, Extended
  <2> QED
    BY <1>1, <2>2 DEF h
<1>6. ASSUME NEW n \in Nat, n \in G, n + 1 <= l
      PROVE  Good(n + 1)
  <2> DEFINE S == a[n]
             e == ev[n + 1]
             g == S.handled
             x == f + n + 1
  <2>1. CheckerOK(S, P, at) /\ Progress(h, g, f, n)
    BY <1>2, <1>6
  <2>2. n + 1 \in 1..l /\ (n + 1) - 1 = n /\ f + (n + 1) = x
    BY <1>2, <1>6
  <2>3. a[n + 1] = Check(S, e) /\ e \in Events
    BY <1>1, <1>2, <2>2
  <2>4. e.id = x /\ e.at = at[x] /\ x \in 1..P /\ x \in f + 1..f + l
    <3>1. e.id = f + (n + 1) /\ e.at = at[f + (n + 1)]
      BY <2>2 DEF RunOf, l
    <3> QED
      BY <1>2, <1>4, <1>6, <2>2, <3>1
  <2> HIDE DEF S, e, x
  <2>5. g \in Seq(Nat) /\ Increasing(g) /\ LastOf(g) \in Nat
    BY <1>3, <2>1
  <2>6. x <= LastOf(g) => x \in Range(g)
    <3> SUFFICES ASSUME x <= LastOf(g)
                 PROVE  x \in Range(g)
      OBVIOUS
    <3>1. x <= LastOf(h)
      <4>1. LastOf(g) <= LastOf(h) \/ LastOf(g) <= f + n
        BY <2>1 DEF Progress
      <4> QED
        BY <4>1, <1>4, <2>5 DEF x
    <3>2. x \in Range(h)
      BY <3>1, <1>4, <2>4 DEF NonePassed
    <3>3. PICK i \in 1..Len(h) : h[i] = x
      BY <1>4, <3>2 DEF Range
    <3>4. g[i] = x /\ i \in DOMAIN g
      <4>1. Len(h) <= Len(g) /\ \A j \in 1..Len(h) : g[j] = h[j]
        BY <2>1 DEF Progress, Extended
      <4> HIDE DEF g
      <4> QED
        BY <1>4, <2>5, <3>3, <4>1, SMTT(30)
    <3> QED
      BY <3>4 DEF Range
  <2>7. /\ CheckerOK(Check(S, e), P, at)
        /\ \/ Check(S, e) = S
           \/ Check(S, e).handled = Append(g, x) /\ LastOf(g) < x
        /\ x \in Range(Check(S, e).handled)
    BY <2>1, <2>3, <2>4, <2>6, CheckOne, SMTT(30)
  <2>8. Progress(h, Check(S, e).handled, f, n + 1)
    <3>1. CASE Check(S, e) = S
      <4>1. f + n + 1 \in Range(g)
        BY <2>7, <3>1 DEF x
      <4>2. Progress(h, g, f, n + 1)
        <5> HIDE DEF g
        <5> QED
          BY <4>1, <1>4, <2>1, <2>5, ProgressSkips
      <4> QED
        BY <3>1, <4>2
    <3>2. CASE Check(S, e).handled = Append(g, x) /\ LastOf(g) < x
      <4>1. LastOf(g) < f + n + 1
        BY <3>2 DEF x
      <4>2. Progress(h, Append(g, f + n + 1), f, n + 1)
        <5> HIDE DEF g
        <5> QED
          BY <4>1, <1>4, <2>1, <2>5, ProgressAppends
      <4> QED
        BY <3>2, <4>2 DEF x
    <3> QED
      BY <2>7, <3>1, <3>2
  <2> QED
    BY <2>3, <2>7, <2>8
<1>7. \A n \in Nat : n \in G
  <2>1. \A n \in Nat : n \in G => n + 1 \in G
    BY <1>2, <1>6
  <2> HIDE DEF G
  <2> QED
    BY <1>5, <2>1, NatSetInduction
<1>8. Good(l)
  BY <1>2, <1>7
<1> QED
  BY <1>1, <1>2, <1>8 DEF h, l

------------------------------------------------------------------------------
(* What a step does to the stream of its target.                            *)

Calls == {"none", "made", "handled"}

\* Some requests of w, perhaps with no one waiting for them any more.
Thinned(v, w) ==
    \E m \in [1..Len(v) -> 1..Len(w)] :
        /\ \A i, j \in 1..Len(v) : i < j => m[i] < m[j]
        /\ \A i \in 1..Len(v) : v[i].events = w[m[i]].events

\* What is left on the wire is as it was, and the events that left the sender
\* may have become more.
LEMMA ThinnedWire ==
    ASSUME NEW P \in Nat, NEW at, NEW h, NEW f \in Nat, NEW e \in Nat, f <= e,
           NEW w \in Seq(Requests), NEW v \in Seq(Requests), Thinned(v, w),
           WireOK(w, f, P, at), Complete(w, f, P, h)
    PROVE  WireOK(v, e, P, at) /\ Complete(v, e, P, h)
<1>1. PICK m \in [1..Len(v) -> 1..Len(w)] :
        /\ \A i, j \in 1..Len(v) : i < j => m[i] < m[j]
        /\ \A i \in 1..Len(v) : v[i].events = w[m[i]].events
  BY DEF Thinned
<1>2. /\ \A i \in 1..Len(w) : RequestOK(w[i], f, P, at)
      /\ \A i, j \in 1..Len(w) : i < j => Offset(w[i]) <= Offset(w[j])
  BY DEF WireOK
<1>3. \A i \in 1..Len(v) : m[i] \in 1..Len(w) /\ Offset(v[i]) = Offset(w[m[i]])
  BY <1>1 DEF Offset
<1>4. ASSUME NEW i \in 1..Len(v)
      PROVE  RequestOK(v[i], e, P, at)
  <2>1. RequestOK(w[m[i]], f, P, at)
    BY <1>2, <1>3
  <2> QED
    BY <2>1, <1>1, <1>3 DEF RequestOK
<1>5. \A i, j \in 1..Len(v) : i < j => Offset(v[i]) <= Offset(v[j])
  BY <1>1, <1>2, <1>3
<1>6. /\ NonePassed(f + 1, P, h)
      /\ \A i \in 1..Len(w) :
            NonePassed(Offset(w[i]) + 1, Offset(w[i]) + Len(w[i].events), h)
  BY DEF Complete
<1>7. NonePassed(e + 1, P, h)
  BY <1>6 DEF NonePassed
<1>8. \A i \in 1..Len(v) : NonePassed(Offset(v[i]) + 1, Offset(v[i]) + Len(v[i].events), h)
  BY <1>1, <1>3, <1>6
<1> QED
  BY <1>4, <1>5, <1>7, <1>8 DEF WireOK, Complete

\* RemoveAt leaves the other elements in their order.
LEMMA RemoveAtElements ==
    ASSUME NEW S, NEW s \in Seq(S), NEW i \in 1..Len(s)
    PROVE  /\ RemoveAt(s, i) \in Seq(S) /\ Len(RemoveAt(s, i)) = Len(s) - 1
           /\ \A j \in 1..Len(s) - 1 : RemoveAt(s, i)[j] = s[IF j < i THEN j ELSE j + 1]
<1> DEFINE l == Len(s)
           a == SubSeq(s, 1, i - 1)
           b == SubSeq(s, i + 1, l)
           r == a \o b
<1>1. l \in Nat /\ i \in 1..l /\ \A j \in 1..l : s[j] \in S
  OBVIOUS
<1>2. /\ a \in Seq(S) /\ Len(a) = i - 1 /\ \A j \in 1..i - 1 : a[j] = s[j]
  <2>1. a \in Seq(S) /\ Len(a) = (IF 1 <= i - 1 THEN i - 1 - 1 + 1 ELSE 0)
        /\ \A j \in 1..i - 1 - 1 + 1 : a[j] = s[1 + j - 1]
    BY <1>1, SubSeqProperties
  <2> HIDE DEF a, l
  <2>2. Len(a) = i - 1
    BY <1>1, <2>1
  <2>3. \A j \in 1..i - 1 : j \in 1..i - 1 - 1 + 1 /\ 1 + j - 1 = j
    BY <1>1
  <2> QED
    BY <2>1, <2>2, <2>3
<1>3. /\ b \in Seq(S) /\ Len(b) = l - i /\ \A j \in 1..l - i : b[j] = s[i + j]
  <2>1. b \in Seq(S) /\ Len(b) = (IF i + 1 <= l THEN l - (i + 1) + 1 ELSE 0)
        /\ \A j \in 1..l - (i + 1) + 1 : b[j] = s[i + 1 + j - 1]
    BY <1>1, SubSeqProperties
  <2> HIDE DEF b, l
  <2>2. Len(b) = l - i
    BY <1>1, <2>1
  <2>3. \A j \in 1..l - i : j \in 1..l - (i + 1) + 1 /\ i + 1 + j - 1 = i + j
    BY <1>1
  <2> QED
    BY <2>1, <2>2, <2>3
<1>4. RemoveAt(s, i) = r
  BY DEF RemoveAt
<1> HIDE DEF a, b
<1>5. /\ r \in Seq(S) /\ Len(r) = Len(a) + Len(b)
      /\ \A j \in 1..Len(a) + Len(b) : r[j] = IF j <= Len(a) THEN a[j] ELSE b[j - Len(a)]
  BY <1>2, <1>3, ConcatProperties
<1>6. Len(s) = l
  OBVIOUS
<1> HIDE DEF r, l
<1>7. Len(r) = l - 1
  BY <1>1, <1>2, <1>3, <1>5
<1>8. ASSUME NEW j \in 1..l - 1
      PROVE  r[j] = s[IF j < i THEN j ELSE j + 1]
  <2>1. j \in 1..Len(a) + Len(b) /\ (j <= Len(a) <=> j < i)
    BY <1>1, <1>2, <1>3
  <2>2. CASE j < i
    <3>1. j \in 1..i - 1
      BY <1>1, <2>2
    <3> QED
      BY <3>1, <2>1, <2>2, <1>2, <1>5
  <2>3. CASE ~(j < i)
    <3>1. j - (i - 1) \in 1..l - i /\ i + (j - (i - 1)) = j + 1
      BY <1>1, <2>3
    <3>2. r[j] = b[j - (i - 1)]
      BY <2>1, <2>3, <1>2, <1>5
    <3> QED
      BY <3>1, <3>2, <2>3, <1>3
  <2> QED
    BY <2>2, <2>3
<1> QED
  BY <1>4, <1>5, <1>6, <1>7, <1>8

\* The requests of w but the i-th one.
Rest(v, w, i) ==
    \E m \in [1..Len(v) -> 1..Len(w)] :
        /\ \A j, k \in 1..Len(v) : j < k => m[j] < m[k]
        /\ \A j \in 1..Len(v) : m[j] # i /\ v[j] = w[m[j]]

\* A request leaves the wire.
LEMMA RequestRemoved ==
    ASSUME NEW w \in Seq(Requests), NEW i \in 1..Len(w)
    PROVE  /\ RemoveAt(w, i) \in Seq(Requests)
           /\ Thinned(RemoveAt(w, i), w) /\ Rest(RemoveAt(w, i), w, i)
<1> DEFINE v == RemoveAt(w, i)
           l == Len(w)
           m == [j \in 1..l - 1 |-> IF j < i THEN j ELSE j + 1]
<1>1. /\ v \in Seq(Requests) /\ Len(v) = l - 1
      /\ \A j \in 1..l - 1 : v[j] = w[IF j < i THEN j ELSE j + 1]
  BY RemoveAtElements
<1>2. l \in Nat /\ i \in 1..l
  OBVIOUS
<1> HIDE DEF v, l
<1>3. \A j \in 1..l - 1 : m[j] \in 1..l /\ m[j] # i /\ v[j] = w[m[j]]
  BY <1>1, <1>2
<1>4. \A j, k \in 1..l - 1 : j < k => m[j] < m[k]
  BY <1>2
<1>5. m \in [1..l - 1 -> 1..l]
  BY <1>2
<1> HIDE DEF m
<1>6. Thinned(v, w)
  BY <1>1, <1>3, <1>4, <1>5 DEF Thinned, l
<1>7. Rest(v, w, i)
  BY <1>1, <1>3, <1>4, <1>5 DEF Rest, l
<1> QED
  BY <1>1, <1>6, <1>7 DEF v

\* The one call stays the one call, unless its request is the one that left.
LEMMA CallOfRest ==
    ASSUME NEW c, NEW b, NEW w \in Seq(Requests), NEW i \in 1..Len(w), CallOK(c, b, w),
           NEW v \in Seq(Requests), Rest(v, w, i)
    PROVE  /\ CallOK(c, b, v)
           /\ ~w[i].stale => \A j \in 1..Len(v) : v[j].stale
<1>1. PICK m \in [1..Len(v) -> 1..Len(w)] :
        /\ \A j, k \in 1..Len(v) : j < k => m[j] < m[k]
        /\ \A j \in 1..Len(v) : m[j] # i /\ v[j] = w[m[j]]
  BY DEF Rest
<1>2. /\ c = "none" => b = <<>>
      /\ \A j \in 1..Len(w) : ~w[j].stale => c = "made" /\ w[j].events = b
      /\ \A j, k \in 1..Len(w) : ~w[j].stale /\ ~w[k].stale => j = k
  BY DEF CallOK
<1>3. \A j \in 1..Len(v) : m[j] \in 1..Len(w)
  OBVIOUS
<1>4. ASSUME NEW j \in 1..Len(v), NEW k \in 1..Len(v), ~v[j].stale, ~v[k].stale
      PROVE  j = k
  <2>1. m[j] = m[k]
    BY <1>1, <1>2, <1>3, <1>4
  <2>2. m[j] \in Nat /\ m[k] \in Nat /\ j \in Nat /\ k \in Nat
    BY <1>3
  <2>3. ~(j < k) /\ ~(k < j)
    BY <1>1, <2>1, <2>2
  <2> QED
    BY <2>2, <2>3
<1>5. \A j \in 1..Len(v) : ~v[j].stale => c = "made" /\ v[j].events = b
  BY <1>1, <1>2, <1>3
<1>6. ~w[i].stale => \A j \in 1..Len(v) : v[j].stale
  BY <1>1, <1>2, <1>3
<1> QED
  BY <1>2, <1>4, <1>5, <1>6 DEF CallOK

\* The handling of a request leaves its caller with an answer.
LEMMA CallAnswered ==
    ASSUME NEW c, NEW b, NEW w \in Seq(Requests), NEW i \in 1..Len(w), CallOK(c, b, w)
    PROVE  CallOK(IF w[i].stale THEN c ELSE "handled", b, RemoveAt(w, i))
<1> DEFINE v == RemoveAt(w, i)
<1>1. v \in Seq(Requests) /\ Rest(v, w, i)
  BY RequestRemoved
<1> HIDE DEF v
<1>2. CallOK(c, b, v) /\ (~w[i].stale => \A j \in 1..Len(v) : v[j].stale)
  BY <1>1, CallOfRest
<1>3. CASE w[i].stale
  BY <1>2, <1>3 DEF v
<1>4. CASE ~w[i].stale
  <2>1. CallOK("handled", b, v)
    BY <1>2, <1>4 DEF CallOK
  <2> QED
    BY <1>4, <2>1 DEF v
<1> QED
  BY <1>3, <1>4

\* A key without a call may start one.
LEMMA CallStarted ==
    ASSUME NEW b, NEW w \in Seq(Requests), CallOK("none", b, w), NEW a \in Seq(Events)
    PROVE  CallOK("made", a, Append(w, [events |-> a, stale |-> FALSE]))
<1> DEFINE r == [events |-> a, stale |-> FALSE]
           v == Append(w, r)
           l == Len(w)
<1>1. r \in Requests /\ r.events = a /\ ~r.stale
  BY DEF Requests
<1> HIDE DEF r
<1>2. /\ v \in Seq(Requests) /\ Len(v) = l + 1 /\ v[l + 1] = r /\ l \in Nat
      /\ \A i \in 1..l : v[i] = w[i]
  BY <1>1
<1>3. \A i \in 1..l : w[i].stale
  BY DEF CallOK
<1> HIDE DEF v, l
<1>4. \A i \in 1..l + 1 : i \in 1..l \/ i = l + 1
  BY <1>2
<1>5. \A i \in 1..l + 1 : ~v[i].stale => i = l + 1
  BY <1>2, <1>3, <1>4
<1>6. CallOK("made", a, v)
  BY <1>1, <1>2, <1>5 DEF CallOK
<1> QED
  BY <1>6 DEF v, r

\* The parameters of StreamAt.
StreamTypes(P, it, b, c, w) ==
    /\ P \in Nat /\ it \in Seq(Events) /\ b \in Seq(Events)
    /\ c \in Calls /\ w \in Seq(Requests)

\* What left the sender is a number of events.
LEMMA GoneType ==
    ASSUME NEW P, NEW it, NEW b, NEW c, NEW w, StreamTypes(P, it, b, c, w), Gone(P, b, it) >= 0
    PROVE  /\ Gone(P, b, it) \in Nat
           /\ Gone(P, b, it) + Len(b) + Len(it) = P
           /\ Len(b) \in Nat /\ Len(it) \in Nat
<1>1. Len(b) \in Nat /\ Len(it) \in Nat /\ P \in Nat
  BY DEF StreamTypes
<1> QED
  BY <1>1 DEF Gone

\* A stale request is lost.
LEMMA LostStream ==
    ASSUME NEW lossy, NEW P, NEW it, NEW b, NEW c, NEW w, NEW R, NEW at,
           StreamTypes(P, it, b, c, w), StreamAt(lossy, P, it, b, c, w, R, at),
           NEW i \in 1..Len(w)
    PROVE  StreamAt(lossy, P, it, b, c, RemoveAt(w, i), R, at)
<1> DEFINE f == Gone(P, b, it)
           v == RemoveAt(w, i)
<1>1. /\ f >= 0 /\ RunOf(b, f, at) /\ RunOf(it, f + Len(b), at)
      /\ WireOK(w, f, P, at) /\ CallOK(c, b, w) /\ CheckerOK(R, P, at)
      /\ Complete(w, f, P, R.handled)
      /\ ~lossy => NoGap(c, f, b, R.handled)
  BY DEF StreamAt
<1>2. f \in Nat /\ w \in Seq(Requests) /\ P \in Nat
  BY <1>1, GoneType DEF StreamTypes
<1>3. v \in Seq(Requests) /\ Thinned(v, w) /\ Rest(v, w, i)
  BY <1>2, RequestRemoved
<1> HIDE DEF f, v
<1>4. WireOK(v, f, P, at) /\ Complete(v, f, P, R.handled)
  BY <1>1, <1>2, <1>3, ThinnedWire
<1>5. CallOK(c, b, v)
  BY <1>1, <1>2, <1>3, CallOfRest
<1> QED
  BY <1>1, <1>4, <1>5 DEF StreamAt, f, v

\* What was passed over neither before nor by the request is not passed over.
LEMMA PassedOn ==
    ASSUME NEW h \in Seq(Nat), NEW g \in Seq(Nat), LastOf(h) \in Nat, LastOf(g) \in Nat,
           NEW o \in Nat, NEW n \in Nat, Progress(h, g, o, n),
           NEW x \in Nat, NEW y \in Nat, o + 1 <= x, NonePassed(x, y, h)
    PROVE  NonePassed(x, y, g)
<1> SUFFICES ASSUME NEW z \in x..y, z <= LastOf(g)
             PROVE  z \in Range(g)
  BY DEF NonePassed
<1>1. /\ Len(h) <= Len(g) /\ \A i \in 1..Len(h) : g[i] = h[i]
      /\ \A k \in o + 1..o + n : k \in Range(g)
      /\ LastOf(g) <= LastOf(h) \/ LastOf(g) <= o + n
  BY DEF Progress, Extended
<1>2. CASE z <= o + n
  BY <1>1, <1>2
<1>3. CASE z <= LastOf(h)
  <2>1. z \in Range(h)
    BY <1>3 DEF NonePassed
  <2>2. PICK i \in 1..Len(h) : h[i] = z
    BY <2>1 DEF Range
  <2>3. g[i] = z /\ i \in 1..Len(g)
    <3>1. Len(h) \in Nat /\ Len(g) \in Nat
      OBVIOUS
    <3> DEFINE l == Len(h)
               m == Len(g)
    <3>2. l \in Nat /\ m \in Nat /\ l <= m /\ i \in 1..l /\ g[i] = h[i]
      BY <1>1, <2>2, <3>1
    <3> HIDE DEF l, m
    <3>3. i \in 1..m
      BY <3>2
    <3> QED
      BY <2>2, <3>2, <3>3 DEF m
  <2> QED
    BY <2>3 DEF Range
<1> QED
  BY <1>1, <1>2, <1>3

\* Without a gap nothing is passed over.
LEMMA GaplessHasAll ==
    ASSUME NEW g \in Seq(Nat), NEW n, Gapless(g, n), NEW x \in Nat \ {0}, NEW y \in Nat
    PROVE  NonePassed(x, y, g)
<1>1. \A i \in 1..Len(g) : g[i] = i
  BY DEF Gapless
<1>2. ASSUME NEW z \in x..y, z <= LastOf(g)
      PROVE  z \in Range(g)
  <2>1. Len(g) \in Nat /\ (g = <<>> \/ Len(g) # 0)
    BY EmptySeq
  <2>2. g # <<>> /\ Len(g) \in 1..Len(g)
    BY <1>2, <2>1 DEF LastOf
  <2>3. LastOf(g) = Len(g)
    BY <1>1, <2>2 DEF LastOf
  <2>4. z \in 1..Len(g)
    BY <1>2, <2>1, <2>3
  <2> QED
    BY <1>1, <2>4 DEF Range
<1> QED
  BY <1>2 DEF NonePassed

\* A target handles a request: the first one, or any one of a target that never
\* refuses for good.
LEMMA HandleStream ==
    ASSUME NEW lossy, NEW P, NEW it, NEW b, NEW c, NEW w, NEW R,
           NEW T \in Nat, NEW at \in Times(P, T),
           StreamTypes(P, it, b, c, w), StreamAt(lossy, P, it, b, c, w, R, at),
           NEW i \in 1..Len(w), i = 1 \/ ~lossy
    PROVE  /\ StreamAt(lossy, P, it, b, IF w[i].stale THEN c ELSE "handled",
                       RemoveAt(w, i), CheckAll(R, w[i].events), at)
           /\ Progress(R.handled, CheckAll(R, w[i].events).handled,
                       Offset(w[i]), Len(w[i].events))
<1> DEFINE f == Gone(P, b, it)
           v == RemoveAt(w, i)
           e == w[i].events
           o == Offset(w[i])
           n == Len(e)
           S == CheckAll(R, e)
           h == R.handled
           g == S.handled
           d == IF w[i].stale THEN c ELSE "handled"
<1>1. /\ f >= 0 /\ RunOf(b, f, at) /\ RunOf(it, f + Len(b), at)
      /\ WireOK(w, f, P, at) /\ CallOK(c, b, w) /\ CheckerOK(R, P, at)
      /\ Complete(w, f, P, h)
      /\ ~lossy => NoGap(c, f, b, h)
  BY DEF StreamAt
<1>2. f \in Nat /\ w \in Seq(Requests) /\ P \in Nat /\ f + Len(b) + Len(it) = P
      /\ Len(b) \in Nat /\ Len(it) \in Nat /\ w[i] \in Requests
  BY <1>1, GoneType DEF StreamTypes
<1>3. v \in Seq(Requests) /\ Thinned(v, w) /\ Rest(v, w, i)
  BY <1>2, RequestRemoved
<1>4. /\ e \in Seq(Events) /\ n \in Nat /\ e # <<>>
      /\ o \in Nat /\ o <= f /\ o + n <= P /\ RunOf(e, o, at)
      /\ NonePassed(o + 1, o + n, h)
  <2>1. e \in Seq(Events)
    BY <1>2 DEF Requests
  <2>2. RequestOK(w[i], f, P, at) /\ NonePassed(o + 1, o + n, h)
    BY <1>1 DEF WireOK, Complete
  <2> QED
    BY <2>1, <2>2, <1>2 DEF RequestOK
<1>5. CheckerOK(S, P, at) /\ Progress(h, g, o, n)
  <2> HIDE DEF e, o
  <2> QED
    BY <1>1, <1>2, <1>4, CheckRun
<1>6. /\ h \in Seq(Nat) /\ g \in Seq(Nat) /\ LastOf(h) \in Nat /\ LastOf(g) \in Nat
  <2>1. h \in Seq(Nat) /\ Increasing(h)
    BY <1>1 DEF CheckerOK, Receivers, Increasing
  <2>2. g \in Seq(Nat) /\ Increasing(g)
    BY <1>5 DEF CheckerOK, Receivers, Increasing
  <2> HIDE DEF h, g
  <2> QED
    BY <2>1, <2>2, LastIsLargest
<1> HIDE DEF f, v, S
<1>7. WireOK(v, f, P, at) /\ Complete(v, f, P, h)
  BY <1>1, <1>2, <1>3, ThinnedWire
<1>8. ~lossy => Gapless(g, f) /\ Len(h) <= Len(g) /\ o + n <= Len(g)
  <2> SUFFICES ASSUME ~lossy
               PROVE  Gapless(g, f) /\ Len(h) <= Len(g) /\ o + n <= Len(g)
    OBVIOUS
  <2>1. f <= Len(h) /\ \A j \in 1..Len(h) : h[j] = j
    BY <1>1 DEF NoGap, Gapless
  <2> HIDE DEF h, g, e, n, o
  <2>2. Len(h) \in Nat /\ Len(g) \in Nat
    BY <1>6
  <2>3. Gapless(h, o)
    BY <2>1, <2>2, <1>2, <1>4 DEF Gapless
  <2>4. Gapless(g, o + n) /\ Len(h) <= Len(g)
    BY <2>3, <1>5 DEF Progress, Extended
  <2> QED
    BY <2>1, <2>2, <2>4, <1>2 DEF Gapless
<1>9. Complete(v, f, P, g)
  <2>1. NonePassed(f + 1, P, g)
    <3>1. NonePassed(f + 1, P, h)
      BY <1>7 DEF Complete
    <3> HIDE DEF h, g, e, n, o
    <3> QED
      BY <3>1, <1>2, <1>4, <1>5, <1>6, PassedOn, SMTT(30)
  <2>2. ASSUME NEW j \in 1..Len(v)
        PROVE  NonePassed(Offset(v[j]) + 1, Offset(v[j]) + Len(v[j].events), g)
    <3>1. /\ Offset(v[j]) \in Nat /\ v[j] \in Requests /\ Len(v[j].events) \in Nat
          /\ NonePassed(Offset(v[j]) + 1, Offset(v[j]) + Len(v[j].events), h)
      <4>1. v[j] \in Requests
        BY <1>3
      <4>2. v[j].events \in Seq(Events)
        BY <4>1 DEF Requests
      <4>3. RequestOK(v[j], f, P, at)
        BY <1>7 DEF WireOK
      <4>4. Offset(v[j]) \in Nat
        BY <4>3, <1>2 DEF RequestOK
      <4>5. NonePassed(Offset(v[j]) + 1, Offset(v[j]) + Len(v[j].events), h)
        BY <1>7 DEF Complete
      <4> QED
        BY <4>1, <4>2, <4>4, <4>5
    <3>2. CASE ~lossy
      <4>1. Gapless(g, f)
        BY <1>8, <3>2
      <4> HIDE DEF g
      <4> QED
        BY <3>1, <4>1, <1>6, GaplessHasAll, SMTT(30)
    <3>3. CASE lossy
      <4>1. PICK m \in 1..Len(w) : m # i /\ v[j] = w[m]
        BY <1>3 DEF Rest
      <4>2. i = 1 /\ i < m
        BY <3>3, <4>1
      <4>3. o <= Offset(v[j])
        BY <4>1, <4>2, <1>1 DEF WireOK
      <4> HIDE DEF h, g, e, n, o
      <4> DEFINE x == Offset(v[j])
                 y == Len(v[j].events)
      <4>4. x \in Nat /\ y \in Nat /\ o <= x /\ NonePassed(x + 1, x + y, h)
        BY <3>1, <4>3
      <4> HIDE DEF x, y
      <4>5. NonePassed(x + 1, x + y, g)
        BY <4>4, <1>4, <1>5, <1>6, PassedOn, SMTT(30)
      <4> QED
        BY <4>5 DEF x, y
    <3> QED
      BY <3>2, <3>3
  <2> QED
    BY <2>1, <2>2 DEF Complete
<1>10. CallOK(d, b, v)
  BY <1>1, <1>2, CallAnswered DEF d, v
<1>11. ~lossy => NoGap(d, f, b, g)
  <2> SUFFICES ASSUME ~lossy
               PROVE  NoGap(d, f, b, g)
    OBVIOUS
  <2>1. Gapless(g, f) /\ Len(h) <= Len(g) /\ o + n <= Len(g) /\ Len(h) \in Nat /\ Len(g) \in Nat
    BY <1>6, <1>8
  <2>2. CASE w[i].stale
    <3>1. c = "handled" => f + Len(b) <= Len(h)
      BY <1>1 DEF NoGap
    <3> HIDE DEF h, g
    <3> QED
      BY <2>1, <2>2, <3>1, <1>2 DEF NoGap
  <2>3. CASE ~w[i].stale
    <3>1. e = b
      BY <2>3, <1>1 DEF CallOK
    <3>2. 1 \in 1..Len(b)
      BY <3>1, <1>4, EmptySeq
    <3>3. b[1].id = f + 1
      BY <3>2, <1>1 DEF RunOf
    <3>4. o = f /\ n = Len(b)
      BY <3>1, <3>3, <1>2 DEF Offset
    <3> HIDE DEF g, o, n
    <3> QED
      BY <2>1, <2>3, <3>4 DEF NoGap
  <2> QED
    BY <2>2, <2>3
<1>12. StreamAt(lossy, P, it, b, d, v, S, at)
  BY <1>1, <1>5, <1>7, <1>9, <1>10, <1>11 DEF StreamAt, f
<1> QED
  BY <1>5, <1>12 DEF v, S

\* A run of events and the run that follows it.
LEMMA RunsConcat ==
    ASSUME NEW s \in Seq(Events), NEW t \in Seq(Events), NEW f \in Nat, NEW at,
           RunOf(s, f, at), RunOf(t, f + Len(s), at)
    PROVE  s \o t \in Seq(Events) /\ Len(s \o t) = Len(s) + Len(t) /\ RunOf(s \o t, f, at)
<1> DEFINE l == Len(s)
           m == Len(t)
           u == s \o t
<1>1. l \in Nat /\ m \in Nat
  OBVIOUS
<1>2. /\ u \in Seq(Events) /\ Len(u) = l + m
      /\ \A j \in 1..l + m : u[j] = IF j <= l THEN s[j] ELSE t[j - l]
  BY ConcatProperties
<1>3. \A j \in 1..l : s[j].id = f + j /\ s[j].at = at[f + j]
  BY DEF RunOf
<1>4. \A j \in 1..m : t[j].id = (f + l) + j /\ t[j].at = at[(f + l) + j]
  BY DEF RunOf
<1> HIDE DEF l, m, u
<1>5. ASSUME NEW j \in 1..l + m
      PROVE  u[j].id = f + j /\ u[j].at = at[f + j]
  <2>1. CASE j <= l
    <3>1. j \in 1..l /\ u[j] = s[j]
      BY <2>1, <1>1, <1>2
    <3> QED
      BY <3>1, <1>3
  <2>2. CASE ~(j <= l)
    <3>1. j - l \in 1..m /\ (f + l) + (j - l) = f + j
      BY <2>2, <1>1
    <3> QED
      BY <3>1, <2>2, <1>2, <1>4
  <2> QED
    BY <2>1, <2>2
<1>6. RunOf(u, f, at)
  BY <1>2, <1>5 DEF RunOf
<1> QED
  BY <1>2, <1>6 DEF u, l, m

\* The end of a batch that is kept for a retry: its events are again the first
\* items of the key.
LEMMA KeptStream ==
    ASSUME NEW lossy, NEW P, NEW it, NEW b, NEW c, NEW w, NEW R, NEW at,
           StreamTypes(P, it, b, c, w), StreamAt(lossy, P, it, b, c, w, R, at),
           NEW v \in Seq(Requests), Thinned(v, w), \A j \in 1..Len(v) : v[j].stale
    PROVE  StreamAt(lossy, P, b \o it, <<>>, "none", v, R, at)
<1> DEFINE f == Gone(P, b, it)
<1>1. /\ f >= 0 /\ RunOf(b, f, at) /\ RunOf(it, f + Len(b), at)
      /\ WireOK(w, f, P, at) /\ CheckerOK(R, P, at) /\ Complete(w, f, P, R.handled)
      /\ ~lossy => NoGap(c, f, b, R.handled)
  BY DEF StreamAt
<1>2. f \in Nat /\ w \in Seq(Requests) /\ P \in Nat /\ f + Len(b) + Len(it) = P
      /\ b \in Seq(Events) /\ it \in Seq(Events) /\ Len(b) \in Nat /\ Len(it) \in Nat
  BY <1>1, GoneType DEF StreamTypes
<1> HIDE DEF f
<1>3. Len(b \o it) = Len(b) + Len(it) /\ RunOf(b \o it, f, at)
  BY <1>1, <1>2, RunsConcat
<1>4. Gone(P, <<>>, b \o it) = f
  BY <1>2, <1>3 DEF Gone
<1>5. WireOK(v, f, P, at) /\ Complete(v, f, P, R.handled)
  BY <1>1, <1>2, ThinnedWire
<1>6. RunOf(<<>>, f, at) /\ RunOf(b \o it, f + Len(<<>>), at)
  <2>1. f + Len(<<>>) = f
    BY <1>2
  <2> QED
    BY <2>1, <1>3 DEF RunOf
<1>7. CallOK("none", <<>>, v)
  BY DEF CallOK
<1>8. ~lossy => NoGap("none", f, <<>>, R.handled)
  BY <1>1 DEF NoGap
<1> QED
  BY <1>1, <1>2, <1>4, <1>5, <1>6, <1>7, <1>8 DEF StreamAt

\* The end of a batch that is not kept, because it was handled or refused.
LEMMA DroppedStream ==
    ASSUME NEW lossy, NEW P, NEW it, NEW b, NEW c, NEW w, NEW R, NEW at,
           StreamTypes(P, it, b, c, w), StreamAt(lossy, P, it, b, c, w, R, at),
           NEW v \in Seq(Requests), Thinned(v, w), \A j \in 1..Len(v) : v[j].stale,
           lossy \/ c = "handled"
    PROVE  StreamAt(lossy, P, it, <<>>, "none", v, R, at)
<1> DEFINE f == Gone(P, b, it)
           d == f + Len(b)
<1>1. /\ f >= 0 /\ RunOf(b, f, at) /\ RunOf(it, f + Len(b), at)
      /\ WireOK(w, f, P, at) /\ CheckerOK(R, P, at) /\ Complete(w, f, P, R.handled)
      /\ ~lossy => NoGap(c, f, b, R.handled)
  BY DEF StreamAt
<1>2. f \in Nat /\ w \in Seq(Requests) /\ P \in Nat /\ f + Len(b) + Len(it) = P
      /\ Len(b) \in Nat /\ Len(it) \in Nat
  BY <1>1, GoneType DEF StreamTypes
<1> HIDE DEF f
<1>3. d \in Nat /\ f <= d
  BY <1>2
<1>4. Gone(P, <<>>, it) = d
  BY <1>2 DEF Gone
<1>5. WireOK(v, d, P, at) /\ Complete(v, d, P, R.handled)
  <2> HIDE DEF d
  <2> QED
    BY <1>1, <1>2, <1>3, ThinnedWire
<1>6. RunOf(<<>>, d, at) /\ RunOf(it, d + Len(<<>>), at)
  <2>1. d + Len(<<>>) = d
    BY <1>3
  <2> QED
    BY <2>1, <1>1 DEF RunOf
<1>7. CallOK("none", <<>>, v)
  BY DEF CallOK
<1>8. ~lossy => NoGap("none", d, <<>>, R.handled)
  BY <1>1 DEF NoGap, Gapless
<1> HIDE DEF d
<1> QED
  BY <1>1, <1>3, <1>4, <1>5, <1>6, <1>7, <1>8 DEF StreamAt

\* The two parts of a run of events.
LEMMA RunsSplit ==
    ASSUME NEW s \in Seq(Events), NEW m \in 1..Len(s), NEW f \in Nat, NEW at, RunOf(s, f, at)
    PROVE  /\ SubSeq(s, 1, m) \in Seq(Events) /\ Len(SubSeq(s, 1, m)) = m
           /\ SubSeq(s, m + 1, Len(s)) \in Seq(Events)
           /\ Len(SubSeq(s, m + 1, Len(s))) = Len(s) - m
           /\ RunOf(SubSeq(s, 1, m), f, at) /\ RunOf(SubSeq(s, m + 1, Len(s)), f + m, at)
<1> DEFINE l == Len(s)
           a == SubSeq(s, 1, m)
           b == SubSeq(s, m + 1, l)
<1>1. l \in Nat /\ m \in 1..l /\ \A j \in 1..l : s[j] \in Events
  OBVIOUS
<1>2. \A j \in 1..l : s[j].id = f + j /\ s[j].at = at[f + j]
  BY DEF RunOf
<1>3. /\ a \in Seq(Events) /\ Len(a) = (IF 1 <= m THEN m - 1 + 1 ELSE 0)
      /\ \A j \in 1..m - 1 + 1 : a[j] = s[1 + j - 1]
  BY <1>1, SubSeqProperties
<1>4. /\ b \in Seq(Events) /\ Len(b) = (IF m + 1 <= l THEN l - (m + 1) + 1 ELSE 0)
      /\ \A j \in 1..l - (m + 1) + 1 : b[j] = s[m + 1 + j - 1]
  BY <1>1, SubSeqProperties
<1> HIDE DEF a, b, l
<1>5. Len(a) = m /\ Len(b) = l - m
  BY <1>1, <1>3, <1>4
<1>6. ASSUME NEW j \in 1..m
      PROVE  a[j].id = f + j /\ a[j].at = at[f + j]
  <2>1. j \in 1..m - 1 + 1 /\ 1 + j - 1 = j /\ j \in 1..l
    BY <1>1
  <2> QED
    BY <2>1, <1>2, <1>3
<1>7. ASSUME NEW j \in 1..l - m
      PROVE  b[j].id = (f + m) + j /\ b[j].at = at[(f + m) + j]
  <2>1. j \in 1..l - (m + 1) + 1 /\ m + 1 + j - 1 = m + j /\ m + j \in 1..l
    BY <1>1
  <2>2. b[j] = s[m + j]
    BY <2>1, <1>4
  <2>3. f + (m + j) = (f + m) + j
    BY <1>1
  <2> QED
    BY <2>1, <2>2, <2>3, <1>2
<1>8. RunOf(a, f, at) /\ RunOf(b, f + m, at)
  BY <1>5, <1>6, <1>7 DEF RunOf
<1> QED
  BY <1>3, <1>4, <1>5, <1>8 DEF a, b, l

\* A batch is started: the first items become a request.
LEMMA StartStream ==
    ASSUME NEW lossy, NEW P, NEW it, NEW b, NEW w, NEW R, NEW at,
           StreamTypes(P, it, b, "none", w), StreamAt(lossy, P, it, b, "none", w, R, at),
           NEW m \in 1..Len(it)
    PROVE  LET a == SubSeq(it, 1, m)
           IN  /\ a \in Seq(Events) /\ SubSeq(it, m + 1, Len(it)) \in Seq(Events)
               /\ Append(w, [events |-> a, stale |-> FALSE]) \in Seq(Requests)
               /\ StreamAt(lossy, P, SubSeq(it, m + 1, Len(it)), a, "made",
                           Append(w, [events |-> a, stale |-> FALSE]), R, at)
<1> DEFINE f == Gone(P, b, it)
           a == SubSeq(it, 1, m)
           z == SubSeq(it, m + 1, Len(it))
           r == [events |-> a, stale |-> FALSE]
           v == Append(w, r)
           l == Len(w)
           h == R.handled
<1>1. /\ f >= 0 /\ RunOf(b, f, at) /\ RunOf(it, f + Len(b), at)
      /\ WireOK(w, f, P, at) /\ CallOK("none", b, w) /\ CheckerOK(R, P, at)
      /\ Complete(w, f, P, h)
      /\ ~lossy => NoGap("none", f, b, h)
  BY DEF StreamAt
<1>2. /\ f \in Nat /\ w \in Seq(Requests) /\ P \in Nat /\ f + Len(b) + Len(it) = P
      /\ it \in Seq(Events) /\ Len(it) \in Nat /\ l \in Nat
  BY <1>1, GoneType DEF StreamTypes
<1>3. b = <<>> /\ Len(b) = 0
  BY <1>1 DEF CallOK
<1> HIDE DEF f
<1>4. f + Len(b) = f /\ f + Len(it) = P /\ m \in Nat /\ 1 <= m /\ m <= Len(it)
  BY <1>2, <1>3
<1>5. /\ a \in Seq(Events) /\ Len(a) = m /\ z \in Seq(Events) /\ Len(z) = Len(it) - m
      /\ RunOf(a, f, at) /\ RunOf(z, f + m, at)
  BY <1>1, <1>2, <1>4, RunsSplit
<1> HIDE DEF a, z
<1>6. r \in Requests /\ r.events = a /\ r.stale = FALSE
  BY <1>5 DEF Requests
<1> HIDE DEF r
<1>7. /\ v \in Seq(Requests) /\ Len(v) = l + 1 /\ v[l + 1] = r
      /\ \A i \in 1..l : v[i] = w[i]
  BY <1>2, <1>6
<1>8. \A i \in 1..l + 1 : i \in 1..l \/ i = l + 1
  BY <1>2
<1> HIDE DEF v, l
<1>9. Gone(P, a, z) = f
  BY <1>2, <1>4, <1>5 DEF Gone
<1>10. Offset(r) = f
  <2>1. a[1].id = f + 1
    BY <1>4, <1>5 DEF RunOf
  <2> QED
    BY <2>1, <1>2, <1>6 DEF Offset
<1>11. WireOK(v, f, P, at)
  <2>1. RequestOK(r, f, P, at)
    <3>1. a # <<>>
      BY <1>4, <1>5
    <3> QED
      <4>1. Offset(r) \in 0..f /\ Offset(r) + Len(r.events) <= P
        BY <1>2, <1>4, <1>5, <1>6, <1>10
      <4>2. RunOf(r.events, Offset(r), at) /\ r.events # <<>>
        BY <3>1, <1>5, <1>6, <1>10
      <4> QED
        BY <4>1, <4>2 DEF RequestOK
  <2>2. \A i \in 1..l : RequestOK(w[i], f, P, at)
    BY <1>1 DEF WireOK, l
  <2>3. \A i \in 1..l : Offset(w[i]) <= f
    BY <2>2, <1>2 DEF RequestOK
  <2>4. \A i, j \in 1..l : i < j => Offset(w[i]) <= Offset(w[j])
    BY <1>1 DEF WireOK, l
  <2>5. \A i \in 1..l + 1 : RequestOK(v[i], f, P, at)
    BY <2>1, <2>2, <1>7, <1>8
  <2>6. ASSUME NEW i \in 1..l + 1, NEW j \in 1..l + 1, i < j
        PROVE  Offset(v[i]) <= Offset(v[j])
    <3>1. i \in 1..l
      BY <2>6, <1>2, <1>8
    <3>2. CASE j \in 1..l
      BY <3>1, <3>2, <2>4, <2>6, <1>7
    <3>3. CASE j = l + 1
      BY <3>1, <3>3, <2>3, <1>7, <1>10
    <3> QED
      BY <3>2, <3>3, <1>8
  <2> QED
    BY <2>5, <2>6, <1>7 DEF WireOK
<1>12. CallOK("made", a, v)
  BY <1>1, <1>2, <1>5, CallStarted DEF v, r
<1>13. Complete(v, f, P, h)
  <2>1. NonePassed(f + 1, P, h)
    BY <1>1 DEF Complete
  <2>2. NonePassed(Offset(r) + 1, Offset(r) + Len(r.events), h)
    <3>1. f + m <= P /\ r.events = a
      BY <1>2, <1>4, <1>6
    <3> QED
      BY <3>1, <2>1, <1>2, <1>4, <1>5, <1>10 DEF NonePassed
  <2>3. \A i \in 1..l : NonePassed(Offset(w[i]) + 1, Offset(w[i]) + Len(w[i].events), h)
    BY <1>1 DEF Complete, l
  <2>4. ASSUME NEW i \in 1..l + 1
        PROVE  NonePassed(Offset(v[i]) + 1, Offset(v[i]) + Len(v[i].events), h)
    BY <2>2, <2>3, <1>7, <1>8
  <2> QED
    BY <2>1, <2>4, <1>7 DEF Complete
<1>14. ~lossy => NoGap("made", f, a, h)
  BY <1>1 DEF NoGap
<1>15. StreamAt(lossy, P, z, a, "made", v, R, at)
  BY <1>1, <1>2, <1>5, <1>9, <1>11, <1>12, <1>13, <1>14 DEF StreamAt
<1> QED
  BY <1>5, <1>7, <1>15 DEF a, z, r, v

\* New events are created: they come after all the others.
LEMMA PushStream ==
    ASSUME NEW lossy, NEW P, NEW it, NEW b, NEW c, NEW w, NEW R, NEW T \in Nat \ {0},
           StreamTypes(P, it, b, c, w), StreamOK(lossy, P, it, b, c, w, R, T),
           NEW n \in Nat
    PROVE  LET new == [i \in 1..n |-> [id |-> P + i, at |-> T]]
           IN  /\ it \o new \in Seq(Events) /\ Len(it \o new) = Len(it) + n
               /\ StreamOK(lossy, P + n, it \o new, b, c, w, R, T)
<1>1. PICK at \in Times(P, T) : StreamAt(lossy, P, it, b, c, w, R, at)
  BY DEF StreamOK
<1> DEFINE f == Gone(P, b, it)
           new == [i \in 1..n |-> [id |-> P + i, at |-> T]]
           Q == P + n
           au == [x \in 1..Q |-> IF x <= P THEN at[x] ELSE T]
           h == R.handled
<1>2. /\ f >= 0 /\ RunOf(b, f, at) /\ RunOf(it, f + Len(b), at)
      /\ WireOK(w, f, P, at) /\ CallOK(c, b, w) /\ CheckerOK(R, P, at)
      /\ Complete(w, f, P, h)
      /\ ~lossy => NoGap(c, f, b, h)
  BY <1>1 DEF StreamAt
<1>3. /\ f \in Nat /\ w \in Seq(Requests) /\ P \in Nat /\ f + Len(b) + Len(it) = P
      /\ it \in Seq(Events) /\ b \in Seq(Events) /\ Len(it) \in Nat /\ Len(b) \in Nat
  BY <1>2, GoneType DEF StreamTypes
<1> HIDE DEF f, h
<1>4. /\ at \in [1..P -> 1..T] /\ \A x, y \in 1..P : x <= y => at[x] <= at[y]
  BY DEF Times
<1>5. /\ Q \in Nat /\ P <= Q /\ \A x \in 1..P : x \in 1..Q /\ au[x] = at[x]
      /\ \A x \in 1..Q : x \in 1..P \/ (x > P /\ au[x] = T)
  <2>1. Q \in Nat /\ P <= Q
    BY <1>3
  <2>2. \A x \in 1..P : x \in 1..Q /\ x <= P
    BY <1>3
  <2>3. \A x \in 1..Q : x \in 1..P \/ (x > P /\ ~(x <= P))
    BY <1>3
  <2> HIDE DEF Q
  <2> QED
    BY <2>1, <2>2, <2>3
<1>6. au \in Times(Q, T)
  <2>1. \A x \in 1..Q : au[x] \in 1..T
    BY <1>3, <1>4
  <2>2. au \in [1..Q -> 1..T]
    BY <2>1
  <2> HIDE DEF au, Q
  <2>3. ASSUME NEW x \in 1..Q, NEW y \in 1..Q, x <= y
        PROVE  au[x] <= au[y]
    <3>1. CASE y \in 1..P
      <4>1. x \in 1..P
        BY <3>1, <2>3, <1>3, <1>5
      <4> QED
        BY <3>1, <4>1, <2>3, <1>4, <1>5
    <3>2. CASE y > P /\ au[y] = T
      BY <3>2, <2>1
    <3> QED
      BY <3>1, <3>2, <1>5
  <2> QED
    BY <2>2, <2>3 DEF Times
<1>7. /\ new \in Seq(Events) /\ Len(new) = n
      /\ \A j \in 1..n : new[j].id = P + j /\ new[j].at = T
  <2>1. \A j \in 1..n : [id |-> P + j, at |-> T] \in Events
    BY <1>3 DEF Events
  <2> QED
    BY <2>1
<1>8. au = [x \in 1..Q |-> au[x]] /\ \A x \in 1..n : P + x \in 1..Q /\ P + x > P
  BY <1>3
<1> HIDE DEF new, au, Q
<1>9. RunOf(new, P, au)
  <2>1. ASSUME NEW j \in 1..n
        PROVE  new[j].id = P + j /\ new[j].at = au[P + j]
    <3>1. P + j \in 1..Q /\ ~(P + j \in 1..P)
      BY <1>3, <1>8
    <3> QED
      BY <3>1, <1>5, <1>7
  <2> QED
    BY <2>1, <1>7 DEF RunOf
<1>10. ASSUME NEW s \in Seq(Events), NEW e \in Nat, RunOf(s, e, at), e + Len(s) <= P
       PROVE  RunOf(s, e, au)
  <2>1. \A j \in 1..Len(s) : e + j \in 1..P
    BY <1>10, <1>3
  <2> QED
    BY <2>1, <1>5, <1>10 DEF RunOf
<1>11. RunOf(b, f, au) /\ RunOf(it, f + Len(b), au)
  <2>1. f + Len(b) <= P /\ f + Len(b) \in Nat /\ (f + Len(b)) + Len(it) <= P
    BY <1>3
  <2> QED
    BY <2>1, <1>2, <1>3, <1>10
<1>12. /\ it \o new \in Seq(Events) /\ Len(it \o new) = Len(it) + n
       /\ RunOf(it \o new, f + Len(b), au)
  <2>1. f + Len(b) \in Nat /\ (f + Len(b)) + Len(it) = P
    BY <1>3
  <2> QED
    BY <2>1, <1>3, <1>7, <1>9, <1>11, RunsConcat
<1>13. Gone(Q, b, it \o new) = f
  <2>1. \A s : Len(s) = Len(it) + n => Gone(Q, b, s) = f
    BY <1>3, SMTT(30) DEF Gone, Q
  <2> QED
    BY <2>1, <1>12
<1>14. WireOK(w, f, Q, au)
  <2>1. ASSUME NEW i \in 1..Len(w)
        PROVE  RequestOK(w[i], f, Q, au)
    <3>1. RequestOK(w[i], f, P, at) /\ w[i].events \in Seq(Events)
      <4>1. RequestOK(w[i], f, P, at) /\ w[i] \in Requests
        BY <1>2, <1>3 DEF WireOK
      <4> QED
        BY <4>1 DEF Requests
    <3>2. /\ w[i].events # <<>> /\ Offset(w[i]) \in 0..f
          /\ Offset(w[i]) + Len(w[i].events) <= P
          /\ RunOf(w[i].events, Offset(w[i]), at)
      BY <3>1 DEF RequestOK
    <3>3. RunOf(w[i].events, Offset(w[i]), au)
      BY <3>1, <3>2, <1>3, <1>10
    <3>4. Offset(w[i]) + Len(w[i].events) <= Q
      <4>1. Len(w[i].events) \in Nat /\ Offset(w[i]) \in Nat
        BY <3>1, <3>2, <1>3
      <4> QED
        BY <4>1, <3>2, <1>3, <1>5
    <3> QED
      BY <3>2, <3>3, <3>4 DEF RequestOK
  <2> QED
    BY <2>1, <1>2 DEF WireOK
<1>15. CheckerOK(R, Q, au)
  <2>1. /\ R \in Receivers
        /\ \A i, j \in 1..Len(R.handled) : i < j => R.handled[i] < R.handled[j]
        /\ \A i \in 1..Len(R.handled) : R.handled[i] \in 1..P
        /\ R.latest = IF R.handled = <<>> THEN 0 ELSE at[LastOf(R.handled)]
        /\ \A x \in Range(R.handled) : at[x] = R.latest => x \in R.ids
        /\ R.ids \subseteq Range(R.handled)
    BY <1>2 DEF CheckerOK
  <2>2. R.handled \in Seq(Nat) /\ \A x \in Range(R.handled) : x \in 1..P
    BY <2>1 DEF Receivers, Range
  <2>3. R.handled # <<>> => LastOf(R.handled) \in 1..P
    <3>1. R.handled # <<>> => Len(R.handled) \in 1..Len(R.handled)
      BY <2>2, EmptySeq
    <3> QED
      BY <3>1, <2>1 DEF LastOf
  <2> QED
    BY <2>1, <2>2, <2>3, <1>5 DEF CheckerOK
<1>16. Complete(w, f, Q, h)
  <2>1. h \in Seq(Nat) /\ LastOf(h) <= P
    <3>1. h \in Seq(Nat) /\ \A i \in 1..Len(h) : h[i] \in 1..P
      BY <1>2 DEF CheckerOK, Receivers, h
    <3>2. h # <<>> => Len(h) \in 1..Len(h)
      BY <3>1, EmptySeq
    <3> QED
      BY <3>1, <3>2, <1>3 DEF LastOf
  <2>2. LastOf(h) \in Nat
    <3>1. Increasing(h)
      BY <1>2 DEF CheckerOK, Increasing, h
    <3> QED
      BY <3>1, <2>1, LastIsLargest
  <2>3. NonePassed(f + 1, Q, h)
    BY <2>1, <2>2, <1>2, <1>3, <1>5 DEF Complete, NonePassed
  <2> QED
    BY <2>3, <1>2 DEF Complete
<1>17. StreamAt(lossy, Q, it \o new, b, c, w, R, au)
  BY <1>2, <1>11, <1>12, <1>13, <1>14, <1>15, <1>16 DEF StreamAt, h
<1>18. StreamOK(lossy, Q, it \o new, b, c, w, R, T)
  BY <1>6, <1>17 DEF StreamOK
<1> QED
  BY <1>12, <1>18 DEF new, Q

\* Time passes.
LEMMA TickStream ==
    ASSUME NEW lossy, NEW P, NEW it, NEW b, NEW c, NEW w, NEW R, NEW T \in Nat,
           StreamOK(lossy, P, it, b, c, w, R, T)
    PROVE  StreamOK(lossy, P, it, b, c, w, R, T + 1)
<1>1. PICK at \in Times(P, T) : StreamAt(lossy, P, it, b, c, w, R, at)
  BY DEF StreamOK
<1>2. 1..T \subseteq 1..T + 1
  OBVIOUS
<1>3. at \in Times(P, T + 1)
  BY <1>2 DEF Times
<1> QED
  BY <1>1, <1>3 DEF StreamOK

------------------------------------------------------------------------------
(* The sender.                                                              *)

\* flush pops a part of the queue.
LEMMA PoppedType ==
    ASSUME NEW q \in Seq(Targets), NEW it
    PROVE  Popped(q, it) \in 0..Len(q)
<1> DEFINE free == {n \in 0..Len(q) :
            Cardinality(inProgress) + Cardinality(Startable(q, it, n)) < MaxConcurrency}
<1>1. Len(q) \in Nat /\ free \in SUBSET (0..Len(q))
  OBVIOUS
<1>2. Popped(q, it) = IF free = {} THEN 0 ELSE Smaller(Len(q), 1 + Max(free))
  BY DEF Popped
<1> HIDE DEF free
<1>3. CASE free = {}
  BY <1>1, <1>2, <1>3
<1>4. CASE free # {}
  <2>1. Max(free) \in 0..Len(q)
    BY <1>1, <1>4, MaxOfBounded
  <2> QED
    BY <1>1, <1>2, <1>4, <2>1 DEF Smaller
<1> QED
  BY <1>3, <1>4

\* What flush does to a key that it starts, and to another one.
FlushEffect(q, it, started) ==
    /\ \A k \in Targets : it[k] # <<>> => k \in Range(queue') \/ k \in started
          \/ k \in inProgress \/ k \notin Range(q)
    /\ queue' \in Seq(Targets) /\ inProgress' = inProgress \union started
    /\ items' = [k \in Targets |-> items'[k]]
    /\ batch' = [k \in Targets |-> batch'[k]]
    /\ call' = [k \in Targets |-> call'[k]]
    /\ wire' = [k \in Targets |-> wire'[k]]
    /\ \A k \in Targets : k \in started =>
          /\ it[k] # <<>> /\ k \notin inProgress
          /\ call'[k] = "made"
          /\ \E m \in 1..Len(it[k]) :
                /\ items'[k] = SubSeq(it[k], m + 1, Len(it[k]))
                /\ batch'[k] = SubSeq(it[k], 1, m)
                /\ wire'[k] = Append(wire[k],
                      [events |-> SubSeq(it[k], 1, m), stale |-> FALSE])
    /\ \A k \in Targets : k \notin started =>
          /\ items'[k] = it[k] /\ batch'[k] = batch[k]
          /\ call'[k] = call[k] /\ wire'[k] = wire[k]

LEMMA FlushOfKey ==
    ASSUME ConstantsAssumption, NEW q \in Seq(Targets), NEW it \in [Targets -> Seq(Events)],
           Flush(q, it)
    PROVE  \E started \in SUBSET Targets : FlushEffect(q, it, started)
<1> DEFINE p == Popped(q, it)
           started == Startable(q, it, p)
           m == [k \in Targets |-> Smaller(BatchSize, Len(it[k]))]
           l == Len(q)
<1>1. p \in 0..l /\ l \in Nat /\ DOMAIN q = 1..l /\ \A i \in 1..l : q[i] \in Targets
  BY PoppedType
<1>2. /\ queue' = SubSeq(q, p + 1, l)
      /\ inProgress' = inProgress \union started
      /\ items' = [k \in Targets |-> IF k \in started
              THEN SubSeq(it[k], m[k] + 1, Len(it[k])) ELSE it[k]]
      /\ batch' = [k \in Targets |-> IF k \in started THEN SubSeq(it[k], 1, m[k]) ELSE batch[k]]
      /\ call' = [k \in Targets |-> IF k \in started THEN "made" ELSE call[k]]
      /\ wire' = [k \in Targets |-> IF k \in started
              THEN Append(wire[k], [events |-> SubSeq(it[k], 1, m[k]), stale |-> FALSE])
              ELSE wire[k]]
  BY DEF Flush
<1>3. started = {k \in Range(SubSeq(q, 1, p)) : it[k] # <<>> /\ k \notin inProgress}
  BY DEF Startable
<1> HIDE DEF p, started
<1>4. \A x : x \in Range(SubSeq(q, 1, p)) <=> \E i \in 1..p : q[i] = x
  <2> DEFINE a == SubSeq(q, 1, p)
  <2>1. DOMAIN a = 1..p /\ \A i \in 1..p : a[i] = q[i]
    <3>1. CASE p = 0
      <4>1. a = <<>>
        BY <3>1, <1>1
      <4> QED
        BY <3>1, <4>1
    <3>2. CASE p # 0
      BY <1>1, <3>2
    <3> QED
      BY <3>1, <3>2
  <2> HIDE DEF a
  <2>2. \A x : x \in Range(a) <=> \E i \in 1..p : q[i] = x
    BY <2>1 DEF Range
  <2> QED
    BY <2>2 DEF a
<1>5. started \in SUBSET Targets
  <2>1. ASSUME NEW k \in started
        PROVE  k \in Targets
    <3>1. k \in Range(SubSeq(q, 1, p))
      BY <1>3
    <3>2. PICK i \in 1..p : q[i] = k
      BY <1>4, <3>1
    <3>3. i \in 1..l
      BY <1>1
    <3> QED
      BY <1>1, <3>2, <3>3
  <2> QED
    BY <2>1
<1>6. /\ queue' \in Seq(Targets)
      /\ \A i \in p + 1..l : q[i] \in Range(queue')
  <2> DEFINE z == SubSeq(q, p + 1, l)
  <2>3. \A i \in p + 1..l : q[i] \in Targets
    BY <1>1
  <2>1. /\ z \in Seq(Targets) /\ Len(z) = (IF p + 1 <= l THEN l - (p + 1) + 1 ELSE 0)
        /\ \A i \in 1..l - (p + 1) + 1 : z[i] = q[p + 1 + i - 1]
    <3> DEFINE a == p + 1
    <3>1. a \in Int /\ l \in Int /\ \A i \in a..l : q[i] \in Targets
      BY <1>1, <2>3
    <3> HIDE DEF a, l
    <3>2. /\ SubSeq(q, a, l) \in Seq(Targets)
          /\ Len(SubSeq(q, a, l)) = (IF a <= l THEN l - a + 1 ELSE 0)
          /\ \A i \in 1..l - a + 1 : SubSeq(q, a, l)[i] = q[a + i - 1]
      BY <3>1, SubSeqProperties
    <3> QED
      BY <3>2 DEF a
  <2> HIDE DEF z, l
  <2>2. ASSUME NEW i \in p + 1..l
        PROVE  q[i] \in Range(z)
    <3>1. /\ i - p \in 1..l - (p + 1) + 1 /\ p + 1 + (i - p) - 1 = i /\ p + 1 <= l
          /\ i - p \in 1..Len(z)
      BY <1>1, <2>1
    <3>2. z[i - p] = q[i]
      BY <2>1, <3>1
    <3>3. i - p \in DOMAIN z
      BY <2>1, <3>1
    <3> QED
      BY <3>2, <3>3 DEF Range
  <2> QED
    BY <2>1, <2>2, <1>2 DEF z
<1>7. ASSUME NEW k \in Targets, it[k] # <<>>
      PROVE  k \in Range(queue') \/ k \in started \/ k \in inProgress \/ k \notin Range(q)
  <2> SUFFICES ASSUME k \in Range(q), k \notin inProgress
               PROVE  k \in Range(queue') \/ k \in started
    OBVIOUS
  <2>1. PICK i \in 1..l : q[i] = k
    BY <1>1 DEF Range
  <2>2. i \in 1..p \/ i \in p + 1..l
    BY <1>1
  <2> QED
    BY <2>1, <2>2, <1>3, <1>4, <1>6, <1>7
<1>8. ASSUME NEW k \in Targets, k \in started
      PROVE  /\ it[k] # <<>> /\ k \notin inProgress
             /\ call'[k] = "made" /\ m[k] \in 1..Len(it[k])
             /\ items'[k] = SubSeq(it[k], m[k] + 1, Len(it[k]))
             /\ batch'[k] = SubSeq(it[k], 1, m[k])
             /\ wire'[k] = Append(wire[k], [events |-> SubSeq(it[k], 1, m[k]), stale |-> FALSE])
  <2>1. it[k] # <<>> /\ k \notin inProgress
    BY <1>3, <1>8
  <2>2. Len(it[k]) \in Nat /\ Len(it[k]) # 0
    BY <2>1, EmptySeq
  <2>3. m[k] \in 1..Len(it[k])
    BY <2>2 DEF Smaller, ConstantsAssumption
  <2> HIDE DEF m
  <2> QED
    BY <2>1, <2>3, <1>2, <1>8
<1>9. /\ items' = [k \in Targets |-> items'[k]]
      /\ batch' = [k \in Targets |-> batch'[k]]
      /\ call' = [k \in Targets |-> call'[k]]
      /\ wire' = [k \in Targets |-> wire'[k]]
  BY <1>2
<1>10. \A k \in Targets : k \notin started =>
          /\ items'[k] = it[k] /\ batch'[k] = batch[k]
          /\ call'[k] = call[k] /\ wire'[k] = wire[k]
  BY <1>2
<1>11. inProgress' = inProgress \union started
  BY <1>2
<1> HIDE DEF m
<1>12. \A k \in Targets : k \in started =>
          /\ it[k] # <<>> /\ k \notin inProgress /\ call'[k] = "made"
          /\ \E n \in 1..Len(it[k]) :
                /\ items'[k] = SubSeq(it[k], n + 1, Len(it[k]))
                /\ batch'[k] = SubSeq(it[k], 1, n)
                /\ wire'[k] = Append(wire[k], [events |-> SubSeq(it[k], 1, n), stale |-> FALSE])
  BY <1>8
<1> QED
  BY <1>5, <1>6, <1>7, <1>9, <1>10, <1>11, <1>12 DEF FlushEffect

\* Every key with items of it is in q or in progress.
Scheduled(q, it) == \A k \in Targets : it[k] # <<>> => k \in Range(q) \union inProgress

\* flush starts the keys that it pops, unless they have no items or are in
\* progress.
LEMMA FlushKeepsSender ==
    ASSUME ConstantsAssumption, SenderTypes, Busy, NEW q \in Seq(Targets),
           NEW it \in [Targets -> Seq(Events)], Scheduled(q, it), Flush(q, it),
           now' = now, pushed' \in [Targets -> Nat]
    PROVE  SenderInv'
<1>1. PICK started \in SUBSET Targets : FlushEffect(q, it, started)
  BY FlushOfKey
<1>2. ASSUME NEW k \in Targets
      PROVE  /\ items'[k] \in Seq(Events) /\ batch'[k] \in Seq(Events)
             /\ call'[k] \in Calls /\ wire'[k] \in Seq(Requests)
  <2>1. CASE k \notin started
    BY <2>1, <1>1 DEF SenderTypes, Calls, FlushEffect
  <2>2. CASE k \in started
    <3>1. PICK m \in 1..Len(it[k]) :
            /\ items'[k] = SubSeq(it[k], m + 1, Len(it[k]))
            /\ batch'[k] = SubSeq(it[k], 1, m)
            /\ wire'[k] = Append(wire[k], [events |-> SubSeq(it[k], 1, m), stale |-> FALSE])
      BY <2>2, <1>1 DEF FlushEffect
    <3> DEFINE s == it[k]
               a == SubSeq(s, 1, m)
               r == [events |-> a, stale |-> FALSE]
    <3>2. s \in Seq(Events) /\ m \in 1..Len(s) /\ wire[k] \in Seq(Requests)
      BY DEF SenderTypes
    <3>3. a \in Seq(Events) /\ SubSeq(s, m + 1, Len(s)) \in Seq(Events)
      <4> HIDE DEF s
      <4>1. Len(s) \in Nat /\ m \in Nat /\ m <= Len(s) /\ \A i \in 1..Len(s) : s[i] \in Events
        BY <3>2
      <4> QED
        BY <3>2, <4>1
    <3> HIDE DEF a
    <3>4. r \in Requests
      BY <3>3 DEF Requests
    <3> HIDE DEF r
    <3>5. Append(wire[k], r) \in Seq(Requests)
      BY <3>2, <3>4
    <3> QED
      BY <2>2, <1>1, <3>1, <3>3, <3>5 DEF Calls, a, r, FlushEffect
  <2> QED
    BY <2>1, <2>2
<1>3. SenderTypes'
  <2>1. /\ items' \in [Targets -> Seq(Events)] /\ batch' \in [Targets -> Seq(Events)]
        /\ call' \in [Targets -> Calls] /\ wire' \in [Targets -> Seq(Requests)]
    BY <1>1, <1>2 DEF FlushEffect
  <2>2. timer' \in BOOLEAN
    BY DEF Flush, SenderTypes
  <2> QED
    BY <2>1, <2>2, <1>1 DEF SenderTypes, Calls, FlushEffect
<1>4. Busy'
  <2>1. ASSUME NEW k \in Targets, k \in started
        PROVE  CallOK(call'[k], batch'[k], wire'[k])
    <3>1. /\ k \notin inProgress /\ call'[k] = "made"
          /\ wire'[k] = Append(wire[k], [events |-> batch'[k], stale |-> FALSE])
      BY <2>1, <1>1 DEF FlushEffect
    <3>2. CallOK("none", batch[k], wire[k])
      BY <3>1 DEF Busy
    <3>3. wire[k] \in Seq(Requests)
      BY DEF SenderTypes
    <3> QED
      BY <3>1, <3>2, <3>3, <1>2, CallStarted
  <2>2. ASSUME NEW k \in Targets
        PROVE  (call'[k] = "none" <=> k \notin inProgress') /\ CallOK(call'[k], batch'[k], wire'[k])
    <3>1. CASE k \in started
      BY <3>1, <2>1, <1>1 DEF FlushEffect
    <3>2. CASE k \notin started
      BY <3>2, <1>1 DEF Busy, FlushEffect
    <3> QED
      BY <3>1, <3>2
  <2> QED
    BY <2>2 DEF Busy
<1>5. KeysScheduled'
  <2>1. ASSUME NEW k \in Targets, items'[k] # <<>>
        PROVE  k \in Range(queue') \union inProgress'
    <3>1. CASE k \in started
      BY <3>1, <1>1 DEF FlushEffect
    <3>2. CASE k \notin started
      BY <2>1, <3>2, <1>1 DEF Scheduled, FlushEffect
    <3> QED
      BY <3>1, <3>2
  <2> QED
    BY <2>1 DEF KeysScheduled
<1> QED
  BY <1>3, <1>4, <1>5 DEF SenderInv

\* What follows the events of a target when n are pushed.
NewEvents(k, n) == [i \in 1..n |-> [id |-> pushed[k] + i, at |-> now]]
QueueWith(k) == IF items[k] = <<>> THEN Append(queue, k) ELSE queue
ItemsWith(k, n) == [items EXCEPT ![k] = items[k] \o NewEvents(k, n)]

\* The queue and the items of a push.
LEMMA PushedItems ==
    ASSUME SenderTypes, KeysScheduled, NEW k \in Targets, NEW n \in Nat
    PROVE  /\ QueueWith(k) \in Seq(Targets) /\ ItemsWith(k, n) \in [Targets -> Seq(Events)]
           /\ ItemsWith(k, n)[k] = items[k] \o NewEvents(k, n)
           /\ \A d \in Targets : d # k => ItemsWith(k, n)[d] = items[d]
           /\ Scheduled(QueueWith(k), ItemsWith(k, n))
<1> DEFINE q == QueueWith(k)
           it == ItemsWith(k, n)
<1>q. q = (IF items[k] = <<>> THEN Append(queue, k) ELSE queue)
  BY DEF QueueWith
<1>i. it = [items EXCEPT ![k] = items[k] \o NewEvents(k, n)]
  BY DEF ItemsWith
<1> HIDE DEF q, it
<1>1. queue \in Seq(Targets) /\ items \in [Targets -> Seq(Events)] /\ pushed[k] \in Nat
      /\ now \in Nat
  BY DEF SenderTypes
<1> DEFINE new == NewEvents(k, n)
<1>2. new \in Seq(Events)
  <2>1. \A i \in 1..n : [id |-> pushed[k] + i, at |-> now] \in Events
    BY <1>1 DEF Events
  <2> QED
    BY <2>1 DEF NewEvents
<1> HIDE DEF new
<1>3. items[k] \o new \in Seq(Events)
  BY <1>1, <1>2, ConcatProperties
<1>4. it \in [Targets -> Seq(Events)] /\ it[k] = items[k] \o new
      /\ \A d \in Targets : d # k => it[d] = items[d]
  BY <1>1, <1>3, <1>i DEF new
<1>5. q \in Seq(Targets) /\ (\A d \in Range(queue) : d \in Range(q))
      /\ (items[k] = <<>> => k \in Range(q))
  <2>1. CASE items[k] # <<>>
    BY <2>1, <1>1, <1>q
  <2>2. CASE items[k] = <<>>
    <3>1. q = Append(queue, k)
      BY <2>2, <1>q
    <3>2. /\ q \in Seq(Targets) /\ Len(q) = Len(queue) + 1 /\ Len(queue) \in Nat
          /\ q[Len(queue) + 1] = k /\ \A i \in 1..Len(queue) : q[i] = queue[i]
      BY <3>1, <1>1
    <3>3. Len(queue) + 1 \in DOMAIN q /\ DOMAIN queue = 1..Len(queue)
          /\ \A i \in 1..Len(queue) : i \in DOMAIN q
      BY <3>2, <1>1
    <3> QED
      BY <3>2, <3>3 DEF Range
  <2> QED
    BY <2>1, <2>2
<1>6. Scheduled(q, it)
  BY <1>4, <1>5 DEF Scheduled, KeysScheduled
<1> QED
  BY <1>4, <1>5, <1>6 DEF new, q, it

\* A push queues its key, and starts batches unless that is left to the timer.
LEMMA PushKeepsSender ==
    ASSUME ConstantsAssumption, SenderInv, NEW k \in Targets, NEW n \in Nat, Push(k, n)
    PROVE  SenderInv'
<1>1. SenderTypes /\ Busy /\ KeysScheduled
  BY DEF SenderInv
<1> DEFINE q == QueueWith(k)
           it == ItemsWith(k, n)
<1>2. /\ pushed' = [pushed EXCEPT ![k] = pushed[k] + n]
      /\ IF DeferProcessing
         THEN /\ queue' = q /\ items' = it /\ SetTimer
              /\ inProgress' = inProgress /\ batch' = batch /\ call' = call /\ wire' = wire
         ELSE Flush(q, it)
      /\ now' = now
  BY DEF Push, NewEvents, CreatedAt, callVars, QueueWith, ItemsWith
<1>3. /\ q \in Seq(Targets) /\ it \in [Targets -> Seq(Events)] /\ Scheduled(q, it)
  BY <1>1, PushedItems
<1>4. pushed' \in [Targets -> Nat]
  BY <1>1, <1>2 DEF SenderTypes
<1> HIDE DEF q, it
<1>5. CASE DeferProcessing
  <2>1. timer' \in BOOLEAN
    BY <1>2, <1>5 DEF SetTimer
  <2>2. SenderTypes'
    BY <1>1, <1>2, <1>3, <1>4, <1>5, <2>1 DEF SenderTypes
  <2> QED
    BY <1>1, <1>2, <1>3, <1>5, <2>2 DEF SenderInv, Busy, KeysScheduled, Scheduled
<1>6. CASE ~DeferProcessing
  BY <1>1, <1>2, <1>3, <1>4, <1>6, FlushKeepsSender
<1> QED
  BY <1>5, <1>6

\* The end of the batch of key k, for which no one waits then: what is kept of
\* it, and what is left on the wire.
BatchEnds(k, kept, v) ==
    /\ EndBatch(k, kept)
    /\ kept \in Seq(Events) /\ v \in Seq(Requests)
    /\ wire' = [wire EXCEPT ![k] = v]
    /\ Thinned(v, wire[k]) /\ \A j \in 1..Len(v) : v[j].stale
    /\ \/ kept = batch[k]
       \/ kept = <<>> /\ (k \in Refusing \/ call[k] = "handled")

\* A sequence of requests is a thinned one of itself.
LEMMA ThinnedSelf ==
    ASSUME NEW w \in Seq(Requests), NEW v \in Seq(Requests), Len(v) = Len(w),
           \A i \in 1..Len(w) : v[i].events = w[i].events
    PROVE  Thinned(v, w)
<1> DEFINE l == Len(w)
           m == [i \in 1..l |-> i]
<1>1. l \in Nat
  OBVIOUS
<1> HIDE DEF l
<1>2. m \in [1..l -> 1..l] /\ \A i \in 1..l : m[i] = i
  OBVIOUS
<1> HIDE DEF m
<1> QED
  BY <1>1, <1>2, SMTT(30) DEF Thinned, l

\* An answer, a timeout and a rejection end a batch.
LEMMA CallEnds ==
    ASSUME SenderInv, NEW k \in Targets,
           Succeeds(k) \/ TimesOut(k) \/ \E retry \in BOOLEAN : Rejected(k, retry)
    PROVE  \E kept, v : BatchEnds(k, kept, v)
<1> DEFINE w == wire[k]
           b == batch[k]
<1>1. /\ w \in Seq(Requests) /\ DOMAIN w = 1..Len(w) /\ Len(w) \in Nat
      /\ b \in Seq(Events) /\ CallOK(call[k], b, w) /\ wire \in [Targets -> Seq(Requests)]
  BY DEF SenderInv, SenderTypes, Busy
<1>2. CASE Succeeds(k)
  <2>1. call[k] = "handled" /\ EndBatch(k, <<>>) /\ wire' = wire
    BY <1>2 DEF Succeeds
  <2>2. \A i \in 1..Len(w) : w[i].stale
    BY <1>1, <2>1 DEF CallOK
  <2>3. Thinned(w, w)
    BY <1>1, ThinnedSelf
  <2>4. wire' = [wire EXCEPT ![k] = w]
    BY <1>1, <2>1
  <2>5. <<>> \in Seq(Events)
    BY EmptySeq
  <2>6. BatchEnds(k, <<>>, w)
    <3> HIDE DEF b
    <3> QED
      BY <1>1, <2>1, <2>2, <2>3, <2>4, <2>5 DEF BatchEnds
  <2> QED
    BY <2>6
<1>3. CASE TimesOut(k)
  <2> DEFINE v == [i \in DOMAIN w |-> [w[i] EXCEPT !.stale = TRUE]]
  <2>1. wire' = [wire EXCEPT ![k] = v] /\ EndBatch(k, b)
    BY <1>3 DEF TimesOut
  <2>2. ASSUME NEW i \in 1..Len(w)
        PROVE  v[i] \in Requests /\ v[i].events = w[i].events /\ v[i].stale
    <3>1. w[i] \in Requests /\ i \in DOMAIN w
      BY <1>1
    <3> QED
      BY <3>1 DEF Requests
  <2>3. DOMAIN v = 1..Len(w) /\ v = [i \in 1..Len(w) |-> v[i]]
    BY <1>1
  <2> HIDE DEF v
  <2>4. v \in Seq(Requests) /\ Len(v) = Len(w)
    BY <1>1, <2>2, <2>3
  <2>5. Thinned(v, w)
    BY <1>1, <2>2, <2>4, ThinnedSelf
  <2>6. \A j \in 1..Len(v) : v[j].stale
    BY <2>2, <2>4
  <2>7. BatchEnds(k, b, v)
    BY <1>1, <2>1, <2>4, <2>5, <2>6 DEF BatchEnds
  <2> QED
    BY <2>7
<1>4. ASSUME NEW retry \in BOOLEAN, Rejected(k, retry)
      PROVE  \E kept, v : BatchEnds(k, kept, v)
  <2>1. PICK i \in DOMAIN w : ~w[i].stale /\ wire' = [wire EXCEPT ![k] = RemoveAt(w, i)]
    BY <1>4 DEF Rejected, Current
  <2> DEFINE v == RemoveAt(w, i)
             kept == IF retry THEN b ELSE <<>>
  <2>2. v \in Seq(Requests) /\ Thinned(v, w) /\ Rest(v, w, i) /\ i \in 1..Len(w)
    BY <1>1, RequestRemoved
  <2>3. wire' = [wire EXCEPT ![k] = v]
    BY <2>1
  <2> HIDE DEF v
  <2>4. \A j \in 1..Len(v) : v[j].stale
    BY <1>1, <2>1, <2>2, CallOfRest
  <2>5. EndBatch(k, kept) /\ (retry \/ k \in Refusing) /\ kept \in Seq(Events)
    BY <1>1, <1>4 DEF Rejected
  <2>6. kept = b \/ (kept = <<>> /\ (k \in Refusing \/ call[k] = "handled"))
    BY <2>5
  <2> HIDE DEF kept
  <2>7. BatchEnds(k, kept, v)
    BY <2>2, <2>3, <2>4, <2>5, <2>6 DEF BatchEnds
  <2> QED
    BY <2>7
<1> QED
  BY <1>2, <1>3, <1>4

\* The end of a batch queues its key if it has items then.
LEMMA EndKeepsSender ==
    ASSUME SenderInv, NEW k \in Targets, NEW kept, NEW v, BatchEnds(k, kept, v)
    PROVE  SenderInv'
<1>1. SenderTypes /\ Busy /\ KeysScheduled
  BY DEF SenderInv
<1>2. /\ inProgress' = inProgress \ {k}
      /\ items' = [items EXCEPT ![k] = kept \o items[k]]
      /\ queue' = (IF items'[k] # <<>> THEN Append(queue, k) ELSE queue)
      /\ timer' = (timer \/ queue' # <<>>)
      /\ batch' = [batch EXCEPT ![k] = <<>>] /\ call' = [call EXCEPT ![k] = "none"]
      /\ now' = now /\ pushed' = pushed
  BY DEF EndBatch, SetTimer, BatchEnds
<1>w. /\ kept \in Seq(Events) /\ v \in Seq(Requests) /\ wire' = [wire EXCEPT ![k] = v]
      /\ \A j \in 1..Len(v) : v[j].stale
  BY DEF BatchEnds
<1>3. kept \o items[k] \in Seq(Events)
  BY <1>1, <1>w, ConcatProperties DEF SenderTypes
<1>4. queue' \in Seq(Targets) /\ (\A d \in Range(queue) : d \in Range(queue'))
      /\ (items'[k] # <<>> => k \in Range(queue'))
  <2>1. CASE items'[k] = <<>>
    BY <2>1, <1>1, <1>2 DEF SenderTypes
  <2>2. CASE items'[k] # <<>>
    <3>1. queue' = Append(queue, k) /\ queue \in Seq(Targets)
      BY <2>2, <1>1, <1>2 DEF SenderTypes
    <3>2. /\ queue' \in Seq(Targets) /\ Len(queue') = Len(queue) + 1 /\ Len(queue) \in Nat
          /\ queue'[Len(queue) + 1] = k /\ \A i \in 1..Len(queue) : queue'[i] = queue[i]
      BY <3>1
    <3>3. Len(queue) + 1 \in DOMAIN queue' /\ DOMAIN queue = 1..Len(queue)
          /\ \A i \in 1..Len(queue) : i \in DOMAIN queue'
      BY <3>1, <3>2
    <3> QED
      BY <3>2, <3>3 DEF Range
  <2> QED
    BY <2>1, <2>2
<1>5. SenderTypes'
  BY <1>1, <1>2, <1>3, <1>4, <1>w, EmptySeq DEF SenderTypes
<1>6. Busy'
  <2>1. CallOK("none", <<>>, v)
    BY <1>w DEF CallOK
  <2> QED
    BY <1>1, <1>2, <1>w, <2>1 DEF Busy, SenderTypes
<1>7. KeysScheduled'
  BY <1>1, <1>2, <1>4 DEF KeysScheduled, SenderTypes
<1> QED
  BY <1>5, <1>6, <1>7 DEF SenderInv

\* Every step keeps the keys of the sender scheduled.
LEMMA StepKeepsSender ==
    ASSUME ConstantsAssumption, SenderInv, [Next]_vars
    PROVE  SenderInv'
<1>1. SenderTypes /\ Busy /\ KeysScheduled
  BY DEF SenderInv
<1>2. CASE TimerFires
  <2>1. queue \in Seq(Targets) /\ items \in [Targets -> Seq(Events)]
        /\ pushed \in [Targets -> Nat]
    BY <1>1 DEF SenderTypes
  <2>2. Scheduled(queue, items)
    BY <1>1 DEF Scheduled, KeysScheduled
  <2>3. Flush(queue, items) /\ now' = now /\ pushed' = pushed
    BY <1>2 DEF TimerFires
  <2> QED
    BY <1>1, <2>1, <2>2, <2>3, FlushKeepsSender
<1>3. ASSUME NEW k \in Targets, NEW n \in 1..MaxPushes, Push(k, n)
      PROVE  SenderInv'
  <2>1. n \in Nat
    BY DEF ConstantsAssumption
  <2> QED
    BY <1>3, <2>1, PushKeepsSender
<1>4. ASSUME NEW k \in Targets,
             Succeeds(k) \/ TimesOut(k) \/ \E retry \in BOOLEAN : Rejected(k, retry)
      PROVE  SenderInv'
  <2>1. PICK kept, v : BatchEnds(k, kept, v)
    BY <1>4, CallEnds
  <2> QED
    BY <2>1, EndKeepsSender
<1>5. ASSUME NEW k \in Targets, NEW i \in DOMAIN wire[k]
      PROVE  /\ CallOK(call[k], batch[k], RemoveAt(wire[k], i))
             /\ CallOK(IF wire[k][i].stale THEN call[k] ELSE "handled", batch[k],
                       RemoveAt(wire[k], i))
             /\ ~wire[k][i].stale => call[k] = "made"
  <2>1. wire[k] \in Seq(Requests) /\ i \in 1..Len(wire[k])
    BY <1>1, <1>5 DEF SenderTypes
  <2>2. Rest(RemoveAt(wire[k], i), wire[k], i) /\ RemoveAt(wire[k], i) \in Seq(Requests)
    BY <2>1, RequestRemoved
  <2>3. CallOK(call[k], batch[k], wire[k])
    BY <1>1 DEF Busy
  <2>4. ~wire[k][i].stale => call[k] = "made"
    BY <2>1, <2>3 DEF CallOK
  <2> HIDE DEF Busy
  <2> QED
    BY <2>1, <2>2, <2>3, <2>4, CallOfRest, CallAnswered
<1>6. ASSUME NEW k \in Targets, NEW i \in DOMAIN wire[k]
      PROVE  [wire EXCEPT ![k] = RemoveAt(wire[k], i)] \in [Targets -> Seq(Requests)]
  <2>1. wire[k] \in Seq(Requests) /\ i \in 1..Len(wire[k])
    BY <1>1, <1>6 DEF SenderTypes
  <2>2. RemoveAt(wire[k], i) \in Seq(Requests)
    BY <2>1, RequestRemoved
  <2> QED
    BY <1>1, <2>2 DEF SenderTypes
<1>8. ASSUME NEW k \in Targets, NEW i \in DOMAIN wire[k], Handle(k, i)
      PROVE  SenderInv'
  <2> DEFINE d == IF wire[k][i].stale THEN call[k] ELSE "handled"
  <2>1. /\ call' = [call EXCEPT ![k] = d]
        /\ wire' = [wire EXCEPT ![k] = RemoveAt(wire[k], i)]
        /\ now' = now /\ pushed' = pushed /\ queue' = queue /\ items' = items
        /\ inProgress' = inProgress /\ timer' = timer /\ batch' = batch
    BY <1>1, <1>8 DEF Handle, senderVars, SenderTypes
  <2>2. wire' \in [Targets -> Seq(Requests)]
    BY <1>6, <2>1
  <2>3. CallOK(d, batch[k], RemoveAt(wire[k], i)) /\ (~wire[k][i].stale => call[k] = "made")
    BY <1>5
  <2>4. d \in {"none", "made", "handled"} /\ (d = "none" <=> call[k] = "none")
    BY <2>3, <1>1 DEF SenderTypes
  <2> HIDE DEF d
  <2>5. SenderTypes'
    BY <1>1, <2>1, <2>2, <2>4 DEF SenderTypes
  <2>6. Busy'
    <3>1. ASSUME NEW x \in Targets
          PROVE  (call'[x] = "none" <=> x \notin inProgress') /\ CallOK(call'[x], batch'[x], wire'[x])
      BY <1>1, <2>1, <2>3, <2>4 DEF SenderTypes, Busy
    <3> QED
      BY <3>1 DEF Busy
  <2> QED
    BY <1>1, <2>1, <2>5, <2>6 DEF SenderInv, KeysScheduled
<1>9. ASSUME NEW k \in Targets, NEW i \in DOMAIN wire[k], Lost(k, i)
      PROVE  SenderInv'
  <2>1. /\ wire' = [wire EXCEPT ![k] = RemoveAt(wire[k], i)]
        /\ now' = now /\ pushed' = pushed /\ queue' = queue /\ items' = items
        /\ inProgress' = inProgress /\ timer' = timer /\ batch' = batch /\ call' = call
    BY <1>9 DEF Lost, senderVars
  <2>2. wire' \in [Targets -> Seq(Requests)]
    BY <1>6, <2>1
  <2>3. CallOK(call[k], batch[k], RemoveAt(wire[k], i))
    BY <1>5
  <2>4. SenderTypes'
    BY <1>1, <2>1, <2>2 DEF SenderTypes
  <2>5. Busy'
    <3>1. ASSUME NEW x \in Targets
          PROVE  (call'[x] = "none" <=> x \notin inProgress') /\ CallOK(call'[x], batch'[x], wire'[x])
      BY <1>1, <2>1, <2>3 DEF SenderTypes, Busy
    <3> QED
      BY <3>1 DEF Busy
  <2> QED
    BY <1>1, <2>1, <2>4, <2>5 DEF SenderInv, KeysScheduled
<1>10. CASE Upgrade
  BY <1>1, <1>10 DEF Upgrade, callVars, SenderInv, SenderTypes, Busy, KeysScheduled
<1>11. CASE Tick
  BY <1>1, <1>11 DEF Tick, senderVars, callVars, SenderInv, SenderTypes, Busy, KeysScheduled
<1>12. CASE UNCHANGED vars
  BY <1>1, <1>12 DEF vars, senderVars, callVars, SenderInv, SenderTypes, Busy, KeysScheduled
<1> QED
  BY <1>2, <1>3, <1>4, <1>8, <1>9, <1>10, <1>11, <1>12
  DEF Next, SenderStep, TargetStep

\* No key has items at first.
LEMMA InitSender == Init => SenderInv
<1> SUFFICES ASSUME Init
             PROVE  SenderInv
  OBVIOUS
<1>1. now = 1 /\ queue = <<>> /\ inProgress = {} /\ timer = FALSE
      /\ pushed = [k \in Targets |-> 0] /\ items = [k \in Targets |-> <<>>]
      /\ batch = [k \in Targets |-> <<>>] /\ call = [k \in Targets |-> "none"]
      /\ wire = [k \in Targets |-> <<>>]
  BY DEF Init
<1>2. <<>> \in Seq(Targets) /\ <<>> \in Seq(Events) /\ <<>> \in Seq(Requests)
  BY EmptySeq
<1>3. SenderTypes
  <2>1. \A S : <<>> \in S => [k \in Targets |-> <<>>] \in [Targets -> S]
    OBVIOUS
  <2>2. items \in [Targets -> Seq(Events)] /\ batch \in [Targets -> Seq(Events)]
        /\ wire \in [Targets -> Seq(Requests)]
    BY <1>1, <1>2, <2>1
  <2>3. pushed \in [Targets -> Nat] /\ call \in [Targets -> {"none", "made", "handled"}]
    BY <1>1
  <2>4. now \in Nat \ {0} /\ inProgress \in SUBSET Targets
    BY <1>1
  <2>6. timer \in BOOLEAN
    BY <1>1, Zenon
  <2>5. queue \in Seq(Targets)
    BY <1>1, <1>2, Zenon
  <2> QED
    BY <2>2, <2>3, <2>4, <2>5, <2>6 DEF SenderTypes
<1>4. CallOK("none", <<>>, <<>>)
  <2>1. 1..Len(<<>>) = {}
    BY EmptySeq
  <2> QED
    BY <2>1 DEF CallOK
<1>5. Busy
  BY <1>1, <1>4 DEF Busy
<1>6. KeysScheduled
  BY <1>1 DEF KeysScheduled
<1> QED
  BY <1>3, <1>5, <1>6 DEF SenderInv

\* The types of the sender hold, its coroutines are those of the keys in
\* progress, and a key with items is queued or in progress.
THEOREM SenderInvariant == Spec => []SenderInv
<1>1. SenderInv /\ [Next]_vars => SenderInv'
  BY StepKeepsSender, ConstantsAssumption
<1> QED
  BY <1>1, InitSender, PTL DEF Spec

\* No target's events are forgotten: a key with items is queued, or its batch
\* is in progress and queues it at its end.
THEOREM NoKeyForgotten == Spec => []KeysScheduled
<1>1. SenderInv => KeysScheduled
  BY DEF SenderInv
<1> QED
  BY <1>1, SenderInvariant, PTL

------------------------------------------------------------------------------
(* The streams of the targets.                                              *)

\* The invariant of the streams, and what it says of one target.
StreamsInv ==
    /\ SenderInv
    /\ receiver \in [Targets -> Receivers]
    /\ StreamsAgree

StreamOf(k) ==
    StreamOK(k \in Refusing, pushed[k], items[k], batch[k], call[k], wire[k], receiver[k], now)

\* The types of a target's stream.
LEMMA TypesOfStream ==
    ASSUME SenderTypes, NEW k \in Targets
    PROVE  /\ StreamTypes(pushed[k], items[k], batch[k], call[k], wire[k])
           /\ now \in Nat \ {0}
BY DEF SenderTypes, StreamTypes, Calls

\* Starting a batch keeps the stream of its target.
LEMMA FlushKeepsStream ==
    ASSUME ConstantsAssumption, SenderInv, NEW q \in Seq(Targets),
           NEW it \in [Targets -> Seq(Events)], Flush(q, it), NEW k \in Targets, NEW P \in Nat,
           StreamOK(k \in Refusing, P, it[k], batch[k], call[k], wire[k], receiver[k], now)
    PROVE  StreamOK(k \in Refusing, P, items'[k], batch'[k], call'[k], wire'[k], receiver[k], now)
<1>1. PICK started \in SUBSET Targets : FlushEffect(q, it, started)
  BY FlushOfKey
<1>2. SenderTypes /\ Busy
  BY DEF SenderInv
<1>3. CASE k \notin started
  BY <1>1, <1>3 DEF FlushEffect
<1>4. CASE k \in started
  <2> DEFINE s == it[k]
             b == batch[k]
             w == wire[k]
             R == receiver[k]
             lossy == k \in Refusing
  <2>1. PICK at \in Times(P, now) : StreamAt(lossy, P, s, b, call[k], w, R, at)
    BY DEF StreamOK
  <2>2. call[k] = "none" /\ call'[k] = "made"
    BY <1>1, <1>2, <1>4 DEF FlushEffect, Busy
  <2>3. StreamTypes(P, s, b, "none", w)
    BY <1>2 DEF StreamTypes, Calls, SenderTypes
  <2>4. PICK m \in 1..Len(s) :
            /\ items'[k] = SubSeq(s, m + 1, Len(s))
            /\ batch'[k] = SubSeq(s, 1, m)
            /\ wire'[k] = Append(w, [events |-> SubSeq(s, 1, m), stale |-> FALSE])
    BY <1>1, <1>4 DEF FlushEffect
  <2>5. StreamAt(lossy, P, s, b, "none", w, R, at)
    BY <2>1, <2>2
  <2> HIDE DEF s, b, w, R, lossy
  <2>6. StreamAt(lossy, P, SubSeq(s, m + 1, Len(s)), SubSeq(s, 1, m), "made",
                 Append(w, [events |-> SubSeq(s, 1, m), stale |-> FALSE]), R, at)
    BY <2>3, <2>5, StartStream
  <2>7. StreamAt(lossy, P, items'[k], batch'[k], call'[k], wire'[k], R, at)
    BY <2>2, <2>4, <2>6
  <2> QED
    BY <2>7 DEF StreamOK, lossy, R
<1> QED
  BY <1>3, <1>4

\* A push keeps every stream.
LEMMA PushKeepsStreams ==
    ASSUME ConstantsAssumption, StreamsInv, NEW k \in Targets, NEW n \in Nat, Push(k, n)
    PROVE  StreamsAgree'
<1>1. SenderInv /\ SenderTypes /\ KeysScheduled /\ StreamsAgree
  BY DEF StreamsInv, SenderInv
<1> DEFINE q == QueueWith(k)
           it == ItemsWith(k, n)
<1>2. /\ pushed' = [pushed EXCEPT ![k] = pushed[k] + n]
      /\ IF DeferProcessing
         THEN /\ queue' = q /\ items' = it
              /\ inProgress' = inProgress /\ batch' = batch /\ call' = call /\ wire' = wire
         ELSE Flush(q, it)
      /\ now' = now /\ receiver' = receiver
  BY DEF Push, NewEvents, CreatedAt, callVars, QueueWith, ItemsWith
<1>3. /\ q \in Seq(Targets) /\ it \in [Targets -> Seq(Events)]
      /\ it[k] = items[k] \o NewEvents(k, n)
      /\ \A d \in Targets : d # k => it[d] = items[d]
  BY <1>1, PushedItems
<1>4. \A d \in Targets : pushed'[d] \in Nat /\ (d # k => pushed'[d] = pushed[d])
  BY <1>1, <1>2 DEF SenderTypes
<1>5. pushed'[k] = pushed[k] + n
  BY <1>1, <1>2 DEF SenderTypes
<1> HIDE DEF q, it
<1>6. ASSUME NEW d \in Targets
      PROVE  StreamOK(d \in Refusing, pushed'[d], it[d], batch[d], call[d], wire[d], receiver[d], now)
  <2>1. StreamOK(d \in Refusing, pushed[d], items[d], batch[d], call[d], wire[d], receiver[d], now)
    BY <1>1 DEF StreamsAgree
  <2>2. CASE d # k
    BY <2>1, <2>2, <1>3, <1>4
  <2>3. CASE d = k
    <3> DEFINE lossy == k \in Refusing
               R == receiver[k]
    <3>1. StreamTypes(pushed[k], items[k], batch[k], call[k], wire[k]) /\ now \in Nat \ {0}
      BY <1>1, TypesOfStream
    <3>2. StreamOK(lossy, pushed[k], items[k], batch[k], call[k], wire[k], R, now)
      BY <2>1, <2>3
    <3> HIDE DEF lossy, R
    <3>3. StreamOK(lossy, pushed[k] + n, items[k] \o NewEvents(k, n), batch[k], call[k], wire[k], R, now)
      BY <3>1, <3>2, PushStream DEF NewEvents
    <3> QED
      BY <2>3, <3>3, <1>3, <1>5 DEF lossy, R
  <2> QED
    BY <2>2, <2>3
<1>7. ASSUME NEW d \in Targets
      PROVE  StreamOK(d \in Refusing, pushed'[d], items'[d], batch'[d], call'[d], wire'[d],
                      receiver[d], now)
  <2>1. CASE DeferProcessing
    BY <2>1, <1>2, <1>6
  <2>2. CASE ~DeferProcessing
    <3>1. Flush(q, it) /\ pushed'[d] \in Nat
      BY <2>2, <1>2, <1>4
    <3> QED
      BY <3>1, <1>1, <1>3, <1>6, FlushKeepsStream
  <2> QED
    BY <2>1, <2>2
<1> QED
  BY <1>2, <1>7 DEF StreamsAgree

\* The end of a batch keeps every stream.
LEMMA EndKeepsStreams ==
    ASSUME StreamsInv, NEW k \in Targets, NEW kept, NEW v, BatchEnds(k, kept, v)
    PROVE  StreamsAgree'
<1>1. SenderTypes /\ StreamsAgree
  BY DEF StreamsInv, SenderInv
<1>2. /\ items' = [items EXCEPT ![k] = kept \o items[k]]
      /\ batch' = [batch EXCEPT ![k] = <<>>] /\ call' = [call EXCEPT ![k] = "none"]
      /\ wire' = [wire EXCEPT ![k] = v]
      /\ now' = now /\ pushed' = pushed /\ receiver' = receiver
  BY DEF BatchEnds, EndBatch
<1>3. /\ kept \in Seq(Events) /\ v \in Seq(Requests)
      /\ Thinned(v, wire[k]) /\ \A j \in 1..Len(v) : v[j].stale
      /\ \/ kept = batch[k]
         \/ kept = <<>> /\ (k \in Refusing \/ call[k] = "handled")
  BY DEF BatchEnds
<1>4. ASSUME NEW d \in Targets
      PROVE  StreamOK(d \in Refusing, pushed[d], items[d], batch[d], call[d], wire[d], receiver[d], now)
  BY <1>1 DEF StreamsAgree
<1>5. StreamOK(k \in Refusing, pushed[k], kept \o items[k], <<>>, "none", v, receiver[k], now)
  <2> DEFINE P == pushed[k]
             s == items[k]
             b == batch[k]
             c == call[k]
             w == wire[k]
             R == receiver[k]
             lossy == k \in Refusing
  <2>1. StreamTypes(P, s, b, c, w)
    BY <1>1, TypesOfStream
  <2>2. PICK at \in Times(P, now) : StreamAt(lossy, P, s, b, c, w, R, at)
    BY <1>4 DEF StreamOK
  <2>3. s \in Seq(Events)
    BY <2>1 DEF StreamTypes
  <2>4. /\ v \in Seq(Requests) /\ Thinned(v, w) /\ \A j \in 1..Len(v) : v[j].stale
        /\ kept = b \/ (kept = <<>> /\ (lossy \/ c = "handled"))
    BY <1>3
  <2> HIDE DEF P, s, b, c, w, R, lossy
  <2>5. StreamAt(lossy, P, kept \o s, <<>>, "none", v, R, at)
    <3>1. CASE kept = b
      <4>1. StreamAt(lossy, P, b \o s, <<>>, "none", v, R, at)
        BY <2>1, <2>2, <2>4, KeptStream
      <4> QED
        BY <3>1, <4>1
    <3>2. CASE kept = <<>> /\ (lossy \/ c = "handled")
      <4>1. StreamAt(lossy, P, s, <<>>, "none", v, R, at)
        BY <2>1, <2>2, <2>4, <3>2, DroppedStream
      <4>2. <<>> \o s = s
        BY <2>3, ConcatEmptySeq
      <4> QED
        BY <3>2, <4>1, <4>2
    <3> QED
      BY <2>4, <3>1, <3>2
  <2> QED
    BY <2>5 DEF StreamOK, P, s, R, lossy
<1>6. ASSUME NEW d \in Targets
      PROVE  StreamOK(d \in Refusing, pushed'[d], items'[d], batch'[d], call'[d], wire'[d],
                      receiver'[d], now')
  <2>1. CASE d # k
    BY <2>1, <1>1, <1>2, <1>4 DEF SenderTypes
  <2>2. CASE d = k
    <3>1. /\ items'[k] = kept \o items[k] /\ batch'[k] = <<>> /\ call'[k] = "none"
          /\ wire'[k] = v
      BY <1>1, <1>2 DEF SenderTypes
    <3> QED
      BY <2>2, <3>1, <1>2, <1>5
  <2> QED
    BY <2>1, <2>2
<1> QED
  BY <1>6 DEF StreamsAgree

\* What the handling of request i of target k does: to its stream, and to what
\* the target has handled.
HandledStream(k, i, R) ==
    /\ StreamOK(k \in Refusing, pushed[k], items[k], batch[k],
                IF wire[k][i].stale THEN call[k] ELSE "handled",
                RemoveAt(wire[k], i), R, now)
    /\ R \in Receivers
    /\ Extended(receiver[k].handled, R.handled)
    /\ Increasing(R.handled)
    /\ \A j \in 1..Len(R.handled) :
          R.handled[j] \in 1..pushed[k] /\ (k \notin Refusing => R.handled[j] = j)

LEMMA HandleOfStream ==
    ASSUME Refusing \cap Reordering = {}, StreamsInv,
           NEW k \in Targets, NEW i \in DOMAIN wire[k], i = 1 \/ k \in Reordering
    PROVE  HandledStream(k, i, CheckAll(receiver[k], wire[k][i].events))
<1> DEFINE P == pushed[k]
           s == items[k]
           b == batch[k]
           c == call[k]
           w == wire[k]
           R == receiver[k]
           S == CheckAll(R, w[i].events)
           d == IF w[i].stale THEN c ELSE "handled"
           lossy == k \in Refusing
<1>1. SenderTypes /\ StreamsAgree
  BY DEF StreamsInv, SenderInv
<1>2. StreamTypes(P, s, b, c, w) /\ now \in Nat \ {0}
  BY <1>1, TypesOfStream
<1>3. PICK at \in Times(P, now) : StreamAt(lossy, P, s, b, c, w, R, at)
  <2>1. StreamOK(lossy, P, s, b, c, w, R, now)
    BY <1>1 DEF StreamsAgree
  <2> QED
    BY <2>1 DEF StreamOK
<1>4. i = 1 \/ ~lossy
  OBVIOUS
<1>5. i \in 1..Len(w)
  BY <1>2 DEF StreamTypes
<1>6. wire[k][i] = w[i]
  OBVIOUS
<1>13. now \in Nat
  BY <1>2
<1> HIDE DEF P, s, b, c, w, R, lossy
<1>7. StreamAt(lossy, P, s, b, d, RemoveAt(w, i), S, at)
      /\ Progress(R.handled, S.handled, Offset(w[i]), Len(w[i].events))
  <2>1. StreamAt(lossy, P, s, b, IF w[i].stale THEN c ELSE "handled",
                 RemoveAt(w, i), CheckAll(R, w[i].events), at)
        /\ Progress(R.handled, CheckAll(R, w[i].events).handled,
                    Offset(w[i]), Len(w[i].events))
    <3> HIDE DEF S, d
    <3> QED
      <4>1. CASE i = 1
        BY <1>2, <1>3, <4>1, <1>5, <1>13, HandleStream
      <4>2. CASE ~lossy
        <5>1. lossy = FALSE
          BY <4>2 DEF lossy
        <5>2. StreamAt(FALSE, P, s, b, c, w, R, at)
          BY <1>3, <5>1
        <5>3. StreamAt(FALSE, P, s, b, IF w[i].stale THEN c ELSE "handled",
                       RemoveAt(w, i), CheckAll(R, w[i].events), at)
              /\ Progress(R.handled, CheckAll(R, w[i].events).handled,
                          Offset(w[i]), Len(w[i].events))
          BY <1>2, <1>5, <1>13, <5>2, HandleStream
        <5> QED
          BY <5>1, <5>3
      <4> QED
        BY <1>4, <4>1, <4>2
  <2> QED
    BY <2>1
<1> HIDE DEF S, d
<1>8. CheckerOK(S, P, at) /\ (~lossy => NoGap(d, Gone(P, b, s), b, S.handled))
  BY <1>7 DEF StreamAt
<1>9. S \in Receivers /\ Increasing(S.handled) /\ \A j \in 1..Len(S.handled) : S.handled[j] \in 1..P
  BY <1>8 DEF CheckerOK, Increasing
<1>10. ~lossy => \A j \in 1..Len(S.handled) : S.handled[j] = j
  BY <1>8 DEF NoGap, Gapless
<1>11. Extended(R.handled, S.handled)
  BY <1>7 DEF Progress
<1>12. StreamOK(lossy, P, s, b, d, RemoveAt(w, i), S, now)
  BY <1>7 DEF StreamOK
<1> QED
  BY <1>6, <1>9, <1>10, <1>11, <1>12 DEF HandledStream, P, s, b, c, w, R, S, d, lossy

\* Every step keeps every stream.
LEMMA StepKeepsStreams ==
    ASSUME ConstantsAssumption, Refusing \cap Reordering = {}, StreamsInv, [Next]_vars
    PROVE  StreamsInv'
<1>1. SenderInv /\ SenderTypes /\ StreamsAgree /\ receiver \in [Targets -> Receivers]
  BY DEF StreamsInv, SenderInv
<1>2. SenderInv'
  BY <1>1, StepKeepsSender
<1>3. ASSUME NEW k \in Targets
      PROVE  StreamOf(k)
  BY <1>1 DEF StreamOf, StreamsAgree
<1>4. CASE TimerFires
  <2>1. queue \in Seq(Targets) /\ items \in [Targets -> Seq(Events)]
        /\ pushed \in [Targets -> Nat]
    BY <1>1 DEF SenderTypes
  <2>2. Flush(queue, items) /\ now' = now /\ pushed' = pushed /\ receiver' = receiver
    BY <1>4 DEF TimerFires
  <2>3. ASSUME NEW k \in Targets
        PROVE  StreamOK(k \in Refusing, pushed[k], items'[k], batch'[k], call'[k], wire'[k],
                        receiver[k], now)
    <3>1. pushed[k] \in Nat
      BY <2>1
    <3>2. StreamOK(k \in Refusing, pushed[k], items[k], batch[k], call[k], wire[k], receiver[k], now)
      BY <1>3 DEF StreamOf
    <3> QED
      BY <1>1, <2>1, <2>2, <3>1, <3>2, FlushKeepsStream
  <2> QED
    BY <1>1, <1>2, <2>2, <2>3 DEF StreamsInv, StreamsAgree
<1>5. ASSUME NEW k \in Targets, NEW n \in 1..MaxPushes, Push(k, n)
      PROVE  StreamsInv'
  <2>1. n \in Nat /\ receiver' = receiver
    BY <1>5 DEF ConstantsAssumption, Push
  <2>2. StreamsAgree'
    BY <1>5, <2>1, PushKeepsStreams
  <2> QED
    BY <1>1, <1>2, <2>1, <2>2 DEF StreamsInv
<1>6. ASSUME NEW k \in Targets,
             Succeeds(k) \/ TimesOut(k) \/ \E retry \in BOOLEAN : Rejected(k, retry)
      PROVE  StreamsInv'
  <2>1. PICK kept, v : BatchEnds(k, kept, v)
    BY <1>1, <1>6, CallEnds
  <2>2. StreamsAgree'
    BY <2>1, EndKeepsStreams
  <2>3. receiver' = receiver
    BY <2>1 DEF BatchEnds, EndBatch
  <2> QED
    BY <1>1, <1>2, <2>2, <2>3 DEF StreamsInv
<1>7. ASSUME NEW k \in Targets, NEW i \in DOMAIN wire[k], Handle(k, i)
      PROVE  StreamsInv'
  <2> DEFINE S == CheckAll(receiver[k], wire[k][i].events)
             d == IF wire[k][i].stale THEN call[k] ELSE "handled"
  <2>1. /\ receiver' = [receiver EXCEPT ![k] = S]
        /\ call' = [call EXCEPT ![k] = d]
        /\ wire' = [wire EXCEPT ![k] = RemoveAt(wire[k], i)]
        /\ now' = now /\ pushed' = pushed /\ items' = items /\ batch' = batch
        /\ i = 1 \/ k \in Reordering
    BY <1>1, <1>7 DEF Handle, senderVars, SenderTypes
  <2>2. HandledStream(k, i, S)
    BY <2>1, HandleOfStream
  <2>3. S \in Receivers
        /\ StreamOK(k \in Refusing, pushed[k], items[k], batch[k], d, RemoveAt(wire[k], i), S, now)
    BY <2>2 DEF HandledStream
  <2> HIDE DEF S, d
  <2>4. receiver' \in [Targets -> Receivers]
    BY <1>1, <2>1, <2>3
  <2>5. /\ receiver'[k] = S /\ call'[k] = d /\ wire'[k] = RemoveAt(wire[k], i)
        /\ \A x \in Targets : x # k =>
              receiver'[x] = receiver[x] /\ call'[x] = call[x] /\ wire'[x] = wire[x]
    BY <1>1, <2>1 DEF SenderTypes
  <2>6. ASSUME NEW x \in Targets
        PROVE  StreamOf(x)'
    <3>1. CASE x = k
      BY <3>1, <2>1, <2>3, <2>5 DEF StreamOf
    <3>2. CASE x # k
      BY <3>2, <1>3, <2>1, <2>5 DEF StreamOf
    <3> QED
      BY <3>1, <3>2
  <2> QED
    BY <1>2, <2>4, <2>6 DEF StreamsInv, StreamsAgree, StreamOf
<1>8. ASSUME NEW k \in Targets, NEW i \in DOMAIN wire[k], Lost(k, i)
      PROVE  StreamsInv'
  <2>1. /\ wire' = [wire EXCEPT ![k] = RemoveAt(wire[k], i)]
        /\ now' = now /\ pushed' = pushed /\ items' = items /\ batch' = batch /\ call' = call
        /\ receiver' = receiver
    BY <1>8 DEF Lost, senderVars
  <2>2. StreamOK(k \in Refusing, pushed[k], items[k], batch[k], call[k], RemoveAt(wire[k], i),
                 receiver[k], now)
    <3> DEFINE P == pushed[k]
               s == items[k]
               b == batch[k]
               c == call[k]
               w == wire[k]
               R == receiver[k]
               lossy == k \in Refusing
    <3>1. StreamTypes(P, s, b, c, w)
      BY <1>1, TypesOfStream
    <3>2. PICK at \in Times(P, now) : StreamAt(lossy, P, s, b, c, w, R, at)
      BY <1>3 DEF StreamOf, StreamOK
    <3>3. i \in 1..Len(w)
      BY <3>1 DEF StreamTypes
    <3> HIDE DEF P, s, b, c, w, R, lossy
    <3>4. StreamAt(lossy, P, s, b, c, RemoveAt(w, i), R, at)
      BY <3>1, <3>2, <3>3, LostStream
    <3> QED
      BY <3>4 DEF StreamOK, P, s, b, c, w, R, lossy
  <2>3. /\ wire'[k] = RemoveAt(wire[k], i)
        /\ \A x \in Targets : x # k => wire'[x] = wire[x]
    BY <1>1, <2>1 DEF SenderTypes
  <2>4. ASSUME NEW x \in Targets
        PROVE  StreamOf(x)'
    <3>1. CASE x = k
      BY <3>1, <2>1, <2>2, <2>3 DEF StreamOf
    <3>2. CASE x # k
      BY <3>2, <1>3, <2>1, <2>3 DEF StreamOf
    <3> QED
      BY <3>1, <3>2
  <2> QED
    BY <1>1, <1>2, <2>1, <2>4 DEF StreamsInv, StreamsAgree, StreamOf
<1>9. CASE Tick
  <2>1. now' = now + 1 /\ pushed' = pushed /\ items' = items /\ batch' = batch
        /\ call' = call /\ wire' = wire /\ receiver' = receiver
    BY <1>9 DEF Tick, senderVars, callVars
  <2>2. ASSUME NEW k \in Targets
        PROVE  StreamOK(k \in Refusing, pushed[k], items[k], batch[k], call[k], wire[k],
                        receiver[k], now + 1)
    <3>1. now \in Nat
      BY <1>1 DEF SenderTypes
    <3> QED
      BY <1>3, <3>1, TickStream DEF StreamOf
  <2> QED
    BY <1>1, <1>2, <2>1, <2>2 DEF StreamsInv, StreamsAgree
<1>10. CASE Upgrade \/ UNCHANGED vars
  <2>1. now' = now /\ pushed' = pushed /\ items' = items /\ batch' = batch
        /\ call' = call /\ wire' = wire /\ receiver' = receiver
    BY <1>10 DEF Upgrade, vars, senderVars, callVars
  <2> QED
    BY <1>1, <1>2, <2>1 DEF StreamsInv, StreamsAgree
<1> QED
  BY <1>4, <1>5, <1>6, <1>7, <1>8, <1>9, <1>10
  DEF Next, SenderStep, TargetStep

\* There are no events at first.
LEMMA InitStreams ==
    ASSUME Init, SenderInv
    PROVE  StreamsInv
<1> DEFINE R == [latest |-> 0, ids |-> {}, handled |-> <<>>]
           at == [n \in 1..0 |-> 1]
<1>1. /\ now = 1 /\ receiver = [k \in Targets |-> R]
      /\ pushed = [k \in Targets |-> 0] /\ items = [k \in Targets |-> <<>>]
      /\ batch = [k \in Targets |-> <<>>] /\ call = [k \in Targets |-> "none"]
      /\ wire = [k \in Targets |-> <<>>]
  BY DEF Init
<1>2. R \in Receivers /\ R.latest = 0 /\ R.ids = {} /\ R.handled = <<>>
  <2>1. <<>> \in Seq(Nat) /\ {} \in SUBSET Nat /\ 0 \in Nat
    BY EmptySeq
  <2> QED
    BY <2>1 DEF Receivers
<1> HIDE DEF R
<1>3. Len(<<>>) = 0 /\ 1..0 = {} /\ Range(<<>>) = {}
  <2>1. DOMAIN <<>> = {}
    OBVIOUS
  <2>2. Range(<<>>) = {}
    BY <2>1 DEF Range
  <2> QED
    BY <2>2
<1>4. at \in Times(0, 1)
  BY DEF Times
<1> HIDE DEF at
<1>5. Gone(0, <<>>, <<>>) = 0
  <2>1. Gone(0, <<>>, <<>>) = 0 - Len(<<>>) - Len(<<>>)
    BY DEF Gone
  <2>2. 0 - Len(<<>>) - Len(<<>>) = 0 - 0 - 0
    BY <1>3
  <2> QED
    BY <2>1, <2>2
<1>6. RunOf(<<>>, 0, at) /\ RunOf(<<>>, 0 + Len(<<>>), at)
  BY <1>3 DEF RunOf
<1>7. WireOK(<<>>, 0, 0, at)
  BY <1>3 DEF WireOK
<1>8. CallOK("none", <<>>, <<>>)
  BY <1>3 DEF CallOK
<1>9. CheckerOK(R, 0, at)
  BY <1>2, <1>3 DEF CheckerOK
<1>10. Complete(<<>>, 0, 0, <<>>)
  <2>1. 0 + 1 .. 0 = {}
    OBVIOUS
  <2> QED
    BY <1>3, <2>1 DEF Complete, NonePassed
<1>11. NoGap("none", 0, <<>>, <<>>)
  BY <1>3 DEF NoGap, Gapless
<1>12. ASSUME NEW lossy
       PROVE  StreamAt(lossy, 0, <<>>, <<>>, "none", <<>>, R, at)
  BY <1>2, <1>5, <1>6, <1>7, <1>8, <1>9, <1>10, <1>11 DEF StreamAt
<1>13. ASSUME NEW k \in Targets
       PROVE  StreamOK(k \in Refusing, pushed[k], items[k], batch[k], call[k], wire[k], receiver[k], now)
  <2>1. /\ pushed[k] = 0 /\ items[k] = <<>> /\ batch[k] = <<>> /\ call[k] = "none"
        /\ wire[k] = <<>> /\ receiver[k] = R
    BY <1>1
  <2>2. StreamAt(k \in Refusing, 0, <<>>, <<>>, "none", <<>>, R, at)
    BY <1>12
  <2> QED
    BY <1>1, <1>4, <2>1, <2>2 DEF StreamOK
<1>14. receiver \in [Targets -> Receivers]
  BY <1>1, <1>2
<1> QED
  BY <1>13, <1>14 DEF StreamsInv, StreamsAgree

\* The streams of all targets are in order, and complete but for what a target
\* refused: everywhere, of what left the sender, what the target has not handled
\* is still to come, in order.
THEOREM StreamsInvariant ==
    ASSUME Refusing \cap Reordering = {}
    PROVE  Spec => []StreamsInv
<1>1. Init => StreamsInv
  BY InitSender, InitStreams
<1>2. StreamsInv /\ [Next]_vars => StreamsInv'
  BY StepKeepsStreams, ConstantsAssumption
<1> QED
  BY <1>1, <1>2, PTL DEF Spec

\* What a target handles is handled in order.
LEMMA HandleIsInOrder ==
    ASSUME Refusing \cap Reordering = {}, StreamsInv, NEW k \in Targets,
           NEW i \in DOMAIN wire[k], Handle(k, i)
    PROVE  [Channel!Handle(k)]_Channel!vars
<1> DEFINE S == CheckAll(receiver[k], wire[k][i].events)
           H == [d \in Targets |-> receiver[d].handled]
           h == receiver[k].handled
           g == S.handled
<1>1. /\ receiver' = [receiver EXCEPT ![k] = S] /\ pushed' = pushed
      /\ i = 1 \/ k \in Reordering
  BY DEF Handle
<1>2. HandledStream(k, i, S)
  BY <1>1, HandleOfStream
<1>3. receiver \in [Targets -> Receivers]
  BY DEF StreamsInv
<1>4. /\ S \in Receivers /\ Extended(h, g) /\ Increasing(g)
      /\ \A j \in 1..Len(g) : g[j] \in 1..pushed[k] /\ (k \notin Refusing => g[j] = j)
  BY <1>2 DEF HandledStream
<1> HIDE DEF S
<1>5. h \in Seq(Nat) /\ g \in Seq(Nat)
  BY <1>3, <1>4 DEF Receivers
<1>6. H[k] = h /\ H'[k] = g /\ \A d \in Targets : d # k => H'[d] = H[d]
  BY <1>1, <1>3
<1>7. H' = [H EXCEPT ![k] = H'[k]]
  BY <1>6
<1> HIDE DEF H, h, g
<1>8. CASE Len(g) = Len(h)
  <2>1. g = h
    BY <1>4, <1>5, <1>8, SMTT(30) DEF Extended
  <2>2. H' = H
    BY <1>6, <1>7, <2>1 DEF H
  <2> QED
    BY <1>1, <2>2 DEF Channel!vars, H
<1>9. CASE Len(g) # Len(h)
  <2>1. Channel!IsStrictPrefix(h, g)
    <3>1. Len(h) <= Len(g) /\ Len(h) \in Nat /\ h # g
      BY <1>4, <1>5, <1>9 DEF Extended
    <3>2. SubSeq(h, 1, Len(h)) = SubSeq(g, 1, Len(h))
      BY <1>4, <1>5, <3>1 DEF Extended
    <3> QED
      BY <3>1, <3>2 DEF Channel!IsStrictPrefix, Channel!IsPrefix
  <2>2. DOMAIN g = 1..Len(g)
    BY <1>5
  <2>3. Channel!InOrder(g)
    BY <1>4, <2>2 DEF Increasing, Channel!InOrder
  <2>4. \A j \in DOMAIN g : g[j] \in 1..pushed[k] /\ (k \notin Refusing => g[j] = j)
    BY <1>4, <2>2
  <2>5. Channel!Handle(k)
    BY <1>1, <1>6, <1>7, <2>1, <2>3, <2>4 DEF Channel!Handle, H
  <2> QED
    BY <2>5
<1> QED
  BY <1>8, <1>9

\* The stream of events is an in-order channel: every target handles its events
\* in order and at most once, whatever is retried after a timeout, handled late
\* or lost, and without a gap unless it refuses some for good.  (A target that
\* refuses for good is gone, and does not handle late requests out of order.)
THEOREM StreamIsAChannel ==
    ASSUME Refusing \cap Reordering = {}
    PROVE  Spec => ImplementsChannel
<1>1. Init => Channel!Init
  BY DEF Init, Channel!Init
<1>2. ASSUME StreamsInv, [Next]_vars
      PROVE  [Channel!Next]_Channel!vars
  <2>1. CASE UNCHANGED <<pushed, receiver>>
    BY <2>1 DEF Channel!vars
  <2>2. ASSUME NEW k \in Targets, NEW n \in 1..MaxPushes, Push(k, n)
        PROVE  Channel!Next
    <3>1. pushed \in [Targets -> Nat] /\ n \in Nat
      BY <1>2, ConstantsAssumption DEF StreamsInv, SenderInv, SenderTypes, ConstantsAssumption
    <3>2. pushed' = [pushed EXCEPT ![k] = pushed[k] + n] /\ receiver' = receiver
      BY <2>2 DEF Push
    <3>3. \A d \in Targets : pushed'[d] >= pushed[d]
      BY <3>1, <3>2
    <3>4. pushed' = [d \in Targets |-> pushed'[d]]
      BY <3>1, <3>2
    <3>5. Channel!Push
      BY <3>2, <3>3, <3>4 DEF Channel!Push
    <3> QED
      BY <3>5 DEF Channel!Next
  <2>3. ASSUME NEW k \in Targets, NEW i \in DOMAIN wire[k], Handle(k, i)
        PROVE  [Channel!Next]_Channel!vars
    BY <1>2, <2>3, HandleIsInOrder DEF Channel!Next
  <2>4. CASE TimerFires \/ Upgrade \/ Tick \/ UNCHANGED vars
    BY <2>1, <2>4 DEF TimerFires, Upgrade, Tick, vars
  <2>5. ASSUME NEW k \in Targets,
               \/ Succeeds(k) \/ TimesOut(k) \/ \E retry \in BOOLEAN : Rejected(k, retry)
               \/ \E i \in DOMAIN wire[k] : Lost(k, i)
        PROVE  UNCHANGED <<pushed, receiver>>
    BY <2>5 DEF Succeeds, TimesOut, Rejected, Lost, EndBatch
  <2> QED
    BY <1>2, <2>1, <2>2, <2>3, <2>4, <2>5 DEF Next, SenderStep, TargetStep
<1> QED
  BY <1>1, <1>2, StreamsInvariant, PTL DEF Spec, ImplementsChannel, Channel!Spec
=============================================================================
