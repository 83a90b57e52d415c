------------------------ MODULE LocalIndexSyncProofs ------------------------
(***************************************************************************)
(* Proofs about the events from the user_index to the local_user_indexes,  *)
(* for any targets, batch limits and numbers of events: the queue holds    *)
(* the canisters with events, and the stream is an in-order channel.       *)
(***************************************************************************)
EXTENDS LocalIndexSyncProps, FiniteSetTheorems, SequenceTheorems, TLAPS

TypeOK ==
    /\ pushed \in [Targets -> Nat]
    /\ queue \in Seq(Targets)
    /\ events \in [Targets -> Seq(Nat)]
    /\ syncing \in BOOLEAN /\ timer \in BOOLEAN
    /\ taken \in [Targets -> Seq(Nat)]
    /\ call \in [Targets -> {"none", "made", "handled"}]
    /\ handled \in [Targets -> Seq(Nat)]

\* A batch is in progress while one of its calls is, and no call is empty.
CallsAgree ==
    /\ syncing = (\E c \in Targets : call[c] # "none")
    /\ \A c \in Targets : call[c] # "none" => taken[c] # <<>>

\* What a target has handled, and then the events that it is still to handle.
InFlight(c) == IF call[c] = "made" THEN taken[c] ELSE <<>>
Stream(c) == handled[c] \o (InFlight(c) \o events[c])

\* s is a stream of the first n events, with gaps only for a target that
\* may refuse.
InStream(s, c, n) ==
    /\ s \in Seq(Nat)
    /\ \A i, j \in DOMAIN s : i < j => s[i] < s[j]
    /\ \A i \in DOMAIN s : s[i] \in 1..n
    /\ c \notin Refusing => Len(s) = n /\ \A i \in DOMAIN s : s[i] = i

StreamsAgree == \A c \in Targets : InStream(Stream(c), c, pushed[c])

SyncInv == TypeOK /\ QueueMatchesEvents /\ CallsAgree /\ StreamsAgree

------------------------------------------------------------------------------
(* The queue.                                                               *)

Matches(q, ev) == IsInjective(q) /\ Range(q) = {c \in Targets : ev[c] # <<>>}

\* The new events of a push.
LEMMA PushedEventsType ==
    ASSUME TypeOK, NEW S \in SUBSET Targets, NEW n \in Nat \ {0}
    PROVE  /\ PushedEvents(S, n) \in [Targets -> Seq(Nat)]
           /\ \A c \in Targets : (PushedEvents(S, n)[c] = <<>>) = (c \notin S /\ events[c] = <<>>)
<1>1. ASSUME NEW c \in Targets
      PROVE  LET new == [i \in 1..n |-> pushed[c] + i]
             IN  /\ events[c] \o new \in Seq(Nat) /\ events[c] \in Seq(Nat)
                 /\ events[c] \o new # <<>>
  <2> DEFINE new == [i \in 1..n |-> pushed[c] + i]
  <2>1. pushed[c] \in Nat /\ events[c] \in Seq(Nat)
    BY DEF TypeOK
  <2>2. new \in Seq(Nat) /\ Len(new) = n
    BY <2>1
  <2> HIDE DEF new
  <2>3. events[c] \o new \in Seq(Nat) /\ Len(events[c] \o new) = Len(events[c]) + n
    BY <2>1, <2>2, ConcatProperties
  <2>4. Len(events[c]) \in Nat
    BY <2>1
  <2>5. Len(events[c] \o new) # 0
    BY <2>3, <2>4
  <2>6. events[c] \o new # <<>>
    BY <2>5
  <2> QED
    BY <2>1, <2>3, <2>6 DEF new
<1> QED
  BY <1>1 DEF PushedEvents

\* The canisters of a set in any order.
LEMMA OrdersType ==
    ASSUME NEW S, IsFiniteSet(S), NEW s \in Orders(S)
    PROVE  /\ Cardinality(S) \in Nat
           /\ s \in [1..Cardinality(S) -> S] /\ s \in Seq(S)
           /\ DOMAIN s = 1..Cardinality(S) /\ Len(s) = Cardinality(S)
           /\ IsInjective(s) /\ Range(s) = S
<1>1. Cardinality(S) \in Nat
  BY FS_CardinalityType
<1>2. /\ s \in [1..Cardinality(S) -> S] /\ IsInjective(s)
      /\ \A x \in S : \E i \in 1..Cardinality(S) : s[i] = x
  BY DEF Orders, Bijection, Injection, Surjection
<1>3. s \in Seq(S) /\ DOMAIN s = 1..Cardinality(S) /\ Len(s) = Cardinality(S)
  BY <1>1, <1>2
<1>4. Range(s) = S
  BY <1>2, <1>3 DEF Range
<1> QED
  BY <1>1, <1>2, <1>3, <1>4

\* Two queues without a canister in common make one.
LEMMA ConcatInjective ==
    ASSUME NEW S, NEW s \in Seq(S), NEW t \in Seq(S),
           IsInjective(s), IsInjective(t), \A x \in Range(s) : x \notin Range(t)
    PROVE  s \o t \in Seq(S) /\ IsInjective(s \o t) /\ Range(s \o t) = Range(s) \union Range(t)
<1> DEFINE q == s \o t
           m == Len(s)
           n == Len(t)
<1>1. m \in Nat /\ n \in Nat /\ DOMAIN s = 1..m /\ DOMAIN t = 1..n
  OBVIOUS
<1>2. /\ q \in Seq(S) /\ Len(q) = m + n
      /\ \A i \in 1..m + n : q[i] = IF i <= m THEN s[i] ELSE t[i - m]
  BY ConcatProperties
<1>3. Range(q) = Range(s) \union Range(t)
  BY RangeConcatenation
<1>4. DOMAIN q = 1..m + n
  BY <1>2
<1> HIDE DEF q, m, n
<1>5. ASSUME NEW i \in 1..m + n, NEW j \in 1..m + n, i <= m, ~(j <= m), q[i] = q[j]
      PROVE  FALSE
  <2>1. i \in 1..m /\ q[i] = s[i]
    BY <1>1, <1>2, <1>5
  <2>2. j - m \in 1..n /\ q[j] = t[j - m]
    BY <1>1, <1>2, <1>5
  <2>3. s[i] \in Range(s) /\ t[j - m] \in Range(t)
    BY <1>1, <2>1, <2>2 DEF Range
  <2> QED
    BY <1>5, <2>1, <2>2, <2>3
<1>6. IsInjective(q)
  <2> SUFFICES ASSUME NEW i \in 1..m + n, NEW j \in 1..m + n, q[i] = q[j]
               PROVE  i = j
    BY <1>4 DEF IsInjective
  <2>1. CASE i <= m /\ j <= m
    <3>1. i \in DOMAIN s /\ j \in DOMAIN s /\ s[i] = s[j]
      BY <2>1, <1>1, <1>2
    <3> QED
      BY <3>1 DEF IsInjective
  <2>2. CASE ~(i <= m) /\ ~(j <= m)
    <3>1. i - m \in DOMAIN t /\ j - m \in DOMAIN t /\ t[i - m] = t[j - m]
      BY <2>2, <1>1, <1>2
    <3>2. i - m = j - m
      BY <3>1 DEF IsInjective
    <3> QED
      BY <3>2, <1>1
  <2> QED
    BY <2>1, <2>2, <1>5
<1> QED
  BY <1>2, <1>3, <1>6 DEF q

\* A push queues the canisters that had no events.
LEMMA PushMatches ==
    ASSUME ConstantsAssumption, TypeOK, QueueMatchesEvents,
           NEW S \in SUBSET Targets, NEW n \in Nat \ {0}, NEW q \in PushedQueues(S)
    PROVE  q \in Seq(Targets) /\ Matches(q, PushedEvents(S, n))
<1> DEFINE idle == {c \in S : events[c] = <<>>}
<1>1. PICK s \in Orders(idle) : q = queue \o s
  BY DEF PushedQueues
<1>2. IsFiniteSet(idle) /\ idle \subseteq Targets
  BY FS_Subset DEF ConstantsAssumption
<1>3. queue \in Seq(Targets) /\ IsInjective(queue)
      /\ Range(queue) = {c \in Targets : events[c] # <<>>}
  BY DEF TypeOK, QueueMatchesEvents
<1>4. \A x \in Range(queue) : x \notin idle
  BY <1>3
<1>5. ASSUME NEW c \in Targets
      PROVE  (PushedEvents(S, n)[c] # <<>>) <=> c \in Range(queue) \union idle
  <2>1. PushedEvents(S, n)[c] = <<>> <=> c \notin S /\ events[c] = <<>>
    BY PushedEventsType
  <2>2. c \in Range(queue) <=> events[c] # <<>>
    BY <1>3
  <2>3. c \in idle <=> c \in S /\ events[c] = <<>>
    OBVIOUS
  <2> QED
    BY <2>1, <2>2, <2>3
<1> HIDE DEF idle
<1>6. s \in Seq(idle) /\ IsInjective(s) /\ Range(s) = idle
  BY <1>1, <1>2, OrdersType
<1>7. s \in Seq(Targets)
  BY <1>2, <1>6, SeqMonotonic
<1>8. q \in Seq(Targets) /\ IsInjective(q) /\ Range(q) = Range(queue) \union idle
  BY <1>1, <1>3, <1>4, <1>6, <1>7, ConcatInjective
<1>9. Range(queue) \union idle \subseteq Targets
  BY <1>2, <1>3
<1> QED
  BY <1>5, <1>8, <1>9 DEF Matches

\* take_events takes at least one event and leaves the rest.
LEMMA BatchSplit ==
    ASSUME ConstantsAssumption, NEW e \in Seq(Nat), e # <<>>
    PROVE  LET m == BatchLen(e)
           IN  /\ SubSeq(e, 1, m) \in Seq(Nat) /\ SubSeq(e, 1, m) # <<>>
               /\ SubSeq(e, m + 1, Len(e)) \in Seq(Nat)
               /\ SubSeq(e, m + 1, Len(e)) = <<>> <=> ~(Len(e) > m)
               /\ SubSeq(e, 1, m) \o SubSeq(e, m + 1, Len(e)) = e
<1> DEFINE m == BatchLen(e)
<1>1. Len(e) \in Nat /\ Len(e) # 0 /\ \A i \in 1..Len(e) : e[i] \in Nat
  BY EmptySeq
<1>2. m \in Nat /\ 1 <= m /\ m <= Len(e)
  BY <1>1 DEF BatchLen, Smaller, ConstantsAssumption
<1> HIDE DEF m
<1>3. SubSeq(e, 1, m) \in Seq(Nat) /\ Len(SubSeq(e, 1, m)) = m
  BY <1>1, <1>2, SubSeqProperties
<1>4. /\ SubSeq(e, m + 1, Len(e)) \in Seq(Nat)
      /\ Len(SubSeq(e, m + 1, Len(e))) = IF m + 1 <= Len(e) THEN Len(e) - (m + 1) + 1 ELSE 0
  BY <1>1, <1>2, SubSeqProperties
<1>5. SubSeq(e, m + 1, Len(e)) = <<>> <=> Len(SubSeq(e, m + 1, Len(e))) = 0
  <2> DEFINE rest == SubSeq(e, m + 1, Len(e))
  <2>1. rest \in Seq(Nat)
    BY <1>4
  <2> HIDE DEF rest
  <2>2. rest = <<>> <=> Len(rest) = 0
    BY <2>1
  <2> QED
    BY <2>2 DEF rest
<1>6. SubSeq(e, m + 1, Len(e)) = <<>> <=> ~(Len(e) > m)
  BY <1>1, <1>2, <1>4, <1>5
<1>7. SubSeq(e, 1, m) # <<>>
  BY <1>2, <1>3
<1>8. SubSeq(e, 1, m) \o SubSeq(e, m + 1, Len(e)) = SubSeq(e, 1, Len(e))
  BY <1>1, <1>2, ConcatAdjacentSubSeq
<1>9. SubSeq(e, 1, Len(e)) = e
  BY SubSeqFull
<1> QED
  BY <1>3, <1>4, <1>6, <1>7, <1>8, <1>9 DEF m

\* The batches of the first n canisters of q are started.
FirstStarted(q, ev, n) ==
    /\ \A c \in Targets : c \in {q[i] : i \in 1..n} =>
          /\ call'[c] = "made"
          /\ taken'[c] \in Seq(Nat) /\ taken'[c] # <<>>
          /\ events'[c] \in Seq(Nat)
          /\ events'[c] = <<>> <=> ~(Len(ev[c]) > BatchLen(ev[c]))
          /\ taken'[c] \o events'[c] = ev[c]
    /\ \A c \in Targets : c \notin {q[i] : i \in 1..n} =>
          /\ events'[c] = ev[c] /\ taken'[c] = taken[c] /\ call'[c] = call[c]

\* The canisters of a batch: the first ones of the queue, each with a part of
\* its events.
LEMMA BatchStarts ==
    ASSUME ConstantsAssumption, TypeOK, NEW q \in Seq(Targets), q # <<>>,
           NEW ev \in [Targets -> Seq(Nat)], Matches(q, ev), StartBatch(q, ev)
    PROVE  \E n \in 1..Len(q) : n = Smaller(MaxCanisters, Len(q)) /\ FirstStarted(q, ev, n)
<1> DEFINE n == Smaller(MaxCanisters, Len(q))
           chosen == {q[i] : i \in 1..n}
<1>1. Len(q) \in Nat /\ Len(q) # 0 /\ \A i \in 1..Len(q) : q[i] \in Targets
  BY EmptySeq
<1>2. n \in 1..Len(q)
  BY <1>1 DEF Smaller, ConstantsAssumption
<1> HIDE DEF n
<1>3. Range(SubSeq(q, 1, n)) = chosen
  <2> DEFINE first == SubSeq(q, 1, n)
  <2>1. /\ first \in Seq(Targets) /\ Len(first) = n
        /\ \A i \in 1..n : first[i] = q[i]
    BY <1>1, <1>2
  <2> HIDE DEF first
  <2>2. DOMAIN first = 1..n /\ \A i \in 1..n : first[i] = q[i]
    BY <2>1
  <2>3. Range(first) = chosen
    BY <2>2 DEF Range
  <2> QED
    BY <2>3 DEF first
<1> HIDE DEF chosen
<1>4. /\ events' = [c \in Targets |-> IF c \in chosen
            THEN SubSeq(ev[c], BatchLen(ev[c]) + 1, Len(ev[c])) ELSE ev[c]]
      /\ taken' = [c \in Targets |-> IF c \in chosen
            THEN SubSeq(ev[c], 1, BatchLen(ev[c])) ELSE taken[c]]
      /\ call' = [c \in Targets |-> IF c \in chosen THEN "made" ELSE call[c]]
  BY <1>3 DEF StartBatch, n
<1>5. ASSUME NEW c \in Targets, c \in chosen
      PROVE  /\ call'[c] = "made"
             /\ taken'[c] \in Seq(Nat) /\ taken'[c] # <<>>
             /\ events'[c] \in Seq(Nat)
             /\ events'[c] = <<>> <=> ~(Len(ev[c]) > BatchLen(ev[c]))
             /\ taken'[c] \o events'[c] = ev[c]
  <2>1. ev[c] # <<>>
    <3>1. PICK i \in 1..n : c = q[i]
      BY <1>5 DEF chosen
    <3>2. c \in Range(q)
      BY <1>1, <1>2, <3>1 DEF Range
    <3> QED
      BY <3>2 DEF Matches
  <2>2. /\ events'[c] = SubSeq(ev[c], BatchLen(ev[c]) + 1, Len(ev[c]))
        /\ taken'[c] = SubSeq(ev[c], 1, BatchLen(ev[c])) /\ call'[c] = "made"
    BY <1>4, <1>5
  <2> QED
    BY <2>1, <2>2, BatchSplit
<1>6. ASSUME NEW c \in Targets, c \notin chosen
      PROVE  events'[c] = ev[c] /\ taken'[c] = taken[c] /\ call'[c] = call[c]
  BY <1>4, <1>6
<1> QED
  BY <1>2, <1>5, <1>6 DEF n, chosen, FirstStarted

\* What a batch leaves at the end of the queue.
LEMMA QueueEnd ==
    ASSUME NEW S, NEW q \in Seq(S), IsInjective(q), NEW n \in 1..Len(q)
    PROVE  LET late == SubSeq(q, n + 1, Len(q))
           IN  /\ late \in Seq(S) /\ IsInjective(late)
               /\ \A x : x \in Range(late) <=> \E i \in n + 1..Len(q) : q[i] = x
<1> DEFINE l == Len(q)
           late == SubSeq(q, n + 1, l)
<1>1. /\ l \in Nat /\ n \in Nat /\ n <= l /\ DOMAIN q = 1..l
      /\ \A i \in 1..l : q[i] \in S
  OBVIOUS
<1>2. /\ late \in Seq(S) /\ Len(late) = IF n + 1 <= l THEN l - (n + 1) + 1 ELSE 0
      /\ \A i \in 1..l - (n + 1) + 1 : late[i] = q[n + 1 + i - 1]
  BY <1>1, SubSeqProperties
<1> HIDE DEF late, l
<1>3. /\ l - (n + 1) + 1 = l - n /\ (n + 1 <= l \/ l - n = 0)
      /\ \A i \in 1..l - n : n + 1 + i - 1 = n + i
  BY <1>1
<1>4. DOMAIN late = 1..l - n
  <2>1. Len(late) = l - n
    BY <1>2, <1>3
  <2> QED
    BY <2>1, <1>2
<1>5. ASSUME NEW i \in 1..l - n
      PROVE  late[i] = q[n + i]
  BY <1>2, <1>3
<1>6. \A i \in 1..l - n : n + i \in n + 1..l /\ n + i \in 1..l
  BY <1>1
<1>7. ASSUME NEW i \in DOMAIN late, NEW j \in DOMAIN late, late[i] = late[j]
      PROVE  i = j
  <2>1. n + i \in DOMAIN q /\ n + j \in DOMAIN q /\ q[n + i] = q[n + j]
    BY <1>1, <1>4, <1>5, <1>6, <1>7
  <2>2. n + i = n + j
    BY <2>1 DEF IsInjective
  <2> QED
    BY <2>2, <1>1, <1>4
<1>8. \A k \in n + 1..l : k - n \in 1..l - n /\ n + (k - n) = k
  BY <1>1
<1>9. ASSUME NEW x
      PROVE  x \in Range(late) <=> \E i \in n + 1..l : q[i] = x
  <2>1. x \in Range(late) <=> \E i \in DOMAIN late : late[i] = x
    BY DEF Range
  <2>2. ASSUME NEW i \in DOMAIN late, late[i] = x
        PROVE  \E k \in n + 1..l : q[k] = x
    BY <2>2, <1>4, <1>5, <1>6
  <2>3. ASSUME NEW k \in n + 1..l, q[k] = x
        PROVE  \E i \in DOMAIN late : late[i] = x
    <3>1. k - n \in DOMAIN late /\ late[k - n] = q[n + (k - n)]
      BY <1>4, <1>5, <1>8
    <3> QED
      BY <3>1, <2>3, <1>8
  <2> QED
    BY <2>1, <2>2, <2>3
<1> QED
  BY <1>2, <1>7, <1>9 DEF late, l, IsInjective

\* A canister of a batch is queued again if it has more events.
LEMMA BatchMatches ==
    ASSUME ConstantsAssumption, TypeOK, NEW q \in Seq(Targets), q # <<>>,
           NEW ev \in [Targets -> Seq(Nat)], Matches(q, ev), StartBatch(q, ev)
    PROVE  queue' \in Seq(Targets) /\ Matches(queue, events)'
<1>1. PICK n \in 1..Len(q) : n = Smaller(MaxCanisters, Len(q)) /\ FirstStarted(q, ev, n)
  BY BatchStarts
<1> DEFINE l == Len(q)
           more == {i \in 1..n : Len(ev[q[i]]) > BatchLen(ev[q[i]])}
           late == SubSeq(q, n + 1, l)
<1>2. /\ l \in Nat /\ DOMAIN q = 1..l /\ n \in 1..l /\ n \in Nat /\ n <= l
      /\ \A i \in 1..l : q[i] \in Targets
  OBVIOUS
<1>3. PICK readd \in Orders(more) :
          queue' = late \o [i \in DOMAIN readd |-> q[readd[i]]]
  BY <1>1 DEF StartBatch
<1>4. /\ IsInjective(q) /\ \A c \in Targets : c \in Range(q) <=> ev[c] # <<>>
  BY DEF Matches
<1>5. \A i, j \in 1..l : q[i] = q[j] => i = j
  BY <1>2, <1>4 DEF IsInjective
<1>6. \A i \in more : i \in 1..n
  OBVIOUS
<1>7. ASSUME NEW i \in 1..n
      PROVE  events'[q[i]] # <<>> <=> i \in more
  <2>1. q[i] \in Targets /\ q[i] \in {q[j] : j \in 1..n}
    BY <1>2
  <2>2. events'[q[i]] = <<>> <=> ~(Len(ev[q[i]]) > BatchLen(ev[q[i]]))
    BY <2>1, <1>1 DEF FirstStarted
  <2> QED
    BY <2>2
<1>8. /\ late \in Seq(Targets) /\ IsInjective(late)
      /\ \A x : x \in Range(late) <=> \E i \in n + 1..l : q[i] = x
  BY <1>4, QueueEnd
<1> DEFINE again == [i \in DOMAIN readd |-> q[readd[i]]]
<1>9. queue' = late \o again
  BY <1>3
<1> HIDE DEF late, more
<1>10. /\ \A k \in n + 1..l : k \in 1..l /\ k \notin 1..n
       /\ \A k \in 1..l : k \in 1..n \/ k \in n + 1..l
       /\ \A k \in 1..n : k \in 1..l
  BY <1>2
<1>11. /\ again \in Seq(Targets) /\ IsInjective(again)
       /\ \A x : x \in Range(again) <=> \E i \in more : q[i] = x
  <2>1. IsFiniteSet(more)
    <3>1. IsFiniteSet(1..n)
      BY <1>2, FS_Interval
    <3> QED
      BY <3>1, <1>6, FS_Subset
  <2>2. /\ readd \in Seq(more) /\ DOMAIN readd = 1..Len(readd) /\ Len(readd) \in Nat
        /\ IsInjective(readd) /\ Range(readd) = more
    BY <2>1, OrdersType
  <2>3. \A i \in DOMAIN readd : readd[i] \in more /\ readd[i] \in 1..l
    BY <2>2, <1>6, <1>10 DEF Range
  <2>4. again \in Seq(Targets)
    BY <2>2, <2>3, <1>2
  <2>5. DOMAIN again = DOMAIN readd /\ \A i \in DOMAIN readd : again[i] = q[readd[i]]
    OBVIOUS
  <2> HIDE DEF again
  <2>6. ASSUME NEW i \in DOMAIN again, NEW j \in DOMAIN again, again[i] = again[j]
        PROVE  i = j
    <3>1. /\ readd[i] \in 1..l /\ readd[j] \in 1..l
          /\ q[readd[i]] = q[readd[j]]
      BY <2>3, <2>5, <2>6
    <3> HIDE DEF l
    <3>2. readd[i] = readd[j]
      BY <3>1, <1>5
    <3> QED
      BY <3>2, <2>2, <2>5 DEF IsInjective
  <2>7. \A k \in more : \E i \in DOMAIN readd : readd[i] = k
    BY <2>2 DEF Range
  <2>8. ASSUME NEW x
        PROVE  x \in Range(again) <=> \E i \in more : q[i] = x
    <3>1. x \in Range(again) <=> \E i \in DOMAIN again : again[i] = x
      BY DEF Range
    <3>2. x \in Range(again) <=> \E i \in DOMAIN readd : x = q[readd[i]]
      BY <3>1, <2>5
    <3>3. ASSUME NEW i \in DOMAIN readd, x = q[readd[i]]
          PROVE  \E k \in more : q[k] = x
      BY <2>3, <3>3
    <3>4. ASSUME NEW k \in more, q[k] = x
          PROVE  \E i \in DOMAIN readd : x = q[readd[i]]
      BY <2>7, <3>4
    <3> QED
      BY <3>2, <3>3, <3>4
  <2> QED
    BY <2>4, <2>6, <2>8 DEF IsInjective
<1> HIDE DEF again, l
<1>12. ASSUME NEW x \in Range(late)
       PROVE  x \notin Range(again)
  <2>1. PICK i \in n + 1..l : q[i] = x
    BY <1>8
  <2>2. \A j \in more : q[j] # x
    BY <2>1, <1>5, <1>6, <1>10
  <2> QED
    BY <2>2, <1>11
<1>13. /\ queue' \in Seq(Targets) /\ IsInjective(queue')
       /\ Range(queue') = Range(late) \union Range(again)
  BY <1>8, <1>9, <1>11, <1>12, ConcatInjective
<1>14. ASSUME NEW x
       PROVE  x \in Range(queue') <=> \E k \in (n + 1..l) \union more : q[k] = x
  BY <1>8, <1>11, <1>13
<1>15. ASSUME NEW c \in Targets
       PROVE  c \in Range(queue') <=> events'[c] # <<>>
  <2>1. CASE \E i \in 1..n : c = q[i]
    <3>1. PICK i \in 1..n : c = q[i]
      BY <2>1
    <3>2. \A k \in (n + 1..l) \union more : q[k] = c => k = i
      BY <3>1, <1>5, <1>6, <1>10
    <3>3. i \notin n + 1..l
      BY <1>10
    <3> QED
      BY <3>1, <3>2, <3>3, <1>7, <1>14
  <2>2. CASE ~\E i \in 1..n : c = q[i]
    <3>1. events'[c] = ev[c]
      BY <2>2, <1>1 DEF FirstStarted
    <3>2. ev[c] # <<>> <=> \E k \in 1..l : q[k] = c
      BY <1>2, <1>4 DEF Range
    <3> QED
      BY <2>2, <3>1, <3>2, <1>6, <1>10, <1>14
  <2> QED
    BY <2>1, <2>2
<1>16. ASSUME NEW x \in Range(queue')
       PROVE  x \in Targets
  <2>1. PICK k \in (n + 1..l) \union more : q[k] = x
    BY <1>14
  <2>2. k \in 1..l
    BY <1>6, <1>10
  <2> QED
    BY <2>1, <2>2, <1>2
<1> QED
  BY <1>13, <1>15, <1>16 DEF Matches

------------------------------------------------------------------------------
(* The streams.                                                             *)

\* A stream grows by the next events.
LEMMA StreamGrows ==
    ASSUME NEW s, NEW c, NEW n \in Nat, NEW k \in Nat, InStream(s, c, n)
    PROVE  InStream(s \o [i \in 1..k |-> n + i], c, n + k)
<1> DEFINE new == [i \in 1..k |-> n + i]
           t == s \o new
           l == Len(s)
<1>1. s \in Seq(Nat) /\ l \in Nat /\ DOMAIN s = 1..l
  BY DEF InStream
<1>2. new \in Seq(Nat) /\ Len(new) = k /\ \A i \in 1..k : new[i] = n + i
  OBVIOUS
<1> HIDE DEF new
<1>3. /\ t \in Seq(Nat) /\ Len(t) = l + k
      /\ \A i \in 1..l + k : t[i] = IF i <= l THEN s[i] ELSE new[i - l]
  BY <1>1, <1>2, ConcatProperties
<1>4. DOMAIN t = 1..l + k
  BY <1>3
<1> HIDE DEF t, l
<1>5. ASSUME NEW i \in 1..l + k
      PROVE  \/ i \in 1..l /\ t[i] = s[i] /\ s[i] \in 1..n
             \/ i \notin 1..l /\ i > l /\ t[i] = n + (i - l) /\ i - l \in 1..k
  <2>1. CASE i <= l
    <3>1. i \in 1..l /\ t[i] = s[i]
      BY <2>1, <1>1, <1>3
    <3> QED
      BY <3>1, <1>1 DEF InStream
  <2>2. CASE ~(i <= l)
    <3>1. i - l \in 1..k /\ i \notin 1..l /\ i > l /\ t[i] = new[i - l]
      BY <2>2, <1>1, <1>3
    <3> QED
      BY <3>1, <1>2
  <2> QED
    BY <2>1, <2>2
<1>6. ASSUME NEW i \in 1..l + k, NEW j \in 1..l + k, i < j
      PROVE  t[i] < t[j]
  <2>1. CASE i \in 1..l /\ j \in 1..l
    BY <2>1, <1>1, <1>5, <1>6 DEF InStream
  <2>2. CASE i \notin 1..l \/ j \notin 1..l
    BY <2>2, <1>1, <1>5, <1>6
  <2> QED
    BY <2>1, <2>2
<1>7. ASSUME NEW i \in 1..l + k
      PROVE  t[i] \in 1..n + k
  BY <1>1, <1>5
<1>8. ASSUME c \notin Refusing
      PROVE  l + k = n + k /\ \A i \in 1..l + k : t[i] = i
  <2>1. l = n /\ \A i \in 1..l : s[i] = i
    BY <1>1, <1>8 DEF InStream, l
  <2> QED
    BY <2>1, <1>1, <1>5
<1> QED
  BY <1>3, <1>4, <1>6, <1>7, <1>8 DEF InStream, t, new

\* What a target has handled once it has handled the events in flight, and
\* what remains of the stream when they are dropped.
LEMMA StreamParts ==
    ASSUME NEW h \in Seq(Nat), NEW a \in Seq(Nat), NEW e \in Seq(Nat),
           NEW c, NEW n \in Nat, InStream(h \o (a \o e), c, n)
    PROVE  /\ \A i, j \in DOMAIN (h \o a) : i < j => (h \o a)[i] < (h \o a)[j]
           /\ \A i \in DOMAIN (h \o a) : (h \o a)[i] \in 1..n
           /\ c \notin Refusing => \A i \in DOMAIN (h \o a) : (h \o a)[i] = i
           /\ c \in Refusing => InStream(h \o e, c, n)
<1> DEFINE s == h \o (a \o e)
           lh == Len(h)
           la == Len(a)
           le == Len(e)
<1>1. lh \in Nat /\ la \in Nat /\ le \in Nat
  OBVIOUS
<1>2. /\ a \o e \in Seq(Nat) /\ Len(a \o e) = la + le
      /\ \A i \in 1..la + le : (a \o e)[i] = IF i <= la THEN a[i] ELSE e[i - la]
  BY ConcatProperties
<1>3. /\ s \in Seq(Nat) /\ Len(s) = lh + (la + le)
      /\ \A i \in 1..lh + (la + le) : s[i] = IF i <= lh THEN h[i] ELSE (a \o e)[i - lh]
  BY <1>2, ConcatProperties
<1>4. /\ h \o a \in Seq(Nat) /\ Len(h \o a) = lh + la
      /\ \A i \in 1..lh + la : (h \o a)[i] = IF i <= lh THEN h[i] ELSE a[i - lh]
  BY ConcatProperties
<1>5. /\ h \o e \in Seq(Nat) /\ Len(h \o e) = lh + le
      /\ \A i \in 1..lh + le : (h \o e)[i] = IF i <= lh THEN h[i] ELSE e[i - lh]
  BY ConcatProperties
<1> DEFINE ha == h \o a
           he == h \o e
           ae == a \o e
<1>6. DOMAIN s = 1..lh + (la + le) /\ DOMAIN ha = 1..lh + la /\ DOMAIN he = 1..lh + le
  BY <1>3, <1>4, <1>5
<1>7. InStream(s, c, n)
  OBVIOUS
<1>12. /\ \A i \in 1..lh + la : ha[i] = IF i <= lh THEN h[i] ELSE a[i - lh]
       /\ \A i \in 1..lh + le : he[i] = IF i <= lh THEN h[i] ELSE e[i - lh]
       /\ \A i \in 1..la + le : ae[i] = IF i <= la THEN a[i] ELSE e[i - la]
       /\ \A i \in 1..lh + (la + le) : s[i] = IF i <= lh THEN h[i] ELSE ae[i - lh]
  BY <1>2, <1>3, <1>4, <1>5
<1> HIDE DEF s, ha, he, ae, lh, la, le
<1>8. ASSUME NEW i \in 1..lh + la
      PROVE  i \in 1..lh + (la + le) /\ ha[i] = s[i]
  <2>1. CASE i <= lh
    BY <2>1, <1>1, <1>12
  <2>2. CASE ~(i <= lh)
    <3>1. i - lh \in 1..la + le /\ i - lh <= la /\ i \in 1..lh + (la + le)
      BY <2>2, <1>1
    <3>2. s[i] = ae[i - lh] /\ ae[i - lh] = a[i - lh] /\ ha[i] = a[i - lh]
      BY <3>1, <2>2, <1>12
    <3> QED
      BY <3>1, <3>2
  <2> QED
    BY <2>1, <2>2
<1>9. ASSUME NEW i \in 1..lh + le
      PROVE  LET k == IF i <= lh THEN i ELSE i + la
             IN  k \in 1..lh + (la + le) /\ he[i] = s[k]
  <2>1. CASE i <= lh
    BY <2>1, <1>1, <1>12
  <2>2. CASE ~(i <= lh)
    <3>1. /\ i + la \in 1..lh + (la + le) /\ ~(i + la <= lh)
          /\ i + la - lh \in 1..la + le /\ ~(i + la - lh <= la)
          /\ (i + la - lh) - la = i - lh
      BY <2>2, <1>1
    <3> DEFINE m == i + la
               d == m - lh
    <3>2. m \in 1..lh + (la + le) /\ ~(m <= lh) /\ d \in 1..la + le /\ ~(d <= la) /\ d - la = i - lh
      BY <3>1, <1>1
    <3> HIDE DEF m
    <3>3. s[m] = ae[d]
      BY <3>2, <1>12
    <3> HIDE DEF d
    <3>5. ae[d] = e[i - lh]
      BY <3>2, <1>12
    <3>4. he[i] = e[i - lh]
      BY <2>2, <1>12
    <3> QED
      BY <3>1, <3>3, <3>4, <3>5, <2>2 DEF m
  <2> QED
    BY <2>1, <2>2
<1>10. /\ \A i, j \in DOMAIN ha : i < j => ha[i] < ha[j]
       /\ \A i \in DOMAIN ha : ha[i] \in 1..n
       /\ c \notin Refusing => \A i \in DOMAIN ha : ha[i] = i
  BY <1>6, <1>7, <1>8 DEF InStream
<1>11. ASSUME c \in Refusing
       PROVE  InStream(he, c, n)
  <2> DEFINE k(i) == IF i <= lh THEN i ELSE i + la
  <2>1. \A i \in 1..lh + le : k(i) \in 1..lh + (la + le) /\ he[i] = s[k(i)]
    BY <1>9
  <2>2. \A i, j \in 1..lh + le : i < j => k(i) < k(j)
    BY <1>1
  <2> HIDE DEF k
  <2>3. \A i, j \in 1..lh + le : i < j => he[i] < he[j]
    BY <2>1, <2>2, <1>6, <1>7 DEF InStream
  <2>4. \A i \in 1..lh + le : he[i] \in 1..n
    BY <2>1, <1>6, <1>7 DEF InStream
  <2>5. he \in Seq(Nat)
    BY <1>5 DEF he
  <2> QED
    BY <2>3, <2>4, <2>5, <1>6, <1>11 DEF InStream
<1> QED
  BY <1>10, <1>11 DEF ha, he

------------------------------------------------------------------------------
(* The steps.                                                               *)

\* The streams once ev is what is still to send, and n events are pushed.
StreamsOf(ev, n) ==
    \A c \in Targets : InStream(handled[c] \o (InFlight(c) \o ev[c]), c, n[c])

\* What every action on the queue has to preserve.
Sendable(q, ev, n) ==
    /\ q \in Seq(Targets) /\ ev \in [Targets -> Seq(Nat)] /\ n \in [Targets -> Nat]
    /\ Matches(q, ev) /\ StreamsOf(ev, n)

\* The invariant, in terms of what a push or a run may send.
LEMMA SendableNow == SyncInv <=> TypeOK /\ CallsAgree /\ Sendable(queue, events, pushed)
  BY DEF SyncInv, Sendable, StreamsOf, StreamsAgree, Stream, QueueMatchesEvents, Matches,
         TypeOK

\* A push or a run that starts no batch, and stores what it was given.
LEMMA StayKeeps ==
    ASSUME TypeOK, CallsAgree, NEW q, NEW ev, NEW n, Sendable(q, ev, n), Stay(q, ev),
           pushed' = n, handled' = handled, timer' \in BOOLEAN
    PROVE  SyncInv'
<1>1. /\ queue' = q /\ events' = ev /\ syncing' = syncing /\ taken' = taken /\ call' = call
  BY DEF Stay, callVars
<1>2. TypeOK'
  BY <1>1 DEF TypeOK, Sendable
<1>3. CallsAgree'
  BY <1>1 DEF CallsAgree
<1>4. StreamsAgree'
  BY <1>1 DEF Sendable, StreamsOf, StreamsAgree, Stream, InFlight
<1>5. QueueMatchesEvents'
  BY <1>1 DEF Sendable, QueueMatchesEvents, Matches
<1> QED
  BY <1>2, <1>3, <1>4, <1>5 DEF SyncInv

\* A push or a run that starts a batch: what is taken is in flight, and the
\* stream of each target is as it was.
LEMMA StartKeeps ==
    ASSUME ConstantsAssumption, TypeOK, CallsAgree, NEW q, NEW ev, NEW n, Sendable(q, ev, n),
           CanStart(q), StartBatch(q, ev), pushed' = n, handled' = handled, timer' \in BOOLEAN
    PROVE  SyncInv'
<1>1. /\ q \in Seq(Targets) /\ q # <<>> /\ ev \in [Targets -> Seq(Nat)] /\ Matches(q, ev)
      /\ n \in [Targets -> Nat]
  BY DEF Sendable, CanStart
<1>2. PICK k \in 1..Len(q) : k = Smaller(MaxCanisters, Len(q)) /\ FirstStarted(q, ev, k)
  BY <1>1, BatchStarts
<1> DEFINE chosen == {q[i] : i \in 1..k}
<1>3. q[1] \in Targets /\ q[1] \in chosen
  <2>1. 1 \in 1..k /\ 1 \in 1..Len(q)
    BY <1>1
  <2> QED
    BY <2>1, <1>1
<1> HIDE DEF chosen
<1>4. \A c \in Targets : call[c] = "none"
  BY DEF CallsAgree, CanStart
<1>5. /\ syncing' = TRUE
      /\ events' = [c \in Targets |-> events'[c]]
      /\ taken' = [c \in Targets |-> taken'[c]]
      /\ call' = [c \in Targets |-> call'[c]]
  BY DEF StartBatch
<1>6. queue' \in Seq(Targets) /\ QueueMatchesEvents'
  BY <1>1, BatchMatches DEF Matches, QueueMatchesEvents
<1>7. ASSUME NEW c \in Targets
      PROVE  /\ events'[c] \in Seq(Nat) /\ taken'[c] \in Seq(Nat)
             /\ call'[c] \in {"none", "made", "handled"}
             /\ call'[c] # "none" => taken'[c] # <<>>
             /\ InStream(Stream(c), c, pushed[c])'
  <2>1. InStream(handled[c] \o (InFlight(c) \o ev[c]), c, n[c]) /\ InFlight(c) = <<>>
    BY <1>4 DEF Sendable, StreamsOf, InFlight
  <2>2. <<>> \o ev[c] = ev[c] /\ ev[c] \in Seq(Nat)
    BY <1>1, ConcatEmptySeq
  <2>3. InStream(handled[c] \o ev[c], c, n[c])
    BY <2>1, <2>2
  <2>4. CASE c \in chosen
    <3>1. /\ call'[c] = "made" /\ taken'[c] \in Seq(Nat) /\ taken'[c] # <<>>
          /\ events'[c] \in Seq(Nat) /\ taken'[c] \o events'[c] = ev[c]
      BY <2>4, <1>2 DEF chosen, FirstStarted
    <3>2. Stream(c)' = handled[c] \o ev[c]
      BY <3>1 DEF Stream, InFlight
    <3> QED
      BY <3>1, <3>2, <2>3
  <2>5. CASE c \notin chosen
    <3>1. /\ call'[c] = "none" /\ taken'[c] = taken[c] /\ events'[c] = ev[c]
      BY <2>5, <1>2, <1>4 DEF chosen, FirstStarted
    <3>2. Stream(c)' = handled[c] \o ev[c]
      BY <3>1, <2>2 DEF Stream, InFlight
    <3> QED
      BY <3>1, <3>2, <2>2, <2>3 DEF TypeOK
  <2> QED
    BY <2>4, <2>5
<1>8. TypeOK'
  <2>1. events' \in [Targets -> Seq(Nat)] /\ taken' \in [Targets -> Seq(Nat)]
        /\ call' \in [Targets -> {"none", "made", "handled"}]
    BY <1>5, <1>7
  <2> QED
    BY <2>1, <1>1, <1>5, <1>6 DEF TypeOK
<1>9. CallsAgree'
  <2>1. call'[q[1]] # "none"
    BY <1>2, <1>3 DEF chosen, FirstStarted
  <2> QED
    BY <2>1, <1>3, <1>5, <1>7 DEF CallsAgree
<1>10. StreamsAgree'
  BY <1>7 DEF StreamsAgree
<1> QED
  BY <1>6, <1>8, <1>9, <1>10 DEF SyncInv

\* The order in which the parts of a stream are put together does not matter.
LEMMA Associative ==
    ASSUME NEW h \in Seq(Nat), NEW a \in Seq(Nat), NEW e \in Seq(Nat)
    PROVE  (h \o a) \o e = h \o (a \o e)
  BY ConcatAssociative, SMTT(30)

\* What a push makes of the queue, the events and the numbers of events.
LEMMA PushSendable ==
    ASSUME ConstantsAssumption, SyncInv, NEW S \in SUBSET Targets, NEW n \in Nat \ {0},
           NEW q \in PushedQueues(S), NewEvents(S, n)
    PROVE  Sendable(q, PushedEvents(S, n), pushed')
<1> DEFINE ev == PushedEvents(S, n)
<1>1. TypeOK /\ QueueMatchesEvents /\ StreamsAgree
  BY DEF SyncInv
<1>2. q \in Seq(Targets) /\ Matches(q, ev) /\ ev \in [Targets -> Seq(Nat)]
  BY <1>1, PushMatches, PushedEventsType
<1>3. /\ pushed' = [c \in Targets |-> IF c \in S THEN pushed[c] + n ELSE pushed[c]]
      /\ pushed' \in [Targets -> Nat]
  BY <1>1 DEF NewEvents, TypeOK
<1>4. ASSUME NEW c \in Targets
      PROVE  InStream(handled[c] \o (InFlight(c) \o ev[c]), c, pushed'[c])
  <2>1. /\ handled[c] \in Seq(Nat) /\ InFlight(c) \in Seq(Nat) /\ events[c] \in Seq(Nat)
        /\ pushed[c] \in Nat
    BY <1>1, EmptySeq DEF TypeOK, InFlight
  <2>2. InStream(handled[c] \o (InFlight(c) \o events[c]), c, pushed[c])
    BY <1>1 DEF StreamsAgree, Stream
  <2>3. CASE c \in S
    <3> DEFINE new == [i \in 1..n |-> pushed[c] + i]
    <3>1. ev[c] = events[c] \o new /\ pushed'[c] = pushed[c] + n
      BY <2>3, <1>3 DEF PushedEvents
    <3>2. new \in Seq(Nat)
      BY <2>1
    <3>3. InStream((handled[c] \o (InFlight(c) \o events[c])) \o new, c, pushed[c] + n)
      BY <2>1, <2>2, StreamGrows
    <3> HIDE DEF new, ev
    <3> DEFINE a == InFlight(c)
           e == events[c]
           h == handled[c]
           ae == a \o e
    <3>4. h \in Seq(Nat) /\ a \in Seq(Nat) /\ e \in Seq(Nat) /\ ae \in Seq(Nat)
      BY <2>1, ConcatProperties
    <3>5. ae \o new = a \o (e \o new)
      <4> HIDE DEF a, e
      <4> QED
        BY <3>2, <3>4, Associative, ZenonT(60)
    <3>6. (h \o ae) \o new = h \o (ae \o new)
      <4> HIDE DEF h, ae
      <4> QED
        BY <3>2, <3>4, Associative, ZenonT(60)
    <3> QED
      BY <3>1, <3>3, <3>5, <3>6
  <2>4. CASE c \notin S
    <3>1. ev[c] = events[c] /\ pushed'[c] = pushed[c]
      BY <2>4, <1>3 DEF PushedEvents
    <3> QED
      BY <3>1, <2>2
  <2> QED
    BY <2>3, <2>4
<1> QED
  BY <1>2, <1>3, <1>4 DEF Sendable, StreamsOf

\* A push adds events at the end of the streams of its targets.
LEMMA PushKeeps ==
    ASSUME ConstantsAssumption, SyncInv, NEW S \in SUBSET Targets, NEW n \in Nat \ {0},
           Push(S, n) \/ PushMore(S, n)
    PROVE  SyncInv'
<1>1. TypeOK /\ CallsAgree /\ NewEvents(S, n) /\ handled' = handled
  BY DEF SyncInv, Push, PushMore, NewEvents
<1>2. PICK q \in PushedQueues(S) :
        \/ TryRunNow(q, PushedEvents(S, n))
        \/ Stay(q, PushedEvents(S, n)) /\ timer' = timer
  BY DEF Push, PushMore
<1>3. Sendable(q, PushedEvents(S, n), pushed')
  BY <1>1, PushSendable
<1>4. CASE CanStart(q) /\ StartBatch(q, PushedEvents(S, n)) /\ timer' = FALSE
  BY <1>1, <1>3, <1>4, StartKeeps
<1>5. CASE Stay(q, PushedEvents(S, n)) /\ timer' = timer
  BY <1>1, <1>3, <1>5, StayKeeps DEF TypeOK
<1> QED
  BY <1>2, <1>4, <1>5 DEF TryRunNow

\* The job starts a batch or leaves everything as it was.
LEMMA RunKeeps ==
    ASSUME ConstantsAssumption, SyncInv, Run
    PROVE  SyncInv'
<1>1. TypeOK /\ CallsAgree /\ Sendable(queue, events, pushed)
  BY SendableNow
<1>2. pushed' = pushed /\ handled' = handled /\ timer' = FALSE
  BY DEF Run
<1>3. CASE CanStart(queue) /\ StartBatch(queue, events)
  BY <1>1, <1>2, <1>3, StartKeeps
<1>4. CASE Stay(queue, events)
  BY <1>1, <1>2, <1>4, StayKeeps
<1> QED
  BY <1>3, <1>4 DEF Run

\* An upgrade only arms the timer.
LEMMA UpgradeKeeps ==
    ASSUME SyncInv, Upgrade
    PROVE  SyncInv'
<1>1. /\ pushed' = pushed /\ queue' = queue /\ events' = events /\ syncing' = syncing
      /\ taken' = taken /\ call' = call /\ handled' = handled /\ timer' \in BOOLEAN
  BY DEF Upgrade, callVars
<1>2. TypeOK'
  BY <1>1 DEF SyncInv, TypeOK
<1> QED
  BY <1>1, <1>2 DEF SyncInv, QueueMatchesEvents, CallsAgree, StreamsAgree, Stream, InFlight

\* A request that is handled moves within the stream of its target.
LEMMA HandleKeeps ==
    ASSUME SyncInv, NEW c \in Targets, Handle(c)
    PROVE  SyncInv'
<1>1. TypeOK /\ QueueMatchesEvents /\ CallsAgree /\ StreamsAgree
  BY DEF SyncInv
<1>2. /\ pushed' = pushed /\ queue' = queue /\ events' = events /\ syncing' = syncing
      /\ timer' = timer /\ taken' = taken
      /\ handled' = [handled EXCEPT ![c] = handled[c] \o taken[c]]
      /\ call[c] = "made" /\ call' = [call EXCEPT ![c] = "handled"]
  BY DEF Handle, queueVars
<1>3. handled[c] \in Seq(Nat) /\ taken[c] \in Seq(Nat) /\ events[c] \in Seq(Nat)
  BY <1>1 DEF TypeOK
<1>4. handled[c] \o taken[c] \in Seq(Nat)
  BY <1>3, ConcatProperties
<1>5. TypeOK'
  BY <1>1, <1>2, <1>4 DEF TypeOK
<1>6. CallsAgree'
  BY <1>1, <1>2 DEF CallsAgree, TypeOK
<1>7. ASSUME NEW d \in Targets
      PROVE  Stream(d)' = Stream(d)
  <2>1. CASE d = c
    <3>1. Stream(d) = handled[c] \o (taken[c] \o events[c])
      BY <2>1, <1>2 DEF Stream, InFlight
    <3>2. Stream(d)' = (handled[c] \o taken[c]) \o (<<>> \o events[c])
      BY <2>1, <1>1, <1>2 DEF Stream, InFlight, TypeOK
    <3>3. <<>> \o events[c] = events[c]
      BY <1>3, ConcatEmptySeq
    <3>4. (handled[c] \o taken[c]) \o events[c] = handled[c] \o (taken[c] \o events[c])
      <4> DEFINE h == handled[c]
             a == taken[c]
             e == events[c]
      <4>1. h \in Seq(Nat) /\ a \in Seq(Nat) /\ e \in Seq(Nat)
        BY <1>3
      <4> HIDE DEF h, a, e
      <4>2. (h \o a) \o e = h \o (a \o e)
        BY <4>1, Associative
      <4> QED
        BY <4>2 DEF h, a, e
    <3> QED
      BY <3>1, <3>2, <3>3, <3>4
  <2>2. CASE d # c
    BY <2>2, <1>1, <1>2 DEF Stream, InFlight, TypeOK
  <2> QED
    BY <2>1, <2>2
<1>8. StreamsAgree' /\ QueueMatchesEvents'
  BY <1>1, <1>2, <1>7 DEF StreamsAgree, QueueMatchesEvents
<1> QED
  BY <1>5, <1>6, <1>8 DEF SyncInv

\* The end of a call leaves the stream as it was, unless the events are dropped.
LEMMA EndKeeps ==
    ASSUME SyncInv, NEW c \in Targets, EndSync(c), events' \in [Targets -> Seq(Nat)],
           queue' \in Seq(Targets), QueueMatchesEvents',
           \A d \in Targets \ {c} : events'[d] = events[d],
           InStream(handled[c] \o events'[c], c, pushed[c])
    PROVE  SyncInv'
<1>1. TypeOK /\ CallsAgree /\ StreamsAgree
  BY DEF SyncInv
<1>2. /\ taken' = [taken EXCEPT ![c] = <<>>] /\ call' = [call EXCEPT ![c] = "none"]
      /\ syncing' = (\E d \in Targets : call'[d] # "none")
      /\ timer' = (timer \/ (~syncing' /\ queue' # <<>>))
      /\ pushed' = pushed /\ handled' = handled
  BY DEF EndSync
<1>3. TypeOK'
  BY <1>1, <1>2, EmptySeq DEF TypeOK
<1>4. CallsAgree'
  BY <1>1, <1>2 DEF CallsAgree, TypeOK
<1>5. ASSUME NEW d \in Targets
      PROVE  InStream(Stream(d), d, pushed[d])'
  <2>1. CASE d = c
    <3>1. Stream(d)' = handled[c] \o (<<>> \o events'[c])
      BY <2>1, <1>1, <1>2 DEF Stream, InFlight, TypeOK
    <3>2. <<>> \o events'[c] = events'[c]
      BY ConcatEmptySeq
    <3> QED
      BY <3>1, <3>2, <2>1, <1>2
  <2>2. CASE d # c
    <3>1. Stream(d)' = Stream(d)
      BY <2>2, <1>1, <1>2 DEF Stream, InFlight, TypeOK
    <3> QED
      BY <3>1, <1>1, <1>2 DEF StreamsAgree
  <2> QED
    BY <2>1, <2>2
<1> QED
  BY <1>3, <1>4, <1>5 DEF SyncInv, StreamsAgree

\* The events of a call that succeeded have been handled.
LEMMA SucceedsKeeps ==
    ASSUME SyncInv, NEW c \in Targets, Succeeds(c)
    PROVE  SyncInv'
<1>1. TypeOK /\ QueueMatchesEvents /\ StreamsAgree
  BY DEF SyncInv
<1>2. queue' = queue /\ events' = events /\ call[c] = "handled" /\ EndSync(c)
  BY DEF Succeeds
<1>3. InStream(handled[c] \o (<<>> \o events[c]), c, pushed[c])
  BY <1>1, <1>2 DEF StreamsAgree, Stream, InFlight
<1>4. <<>> \o events[c] = events[c]
  BY <1>1, ConcatEmptySeq DEF TypeOK
<1>5. QueueMatchesEvents'
  BY <1>1, <1>2 DEF QueueMatchesEvents
<1> QED
  BY <1>1, <1>2, <1>3, <1>4, <1>5, EndKeeps DEF TypeOK

\* The events of a refused call leave a gap in the stream.
LEMMA RefusedKeeps ==
    ASSUME SyncInv, NEW c \in Targets, Refused(c)
    PROVE  SyncInv'
<1>1. TypeOK /\ QueueMatchesEvents /\ StreamsAgree
  BY DEF SyncInv
<1>2. /\ queue' = queue /\ events' = events /\ c \in Refusing /\ call[c] = "made"
      /\ EndSync(c)
  BY DEF Refused
<1>3. InStream(handled[c] \o (taken[c] \o events[c]), c, pushed[c])
  BY <1>1, <1>2 DEF StreamsAgree, Stream, InFlight
<1>4. /\ handled[c] \in Seq(Nat) /\ taken[c] \in Seq(Nat) /\ events[c] \in Seq(Nat)
      /\ pushed[c] \in Nat
  BY <1>1 DEF TypeOK
<1>5. InStream(handled[c] \o events[c], c, pushed[c])
  BY <1>2, <1>3, <1>4, StreamParts
<1>6. QueueMatchesEvents'
  BY <1>1, <1>2 DEF QueueMatchesEvents
<1> QED
  BY <1>1, <1>2, <1>5, <1>6, EndKeeps DEF TypeOK

\* The events of a retried call go back in front of the later ones, and the
\* canister is queued unless it is.
LEMMA RetriedKeeps ==
    ASSUME SyncInv, NEW c \in Targets, Retried(c)
    PROVE  SyncInv'
<1>1. TypeOK /\ QueueMatchesEvents /\ CallsAgree /\ StreamsAgree
  BY DEF SyncInv
<1>2. /\ events' = [events EXCEPT ![c] = taken[c] \o events[c]] /\ call[c] = "made"
      /\ queue' = (IF events[c] = <<>> THEN Append(queue, c) ELSE queue) /\ EndSync(c)
  BY DEF Retried, Merged, Requeued
<1>3. /\ taken[c] \in Seq(Nat) /\ events[c] \in Seq(Nat) /\ taken[c] # <<>>
      /\ queue \in Seq(Targets) /\ IsInjective(queue)
      /\ Range(queue) = {d \in Targets : events[d] # <<>>}
  BY <1>1, <1>2 DEF TypeOK, CallsAgree, QueueMatchesEvents
<1>4. taken[c] \o events[c] \in Seq(Nat) /\ taken[c] \o events[c] # <<>>
  BY <1>3, ConcatProperties, ConcatEqualIffEmpty
<1>5. events' \in [Targets -> Seq(Nat)] /\ events'[c] = taken[c] \o events[c]
      /\ \A d \in Targets \ {c} : events'[d] = events[d]
  BY <1>1, <1>2, <1>4 DEF TypeOK
<1>6. queue' \in Seq(Targets) /\ IsInjective(queue') /\ Range(queue') = Range(queue) \union {c}
  <2>1. CASE events[c] # <<>>
    BY <2>1, <1>2, <1>3
  <2>2. CASE events[c] = <<>>
    <3> DEFINE one == <<c>>
    <3>1. queue' = queue \o one
      BY <2>2, <1>2, <1>3, AppendIsConcat
    <3>2. one \in Seq(Targets) /\ IsInjective(one) /\ Range(one) = {c}
      BY DEF IsInjective, Range
    <3> HIDE DEF one
    <3>3. \A x \in Range(queue) : x \notin Range(one)
      BY <2>2, <3>2, <1>3
    <3>4. /\ queue \o one \in Seq(Targets) /\ IsInjective(queue \o one)
          /\ Range(queue \o one) = Range(queue) \union Range(one)
      BY <3>2, <3>3, <1>3, ConcatInjective
    <3> QED
      BY <3>1, <3>2, <3>4
  <2> QED
    BY <2>1, <2>2
<1>7. QueueMatchesEvents'
  <2>1. \A d \in Targets : events'[d] # <<>> <=> d \in Range(queue) \union {c}
    BY <1>3, <1>4, <1>5
  <2>2. Range(queue) \union {c} \subseteq Targets
    BY <1>3
  <2> QED
    BY <2>1, <2>2, <1>6 DEF QueueMatchesEvents
<1>8. InStream(handled[c] \o events'[c], c, pushed[c])
  BY <1>1, <1>2, <1>5 DEF StreamsAgree, Stream, InFlight
<1> QED
  BY <1>2, <1>5, <1>6, <1>7, <1>8, EndKeeps

\* The empty queue, with no event pushed.
LEMMA InitEstablishes == Init => SyncInv
<1> SUFFICES ASSUME Init
             PROVE  SyncInv
  OBVIOUS
<1>1. <<>> \in Seq(Nat) /\ <<>> \in Seq(Targets)
  OBVIOUS
<1>2. TypeOK /\ CallsAgree
  BY <1>1 DEF Init, TypeOK, CallsAgree
<1>3. QueueMatchesEvents
  <2>1. DOMAIN queue = {}
    BY DEF Init
  <2> QED
    BY <2>1 DEF Init, QueueMatchesEvents, IsInjective, Range
<1>4. ASSUME NEW c \in Targets
      PROVE  InStream(Stream(c), c, pushed[c])
  <2>1. Stream(c) = <<>> \o (<<>> \o <<>>) /\ pushed[c] = 0
    BY DEF Init, Stream, InFlight
  <2>2. Stream(c) = <<>>
    BY <1>1, <2>1, ConcatEmptySeq
  <2> QED
    BY <2>1, <2>2 DEF InStream
<1> QED
  BY <1>2, <1>3, <1>4 DEF SyncInv, StreamsAgree

\* Every step keeps the invariant.
LEMMA StepKeeps ==
    ASSUME ConstantsAssumption, SyncInv, [Next]_vars
    PROVE  SyncInv'
<1>1. ASSUME NEW S \in SUBSET Targets, NEW n \in 1..MaxPushes, Push(S, n) \/ PushMore(S, n)
      PROVE  SyncInv'
  <2>1. n \in Nat \ {0}
    BY DEF ConstantsAssumption
  <2> QED
    BY <1>1, <2>1, PushKeeps
<1>2. CASE UNCHANGED vars
  BY <1>2 DEF vars, queueVars, callVars, SyncInv, TypeOK, QueueMatchesEvents, CallsAgree,
              StreamsAgree, Stream, InFlight
<1> QED
  BY <1>1, <1>2, RunKeeps, UpgradeKeeps, HandleKeeps, SucceedsKeeps, RetriedKeeps, RefusedKeeps
  DEF Next

\* Every reachable state satisfies the invariant.
THEOREM SyncInvariant == Spec => []SyncInv
<1>1. SyncInv /\ [Next]_vars => SyncInv'
  BY ConstantsAssumption, StepKeeps
<1> QED
  BY <1>1, InitEstablishes, PTL DEF Spec

\* The types of the queue, the events and the coroutines (TypeOK).
THEOREM TypeCorrect == Spec => []TypeOK
<1>1. SyncInv => TypeOK
  BY DEF SyncInv
<1> QED
  BY <1>1, SyncInvariant, PTL

\* Exactly the canisters with events to send are queued, each once, whatever is
\* pushed, retried or refused while a batch is in progress: no event is left
\* behind without its canister (take_events, requeue_failed_events).
THEOREM QueueIsExact == Spec => []QueueMatchesEvents
<1>1. SyncInv => QueueMatchesEvents
  BY DEF SyncInv
<1> QED
  BY <1>1, SyncInvariant, PTL

------------------------------------------------------------------------------
(* The abstract channel.                                                    *)

\* A request that is handled extends what its target handled with the next
\* events of its stream.
LEMMA HandleIsInOrder ==
    ASSUME SyncInv, NEW c \in Targets, Handle(c)
    PROVE  Channel!Handle(c)
<1>1. TypeOK /\ CallsAgree /\ StreamsAgree
  BY DEF SyncInv
<1>2. /\ pushed' = pushed /\ handled' = [handled EXCEPT ![c] = handled[c] \o taken[c]]
      /\ call[c] = "made"
  BY DEF Handle
<1> DEFINE h == handled[c]
           a == taken[c]
           e == events[c]
           n == pushed[c]
           ha == h \o a
<1>3. h \in Seq(Nat) /\ a \in Seq(Nat) /\ e \in Seq(Nat) /\ n \in Nat /\ a # <<>>
  BY <1>1, <1>2 DEF TypeOK, CallsAgree
<1>4. InStream(h \o (a \o e), c, n)
  BY <1>1, <1>2 DEF StreamsAgree, Stream, InFlight
<1>5. handled'[c] = ha /\ handled' = [handled EXCEPT ![c] = handled'[c]]
  BY <1>1, <1>2 DEF TypeOK
<1> HIDE DEF h, a, e, n
<1>6. /\ \A i, j \in DOMAIN ha : i < j => ha[i] < ha[j]
      /\ \A i \in DOMAIN ha : ha[i] \in 1..n
      /\ c \notin Refusing => \A i \in DOMAIN ha : ha[i] = i
  BY <1>3, <1>4, StreamParts
<1>7. Channel!IsStrictPrefix(h, ha)
  <2>1. /\ ha \in Seq(Nat) /\ Len(ha) = Len(h) + Len(a)
        /\ \A i \in 1..Len(h) + Len(a) : ha[i] = IF i <= Len(h) THEN h[i] ELSE a[i - Len(h)]
    BY <1>3, ConcatProperties
  <2>2. Len(h) \in Nat /\ Len(a) \in Nat /\ Len(a) # 0
    BY <1>3, EmptySeq
  <2> HIDE DEF ha
  <2>3. Len(h) <= Len(ha) /\ h # ha
    BY <2>1, <2>2
  <2>4. SubSeq(h, 1, Len(h)) = SubSeq(ha, 1, Len(h))
    BY <1>3, <2>1, <2>2, <2>3, SMTT(30)
  <2> QED
    BY <2>3, <2>4 DEF Channel!IsStrictPrefix, Channel!IsPrefix
<1> HIDE DEF ha
<1> QED
  BY <1>2, <1>5, <1>6, <1>7 DEF Channel!Handle, Channel!InOrder, h, n

\* The stream of events to the local_user_indexes is an in-order channel: every
\* target handles its events in order and at most once, however calls fail, are
\* retried and are overtaken by new pushes and upgrades, and it handles them
\* without a gap unless it refuses some for good.
THEOREM SyncIsAChannel == Spec => ImplementsChannel
<1>1. Init => Channel!Init
  BY DEF Init, Channel!Init
<1>2. ASSUME SyncInv, [Next]_vars
      PROVE  [Channel!Next]_Channel!vars
  <2>1. CASE UNCHANGED <<pushed, handled>>
    BY <2>1 DEF Channel!vars
  <2>2. ASSUME NEW S \in SUBSET Targets, NEW n \in 1..MaxPushes, NewEvents(S, n)
        PROVE  Channel!Next
    <3>1. pushed \in [Targets -> Nat] /\ n \in Nat
      BY <1>2, ConstantsAssumption DEF SyncInv, TypeOK, ConstantsAssumption
    <3>2. /\ pushed' = [c \in Targets |-> IF c \in S THEN pushed[c] + n ELSE pushed[c]]
          /\ handled' = handled
      BY <2>2 DEF NewEvents
    <3>3. \A k \in Targets : pushed'[k] >= pushed[k]
      BY <3>1, <3>2
    <3>4. pushed' = [k \in Targets |-> pushed'[k]]
      BY <3>2
    <3>5. Channel!Push
      BY <3>2, <3>3, <3>4 DEF Channel!Push
    <3> QED
      BY <3>5 DEF Channel!Next
  <2>3. ASSUME NEW S \in SUBSET Targets, NEW n \in 1..MaxPushes, Push(S, n) \/ PushMore(S, n)
        PROVE  Channel!Next
    BY <2>2, <2>3 DEF Push, PushMore
  <2>4. ASSUME NEW c \in Targets, Handle(c)
        PROVE  Channel!Next
    BY <1>2, <2>4, HandleIsInOrder DEF Channel!Next
  <2>5. CASE Run \/ Upgrade
    BY <2>1, <2>5 DEF Run, Upgrade
  <2>6. ASSUME NEW c \in Targets, Succeeds(c) \/ Retried(c) \/ Refused(c)
        PROVE  UNCHANGED <<pushed, handled>>
    BY <2>6 DEF Succeeds, Retried, Refused, EndSync
  <2>7. CASE UNCHANGED vars
    BY <2>1, <2>7 DEF vars
  <2> QED
    BY <1>2, <2>1, <2>3, <2>4, <2>5, <2>6, <2>7 DEF Next
<1> QED
  BY <1>1, <1>2, SyncInvariant, PTL DEF Spec, ImplementsChannel, Channel!Spec
=============================================================================
