----------------------------- MODULE FoldLemmas -----------------------------
(***************************************************************************)
(* Induction in the form the provers can use, over a set of numbers or of  *)
(* finite sets, and what it gives about the largest element of a set and   *)
(* about sums: the sum of a function with one argument more or less.       *)
(***************************************************************************)
EXTENDS Integers, SequencesExt, FiniteSetTheorems, WellFoundedInduction, TLAPS

\* A set of natural numbers has a least element.
LEMMA LeastElement ==
    ASSUME NEW T \in SUBSET Nat, T # {}
    PROVE  \E m \in T : \A k \in T : m <= k
<1> DEFINE R == OpToRel(<, Nat)
<1>1. IsWellFoundedOn(R, Nat)
  BY NatLessThanWellFounded
<1> HIDE DEF R
<1>2. PICK m \in T : \A k \in T : <<k, m>> \notin R
  BY <1>1, WFMin
<1>3. ASSUME NEW k \in T
      PROVE  m <= k
  <2>1. <<k, m>> \notin R /\ k \in Nat /\ m \in Nat
    BY <1>2
  <2>2. ~(k < m)
    BY <2>1 DEF R, OpToRel
  <2> QED
    BY <2>1, <2>2
<1> QED
  BY <1>3

\* Induction over the natural numbers.
LEMMA NatSetInduction ==
    ASSUME NEW T, 0 \in T, \A n \in Nat : n \in T => n + 1 \in T
    PROVE  \A n \in Nat : n \in T
<1> SUFFICES ASSUME NEW n \in Nat, n \notin T
             PROVE  FALSE
  OBVIOUS
<1> DEFINE U == {k \in Nat : k \notin T}
<1>1. PICK m \in U : \A k \in U : m <= k
  <2>1. U # {} /\ U \in SUBSET Nat
    OBVIOUS
  <2> HIDE DEF U
  <2> QED
    BY <2>1, LeastElement
<1>2. m - 1 \in Nat
  OBVIOUS
<1>3. m - 1 \in T
  BY <1>1, <1>2
<1> QED
  BY <1>2, <1>3

\* Max, of a set of numbers that are at most n.
LEMMA MaxOfBounded ==
    ASSUME NEW n \in Nat, NEW T \in SUBSET (0..n), T # {}
    PROVE  Max(T) \in T /\ \A k \in T : Max(T) >= k
<1> DEFINE U == {n - k : k \in T}
<1>1. U \in SUBSET Nat /\ U # {}
  <2>1. \A k \in T : n - k \in Nat
    OBVIOUS
  <2>2. PICK k \in T : TRUE
    OBVIOUS
  <2>3. n - k \in U
    OBVIOUS
  <2> QED
    BY <2>1, <2>3
<1>2. PICK u \in U : \A k \in U : u <= k
  <2> HIDE DEF U
  <2> QED
    BY <1>1, LeastElement
<1>3. PICK m \in T : u = n - m
  OBVIOUS
<1>4. ASSUME NEW k \in T
      PROVE  m >= k
  <2>1. n - k \in U
    OBVIOUS
  <2>2. n - m <= n - k
    BY <1>2, <1>3, <2>1
  <2>3. m \in Nat /\ k \in Nat
    OBVIOUS
  <2> QED
    BY <2>2, <2>3
<1> QED
  BY <1>4 DEF Max

------------------------------------------------------------------------------
(* Sums of functions over finite sets.                                      *)

Some(s) == CHOOSE x \in s : TRUE

\* g gives the sum of f over each subset of S, as SumFunctionOnSet defines it.
SumsOf(g, f, S) ==
    g = [s \in SUBSET S |-> IF s = {} THEN 0 ELSE f[Some(s)] + g[s \ {Some(s)}]]

\* The definition of SumFunctionOnSet
LEMMA SumIs ==
    ASSUME NEW f, NEW S
    PROVE  SumFunctionOnSet(f, S) = (CHOOSE g : SumsOf(g, f, S))[S]
BY DEF SumFunctionOnSet, FoldFunctionOnSet, MapThenFoldSet, SumsOf, Some

\* What SumsOf says of one subset.
SumAt(g, f, s) == g[s] = IF s = {} THEN 0 ELSE f[Some(s)] + g[s \ {Some(s)}]

\* The size of a set without one of its elements.
LEMMA OneLess ==
    ASSUME NEW s, IsFiniteSet(s), NEW x \in s, NEW n \in Nat, Cardinality(s) = n + 1
    PROVE  IsFiniteSet(s \ {x}) /\ Cardinality(s \ {x}) = n
<1>1. IsFiniteSet(s \ {x}) /\ Cardinality(s \ {x}) = Cardinality(s) - 1
  BY FS_RemoveElement
<1> QED
  BY <1>1

\* A finite set that is not empty has a size of at least 1, and some element.
LEMMA NotEmpty ==
    ASSUME NEW s, IsFiniteSet(s), s # {}
    PROVE  Some(s) \in s /\ \E n \in Nat : Cardinality(s) = n + 1
<1>1. Cardinality(s) \in Nat /\ Cardinality(s) # 0
  BY FS_CardinalityType, FS_EmptySet
<1>2. Cardinality(s) - 1 \in Nat /\ Cardinality(s) = (Cardinality(s) - 1) + 1
  BY <1>1
<1> QED
  BY <1>2 DEF Some

\* The sums exist.
LEMMA SumsExist ==
    ASSUME NEW f, NEW S, IsFiniteSet(S)
    PROVE  \E g : SumsOf(g, f, S)
<1> DEFINE Upto(n) == {s \in SUBSET S : Cardinality(s) <= n}
           Good(n) == \E g : \A s \in Upto(n) : SumAt(g, f, s)
           T == {n \in Nat : Good(n)}
<1>1. \A s \in SUBSET S : IsFiniteSet(s) /\ Cardinality(s) \in Nat /\ Cardinality(s) <= Cardinality(S)
  BY FS_Subset, FS_CardinalityType
<1>2. Good(0)
  <2> DEFINE g == [s \in {{}} |-> 0]
  <2>1. ASSUME NEW s \in Upto(0)
        PROVE  SumAt(g, f, s)
    <3>1. Cardinality(s) = 0
      BY <1>1
    <3>2. s = {}
      BY <3>1, <1>1, FS_EmptySet
    <3> QED
      BY <3>2 DEF SumAt
  <2> HIDE DEF g
  <2> QED
    BY <2>1
<1>3. ASSUME NEW n \in Nat, Good(n)
      PROVE  Good(n + 1)
  <2>1. PICK g : \A s \in Upto(n) : SumAt(g, f, s)
    BY <1>3
  <2> DEFINE h == [s \in SUBSET S |-> IF Cardinality(s) <= n THEN g[s]
                        ELSE f[Some(s)] + g[s \ {Some(s)}]]
  <2>2. \A s \in Upto(n) : h[s] = g[s]
    OBVIOUS
  <2>3. ASSUME NEW s \in Upto(n), s # {}
        PROVE  s \ {Some(s)} \in Upto(n)
    <3>1. IsFiniteSet(s) /\ Cardinality(s) <= n
      BY <1>1
    <3>2. PICK m \in Nat : Cardinality(s) = m + 1
      BY <2>3, <3>1, NotEmpty
    <3>3. Cardinality(s \ {Some(s)}) = m
      BY <2>3, <3>1, <3>2, NotEmpty, OneLess
    <3> QED
      BY <3>1, <3>2, <3>3
  <2>4. ASSUME NEW s \in Upto(n + 1)
        PROVE  SumAt(h, f, s)
    <3>1. CASE s \in Upto(n)
      <4>1. SumAt(g, f, s)
        BY <2>1, <3>1
      <4>2. h[s] = g[s]
        BY <2>2, <3>1
      <4>3. s # {} => h[s \ {Some(s)}] = g[s \ {Some(s)}]
        BY <2>2, <2>3, <3>1
      <4> HIDE DEF h
      <4> QED
        BY <4>1, <4>2, <4>3 DEF SumAt
    <3>2. CASE s \notin Upto(n)
      <4>1. Cardinality(s) = n + 1 /\ ~(Cardinality(s) <= n) /\ IsFiniteSet(s)
        BY <1>1, <3>2
      <4>2. s # {}
        BY <4>1, FS_EmptySet
      <4>3. s \ {Some(s)} \in Upto(n)
        <5>1. Cardinality(s \ {Some(s)}) = n
          BY <4>1, <4>2, NotEmpty, OneLess
        <5> QED
          BY <5>1
      <4>4. h[s] = f[Some(s)] + g[s \ {Some(s)}]
        BY <4>1
      <4>5. h[s \ {Some(s)}] = g[s \ {Some(s)}]
        BY <2>2, <4>3
      <4> HIDE DEF h
      <4> QED
        BY <4>2, <4>4, <4>5 DEF SumAt
    <3> QED
      BY <3>1, <3>2
  <2> HIDE DEF h, Upto
  <2> QED
    BY <2>4
<1> HIDE DEF Good
<1>4. Cardinality(S) \in T
  <2>1. \A n \in Nat : n \in T
    <3>1. 0 \in T /\ \A n \in Nat : n \in T => n + 1 \in T
      BY <1>2, <1>3
    <3> HIDE DEF T
    <3> QED
      BY <3>1, NatSetInduction
  <2> QED
    BY <2>1, FS_CardinalityType
<1>5. PICK g : \A s \in Upto(Cardinality(S)) : SumAt(g, f, s)
  BY <1>4 DEF Good
<1> DEFINE h == [s \in SUBSET S |-> g[s]]
<1>6. ASSUME NEW s \in SUBSET S
      PROVE  h[s] = IF s = {} THEN 0 ELSE f[Some(s)] + h[s \ {Some(s)}]
  <2>1. s \in Upto(Cardinality(S)) /\ s \ {Some(s)} \in SUBSET S
    BY <1>1
  <2>2. SumAt(g, f, s)
    BY <1>5, <2>1
  <2>3. h[s] = g[s] /\ h[s \ {Some(s)}] = g[s \ {Some(s)}]
    BY <2>1
  <2> HIDE DEF h
  <2> QED
    BY <2>2, <2>3 DEF SumAt
<1>7. SumsOf(h, f, S)
  <2>1. h = [s \in SUBSET S |-> h[s]]
    OBVIOUS
  <2> HIDE DEF h
  <2> QED
    BY <1>6, <2>1 DEF SumsOf
<1> HIDE DEF h
<1> QED
  BY <1>7

\* Sums of functions that agree, are the same.
LEMMA SumsAgree ==
    ASSUME NEW f, NEW S, NEW g, SumsOf(g, f, S), NEW e, NEW R, NEW h, SumsOf(h, e, R),
           NEW s, IsFiniteSet(s), s \subseteq S, s \subseteq R, \A x \in s : f[x] = e[x]
    PROVE  g[s] = h[s]
<1> DEFINE T == {n \in Nat : \A r \in SUBSET s : Cardinality(r) = n => g[r] = h[r]}
<1>1. \A r \in SUBSET s : IsFiniteSet(r) /\ Cardinality(r) \in Nat
  BY FS_Subset, FS_CardinalityType
<1>2. \A r \in SUBSET s : /\ g[r] = IF r = {} THEN 0 ELSE f[Some(r)] + g[r \ {Some(r)}]
                          /\ h[r] = IF r = {} THEN 0 ELSE e[Some(r)] + h[r \ {Some(r)}]
  <2> SUFFICES ASSUME NEW r \in SUBSET s
               PROVE  /\ g[r] = IF r = {} THEN 0 ELSE f[Some(r)] + g[r \ {Some(r)}]
                      /\ h[r] = IF r = {} THEN 0 ELSE e[Some(r)] + h[r \ {Some(r)}]
    OBVIOUS
  <2>1. r \in SUBSET S /\ r \in SUBSET R
    OBVIOUS
  <2>2. g[r] = IF r = {} THEN 0 ELSE f[Some(r)] + g[r \ {Some(r)}]
    BY <2>1 DEF SumsOf
  <2>3. h[r] = IF r = {} THEN 0 ELSE e[Some(r)] + h[r \ {Some(r)}]
    BY <2>1 DEF SumsOf
  <2> QED
    BY <2>2, <2>3
<1>3. 0 \in T
  <2>1. \A r \in SUBSET s : Cardinality(r) = 0 => r = {}
    BY <1>1, FS_EmptySet
  <2> QED
    BY <1>2, <2>1
<1>4. ASSUME NEW n \in Nat, n \in T
      PROVE  n + 1 \in T
  <2> SUFFICES ASSUME NEW r \in SUBSET s, Cardinality(r) = n + 1
               PROVE  g[r] = h[r]
    OBVIOUS
  <2>1. r # {} /\ IsFiniteSet(r)
    BY <1>1, FS_EmptySet
  <2>2. Some(r) \in r
    BY <2>1, NotEmpty
  <2>3. Cardinality(r \ {Some(r)}) = n /\ r \ {Some(r)} \in SUBSET s
    BY <2>1, <2>2, OneLess
  <2>4. g[r \ {Some(r)}] = h[r \ {Some(r)}]
    BY <1>4, <2>3
  <2>5. f[Some(r)] = e[Some(r)]
    BY <2>2
  <2> QED
    BY <1>2, <2>1, <2>4, <2>5
<1>5. \A n \in Nat : n \in T
  <2>1. \A n \in Nat : n \in T => n + 1 \in T
    BY <1>4
  <2> HIDE DEF T
  <2> QED
    BY <1>3, <2>1, NatSetInduction
<1> QED
  BY <1>1, <1>5

\* Sums of integers are integers, and those of natural numbers natural numbers.
LEMMA SumsType ==
    ASSUME NEW D \in {Nat, Int}, NEW f, NEW S, NEW g, SumsOf(g, f, S), IsFiniteSet(S),
           \A x \in S : f[x] \in D
    PROVE  \A s \in SUBSET S : g[s] \in D
<1> DEFINE T == {n \in Nat : \A s \in SUBSET S : Cardinality(s) = n => g[s] \in D}
<1>1. \A s \in SUBSET S : IsFiniteSet(s) /\ Cardinality(s) \in Nat
  BY FS_Subset, FS_CardinalityType
<1>2. \A s \in SUBSET S : g[s] = IF s = {} THEN 0 ELSE f[Some(s)] + g[s \ {Some(s)}]
  BY DEF SumsOf
<1>3. 0 \in T
  <2>1. \A s \in SUBSET S : Cardinality(s) = 0 => s = {}
    BY <1>1, FS_EmptySet
  <2>2. {} \in SUBSET S
    OBVIOUS
  <2>3. g[{}] = 0
    BY <1>2, <2>2
  <2>4. 0 \in D
    OBVIOUS
  <2> QED
    BY <2>1, <2>3, <2>4
<1>4. ASSUME NEW n \in Nat, n \in T
      PROVE  n + 1 \in T
  <2> SUFFICES ASSUME NEW s \in SUBSET S, Cardinality(s) = n + 1
               PROVE  g[s] \in D
    OBVIOUS
  <2>1. s # {} /\ IsFiniteSet(s)
    BY <1>1, FS_EmptySet
  <2>2. Some(s) \in s
    BY <2>1, NotEmpty
  <2>3. Cardinality(s \ {Some(s)}) = n /\ s \ {Some(s)} \in SUBSET S
    BY <2>1, <2>2, OneLess
  <2>4. g[s \ {Some(s)}] \in D /\ f[Some(s)] \in D
    BY <1>4, <2>2, <2>3
  <2>5. \A a, b \in D : a + b \in D
    OBVIOUS
  <2>6. g[s] = f[Some(s)] + g[s \ {Some(s)}]
    BY <1>2, <2>1
  <2> QED
    BY <2>4, <2>5, <2>6
<1>5. \A n \in Nat : n \in T
  <2>1. \A n \in Nat : n \in T => n + 1 \in T
    BY <1>4
  <2> HIDE DEF T
  <2> QED
    BY <1>3, <2>1, NatSetInduction
<1> QED
  BY <1>1, <1>5

\* A sum does not depend on the order of its summands.
LEMMA SumsAnyOrder ==
    ASSUME NEW f, NEW S, NEW g, SumsOf(g, f, S), IsFiniteSet(S), \A x \in S : f[x] \in Int
    PROVE  /\ g[{}] = 0
           /\ \A s \in SUBSET S : g[s] \in Int /\ \A x \in s : g[s] = f[x] + g[s \ {x}]
<1> DEFINE EachOrder(s) == g[s] \in Int /\ \A x \in s : g[s] = f[x] + g[s \ {x}]
           T == {n \in Nat : \A s \in SUBSET S : Cardinality(s) = n => EachOrder(s)}
<1>1. \A s \in SUBSET S : IsFiniteSet(s) /\ Cardinality(s) \in Nat
  BY FS_Subset, FS_CardinalityType
<1>2. \A s \in SUBSET S : g[s] = IF s = {} THEN 0 ELSE f[Some(s)] + g[s \ {Some(s)}]
  BY DEF SumsOf
<1>3. g[{}] = 0
  <2>1. {} \in SUBSET S
    OBVIOUS
  <2> QED
    BY <1>2, <2>1
<1>4. 0 \in T
  <2>1. \A s \in SUBSET S : Cardinality(s) = 0 => s = {}
    BY <1>1, FS_EmptySet
  <2>2. EachOrder({})
    BY <1>3
  <2> QED
    BY <2>1, <2>2
<1>5. ASSUME NEW n \in Nat, n \in T
      PROVE  n + 1 \in T
  <2> SUFFICES ASSUME NEW s \in SUBSET S, Cardinality(s) = n + 1
               PROVE  EachOrder(s)
    OBVIOUS
  <2>1. \A r \in SUBSET S : Cardinality(r) = n => EachOrder(r)
    BY <1>5
  <2> HIDE DEF EachOrder
  <2>2. s # {} /\ IsFiniteSet(s)
    BY <1>1, FS_EmptySet
  <2> DEFINE y == Some(s)
  <2>3. y \in s
    BY <2>2, NotEmpty
  <2>4. g[s] = f[y] + g[s \ {y}]
    BY <1>2, <2>2
  <2> HIDE DEF y
  <2>5. \A x \in s : Cardinality(s \ {x}) = n /\ s \ {x} \in SUBSET S
    BY <2>2, OneLess
  <2>6. \A x \in s : EachOrder(s \ {x})
    BY <2>1, <2>5
  <2>7. g[s \ {y}] \in Int /\ f[y] \in Int
    BY <2>3, <2>6 DEF EachOrder
  <2>8. ASSUME NEW x \in s
        PROVE  g[s] = f[x] + g[s \ {x}]
    <3>1. CASE x = y
      BY <2>4, <3>1
    <3>2. CASE x # y
      <4>1. x \in s \ {y} /\ y \in s \ {x} /\ (s \ {y}) \ {x} = (s \ {x}) \ {y}
        BY <2>3, <3>2
      <4> DEFINE a == g[(s \ {x}) \ {y}]
      <4>2. g[s \ {y}] = f[x] + a
        BY <2>3, <2>6, <4>1 DEF EachOrder
      <4>3. g[s \ {x}] = f[y] + a
        BY <2>6, <4>1 DEF EachOrder
      <4>4. g[s \ {x}] \in Int /\ f[x] \in Int
        BY <2>6 DEF EachOrder
      <4>5. a \in Int
        <5>1. (s \ {x}) \ {y} \in SUBSET S /\ Int \in {Nat, Int}
          OBVIOUS
        <5> QED
          BY <5>1, SumsType
      <4> HIDE DEF a
      <4> QED
        BY <2>4, <2>7, <4>1, <4>2, <4>3, <4>4, <4>5
    <3> QED
      BY <3>1, <3>2
  <2>9. g[s] \in Int
    <3>1. Int \in {Nat, Int}
      OBVIOUS
    <3> QED
      BY <3>1, SumsType
  <2> QED
    BY <2>8, <2>9 DEF EachOrder
<1>6. \A n \in Nat : n \in T
  <2>1. \A n \in Nat : n \in T => n + 1 \in T
    BY <1>5
  <2> HIDE DEF T
  <2> QED
    BY <1>4, <2>1, NatSetInduction
<1>7. \A s \in SUBSET S : EachOrder(s)
  <2> HIDE DEF EachOrder
  <2> QED
    BY <1>1, <1>6
<1> QED
  BY <1>3, <1>7

\* The empty sum
LEMMA SumEmpty ==
    ASSUME NEW f
    PROVE  SumFunctionOnSet(f, {}) = 0
<1> DEFINE g == CHOOSE g : SumsOf(g, f, {})
<1>1. SumsOf(g, f, {})
  BY FS_EmptySet, SumsExist
<1>2. SumFunctionOnSet(f, {}) = g[{}]
  BY SumIs
<1> HIDE DEF g
<1>3. {} \in SUBSET {}
  OBVIOUS
<1>4. g[{}] = 0
  BY <1>1, <1>3 DEF SumsOf
<1> QED
  BY <1>2, <1>4

\* Functions that agree on a finite set have the same sum over it.
LEMMA SumAgree ==
    ASSUME NEW S, IsFiniteSet(S), NEW f, NEW e, \A x \in S : f[x] = e[x]
    PROVE  SumFunctionOnSet(f, S) = SumFunctionOnSet(e, S)
<1> DEFINE g == CHOOSE g : SumsOf(g, f, S)
           h == CHOOSE h : SumsOf(h, e, S)
<1>1. SumsOf(g, f, S) /\ SumsOf(h, e, S)
  BY SumsExist
<1>2. SumFunctionOnSet(f, S) = g[S] /\ SumFunctionOnSet(e, S) = h[S]
  BY SumIs
<1> HIDE DEF g, h
<1>3. g[S] = h[S]
  BY <1>1, SumsAgree
<1> QED
  BY <1>2, <1>3

\* A sum over a finite set is that over the set without x, and x.
LEMMA SumWithout ==
    ASSUME NEW S, IsFiniteSet(S), NEW f, \A x \in S : f[x] \in Int, NEW x \in S
    PROVE  /\ SumFunctionOnSet(f, S) \in Int /\ SumFunctionOnSet(f, S \ {x}) \in Int
           /\ SumFunctionOnSet(f, S) = f[x] + SumFunctionOnSet(f, S \ {x})
<1> DEFINE R == S \ {x}
           g == CHOOSE g : SumsOf(g, f, S)
           h == CHOOSE h : SumsOf(h, f, R)
<1>1. IsFiniteSet(R)
  BY FS_RemoveElement
<1>2. SumsOf(g, f, S) /\ SumsOf(h, f, R)
  BY <1>1, SumsExist
<1>3. SumFunctionOnSet(f, S) = g[S] /\ SumFunctionOnSet(f, R) = h[R]
  BY SumIs
<1> HIDE DEF g, h
<1>4. g[R] = h[R]
  <2>1. R \subseteq S /\ R \subseteq R /\ \A y \in R : f[y] = f[y]
    OBVIOUS
  <2> HIDE DEF R
  <2> QED
    BY <1>1, <1>2, <2>1, SumsAgree
<1>5. g[S] \in Int /\ g[R] \in Int /\ g[S] = f[x] + g[R]
  <2>1. S \in SUBSET S /\ R \in SUBSET S
    OBVIOUS
  <2>2. \A s \in SUBSET S : g[s] \in Int /\ \A y \in s : g[s] = f[y] + g[s \ {y}]
    BY <1>2, SumsAnyOrder
  <2> QED
    BY <2>1, <2>2
<1> QED
  BY <1>3, <1>4, <1>5

\* The sum of a function of integers over a finite set is an integer, that of
\* natural numbers a natural number.
LEMMA SumType ==
    ASSUME NEW D \in {Nat, Int}, NEW S, IsFiniteSet(S), NEW f, \A x \in S : f[x] \in D
    PROVE  SumFunctionOnSet(f, S) \in D
<1> DEFINE g == CHOOSE g : SumsOf(g, f, S)
<1>1. SumsOf(g, f, S)
  BY SumsExist
<1>2. SumFunctionOnSet(f, S) = g[S]
  BY SumIs
<1> HIDE DEF g
<1>3. g[S] \in D
  BY <1>1, SumsType
<1> QED
  BY <1>2, <1>3

\* g is the function f of integers with the argument x more.
Extends(g, f, x) ==
    /\ IsFiniteSet(DOMAIN f) /\ x \notin DOMAIN f /\ DOMAIN g = DOMAIN f \union {x}
    /\ \A y \in DOMAIN f : f[y] \in Int /\ g[y] = f[y]
    /\ g[x] \in Int

\* The sum of a function with one argument more.
LEMMA SumExtends ==
    ASSUME NEW f, NEW g, NEW x, Extends(g, f, x)
    PROVE  /\ SumFunction(f) \in Int /\ SumFunction(g) \in Int
           /\ SumFunction(g) = SumFunction(f) + g[x]
<1> DEFINE S == DOMAIN f
           R == S \union {x}
<1>1. IsFiniteSet(R) /\ R \ {x} = S /\ x \in R /\ \A y \in R : g[y] \in Int
  BY FS_AddElement DEF Extends
<1>2. SumFunction(f) = SumFunctionOnSet(f, S) /\ SumFunction(g) = SumFunctionOnSet(g, R)
  BY DEF SumFunction, Extends
<1>3. SumFunctionOnSet(g, S) = SumFunctionOnSet(f, S)
  BY SumAgree DEF Extends
<1> HIDE DEF R
<1>4. /\ SumFunctionOnSet(g, R) \in Int /\ SumFunctionOnSet(g, R \ {x}) \in Int
      /\ SumFunctionOnSet(g, R) = g[x] + SumFunctionOnSet(g, R \ {x})
  BY <1>1, SumWithout
<1>5. g[x] \in Int
  BY <1>1
<1>6. SumFunctionOnSet(g, R \ {x}) = SumFunction(f)
  BY <1>1, <1>2, <1>3
<1> HIDE DEF R
<1> QED
  BY <1>2, <1>4, <1>5, <1>6
=============================================================================
