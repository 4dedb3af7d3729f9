---------------------------- MODULE ArrivalsProofs ----------------------------
(***************************************************************************)
(* Facts about serving a queue in the order of arrival, about sequences    *)
(* joined, and induction over numbers, which the theorems of the           *)
(* components rest on.                                                     *)
(***************************************************************************)
EXTENDS Arrivals, SequencesExt, SequenceTheorems, FiniteSetTheorems, WellFoundedInduction, TLAPS

LEMMA FiniteParts ==
    ASSUME NEW S, IsFiniteSet(S), NEW f, NEW n
    PROVE  /\ Cardinality(S) \in Nat
           /\ IsFiniteSet(FirstServed(S, f, n))
           /\ Cardinality(FirstServed(S, f, n)) \in Nat
           /\ \A j \in S : IsFiniteSet(Before(S, f, j)) /\ Cardinality(Before(S, f, j)) \in Nat
<1>1. FirstServed(S, f, n) \in SUBSET S /\ \A j \in S : Before(S, f, j) \in SUBSET S
  BY DEF FirstServed, Before
<1> QED
  BY <1>1, FS_Subset, FS_CardinalityType

\* A finite nonempty set has a member that arrived first.
LEMMA FirstOf ==
    ASSUME NEW S, IsFiniteSet(S), S # {}, NEW f, \A k \in S : f[k] \in Int
    PROVE  \E m \in S : \A k \in S : f[m] <= f[k]
<1> DEFINE Below(j) == {k \in S : f[k] < f[j]}
           D == {Below(j) : j \in S}
<1>1. D \subseteq FiniteSubsetsOf(S) /\ D # {}
  <2>1. \A j \in S : Below(j) \subseteq S /\ IsFiniteSet(Below(j))
    BY FS_Subset
  <2> QED
    BY <2>1 DEF FiniteSubsetsOf
<1>2. \E x \in D : \A y \in D : ~(<<y, x>> \in StrictSubsetOrdering(S))
  BY <1>1, FS_StrictSubsetOrderingWellFounded, WFMin
<1>3. PICK m \in S : \A j \in S : ~(<<Below(j), Below(m)>> \in StrictSubsetOrdering(S))
  BY <1>2
<1>4. ASSUME NEW k \in S, f[k] < f[m]
      PROVE  FALSE
  <2>1. Below(k) \subseteq Below(m) /\ k \in Below(m) /\ k \notin Below(k)
    BY <1>4
  <2>2. Below(k) \in SUBSET S /\ Below(m) \in SUBSET S
    OBVIOUS
  <2> QED
    BY <2>1, <2>2, <1>3 DEF StrictSubsetOrdering
<1> QED
  BY <1>4

\* A finite nonempty set has a member that arrived last.
LEMMA LastOf ==
    ASSUME NEW S, IsFiniteSet(S), S # {}, NEW f, \A k \in S : f[k] \in Int
    PROVE  \E m \in S : \A k \in S : f[k] <= f[m]
<1> DEFINE g == [k \in S |-> -f[k]]
<1>1. \A k \in S : g[k] \in Int
  OBVIOUS
<1>2. PICK m \in S : \A k \in S : g[m] <= g[k]
  <2> HIDE DEF g
  <2> QED
    BY <1>1, FirstOf
<1>3. \A k \in S : f[k] <= f[m]
  BY <1>2
<1> QED
  BY <1>3

\* Serving n at most serves n at most.
LEMMA ServedFit ==
    ASSUME NEW S, IsFiniteSet(S), NEW f, \A k \in S : f[k] \in Int, Distinct(S, f), NEW n \in Nat
    PROVE  Cardinality(FirstServed(S, f, n)) <= n
<1> DEFINE T == FirstServed(S, f, n)
<1>1. IsFiniteSet(T) /\ T \subseteq S /\ Cardinality(T) \in Nat
  BY FiniteParts DEF FirstServed
<1>2. CASE T = {}
  BY <1>2, FS_EmptySet
<1>3. CASE T # {}
  <2>1. PICK m \in T : \A k \in T : f[k] <= f[m]
    <3>1. \A k \in T : f[k] \in Int
      BY <1>1
    <3> HIDE DEF T
    <3> QED
      BY <1>1, <1>3, <3>1, LastOf
  <2>2. T \ {m} \subseteq Before(S, f, m)
    BY <1>1, <2>1 DEF Before, Distinct
  <2>3. Cardinality(T \ {m}) <= Cardinality(Before(S, f, m))
    BY <1>1, <2>2, FiniteParts, FS_Subset
  <2>4. Cardinality(Before(S, f, m)) < n /\ Cardinality(Before(S, f, m)) \in Nat
    BY <1>1, FiniteParts DEF FirstServed
  <2>5. Cardinality(T \ {m}) = Cardinality(T) - 1
    BY <1>1, FS_RemoveElement
  <2> QED
    BY <1>1, <2>3, <2>4, <2>5
<1> QED
  BY <1>2, <1>3

\* If anyone is left over, n have been served.
LEMMA ServedFill ==
    ASSUME NEW S, IsFiniteSet(S), NEW f, \A k \in S : f[k] \in Int, NEW n \in Nat,
           FirstServed(S, f, n) # S
    PROVE  Cardinality(FirstServed(S, f, n)) >= n
<1> DEFINE T == FirstServed(S, f, n)
           L == S \ T
<1>1. IsFiniteSet(T) /\ T \subseteq S /\ Cardinality(T) \in Nat
  BY FiniteParts DEF FirstServed
<1>2. IsFiniteSet(L) /\ L # {} /\ L \subseteq S
  BY <1>1, FS_Difference
<1>3. PICK m \in L : \A k \in L : f[m] <= f[k]
  <2>1. \A k \in L : f[k] \in Int
    BY <1>2
  <2> HIDE DEF L
  <2> QED
    BY <1>2, <2>1, FirstOf
<1>4. Before(S, f, m) \subseteq T
  BY <1>2, <1>3 DEF Before
<1>5. Cardinality(Before(S, f, m)) <= Cardinality(T)
  BY <1>1, <1>4, FS_Subset
<1>6. Cardinality(Before(S, f, m)) >= n /\ Cardinality(Before(S, f, m)) \in Nat
  <2>1. m \in S /\ m \notin FirstServed(S, f, n)
    BY <1>2
  <2>2. Cardinality(Before(S, f, m)) \in Nat
    BY <2>1, FiniteParts
  <2>3. ~(Cardinality(Before(S, f, m)) < n)
    BY <2>1 DEF FirstServed
  <2> QED
    BY <2>2, <2>3
<1> QED
  BY <1>1, <1>5, <1>6

-------------------------------------------------------------------------------
(* Induction over numbers, from the least one. *)

\* A set of numbers up to n that is not empty has a least one.
LEMMA LeastUpTo ==
    ASSUME NEW n \in Nat, NEW S \in SUBSET (0..n), S # {}
    PROVE  \E m \in S : \A k \in S : m <= k
<1> DEFINE f == [k \in S |-> k]
<1>1. IsFiniteSet(S) /\ \A k \in S : f[k] \in Int
  <2>1. IsFiniteSet(0..n)
    BY FS_Interval
  <2>2. IsFiniteSet(S)
    BY <2>1, FS_Subset
  <2>3. \A k \in S : k \in Int
    OBVIOUS
  <2> QED
    BY <2>2, <2>3
<1>2. PICK m \in S : \A k \in S : f[m] <= f[k]
  <2> HIDE DEF f
  <2> QED
    BY <1>1, FirstOf
<1> QED
  BY <1>2

\* A property of 0 that every number hands on to the next holds of all of them.
LEMMA InductUpTo ==
    ASSUME NEW n \in Nat, NEW S, 0 \in S, \A m \in 0..n : m < n /\ m \in S => m + 1 \in S
    PROVE  \A m \in 0..n : m \in S
<1> DEFINE T == {m \in 0..n : m \notin S}
<1> SUFFICES ASSUME T # {} PROVE FALSE
  OBVIOUS
<1>1. T \in SUBSET (0..n) /\ \A m \in T : m \in 0..n /\ m \notin S
  OBVIOUS
<1>2. \A m \in 0..n : m \notin T => m \in S
  OBVIOUS
<1> HIDE DEF T
<1>3. PICK m \in T : \A k \in T : m <= k
  BY <1>1, LeastUpTo
<1>4. m \in 0..n /\ m # 0
  BY <1>1
<1>5. m - 1 \in 0..n /\ m - 1 < n /\ m - 1 \notin T
  BY <1>3, <1>4
<1>6. (m - 1) + 1 \in S
  BY <1>2, <1>5
<1> QED
  BY <1>1, <1>4, <1>6
-------------------------------------------------------------------------------
(* Sequences joined.                                                         *)

\* FlattenSeq's recursion: f[i] is the first i sequences joined.
Joins(f, ss, n) == f = [i \in 1..n |-> IF i = 1 THEN ss[i] ELSE f[i-1] \o ss[i]]

\* The recursion of FlattenSeq has a solution, whatever the number of its sequences.
LEMMA JoinsExist ==
    ASSUME NEW E, NEW n \in Nat, NEW ss \in [1..n -> Seq(E)]
    PROVE  \E f \in [1..n -> Seq(E)] : Joins(f, ss, n)
<1> DEFINE Has(m) == \E f \in [1..m -> Seq(E)] : Joins(f, ss, m)
           S == {m \in 0..n : ~Has(m)}
<1>1. Has(0)
  <2> DEFINE f == [i \in 1..0 |-> <<>>]
  <2>1. f \in [1..0 -> Seq(E)]
    OBVIOUS
  <2>2. f = [i \in 1..0 |-> IF i = 1 THEN ss[i] ELSE f[i-1] \o ss[i]]
    OBVIOUS
  <2> HIDE DEF f
  <2> QED
    BY <2>1, <2>2 DEF Joins
<1>2. ASSUME NEW m \in 0..n, m < n, Has(m) PROVE Has(m+1)
  <2>1. PICK f \in [1..m -> Seq(E)] : Joins(f, ss, m)
    BY <1>2
  <2> DEFINE g == [i \in 1..(m+1) |-> IF i <= m THEN f[i] ELSE IF i = 1 THEN ss[i] ELSE f[i-1] \o ss[i]]
  <2>2. \A i \in 1..(m+1) : g[i] \in Seq(E) /\ g[i] = IF i = 1 THEN ss[i] ELSE g[i-1] \o ss[i]
    <3> SUFFICES ASSUME NEW i \in 1..(m+1) PROVE g[i] \in Seq(E) /\ g[i] = IF i = 1 THEN ss[i] ELSE g[i-1] \o ss[i]
      OBVIOUS
    <3>1. \A j \in 1..m : f[j] = IF j = 1 THEN ss[j] ELSE f[j-1] \o ss[j]
      BY <2>1 DEF Joins
    <3>2. i \in 1..n /\ ss[i] \in Seq(E) /\ (i # 1 => i - 1 \in 1..m)
      BY <1>2
    <3>3. CASE i <= m
      <4>1. g[i] = f[i] /\ (i # 1 => g[i-1] = f[i-1])
        BY <3>2, <3>3
      <4>2. i \in 1..m
        BY <1>2, <3>3
      <4>3. f[i] \in Seq(E) /\ f[i] = IF i = 1 THEN ss[i] ELSE f[i-1] \o ss[i]
        BY <3>1, <4>2
      <4> HIDE DEF g
      <4> QED
        BY <4>1, <4>3
    <3>4. CASE i > m
      BY <3>2, <3>4, ConcatProperties
    <3> QED
      BY <3>3, <3>4
  <2>3. g \in [1..(m+1) -> Seq(E)]
    BY <2>2
  <2>4. Joins(g, ss, m+1)
    <3> SUFFICES g = [i \in 1..(m+1) |-> IF i = 1 THEN ss[i] ELSE g[i-1] \o ss[i]]
      BY DEF Joins
    <3>1. g = [i \in 1..(m+1) |-> g[i]]
      OBVIOUS
    <3> HIDE DEF g
    <3> QED
      BY <3>1, <2>2
  <2> QED
    BY <2>3, <2>4
<1>3. S = {}
  <2> SUFFICES ASSUME S # {} PROVE FALSE
    OBVIOUS
  <2>1. PICK m \in S : \A k \in S : m <= k
    <3>1. S \in SUBSET (0..n)
      OBVIOUS
    <3> HIDE DEF S
    <3> QED
      BY <3>1, LeastUpTo
  <2>2. m # 0
    <3>1. m \in 0..n /\ ~Has(m)
      BY <2>1
    <3> HIDE DEF Has
    <3> QED
      BY <1>1, <3>1
  <2>3. m \in 0..n /\ m - 1 \in 0..n /\ m - 1 < n
    BY <2>1, <2>2
  <2>4. m - 1 \notin S
    <3> HIDE DEF S
    <3> QED
      BY <2>1, <2>3
  <2> HIDE DEF Has
  <2>5. Has(m - 1)
    BY <2>3, <2>4
  <2>6. Has((m - 1) + 1)
    BY <1>2, <2>3, <2>5
  <2>7. (m - 1) + 1 = m
    BY <2>3
  <2>8. Has(m)
    BY <2>6, <2>7
  <2> QED
    BY <2>1, <2>8
<1> QED
  BY <1>3

\* What holds of the sequences joined, and of two that hold it joined, holds of them all joined.
LEMMA JoinsWithin ==
    ASSUME NEW E, NEW Q \in SUBSET Seq(E), \A a, b \in Q : a \o b \in Q,
           NEW n \in Nat, NEW ss \in [1..n -> Q], NEW f, Joins(f, ss, n)
    PROVE  f \in [1..n -> Q]
<1> DEFINE P(m) == \A i \in 1..m : f[i] \in Q
<1>1. \A i \in 1..n : f[i] = IF i = 1 THEN ss[i] ELSE f[i-1] \o ss[i]
  BY DEF Joins
<1>2. ASSUME NEW m \in 0..n, m < n, P(m) PROVE P(m + 1)
  <2>1. f[m+1] \in Q
    <3>1. m + 1 \in 1..n /\ ss[m+1] \in Q /\ (m # 0 => f[m] \in Q)
      BY <1>2
    <3>2. f[m+1] = IF m + 1 = 1 THEN ss[m+1] ELSE f[(m+1)-1] \o ss[m+1]
      BY <1>1, <3>1
    <3>3. (m + 1) - 1 = m
      OBVIOUS
    <3> QED
      BY <3>1, <3>2, <3>3
  <2> QED
    BY <1>2, <2>1
<1>3. P(0)
  OBVIOUS
<1>4. P(n)
  <2> DEFINE S == {m \in 0..n : P(m)}
  <2> HIDE DEF P
  <2>1. 0 \in S /\ \A m \in 0..n : m < n /\ m \in S => m + 1 \in S
    BY <1>2, <1>3
  <2>2. \A m \in 0..n : m \in S
    <3> HIDE DEF S
    <3> QED
      BY <2>1, InductUpTo
  <2>3. n \in 0..n
    OBVIOUS
  <2> QED
    BY <2>2, <2>3
<1>5. f = [i \in 1..n |-> f[i]]
  BY DEF Joins
<1> QED
  BY <1>4, <1>5

\* FlattenSeq computes it.
LEMMA FlattenJoins ==
    ASSUME NEW E, NEW ss \in Seq(Seq(E)), Len(ss) # 0
    PROVE  \E f : Joins(f, ss, Len(ss)) /\ FlattenSeq(ss) = f[Len(ss)]
<1> DEFINE n == Len(ss)
           f == CHOOSE g : Joins(g, ss, n)
<1>1. n \in Nat /\ ss \in [1..n -> Seq(E)]
  BY LenProperties
<1>2. \E g : Joins(g, ss, n)
  BY <1>1, JoinsExist
<1>3. Joins(f, ss, n)
  BY <1>2
<1>4. FlattenSeq(ss) = f[n]
  BY Zenon DEF FlattenSeq, Joins
<1> QED
  BY <1>3, <1>4

\* A property of sequences that joining keeps, FlattenSeq keeps.
LEMMA FlattenWithin ==
    ASSUME NEW E, NEW Q \in SUBSET Seq(E), <<>> \in Q, \A a, b \in Q : a \o b \in Q,
           NEW n \in Nat, NEW ss \in [1..n -> Q]
    PROVE  FlattenSeq(ss) \in Q
<1>1. ss \in Seq(Seq(E)) /\ Len(ss) = n
  OBVIOUS
<1>2. CASE n = 0
  <2>1. ss = <<>>
    BY <1>1, <1>2
  <2> QED
    BY <2>1 DEF FlattenSeq
<1>3. CASE n # 0
  <2>1. PICK f : Joins(f, ss, n) /\ FlattenSeq(ss) = f[n]
    BY <1>1, <1>3, FlattenJoins
  <2>2. f \in [1..n -> Q]
    BY <2>1, JoinsWithin
  <2> QED
    BY <1>3, <2>1, <2>2
<1> QED
  BY <1>2, <1>3

LEMMA HasConcat ==
    ASSUME NEW E, NEW a \in Seq(E), NEW b \in Seq(E), NEW x
    PROVE  Contains(a \o b, x) <=> Contains(a, x) \/ Contains(b, x)
<1> DEFINE c == a \o b
<1>1. /\ Len(a) \in Nat /\ Len(b) \in Nat /\ Len(c) = Len(a) + Len(b)
      /\ \A i \in 1..(Len(a) + Len(b)) : c[i] = IF i <= Len(a) THEN a[i] ELSE b[i - Len(a)]
  BY ConcatProperties, LenProperties
<1> HIDE DEF c
<1>2. ASSUME NEW i \in 1..Len(a) PROVE i \in 1..Len(c) /\ c[i] = a[i]
  BY <1>1
<1>3. ASSUME NEW i \in 1..Len(b) PROVE i + Len(a) \in 1..Len(c) /\ c[i + Len(a)] = b[i]
  BY <1>1
<1>4. ASSUME NEW i \in 1..Len(c) PROVE \/ i \in 1..Len(a) /\ c[i] = a[i]
                                       \/ i - Len(a) \in 1..Len(b) /\ c[i] = b[i - Len(a)]
  BY <1>1
<1>5. Contains(c, x) <=> Contains(a, x) \/ Contains(b, x)
  BY <1>2, <1>3, <1>4 DEF Contains
<1> QED
  BY <1>5 DEF c

\* Nothing that was in one of the sequences is lost.
LEMMA FlattenHas ==
    ASSUME NEW E, NEW n \in Nat, NEW ss \in [1..n -> Seq(E)], NEW i \in 1..n, NEW x, Contains(ss[i], x)
    PROVE  Contains(FlattenSeq(ss), x)
<1>1. ss \in Seq(Seq(E)) /\ Len(ss) = n
  OBVIOUS
<1>2. PICK f : Joins(f, ss, n) /\ FlattenSeq(ss) = f[n]
  <2>1. Len(ss) # 0
    BY <1>1
  <2> QED
    BY <1>1, <2>1, FlattenJoins
<1>3. f \in [1..n -> Seq(E)]
  BY <1>2, JoinsWithin, ConcatProperties
<1> DEFINE P(m) == m >= i => Contains(f[m], x)
<1>4. ASSUME NEW m \in 0..n, m < n, P(m) PROVE P(m + 1)
  <2> SUFFICES ASSUME m + 1 >= i PROVE Contains(f[m+1], x)
    OBVIOUS
  <2>1. m + 1 \in 1..n /\ (m + 1) - 1 = m /\ ss[m+1] \in Seq(E)
    BY <1>4
  <2>2. f[m+1] = IF m + 1 = 1 THEN ss[m+1] ELSE f[(m+1)-1] \o ss[m+1]
    BY <1>2, <2>1 DEF Joins
  <2>3. CASE m = 0
    BY <2>1, <2>2, <2>3
  <2>4. CASE m # 0
    <3>1. m \in 1..n /\ m + 1 # 1
      BY <2>4
    <3>2. f[m+1] = f[m] \o ss[m+1] /\ f[m] \in Seq(E)
      BY <1>3, <2>1, <2>2, <3>1
    <3>3. Contains(f[m], x) \/ Contains(ss[m+1], x)
      <4>1. CASE m >= i
        BY <1>4, <4>1
      <4>2. CASE m + 1 = i
        BY <4>2
      <4> QED
        BY <4>1, <4>2
    <3> QED
      BY <2>1, <3>2, <3>3, HasConcat
  <2> QED
    BY <2>3, <2>4
<1>5. P(0)
  OBVIOUS
<1>6. P(n)
  <2> DEFINE S == {m \in 0..n : P(m)}
  <2> HIDE DEF P
  <2>1. 0 \in S /\ \A m \in 0..n : m < n /\ m \in S => m + 1 \in S
    BY <1>4, <1>5
  <2>2. \A m \in 0..n : m \in S
    <3> HIDE DEF S
    <3> QED
      BY <2>1, InductUpTo
  <2>3. n \in 0..n
    OBVIOUS
  <2> QED
    BY <2>2, <2>3
<1> QED
  BY <1>2, <1>6

\* What IsPrefix says, entry by entry.
LEMMA PrefixByEntries ==
    ASSUME NEW E, NEW s \in Seq(E), NEW t \in Seq(E)
    PROVE  IsPrefix(s, t) <=> Len(s) <= Len(t) /\ \A k \in 1..Len(s) : s[k] = t[k]
<1>1. Len(s) \in Nat /\ Len(t) \in Nat
  BY LenProperties
<1>2. CASE Len(s) <= Len(t)
  <2> DEFINE a == SubSeq(s, 1, Len(s))
             b == SubSeq(t, 1, Len(s))
  <2>1. a = [k \in 1..Len(s) |-> s[k]] /\ b = [k \in 1..Len(s) |-> t[k]]
    BY <1>1, <1>2
  <2>2. a = b <=> \A k \in 1..Len(s) : s[k] = t[k]
    <3>1. \A k \in 1..Len(s) : a[k] = s[k] /\ b[k] = t[k]
      BY <2>1
    <3>2. a = [k \in 1..Len(s) |-> a[k]] /\ b = [k \in 1..Len(s) |-> b[k]]
      BY <2>1
    <3> HIDE DEF a, b
    <3> QED
      BY <3>1, <3>2
  <2> QED
    BY <1>2, <2>2 DEF IsPrefix
<1>3. CASE ~(Len(s) <= Len(t))
  BY <1>3 DEF IsPrefix
<1> QED
  BY <1>2, <1>3

LEMMA PrefixJoined ==
    ASSUME NEW E, NEW a \in Seq(E), NEW b \in Seq(E), NEW d \in Seq(E), IsPrefix(d, a)
    PROVE  IsPrefix(d, a \o b)
<1> DEFINE c == a \o b
<1>1. /\ Len(a) \in Nat /\ Len(b) \in Nat /\ Len(d) \in Nat
      /\ c \in Seq(E) /\ Len(c) = Len(a) + Len(b)
      /\ \A k \in 1..(Len(a) + Len(b)) : c[k] = IF k <= Len(a) THEN a[k] ELSE b[k - Len(a)]
  BY ConcatProperties, LenProperties
<1>2. Len(d) <= Len(a) /\ \A k \in 1..Len(d) : d[k] = a[k]
  BY PrefixByEntries
<1> HIDE DEF c
<1>3. Len(d) <= Len(c) /\ \A k \in 1..Len(d) : d[k] = c[k]
  BY <1>1, <1>2
<1>4. IsPrefix(d, c)
  BY <1>1, <1>3, PrefixByEntries
<1> QED
  BY <1>4 DEF c

\* The first sequences joined are how all of them joined begin.
LEMMA FlattenBegins ==
    ASSUME NEW E, NEW n \in Nat, NEW ss \in [1..n -> Seq(E)],
           NEW m \in 0..n, NEW tt \in [1..m -> Seq(E)], \A i \in 1..m : tt[i] = ss[i]
    PROVE  /\ FlattenSeq(tt) \in Seq(E) /\ FlattenSeq(ss) \in Seq(E)
           /\ IsPrefix(FlattenSeq(tt), FlattenSeq(ss))
<1>1. /\ <<>> \in Seq(E) /\ \A a, b \in Seq(E) : a \o b \in Seq(E)
      /\ ss \in Seq(Seq(E)) /\ Len(ss) = n /\ tt \in Seq(Seq(E)) /\ Len(tt) = m /\ m \in Nat
  BY ConcatProperties
<1>2. FlattenSeq(tt) \in Seq(E) /\ FlattenSeq(ss) \in Seq(E)
  BY <1>1, FlattenWithin
<1>3. CASE m = 0
  <2>1. tt = <<>>
    BY <1>1, <1>3
  <2>2. FlattenSeq(tt) = <<>>
    BY <2>1 DEF FlattenSeq
  <2>3. Len(FlattenSeq(tt)) = 0 /\ Len(FlattenSeq(ss)) \in Nat
    BY <1>2, <2>2, LenProperties
  <2>4. Len(FlattenSeq(tt)) <= Len(FlattenSeq(ss)) /\ 1..Len(FlattenSeq(tt)) = {}
    BY <2>3
  <2> QED
    BY <1>2, <2>4, PrefixByEntries
<1>4. CASE m # 0
  <2>1. PICK f : Joins(f, ss, n) /\ FlattenSeq(ss) = f[n]
    <3>1. Len(ss) # 0
      BY <1>1, <1>4
    <3> QED
      BY <1>1, <3>1, FlattenJoins
  <2>2. PICK g : Joins(g, tt, m) /\ FlattenSeq(tt) = g[m]
    <3>1. Len(tt) # 0
      BY <1>1, <1>4
    <3> QED
      BY <1>1, <3>1, FlattenJoins
  <2>3. f \in [1..n -> Seq(E)] /\ g \in [1..m -> Seq(E)]
    BY <1>1, <2>1, <2>2, JoinsWithin
  <2>4. /\ \A i \in 1..n : f[i] = IF i = 1 THEN ss[i] ELSE f[i-1] \o ss[i]
        /\ \A i \in 1..m : g[i] = IF i = 1 THEN tt[i] ELSE g[i-1] \o tt[i]
    BY <2>1, <2>2 DEF Joins
  <2> DEFINE Same(i) == i # 0 => f[i] = g[i]
             Begun(i) == m <= i => IsPrefix(f[m], f[i])
  <2>5. ASSUME NEW i \in 0..m, i < m, Same(i) PROVE Same(i + 1)
    <3>1. i + 1 \in 1..m /\ i + 1 \in 1..n /\ (i + 1) - 1 = i /\ (i + 1 = 1 <=> i = 0)
      BY <2>5
    <3>2. f[i+1] = (IF i = 0 THEN ss[i+1] ELSE f[i] \o ss[i+1]) /\ g[i+1] = (IF i = 0 THEN tt[i+1] ELSE g[i] \o tt[i+1])
      BY <2>4, <3>1
    <3>3. tt[i+1] = ss[i+1]
      BY <3>1
    <3> QED
      BY <2>5, <3>2, <3>3
  <2>6. Same(m)
    <3> DEFINE S == {i \in 0..m : Same(i)}
    <3>0. Same(0)
      OBVIOUS
    <3> HIDE DEF Same
    <3>1. 0 \in S /\ \A i \in 0..m : i < m /\ i \in S => i + 1 \in S
      BY <1>1, <2>5, <3>0
    <3>2. \A i \in 0..m : i \in S
      <4> HIDE DEF S
      <4> QED
        BY <1>1, <3>1, InductUpTo
    <3> QED
      BY <1>1, <3>2
  <2>7. ASSUME NEW i \in 0..n, i < n, Begun(i) PROVE Begun(i + 1)
    <3> SUFFICES ASSUME m <= i + 1 PROVE IsPrefix(f[m], f[i+1])
      OBVIOUS
    <3>1. m \in 1..n /\ f[m] \in Seq(E) /\ i + 1 \in 1..n /\ f[i+1] \in Seq(E)
      <4>1. m \in 1..n /\ i + 1 \in 1..n
        BY <1>1, <1>4, <2>7
      <4> QED
        BY <2>3, <4>1
    <3>2. CASE m = i + 1
      BY <3>1, <3>2, PrefixByEntries, LenProperties
    <3>3. CASE m <= i
      <4>1. i \in 1..n /\ (i + 1) - 1 = i /\ i + 1 # 1 /\ f[i] \in Seq(E) /\ ss[i+1] \in Seq(E)
        BY <1>4, <2>3, <3>1, <3>3
      <4>2. f[i+1] = f[i] \o ss[i+1]
        BY <2>4, <3>1, <4>1
      <4>3. IsPrefix(f[m], f[i])
        BY <2>7, <3>3
      <4> QED
        BY <3>1, <4>1, <4>2, <4>3, PrefixJoined
    <3> QED
      BY <1>1, <3>2, <3>3
  <2>8. Begun(n)
    <3> DEFINE S == {i \in 0..n : Begun(i)}
    <3>0. Begun(0)
      BY <1>1, <1>4
    <3> HIDE DEF Begun
    <3>1. 0 \in S /\ \A i \in 0..n : i < n /\ i \in S => i + 1 \in S
      BY <2>7, <3>0
    <3>2. \A i \in 0..n : i \in S
      <4> HIDE DEF S
      <4> QED
        BY <3>1, InductUpTo
    <3> QED
      BY <3>2
  <2>9. IsPrefix(f[m], f[n]) /\ f[m] = g[m]
    BY <1>1, <1>4, <2>6, <2>8
  <2> QED
    BY <1>2, <2>1, <2>2, <2>9
<1> QED
  BY <1>3, <1>4
================================================================================
