-------------------------- MODULE LockQueueProofs --------------------------
(* What the queue scans of LockQueue return, for every queue, and that they *)
(* return what the loops of the code leave.                                 *)
EXTENDS LockQueue, FiniteSetTheorems, SequenceTheorems, TLAPS

\* No waiter is in the queue s twice, whatever else is recorded with its name.
Distinct(s) == \A i, j \in DOMAIN s : s[i].id = s[j].id => i = j

-----------------------------------------------------------------------------

\* A nonempty set of natural numbers has a least element.
LEMMA LeastNatural ==
  ASSUME NEW S \in SUBSET Nat, S # {}
  PROVE  \E m \in S : \A k \in S : m <= k
<1> DEFINE R == StrictSubsetOrdering(Nat)
           F == FiniteSubsetsOf(Nat)
           T == {0..k : k \in S}
<1>1. IsWellFoundedOn(R, F)
  BY FS_StrictSubsetOrderingWellFounded
<1>2. T \subseteq F
  <2> SUFFICES ASSUME NEW k \in S PROVE 0..k \in F
    OBVIOUS
  <2>1. IsFiniteSet(0..k)
    BY FS_Interval
  <2> QED
    BY <2>1 DEF FiniteSubsetsOf
<1>3. \E x \in T : \A y \in T : ~ (<<y, x>> \in R)
  <2>1. T # {}
    OBVIOUS
  <2> HIDE DEF R, F, T
  <2> QED
    BY <1>1, <1>2, <2>1, WFMin
<1>4. PICK m \in S : \A k \in S : ~ (<<0..k, 0..m>> \in R)
  BY <1>3
<1>5. ASSUME NEW k \in S, k < m PROVE FALSE
  <2>1. m \in 0..m /\ m \notin 0..k
    BY <1>5
  <2>2. 0..k \subseteq 0..m /\ 0..k # 0..m
    BY <2>1, <1>5
  <2>3. 0..k \in SUBSET Nat /\ 0..m \in SUBSET Nat
    OBVIOUS
  <2>4. <<0..k, 0..m>> \in R
    BY <2>2, <2>3 DEF StrictSubsetOrdering
  <2> QED
    BY <2>4, <1>4
<1> QED
  BY <1>5

\* A nonempty set of natural numbers up to a bound has a greatest element.
LEMMA GreatestNatural ==
  ASSUME NEW n \in Nat, NEW S \in SUBSET (0..n), S # {}
  PROVE  \E m \in S : \A k \in S : k <= m
<1> DEFINE T == {n - k : k \in S}
<1>1. T \subseteq Nat /\ T # {}
  <2>1. \A k \in S : n - k \in Nat
    OBVIOUS
  <2>2. \A t \in T : t \in Nat
    BY <2>1
  <2>3. \E t : t \in T
    OBVIOUS
  <2> HIDE DEF T
  <2> QED
    BY <2>2, <2>3
<1>2. PICK t \in T : \A u \in T : t <= u
  <2> HIDE DEF T
  <2> QED
    BY <1>1, LeastNatural
<1> QED
  BY <1>2

-----------------------------------------------------------------------------

\* Induction, over a set of numbers in place of a predicate.
LEMMA UpTo ==
  ASSUME NEW n \in Nat, NEW S, 0 \in S,
         \A i \in Nat : i < n /\ i \in S => i + 1 \in S
  PROVE  0..n \subseteq S
<1> SUFFICES ASSUME NEW k \in 0..n, k \notin S PROVE FALSE
  OBVIOUS
<1> DEFINE T == {i \in 0..n : i \notin S}
<1>1. T \in SUBSET Nat /\ T # {}
  OBVIOUS
<1>2. PICK m \in T : \A i \in T : m <= i
  BY <1>1, LeastNatural
<1>3. m \in 0..n /\ m \notin S /\ m # 0
  BY <1>2
<1>4. m - 1 \in 0..n /\ m - 1 \in Nat /\ m - 1 < n /\ (m - 1) + 1 = m
  BY <1>3
<1>5. m - 1 \in S
  BY <1>2, <1>3, <1>4
<1> QED
  BY <1>3, <1>4, <1>5

\* 1..n is a finite set of n elements.
LEMMA InitialSegment ==
  ASSUME NEW n \in Nat
  PROVE  IsFiniteSet(1..n) /\ Cardinality(1..n) = n
<1>1. IsFiniteSet(1..n) /\ Cardinality(1..n) = IF 1 > n THEN 0 ELSE n - 1 + 1
  BY FS_Interval
<1> QED
  BY <1>1

\* The number of survivors up to a position grows by one at each survivor.
LEMMA RankSteps ==
  ASSUME NEW W, NEW s \in Seq(W), NEW D
  PROVE  /\ IsFiniteSet(Kept(s, D)) /\ Cardinality(Kept(s, D)) \in Nat
         /\ \A i \in 0..Len(s) : Rank(s, D, i) \in Nat
         /\ Rank(s, D, 0) = 0
         /\ Rank(s, D, Len(s)) = Cardinality(Kept(s, D))
         /\ \A i \in 1..Len(s) :
              Rank(s, D, i) = IF i \in Kept(s, D) THEN Rank(s, D, i - 1) + 1
                                                  ELSE Rank(s, D, i - 1)
<1> DEFINE K == Kept(s, D)
           Low(i) == {k \in K : k <= i}
<1>1. K \subseteq 1..Len(s) /\ Len(s) \in Nat
  BY DEF Kept
<1>2. IsFiniteSet(K)
  BY <1>1, InitialSegment, FS_Subset
<1>3. \A i : IsFiniteSet(Low(i))
  BY <1>2, FS_Subset
<1>4. Low(0) = {} /\ Low(Len(s)) = K
  BY <1>1
<1>5. ASSUME NEW i \in 1..Len(s)
      PROVE  Rank(s, D, i) = IF i \in K THEN Rank(s, D, i - 1) + 1
                                        ELSE Rank(s, D, i - 1)
  <2>1. Low(i) = IF i \in K THEN Low(i - 1) \cup {i} ELSE Low(i - 1)
    BY <1>1
  <2>2. i \notin Low(i - 1)
    OBVIOUS
  <2> HIDE DEF Low
  <2>3. i \in K => Cardinality(Low(i)) = Cardinality(Low(i - 1)) + 1
    BY <2>1, <2>2, <1>3, FS_AddElement
  <2> QED
    BY <2>1, <2>3 DEF Rank, Low
<1>6. \A i : Rank(s, D, i) \in Nat
  BY <1>3, FS_CardinalityType DEF Rank
<1>7. Rank(s, D, 0) = 0 /\ Rank(s, D, Len(s)) = Cardinality(K)
  BY <1>4, FS_EmptySet DEF Rank
<1> QED
  BY <1>2, <1>5, <1>6, <1>7, FS_CardinalityType

\* Ranks grow with positions, strictly so into a survivor.
LEMMA RankMonotone ==
  ASSUME NEW W, NEW s \in Seq(W), NEW D,
         NEW i \in 0..Len(s), NEW j \in 0..Len(s), i < j
  PROVE  /\ Rank(s, D, i) <= Rank(s, D, j)
         /\ j \in Kept(s, D) => Rank(s, D, i) < Rank(s, D, j)
<1> DEFINE K == Kept(s, D)
           Low(n) == {k \in K : k <= n}
<1>1. IsFiniteSet(K) /\ \A n \in 0..Len(s) : Rank(s, D, n) \in Nat
  BY RankSteps
<1>2. Low(i) \in SUBSET Low(j) /\ Low(j) \in SUBSET K
  <2>1. K \subseteq Int
    BY DEF Kept
  <2> QED
    BY <2>1
<1>5. IsFiniteSet(Low(j))
  BY <1>1, <1>2, FS_Subset
<1>3. /\ Cardinality(Low(i)) <= Cardinality(Low(j))
      /\ Cardinality(Low(i)) = Cardinality(Low(j)) => Low(i) = Low(j)
  <2> HIDE DEF Low
  <2> QED
    BY <1>2, <1>5, FS_Subset
<1>4. j \in K => Low(i) # Low(j)
  <2>1. j \in K => j \in Low(j) /\ j \notin Low(i)
    OBVIOUS
  <2> QED
    BY <2>1
<1> QED
  BY <1>1, <1>3, <1>4 DEF Rank

\* Every place in the compacted queue is the rank of exactly one survivor.
LEMMA RankOnto ==
  ASSUME NEW W, NEW s \in Seq(W), NEW D, NEW j \in 1..Cardinality(Kept(s, D))
  PROVE  \E i \in Kept(s, D) : Rank(s, D, i) = j
<1> DEFINE S == {i \in 0..Len(s) : Rank(s, D, i) >= j}
<1>1. /\ Rank(s, D, 0) = 0
      /\ Rank(s, D, Len(s)) = Cardinality(Kept(s, D))
      /\ Cardinality(Kept(s, D)) \in Nat
      /\ Len(s) \in Nat
      /\ \A i \in 0..Len(s) : Rank(s, D, i) \in Nat
  BY RankSteps
<1>2. S \in SUBSET Nat /\ Len(s) \in S
  BY <1>1
<1>3. PICK m \in S : \A k \in S : m <= k
  BY <1>2, LeastNatural
<1>4. m \in 1..Len(s)
  BY <1>1, <1>3
<1>5. m - 1 \in 0..Len(s) /\ Rank(s, D, m - 1) < j
  BY <1>1, <1>3, <1>4
<1>6. Rank(s, D, m) = IF m \in Kept(s, D) THEN Rank(s, D, m - 1) + 1
                                          ELSE Rank(s, D, m - 1)
  BY <1>4, RankSteps
<1> QED
  BY <1>1, <1>3, <1>4, <1>5, <1>6

\* The compacted queue holds the survivors and nobody else, in a queue no longer
\* than before, and each survivor once if it was there once.
LEMMA WithoutProperties ==
  ASSUME NEW W, NEW s \in Seq(W), NEW D
  PROVE  /\ Without(s, D) \in Seq(W)
         /\ Elems(Without(s, D)) = Elems(s) \ D
         /\ Len(Without(s, D)) <= Len(s)
         /\ Distinct(s) => Distinct(Without(s, D))
<1> DEFINE t == Without(s, D)
           n == Cardinality(Kept(s, D))
           at(j) == CHOOSE i \in Kept(s, D) : Rank(s, D, i) = j
<1>1. n \in Nat /\ Len(s) \in Nat /\ IsFiniteSet(Kept(s, D))
  BY RankSteps
<1>2. Kept(s, D) \subseteq 1..Len(s)
  BY DEF Kept
<1>3. \A j \in 1..n : at(j) \in Kept(s, D) /\ Rank(s, D, at(j)) = j
  BY RankOnto
<1>4. t = [j \in 1..n |-> s[at(j)]]
  BY DEF Without
<1> HIDE DEF at, t
<1>5. t \in Seq(W) /\ Len(t) = n /\ DOMAIN t = 1..n
  <2>1. \A j \in 1..n : s[at(j)] \in W
    BY <1>2, <1>3
  <2> QED
    BY <1>1, <1>4, <2>1
<1>6. n <= Len(s)
  <2>1. Cardinality(1..Len(s)) = Len(s) /\ IsFiniteSet(1..Len(s))
    BY <1>1, InitialSegment
  <2> QED
    BY <1>2, <2>1, FS_Subset
<1>7. Elems(t) = Elems(s) \ D
  <2>1. ASSUME NEW j \in 1..n PROVE t[j] \in Elems(s) \ D
    BY <1>3, <1>4 DEF Kept, Elems
  <2>2. ASSUME NEW i \in DOMAIN s, s[i] \notin D PROVE \E j \in 1..n : t[j] = s[i]
    <3>1. i \in Kept(s, D) /\ i \in 1..Len(s)
      BY <2>2 DEF Kept
    <3>2. Rank(s, D, i) \in 1..n
      <4>1. Rank(s, D, i) \in Nat /\ Rank(s, D, 0) = 0 /\ Rank(s, D, Len(s)) = n
        BY <3>1, RankSteps
      <4>2. Rank(s, D, 0) < Rank(s, D, i)
        BY <3>1, <1>1, RankMonotone
      <4>3. i < Len(s) => Rank(s, D, i) <= Rank(s, D, Len(s))
        BY <3>1, <1>1, RankMonotone
      <4> QED
        BY <4>1, <4>2, <4>3, <3>1
    <3> DEFINE k == at(Rank(s, D, i))
    <3>3. k \in Kept(s, D) /\ Rank(s, D, k) = Rank(s, D, i) /\ k \in 1..Len(s)
      BY <3>2, <1>3, <1>2
    <3>4. k = i
      <4> HIDE DEF k
      <4>1. \A a, b \in Kept(s, D) : a < b => Rank(s, D, a) < Rank(s, D, b)
        <5> SUFFICES ASSUME NEW a \in Kept(s, D), NEW b \in Kept(s, D), a < b
                     PROVE  Rank(s, D, a) < Rank(s, D, b)
          OBVIOUS
        <5>1. a \in 0..Len(s) /\ b \in 0..Len(s)
          BY <1>1, <1>2
        <5> QED
          BY <5>1, RankMonotone
      <4>2. Rank(s, D, i) \in Nat /\ Rank(s, D, k) \in Nat
        BY <3>2, <3>3
      <4> QED
        BY <3>1, <3>3, <4>1, <4>2
    <3> QED
      BY <3>2, <3>4, <1>4
  <2> QED
    BY <2>1, <2>2, <1>5 DEF Elems
<1>8. ASSUME Distinct(s) PROVE Distinct(t)
  <2> SUFFICES ASSUME NEW i \in 1..n, NEW j \in 1..n, t[i].id = t[j].id
               PROVE  i = j
    BY <1>5 DEF Distinct
  <2>1. s[at(i)].id = s[at(j)].id
    BY <1>4
  <2>2. at(i) \in DOMAIN s /\ at(j) \in DOMAIN s
    BY <1>3 DEF Kept
  <2>3. at(i) = at(j)
    BY <1>8, <2>1, <2>2 DEF Distinct
  <2> QED
    BY <2>3, <1>3
<1> QED
  BY <1>5, <1>6, <1>7, <1>8 DEF t

\* Compaction keeps the survivors in their order.
LEMMA WithoutOrder ==
  ASSUME NEW W, NEW s \in Seq(W), NEW D,
         NEW a \in DOMAIN Without(s, D), NEW b \in DOMAIN Without(s, D), a < b
  PROVE  \E i, j \in DOMAIN s : i < j /\ s[i] = Without(s, D)[a] /\ s[j] = Without(s, D)[b]
<1> DEFINE n == Cardinality(Kept(s, D))
           at(k) == CHOOSE i \in Kept(s, D) : Rank(s, D, i) = k
<1>1. n \in Nat /\ Len(s) \in Nat
  BY RankSteps
<1>2. Kept(s, D) \subseteq 1..Len(s)
  BY DEF Kept
<1>3. \A k \in 1..n : at(k) \in Kept(s, D) /\ Rank(s, D, at(k)) = k
  BY RankOnto
<1>4. Without(s, D) = [k \in 1..n |-> s[at(k)]]
  BY DEF Without
<1> HIDE DEF at
<1>5. a \in 1..n /\ b \in 1..n
  BY <1>4
<1> DEFINE i == at(a)
           j == at(b)
<1>6. /\ i \in 1..Len(s) /\ j \in 1..Len(s) /\ i \in Kept(s, D)
      /\ Rank(s, D, i) = a /\ Rank(s, D, j) = b
      /\ s[i] = Without(s, D)[a] /\ s[j] = Without(s, D)[b]
  BY <1>2, <1>3, <1>4, <1>5
<1> HIDE DEF i, j
<1>7. j < i => b < a
  <2>1. i \in 0..Len(s) /\ j \in 0..Len(s)
    BY <1>1, <1>6
  <2>2. j < i => Rank(s, D, j) < Rank(s, D, i)
    BY <1>6, <2>1, RankMonotone
  <2> QED
    BY <1>6, <2>2
<1>8. i < j
  BY <1>5, <1>6, <1>7
<1> QED
  BY <1>6, <1>8

\* Nobody can leave an empty queue.
LEMMA WithoutNothing ==
  ASSUME NEW D
  PROVE  Without(<<>>, D) = <<>>
<1> DEFINE s == Without(<<>>, D)
<1>1. <<>> \in Seq({}) /\ Len(<<>>) = 0
  OBVIOUS
<1>2. s \in Seq({}) /\ Len(s) <= Len(<<>>)
  BY <1>1, WithoutProperties
<1> HIDE DEF s
<1>3. Len(s) = 0
  BY <1>1, <1>2
<1> QED
  BY <1>2, <1>3 DEF s

\* A removal of nobody leaves the queue as it is.
LEMMA WithoutNobody ==
  ASSUME NEW S, NEW s \in Seq(S)
  PROVE  Without(s, {}) = s
<1>1. Kept(s, {}) = 1..Len(s)
  BY DEF Kept
<1>2. ASSUME NEW i \in 1..Len(s) PROVE Rank(s, {}, i) = i
  <2>1. i \in Nat /\ Len(s) \in Nat
    OBVIOUS
  <2>2. {k \in Kept(s, {}) : k <= i} = 1..i
    BY <1>1, <2>1
  <2> QED
    BY <2>1, <2>2, InitialSegment DEF Rank
<1>3. Cardinality(Kept(s, {})) = Len(s)
  BY <1>1, InitialSegment
<1> DEFINE origin(j) == CHOOSE i \in Kept(s, {}) : Rank(s, {}, i) = j
<1>4. \A j \in 1..Len(s) : origin(j) = j
  BY <1>1, <1>2
<1>5. Without(s, {}) = [j \in 1..Len(s) |-> s[origin(j)]]
  BY <1>3 DEF Without
<1> HIDE DEF origin
<1> QED
  BY <1>4, <1>5

\* A survivor stands at its rank.
LEMMA SurvivorPlace ==
  ASSUME NEW W, NEW s \in Seq(W), NEW D, NEW i \in Kept(s, D)
  PROVE  /\ Rank(s, D, i) \in 1..Cardinality(Kept(s, D))
         /\ Without(s, D)[Rank(s, D, i)] = s[i]
<1> DEFINE n == Cardinality(Kept(s, D))
           at(j) == CHOOSE k \in Kept(s, D) : Rank(s, D, k) = j
           r == Rank(s, D, i)
<1>1. n \in Nat /\ Len(s) \in Nat /\ Kept(s, D) \subseteq 1..Len(s)
  <2>1. Kept(s, D) \subseteq 1..Len(s)
    BY DEF Kept
  <2> QED
    BY <2>1, RankSteps
<1>2. r \in Nat /\ Rank(s, D, 0) = 0 /\ Rank(s, D, Len(s)) = n
  BY <1>1, RankSteps
<1>3. Rank(s, D, 0) < r
  BY <1>1, RankMonotone
<1>4. i < Len(s) => r <= Rank(s, D, Len(s))
  BY <1>1, RankMonotone
<1>5. r \in 1..n
  BY <1>1, <1>2, <1>3, <1>4
<1>6. at(r) \in Kept(s, D) /\ Rank(s, D, at(r)) = r
  BY <1>5, RankOnto
<1>7. \A a, b \in Kept(s, D) : a < b => Rank(s, D, a) < Rank(s, D, b)
  BY <1>1, RankMonotone
<1>8. Without(s, D)[r] = s[at(r)]
  BY <1>5 DEF Without
<1> HIDE DEF at, r
<1>9. at(r) = i
  <2>1. at(r) \in Nat /\ i \in Nat
    BY <1>1, <1>6
  <2> QED
    BY <1>2, <1>6, <1>7, <2>1 DEF r
<1> QED
  BY <1>5, <1>8, <1>9 DEF r

\* Sets that a function pairs off have as many elements.
LEMMA SameCount ==
  ASSUME NEW S, NEW T, IsFiniteSet(S), NEW f \in [S -> T],
         \A a, b \in S : f[a] = f[b] => a = b,
         \A t \in T : \E a \in S : f[a] = t
  PROVE  Cardinality(T) = Cardinality(S)
<1>1. f \in Bijection(S, T)
  BY Zenon DEF Bijection, Injection, Surjection, IsInjective
<1> QED
  BY <1>1, FS_Bijection DEF ExistsBijection

\* Removing some waiters and then others is removing all of them at once.
LEMMA WithoutTwice ==
  ASSUME NEW W, NEW s \in Seq(W), NEW A, NEW B
  PROVE  Without(Without(s, A), B) = Without(s, A \union B)
<1> DEFINE t == Without(s, A)
           C == A \union B
           K == Kept(s, C)
           r(i) == Rank(s, A, i)
<1>1. t \in Seq(W) /\ Len(s) \in Nat /\ K \subseteq Kept(s, A) /\ K \subseteq 1..Len(s)
  BY WithoutProperties DEF Kept
<1>2. DOMAIN t = 1..Cardinality(Kept(s, A))
  BY DEF Without
<1>3. \A i \in Kept(s, A) : r(i) \in DOMAIN t /\ t[r(i)] = s[i]
  BY <1>2, SurvivorPlace
<1>4. \A i, j \in K : i < j => r(i) < r(j)
  <2> HIDE DEF K
  <2> SUFFICES ASSUME NEW i \in K, NEW j \in K, i < j PROVE r(i) < r(j)
    OBVIOUS
  <2>1. i \in 0..Len(s) /\ j \in 0..Len(s) /\ j \in Kept(s, A)
    BY <1>1
  <2>2. Rank(s, A, i) < Rank(s, A, j)
    BY <2>1, RankMonotone
  <2> QED
    BY <2>2
<1>5. \A i \in K : r(i) \in Kept(t, B) /\ r(i) \in Nat
  BY <1>1, <1>2, <1>3 DEF Kept
<1>6. \A b \in Kept(t, B) : \E i \in K : r(i) = b
  <2> SUFFICES ASSUME NEW b \in Kept(t, B) PROVE \E i \in K : r(i) = b
    OBVIOUS
  <2>1. b \in 1..Cardinality(Kept(s, A)) /\ t[b] \notin B
    BY <1>2 DEF Kept
  <2>2. PICK i \in Kept(s, A) : r(i) = b
    BY <2>1, RankOnto
  <2>3. s[i] = t[b] /\ s[i] \notin B
    BY <1>3, <2>1, <2>2
  <2> QED
    BY <2>2, <2>3 DEF Kept
<1> HIDE DEF r, K
<1>7. ASSUME NEW i \in K PROVE Rank(t, B, r(i)) = Rank(s, C, i)
  <2> DEFINE L == {k \in K : k <= i}
             M == {b \in Kept(t, B) : b <= r(i)}
             f == [k \in L |-> r(k)]
  <2>1. IsFiniteSet(L)
    BY RankSteps, FS_Subset DEF K
  <2>2. \A k \in K : k <= i <=> r(k) <= r(i)
    <3> SUFFICES ASSUME NEW k \in K PROVE k <= i <=> r(k) <= r(i)
      OBVIOUS
    <3>1. k \in Nat /\ i \in Nat /\ r(k) \in Nat /\ r(i) \in Nat
      BY <1>1, <1>5
    <3> QED
      BY <1>4, <3>1
  <2>3. \A j, k \in K : r(j) = r(k) => j = k
    <3> SUFFICES ASSUME NEW j \in K, NEW k \in K, r(j) = r(k) PROVE j = k
      OBVIOUS
    <3>1. j \in Nat /\ k \in Nat /\ r(j) \in Nat
      BY <1>1, <1>5
    <3> QED
      BY <1>4, <3>1
  <2>4. f \in [L -> M]
    BY <1>5, <2>2
  <2>5. (\A j, k \in L : f[j] = f[k] => j = k) /\ (\A b \in M : \E k \in L : f[k] = b)
    BY <1>6, <2>2, <2>3
  <2> HIDE DEF f, L, M
  <2>6. Cardinality(M) = Cardinality(L)
    BY <2>1, <2>4, <2>5, SameCount
  <2> QED
    BY <2>6 DEF Rank, K, L, M
<1>8. Cardinality(Kept(t, B)) = Cardinality(K)
  <2> DEFINE f == [k \in K |-> r(k)]
  <2>1. \A j, k \in K : r(j) = r(k) => j = k
    <3> SUFFICES ASSUME NEW j \in K, NEW k \in K, r(j) = r(k) PROVE j = k
      OBVIOUS
    <3>1. j \in Nat /\ k \in Nat /\ r(j) \in Nat
      BY <1>1, <1>5
    <3> QED
      BY <1>4, <3>1
  <2>2. IsFiniteSet(K)
    BY RankSteps DEF K
  <2>3. f \in [K -> Kept(t, B)]
    BY <1>5
  <2>4. (\A j, k \in K : f[j] = f[k] => j = k) /\ (\A b \in Kept(t, B) : \E k \in K : f[k] = b)
    BY <1>6, <2>1
  <2> HIDE DEF f
  <2> QED
    BY <2>2, <2>3, <2>4, SameCount
<1> DEFINE u == Without(t, B)
           v == Without(s, C)
           n == Cardinality(K)
<1>9. u = [j \in 1..n |-> u[j]] /\ v = [j \in 1..n |-> v[j]]
  BY <1>8 DEF Without, K
<1>10. ASSUME NEW j \in 1..n PROVE u[j] = v[j]
  <2>1. PICK i \in K : Rank(s, C, i) = j
    BY RankOnto DEF K
  <2>2. v[j] = s[i]
    BY <2>1, SurvivorPlace DEF K
  <2>3. r(i) \in Kept(t, B) /\ Rank(t, B, r(i)) = j
    BY <1>5, <1>7, <2>1
  <2> HIDE DEF t
  <2>4. u[j] = t[r(i)]
    BY <1>1, <2>3, SurvivorPlace
  <2> QED
    BY <1>1, <1>3, <2>2, <2>4
<1> HIDE DEF u, v, n
<1> QED
  BY <1>9, <1>10 DEF u, v

-----------------------------------------------------------------------------

\* The front readers are readers, and whoever is next, if anybody, is not.
LEMMA LeadingReadersProperties ==
  ASSUME NEW W, NEW s \in Seq(W)
  PROVE  /\ LeadingReaders(s) \in 0..Len(s)
         /\ \A i \in 1..LeadingReaders(s) : s[i].mode = "read"
         /\ LeadingReaders(s) < Len(s) => s[LeadingReaders(s) + 1].mode # "read"
<1> DEFINE S == {n \in 0..Len(s) : \A i \in 1..n : s[i].mode = "read"}
<1>1. Len(s) \in Nat /\ S \in SUBSET (0..Len(s)) /\ 0 \in S
  OBVIOUS
<1>2. PICK m \in S : \A k \in S : k <= m
  BY <1>1, GreatestNatural
<1>3. ASSUME m < Len(s), s[m + 1].mode = "read" PROVE FALSE
  <2>1. m + 1 \in 0..Len(s) /\ \A i \in 1..(m + 1) : s[i].mode = "read"
    <3>1. \A i \in 1..(m + 1) : i \in 1..m \/ i = m + 1
      BY <1>1, <1>2
    <3> QED
      BY <1>1, <1>2, <1>3, <3>1
  <2>2. m + 1 \in S
    BY <2>1
  <2> QED
    BY <2>2, <1>2
<1>4. \E n \in 0..Len(s) : /\ \A i \in 1..n : s[i].mode = "read"
                           /\ n < Len(s) => s[n + 1].mode # "read"
  BY <1>2, <1>3
<1> QED
  BY <1>4 DEF LeadingReaders

\* The front n waiters of a queue without repetitions are n goroutines.
LEMMA FrontCount ==
  ASSUME NEW W, NEW s \in Seq(W), Distinct(s), NEW n \in 0..Len(s)
  PROVE  LET front == {s[i].id : i \in 1..n}
         IN  IsFiniteSet(front) /\ Cardinality(front) = n
<1> DEFINE front == {s[i].id : i \in 1..n}
           f == [i \in 1..n |-> s[i].id]
<1>1. 1..n \subseteq DOMAIN s /\ n \in Nat
  OBVIOUS
<1>2. f \in Bijection(1..n, front)
  <2>1. f \in [1..n -> front]
    OBVIOUS
  <2>2. \A i, j \in 1..n : f[i] = f[j] => i = j
    BY <1>1 DEF Distinct
  <2>3. \A x \in front : \E i \in 1..n : f[i] = x
    OBVIOUS
  <2> QED
    BY <2>1, <2>2, <2>3, Zenon DEF Bijection, Injection, Surjection, IsInjective
<1>3. ExistsBijection(1..n, front)
  BY <1>2 DEF ExistsBijection
<1>4. IsFiniteSet(front)
  BY <1>1, <1>3, FS_NatBijection
<1> QED
  BY <1>1, <1>3, <1>4, FS_CountingElements

\* The cells behind the front n waiters, for queues with or without repetitions.
LEMMA SuffixCells ==
  ASSUME NEW W, NEW s \in Seq(W), NEW n \in 0..Len(s)
  PROVE  /\ SubSeq(s, n + 1, Len(s)) \in Seq(W)
         /\ Len(SubSeq(s, n + 1, Len(s))) = Len(s) - n
         /\ \A i \in 1..(Len(s) - n) : SubSeq(s, n + 1, Len(s))[i] = s[n + i]
<1> DEFINE t == SubSeq(s, n + 1, Len(s))
<1>1. n + 1 \in Int /\ Len(s) \in Nat /\ n \in Nat /\ \A i \in (n + 1)..Len(s) : s[i] \in W
  OBVIOUS
<1>2. /\ t \in Seq(W)
      /\ Len(t) = IF n + 1 <= Len(s) THEN Len(s) - (n + 1) + 1 ELSE 0
      /\ \A i \in 1..(Len(s) - (n + 1) + 1) : t[i] = s[(n + 1) + i - 1]
  BY <1>1, SubSeqProperties
<1> HIDE DEF t
<1>3. Len(s) - (n + 1) + 1 = Len(s) - n /\ n <= Len(s)
  BY <1>1
<1>4. Len(t) = Len(s) - n
  <2>1. \A a, b, k : /\ a \in Nat /\ b \in 0..a
                     /\ k = IF b + 1 <= a THEN a - (b + 1) + 1 ELSE 0
                     => k = a - b
    OBVIOUS
  <2> QED
    BY <1>1, <1>2, <2>1, Zenon
<1>5. \A i \in 1..(Len(s) - n) : (n + 1) + i - 1 = n + i
  BY <1>1
<1> QED
  BY <1>2, <1>3, <1>4, <1>5 DEF t

\* What is behind the front n waiters, for queues with or without repetitions.
LEMMA BehindTheFront ==
  ASSUME NEW W, NEW s \in Seq(W), NEW n \in 0..Len(s)
  PROVE  LET t == SubSeq(s, n + 1, Len(s))
         IN  /\ n = 0 => t = s
             /\ t # <<>> <=> n < Len(s)
             /\ n < Len(s) => Head(t) = s[n + 1] /\ Tail(t) = SubSeq(s, (n + 1) + 1, Len(s))
<1> DEFINE t == SubSeq(s, n + 1, Len(s))
           u == SubSeq(s, (n + 1) + 1, Len(s))
           m == Len(s) - n
<1>1. Len(s) \in Nat /\ n \in Nat /\ m \in Nat /\ \A i \in 1..Len(s) : s[i] \in W
  OBVIOUS
<1>2. t \in Seq(W) /\ Len(t) = m /\ \A i \in 1..m : t[i] = s[n + i]
  BY SuffixCells
<1>6. n = 0 => t = s
  <2> SUFFICES ASSUME n = 0 PROVE t = s
    OBVIOUS
  <2> HIDE DEF t
  <2>1. \A i \in 1..Len(s) : t[i] = s[i]
    BY <1>1, <1>2
  <2>2. Len(t) = Len(s)
    BY <1>1, <1>2
  <2> QED
    BY <1>2, <2>1, <2>2, SeqEqual
<1> HIDE DEF t, u, m
<1>7. t # <<>> <=> n < Len(s)
  <2>1. t # <<>> <=> Len(t) # 0
    BY <1>2
  <2> QED
    BY <1>1, <1>2, <2>1 DEF m
<1>8. ASSUME n < Len(s) PROVE Head(t) = s[n + 1] /\ Tail(t) = u
  <2>1. t # <<>> /\ 1 \in 1..m /\ m - 1 \in Nat
    BY <1>1, <1>7, <1>8 DEF m
  <2>2. Head(t) = t[1] /\ Tail(t) \in Seq(W) /\ Len(Tail(t)) = m - 1
        /\ \A i \in 1..(m - 1) : Tail(t)[i] = t[i + 1]
    BY <1>2, <2>1, HeadTailProperties
  <2>3. \A i \in 1..(m - 1) : i + 1 \in 1..m /\ n + (i + 1) = n + 1 + i
    BY <1>1, <2>1
  <2>4. u \in Seq(W) /\ Len(u) = m - 1 /\ \A i \in 1..(m - 1) : u[i] = s[n + 1 + i]
    <3>1. n + 1 \in 0..Len(s) /\ Len(s) - (n + 1) = m - 1
      BY <1>1, <1>8 DEF m
    <3> QED
      BY <3>1, SuffixCells DEF u
  <2>5. \A i \in 1..(m - 1) : Tail(t)[i] = u[i]
    BY <1>2, <2>2, <2>3, <2>4
  <2>6. Tail(t) = u
    BY <2>2, <2>4, <2>5, SeqEqual
  <2> QED
    BY <1>2, <2>1, <2>2, <2>6
<1> QED
  BY <1>6, <1>7, <1>8 DEF t, u

\* What is left behind the front n waiters.
LEMMA RestProperties ==
  ASSUME NEW W, NEW s \in Seq(W), Distinct(s), NEW n \in 0..Len(s)
  PROVE  /\ SubSeq(s, n + 1, Len(s)) \in Seq(W)
         /\ Len(SubSeq(s, n + 1, Len(s))) = Len(s) - n
         /\ \A i \in 1..(Len(s) - n) : SubSeq(s, n + 1, Len(s))[i] = s[n + i]
         /\ Distinct(SubSeq(s, n + 1, Len(s)))
         /\ Elems(SubSeq(s, n + 1, Len(s))) = Elems(s) \ {s[i] : i \in 1..n}
<1> DEFINE t == SubSeq(s, n + 1, Len(s))
<1>1. /\ t \in Seq(W) /\ Len(t) = Len(s) - n /\ Len(s) \in Nat
      /\ \A i \in 1..Len(t) : t[i] = s[n + i]
      /\ DOMAIN t = 1..(Len(s) - n) /\ DOMAIN s = 1..Len(s)
  <2>1. /\ t \in Seq(W) /\ Len(t) = Len(s) - n
        /\ \A i \in 1..(Len(s) - n) : t[i] = s[n + i]
    BY SuffixCells
  <2> HIDE DEF t
  <2> QED
    BY <2>1
<1> HIDE DEF t
<1>2. Distinct(t)
  <2> SUFFICES ASSUME NEW i \in DOMAIN t, NEW j \in DOMAIN t, t[i].id = t[j].id
               PROVE  i = j
    BY DEF Distinct
  <2>1. i \in 1..Len(t) /\ j \in 1..Len(t)
    BY <1>1
  <2>2. t[i] = s[n + i] /\ t[j] = s[n + j]
    BY <1>1, <2>1
  <2>3. n + i \in DOMAIN s /\ n + j \in DOMAIN s /\ s[n + i].id = s[n + j].id
    <3>1. n + i \in 1..Len(s) /\ n + j \in 1..Len(s)
      BY <1>1, <2>1
    <3> QED
      BY <1>1, <2>2, <3>1
  <2>4. n + i = n + j
    BY <2>3 DEF Distinct
  <2> QED
    BY <2>4, <1>1
<1>3. ASSUME NEW i \in DOMAIN t PROVE t[i] \in Elems(s) /\ \A k \in 1..n : t[i] # s[k]
  <2>1. n + i \in DOMAIN s /\ t[i] = s[n + i]
    BY <1>1
  <2>2. \A k \in 1..n : k \in DOMAIN s /\ k # n + i
    BY <1>1
  <2> QED
    BY <2>1, <2>2 DEF Elems, Distinct
<1>4. ASSUME NEW k \in DOMAIN s, k \notin 1..n PROVE s[k] \in Elems(t)
  <2>1. k - n \in DOMAIN t /\ t[k - n] = s[k]
    BY <1>1, <1>4
  <2> QED
    BY <2>1 DEF Elems
<1>5. Elems(t) = Elems(s) \ {s[i] : i \in 1..n}
  BY <1>3, <1>4 DEF Elems
<1> QED
  BY <1>1, <1>2, <1>5 DEF t

\* What is left behind the head of the queue.
LEMMA TailProperties ==
  ASSUME NEW W, NEW s \in Seq(W), Distinct(s), s # <<>>
  PROVE  /\ Head(s) \in Elems(s) /\ Head(s) \in W
         /\ Tail(s) \in Seq(W)
         /\ Len(Tail(s)) <= Len(s)
         /\ Distinct(Tail(s))
         /\ Elems(Tail(s)) = Elems(s) \ {Head(s)}
<1>1. Len(s) \in Nat /\ 1 \in DOMAIN s /\ Head(s) = s[1] /\ DOMAIN s = 1..Len(s) /\ s[1] \in W
  OBVIOUS
<1>2. Tail(s) \in Seq(W) /\ Len(Tail(s)) = Len(s) - 1
  BY HeadTailProperties
<1>3. \A i \in 1..Len(Tail(s)) : Tail(s)[i] = s[i + 1]
  BY HeadTailProperties
<1>4. DOMAIN Tail(s) = 1..(Len(s) - 1)
  BY <1>2
<1> DEFINE t == Tail(s)
<1> HIDE DEF t
<1>5. \A i \in DOMAIN t : t[i] = s[i + 1] /\ i + 1 \in DOMAIN s /\ i + 1 # 1 /\ i \in Int
  BY <1>1, <1>2, <1>3, <1>4 DEF t
<1>6. \A k \in DOMAIN s : k # 1 => k - 1 \in DOMAIN t /\ t[k - 1] = s[k]
  BY <1>1, <1>2, <1>3, <1>4 DEF t
<1>7. Distinct(t)
  <2> SUFFICES ASSUME NEW i \in DOMAIN t, NEW j \in DOMAIN t, t[i].id = t[j].id
               PROVE  i = j
    BY DEF Distinct
  <2>1. i + 1 = j + 1
    BY <1>5 DEF Distinct
  <2> QED
    BY <2>1, <1>5
<1>8. Elems(t) = Elems(s) \ {s[1]}
  <2>1. ASSUME NEW i \in DOMAIN t PROVE t[i] \in Elems(s) /\ t[i] # s[1]
    BY <1>1, <1>5 DEF Elems, Distinct
  <2>2. ASSUME NEW k \in DOMAIN s, s[k] # s[1] PROVE s[k] \in Elems(t)
    <3>1. k # 1
      BY <2>2
    <3> QED
      BY <3>1, <1>6 DEF Elems
  <2> QED
    BY <2>1, <2>2 DEF Elems
<1> QED
  BY <1>1, <1>2, <1>7, <1>8 DEF t, Elems

\* A newcomer at the end of the queue.
LEMMA AppendDistinct ==
  ASSUME NEW W, NEW s \in Seq(W), Distinct(s), NEW x \in W,
         \A i \in DOMAIN s : s[i].id # x.id
  PROVE  /\ Append(s, x) \in Seq(W)
         /\ Len(Append(s, x)) = Len(s) + 1
         /\ Distinct(Append(s, x))
         /\ Elems(Append(s, x)) = Elems(s) \union {x}
<1> DEFINE t == Append(s, x)
<1>1. /\ t \in Seq(W) /\ Len(t) = Len(s) + 1 /\ Len(s) \in Nat
      /\ DOMAIN s = 1..Len(s) /\ DOMAIN t = 1..(Len(s) + 1)
      /\ \A i \in 1..Len(s) : t[i] = s[i]
      /\ t[Len(s) + 1] = x
  OBVIOUS
<1> HIDE DEF t
<1>2. \A i \in DOMAIN t : i \in DOMAIN s \/ i = Len(s) + 1
  BY <1>1
<1>3. Distinct(t)
  BY <1>1, <1>2 DEF Distinct
<1>4. Elems(t) = Elems(s) \union {x}
  <2>1. Len(s) + 1 \in DOMAIN t /\ DOMAIN s \subseteq DOMAIN t
    BY <1>1
  <2> QED
    BY <1>1, <1>2, <2>1 DEF Elems
<1> QED
  BY <1>1, <1>3, <1>4 DEF t

-----------------------------------------------------------------------------
(* The loops behind the closed forms.  A loop is the function from the      *)
(* number of turns taken to the state it is in then.                        *)

\* What writing one cell does to an array.
LEMMA CellWritten ==
  ASSUME NEW W, NEW s \in Seq(W), NEW c \in 1..Len(s), NEW x \in W,
         NEW t, t = [s EXCEPT ![c] = x]
  PROVE  /\ t \in Seq(W) /\ Len(t) = Len(s)
         /\ t[c] = x
         /\ \A k \in 1..Len(s) : k # c => t[k] = s[k]
<1>1. /\ [s EXCEPT ![c] = x] \in Seq(W)
      /\ Len([s EXCEPT ![c] = x]) = Len(s)
      /\ \A j \in 1..Len(s) : [s EXCEPT ![c] = x][j] = IF j = c THEN x ELSE s[j]
  BY ExceptSeq
<1>2. t \in Seq(W) /\ Len(t) = Len(s)
  BY <1>1
<1>3. \A j \in 1..Len(s) : t[j] = IF j = c THEN x ELSE s[j]
  BY <1>1
<1> QED
  BY <1>2, <1>3

\* The compaction of rejectCancelledWaitersLocked, which writes into the array it is
\* still reading, leaves the survivors in their order: it never overwrites a waiter
\* before it has looked at it.  D are the waiters it finds done.
THEOREM CompactionLoop ==
  ASSUME NEW W, NEW s \in Seq(W), NEW D, NEW loop,
         loop[0] = [array |-> s, kept |-> 0],
         \A i \in 1..Len(s) : loop[i] = CompactionTurn(loop[i - 1], i, D)
  PROVE  SubSeq(loop[Len(s)].array, 1, loop[Len(s)].kept) = Without(s, D)
<1> DEFINE a(i) == loop[i].array
           r(i) == Rank(s, D, i)
           Halfway(i) ==
             /\ loop[i].kept = r(i) /\ r(i) <= i
             /\ a(i) \in Seq(W) /\ Len(a(i)) = Len(s)
             /\ \A k \in 1..Len(s) : k > i => a(i)[k] = s[k]
             /\ \A k \in Kept(s, D) : k <= i => a(i)[r(k)] = s[k]
           S == {i \in 0..Len(s) : Halfway(i)}
           n == Cardinality(Kept(s, D))
<1>1. /\ Len(s) \in Nat /\ n \in Nat /\ Kept(s, D) \subseteq 1..Len(s)
      /\ \A i \in 0..Len(s) : r(i) \in Nat
      /\ r(0) = 0 /\ r(Len(s)) = n
      /\ \A i \in 1..Len(s) : r(i) = IF i \in Kept(s, D) THEN r(i - 1) + 1 ELSE r(i - 1)
  <2>1. Kept(s, D) \subseteq 1..Len(s)
    BY DEF Kept
  <2> QED
    BY <2>1, RankSteps
<1>2. \A i, k \in 0..Len(s) : k <= i => r(k) <= r(i)
  <2> SUFFICES ASSUME NEW i \in 0..Len(s), NEW k \in 0..Len(s), k <= i PROVE r(k) <= r(i)
    OBVIOUS
  <2>1. CASE k = i
    BY <1>1, <2>1
  <2>2. CASE k < i
    BY <2>2, RankMonotone
  <2> QED
    BY <2>1, <2>2
<1>3. \A k \in Kept(s, D) : r(k) >= 1
  <2> SUFFICES ASSUME NEW k \in Kept(s, D) PROVE r(k) >= 1
    OBVIOUS
  <2>1. r(k) = r(k - 1) + 1 /\ r(k - 1) \in Nat
    BY <1>1
  <2> QED
    BY <2>1
<1>4. Halfway(0)
  BY <1>1
<1>5. ASSUME NEW i \in Nat, i < Len(s), Halfway(i) PROVE Halfway(i + 1)
  <2> DEFINE w == a(i)[i + 1]
  <2>1. i + 1 \in 1..Len(s) /\ (i + 1) - 1 = i /\ i \in 0..Len(s)
    BY <1>1, <1>5
  <2>2. w = s[i + 1] /\ (i + 1 \in Kept(s, D) <=> w \notin D)
    BY <1>5, <2>1 DEF Kept
  <2>3. loop[i + 1] = CompactionTurn(loop[i], i + 1, D)
    BY <2>1
  <2>4. CASE w \in D
    <3>1. loop[i + 1] = loop[i] /\ r(i + 1) = r(i) /\ i + 1 \notin Kept(s, D)
      BY <1>1, <2>1, <2>2, <2>3, <2>4 DEF CompactionTurn
    <3>2. \A k \in Kept(s, D) : k <= i + 1 => k <= i
      BY <1>1, <3>1
    <3> HIDE DEF r
    <3> QED
      BY <1>1, <1>5, <2>1, <3>1, <3>2
  <2>5. CASE w \notin D
    <3>1. /\ a(i + 1) = [a(i) EXCEPT ![r(i) + 1] = s[i + 1]]
          /\ loop[i + 1].kept = r(i) + 1 /\ r(i + 1) = r(i) + 1
      BY <1>1, <1>5, <2>1, <2>2, <2>3, <2>5 DEF CompactionTurn
    <3>2. r(i) \in Nat /\ r(i) + 1 \in 1..Len(s) /\ r(i) + 1 <= i + 1
      BY <1>1, <1>5, <2>1
    <3> HIDE DEF r, a
    <3>3. s[i + 1] \in W
      BY <2>1
    <3>4. a(i) \in Seq(W) /\ Len(a(i)) = Len(s) /\ DOMAIN a(i) = 1..Len(s)
      BY <1>5
    <3>5. /\ a(i + 1) \in Seq(W) /\ Len(a(i + 1)) = Len(s)
          /\ a(i + 1)[r(i) + 1] = s[i + 1]
          /\ \A k \in 1..Len(s) : k # r(i) + 1 => a(i + 1)[k] = a(i)[k]
      <4>1. r(i) + 1 \in 1..Len(a(i))
        BY <3>2, <3>4
      <4>2. a(i + 1) = [a(i) EXCEPT ![r(i) + 1] = s[i + 1]] /\ a(i) \in Seq(W)
        BY <3>1, <3>4
      <4>3. /\ a(i + 1) \in Seq(W) /\ Len(a(i + 1)) = Len(a(i))
            /\ a(i + 1)[r(i) + 1] = s[i + 1]
            /\ \A k \in 1..Len(a(i)) : k # r(i) + 1 => a(i + 1)[k] = a(i)[k]
        <5>1. PICK old, new, c : old = a(i) /\ new = a(i + 1) /\ c = r(i) + 1
          OBVIOUS
        <5>2. /\ old \in Seq(W) /\ c \in 1..Len(old)
              /\ new = [old EXCEPT ![c] = s[i + 1]]
          BY <4>1, <4>2, <5>1
        <5>3. /\ new \in Seq(W) /\ Len(new) = Len(old) /\ new[c] = s[i + 1]
              /\ \A k \in 1..Len(old) : k # c => new[k] = old[k]
          BY <3>3, <5>2, CellWritten
        <5> QED
          BY <5>1, <5>3
      <4> QED
        BY <3>4, <4>3
    <3>6. ASSUME NEW k \in 1..Len(s), k > i + 1 PROVE a(i + 1)[k] = s[k]
      BY <1>5, <3>2, <3>5, <3>6
    <3>7. ASSUME NEW k \in Kept(s, D), k <= i + 1 PROVE a(i + 1)[r(k)] = s[k]
      <4>1. CASE k = i + 1
        BY <3>1, <3>5, <4>1
      <4>2. CASE k # i + 1
        <5>1. k <= i /\ k \in 1..Len(s) /\ k \in 0..Len(s)
          BY <1>1, <3>7, <4>2
        <5>2. r(k) <= r(i) /\ r(k) >= 1 /\ r(k) \in Nat
          BY <1>1, <1>2, <1>3, <2>1, <5>1
        <5>3. r(k) \in 1..Len(s) /\ r(k) # r(i) + 1
          BY <3>2, <5>2
        <5> QED
          BY <1>5, <3>5, <5>1, <5>3
      <4> QED
        BY <4>1, <4>2
    <3> QED
      BY <3>1, <3>2, <3>5, <3>6, <3>7
  <2> QED
    BY <2>4, <2>5
<1> HIDE DEF Halfway
<1>6. 0..Len(s) \subseteq S
  <2>1. 0 \in S
    BY <1>1, <1>4
  <2>2. \A i \in Nat : i < Len(s) /\ i \in S => i + 1 \in S
    BY <1>1, <1>5
  <2> HIDE DEF S
  <2> QED
    BY <1>1, <2>1, <2>2, UpTo
<1>7. Halfway(Len(s))
  BY <1>1, <1>6
<1> DEFINE t == a(Len(s))
           u == SubSeq(t, 1, n)
<1>8. /\ loop[Len(s)].kept = n /\ n <= Len(s)
      /\ t \in Seq(W) /\ Len(t) = Len(s)
      /\ \A k \in Kept(s, D) : t[r(k)] = s[k]
  BY <1>1, <1>7 DEF Halfway
<1> HIDE DEF t, n, r
<1>9. u = [j \in 1..n |-> t[j]]
  BY <1>1, <1>8
<1>10. ASSUME NEW j \in 1..n PROVE t[j] = Without(s, D)[j]
  <2>1. PICK k \in Kept(s, D) : r(k) = j
    BY RankOnto DEF n, r
  <2> QED
    BY <1>8, <2>1, SurvivorPlace DEF r
<1>11. Without(s, D) = [j \in 1..n |-> Without(s, D)[j]]
  BY DEF Without, n
<1> QED
  BY <1>8, <1>9, <1>10, <1>11 DEF t

\* Taking the waiter in the cell i out of the queue takes out nobody else.
LEMMA CutOutOne ==
  ASSUME NEW W, NEW s \in Seq(W), Distinct(s), NEW i \in 1..Len(s)
  PROVE  CutOut(s, i) = Without(s, {s[i]})
<1> DEFINE D == {s[i]}
           r(k) == Rank(s, D, k)
           n == Cardinality(Kept(s, D))
           place(k) == IF k < i THEN k ELSE k - 1
           S == {k \in 0..Len(s) : r(k) = place(k)}
<1>1. Len(s) \in Nat /\ DOMAIN s = 1..Len(s) /\ i \in Nat
  OBVIOUS
<1>2. Kept(s, D) = {k \in 1..Len(s) : k # i}
  BY <1>1 DEF Kept, Distinct
<1>3. /\ r(0) = 0 /\ r(Len(s)) = n
      /\ \A k \in 1..Len(s) : r(k) = IF k # i THEN r(k - 1) + 1 ELSE r(k - 1)
  BY <1>2, RankSteps
<1>4. \A k \in 0..Len(s) : r(k) = place(k)
  <2> HIDE DEF r
  <2>1. 0 \in S
    BY <1>1, <1>3
  <2>2. ASSUME NEW k \in Nat, k < Len(s), k \in S PROVE k + 1 \in S
    <3>1. k + 1 \in 1..Len(s) /\ (k + 1) - 1 = k
      BY <1>1, <2>2
    <3> QED
      BY <1>1, <1>3, <2>2, <3>1
  <2> HIDE DEF S
  <2>3. 0..Len(s) \subseteq S
    BY <1>1, <2>1, <2>2, UpTo
  <2> QED
    BY <2>3 DEF S
<1>5. n = Len(s) - 1
  <2>1. Len(s) \in 0..Len(s) /\ ~(Len(s) < i)
    BY <1>1
  <2> HIDE DEF r, n
  <2>2. r(Len(s)) = Len(s) - 1
    BY <1>4, <2>1
  <2> QED
    BY <1>3, <2>2
<1>6. ASSUME NEW j \in 1..n PROVE CutOut(s, i)[j] = Without(s, D)[j]
  <2> DEFINE k == IF j < i THEN j ELSE j + 1
  <2>1. j \in Nat /\ k \in Kept(s, D) /\ k \in 0..Len(s) /\ place(k) = j
    <3> HIDE DEF n
    <3>1. j \in 1..(Len(s) - 1)
      BY <1>5
    <3>2. k \in 1..Len(s) /\ k # i /\ place(k) = j
      BY <1>1, <3>1
    <3>3. j \in Nat /\ k \in 0..Len(s)
      BY <1>1, <3>1
    <3> HIDE DEF k, place
    <3>4. k \in Kept(s, D)
      BY <1>2, <3>2
    <3> QED
      BY <3>2, <3>3, <3>4
  <2>2. r(k) = j
    BY <1>4, <2>1
  <2>3. Without(s, D)[j] = s[k]
    <3> HIDE DEF k
    <3> QED
      BY <2>1, <2>2, SurvivorPlace
  <2> QED
    BY <1>5, <2>3 DEF CutOut
<1>7. Without(s, D) = [j \in 1..n |-> Without(s, D)[j]]
  BY DEF Without
<1>8. CutOut(s, i) = [j \in 1..n |-> CutOut(s, i)[j]]
  BY <1>5 DEF CutOut
<1> HIDE DEF n
<1> QED
  BY <1>6, <1>7, <1>8

\* The search of cancelWaiter stops at the waiter it looks for, wherever in the queue that
\* stands, and the copy over its cell leaves what CancelWaiter says is left; a search that
\* finds nobody leaves the queue alone.
THEOREM WaiterCutOut ==
  ASSUME NEW W, NEW s \in Seq(W), Distinct(s), NEW p
  PROVE  LET own == {w \in Elems(s) : w.id = p}
         IN  /\ \A i \in 1..Len(s) : s[i].id = p => Without(s, own) = CutOut(s, i)
             /\ (\A i \in 1..Len(s) : s[i].id # p) => Without(s, own) = s
<1> DEFINE own == {w \in Elems(s) : w.id = p}
<1>1. ASSUME NEW i \in 1..Len(s), s[i].id = p PROVE Without(s, own) = CutOut(s, i)
  <2>1. own = {s[i]}
    BY <1>1 DEF Elems, Distinct
  <2> HIDE DEF own
  <2> QED
    BY <2>1, CutOutOne
<1>2. ASSUME \A i \in 1..Len(s) : s[i].id # p PROVE Without(s, own) = s
  <2>1. own = {}
    BY <1>2 DEF Elems
  <2> HIDE DEF own
  <2> QED
    BY <2>1, WithoutNobody
<1> QED
  BY <1>1, <1>2

=============================================================================
