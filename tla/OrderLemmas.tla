---------------------------- MODULE OrderLemmas ----------------------------
(***************************************************************************)
(* Facts about orders the proofs share: sets of numbers have a least and,  *)
(* when bounded, a greatest member, and a finite set can be listed along   *)
(* an order of its members.  They replace induction, which the provers     *)
(* cannot apply.                                                           *)
(***************************************************************************)
EXTENDS Integers, FiniteSets, FiniteSetTheorems, FunctionTheorems, WellFoundedInduction, TLAPS

\* The interval below a least member has no smaller one inside.
LEMMA LeastNatural ==
  ASSUME NEW T \in SUBSET Nat, T # {}
  PROVE  \E m \in T : \A k \in T : m <= k
  <1> DEFINE below == {0 .. k : k \in T}
  <1>1. below \subseteq FiniteSubsetsOf(Nat)
    <2> SUFFICES ASSUME NEW k \in T
                 PROVE  0 .. k \in FiniteSubsetsOf(Nat)
      OBVIOUS
    <2>1. IsFiniteSet(0 .. k)
      BY FS_Interval
    <2> QED
      BY <2>1 DEF FiniteSubsetsOf
  <1>2. below # {}
    OBVIOUS
  <1>3. IsWellFoundedOn(StrictSubsetOrdering(Nat), FiniteSubsetsOf(Nat))
    BY FS_StrictSubsetOrderingWellFounded
  <1>4. PICK x \in below : \A y \in below : <<y, x>> \notin StrictSubsetOrdering(Nat)
    <2> HIDE DEF below
    <2> QED
      BY <1>1, <1>2, <1>3, WFMin
  <1>5. PICK m \in T : x = 0 .. m
    BY <1>4
  <1>6. ASSUME NEW k \in T, k < m
        PROVE  FALSE
    <2>1. 0 .. k \in below
      OBVIOUS
    <2>2. 0 .. k \subseteq 0 .. m /\ m \notin 0 .. k /\ m \in 0 .. m
      BY <1>6
    <2>3. <<0 .. k, 0 .. m>> \in StrictSubsetOrdering(Nat)
      BY <2>2 DEF StrictSubsetOrdering
    <2> QED
      BY <1>4, <1>5, <2>1, <2>3
  <1> QED
    BY <1>6

\* The greatest member is as far below the bound as possible.
LEMMA GreatestNatural ==
  ASSUME NEW n \in Nat, NEW T \in SUBSET (0 .. n), T # {}
  PROVE  \E m \in T : \A k \in T : k <= m
  <1> DEFINE D == {n - k : k \in T}
  <1>1. D \in SUBSET Nat /\ D # {}
    <2>1. \A k \in T : k \in 0 .. n
      OBVIOUS
    <2>2. \A k \in 0 .. n : n - k \in Nat
      OBVIOUS
    <2> QED
      BY <2>1, <2>2
  <1>2. PICK d \in D : \A e \in D : d <= e
    <2> HIDE DEF D
    <2> QED
      BY <1>1, LeastNatural
  <1>3. PICK m \in T : d = n - m
    BY <1>2
  <1>4. \A k \in T : n - m <= n - k
    BY <1>2, <1>3
  <1>5. \A k, l \in 0 .. n : n - l <= n - k => k <= l
    OBVIOUS
  <1> QED
    BY <1>4, <1>5

-----------------------------------------------------------------------------

\* R orders the members of S one before the other.
Orders(R, S) ==
  /\ \A x \in S : <<x, x>> \notin R
  /\ \A x, y \in S : x # y => <<x, y>> \in R \/ <<y, x>> \in R
  /\ \A x, y, z \in S : <<x, y>> \in R /\ <<y, z>> \in R => <<x, z>> \in R

\* s lists as many members of S as S has, each before the next.
Lists(s, R, S) ==
  /\ s \in [1 .. Cardinality(S) -> S]
  /\ \A i, j \in 1 .. Cardinality(S) : i < j => <<s[i], s[j]>> \in R

\* A list along an order has every member of the set, once.
LEMMA ListIsBijection ==
  ASSUME NEW S, IsFiniteSet(S), NEW R, Orders(R, S), NEW s, Lists(s, R, S)
  PROVE  /\ \A x \in S : \E i \in 1 .. Cardinality(S) : s[i] = x
         /\ \A i, j \in 1 .. Cardinality(S) : s[i] = s[j] => i = j
  <1> DEFINE n == Cardinality(S)
             D == 1 .. n
  <1>1. n \in Nat
    BY FS_CardinalityType
  <1>2. s \in [D -> S] /\ \A i, j \in D : i < j => <<s[i], s[j]>> \in R
    BY DEF Lists
  <1> HIDE DEF n
  <1>3. \A i, j \in D : s[i] = s[j] => i = j
    <2> SUFFICES ASSUME NEW i \in D, NEW j \in D, s[i] = s[j], i # j
                 PROVE  FALSE
      OBVIOUS
    <2>1. i < j \/ j < i
      BY <1>1
    <2>2. <<s[i], s[i]>> \in R
      BY <1>2, <2>1
    <2> QED
      BY <1>2, <2>2 DEF Orders
  <1>4. s \in Injection(D, S)
    BY <1>2, <1>3 DEF Injection, IsInjective
  <1>5. IsFiniteSet(D) /\ Cardinality(D) = n
    BY <1>1, FS_Interval
  <1>6. s \in Surjection(D, S)
    BY <1>4, <1>5, FS_Injection DEF n
  <1>7. \A x \in S : \E i \in D : s[i] = x
    BY <1>6 DEF Surjection
  <1> QED
    BY <1>3, <1>7 DEF n

\* Such a list exists: the place of a member is the number of those up to it.
LEMMA ListExists ==
  ASSUME NEW S, IsFiniteSet(S), NEW R, Orders(R, S)
  PROVE  \E s : Lists(s, R, S)
  <1> DEFINE n == Cardinality(S)
             D == 1 .. n
             upTo(x) == {y \in S : y = x \/ <<y, x>> \in R}
             rank == [x \in S |-> Cardinality(upTo(x))]
  <1>1. n \in Nat
    BY FS_CardinalityType
  <1>2. \A x \in S : IsFiniteSet(upTo(x)) /\ Cardinality(upTo(x)) \in D
    <2> SUFFICES ASSUME NEW x \in S
                 PROVE  IsFiniteSet(upTo(x)) /\ Cardinality(upTo(x)) \in D
      OBVIOUS
    <2>1. upTo(x) \in SUBSET S /\ x \in upTo(x)
      OBVIOUS
    <2> HIDE DEF upTo
    <2>2. IsFiniteSet(upTo(x)) /\ Cardinality(upTo(x)) <= n
      BY <2>1, FS_Subset
    <2>3. Cardinality(upTo(x)) \in Nat /\ Cardinality(upTo(x)) # 0
      BY <2>1, <2>2, FS_CardinalityType, FS_EmptySet
    <2> HIDE DEF n
    <2> QED
      BY <1>1, <2>2, <2>3
  <1>3. \A x, y \in S : <<x, y>> \in R => rank[x] < rank[y]
    <2> SUFFICES ASSUME NEW x \in S, NEW y \in S, <<x, y>> \in R
                 PROVE  Cardinality(upTo(x)) < Cardinality(upTo(y))
      OBVIOUS
    <2>1. upTo(x) \in SUBSET upTo(y) /\ y \in upTo(y)
      BY DEF Orders
    <2>2. y \notin upTo(x)
      BY DEF Orders
    <2> HIDE DEF upTo
    <2>3. IsFiniteSet(upTo(y)) /\ Cardinality(upTo(y)) \in Nat /\ Cardinality(upTo(x)) \in Nat
      BY <1>1, <1>2
    <2>4. Cardinality(upTo(x)) <= Cardinality(upTo(y))
      BY <2>1, <2>3, FS_Subset
    <2>5. Cardinality(upTo(y)) # Cardinality(upTo(x))
      BY <2>1, <2>2, <2>3, FS_Subset
    <2> QED
      BY <2>3, <2>4, <2>5
  <1>4. rank \in [S -> D]
    BY <1>2
  <1> HIDE DEF rank, upTo
  <1>5. \A x, y \in S : rank[x] = rank[y] => x = y
    <2> SUFFICES ASSUME NEW x \in S, NEW y \in S, rank[x] = rank[y], x # y
                 PROVE  FALSE
      OBVIOUS
    <2>1. rank[x] < rank[y] \/ rank[y] < rank[x]
      BY <1>3 DEF Orders
    <2>2. rank[x] \in Nat /\ rank[y] \in Nat
      BY <1>1, <1>4
    <2> QED
      BY <2>1, <2>2
  <1>6. rank \in Injection(S, D)
    BY <1>4, <1>5 DEF Injection, IsInjective
  <1>7. IsFiniteSet(D) /\ Cardinality(D) = n
    <2> HIDE DEF n
    <2> QED
      BY <1>1, FS_Interval
  <1>8. rank \in Surjection(S, D)
    BY <1>6, <1>7, FS_Injection
  <1>9. \A i \in D : \E x \in S : rank[x] = i
    BY <1>8 DEF Surjection
  <1> DEFINE s == [i \in D |-> CHOOSE x \in S : rank[x] = i]
  <1>10. \A i \in D : s[i] \in S /\ rank[s[i]] = i
    BY <1>9
  <1>11. s \in [D -> S]
    BY <1>10
  <1> HIDE DEF s
  <1>12. ASSUME NEW i \in D, NEW j \in D, i < j
         PROVE  <<s[i], s[j]>> \in R
    <2>1. s[i] \in S /\ s[j] \in S /\ rank[s[i]] = i /\ rank[s[j]] = j /\ i # j
      BY <1>1, <1>10, <1>12
    <2>2. <<s[j], s[i]>> \in R => j < i
      BY <1>3, <2>1
    <2>3. ~(j < i)
      BY <1>1, <1>12
    <2> QED
      BY <2>1, <2>2, <2>3 DEF Orders
  <1>13. Lists(s, R, S)
    BY <1>11, <1>12 DEF Lists, n
  <1> QED
    BY <1>13
=============================================================================
