--------------------------- MODULE FiniteIntegers ---------------------------
(***************************************************************************)
(* Facts about finite sets of integers, intervals and division that the    *)
(* proofs about several components need.                                   *)
(***************************************************************************)
EXTENDS Integers, FiniteSets, FiniteSetTheorems, WellFoundedInduction, TLAPS

(***************************************************************************)
(* A finite set of integers has a least and a greatest member, because     *)
(* strict inclusion of the sets of smaller (of greater) members is well    *)
(* founded.                                                                *)
(***************************************************************************)
LEMMA HasMinimum ==
  ASSUME NEW S \in SUBSET Int, S # {}, IsFiniteSet(S)
  PROVE  \E x \in S : \A y \in S : x <= y
<1> DEFINE Below(x) == {y \in S : y < x}
           T == {Below(x) : x \in S}
<1>1. IsWellFoundedOn(StrictSubsetOrdering(S), SUBSET S)
  BY FS_StrictSubsetOrderingWellFounded, FS_FiniteSubsetsOfFinite
<1>2. T \subseteq SUBSET S /\ T # {}
  OBVIOUS
<1> HIDE DEF T
<1>3. \E t \in T : \A u \in T : ~(<<u, t>> \in StrictSubsetOrdering(S))
  BY <1>1, <1>2, WFMin, Zenon
<1>4. PICK x \in S : \A u \in T : ~(<<u, Below(x)>> \in StrictSubsetOrdering(S))
  BY <1>3 DEF T
<1>5. ASSUME NEW y \in S, y < x PROVE FALSE
  <2>1. Below(y) \in T /\ Below(y) \in SUBSET S /\ Below(x) \in SUBSET S
    BY DEF T
  <2>2. x \in Int /\ y \in Int /\ y < x
    BY <1>5
  <2>3. ASSUME NEW z \in S, z < y PROVE z < x
    <3>1. z \in Int
      OBVIOUS
    <3>2. QED
      BY <2>2, <2>3, <3>1
  <2>4. ~(y < y)
    BY <2>2
  <2>5. Below(y) \subseteq Below(x) /\ y \in Below(x) /\ y \notin Below(y)
    <3>1. Below(y) \subseteq Below(x)
      BY <2>3, Zenon
    <3>2. y \in Below(x)
      BY <2>2, Zenon
    <3>3. y \notin Below(y)
      BY <2>4, Zenon
    <3>4. QED
      BY <3>1, <3>2, <3>3
  <2>6. <<Below(y), Below(x)>> \in StrictSubsetOrdering(S)
    BY <2>1, <2>5 DEF StrictSubsetOrdering
  <2>7. QED
    BY <1>4, <2>1, <2>6
<1>6. QED
  BY <1>5

LEMMA HasMaximum ==
  ASSUME NEW S \in SUBSET Int, S # {}, IsFiniteSet(S)
  PROVE  \E x \in S : \A y \in S : x >= y
<1> DEFINE Above(x) == {y \in S : y > x}
           T == {Above(x) : x \in S}
<1>1. IsWellFoundedOn(StrictSubsetOrdering(S), SUBSET S)
  BY FS_StrictSubsetOrderingWellFounded, FS_FiniteSubsetsOfFinite
<1>2. T \subseteq SUBSET S /\ T # {}
  OBVIOUS
<1> HIDE DEF T
<1>3. \E t \in T : \A u \in T : ~(<<u, t>> \in StrictSubsetOrdering(S))
  BY <1>1, <1>2, WFMin, Zenon
<1>4. PICK x \in S : \A u \in T : ~(<<u, Above(x)>> \in StrictSubsetOrdering(S))
  BY <1>3 DEF T
<1>5. ASSUME NEW y \in S, y > x PROVE FALSE
  <2>1. Above(y) \in T /\ Above(y) \in SUBSET S /\ Above(x) \in SUBSET S
    BY DEF T
  <2>2. x \in Int /\ y \in Int /\ y > x
    BY <1>5
  <2>3. ASSUME NEW z \in S, z > y PROVE z > x
    <3>1. z \in Int
      OBVIOUS
    <3>2. QED
      BY <2>2, <2>3, <3>1
  <2>4. ~(y > y)
    BY <2>2
  <2>5. Above(y) \subseteq Above(x) /\ y \in Above(x) /\ y \notin Above(y)
    <3>1. Above(y) \subseteq Above(x)
      BY <2>3, Zenon
    <3>2. y \in Above(x)
      BY <2>2, Zenon
    <3>3. y \notin Above(y)
      BY <2>4, Zenon
    <3>4. QED
      BY <3>1, <3>2, <3>3
  <2>6. <<Above(y), Above(x)>> \in StrictSubsetOrdering(S)
    BY <2>1, <2>5 DEF StrictSubsetOrdering
  <2>7. QED
    BY <1>4, <2>1, <2>6
<1>6. QED
  BY <1>5

(***************************************************************************)
(* The k first members of a set of at least k integers are k.  (A decoder  *)
(* takes the first k frames it holds.)                                     *)
(***************************************************************************)
LEMMA FirstMembers ==
  ASSUME NEW S \in SUBSET Int, IsFiniteSet(S), NEW k \in Nat, Cardinality(S) >= k
  PROVE  Cardinality({i \in S : Cardinality({j \in S : j < i}) < k}) = k
<1> DEFINE Closed(M) == \A m \in M : \A j \in S : j < m => j \in M
           T == {M \in SUBSET S : Cardinality(M) >= k /\ Closed(M)}
           First == {i \in S : Cardinality({j \in S : j < i}) < k}
<1>1. \A M \in SUBSET S : IsFiniteSet(M) /\ Cardinality(M) \in Nat
  BY FS_Subset, FS_CardinalityType
<1>2. S \in T
  OBVIOUS
<1>3. IsWellFoundedOn(StrictSubsetOrdering(S), SUBSET S)
  BY FS_StrictSubsetOrderingWellFounded, FS_FiniteSubsetsOfFinite
<1>4. T \subseteq SUBSET S /\ T # {}
  BY <1>2
<1> HIDE DEF T
<1>5. PICK M \in T : \A U \in T : ~(<<U, M>> \in StrictSubsetOrdering(S))
  BY <1>3, <1>4, WFMin, Zenon
<1>6. M \in SUBSET S /\ Cardinality(M) >= k /\ Closed(M)
  BY DEF T
<1> HIDE DEF Closed
<1>7. Cardinality(M) = k
  <2> SUFFICES ASSUME Cardinality(M) # k PROVE FALSE
    OBVIOUS
  <2>1. Cardinality(M) > k /\ M \in SUBSET Int /\ IsFiniteSet(M) /\ Cardinality(M) \in Nat
    BY <1>1, <1>6
  <2>2. M # {}
    BY <2>1, FS_EmptySet
  <2>3. PICK x \in M : \A y \in M : x >= y
    BY <2>1, <2>2, HasMaximum, Zenon
  <2> DEFINE U == M \ {x}
  <2>4. Cardinality(U) = Cardinality(M) - 1
    BY <2>1, FS_RemoveElement
  <2>5. \A m \in U : \A j \in S : j < m => j \in U
    <3>1. \A m \in U : m <= x /\ m \in Int /\ m \in M
      BY <2>1, <2>3
    <3>2. ~(x < x) /\ x \in Int
      BY <2>1
    <3>3. \A m \in U : \A j \in S : j < m => j \in M
      BY <1>6, <3>1 DEF Closed
    <3>4. \A m \in U : \A j \in S : j < m => j # x
      BY <3>1, <3>2
    <3>5. QED
      BY <3>3, <3>4
  <2>6. Cardinality(U) >= k
    BY <2>1, <2>4
  <2>7. U \in T
    <3>1. U \in SUBSET S
      BY <1>6
    <3>2. QED
      BY <2>5, <2>6, <3>1 DEF T, Closed
  <2>8. <<U, M>> \in StrictSubsetOrdering(S)
    BY <1>6 DEF StrictSubsetOrdering
  <2>9. QED
    BY <1>5, <2>7, <2>8
<1>8. ASSUME NEW i \in M PROVE i \in First
  <2> DEFINE P == {j \in S : j < i}
  <2>1. i \in Int /\ ~(i < i)
    BY <1>6
  <2>2. P \subseteq M /\ i \notin P
    BY <1>6, <2>1 DEF Closed
  <2>3. IsFiniteSet(M) /\ IsFiniteSet(P) /\ Cardinality(P) \in Nat
    BY <1>1, <1>6
  <2>4. Cardinality(P \cup {i}) = Cardinality(P) + 1
    BY <2>2, <2>3, FS_AddElement
  <2>5. P \cup {i} \in SUBSET M
    BY <2>2
  <2>6. Cardinality(P \cup {i}) <= Cardinality(M)
    BY <2>3, <2>5, FS_Subset
  <2>7. Cardinality(P) < k
    BY <1>7, <2>3, <2>4, <2>6
  <2>8. QED
    BY <1>6, <2>7
<1>9. ASSUME NEW i \in First, i \notin M PROVE FALSE
  <2> DEFINE P == {j \in S : j < i}
  <2>1. M \subseteq P
    <3>1. SUFFICES ASSUME NEW m \in M PROVE m < i
      BY <1>6
    <3>2. ~(i < m)
      BY <1>6, <1>9 DEF Closed
    <3>3. m \in Int /\ i \in Int /\ m # i
      BY <1>6, <1>9
    <3>4. QED
      BY <3>2, <3>3
  <2>2. IsFiniteSet(P) /\ Cardinality(P) \in Nat
    BY <1>1
  <2>3. Cardinality(M) <= Cardinality(P)
    BY <2>1, <2>2, FS_Subset
  <2>4. Cardinality(P) < k
    OBVIOUS
  <2>5. QED
    BY <1>7, <2>2, <2>3, <2>4
<1>10. First = M
  <2>1. \A i \in M : i \in First
    BY <1>8
  <2>2. \A i \in First : i \in M
    BY <1>9
  <2> HIDE DEF First
  <2>3. QED
    BY <2>1, <2>2
<1>11. QED
  BY <1>7, <1>10

\* A set moved along the integers has as many members.
LEMMA Shifted ==
  ASSUME NEW S \in SUBSET Int, IsFiniteSet(S), NEW d \in Int
  PROVE  /\ IsFiniteSet({d + i : i \in S})
         /\ Cardinality({d + i : i \in S}) = Cardinality(S)
<1> DEFINE T == {d + i : i \in S}
           f == [i \in S |-> d + i]
<1>1. f \in Bijection(S, T)
  <2>1. f \in Injection(S, T)
    <3>1. \A i, j \in S : d + i = d + j => i = j
      OBVIOUS
    <3>2. QED
      BY <3>1 DEF Injection, IsInjective
  <2>2. f \in Surjection(S, T)
    BY DEF Surjection
  <2>3. QED
    BY <2>1, <2>2 DEF Bijection
<1> HIDE DEF f, T
<1>2. ExistsBijection(S, T)
  BY <1>1 DEF ExistsBijection
<1>3. QED
  BY <1>2, FS_Bijection DEF T

\* Quotient and remainder, and the only way to write a number with them.
LEMMA Division ==
  ASSUME NEW m \in Nat \ {0}, NEW n \in Nat
  PROVE  /\ n \div m \in Nat /\ n % m \in 0..(m - 1)
         /\ n = m * (n \div m) + (n % m)
  OBVIOUS

LEMMA DivisionUnique ==
  ASSUME NEW m \in Nat \ {0}, NEW q \in Nat, NEW r \in 0..(m - 1)
  PROVE  (q * m + r) \div m = q /\ (q * m + r) % m = r
  OBVIOUS

=============================================================================
