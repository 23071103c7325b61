--------------------------- MODULE SortingProofs ---------------------------
(***************************************************************************)
(* What SortBy yields, and facts about numbers and finite sets from which  *)
(* the folds of the other modules are resolved without induction over an   *)
(* operator.                                                               *)
(***************************************************************************)
EXTENDS Sorting, Sequences, FunctionTheorems, FiniteSetTheorems, WellFoundedInduction, TLAPS

\* Every set of natural numbers that is not empty has a least element.
LEMMA LeastElement ==
  ASSUME NEW T, T \subseteq Nat, T # {}
  PROVE  \E n \in T : \A m \in T : n <= m
<1> DEFINE R == OpToRel(<, Nat)
<1>1. IsWellFoundedOn(R, Nat)
  BY NatLessThanWellFounded
<1> HIDE DEF R
<1>2. PICK n \in T : \A m \in T : ~(<<m, n>> \in R)
  BY <1>1, WFMin
<1>3. n \in Nat /\ \A m \in T : m \in Nat /\ ~(m < n)
  BY <1>2 DEF R, OpToRel
<1>4. \A m \in T : n <= m
  BY <1>3
<1> QED
  BY <1>4

\* Among the finite sets with a property there is one of which no subset of
\* one element less has it.
LEMMA SmallestSet ==
  ASSUME NEW C, C # {}, \A S \in C : IsFiniteSet(S)
  PROVE  \E S \in C : \A x \in S : S \ {x} \notin C
<1> DEFINE N == {Cardinality(S) : S \in C}
<1>1. N \subseteq Nat /\ N # {}
  BY FS_CardinalityType
<1>2. PICK n \in N : \A m \in N : n <= m
  BY <1>1, LeastElement
<1>3. PICK S \in C : Cardinality(S) = n
  BY <1>2
<1>4. ASSUME NEW x \in S, S \ {x} \in C PROVE FALSE
  <2>1. Cardinality(S \ {x}) = Cardinality(S) - 1
    BY <1>3, <1>4, FS_RemoveElement
  <2>2. Cardinality(S \ {x}) \in N
    BY <1>4
  <2> QED
    BY <1>1, <1>2, <1>3, <2>1, <2>2
<1> QED
  BY <1>3, <1>4

\* Cardinalities of disjoint parts add up.
LEMMA DisjointUnion ==
  ASSUME NEW S, NEW T, IsFiniteSet(S), IsFiniteSet(T), S \cap T = {}
  PROVE  /\ IsFiniteSet(S \cup T) /\ Cardinality(S \cup T) \in Nat
         /\ Cardinality(S \cup T) = Cardinality(S) + Cardinality(T)
<1>1. /\ Cardinality(S) \in Nat /\ Cardinality(T) \in Nat /\ Cardinality(S \cap T) = 0
  BY FS_CardinalityType, FS_EmptySet
<1>2. /\ IsFiniteSet(S \cup T)
      /\ Cardinality(S \cup T) = Cardinality(S) + Cardinality(T) - Cardinality(S \cap T)
  BY FS_Union
<1>3. Cardinality(S \cup T) \in Nat
  BY <1>2, FS_CardinalityType
<1> QED
  BY <1>1, <1>2, <1>3

-----------------------------------------------------------------------------

\* SortBy lists each element once, and in the order of the keys.
LEMMA SortByLists ==
  ASSUME NEW S, IsFiniteSet(S), NEW key, \A x \in S : key[x] \in Int,
         \A x, y \in S : key[x] = key[y] => x = y
  PROVE  /\ SortBy(S, key) \in [1 .. Cardinality(S) -> S]
         /\ Cardinality(S) \in Nat
         /\ {SortBy(S, key)[k] : k \in DOMAIN SortBy(S, key)} = S
         /\ \A i, j \in DOMAIN SortBy(S, key) :
              i < j => key[SortBy(S, key)[i]] < key[SortBy(S, key)[j]]
<1> DEFINE n == Cardinality(S)
           R == 0 .. n - 1
           rank == [x \in S |-> Cardinality(Below(S, key, x))]
<1>1. n \in Nat
  BY FS_CardinalityType
<1>2. ASSUME NEW x \in S
      PROVE  IsFiniteSet(Below(S, key, x)) /\ rank[x] \in R
  <2>1. Below(S, key, x) \subseteq S \ {x}
    BY DEF Below
  <2>2. IsFiniteSet(S \ {x}) /\ Cardinality(S \ {x}) = n - 1
    BY FS_RemoveElement
  <2>3. /\ IsFiniteSet(Below(S, key, x))
        /\ Cardinality(Below(S, key, x)) <= n - 1
    BY <2>1, <2>2, FS_Subset
  <2>4. Cardinality(Below(S, key, x)) \in Nat
    BY <2>3, FS_CardinalityType
  <2> QED
    BY <1>1, <2>3, <2>4
<1>3. ASSUME NEW x \in S, NEW y \in S, key[x] < key[y]
      PROVE  rank[x] < rank[y]
  <2>1. Below(S, key, x) \cup {x} \subseteq Below(S, key, y)
    BY <1>3 DEF Below
  <2>2. /\ IsFiniteSet(Below(S, key, x) \cup {x})
        /\ Cardinality(Below(S, key, x) \cup {x}) = rank[x] + 1
    <3>1. IsFiniteSet(Below(S, key, x)) /\ x \notin Below(S, key, x)
      BY <1>2 DEF Below
    <3> QED
      BY <3>1, FS_AddElement
  <2>3. rank[x] + 1 <= rank[y]
    BY <1>2, <2>1, <2>2, FS_Subset
  <2> QED
    BY <1>1, <1>2, <2>3
<1>4. \A x, y \in S : rank[x] = rank[y] => x = y
  <2> SUFFICES ASSUME NEW x \in S, NEW y \in S, x # y PROVE rank[x] # rank[y]
    OBVIOUS
  <2>1. key[x] < key[y] \/ key[y] < key[x]
    OBVIOUS
  <2> HIDE DEF rank
  <2> QED
    BY <1>1, <1>2, <1>3, <2>1
<1>5. \A k \in 1 .. n : \E x \in S : rank[x] = k - 1
  <2>1. rank \in Injection(S, R)
    BY <1>2, <1>4 DEF Injection, IsInjective
  <2>2. IsFiniteSet(R) /\ Cardinality(R) = n
    BY <1>1, FS_Interval
  <2>3. rank \in Surjection(S, R)
    BY <2>1, <2>2, FS_Injection
  <2>4. \A r \in R : \E x \in S : rank[x] = r
    BY <2>3 DEF Surjection
  <2> HIDE DEF rank
  <2> QED
    BY <1>1, <2>4
<1>6. \A k \in 1 .. n : SortBy(S, key)[k] \in S /\ rank[SortBy(S, key)[k]] = k - 1
  BY <1>5 DEF SortBy
<1>7. DOMAIN SortBy(S, key) = 1 .. n /\ SortBy(S, key) \in [1 .. n -> S]
  BY <1>6 DEF SortBy
<1> HIDE DEF rank
<1>8. ASSUME NEW x \in S PROVE \E k \in 1 .. n : SortBy(S, key)[k] = x
  <2>1. rank[x] + 1 \in 1 .. n
    BY <1>1, <1>2
  <2>2. rank[SortBy(S, key)[rank[x] + 1]] = rank[x]
    BY <1>1, <1>2, <1>6, <2>1
  <2> QED
    BY <1>4, <1>6, <2>1, <2>2
<1>9. ASSUME NEW i \in 1 .. n, NEW j \in 1 .. n, i < j
      PROVE  key[SortBy(S, key)[i]] < key[SortBy(S, key)[j]]
  <2> DEFINE x == SortBy(S, key)[i]
             y == SortBy(S, key)[j]
  <2>1. x \in S /\ y \in S /\ rank[x] = i - 1 /\ rank[y] = j - 1
    BY <1>6
  <2> HIDE DEF x, y
  <2>2. x # y /\ ~(key[y] < key[x])
    BY <1>1, <1>3, <1>9, <2>1
  <2>3. key[x] < key[y]
    BY <2>1, <2>2
  <2> QED
    BY <2>3 DEF x, y
<1> QED
  BY <1>1, <1>6, <1>7, <1>8, <1>9

=============================================================================
