---------------------------- MODULE NumberLemmas ----------------------------
(***************************************************************************)
(* Facts about sets of numbers that several proofs need: least and         *)
(* greatest elements, and the first n numbers of a set, which is what a    *)
(* page of a list and a batch of a queue are.                              *)
(***************************************************************************)
EXTENDS Integers, FiniteSetTheorems, WellFoundedInduction, TLAPS

\* A set of numbers has a least one.
LEMMA LeastOf ==
    ASSUME NEW T \in SUBSET Nat, T # {}
    PROVE  \E x \in T : \A y \in T : x <= y
<1>1. PICK x \in T : \A y \in T : ~(<<y, x>> \in OpToRel(<, Nat))
  BY WFMin, NatLessThanWellFounded
<1>2. ASSUME NEW y \in T PROVE x <= y
  <2>1. y < x => <<y, x>> \in OpToRel(<, Nat)
    BY DEF OpToRel
  <2>2. ~(y < x) /\ x \in Nat /\ y \in Nat
    BY <1>1, <2>1
  <2> QED BY <2>2
<1> QED BY <1>2

\* A subset of 1..n has a greatest element.
LEMMA HasGreatest ==
    ASSUME NEW n \in Nat, NEW S \in SUBSET (1..n), S # {}
    PROVE  \E m \in S : \A j \in S : j <= m
<1> DEFINE T == {x \in Nat : \E j \in S : x = n - j}
<1>1. \A j \in S : j \in Int /\ n - j \in T
  OBVIOUS
<1>2. T \in SUBSET Nat /\ T # {}
  BY <1>1
<1>3. PICK x \in T : \A y \in T : x <= y
  BY <1>2, LeastOf
<1>4. PICK m \in S : x = n - m
  OBVIOUS
<1>5. ASSUME NEW j \in S PROVE j <= m
  BY <1>1, <1>3, <1>4
<1> QED BY <1>5

\* So has a finite set of numbers: the one with the fewest above it.
LEMMA GreatestOf ==
    ASSUME NEW S \in SUBSET Nat, IsFiniteSet(S), S # {}
    PROVE  \E m \in S : \A j \in S : j <= m
<1> DEFINE Above(t) == {u \in S : u > t}
           T == {x \in Nat : \E t \in S : x = Cardinality(Above(t))}
<1>1. ASSUME NEW t \in S PROVE IsFiniteSet(Above(t)) /\ Cardinality(Above(t)) \in Nat
  <2>1. Above(t) \subseteq S
    OBVIOUS
  <2> QED BY <2>1, FS_Subset, FS_CardinalityType
<1> HIDE DEF Above
<1>2. T \in SUBSET Nat /\ T # {}
  BY <1>1
<1>3. PICK x \in T : \A y \in T : x <= y
  BY <1>2, LeastOf
<1>4. PICK m \in S : x = Cardinality(Above(m))
  OBVIOUS
<1>5. ASSUME NEW j \in S, j > m PROVE FALSE
  <2>1. Above(j) \subseteq Above(m) /\ j \in Above(m) /\ j \notin Above(j)
    <3>1. \A v \in S : v > j => v > m
      BY <1>5
    <3>2. j \in Nat /\ ~(j > j)
      BY <1>5
    <3> QED BY <1>5, <3>1, <3>2 DEF Above
  <2>2. Cardinality(Above(j)) < Cardinality(Above(m))
    <3>1. Above(j) \subseteq Above(m) \ {j}
      BY <2>1
    <3>2. IsFiniteSet(Above(m) \ {j}) /\ Cardinality(Above(m) \ {j}) = Cardinality(Above(m)) - 1
      BY <1>1, <2>1, FS_RemoveElement
    <3>3. Cardinality(Above(j)) <= Cardinality(Above(m) \ {j})
      BY <3>1, <3>2, FS_Subset
    <3> QED BY <1>1, <3>2, <3>3
  <2>3. Cardinality(Above(j)) \in T
    BY <1>1
  <2> QED BY <1>1, <1>3, <1>4, <2>2, <2>3
<1>6. ASSUME NEW j \in S PROVE j <= m
  BY <1>5
<1> QED BY <1>6

-----------------------------------------------------------------------------

\* The first n numbers of a set.
LowestOf(S, n) == {t \in S : Cardinality({u \in S : u < t}) < n}

\* The first numbers are below the others.
LEMMA LowestIsPrefix ==
    ASSUME NEW S \in SUBSET Nat, IsFiniteSet(S), NEW n \in Nat,
           NEW t \in LowestOf(S, n), NEW u \in S, u < t
    PROVE  u \in LowestOf(S, n)
<1> DEFINE Below(x) == {v \in S : v < x}
<1>1. Below(u) \subseteq Below(t) /\ Below(t) \subseteq S /\ Below(u) \subseteq S /\ t \in S
  <2>1. t \in S
    BY DEF LowestOf
  <2>2. \A v \in S : v < u => v < t
    BY <2>1
  <2> QED BY <2>1, <2>2
<1> HIDE DEF Below
<1>2. IsFiniteSet(Below(t)) /\ IsFiniteSet(Below(u)) /\ Cardinality(Below(u)) <= Cardinality(Below(t))
  BY <1>1, FS_Subset
<1>3. Cardinality(Below(t)) \in Nat /\ Cardinality(Below(u)) \in Nat
  BY <1>2, FS_CardinalityType
<1>4. Cardinality(Below(t)) < n
  BY DEF LowestOf, Below
<1> QED BY <1>2, <1>3, <1>4 DEF LowestOf, Below

\* There are n of them, unless they are all.
LEMMA LowestIsFull ==
    ASSUME NEW S \in SUBSET Nat, IsFiniteSet(S), NEW n \in Nat \ {0}, LowestOf(S, n) # S
    PROVE  Cardinality(LowestOf(S, n)) = n
<1> DEFINE P == LowestOf(S, n)
           Below(x) == {v \in S : v < x}
<1>1. P \subseteq S /\ \A t \in S : t \in P <=> Cardinality(Below(t)) < n
  BY DEF LowestOf
<1>2. IsFiniteSet(P) /\ Cardinality(P) \in Nat
  BY <1>1, FS_Subset, FS_CardinalityType
<1>3. \A t \in S : IsFiniteSet(Below(t)) /\ Cardinality(Below(t)) \in Nat
  <2>1. \A t \in S : Below(t) \subseteq S
    OBVIOUS
  <2> HIDE DEF Below
  <2> QED BY <2>1, FS_Subset, FS_CardinalityType
<1>4. PICK t \in S \ P : \A u \in S \ P : t <= u
  <2>1. S \ P \in SUBSET Nat /\ S \ P # {}
    BY <1>1
  <2> QED BY <2>1, LeastOf
<1>5. P = Below(t)
  <2>1. ASSUME NEW u \in P PROVE u < t
    <3>1. u \in S /\ u # t /\ u \in Nat /\ t \in Nat
      BY <1>1, <1>4
    <3>2. ~(t < u)
      BY <1>4, <3>1, LowestIsPrefix
    <3> QED BY <3>1, <3>2
  <2>2. ASSUME NEW u \in S, u < t PROVE u \in P
    BY <1>4, <2>2
  <2> QED BY <1>1, <2>1, <2>2
<1>6. Cardinality(P) >= n
  <2> HIDE DEF P, Below
  <2> QED BY <1>1, <1>3, <1>4, <1>5
<1>7. PICK m \in P : \A j \in P : j <= m
  <2>1. P # {} /\ P \in SUBSET Nat
    <3> HIDE DEF P
    <3> QED BY <1>1, <1>6, FS_EmptySet
  <2> QED BY <1>2, <2>1, GreatestOf
<1>8. P \ {m} \subseteq Below(m)
  <2>1. ASSUME NEW u \in P, u # m PROVE u \in S /\ u < m
    <3>1. u \in S /\ u \in Nat /\ m \in Nat /\ u <= m
      BY <1>1, <1>7
    <3> QED BY <2>1, <3>1
  <2> QED BY <2>1
<1>9. Cardinality(P) - 1 <= Cardinality(Below(m)) /\ Cardinality(Below(m)) < n /\ Cardinality(Below(m)) \in Nat
  <2> HIDE DEF P, Below
  <2>1. Cardinality(P \ {m}) = Cardinality(P) - 1
    BY <1>2, <1>7, FS_RemoveElement
  <2>2. m \in S /\ Cardinality(P \ {m}) <= Cardinality(Below(m))
    BY <1>1, <1>3, <1>7, <1>8, FS_Subset
  <2> QED BY <1>1, <1>3, <1>7, <2>1, <2>2
<1> HIDE DEF P, Below
<1>10. Cardinality(P) = n
  BY <1>2, <1>6, <1>9
<1> QED BY <1>10 DEF P
=============================================================================
