------------------------------ MODULE Counting ------------------------------
(***************************************************************************)
(* Induction over an interval, and how many there are in a union of sets:  *)
(* for the proofs about the broker's limits.                               *)
(***************************************************************************)
EXTENDS Integers, FiniteSets, FiniteSetTheorems, NaturalsInduction, TLAPS

(* What holds at 0 and of each next number holds up to any number. *)
LEMMA CountingUp ==
    ASSUME NEW n \in Nat, NEW S, 0 \in S,
           \A k \in 0..n : k < n /\ k \in S => k + 1 \in S
    PROVE  \A k \in 0..n : k \in S
<1> SUFFICES ASSUME NEW j \in 0..n, j \notin S
             PROVE  FALSE
  OBVIOUS
<1> DEFINE others == {k \in 0..n : k \notin S}
<1>1. PICK least \in others : \A k \in others : ~(<<k, least>> \in OpToRel(<, Nat))
  <2>1. others \subseteq Nat /\ others # {}
    OBVIOUS
  <2> QED
    BY <2>1, NatLessThanWellFounded, WFMin
<1>2. least \in Nat /\ least # 0 /\ least - 1 \in 0..n /\ least - 1 < n
  OBVIOUS
<1>3. least - 1 \notin others
  <2>1. <<least - 1, least>> \in OpToRel(<, Nat)
    <3>1. least - 1 \in Nat /\ least \in Nat /\ least - 1 < least
      BY <1>2
    <3> QED
      BY <3>1, Zenon DEF OpToRel
  <2> QED
    BY <1>1, <2>1
<1>4. least - 1 \in S
  BY <1>2, <1>3
<1>5. least - 1 + 1 \in S
  BY <1>2, <1>4
<1> QED
  BY <1>2, <1>5

(* A union of so many sets of at most max members. *)
LEMMA UnionBound ==
    ASSUME NEW I, IsFiniteSet(I), NEW max \in Nat, NEW of,
           \A i \in I : IsFiniteSet(of[i]) /\ Cardinality(of[i]) <= max
    PROVE  /\ IsFiniteSet(UNION {of[i] : i \in I})
           /\ Cardinality(UNION {of[i] : i \in I}) <= max * Cardinality(I)
<1> DEFINE all(J) == UNION {of[i] : i \in J}
           Bounded(J) == IsFiniteSet(all(J)) /\ Cardinality(all(J)) <= max * Cardinality(J)
           S == {n \in 0..Cardinality(I) :
                    \A J \in SUBSET I : Cardinality(J) = n => Bounded(J)}
<1>1. Cardinality(I) \in Nat
  BY FS_CardinalityType
<1>2. 0 \in S
  <2>1. ASSUME NEW J \in SUBSET I, Cardinality(J) = 0
        PROVE  Bounded(J)
    <3>1. J = {}
      BY <2>1, FS_Subset, FS_EmptySet
    <3>2. all(J) = {}
      BY <3>1
    <3>3. max * 0 = 0
      OBVIOUS
    <3> QED
      BY <2>1, <3>2, <3>3, FS_EmptySet
  <2> HIDE DEF Bounded
  <2> QED
    BY <1>1, <2>1
<1>3. ASSUME NEW n \in 0..Cardinality(I), n < Cardinality(I), n \in S
      PROVE  n + 1 \in S
  <2>1. ASSUME NEW J \in SUBSET I, Cardinality(J) = n + 1
        PROVE  Bounded(J)
    <3>1. IsFiniteSet(J) /\ J # {}
      <4>1. IsFiniteSet(J)
        BY FS_Subset
      <4>2. n + 1 # 0
        BY <1>1
      <4>3. Cardinality({}) = 0
        BY FS_EmptySet
      <4> HIDE DEF S, all
      <4> QED
        BY <2>1, <4>1, <4>2, <4>3
    <3>2. PICK i \in J : TRUE
      BY <3>1
    <3> DEFINE K == J \ {i}
    <3>3. K \in SUBSET I /\ Cardinality(K) = n
      <4>1. Cardinality(J \ {i}) = Cardinality(J) - 1
        BY <3>1, <3>2, FS_RemoveElement
      <4>2. n \in Int /\ n + 1 - 1 = n
        BY <1>1
      <4> QED
        BY <2>1, <4>1, <4>2
    <3>4. Bounded(K)
      BY <1>3, <3>3
    <3>5. all(J) = all(K) \union of[i]
      BY <3>2
    <3>6. IsFiniteSet(of[i]) /\ Cardinality(of[i]) <= max
      BY <3>2
    <3> DEFINE a == all(K)
               b == of[i]
    <3>7. /\ IsFiniteSet(a \union b)
          /\ Cardinality(a \union b) = Cardinality(a) + Cardinality(b) - Cardinality(a \cap b)
      BY <3>4, <3>6, FS_Union
    <3>8. /\ Cardinality(a) \in Nat /\ Cardinality(b) \in Nat
          /\ Cardinality(a \cap b) \in Nat
      <4>1. IsFiniteSet(a) /\ IsFiniteSet(b) /\ IsFiniteSet(a \cap b)
        BY <3>4, <3>6, FS_Intersection
      <4> QED
        BY <4>1, FS_CardinalityType
    <3>9. max * (n + 1) = max * n + max /\ max * n \in Nat
      BY <1>1
    <3>10. Cardinality(a) <= max * n
      BY <3>3, <3>4
    <3> HIDE DEF all, a, b
    <3>11. Cardinality(a \union b) <= max * (n + 1)
      BY <3>6, <3>7, <3>8, <3>9, <3>10 DEF b
    <3> QED
      BY <2>1, <3>5, <3>7, <3>11 DEF a, b
  <2> HIDE DEF Bounded
  <2> QED
    BY <1>1, <1>3, <2>1
<1>4. \A n \in 0..Cardinality(I) : n \in S
  <2> HIDE DEF S
  <2> QED
    BY <1>1, <1>2, <1>3, CountingUp
<1> QED
  BY <1>1, <1>4

(* Two sets hold together at most what each of them does. *)
LEMMA TwoSets ==
    ASSUME NEW A, NEW B, IsFiniteSet(A), IsFiniteSet(B)
    PROVE  /\ IsFiniteSet(A \union B)
           /\ Cardinality(A \union B) <= Cardinality(A) + Cardinality(B)
           /\ Cardinality(A) \in Nat /\ Cardinality(B) \in Nat
           /\ Cardinality(A \union B) \in Nat
<1>1. /\ IsFiniteSet(A \union B) /\ IsFiniteSet(A \cap B)
      /\ Cardinality(A \union B) = Cardinality(A) + Cardinality(B) - Cardinality(A \cap B)
  BY FS_Union, FS_Intersection
<1>2. /\ Cardinality(A) \in Nat /\ Cardinality(B) \in Nat
      /\ Cardinality(A \cap B) \in Nat /\ Cardinality(A \union B) \in Nat
  BY <1>1, FS_CardinalityType
<1> QED
  BY <1>1, <1>2
=============================================================================
