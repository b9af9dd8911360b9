---------------------------- MODULE ThinningProofs ----------------------------
(* What the loops that take some entries of a sequence return, and the least number
   of a set, on which the loops that stop at the first match rest. *)
EXTENDS Thinning, TLAPS, FiniteSetTheorems, WellFoundedInduction

\* A non-empty set of naturals has a least element.
LEMMA LeastNatural ==
    ASSUME NEW S \in SUBSET Nat, S # {}
    PROVE  \E i \in S : \A j \in S : i <= j
<1> DEFINE R == {ss \in Nat \X Nat : ss[1] < ss[2]}
<1>1. \E x \in S : \A y \in S : ~(<<y, x>> \in R)
  <2>1. IsWellFoundedOn(R, Nat)
    BY NatLessThanWellFounded DEF OpToRel
  <2> HIDE DEF R
  <2> QED
    BY <2>1, WFMin
<1>2. PICK x \in S : \A y \in S : ~(<<y, x>> \in R)
  BY <1>1
<1>3. ASSUME NEW y \in S PROVE x <= y
  <2>1. x \in Nat /\ y \in Nat
    OBVIOUS
  <2>2. ~(y < x)
    BY <1>2, <2>1
  <2> QED
    BY <2>1, <2>2
<1> QED
  BY <1>3

\* Sequence new is made of entries of s at the places kept, each taken once.
Thinned(new, s, kept) ==
    \E f \in [DOMAIN new -> kept] :
        /\ \A i, j \in DOMAIN new : f[i] = f[j] => i = j
        /\ \A i \in DOMAIN new : new[i] = s[f[i]]

\* Thin takes each entry it keeps once: the ranks of the kept places count up to their
\* number.
LEMMA ThinThins ==
    ASSUME NEW E, NEW n \in Nat, NEW s, NEW kept \in SUBSET (1 .. n),
           \A i \in kept : s[i] \in E
    PROVE  Thin(s, kept) \in Seq(E) /\ Thinned(Thin(s, kept), s, kept)
<1> DEFINE Rank(i) == Cardinality({k \in kept : k <= i})
           m == Cardinality(kept)
           at == [j \in 1 .. m |-> CHOOSE i \in kept : Rank(i) = j]
           new == [j \in 1 .. m |-> s[CHOOSE i \in kept : Rank(i) = j]]
<1>1. new = Thin(s, kept)
  BY DEF Thin
<1>2. \A i \in kept : i \in Nat
  OBVIOUS
<1>3. IsFiniteSet(kept)
  <2>1. IsFiniteSet(1 .. n)
    BY FS_Interval
  <2> QED
    BY <2>1, FS_Subset
<1>4. IsFiniteSet(kept) /\ m \in Nat
  BY <1>3, FS_CardinalityType
<1>5. ASSUME NEW i \in kept
      PROVE  /\ Rank(i) \in 1 .. m
             /\ \A j \in kept : i < j => Rank(i) < Rank(j)
  <2> DEFINE upto(j) == {k \in kept : k <= j}
  <2>1. \A j \in kept : upto(j) \in SUBSET kept /\ IsFiniteSet(upto(j)) /\ Rank(j) \in Nat
    BY <1>4, FS_Subset, FS_CardinalityType
  <2>2. Rank(i) <= m
    BY <1>4, <2>1, FS_Subset
  <2>3. Rank(i) # 0
    <3>1. i \in upto(i)
      BY <1>2
    <3> QED
      BY <2>1, <3>1, FS_EmptySet
  <2>4. ASSUME NEW j \in kept, i < j PROVE Rank(i) < Rank(j)
    <3>1. upto(i) \in SUBSET upto(j)
      <4>1. ASSUME NEW k \in kept, k <= i PROVE k <= j
        <5>1. i \in Int /\ j \in Int /\ k \in Int
          BY <1>2
        <5> QED
          BY <2>4, <4>1, <5>1
      <4> QED
        BY <4>1
    <3>2. j \in upto(j) /\ j \notin upto(i)
      BY <1>2, <2>4
    <3>3. upto(i) # upto(j)
      BY <3>2
    <3> HIDE DEF upto
    <3>4. /\ Cardinality(upto(i)) <= Cardinality(upto(j))
          /\ Cardinality(upto(j)) = Cardinality(upto(i)) => upto(j) = upto(i)
      BY <2>1, <3>1, FS_Subset
    <3>5. Cardinality(upto(i)) < Cardinality(upto(j))
      <4>1. Cardinality(upto(i)) \in Nat /\ Cardinality(upto(j)) \in Nat
        BY <2>1, FS_CardinalityType
      <4> QED
        BY <3>3, <3>4, <4>1
    <3> QED
      BY <3>5 DEF upto
  <2>5. Rank(i) \in Nat
    BY <2>1
  <2> HIDE DEF Rank
  <2>6. Rank(i) \in 1 .. m
    BY <1>4, <2>2, <2>3, <2>5
  <2> QED
    BY <2>4, <2>6
<1> DEFINE rank == [i \in kept |-> Rank(i)]
<1>6. rank \in Injection(kept, 1 .. m)
  <2> HIDE DEF Rank
  <2>1. rank \in [kept -> 1 .. m]
    BY <1>5
  <2>2. ASSUME NEW i \in kept, NEW j \in kept, rank[i] = rank[j] PROVE i = j
    <3>1. i \in Int /\ j \in Int /\ Rank(i) \in Int /\ Rank(j) \in Int
      BY <1>2, <1>4, <1>5
    <3>2. ~(i < j) /\ ~(j < i)
      BY <1>5, <2>2, <3>1
    <3> QED
      BY <3>1, <3>2
  <2> QED
    BY <2>1, <2>2 DEF Injection, IsInjective
<1>7. rank \in Surjection(kept, 1 .. m)
  <2>1. IsFiniteSet(1 .. m) /\ Cardinality(1 .. m) = m
    BY <1>4, FS_Interval
  <2> HIDE DEF rank
  <2> QED
    BY <1>6, <2>1, FS_Injection
<1>8. ASSUME NEW j \in 1 .. m PROVE at[j] \in kept /\ Rank(at[j]) = j
  <2> HIDE DEF Rank
  <2>1. \E i \in kept : rank[i] = j
    <3> HIDE DEF rank
    <3> QED
      BY <1>7 DEF Surjection
  <2> QED
    BY <2>1
<1>9. DOMAIN new = 1 .. m /\ \A j \in 1 .. m : new[j] = s[at[j]]
  OBVIOUS
<1>10. at \in [DOMAIN new -> kept]
  <2> HIDE DEF Rank
  <2> QED
    BY <1>8, <1>9
<1> HIDE DEF Rank, at, new
<1>11. Thinned(new, s, kept)
  <2>1. \A i, j \in DOMAIN new : at[i] = at[j] => i = j
    BY <1>8, <1>9
  <2>2. \A i \in DOMAIN new : new[i] = s[at[i]]
    BY <1>9
  <2> QED
    BY <1>10, <2>1, <2>2 DEF Thinned
<1>12. new \in Seq(E)
  <2>1. \A j \in 1 .. m : new[j] \in E
    BY <1>8, <1>9
  <2>2. new = [j \in 1 .. m |-> new[j]]
    BY DEF new
  <2> QED
    BY <1>4, <2>1, <2>2
<1> QED
  BY <1>1, <1>11, <1>12

=============================================================================
