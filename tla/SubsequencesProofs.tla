------------------------- MODULE SubsequencesProofs ---------------------------
(***************************************************************************)
(* What Rank, Nth and Kept are, for any finite set of numbers and any      *)
(* list.  Everything rests on one count: an ascending enumeration of a set *)
(* without gaps gives its n-th member rank n, so there is only one.        *)
(***************************************************************************)
EXTENDS Subsequences, Sequences, SequenceTheorems, FiniteSetTheorems, TLAPS

(* Ranks are ascending, without gaps and without repetition. *)
LEMMA RankFacts ==
    ASSUME NEW I \in SUBSET Nat, IsFiniteSet(I)
    PROVE  /\ Cardinality(I) \in Nat
           /\ \A i \in I : Rank(i, I) \in 1..Cardinality(I)
           /\ \A i, j \in I : i < j => Rank(i, I) < Rank(j, I)
           /\ \A k \in 1..Cardinality(I) : \E i \in I : Rank(i, I) = k
<1> DEFINE Below(i) == {j \in I : j <= i}
           m == Cardinality(I)
<1>1. m \in Nat
  BY FS_CardinalityType
<1>2. ASSUME NEW i \in I
      PROVE  /\ IsFiniteSet(Below(i)) /\ Cardinality(Below(i)) \in Nat
             /\ Cardinality(Below(i)) <= m /\ Cardinality(Below(i)) # 0
  <2>1. Below(i) \in SUBSET I /\ i \in Below(i)
    OBVIOUS
  <2>2. IsFiniteSet(Below(i)) /\ Cardinality(Below(i)) <= m
    BY <2>1, FS_Subset
  <2>3. Cardinality(Below(i)) \in Nat
    BY <2>2, FS_CardinalityType
  <2>4. Below(i) # {}
    BY <2>1
  <2>5. Cardinality(Below(i)) # 0
    BY <2>2, <2>4, FS_EmptySet
  <2> QED
    BY <2>2, <2>3, <2>5
<1>3. \A i \in I : Rank(i, I) \in 1..m
  <2> SUFFICES ASSUME NEW i \in I
               PROVE  Rank(i, I) \in 1..m
    OBVIOUS
  <2>1. Rank(i, I) = Cardinality(Below(i))
    BY DEF Rank
  <2> HIDE DEF Below, m
  <2> QED
    BY <1>1, <1>2, <2>1
<1>4. ASSUME NEW i \in I, NEW j \in I, i < j
      PROVE  Rank(i, I) < Rank(j, I)
  <2>0. i \in Nat /\ j \in Nat
    OBVIOUS
  <2>1. Below(i) \in SUBSET Below(j) /\ j \in Below(j) /\ j \notin Below(i)
    <3>1. \A n \in I : n <= i => n <= j
      BY <1>4, <2>0
    <3>2. j <= j /\ ~(j <= i)
      BY <1>4, <2>0
    <3> QED
      BY <3>1, <3>2
  <2>2. IsFiniteSet(Below(j)) /\ Cardinality(Below(i)) \in Nat /\ Cardinality(Below(j)) \in Nat
    BY <1>2
  <2>3. Cardinality(Below(i)) <= Cardinality(Below(j)) /\ Cardinality(Below(i)) # Cardinality(Below(j))
    BY <2>1, <2>2, FS_Subset
  <2>4. Rank(i, I) = Cardinality(Below(i)) /\ Rank(j, I) = Cardinality(Below(j))
    BY DEF Rank
  <2> HIDE DEF Below
  <2> QED
    BY <2>2, <2>3, <2>4
<1>5. \A k \in 1..m : \E i \in I : Rank(i, I) = k
  <2> DEFINE f == [i \in I |-> Rank(i, I)]
  <2>1. f \in [I -> 1..m]
    BY <1>3
  <2>2. \A i, j \in I : f[i] = f[j] => i = j
    <3>1. ASSUME NEW i \in I, NEW j \in I, Rank(i, I) = Rank(j, I), i # j
          PROVE  FALSE
      <4>1. i < j \/ j < i
        BY <3>1
      <4>2. Rank(i, I) < Rank(j, I) \/ Rank(j, I) < Rank(i, I)
        BY <1>4, <4>1
      <4>3. Rank(i, I) \in Nat
        BY <1>1, <1>3
      <4> QED
        BY <3>1, <4>2, <4>3
    <3> QED
      BY <3>1
  <2>3. f \in Injection(I, 1..m)
    BY <2>1, <2>2 DEF Injection, IsInjective
  <2>4. IsFiniteSet(1..m) /\ Cardinality(1..m) = m
    BY <1>1, FS_Interval
  <2>5. f \in Surjection(I, 1..m)
    BY <2>3, <2>4, FS_Injection
  <2> QED
    BY <2>5 DEF Surjection
<1> QED
  BY <1>1, <1>3, <1>4, <1>5

(* Nth(k, I) is the member of rank k. *)
LEMMA NthFacts ==
    ASSUME NEW I \in SUBSET Nat, IsFiniteSet(I)
    PROVE  /\ \A k \in 1..Cardinality(I) : Nth(k, I) \in I /\ Rank(Nth(k, I), I) = k
           /\ \A i \in I : Nth(Rank(i, I), I) = i
           /\ \A k, l \in 1..Cardinality(I) : k < l => Nth(k, I) < Nth(l, I)
<1>1. \A k \in 1..Cardinality(I) : Nth(k, I) \in I /\ Rank(Nth(k, I), I) = k
  BY RankFacts DEF Nth
<1>2. \A i, j \in I : Rank(i, I) = Rank(j, I) => i = j
  <2> SUFFICES ASSUME NEW i \in I, NEW j \in I, Rank(i, I) = Rank(j, I), i # j
               PROVE  FALSE
    OBVIOUS
  <2>1. i < j \/ j < i
    OBVIOUS
  <2>2. Rank(i, I) \in Nat /\ Rank(j, I) \in Nat
    BY RankFacts
  <2> QED
    BY <2>1, <2>2, RankFacts
<1>3. \A i \in I : Nth(Rank(i, I), I) = i
  BY <1>1, <1>2, RankFacts
<1>4. ASSUME NEW k \in 1..Cardinality(I), NEW l \in 1..Cardinality(I), k < l
      PROVE  Nth(k, I) < Nth(l, I)
  <2> DEFINE a == Nth(k, I)
             b == Nth(l, I)
  <2>1. a \in I /\ b \in I /\ Rank(a, I) = k /\ Rank(b, I) = l
    BY <1>1
  <2> HIDE DEF a, b
  <2>2. b < a => l < k
    BY <2>1, RankFacts
  <2>3. a # b
    BY <2>1, <1>4
  <2>4. k \in Nat /\ l \in Nat /\ a \in Nat /\ b \in Nat
    BY <2>1, RankFacts
  <2>5. a < b
    BY <2>2, <2>3, <2>4, <1>4
  <2> QED
    BY <2>5 DEF a, b
<1> QED
  BY <1>1, <1>3, <1>4

(* An ascending enumeration of a set is the one by rank. *)
LEMMA Enumeration ==
    ASSUME NEW I \in SUBSET Nat, NEW m \in Nat, NEW f \in [1..m -> I],
           \A k, l \in 1..m : k < l => f[k] < f[l],
           \A i \in I : \E k \in 1..m : f[k] = i
    PROVE  /\ IsFiniteSet(I) /\ Cardinality(I) = m
           /\ \A k \in 1..m : f[k] = Nth(k, I)
<1>0. \A k, l \in 1..m : f[k] <= f[l] <=> k <= l
  <2> SUFFICES ASSUME NEW k \in 1..m, NEW l \in 1..m
               PROVE  f[k] <= f[l] <=> k <= l
    OBVIOUS
  <2>1. f[k] \in Nat /\ f[l] \in Nat
    OBVIOUS
  <2>2. (k < l => f[k] < f[l]) /\ (l < k => f[l] < f[k])
    OBVIOUS
  <2> QED
    BY <2>1, <2>2
<1>1. ASSUME NEW k \in 1..m, NEW l \in 1..m, f[k] = f[l]
      PROVE  k = l
  <2>0. f[k] \in Nat
    OBVIOUS
  <2>1. f[k] <= f[l] /\ f[l] <= f[k]
    BY <1>1, <2>0
  <2> QED
    BY <1>0, <2>1
<1>2. f \in Bijection(1..m, I)
  BY <1>1 DEF Bijection, Injection, Surjection, IsInjective
<1>3. ExistsBijection(1..m, I)
  BY <1>2 DEF ExistsBijection
<1>4. IsFiniteSet(I)
  BY <1>3, FS_NatBijection
<1>5. Cardinality(I) = m
  BY <1>3, FS_CountingElements
<1>6. ASSUME NEW k \in 1..m
      PROVE  f[k] = Nth(k, I)
  <2> DEFINE B == {j \in I : j <= f[k]}
             g == [l \in 1..k |-> f[l]]
  <2>1. g \in [1..k -> B]
    BY <1>0
  <2>2. \A l, n \in 1..k : g[l] = g[n] => l = n
    BY <1>1
  <2>3. \A j \in B : \E l \in 1..k : g[l] = j
    <3> SUFFICES ASSUME NEW j \in B
                 PROVE  \E l \in 1..k : g[l] = j
      OBVIOUS
    <3>1. PICK l \in 1..m : f[l] = j
      OBVIOUS
    <3>2. l <= k
      BY <1>0, <3>1
    <3>3. l \in 1..k
      BY <3>2
    <3> QED
      BY <3>1, <3>3
  <2>4. g \in Bijection(1..k, B)
    BY <2>1, <2>2, <2>3 DEF Bijection, Injection, Surjection, IsInjective
  <2>5. ExistsBijection(1..k, B)
    BY <2>4 DEF ExistsBijection
  <2>6. Cardinality(B) = k
    <3>1. k \in Nat
      OBVIOUS
    <3> QED
      BY <2>5, <3>1, FS_CountingElements
  <2>7. Rank(f[k], I) = k
    BY <2>6 DEF Rank
  <2>8. f[k] \in I
    OBVIOUS
  <2> QED
    BY <1>4, <2>7, <2>8, NthFacts
<1> QED
  BY <1>4, <1>5, <1>6

LEMMA KeptFacts ==
    ASSUME NEW S, NEW list \in Seq(S), NEW I \in SUBSET DOMAIN list
    PROVE  /\ I \in SUBSET Nat /\ IsFiniteSet(I) /\ Cardinality(I) \in Nat
           /\ Kept(list, I) \in Seq(S)
           /\ Len(Kept(list, I)) = Cardinality(I) /\ DOMAIN Kept(list, I) = 1..Cardinality(I)
           /\ \A k \in 1..Cardinality(I) : Nth(k, I) \in I /\ Kept(list, I)[k] = list[Nth(k, I)]
           /\ Cardinality(I) <= Len(list)
<1>1. Len(list) \in Nat /\ DOMAIN list = 1..Len(list) /\ \A i \in 1..Len(list) : list[i] \in S
  OBVIOUS
<1>2. IsFiniteSet(1..Len(list)) /\ Cardinality(1..Len(list)) = Len(list)
  BY <1>1, FS_Interval
<1>3. I \in SUBSET Nat /\ IsFiniteSet(I) /\ Cardinality(I) <= Len(list)
  BY <1>1, <1>2, FS_Subset
<1>4. Cardinality(I) \in Nat
  BY <1>3, FS_CardinalityType
<1>5. \A k \in 1..Cardinality(I) : Nth(k, I) \in I
  BY <1>3, NthFacts
<1>6. Kept(list, I) = [k \in 1..Cardinality(I) |-> list[Nth(k, I)]]
  BY DEF Kept
<1>7. Kept(list, I) \in [1..Cardinality(I) -> S]
  BY <1>1, <1>5, <1>6
<1>8. Kept(list, I) \in Seq(S)
  BY <1>4, <1>7
<1>9. Len(Kept(list, I)) = Cardinality(I)
  BY <1>4, <1>7, <1>8
<1> QED
  BY <1>3, <1>4, <1>5, <1>6, <1>8, <1>9

(* To keep some of what was kept is to keep fewer. *)
LEMMA KeptTwice ==
    ASSUME NEW S, NEW list \in Seq(S), NEW I \in SUBSET DOMAIN list,
           NEW J \in SUBSET (1..Cardinality(I))
    PROVE  Kept(Kept(list, I), J) = Kept(list, {Nth(j, I) : j \in J})
<1> DEFINE K == {Nth(j, I) : j \in J}
           m == Cardinality(J)
           f == [k \in 1..m |-> Nth(Nth(k, J), I)]
<1>1. /\ I \in SUBSET Nat /\ IsFiniteSet(I) /\ Kept(list, I) \in Seq(S)
      /\ DOMAIN Kept(list, I) = 1..Cardinality(I)
      /\ \A k \in 1..Cardinality(I) : Nth(k, I) \in I /\ Kept(list, I)[k] = list[Nth(k, I)]
  BY KeptFacts
<1>2. J \in SUBSET DOMAIN Kept(list, I)
  BY <1>1
<1>3. J \in SUBSET Nat /\ IsFiniteSet(J) /\ m \in Nat /\ \A k \in 1..m : Nth(k, J) \in J
  <2> DEFINE once == Kept(list, I)
  <2>1. once \in Seq(S) /\ J \in SUBSET DOMAIN once
    BY <1>1, <1>2
  <2> HIDE DEF once
  <2> QED
    BY <2>1, KeptFacts
<1>4. K \in SUBSET DOMAIN list
  BY <1>1
<1>5. f \in [1..m -> K]
  BY <1>3
<1>6. ASSUME NEW k \in 1..m, NEW l \in 1..m, k < l
      PROVE  f[k] < f[l]
  <2>1. Nth(k, J) < Nth(l, J)
    BY <1>3, <1>6, NthFacts
  <2>2. Nth(k, J) \in 1..Cardinality(I) /\ Nth(l, J) \in 1..Cardinality(I)
    BY <1>3
  <2>3. Nth(Nth(k, J), I) < Nth(Nth(l, J), I)
    BY <1>1, <2>1, <2>2, NthFacts
  <2> QED
    BY <2>3
<1>7. \A i \in K : \E k \in 1..m : f[k] = i
  <2> SUFFICES ASSUME NEW j \in J
               PROVE  \E k \in 1..m : f[k] = Nth(j, I)
    OBVIOUS
  <2>1. Rank(j, J) \in 1..m /\ Nth(Rank(j, J), J) = j
    BY <1>3, RankFacts, NthFacts
  <2> QED
    BY <2>1
<1> HIDE DEF m
<1>8. Kept(list, K) = [k \in 1..m |-> list[f[k]]]
  <2>1. m \in Nat /\ \A k, l \in 1..m : k < l => f[k] < f[l]
    BY <1>3, <1>6
  <2> HIDE DEF K, f
  <2>2. f \in [1..m -> K] /\ K \in SUBSET DOMAIN list
    BY <1>4, <1>5
  <2>3. \A i \in K : \E k \in 1..m : f[k] = i
    BY <1>7
  <2>4. K \in SUBSET Nat
    BY <2>2
  <2>5. Cardinality(K) = m /\ \A k \in 1..m : f[k] = Nth(k, K)
    BY ONLY <2>1, <2>2, <2>3, <2>4, Enumeration
  <2> QED
    BY <2>5 DEF Kept
<1>9. Kept(Kept(list, I), J) = [k \in 1..m |-> Kept(list, I)[Nth(k, J)]]
  BY DEF Kept, m
<1>10. \A k \in 1..m : Kept(list, I)[Nth(k, J)] = list[f[k]]
  BY <1>1, <1>3
<1> QED
  BY <1>8, <1>9, <1>10
=============================================================================
