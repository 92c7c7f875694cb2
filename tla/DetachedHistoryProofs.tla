----------------------- MODULE DetachedHistoryProofs --------------------------
(***************************************************************************)
(* Proofs about DetachedHistory, for any programs, containers, limit,      *)
(* commands and faults.  What each change does to the entries of every     *)
(* container comes first; the invariants and the refinement of CommandLog  *)
(* then never look into a list again.                                      *)
(***************************************************************************)
EXTENDS DetachedHistory, SubsequencesProofs, TLAPS

(***************************************************************************)
(* Lists: what loading, inserting and clearing leave of a container.       *)
(***************************************************************************)
LEMMA OfFacts ==
    ASSUME NEW S, NEW list \in Seq(S), NEW c
    PROVE  /\ Places(list, c) \in SUBSET DOMAIN list
           /\ Of(list, c) \in Seq(S) /\ Len(Of(list, c)) <= Len(list)
<1>1. Places(list, c) \in SUBSET DOMAIN list
  BY DEF Places
<1> QED
  BY <1>1, KeptFacts DEF Of

LEMMA OfNothing == \A c : Of(<<>>, c) = <<>>
<1> SUFFICES ASSUME NEW c
             PROVE  Of(<<>>, c) = <<>>
  OBVIOUS
<1>1. Places(<<>>, c) = {}
  BY DEF Places
<1> QED
  BY <1>1, FS_EmptySet DEF Of, Kept

(* Filtering what was kept is keeping less. *)
LEMMA OfKept ==
    ASSUME NEW S, NEW list \in Seq(S), NEW I \in SUBSET DOMAIN list, NEW c
    PROVE  Of(Kept(list, I), c) = Kept(list, I \cap Places(list, c))
<1> DEFINE J == Places(Kept(list, I), c)
<1>1. /\ I \in SUBSET Nat /\ IsFiniteSet(I)
      /\ DOMAIN Kept(list, I) = 1..Cardinality(I)
      /\ \A k \in 1..Cardinality(I) : Nth(k, I) \in I /\ Kept(list, I)[k] = list[Nth(k, I)]
  BY KeptFacts
<1>2. J = {k \in 1..Cardinality(I) : list[Nth(k, I)].container = c}
  BY <1>1 DEF Places
<1>3. {Nth(j, I) : j \in J} = I \cap Places(list, c)
  <2>1. \A j \in J : Nth(j, I) \in I \cap Places(list, c)
    BY <1>1, <1>2 DEF Places
  <2>2. ASSUME NEW i \in I \cap Places(list, c)
        PROVE  \E j \in J : i = Nth(j, I)
    <3>1. Rank(i, I) \in 1..Cardinality(I) /\ Nth(Rank(i, I), I) = i
      BY <1>1, RankFacts, NthFacts
    <3> QED
      BY <1>2, <3>1 DEF Places
  <2> HIDE DEF J
  <2> QED
    BY <2>1, <2>2
<1>4. J \in SUBSET (1..Cardinality(I))
  BY <1>2
<1> HIDE DEF J
<1>5. Kept(Kept(list, I), J) = Kept(list, {Nth(j, I) : j \in J})
  BY <1>4, KeptTwice
<1> QED
  BY <1>3, <1>5 DEF Of, J

LEMMA OfCleared ==
    ASSUME NEW S, NEW list \in Seq(S), NEW c, NEW d
    PROVE  Of(Cleared(list, c), d) = IF d = c THEN <<>> ELSE Of(list, d)
<1> DEFINE I == DOMAIN list \ Places(list, c)
<1>1. Of(Cleared(list, c), d) = Kept(list, I \cap Places(list, d))
  <2>1. I \in SUBSET DOMAIN list
    OBVIOUS
  <2> HIDE DEF I
  <2>2. Of(Kept(list, I), d) = Kept(list, I \cap Places(list, d))
    BY <2>1, OfKept
  <2> QED
    BY <2>2 DEF Cleared, I
<1>2. CASE d = c
  <2>1. I \cap Places(list, d) = {}
    BY <1>2
  <2>2. Kept(list, {}) = <<>>
    BY FS_EmptySet DEF Kept
  <2> QED
    BY <1>1, <1>2, <2>1, <2>2
<1>3. CASE d # c
  <2>1. I \cap Places(list, d) = Places(list, d)
    BY <1>3 DEF Places
  <2> QED
    BY <1>1, <1>3, <2>1 DEF Of
<1> QED
  BY <1>2, <1>3

(* The first entries of a list, as many as the limit allows. *)
Newest(list) == SubSeq(list, 1, IF Len(list) < MaxEntries THEN Len(list) ELSE MaxEntries)

LEMMA OfCapped ==
    ASSUME NEW S, NEW list \in Seq(S), NEW c, NEW d
    PROVE  Of(Capped(list, c), d) = IF d = c THEN Newest(Of(list, c)) ELSE Of(list, d)
<1> DEFINE P == Places(list, c)
           I == {i \in DOMAIN list : list[i].container = c => Rank(i, P) <= MaxEntries}
           Q == I \cap Places(list, d)
<1>1. Of(Capped(list, c), d) = Kept(list, Q)
  <2>1. I \in SUBSET DOMAIN list
    OBVIOUS
  <2>2. Capped(list, c) = Kept(list, I)
    BY DEF Capped
  <2> HIDE DEF I
  <2>3. Of(Kept(list, I), d) = Kept(list, I \cap Places(list, d))
    BY <2>1, OfKept
  <2> QED
    BY <2>2, <2>3
<1>2. CASE d # c
  <2>1. Q = Places(list, d)
    BY <1>2 DEF Places
  <2> HIDE DEF Q
  <2> QED
    BY <1>1, <1>2, <2>1 DEF Of
<1>3. CASE d = c
  <2> DEFINE n == Cardinality(P)
             m == IF n < MaxEntries THEN n ELSE MaxEntries
             f == [k \in 1..m |-> Nth(k, P)]
  <2>1. /\ P \in SUBSET Nat /\ IsFiniteSet(P) /\ n \in Nat
        /\ Of(list, c) = [k \in 1..n |-> list[Nth(k, P)]]
        /\ Of(list, c) \in Seq(S) /\ Len(Of(list, c)) = n
    <3>1. P \in SUBSET DOMAIN list
      BY DEF Places
    <3> HIDE DEF P
    <3>2. /\ P \in SUBSET Nat /\ IsFiniteSet(P) /\ n \in Nat
          /\ Kept(list, P) \in Seq(S) /\ Len(Kept(list, P)) = n
      BY <3>1, KeptFacts
    <3>3. Of(list, c) = Kept(list, P)
      BY DEF Of, P
    <3> QED
      BY <3>2, <3>3 DEF Kept
  <2>2. MaxEntries \in Nat /\ m \in Nat /\ \A k \in 1..m : k \in 1..n /\ k <= MaxEntries
    BY <2>1, HistoryAssumption
  <2>3. Q = {i \in P : Rank(i, P) <= MaxEntries}
    BY <1>3 DEF Places
  <2>4. \A k \in 1..m : Nth(k, P) \in P /\ Rank(Nth(k, P), P) = k
    BY <2>1, <2>2, NthFacts
  <2>5. f \in [1..m -> Q]
    <3>1. \A k \in 1..m : Nth(k, P) \in Q
      BY <2>2, <2>3, <2>4
    <3> HIDE DEF Q, m, P
    <3> QED
      BY <3>1
  <2>6. \A k, l \in 1..m : k < l => f[k] < f[l]
    <3> HIDE DEF m, P
    <3>1. \A k, l \in 1..m : k < l => Nth(k, P) < Nth(l, P)
      BY <2>1, <2>2, NthFacts
    <3> QED
      BY <3>1
  <2>7. \A i \in Q : \E k \in 1..m : f[k] = i
    <3> SUFFICES ASSUME NEW i \in Q
                 PROVE  \E k \in 1..m : f[k] = i
      OBVIOUS
    <3> DEFINE r == Rank(i, P)
    <3>1. i \in P /\ r <= MaxEntries
      BY <2>3
    <3>2. r \in 1..n /\ Nth(r, P) = i
      BY <2>1, <3>1, RankFacts, NthFacts
    <3>3. r \in 1..m
      <4> HIDE DEF r, P
      <4> QED
        BY <2>1, <2>2, <3>1, <3>2
    <3> QED
      BY <3>2, <3>3
  <2>8. Q \in SUBSET Nat
    BY <2>1, <2>3
  <2>9. Cardinality(Q) = m /\ \A k \in 1..m : f[k] = Nth(k, Q)
    <3> HIDE DEF Q, m, f
    <3> QED
      BY ONLY <2>2, <2>5, <2>6, <2>7, <2>8, Enumeration
  <2>10. Kept(list, Q) = [k \in 1..m |-> list[Nth(k, P)]]
    <3> HIDE DEF Q, m, P
    <3> QED
      BY <2>9 DEF Kept
  <2>11. Newest(Of(list, c)) = [k \in 1..m |-> Of(list, c)[k]]
    <3> HIDE DEF P
    <3> QED
      BY <2>1, <2>2 DEF Newest
  <2> HIDE DEF P, Q, m
  <2>12. [k \in 1..m |-> Of(list, c)[k]] = [k \in 1..m |-> list[Nth(k, P)]]
    BY <2>1, <2>2
  <2> QED
    BY <1>1, <1>3, <2>10, <2>11, <2>12
<1> QED
  BY <1>2, <1>3

LEMMA OfInFront ==
    ASSUME NEW S, NEW list \in Seq(S), NEW e \in S, NEW d
    PROVE  Of(<<e>> \o list, d) = IF e.container = d THEN <<e>> \o Of(list, d) ELSE Of(list, d)
<1> DEFINE longer == <<e>> \o list
           P == Places(list, d)
           Q == Places(longer, d)
           n == Cardinality(P)
<1>1. /\ longer \in Seq(S) /\ DOMAIN longer = 1..(Len(list) + 1) /\ Len(list) \in Nat
      /\ longer[1] = e /\ \A i \in 1..Len(list) : longer[i + 1] = list[i]
  OBVIOUS
<1>2. \A i \in DOMAIN longer : i = 1 \/ (i - 1 \in DOMAIN list /\ longer[i] = list[i - 1])
  <2> SUFFICES ASSUME NEW i \in DOMAIN longer, i # 1
               PROVE  i - 1 \in DOMAIN list /\ longer[i] = list[i - 1]
    OBVIOUS
  <2>1. i - 1 \in 1..Len(list) /\ i = (i - 1) + 1
    BY <1>1
  <2> HIDE DEF longer
  <2> QED
    BY <1>1, <2>1
<1>3. \A i \in DOMAIN list : i \in Nat \ {0} /\ i + 1 \in DOMAIN longer /\ longer[i + 1] = list[i]
  <2> HIDE DEF longer
  <2> QED
    BY <1>1
<1>4. /\ P \in SUBSET DOMAIN list /\ P \in SUBSET Nat /\ IsFiniteSet(P) /\ n \in Nat
      /\ Of(list, d) \in Seq(S) /\ Len(Of(list, d)) = n
      /\ Of(list, d) = [k \in 1..n |-> list[Nth(k, P)]]
  <2>1. P \in SUBSET DOMAIN list
    BY DEF Places
  <2> HIDE DEF P
  <2>2. /\ P \in SUBSET Nat /\ IsFiniteSet(P) /\ n \in Nat
        /\ Kept(list, P) \in Seq(S) /\ Len(Kept(list, P)) = n
    BY <2>1, KeptFacts
  <2>3. Of(list, d) = Kept(list, P)
    BY DEF Of, P
  <2> QED
    BY <2>1, <2>2, <2>3 DEF Kept
<1>5. \A k \in 1..n : Nth(k, P) \in P /\ Nth(k, P) \in DOMAIN list
  BY <1>4, NthFacts
<1>6. \A k, l \in 1..n : k < l => Nth(k, P) < Nth(l, P)
  BY <1>4, NthFacts
<1>7. \A i \in P : Rank(i, P) \in 1..n /\ Nth(Rank(i, P), P) = i
  BY <1>4, RankFacts, NthFacts
<1>8. \A i \in P : i \in DOMAIN list /\ list[i].container = d
  BY DEF Places
<1>9. \A i \in DOMAIN list : list[i].container = d => i \in P
  BY DEF Places
<1>10. \A i \in Q : i \in DOMAIN longer /\ longer[i].container = d
  BY DEF Places
<1>11. \A i \in DOMAIN longer : longer[i].container = d => i \in Q
  BY DEF Places
<1>12. 1 \in DOMAIN longer /\ longer[1] = e
  BY <1>1
<1>13. Of(longer, d) = Kept(longer, Q)
  BY DEF Of
<1>14. Q \in SUBSET Nat
  BY <1>1, <1>10
<1> HIDE DEF longer, P, Q, n
<1>15. CASE e.container = d
  <2> DEFINE f == [k \in 1..(n + 1) |-> IF k = 1 THEN 1 ELSE Nth(k - 1, P) + 1]
  <2>1. \A k \in 1..(n + 1) : k = 1 \/ k - 1 \in 1..n
    BY <1>4
  <2>2. \A k \in 1..n : Nth(k, P) \in Nat \ {0} /\ Nth(k, P) + 1 \in Q /\ longer[Nth(k, P) + 1] = list[Nth(k, P)]
    BY <1>3, <1>5, <1>8, <1>11
  <2>3. 1 \in Q
    BY <1>11, <1>12, <1>15
  <2>4. f \in [1..(n + 1) -> Q]
    BY <2>1, <2>2, <2>3
  <2>5. \A k, l \in 1..(n + 1) : k < l => f[k] < f[l]
    <3> SUFFICES ASSUME NEW k \in 1..(n + 1), NEW l \in 1..(n + 1), k < l
                 PROVE  f[k] < f[l]
      OBVIOUS
    <3>1. l # 1 /\ l - 1 \in 1..n /\ f[l] = Nth(l - 1, P) + 1 /\ Nth(l - 1, P) \in Nat \ {0}
      BY <1>4, <2>1, <2>2
    <3>2. CASE k = 1
      BY <3>1, <3>2
    <3>3. CASE k # 1
      <4>1. k - 1 \in 1..n /\ f[k] = Nth(k - 1, P) + 1 /\ Nth(k - 1, P) \in Nat \ {0}
        BY <2>1, <2>2, <3>3
      <4>2. k - 1 < l - 1
        BY <1>4
      <4>3. Nth(k - 1, P) < Nth(l - 1, P)
        BY <1>6, <3>1, <4>1, <4>2
      <4> QED
        BY <3>1, <4>1, <4>3
    <3> QED
      BY <3>2, <3>3
  <2>6. \A i \in Q : \E k \in 1..(n + 1) : f[k] = i
    <3> SUFFICES ASSUME NEW i \in Q
                 PROVE  \E k \in 1..(n + 1) : f[k] = i
      OBVIOUS
    <3>1. CASE i = 1
      <4>1. 1 \in 1..(n + 1) /\ f[1] = 1
        BY <1>4
      <4> QED
        BY <3>1, <4>1
    <3>2. CASE i # 1
      <4>1. i - 1 \in P
        BY <1>2, <1>9, <1>10, <3>2
      <4> DEFINE r == Rank(i - 1, P)
      <4>2. r \in 1..n /\ Nth(r, P) = i - 1
        BY <1>7, <4>1
      <4> HIDE DEF r
      <4>3. r + 1 \in 1..(n + 1) /\ r + 1 # 1 /\ (r + 1) - 1 = r
        BY <1>4, <4>2
      <4>4. f[r + 1] = (i - 1) + 1
        BY <4>2, <4>3
      <4>5. i \in Nat
        BY <1>14
      <4> QED
        BY <4>3, <4>4, <4>5
    <3> QED
      BY <3>1, <3>2
  <2>7. n + 1 \in Nat
    BY <1>4
  <2>8. Cardinality(Q) = n + 1 /\ \A k \in 1..(n + 1) : f[k] = Nth(k, Q)
    <3> HIDE DEF f
    <3> QED
      BY ONLY <1>14, <2>4, <2>5, <2>6, <2>7, Enumeration
  <2>9. Kept(longer, Q) = [k \in 1..(n + 1) |-> longer[f[k]]]
    <3> HIDE DEF f
    <3> QED
      BY <2>8 DEF Kept
  <2>10. \A k \in 1..(n + 1) : longer[f[k]] = IF k = 1 THEN e ELSE list[Nth(k - 1, P)]
    BY <1>12, <2>1, <2>2
  <2>11. <<e>> \o Of(list, d) = [k \in 1..(n + 1) |-> IF k = 1 THEN e ELSE Of(list, d)[k - 1]]
    <3> DEFINE rest == Of(list, d)
    <3>1. rest \in Seq(S) /\ Len(rest) = n
      BY <1>4
    <3> HIDE DEF rest
    <3>2. <<e>> \o rest = [k \in 1..(n + 1) |-> IF k = 1 THEN e ELSE rest[k - 1]]
      BY <3>1
    <3> QED
      BY <3>2 DEF rest
  <2>12. \A k \in 1..(n + 1) : k # 1 => Of(list, d)[k - 1] = list[Nth(k - 1, P)]
    BY <1>4, <2>1
  <2> DEFINE entry(k) == IF k = 1 THEN e ELSE list[Nth(k - 1, P)]
  <2>13. \A k \in 1..(n + 1) : (IF k = 1 THEN e ELSE Of(list, d)[k - 1]) = entry(k)
    BY <2>12
  <2>14. <<e>> \o Of(list, d) = [k \in 1..(n + 1) |-> entry(k)]
    <3> HIDE DEF entry
    <3> QED
      BY <2>11, <2>13
  <2>15. \A k \in 1..(n + 1) : longer[f[k]] = entry(k)
    BY <2>10
  <2>16. Kept(longer, Q) = [k \in 1..(n + 1) |-> entry(k)]
    <3> HIDE DEF f, entry
    <3> QED
      BY <2>9, <2>15
  <2> HIDE DEF f, entry
  <2> QED
    BY <1>13, <1>15, <2>14, <2>16 DEF longer
<1>16. CASE e.container # d
  <2> DEFINE f == [k \in 1..n |-> Nth(k, P) + 1]
  <2>1. \A k \in 1..n : Nth(k, P) \in Nat \ {0} /\ Nth(k, P) + 1 \in Q /\ longer[Nth(k, P) + 1] = list[Nth(k, P)]
    BY <1>3, <1>5, <1>8, <1>11
  <2>2. f \in [1..n -> Q]
    BY <2>1
  <2>3. \A k, l \in 1..n : k < l => f[k] < f[l]
    BY <1>6, <2>1
  <2>4. \A i \in Q : \E k \in 1..n : f[k] = i
    <3> SUFFICES ASSUME NEW i \in Q
                 PROVE  \E k \in 1..n : f[k] = i
      OBVIOUS
    <3>1. i # 1 /\ i \in Nat
      BY <1>10, <1>12, <1>14, <1>16
    <3>2. i - 1 \in P
      BY <1>2, <1>9, <1>10, <3>1
    <3>3. Rank(i - 1, P) \in 1..n /\ Nth(Rank(i - 1, P), P) = i - 1
      BY <1>7, <3>2
    <3>4. f[Rank(i - 1, P)] = (i - 1) + 1
      BY <3>3
    <3> QED
      BY <3>1, <3>3, <3>4
  <2>5. n \in Nat
    BY <1>4
  <2>6. Cardinality(Q) = n /\ \A k \in 1..n : f[k] = Nth(k, Q)
    <3> HIDE DEF f
    <3> QED
      BY ONLY <1>14, <2>2, <2>3, <2>4, <2>5, Enumeration
  <2>7. Kept(longer, Q) = [k \in 1..n |-> longer[f[k]]]
    <3> HIDE DEF f
    <3> QED
      BY <2>6 DEF Kept
  <2>8. \A k \in 1..n : longer[f[k]] = list[Nth(k, P)]
    BY <2>1
  <2> HIDE DEF f
  <2> QED
    BY <1>4, <1>13, <1>16, <2>7, <2>8 DEF longer
<1> QED
  BY <1>15, <1>16

(* A new command pushes out the oldest one of its container, and no other. *)
LEMMA OfInsert ==
    ASSUME NEW S, NEW list \in Seq(S), NEW c, NEW d, NEW n, Entry(n, c) \in S
    PROVE  /\ Insert(list, c, n) \in Seq(S)
           /\ Of(Insert(list, c, n), d) =
                  IF d = c THEN Newest(<<Entry(n, c)>> \o Of(list, c)) ELSE Of(list, d)
<1> DEFINE e == Entry(n, c)
           longer == <<e>> \o list
<1>1. longer \in Seq(S) /\ e \in S /\ e.container = c
  BY DEF Entry
<1>2. Insert(list, c, n) = Capped(longer, c)
  BY DEF Insert
<1> HIDE DEF longer
<1>3. Capped(longer, c) \in Seq(S)
  <2> DEFINE I == {i \in DOMAIN longer : longer[i].container = c => Rank(i, Places(longer, c)) <= MaxEntries}
  <2>1. I \in SUBSET DOMAIN longer /\ Capped(longer, c) = Kept(longer, I)
    BY DEF Capped
  <2> HIDE DEF I
  <2> QED
    BY <1>1, <2>1, KeptFacts
<1>4. Of(Capped(longer, c), d) = IF d = c THEN Newest(Of(longer, c)) ELSE Of(longer, d)
  BY <1>1, OfCapped
<1> HIDE DEF e
<1>5. Of(longer, c) = <<e>> \o Of(list, c) /\ (d # c => Of(longer, d) = Of(list, d))
  BY <1>1, OfInFront DEF longer
<1> QED
  BY <1>2, <1>3, <1>4, <1>5 DEF e

(***************************************************************************)
(* Sound lists: per container in order, within the limit, of commands that *)
(* were given.                                                             *)
(***************************************************************************)
Commands == [stamp : Nat, container : Containers]
Changes  == [kind : {"add", "clear"}, container : Containers, stamp : Nat]

Sound(list, n) == \A c \in Containers :
    /\ Len(Of(list, c)) <= MaxEntries
    /\ \A k \in DOMAIN Of(list, c) : Of(list, c)[k].stamp \in 1..n
    /\ \A j, k \in DOMAIN Of(list, c) : j < k => Of(list, c)[j].stamp > Of(list, c)[k].stamp

(* What a change makes of a list. *)
Edited(todo, list) == IF todo.kind = "add" THEN Insert(list, todo.container, todo.stamp)
                                           ELSE Cleared(list, todo.container)

LEMMA NewestFacts ==
    ASSUME NEW S, NEW list \in Seq(S)
    PROVE  LET n == IF Len(list) < MaxEntries THEN Len(list) ELSE MaxEntries
           IN  /\ n \in Nat /\ n <= MaxEntries /\ n <= Len(list)
               /\ Newest(list) = [k \in 1..n |-> list[k]]
               /\ Newest(list) \in Seq(S) /\ Len(Newest(list)) = n
BY HistoryAssumption DEF Newest

LEMMA SoundNothing == ASSUME NEW n PROVE Sound(<<>>, n)
BY OfNothing, HistoryAssumption DEF Sound

LEMMA SoundLater ==
    ASSUME NEW list, NEW n \in Nat, Sound(list, n)
    PROVE  Sound(list, n + 1)
<1>1. \A k \in 1..n : k \in 1..(n + 1)
  OBVIOUS
<1> QED
  BY <1>1 DEF Sound

LEMMA SoundCleared ==
    ASSUME NEW list \in Seq(Commands), NEW c \in Containers, NEW n, Sound(list, n)
    PROVE  Cleared(list, c) \in Seq(Commands) /\ Sound(Cleared(list, c), n)
<1>1. Cleared(list, c) \in Seq(Commands)
  <2> DEFINE I == DOMAIN list \ Places(list, c)
  <2>1. I \in SUBSET DOMAIN list /\ Cleared(list, c) = Kept(list, I)
    BY DEF Cleared
  <2> HIDE DEF I
  <2> QED
    BY <2>1, KeptFacts
<1>2. \A d \in Containers : Of(Cleared(list, c), d) \in {<<>>, Of(list, d)}
  BY OfCleared
<1>3. Len(<<>>) <= MaxEntries /\ DOMAIN <<>> = {}
  BY HistoryAssumption
<1> QED
  BY <1>1, <1>2, <1>3 DEF Sound

LEMMA SoundInsert ==
    ASSUME NEW list \in Seq(Commands), NEW c \in Containers, NEW n \in Nat, Sound(list, n)
    PROVE  Insert(list, c, n + 1) \in Seq(Commands) /\ Sound(Insert(list, c, n + 1), n + 1)
<1> DEFINE e == Entry(n + 1, c)
           new == Insert(list, c, n + 1)
           l == Of(list, c)
           longer == <<e>> \o l
<1>1. e \in Commands /\ e.stamp = n + 1
  BY DEF Entry, Commands
<1>2. /\ new \in Seq(Commands) /\ Of(new, c) = Newest(longer)
      /\ \A d : d # c => Of(new, d) = Of(list, d)
  <2> SUFFICES ASSUME NEW d
               PROVE  new \in Seq(Commands) /\ Of(new, d) = IF d = c THEN Newest(longer) ELSE Of(list, d)
    OBVIOUS
  <2> QED
    BY <1>1, OfInsert
<1>3. l \in Seq(Commands)
  BY OfFacts
<1>4. \A k \in DOMAIN l : l[k].stamp \in 1..n
  BY DEF Sound
<1>5. \A j, k \in DOMAIN l : j < k => l[j].stamp > l[k].stamp
  BY DEF Sound
<1>6. Sound(list, n + 1)
  BY SoundLater
<1> HIDE DEF e, new, l
<1>7. /\ longer \in Seq(Commands) /\ Len(longer) = Len(l) + 1 /\ Len(l) \in Nat /\ longer[1] = e
      /\ \A k \in 1..Len(longer) : k # 1 => k - 1 \in DOMAIN l /\ longer[k] = l[k - 1]
  BY <1>1, <1>3
<1> HIDE DEF longer
<1>8. \A k \in 1..Len(longer) : longer[k].stamp \in 1..(n + 1)
  <2> SUFFICES ASSUME NEW k \in 1..Len(longer)
               PROVE  longer[k].stamp \in 1..(n + 1)
    OBVIOUS
  <2>1. CASE k = 1
    BY <1>1, <1>7, <2>1
  <2>2. CASE k # 1
    <3>1. longer[k].stamp \in 1..n
      BY <1>4, <1>7, <2>2
    <3> QED
      BY <3>1
  <2> QED
    BY <2>1, <2>2
<1>9. \A j, k \in 1..Len(longer) : j < k => longer[j].stamp > longer[k].stamp
  <2> SUFFICES ASSUME NEW j \in 1..Len(longer), NEW k \in 1..Len(longer), j < k
               PROVE  longer[j].stamp > longer[k].stamp
    OBVIOUS
  <2>1. k # 1 /\ k - 1 \in DOMAIN l /\ longer[k] = l[k - 1]
    BY <1>7
  <2>2. CASE j = 1
    BY <1>1, <1>4, <1>7, <2>1, <2>2
  <2>3. CASE j # 1
    <3>1. j - 1 \in DOMAIN l /\ longer[j] = l[j - 1] /\ j - 1 < k - 1
      BY <1>7, <2>3
    <3> QED
      BY <1>5, <2>1, <3>1
  <2> QED
    BY <2>2, <2>3
<1> DEFINE m == IF Len(longer) < MaxEntries THEN Len(longer) ELSE MaxEntries
<1>10. /\ m \in Nat /\ m <= MaxEntries /\ m <= Len(longer)
       /\ Newest(longer) = [k \in 1..m |-> longer[k]] /\ Len(Newest(longer)) = m
  BY <1>7, NewestFacts
<1>11. \A k \in 1..m : k \in 1..Len(longer) /\ Newest(longer)[k] = longer[k]
  BY <1>7, <1>10
<1>12. DOMAIN Newest(longer) = 1..m
  BY <1>10
<1> HIDE DEF m
<1>13. Sound(new, n + 1)
  <2> SUFFICES ASSUME NEW d \in Containers
               PROVE  /\ Len(Of(new, d)) <= MaxEntries
                      /\ \A k \in DOMAIN Of(new, d) : Of(new, d)[k].stamp \in 1..(n + 1)
                      /\ \A j, k \in DOMAIN Of(new, d) : j < k => Of(new, d)[j].stamp > Of(new, d)[k].stamp
    BY DEF Sound
  <2>1. CASE d # c
    BY <1>2, <1>6, <2>1 DEF Sound
  <2>2. CASE d = c
    <3>1. Of(new, d) = Newest(longer)
      BY <1>2, <2>2
    <3>2. Len(Newest(longer)) <= MaxEntries
      BY <1>10
    <3> QED
      BY <1>8, <1>9, <1>11, <1>12, <3>1, <3>2
  <2> QED
    BY <2>1, <2>2
<1> QED
  BY <1>2, <1>13 DEF new

LEMMA NothingCut == ASSUME NEW S PROVE <<>> \in Seq(S)
OBVIOUS

(***************************************************************************)
(* The inductive invariant.                                                *)
(***************************************************************************)
HistoryTypes ==
    /\ stamp \in Nat
    /\ file \in [state : {"absent", "empty", "list", "broken"}, entries : Seq(Commands)]
    /\ before \in Seq(Commands)
    /\ pc \in [Programs -> {"idle", "open", "write"}]
    /\ entries \in [Programs -> Seq(Commands)]
    /\ modal \in [Programs -> [container : Containers \cup {"none"}, entries : Seq(Commands)]]
    /\ change \in [Programs -> Changes \cup {None}]
    /\ clash \in SUBSET Programs

(* What is, was or will be on disk is sound; what a modal shows is no longer than the limit. *)
ListsSound ==
    /\ Sound(file.entries, stamp) /\ Sound(before, stamp)
    /\ \A p \in Programs : Sound(entries[p], stamp) /\ Len(modal[p].entries) <= MaxEntries

(* A change is under way from the load to the end of the save. *)
UnderWay == \A p \in Programs : pc[p] = "idle" <=> change[p] = None

(* A change that overlaps no other finds the disk as it was when it loaded. *)
Alone == \A p \in Programs : change[p] # None /\ p \notin clash =>
    /\ \A q \in Programs : q # p => change[q] = None
    /\ entries[p] = Edited(change[p], Durable)
    /\ pc[p] = "write" => file.state = "empty"

(* A modal is open on one of the containers, and only between changes. *)
Shown == \A p \in Programs : modal[p] # Closed => pc[p] = "idle" /\ modal[p].container \in Containers

HistoryInv == HistoryTypes /\ ListsSound /\ UnderWay /\ Alone /\ Shown

LEMMA NoneIsNoChange == None \notin Changes /\ \A todo \in Changes : todo # None
BY DEF None, Changes

LEMMA LoadSound ==
    ASSUME HistoryTypes, ListsSound
    PROVE  /\ LoadDetachedHistory \in Seq(Commands) /\ Sound(LoadDetachedHistory, stamp)
           /\ Durable \in Seq(Commands) /\ Sound(Durable, stamp)
<1>1. LoadDetachedHistory \in {file.entries, <<>>} /\ Durable \in {before, LoadDetachedHistory}
  BY DEF LoadDetachedHistory, Durable
<1>2. file.entries \in Seq(Commands) /\ before \in Seq(Commands) /\ <<>> \in Seq(Commands)
  BY NothingCut DEF HistoryTypes
<1> QED
  BY <1>1, <1>2, SoundNothing DEF ListsSound

(* Truncating the file loses nothing yet. *)
LEMMA TruncateKeeps == ASSUME NEW p \in Programs, HistoryTypes, Truncate(p) PROVE Durable' = Durable
<1>1. file'.state = "empty" /\ pc'[p] = "write"
  BY DEF Truncate, HistoryTypes
<1>2. Durable' = before'
  BY <1>1 DEF Durable
<1> QED
  BY <1>2 DEF Truncate, Durable

LEMMA InitHistory == Init => HistoryInv
<1> SUFFICES ASSUME Init
             PROVE  HistoryInv
  OBVIOUS
<1>1. HistoryTypes
  BY NothingCut DEF Init, HistoryTypes, Closed
<1>2. ListsSound
  <2>1. Len(<<>>) <= MaxEntries
    BY HistoryAssumption
  <2> QED
    BY <2>1, SoundNothing DEF Init, ListsSound, Closed
<1>3. UnderWay /\ Alone /\ Shown
  BY DEF Init, UnderWay, Alone, Shown
<1> QED
  BY <1>1, <1>2, <1>3 DEF HistoryInv

(* A change begins. *)
LEMMA Begins ==
    ASSUME HistoryInv, NEW p \in Programs, pc[p] = "idle", NEW todo \in Changes,
           Saving(p, todo, Edited(todo, LoadDetachedHistory)), UNCHANGED <<file, before>>,
           stamp' \in {stamp, stamp + 1},
           Edited(todo, LoadDetachedHistory) \in Seq(Commands),
           Sound(Edited(todo, LoadDetachedHistory), stamp'),
           modal[p] = Closed \/ modal' = [modal EXCEPT ![p] = Closed],
           modal' \in {modal, [modal EXCEPT ![p] = Closed]}
    PROVE  HistoryInv'
<1> DEFINE list == Edited(todo, LoadDetachedHistory)
<1> USE DEF HistoryInv
<1>1. /\ pc' = [pc EXCEPT ![p] = "open"] /\ entries' = [entries EXCEPT ![p] = list]
      /\ change' = [change EXCEPT ![p] = todo]
      /\ clash' = LET changing == {q \in Programs : change[q] # None}
                  IN  IF changing = {} THEN clash ELSE clash \cup changing \cup {p}
  BY DEF Saving
<1> HIDE DEF list
<1>2. /\ pc'[p] = "open" /\ entries'[p] = list /\ change'[p] = todo
      /\ \A q \in Programs : q # p => pc'[q] = pc[q] /\ entries'[q] = entries[q] /\ change'[q] = change[q]
  BY <1>1 DEF HistoryTypes
<1>3. list \in Seq(Commands) /\ Sound(list, stamp')
  BY DEF list
<1>4. HistoryTypes'
  <2>1. Closed \in [container : Containers \cup {"none"}, entries : Seq(Commands)]
    BY NothingCut DEF Closed
  <2>2. modal' \in [Programs -> [container : Containers \cup {"none"}, entries : Seq(Commands)]]
    BY <2>1 DEF HistoryTypes
  <2>3. stamp' \in Nat /\ clash' \in SUBSET Programs
    BY <1>1 DEF HistoryTypes
  <2> QED
    BY <1>1, <1>3, <2>2, <2>3 DEF HistoryTypes
<1>5. ListsSound'
  <2>1. \A l : Sound(l, stamp) => Sound(l, stamp')
    BY SoundLater DEF HistoryTypes
  <2>2. \A q \in Programs : Sound(entries[q], stamp) /\ Len(modal[q].entries) <= MaxEntries
    BY DEF ListsSound
  <2>3. \A q \in Programs : Sound(entries'[q], stamp')
    BY <1>2, <1>3, <2>1, <2>2
  <2>4. Len(Closed.entries) <= MaxEntries
    BY HistoryAssumption DEF Closed
  <2>5. \A q \in Programs : modal'[q] \in {modal[q], Closed}
    BY DEF HistoryTypes
  <2>6. \A q \in Programs : Len(modal'[q].entries) <= MaxEntries
    BY <2>2, <2>4, <2>5
  <2> QED
    BY <2>1, <2>3, <2>6 DEF ListsSound
<1>6. UnderWay'
  BY <1>2, NoneIsNoChange DEF UnderWay
<1>7. Alone'
  <2> SUFFICES ASSUME NEW q \in Programs, change'[q] # None, q \notin clash'
               PROVE  /\ \A r \in Programs : r # q => change'[r] = None
                      /\ entries'[q] = Edited(change'[q], Durable')
                      /\ pc'[q] = "write" => file'.state = "empty"
    BY DEF Alone
  <2>1. \A r \in Programs : change[r] = None
    <3>1. CASE q = p
      BY <1>1, <3>1
    <3>2. CASE q # p
      BY <1>1, <1>2, <3>2
    <3> QED
      BY <3>1, <3>2
  <2>2. q = p
    BY <1>2, <2>1
  <2>3. \A r \in Programs : pc'[r] # "write"
    BY <1>2, <2>1 DEF UnderWay
  <2>4. Durable' = LoadDetachedHistory
    BY <2>3 DEF Durable, LoadDetachedHistory
  <2> QED
    BY <1>2, <2>1, <2>2, <2>3, <2>4 DEF list
<1>8. Shown'
  <2>1. modal'[p] = Closed /\ \A q \in Programs : q # p => modal'[q] = modal[q]
    BY DEF HistoryTypes
  <2> QED
    BY <1>2, <2>1 DEF Shown
<1> QED
  BY <1>4, <1>5, <1>6, <1>7, <1>8

(* A change ends, one way or another. *)
LEMMA Ends ==
    ASSUME HistoryInv, NEW p \in Programs, pc[p] # "idle", Done(p), UNCHANGED <<stamp, before>>,
           file' \in {file, Broken, [state |-> "list", entries |-> entries[p]]},
           modal' \in {modal, [modal EXCEPT ![p] = Closed]}
    PROVE  HistoryInv'
<1> USE DEF HistoryInv
<1>1. /\ pc' = [pc EXCEPT ![p] = "idle"] /\ entries' = [entries EXCEPT ![p] = <<>>]
      /\ change' = [change EXCEPT ![p] = None] /\ clash' = clash \ {p}
  BY DEF Done
<1>2. /\ pc'[p] = "idle" /\ entries'[p] = <<>> /\ change'[p] = None
      /\ \A q \in Programs : q # p => pc'[q] = pc[q] /\ entries'[q] = entries[q] /\ change'[q] = change[q]
  BY <1>1 DEF HistoryTypes
<1>3. HistoryTypes'
  <2>1. Closed \in [container : Containers \cup {"none"}, entries : Seq(Commands)]
    BY NothingCut DEF Closed
  <2>2. modal' \in [Programs -> [container : Containers \cup {"none"}, entries : Seq(Commands)]]
    BY <2>1 DEF HistoryTypes
  <2>3. file' \in [state : {"absent", "empty", "list", "broken"}, entries : Seq(Commands)]
    <3>1. file \in [state : {"absent", "empty", "list", "broken"}, entries : Seq(Commands)]
      BY DEF HistoryTypes
    <3>2. Broken \in [state : {"absent", "empty", "list", "broken"}, entries : Seq(Commands)]
      BY NothingCut DEF Broken
    <3>3. entries[p] \in Seq(Commands)
      BY DEF HistoryTypes
    <3> QED
      BY <3>1, <3>2, <3>3
  <2> QED
    BY <1>1, <2>2, <2>3, NothingCut DEF HistoryTypes
<1>4. ListsSound'
  <2>1. \A q \in Programs : Sound(entries[q], stamp) /\ Len(modal[q].entries) <= MaxEntries
    BY DEF ListsSound
  <2>2. file'.entries \in {file.entries, <<>>, entries[p]}
    BY DEF Broken
  <2>3. Sound(file'.entries, stamp)
    BY <2>1, <2>2, SoundNothing DEF ListsSound
  <2>4. \A q \in Programs : Sound(entries'[q], stamp)
    BY <1>2, <2>1, SoundNothing
  <2>5. Len(Closed.entries) <= MaxEntries
    BY HistoryAssumption DEF Closed
  <2>6. \A q \in Programs : modal'[q] \in {modal[q], Closed}
    BY DEF HistoryTypes
  <2>7. \A q \in Programs : Len(modal'[q].entries) <= MaxEntries
    BY <2>1, <2>5, <2>6
  <2> QED
    BY <2>3, <2>4, <2>7 DEF ListsSound
<1>5. UnderWay'
  BY <1>2 DEF UnderWay
<1>6. Alone'
  <2> SUFFICES ASSUME NEW q \in Programs, change'[q] # None, q \notin clash'
               PROVE  FALSE
    BY DEF Alone
  <2>1. q # p /\ change[q] # None /\ q \notin clash
    BY <1>1, <1>2
  <2>2. change[p] = None
    BY <2>1 DEF Alone
  <2> QED
    BY <2>2 DEF UnderWay
<1>7. Shown'
  <2>1. \A q \in Programs : modal'[q] \in {modal[q], Closed}
    BY DEF HistoryTypes
  <2> QED
    BY <1>2, <2>1 DEF Shown
<1> QED
  BY <1>3, <1>4, <1>5, <1>6, <1>7

(* What begins is an add or a clear of what was loaded. *)
LEMMA AddBegins ==
    ASSUME HistoryInv, NEW p \in Programs, NEW c \in Containers, AddDetachedHistoryEntry(p, c)
    PROVE  HistoryInv'
<1> DEFINE todo == [kind |-> "add", container |-> c, stamp |-> stamp + 1]
<1>1. stamp \in Nat /\ LoadDetachedHistory \in Seq(Commands) /\ Sound(LoadDetachedHistory, stamp)
  BY LoadSound DEF HistoryInv, HistoryTypes
<1>2. todo \in Changes
  BY <1>1 DEF Changes
<1>3. Edited(todo, LoadDetachedHistory) = Insert(LoadDetachedHistory, c, stamp + 1)
  BY DEF Edited
<1>4. /\ Edited(todo, LoadDetachedHistory) \in Seq(Commands)
      /\ Sound(Edited(todo, LoadDetachedHistory), stamp + 1)
  BY <1>1, <1>3, SoundInsert
<1>5. /\ pc[p] = "idle" /\ stamp' = stamp + 1 /\ modal' = modal /\ modal[p] = Closed /\ UNCHANGED <<file, before>>
      /\ Saving(p, todo, Edited(todo, LoadDetachedHistory))
  BY <1>3 DEF AddDetachedHistoryEntry
<1> HIDE DEF todo
<1> QED
  BY <1>2, <1>4, <1>5, Begins

LEMMA ClearBegins ==
    ASSUME HistoryInv, NEW p \in Programs, NEW c \in Containers, ClearDetachedHistory(p, c), pc[p] = "idle",
           modal' = [modal EXCEPT ![p] = Closed], UNCHANGED <<file, stamp, before>>
    PROVE  HistoryInv'
<1> DEFINE todo == [kind |-> "clear", container |-> c, stamp |-> stamp]
<1>1. stamp \in Nat /\ LoadDetachedHistory \in Seq(Commands) /\ Sound(LoadDetachedHistory, stamp)
  BY LoadSound DEF HistoryInv, HistoryTypes
<1>2. todo \in Changes
  BY <1>1 DEF Changes
<1>3. Edited(todo, LoadDetachedHistory) = Cleared(LoadDetachedHistory, c)
  BY DEF Edited
<1>4. /\ Edited(todo, LoadDetachedHistory) \in Seq(Commands)
      /\ Sound(Edited(todo, LoadDetachedHistory), stamp)
  BY <1>1, <1>3, SoundCleared
<1>5. Saving(p, todo, Edited(todo, LoadDetachedHistory)) /\ UNCHANGED <<file, before>> /\ stamp' = stamp
  BY <1>3 DEF ClearDetachedHistory
<1> HIDE DEF todo
<1> QED
  BY <1>2, <1>4, <1>5, Begins

LEMMA NextKeeps == ASSUME HistoryInv, Next PROVE HistoryInv'
<1> USE DEF HistoryInv
<1>1. ASSUME NEW p \in Programs, NEW c \in Containers, AddDetachedHistoryEntry(p, c)
      PROVE  HistoryInv'
  BY <1>1, AddBegins
<1>2. ASSUME NEW p \in Programs, NEW c \in Containers, OpenHistory(p, c)
      PROVE  HistoryInv'
  <2> DEFINE shown == [container |-> c, entries |-> LoadDetachedHistoryForContainer(c)]
  <2>1. LoadDetachedHistory \in Seq(Commands) /\ Sound(LoadDetachedHistory, stamp)
    BY LoadSound
  <2>2. /\ LoadDetachedHistoryForContainer(c) \in Seq(Commands)
        /\ Len(LoadDetachedHistoryForContainer(c)) <= MaxEntries
    BY <2>1, OfFacts DEF LoadDetachedHistoryForContainer, Sound
  <2>3. shown \in [container : Containers \cup {"none"}, entries : Seq(Commands)] /\ shown.container = c
    BY <2>2
  <2>4. Len(shown.entries) <= MaxEntries
    BY <2>2
  <2>5. /\ modal' = [modal EXCEPT ![p] = shown] /\ pc[p] = "idle"
        /\ UNCHANGED <<file, pc, entries, change, clash, stamp, before>>
    BY <1>2 DEF OpenHistory, saving
  <2> HIDE DEF shown
  <2>6. modal'[p] = shown /\ \A q \in Programs : q # p => modal'[q] = modal[q]
    BY <2>5 DEF HistoryTypes
  <2>7. HistoryTypes'
    BY <2>3, <2>5 DEF HistoryTypes
  <2>8. ListsSound'
    BY <2>4, <2>5, <2>6 DEF ListsSound
  <2>9. UnderWay'
    BY <2>5 DEF UnderWay
  <2>10. Durable' = Durable
    BY <2>5 DEF Durable, LoadDetachedHistory
  <2>11. Alone'
    BY <2>5, <2>10 DEF Alone
  <2>12. Shown'
    BY <2>3, <2>5, <2>6 DEF Shown
  <2> QED
    BY <2>7, <2>8, <2>9, <2>11, <2>12
<1>3. ASSUME NEW p \in Programs, NEW selected \in 0..(MaxEntries + 1), ResolveHistory(p, selected)
      PROVE  HistoryInv'
  <2>1. /\ modal[p] # Closed /\ modal' = [modal EXCEPT ![p] = Closed] /\ UNCHANGED <<file, stamp, before>>
        /\ ClearDetachedHistory(p, modal[p].container) \/ UNCHANGED <<pc, entries, change, clash>>
    BY <1>3 DEF ResolveHistory, saving
  <2>2. pc[p] = "idle" /\ modal[p].container \in Containers
    BY <2>1 DEF Shown
  <2>3. CASE ClearDetachedHistory(p, modal[p].container)
    BY <2>1, <2>2, <2>3, ClearBegins
  <2>4. CASE UNCHANGED <<pc, entries, change, clash>>
    <3>1. \A q \in Programs : modal'[q] \in {modal[q], Closed}
      BY <2>1 DEF HistoryTypes
    <3>2. Closed \in [container : Containers \cup {"none"}, entries : Seq(Commands)]
      BY NothingCut DEF Closed
    <3>3. HistoryTypes'
      BY <2>1, <2>4, <3>2 DEF HistoryTypes
    <3>4. Len(Closed.entries) <= MaxEntries
      BY HistoryAssumption DEF Closed
    <3>5. \A q \in Programs : Sound(entries[q], stamp) /\ Len(modal[q].entries) <= MaxEntries
      BY DEF ListsSound
    <3>6. \A q \in Programs : Len(modal'[q].entries) <= MaxEntries
      BY <3>1, <3>4, <3>5
    <3>7. ListsSound'
      BY <2>1, <2>4, <3>5, <3>6 DEF ListsSound
    <3>8. UnderWay'
      BY <2>4 DEF UnderWay
    <3>9. Durable' = Durable
      BY <2>1, <2>4 DEF Durable, LoadDetachedHistory
    <3>10. Alone'
      BY <2>1, <2>4, <3>9 DEF Alone
    <3>11. Shown'
      BY <2>4, <3>1 DEF Shown
    <3> QED
      BY <3>3, <3>7, <3>8, <3>10, <3>11
  <2> QED
    BY <2>1, <2>3, <2>4
<1>4. ASSUME NEW p \in Programs, Truncate(p)
      PROVE  HistoryInv'
  <2>1. /\ pc[p] = "open" /\ pc' = [pc EXCEPT ![p] = "write"] /\ before' \in {before, LoadDetachedHistory}
        /\ file' = [state |-> "empty", entries |-> <<>>]
        /\ UNCHANGED <<entries, modal, stamp, change, clash>>
    BY <1>4 DEF Truncate
  <2>2. pc'[p] = "write" /\ \A q \in Programs : q # p => pc'[q] = pc[q]
    BY <2>1 DEF HistoryTypes
  <2>3. before' \in Seq(Commands) /\ Sound(before', stamp)
    BY <2>1, LoadSound DEF HistoryTypes, ListsSound
  <2>4. file'.state = "empty" /\ file'.entries = <<>>
    BY <2>1
  <2>5. HistoryTypes'
    BY <2>1, <2>3, NothingCut DEF HistoryTypes
  <2>6. ListsSound'
    BY <2>1, <2>3, <2>4, SoundNothing DEF ListsSound
  <2>7. UnderWay'
    BY <2>1, <2>2 DEF UnderWay
  <2>8. Durable' = Durable
    BY <1>4, TruncateKeeps
  <2>9. change[p] # None
    BY <2>1 DEF UnderWay
  <2>10. Alone'
    BY <2>1, <2>4, <2>8, <2>9 DEF Alone
  <2>11. Shown'
    BY <2>1, <2>2 DEF Shown
  <2> QED
    BY <2>5, <2>6, <2>7, <2>10, <2>11
<1>5. ASSUME NEW p \in Programs, Write(p)
      PROVE  HistoryInv'
  <2>1. /\ pc[p] # "idle" /\ Done(p) /\ UNCHANGED <<stamp, before>> /\ modal' = modal
        /\ file' \in {file, Broken, [state |-> "list", entries |-> entries[p]]}
    BY <1>5 DEF Write
  <2> QED
    BY <2>1, Ends
<1>6. ASSUME NEW p \in Programs, Denied(p) \/ WriteFails(p) \/ Crash(p)
      PROVE  HistoryInv'
  <2>1. /\ pc[p] # "idle" /\ Done(p) /\ UNCHANGED <<stamp, before>>
        /\ modal' \in {modal, [modal EXCEPT ![p] = Closed]} /\ file' \in {file, Broken}
    BY <1>6 DEF Denied, WriteFails, Crash, Fault
  <2> QED
    BY <2>1, Ends
<1> QED
  BY <1>1, <1>2, <1>3, <1>4, <1>5, <1>6 DEF Next

LEMMA HistoryInductive == Spec => []HistoryInv
<1>1. HistoryInv /\ [Next]_vars => HistoryInv'
  <2> SUFFICES ASSUME HistoryInv, UNCHANGED vars
               PROVE  HistoryInv'
    BY NextKeeps
  <2>1. UNCHANGED <<file, pc, entries, change, clash, modal, stamp, before>>
    BY DEF vars, saving
  <2>2. Durable' = Durable
    BY <2>1 DEF Durable, LoadDetachedHistory
  <2>3. HistoryTypes' /\ ListsSound' /\ UnderWay' /\ Shown'
    BY <2>1 DEF HistoryInv, HistoryTypes, ListsSound, UnderWay, Shown
  <2>4. Alone'
    BY <2>1, <2>2 DEF HistoryInv, Alone
  <2> QED
    BY <2>3, <2>4 DEF HistoryInv
<1> QED
  BY <1>1, InitHistory, PTL DEF Spec

(***************************************************************************)
(* The theorems.                                                           *)
(***************************************************************************)
(* Whatever overlaps, breaks or crashes, a container's commands come newest first, on disk and
   in every list about to be saved (AddDetachedHistoryEntry's insertion at the front). *)
THEOREM AlwaysNewestFirst == Spec => []NewestFirst
<1>1. HistoryInv => NewestFirst
  <2> SUFFICES ASSUME HistoryInv, NEW list \in {Durable} \cup Range(entries), NEW c \in Containers,
                      NEW i \in 1..(Len(Of(list, c)) - 1)
               PROVE  Of(list, c)[i].stamp > Of(list, c)[i + 1].stamp
    BY DEF NewestFirst
  <2>1. list \in Seq(Commands) /\ Sound(list, stamp)
    <3>1. Durable \in Seq(Commands) /\ Sound(Durable, stamp)
      BY LoadSound DEF HistoryInv
    <3>2. \A p \in DOMAIN entries : entries[p] \in Seq(Commands) /\ Sound(entries[p], stamp)
      BY DEF HistoryInv, HistoryTypes, ListsSound
    <3> QED
      BY <3>1, <3>2 DEF Range
  <2>2. Of(list, c) \in Seq(Commands)
    BY <2>1, OfFacts
  <2>3. i \in DOMAIN Of(list, c) /\ i + 1 \in DOMAIN Of(list, c) /\ i < i + 1
    BY <2>2
  <2> QED
    BY <2>1, <2>3 DEF Sound
<1> QED
  BY <1>1, HistoryInductive, PTL

(* No overlap makes a container's history, on disk or shown, longer than the limit
   (AddDetachedHistoryEntry's remove_if, LoadDetachedHistoryForContainer). *)
THEOREM NeverOverLimit == Spec => []WithinLimit
<1>1. HistoryInv => WithinLimit
  <2> SUFFICES ASSUME HistoryInv, NEW c \in Containers
               PROVE  /\ Len(Of(Durable, c)) <= MaxEntries
                      /\ \A p \in Programs : Len(Of(modal[p].entries, c)) <= MaxEntries
    BY DEF WithinLimit
  <2>1. Len(Of(Durable, c)) <= MaxEntries
    BY LoadSound DEF HistoryInv, Sound
  <2>2. ASSUME NEW p \in Programs
        PROVE  Len(Of(modal[p].entries, c)) <= MaxEntries
    <3> DEFINE list == modal[p].entries
    <3>1. list \in Seq(Commands) /\ Len(list) <= MaxEntries
      BY DEF HistoryInv, HistoryTypes, ListsSound
    <3> HIDE DEF list
    <3>2. Of(list, c) \in Seq(Commands) /\ Len(Of(list, c)) <= Len(list)
      BY <3>1, OfFacts
    <3>3. Len(Of(list, c)) \in Nat /\ Len(list) \in Nat /\ MaxEntries \in Nat
      BY <3>1, <3>2, HistoryAssumption
    <3>4. Len(Of(list, c)) <= MaxEntries
      BY <3>1, <3>2, <3>3
    <3> QED
      BY <3>4 DEF list
  <2> QED
    BY <2>1, <2>2
<1> QED
  BY <1>1, HistoryInductive, PTL

(***************************************************************************)
(* The refinement.  A save is one step of the log, its last: truncating    *)
(* the file stutters.                                                      *)
(***************************************************************************)
LogOf(list) == [c \in Containers |-> Stamps(list, c)]

LEMMA LogOfNothing == LogOf(<<>>) = Log!Empty
<1>1. \A c : Stamps(<<>>, c) = <<>>
  BY OfNothing DEF Stamps
<1> QED
  BY <1>1 DEF LogOf, Log!Empty

(* Adding to the list is adding to the log of its container, clearing it empties that log. *)
LEMMA EditedLog ==
    ASSUME NEW list \in Seq(Commands), NEW todo \in Changes
    PROVE  LogOf(Edited(todo, list)) =
               [LogOf(list) EXCEPT ![todo.container] =
                   IF todo.kind = "clear" THEN <<>> ELSE Log!Latest(<<todo.stamp>> \o @)]
<1> DEFINE c == todo.container
           n == todo.stamp
           new == Edited(todo, list)
<1>1. c \in Containers /\ n \in Nat /\ todo.kind \in {"add", "clear"}
  BY DEF Changes
<1>2. CASE todo.kind = "clear"
  <2>1. new = Cleared(list, c)
    BY <1>2 DEF Edited
  <2> HIDE DEF c, new
  <2>2. \A d \in Containers : Of(new, d) = IF d = c THEN <<>> ELSE Of(list, d)
    BY <2>1, OfCleared
  <2>3. \A d \in Containers : Stamps(new, d) = IF d = c THEN <<>> ELSE Stamps(list, d)
    BY <2>2 DEF Stamps
  <2>4. LogOf(new) = [LogOf(list) EXCEPT ![c] = <<>>]
    BY <2>3 DEF LogOf
  <2> QED
    BY <1>2, <2>4 DEF c, new
<1>3. CASE todo.kind = "add"
  <2> DEFINE e == Entry(n, c)
             l == Of(list, c)
             longer == <<e>> \o l
             m == IF Len(longer) < MaxEntries THEN Len(longer) ELSE MaxEntries
             s == <<n>> \o Stamps(list, c)
  <2>1. new = Insert(list, c, n) /\ e \in Commands /\ e.stamp = n
    BY <1>1, <1>3 DEF Edited, Entry, Commands
  <2>2. l \in Seq(Commands)
    BY OfFacts
  <2>3. ASSUME NEW d \in Containers
        PROVE  Of(new, d) = IF d = c THEN Newest(longer) ELSE Of(list, d)
    BY <2>1, OfInsert
  <2> HIDE DEF c, n, new, e, l
  <2>4. Stamps(list, c) = [i \in DOMAIN l |-> l[i].stamp]
    BY DEF Stamps, l
  <2>5. Stamps(list, c) \in Seq(Nat) /\ Len(Stamps(list, c)) = Len(l)
    <3>0. DOMAIN l = 1..Len(l) /\ Len(l) \in Nat /\ \A i \in 1..Len(l) : l[i] \in Commands
      BY <2>2
    <3>1. DOMAIN l = 1..Len(l) /\ Len(l) \in Nat /\ \A i \in 1..Len(l) : l[i].stamp \in Nat
      BY <3>0 DEF Commands
    <3>2. Stamps(list, c) \in [1..Len(l) -> Nat]
      BY <2>4, <3>1
    <3> QED
      BY <3>1, <3>2
  <2>6. /\ longer \in Seq(Commands) /\ Len(longer) = Len(l) + 1 /\ Len(l) \in Nat
        /\ s \in Seq(Nat) /\ Len(s) = Len(l) + 1
        /\ \A k \in 1..(Len(l) + 1) : longer[k].stamp = s[k]
    <3>1. longer \in Seq(Commands) /\ Len(longer) = Len(l) + 1 /\ Len(l) \in Nat
      BY <2>1, <2>2
    <3>2. s \in Seq(Nat) /\ Len(s) = Len(l) + 1
      BY <1>1, <2>2, <2>5 DEF n
    <3>3. \A k \in 1..(Len(l) + 1) : longer[k] = IF k = 1 THEN e ELSE l[k - 1]
      BY <2>1, <2>2
    <3>4. \A k \in 1..(Len(l) + 1) : s[k] = IF k = 1 THEN n ELSE Stamps(list, c)[k - 1]
      BY <1>1, <2>2, <2>5 DEF n
    <3>5. \A k \in 1..(Len(l) + 1) : k # 1 => k - 1 \in DOMAIN l
      BY <2>2
    <3> QED
      BY <2>1, <2>4, <3>1, <3>2, <3>3, <3>4, <3>5
  <2>7. m \in Nat /\ m <= Len(l) + 1 /\ Newest(longer) = [k \in 1..m |-> longer[k]]
    BY <2>6, NewestFacts
  <2>8. Log!Latest(s) = [k \in 1..m |-> s[k]]
    BY <2>6, HistoryAssumption DEF Log!Latest
  <2>9. Stamps(new, c) = Log!Latest(s)
    <3>1. Of(new, c) = Newest(longer)
      BY <1>1, <2>3 DEF c
    <3> HIDE DEF longer, m, s
    <3>2. \A k \in 1..m : k \in 1..(Len(l) + 1)
      BY <2>6, <2>7
    <3>3. Stamps(new, c) = [k \in 1..m |-> longer[k].stamp]
      BY <2>7, <3>1 DEF Stamps
    <3>4. \A k \in 1..m : longer[k].stamp = s[k]
      BY <2>6, <3>2
    <3> QED
      BY <2>8, <3>3, <3>4
  <2>10. \A d \in Containers : d # c => Stamps(new, d) = Stamps(list, d)
    BY <2>3 DEF Stamps
  <2>11. LogOf(new) = [LogOf(list) EXCEPT ![c] = Log!Latest(s)]
    <3> HIDE DEF s
    <3> QED
      BY <2>9, <2>10 DEF LogOf
  <2>12. c \in Containers /\ LogOf(list)[c] = Stamps(list, c)
    BY <1>1 DEF c, LogOf
  <2> HIDE DEF s
  <2>13. [LogOf(list) EXCEPT ![c] = Log!Latest(<<n>> \o @)] = [LogOf(list) EXCEPT ![c] = Log!Latest(<<n>> \o LogOf(list)[c])]
    OBVIOUS
  <2> QED
    BY <1>3, <2>11, <2>12, <2>13 DEF s, c, n, new
<1> QED
  BY <1>1, <1>2, <1>3

(* Commands that were given, and nothing else. *)
LEMMA SoundLog ==
    ASSUME NEW list, NEW n, Sound(list, n)
    PROVE  \A c \in Containers : \A i \in DOMAIN LogOf(list)[c] : LogOf(list)[c][i] \in 1..n
BY DEF Sound, LogOf, Stamps

LEMMA BeginRefines ==
    ASSUME HistoryInv, NEW p \in Programs, pc[p] = "idle", NEW todo \in Changes, NEW list,
           Saving(p, todo, list), UNCHANGED <<file, before>>,
           \/ todo.kind = "add" /\ todo.stamp = stamp + 1
           \/ todo.kind = "clear" /\ todo.stamp = stamp,
           stamp' = todo.stamp
    PROVE  Log!Begin(p)
<1> USE DEF HistoryInv
<1>1. /\ pc' = [pc EXCEPT ![p] = "open"] /\ change' = [change EXCEPT ![p] = todo]
      /\ clash' = LET changing == {q \in Programs : change[q] # None}
                  IN  IF changing = {} THEN clash ELSE clash \cup changing \cup {p}
  BY DEF Saving
<1>2. \A q \in Programs : pc'[q] = "write" <=> pc[q] = "write"
  BY <1>1 DEF HistoryTypes
<1>3. Durable' = Durable
  BY <1>2 DEF Durable, LoadDetachedHistory
<1>4. /\ todo.kind \in {"add", "clear"} /\ todo.container \in Containers
      /\ todo = [kind |-> todo.kind, container |-> todo.container, stamp |-> stamp']
      /\ stamp' = IF todo.kind = "add" THEN stamp + 1 ELSE stamp
  BY DEF Changes
<1>5. change[p] = None
  BY DEF UnderWay
<1>6. Log!None = None /\ Log!Changing = {q \in Programs : change[q] # None}
  BY DEF Log!None, None, Log!Changing
<1>7. UNCHANGED [c \in Containers |-> Stamps(Durable, c)]
  BY <1>3
<1>8. \E kind \in {"add", "clear"}, c \in Containers :
          /\ stamp' = IF kind = "add" THEN stamp + 1 ELSE stamp
          /\ change' = [change EXCEPT ![p] = [kind |-> kind, container |-> c, stamp |-> stamp']]
  BY <1>1, <1>4
<1>9. clash' = IF Log!Changing = {} THEN clash ELSE clash \cup Log!Changing \cup {p}
  BY <1>1, <1>6
<1> QED
  BY <1>5, <1>6, <1>7, <1>8, <1>9 DEF Log!Begin

(* A change that ends with the disk holding what was asked for, what was there or nothing; with
   commands once given, if it overlapped another. *)
LEMMA EndRefines ==
    ASSUME HistoryInv, HistoryInv', NEW p \in Programs, pc[p] # "idle", Done(p), UNCHANGED <<stamp, before>>,
           file' \in {file, Broken, [state |-> "list", entries |-> entries[p]]},
           pc[p] = "open" => file' = file
    PROVE  Log!Finish(p) \/ Log!CutOff(p)
<1> USE DEF HistoryInv
<1> DEFINE log == [c \in Containers |-> Stamps(Durable, c)]
<1>1. /\ pc' = [pc EXCEPT ![p] = "idle"] /\ change' = [change EXCEPT ![p] = None]
      /\ clash' = clash \ {p}
  BY DEF Done
<1>2. pc[p] \in {"open", "write"} /\ change[p] # None /\ Log!None = None
  BY DEF UnderWay, HistoryTypes, Log!None, None
<1>3. Log!End(p)
  BY <1>1, <1>2 DEF Log!End
<1>4. log = LogOf(Durable) /\ log' = LogOf(Durable')
  BY DEF LogOf
<1>5. CASE p \in clash
  <2>1. Sound(Durable', stamp)
    <3>1. Durable' \in {before', file'.entries, <<>>}
      BY DEF Durable, LoadDetachedHistory
    <3> QED
      BY <3>1, SoundNothing DEF ListsSound
  <2>2. \A c \in Containers : \A i \in DOMAIN log'[c] : log'[c][i] \in 1..stamp
    BY <1>4, <2>1, SoundLog
  <2> QED
    BY <1>3, <1>5, <2>2 DEF Log!Finish, Log!Muddled
<1>6. CASE p \notin clash
  <2>1. /\ \A q \in Programs : q # p => change[q] = None
        /\ entries[p] = Edited(change[p], Durable)
        /\ pc[p] = "write" => file.state = "empty"
    BY <1>2, <1>6 DEF Alone
  <2>2. \A q \in Programs : q # p => pc[q] = "idle"
    BY <2>1 DEF UnderWay
  <2>3. \A q \in Programs : pc'[q] # "write"
    BY <1>1, <2>2 DEF HistoryTypes
  <2>4. Durable' = IF file'.state = "list" THEN file'.entries ELSE <<>>
    BY <2>3 DEF Durable, LoadDetachedHistory
  <2>5. CASE pc[p] = "open"
    <3>1. Durable = LoadDetachedHistory
      BY <2>2, <2>5 DEF Durable
    <3>2. Durable' = Durable
      BY <2>4, <2>5, <3>1 DEF LoadDetachedHistory
    <3>3. log' = log
      BY <3>2
    <3> QED
      BY <1>3, <3>3 DEF Log!CutOff
  <2>6. CASE pc[p] = "write" /\ file' \in {file, Broken}
    <3>1. Durable' = <<>>
      BY <2>1, <2>4, <2>6 DEF Broken
    <3>2. log' = Log!Empty
      BY <1>4, <3>1, LogOfNothing
    <3> QED
      BY <1>3, <3>2 DEF Log!CutOff
  <2>7. CASE pc[p] = "write" /\ file' = [state |-> "list", entries |-> entries[p]]
    <3>1. Durable' = Edited(change[p], Durable)
      BY <2>1, <2>4, <2>7
    <3>2. change[p] \in Changes /\ Durable \in Seq(Commands)
      BY <1>2, LoadSound DEF HistoryTypes
    <3>3. log' = [log EXCEPT ![change[p].container] =
                     IF change[p].kind = "clear" THEN <<>> ELSE Log!Latest(<<change[p].stamp>> \o @)]
      BY <1>4, <3>1, <3>2, EditedLog
    <3>4. log' = Log!Made(change[p])
      BY <3>3 DEF Log!Made
    <3> QED
      BY <1>3, <3>4 DEF Log!Finish
  <2> QED
    BY <1>2, <2>5, <2>6, <2>7
<1> QED
  BY <1>5, <1>6

LEMMA StepRefines ==
    ASSUME HistoryInv, HistoryInv', Next
    PROVE  Log!Next \/ UNCHANGED Log!vars
<1> USE DEF HistoryInv
<1>1. ASSUME NEW p \in Programs, NEW c \in Containers, AddDetachedHistoryEntry(p, c)
      PROVE  Log!Begin(p)
  <2> DEFINE todo == [kind |-> "add", container |-> c, stamp |-> stamp + 1]
             list == Insert(LoadDetachedHistory, c, stamp + 1)
  <2>1. pc[p] = "idle" /\ Saving(p, todo, list) /\ UNCHANGED <<file, before>> /\ stamp' = stamp + 1
    BY <1>1 DEF AddDetachedHistoryEntry
  <2>2. todo \in Changes /\ todo.kind = "add" /\ todo.stamp = stamp + 1
    BY DEF HistoryTypes, Changes
  <2> HIDE DEF todo, list
  <2> QED
    BY <2>1, <2>2, BeginRefines
<1>2. ASSUME NEW p \in Programs, NEW selected \in 0..(MaxEntries + 1), ResolveHistory(p, selected),
             ClearDetachedHistory(p, modal[p].container)
      PROVE  Log!Begin(p)
  <2> DEFINE c == modal[p].container
             todo == [kind |-> "clear", container |-> c, stamp |-> stamp]
             list == Cleared(LoadDetachedHistory, c)
  <2>1. pc[p] = "idle" /\ c \in Containers /\ UNCHANGED <<file, stamp, before>>
    BY <1>2 DEF ResolveHistory, Shown
  <2>2. Saving(p, todo, list)
    BY <1>2 DEF ClearDetachedHistory
  <2>3. todo \in Changes /\ todo.kind = "clear" /\ todo.stamp = stamp
    BY <2>1 DEF HistoryTypes, Changes
  <2> HIDE DEF todo, list
  <2> QED
    BY <2>1, <2>2, <2>3, BeginRefines
<1>3. ASSUME Durable' = Durable, UNCHANGED <<change, clash, stamp>>
      PROVE  UNCHANGED Log!vars
  BY <1>3 DEF Log!vars
<1>4. ASSUME UNCHANGED <<file, pc, before, change, clash, stamp>>
      PROVE  UNCHANGED Log!vars
  <2>1. Durable' = Durable
    BY <1>4 DEF Durable, LoadDetachedHistory
  <2> QED
    BY <1>3, <1>4, <2>1
<1>5. ASSUME NEW p \in Programs, NEW c \in Containers, OpenHistory(p, c)
      PROVE  UNCHANGED Log!vars
  BY <1>4, <1>5 DEF OpenHistory, saving
<1>6. ASSUME NEW p \in Programs, NEW selected \in 0..(MaxEntries + 1), ResolveHistory(p, selected)
      PROVE  Log!Begin(p) \/ UNCHANGED Log!vars
  <2>1. ClearDetachedHistory(p, modal[p].container) \/ UNCHANGED <<file, pc, before, change, clash, stamp>>
    BY <1>6 DEF ResolveHistory, saving
  <2> QED
    BY <1>2, <1>4, <1>6, <2>1
<1>7. ASSUME NEW p \in Programs, Truncate(p)
      PROVE  UNCHANGED Log!vars
  BY <1>3, <1>7, TruncateKeeps DEF Truncate
<1>8. ASSUME NEW p \in Programs, Write(p) \/ Denied(p) \/ WriteFails(p) \/ Crash(p)
      PROVE  Log!Finish(p) \/ Log!CutOff(p)
  <2>1. /\ pc[p] # "idle" /\ Done(p) /\ UNCHANGED <<stamp, before>>
        /\ file' \in {file, Broken, [state |-> "list", entries |-> entries[p]]}
        /\ pc[p] = "open" => file' = file
    BY <1>8 DEF Write, Denied, WriteFails, Crash, Fault
  <2> QED
    BY <2>1, EndRefines
<1> QED
  BY <1>1, <1>5, <1>6, <1>7, <1>8 DEF Next, Log!Next

(* The history file with every program that saves to it, crashes and full disks included, is a
   CommandLog: a change made alone does what it says, or loses nothing or everything. *)
THEOREM HistoryIsLog == Spec => ImplementsLog
<1>1. Init => Log!Init
  <2> SUFFICES ASSUME Init
               PROVE  Log!Init
    OBVIOUS
  <2>1. Durable = <<>>
    BY DEF Init, Durable, LoadDetachedHistory
  <2>2. [c \in Containers |-> Stamps(Durable, c)] = Log!Empty
    BY <2>1, LogOfNothing DEF LogOf
  <2>3. Log!None = None
    BY DEF Log!None, None
  <2> QED
    BY <2>2, <2>3 DEF Init, Log!Init
<1>2. HistoryInv /\ HistoryInv' /\ [Next]_vars => [Log!Next]_Log!vars
  <2> SUFFICES ASSUME HistoryInv, HistoryInv', [Next]_vars
               PROVE  Log!Next \/ UNCHANGED Log!vars
    OBVIOUS
  <2>1. CASE Next
    BY <2>1, StepRefines
  <2>2. CASE UNCHANGED vars
    <3>1. UNCHANGED <<file, pc, before, change, clash, stamp>>
      BY <2>2 DEF vars, saving
    <3>2. Durable' = Durable
      BY <3>1 DEF Durable, LoadDetachedHistory
    <3> QED
      BY <3>1, <3>2 DEF Log!vars
  <2> QED
    BY <2>1, <2>2
<1> QED
  BY <1>1, <1>2, HistoryInductive, PTL DEF Spec, ImplementsLog, Log!Spec
=============================================================================
