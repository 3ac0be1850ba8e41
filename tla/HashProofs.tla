------------------------------- MODULE HashProofs -------------------------------
(***************************************************************************)
(* Proofs about computeConfigHash: the digest does not depend on the order *)
(* in which Go ranges over a map, and an edit of one entry always changes  *)
(* it.                                                                     *)
(*                                                                         *)
(* The sort has one result because the order of strings is a strict total  *)
(* one and keys are distinct.  Two maps that differ in one entry are       *)
(* written as the same pieces but one, which is added, removed or changed; *)
(* nothing after it can make up for that.                                  *)
(***************************************************************************)
EXTENDS ConfigHash, FiniteSetTheorems, WellFoundedInduction, TLAPS

\* A set of numbers that is not empty has a least one.
LEMMA LeastNumber ==
    ASSUME NEW T \in SUBSET Nat, T # {}
    PROVE  \E n \in T : \A m \in T : n <= m
<1> DEFINE R == {ss \in Nat \X Nat : ss[1] < ss[2]}
<1>1. IsWellFoundedOn(R, Nat)
  BY NatLessThanWellFounded DEF OpToRel
<1>2. \A m, k \in Nat : <<m, k>> \in R <=> m < k
  OBVIOUS
<1> HIDE DEF R
<1>3. PICK n \in T : \A m \in T : <<m, n>> \notin R
  BY <1>1, WFMin
<1>4. ASSUME NEW m \in T PROVE n <= m
  <2>1. m \in Nat /\ n \in Nat
    OBVIOUS
  <2>2. ~(m < n)
    BY <2>1, <1>2, <1>3
  <2> QED
    BY <2>1, <2>2
<1> QED
  BY <1>4

(***************************************************************************)
(* The order of strings.                                                   *)
(***************************************************************************)

\* a comes before b because of position d, where a has ended or has the smaller byte
First(a, b, d) ==
    /\ d \in 1 .. Len(b) /\ d <= Len(a) + 1
    /\ \A m \in 1 .. d - 1 : a[m] = b[m]
    /\ d <= Len(a) => a[d] < b[d]

\* A prefix agrees in every position.
LEMMA PrefixIs ==
    ASSUME NEW a \in Seq(Nat), NEW b \in Seq(Nat)
    PROVE  IsPrefix(a, b) <=> Len(a) <= Len(b) /\ \A m \in 1 .. Len(a) : a[m] = b[m]
<1>1. SubSeq(a, 1, Len(a)) = a
  OBVIOUS
<1>2. ASSUME Len(a) <= Len(b)
      PROVE  /\ SubSeq(b, 1, Len(a)) \in Seq(Nat) /\ Len(SubSeq(b, 1, Len(a))) = Len(a)
             /\ \A m \in 1 .. Len(a) : SubSeq(b, 1, Len(a))[m] = b[m]
  BY <1>2
<1>3. ASSUME Len(a) <= Len(b), \A m \in 1 .. Len(a) : a[m] = b[m]
      PROVE  a = SubSeq(b, 1, Len(a))
  BY <1>2, <1>3
<1> QED
  BY <1>1, <1>2, <1>3 DEF IsPrefix

\* Less is decided by one position.
LEMMA LessIs ==
    ASSUME NEW a \in Seq(Nat), NEW b \in Seq(Nat)
    PROVE  Less(a, b) <=> \E d \in 1 .. Len(b) : First(a, b, d)
<1>1. ASSUME IsStrictPrefix(a, b) PROVE First(a, b, Len(a) + 1)
  <2>1. Len(a) <= Len(b) /\ (\A m \in 1 .. Len(a) : a[m] = b[m]) /\ a # b
    BY <1>1, PrefixIs DEF IsStrictPrefix
  <2>2. Len(a) # Len(b)
    BY <2>1
  <2> QED
    BY <2>1, <2>2 DEF First
<1>2. ASSUME NEW n \in DOMAIN a \cap DOMAIN b, a[n] < b[n], \A m \in 1 .. n - 1 : a[m] = b[m]
      PROVE  First(a, b, n)
  BY <1>2 DEF First
<1>3. ASSUME NEW d \in 1 .. Len(b), First(a, b, d) PROVE Less(a, b)
  <2>1. CASE d = Len(a) + 1
    <3>1. IsPrefix(a, b) /\ Len(a) # Len(b)
      BY <1>3, <2>1, PrefixIs DEF First
    <3> QED
      BY <3>1 DEF Less, IsStrictPrefix
  <2>2. CASE d <= Len(a)
    BY <1>3, <2>2 DEF First, Less
  <2> QED
    BY <1>3, <2>1, <2>2 DEF First
<1>4. (\E d : First(a, b, d)) => \E d \in 1 .. Len(b) : First(a, b, d)
  BY DEF First
<1> QED
  BY <1>1, <1>2, <1>3, <1>4 DEF Less

\* It is total,
LEMMA LessTotal ==
    ASSUME NEW a \in Seq(Nat), NEW b \in Seq(Nat)
    PROVE  Less(a, b) \/ Less(b, a) \/ a = b
<1> DEFINE T == {n \in DOMAIN a \cap DOMAIN b : a[n] # b[n]}
<1>1. CASE T # {}
  <2>1. T \subseteq Nat
    OBVIOUS
  <2>2. PICK d \in T : \A m \in T : d <= m
    BY <1>1, <2>1, LeastNumber
  <2>3. /\ d \in 1 .. Len(a) /\ d \in 1 .. Len(b) /\ a[d] \in Nat /\ b[d] \in Nat
        /\ a[d] < b[d] \/ b[d] < a[d]
    OBVIOUS
  <2>4. ASSUME NEW m \in 1 .. d - 1 PROVE a[m] = b[m]
    BY <2>2, <2>3
  <2>5. First(a, b, d) \/ First(b, a, d)
    BY <2>3, <2>4 DEF First
  <2> QED
    BY <2>3, <2>5, LessIs
<1>2. CASE T = {}
  <2>1. \A m \in Nat : m \in 1 .. Len(a) /\ m \in 1 .. Len(b) => a[m] = b[m]
    BY <1>2
  <2> HIDE DEF T
  <2>2. CASE Len(a) = Len(b)
    <3>1. \A m \in 1 .. Len(a) : a[m] = b[m]
      BY <2>1, <2>2
    <3> QED
      BY <2>2, <3>1
  <2>3. CASE Len(a) < Len(b)
    <3>1. First(a, b, Len(a) + 1)
      BY <2>1, <2>3 DEF First
    <3> QED
      BY <2>3, <3>1, LessIs
  <2>4. CASE Len(b) < Len(a)
    <3>1. First(b, a, Len(b) + 1)
      BY <2>1, <2>4 DEF First
    <3> QED
      BY <2>4, <3>1, LessIs
  <2> QED
    BY <2>2, <2>3, <2>4
<1> QED
  BY <1>1, <1>2

\* irreflexive,
LEMMA LessIrreflexive == \A a \in Seq(Nat) : ~Less(a, a)
<1> TAKE a \in Seq(Nat)
<1>1. ASSUME NEW d \in 1 .. Len(a) PROVE ~First(a, a, d)
  BY DEF First
<1> QED
  BY <1>1, LessIs

\* and transitive.
LEMMA LessTransitive ==
    ASSUME NEW a \in Seq(Nat), NEW b \in Seq(Nat), NEW c \in Seq(Nat), Less(a, b), Less(b, c)
    PROVE  Less(a, c)
<1>1. PICK d \in 1 .. Len(b) : First(a, b, d)
  BY LessIs
<1>2. PICK e \in 1 .. Len(c) : First(b, c, e)
  BY LessIs
<1>3. \A m \in 1 .. Len(a) : a[m] \in Nat
  OBVIOUS
<1>4. \A m \in 1 .. Len(b) : b[m] \in Nat
  OBVIOUS
<1>5. \A m \in 1 .. Len(c) : c[m] \in Nat
  OBVIOUS
<1>6. CASE d < e
  <2>1. First(a, c, d)
    BY <1>1, <1>2, <1>3, <1>4, <1>5, <1>6 DEF First
  <2> QED
    BY <2>1, <1>2, <1>6, LessIs DEF First
<1>7. CASE e <= d
  <2>1. e <= Len(b) /\ b[e] < c[e] /\ e <= Len(a) + 1
    BY <1>1, <1>2, <1>7 DEF First
  <2>2. \A m \in 1 .. e - 1 : a[m] = c[m]
    BY <1>1, <1>2, <1>7 DEF First
  <2>3. e <= Len(a) => a[e] = b[e] \/ a[e] < b[e]
    BY <1>1, <1>7 DEF First
  <2>4. e <= Len(a) => a[e] < c[e]
    BY <2>1, <2>3, <1>3, <1>4, <1>5
  <2>5. First(a, c, e)
    BY <2>1, <2>2, <2>4 DEF First
  <2> QED
    BY <2>5, LessIs
<1> QED
  BY <1>6, <1>7

(***************************************************************************)
(* Sorting.  The keys of a map in some order are a sequence without        *)
(* repetition; one of them is sorted, and no other.                        *)
(***************************************************************************)

Increasing(s) == IsSorted(s, Less)

\* An order of a set is a sequence that has each of its elements, once.
LEMMA OrderIs ==
    ASSUME NEW D, IsFiniteSet(D), NEW s \in SetToSeqs(D)
    PROVE  /\ Cardinality(D) \in Nat
           /\ s \in [1 .. Cardinality(D) -> D]
           /\ s \in Seq(D) /\ Len(s) = Cardinality(D) /\ DOMAIN s = 1 .. Cardinality(D)
           /\ \A m, n \in 1 .. Cardinality(D) : s[m] = s[n] => m = n
           /\ \A k \in D : \E n \in 1 .. Cardinality(D) : s[n] = k
<1> DEFINE N == Cardinality(D)
<1>1. N \in Nat
  BY FS_CardinalityType
<1>2. /\ s \in [1 .. N -> D]
      /\ \A m, n \in 1 .. N : s[m] = s[n] => m = n
  BY DEF SetToSeqs
<1>3. s \in Injection(1 .. N, D)
  BY <1>2 DEF Injection, IsInjective
<1>4. Cardinality(1 .. N) = N
  BY <1>1, FS_Interval
<1>5. s \in Surjection(1 .. N, D)
  BY <1>3, <1>4, FS_Injection
<1>6. s \in Seq(D) /\ Len(s) = N
  BY <1>1, <1>2
<1> QED
  BY <1>1, <1>2, <1>5, <1>6 DEF Surjection

\* Two sorted orders of the same keys agree: at the first position where they did not,
\* each would have the smaller key.
LEMMA SortedIsUnique ==
    ASSUME NEW D \in SUBSET Seq(Nat), IsFiniteSet(D),
           NEW s \in SetToSeqs(D), NEW t \in SetToSeqs(D), Increasing(s), Increasing(t)
    PROVE  s = t
<1> DEFINE N == Cardinality(D)
           T == {n \in 1 .. N : s[n] # t[n]}
<1>1. /\ N \in Nat /\ Len(s) = N /\ Len(t) = N
      /\ s \in [1 .. N -> D] /\ t \in [1 .. N -> D]
      /\ \A k \in D : (\E n \in 1 .. N : s[n] = k) /\ (\E n \in 1 .. N : t[n] = k)
      /\ \A m, n \in 1 .. N : (s[m] = s[n] => m = n) /\ (t[m] = t[n] => m = n)
  <2>1. /\ N \in Nat /\ Len(s) = N /\ s \in [1 .. N -> D]
        /\ \A k \in D : \E n \in 1 .. N : s[n] = k
        /\ \A m, n \in 1 .. N : s[m] = s[n] => m = n
    BY OrderIs
  <2>2. /\ Len(t) = N /\ t \in [1 .. N -> D]
        /\ \A k \in D : \E n \in 1 .. N : t[n] = k
        /\ \A m, n \in 1 .. N : t[m] = t[n] => m = n
    BY OrderIs
  <2> HIDE DEF N
  <2> QED
    BY <2>1, <2>2
<1>2. \A m, n \in 1 .. N : m < n => Less(s[m], s[n]) /\ Less(t[m], t[n])
  BY <1>1 DEF Increasing, IsSorted
<1> HIDE DEF N
<1>3. T = {}
  <2>1. SUFFICES ASSUME T # {} PROVE FALSE
    OBVIOUS
  <2>2. T \subseteq Nat
    OBVIOUS
  <2>3. PICK d \in T : \A m \in T : d <= m
    BY <2>1, <2>2, LeastNumber
  <2>4. d \in 1 .. N /\ s[d] # t[d] /\ s[d] \in D /\ t[d] \in D
    BY <1>1
  <2>5. ASSUME NEW m \in 1 .. N, m < d PROVE s[m] = t[m]
    BY <2>3, <2>4, <2>5
  <2> HIDE DEF T
  <2>6. PICK m \in 1 .. N : t[m] = s[d]
    BY <1>1, <2>4
  <2>7. PICK n \in 1 .. N : s[n] = t[d]
    BY <1>1, <2>4
  <2>8. d < m
    <3>1. m # d
      BY <2>4, <2>6
    <3>2. ASSUME m < d PROVE FALSE
      BY <1>1, <2>4, <2>5, <2>6, <3>1, <3>2
    <3> QED
      BY <1>1, <2>4, <3>1, <3>2
  <2>9. d < n
    <3>1. n # d
      BY <2>4, <2>7
    <3>2. ASSUME n < d PROVE FALSE
      BY <1>1, <2>4, <2>5, <2>7, <3>1, <3>2
    <3> QED
      BY <1>1, <2>4, <3>1, <3>2
  <2>10. Less(t[d], s[d]) /\ Less(s[d], t[d])
    BY <1>2, <2>4, <2>6, <2>7, <2>8, <2>9
  <2> QED
    BY <2>4, <2>10, LessTransitive, LessIrreflexive
<1>4. \A n \in 1 .. N : s[n] = t[n]
  BY <1>3
<1> QED
  BY <1>1, <1>4

\* There is a sorted order: by the number of keys before each.
LEMMA SortedExists ==
    ASSUME NEW D \in SUBSET Seq(Nat), IsFiniteSet(D)
    PROVE  \E s \in SetToSeqs(D) : Increasing(s)
<1> DEFINE N == Cardinality(D)
           Below(k) == {x \in D : Less(x, k)}
           rank == [k \in D |-> Cardinality(Below(k)) + 1]
<1>1. N \in Nat
  BY FS_CardinalityType
<1>2. \A k \in D : IsFiniteSet(Below(k)) /\ Cardinality(Below(k)) \in Nat
  BY FS_Subset, FS_CardinalityType
<1>3. ASSUME NEW k \in D PROVE Cardinality(Below(k)) + 1 \in 1 .. N
  <2>1. /\ IsFiniteSet(D \ {k}) /\ Cardinality(D \ {k}) = N - 1
    BY FS_RemoveElement
  <2>2. Below(k) \in SUBSET (D \ {k})
    BY LessIrreflexive
  <2>3. Cardinality(Below(k)) <= N - 1
    BY <2>1, <2>2, FS_Subset
  <2>4. Cardinality(Below(k)) \in Nat
    BY <1>2
  <2> HIDE DEF N, Below
  <2> QED
    BY <1>1, <2>3, <2>4
<1>4. ASSUME NEW a \in D, NEW b \in D, Less(a, b) PROVE rank[a] < rank[b]
  <2>1. Below(a) \cup {a} \in SUBSET Below(b)
    BY <1>4, LessTransitive
  <2>2. a \notin Below(a)
    BY LessIrreflexive
  <2>3. Cardinality(Below(a) \cup {a}) = Cardinality(Below(a)) + 1
    BY <1>2, <2>2, FS_AddElement
  <2>4. Cardinality(Below(a) \cup {a}) <= Cardinality(Below(b))
    BY <1>2, <2>1, FS_Subset
  <2>5. /\ Cardinality(Below(a)) \in Nat /\ Cardinality(Below(b)) \in Nat
        /\ rank[a] = Cardinality(Below(a)) + 1 /\ rank[b] = Cardinality(Below(b)) + 1
    BY <1>2
  <2> HIDE DEF rank, Below
  <2> QED
    BY <2>3, <2>4, <2>5
<1>5. rank \in [D -> 1 .. N]
  BY <1>3
<1> HIDE DEF rank, N, Below
<1>6. \A a, b \in D : rank[a] = rank[b] => a = b
  BY <1>4, <1>5, LessTotal
<1>7. \A n \in 1 .. N : \E k \in D : rank[k] = n
  <2>1. rank \in Injection(D, 1 .. N)
    BY <1>5, <1>6 DEF Injection, IsInjective
  <2>2. IsFiniteSet(1 .. N) /\ Cardinality(1 .. N) = N
    BY <1>1, FS_Interval
  <2>3. rank \in Surjection(D, 1 .. N)
    BY <2>1, <2>2, FS_Injection DEF N
  <2> QED
    BY <2>3 DEF Surjection
<1> DEFINE s == [n \in 1 .. N |-> CHOOSE k \in D : rank[k] = n]
<1>8. \A n \in 1 .. N : s[n] \in D /\ rank[s[n]] = n
  BY <1>7
<1>9. s \in [1 .. N -> D]
  BY <1>8
<1>10. Len(s) = N
  BY <1>1, <1>9
<1> HIDE DEF s
<1>11. s \in SetToSeqs(D)
  BY <1>8, <1>9 DEF SetToSeqs, N
<1>12. ASSUME NEW m \in 1 .. N, NEW n \in 1 .. N, m < n PROVE Less(s[m], s[n])
  <2>1. /\ s[m] \in Seq(Nat) /\ s[n] \in Seq(Nat) /\ s[m] \in D /\ s[n] \in D
        /\ rank[s[m]] = m /\ rank[s[n]] = n
    BY <1>8
  <2>2. s[m] # s[n] /\ ~Less(s[n], s[m])
    BY <1>4, <1>12, <2>1
  <2> QED
    BY <2>1, <2>2, LessTotal
<1>13. Increasing(s)
  BY <1>10, <1>12 DEF Increasing, IsSorted
<1> QED
  BY <1>11, <1>13

\* What the sort returns, whatever the order it was given.
LEMMA SortedIs ==
    ASSUME NEW D \in SUBSET Seq(Nat), IsFiniteSet(D), NEW keys \in SetToSeqs(D)
    PROVE  Sorted(keys) \in SetToSeqs(D) /\ Increasing(Sorted(keys))
<1> DEFINE N == Cardinality(D)
           Rearranged(p) == [n \in DOMAIN keys |-> keys[p[n]]]
           best == CHOOSE p \in SetToSeqs(DOMAIN keys) : Increasing(Rearranged(p))
<1>1. /\ N \in Nat /\ DOMAIN keys = 1 .. N /\ keys \in [1 .. N -> D]
      /\ \A m, n \in 1 .. N : keys[m] = keys[n] => m = n
      /\ \A k \in D : \E n \in 1 .. N : keys[n] = k
  BY OrderIs
<1>2. Cardinality(1 .. N) = N
  BY <1>1, FS_Interval
<1>3. PICK s \in SetToSeqs(D) : Increasing(s)
  BY SortedExists
<1>4. s \in [1 .. N -> D] /\ \A m, n \in 1 .. N : s[m] = s[n] => m = n
  BY OrderIs
<1> HIDE DEF N
<1> DEFINE q == [n \in 1 .. N |-> CHOOSE m \in 1 .. N : keys[m] = s[n]]
<1>5. \A n \in 1 .. N : q[n] \in 1 .. N /\ keys[q[n]] = s[n]
  BY <1>1, <1>4
<1>6. q \in [1 .. N -> 1 .. N]
  BY <1>5
<1> HIDE DEF q
<1>7. \A m, n \in 1 .. N : q[m] = q[n] => m = n
  BY <1>4, <1>5
<1>8. q \in SetToSeqs(1 .. N)
  BY <1>2, <1>6, <1>7 DEF SetToSeqs
<1>9. Rearranged(q) = s
  BY <1>1, <1>4, <1>5
<1>10. best \in SetToSeqs(1 .. N) /\ Increasing(Rearranged(best))
  <2>1. Increasing(Rearranged(q))
    BY <1>3, <1>9
  <2>2. \E p \in SetToSeqs(DOMAIN keys) : Increasing(Rearranged(p))
    BY <1>1, <1>8, <2>1
  <2> HIDE DEF Increasing, Rearranged
  <2> QED
    BY <1>1, <2>2
<1>11. best \in [1 .. N -> 1 .. N] /\ \A m, n \in 1 .. N : best[m] = best[n] => m = n
  BY <1>2, <1>10 DEF SetToSeqs
<1>12. Sorted(keys) = Rearranged(best)
  BY DEF Sorted, Increasing
<1> HIDE DEF best
<1>13. Rearranged(best) \in [1 .. N -> D]
  BY <1>1, <1>11
<1>14. \A m, n \in 1 .. N : Rearranged(best)[m] = Rearranged(best)[n] => m = n
  BY <1>1, <1>11
<1>15. Rearranged(best) \in SetToSeqs(D)
  BY <1>13, <1>14 DEF SetToSeqs, N
<1> QED
  BY <1>10, <1>12, <1>15

(***************************************************************************)
(* The digest.                                                             *)
(***************************************************************************)

\* What is written for one map does not depend on the order in which it yields its keys.
LEMMA WrittenIsOne ==
    ASSUME NEW data \in DataMaps, NEW p \in Orders(data), NEW q \in Orders(data)
    PROVE  Written(data, p) = Written(data, q)
<1>1. DOMAIN data \in SUBSET Keys
  BY DEF DataMaps
<1>2. DOMAIN data \in SUBSET Seq(Nat) /\ IsFiniteSet(DOMAIN data)
  BY <1>1, HashAssumption, FS_Subset
<1>3. Sorted(p) = Sorted(q)
  BY <1>2, SortedIs, SortedIsUnique DEF Orders
<1> QED
  BY <1>3 DEF Written

\* Edits make maps of the same keys and values.
LEMMA EditsAreMaps ==
    ASSUME NEW data \in DataMaps
    PROVE  EditedOnce(data) \subseteq DataMaps
<1>1. PICK ks \in SUBSET Keys : data \in [ks -> Contents]
  BY DEF DataMaps
<1>2. ASSUME NEW k \in Keys, NEW v \in Contents PROVE With(data, k, v) \in DataMaps
  <2>1. With(data, k, v) \in [ks \cup {k} -> Contents]
    BY <1>1 DEF With
  <2> QED
    BY <2>1 DEF DataMaps
<1>3. ASSUME NEW k \in DOMAIN data PROVE Without(data, k) \in DataMaps
  <2>1. Without(data, k) \in [ks \ {k} -> Contents]
    BY <1>1 DEF Without
  <2> QED
    BY <2>1 DEF DataMaps
<1> QED
  BY <1>2, <1>3 DEF EditedOnce

\* The digest does not depend on Go's map iteration order (prerequisites.go: "Keys are
\* sorted to ensure deterministic output"), for any finite set of keys, any values and
\* however the prerequisites are edited or replaced.
THEOREM DigestIsDeterministic == Spec => []OrderIrrelevant
<1> DEFINE Typed == configMap \in DataMaps /\ secret \in DataMaps
<1>1. Init => Typed
  BY DEF Init
<1>2. Typed /\ [Next]_vars => Typed'
  BY EditsAreMaps DEF Next, Edit, Replace, vars
<1>3. Typed => OrderIrrelevant
  <2>1. SUFFICES ASSUME Typed, NEW p \in Orders(configMap), NEW q \in Orders(secret),
                        NEW u \in Orders(configMap), NEW v \in Orders(secret)
                 PROVE  Written(configMap, p) \o Written(secret, q) = Written(configMap, u) \o Written(secret, v)
    BY DEF OrderIrrelevant, Digests
  <2>2. Written(configMap, p) = Written(configMap, u) /\ Written(secret, q) = Written(secret, v)
    BY <2>1, WrittenIsOne
  <2> QED
    BY <2>2
<1> QED
  BY <1>1, <1>2, <1>3, PTL DEF Spec
(***************************************************************************)
(* Concatenation.  What FlattenSeq returns is the last of the partial      *)
(* results F[0], F[1], ...; facts about all of them are proved one         *)
(* position after the other.                                               *)
(***************************************************************************)

\* A set of numbers that has M, and with each below N the next, has all from M to N.
LEMMA Upward ==
    ASSUME NEW T, NEW M \in Nat, NEW N \in Nat,
           M \in T, \A n \in M .. N : n \in T /\ n # N => n + 1 \in T
    PROVE  \A n \in M .. N : n \in T
<1> DEFINE R == {n \in M .. N : n \notin T}
<1>1. SUFFICES ASSUME R # {} PROVE FALSE
  OBVIOUS
<1>2. R \in SUBSET Nat
  OBVIOUS
<1>3. PICK d \in R : \A m \in R : d <= m
  BY <1>1, <1>2, LeastNumber
<1>4. d \in M .. N /\ d \notin T
  OBVIOUS
<1>5. d # M
  BY <1>4
<1>6. d - 1 \in M .. N /\ d - 1 # N /\ (d - 1) + 1 = d /\ ~(d <= d - 1)
  BY <1>4, <1>5
<1>7. d - 1 \notin R
  BY <1>3, <1>6
<1>8. d - 1 \in T
  BY <1>6, <1>7
<1> QED
  BY <1>4, <1>6, <1>8

Pieces == Seq(Seq(Nat))

Partial(ss, n, F) ==
    /\ F \in [0 .. n -> Seq(Nat)] /\ F[0] = <<>>
    /\ \A i \in 1 .. n : F[i] = F[i - 1] \o ss[i]

\* Nothing can be cancelled wrongly.
LEMMA Cancel ==
    ASSUME NEW a \in Seq(Nat), NEW b \in Seq(Nat), NEW c \in Seq(Nat)
    PROVE  /\ a \o b = a \o c => b = c
           /\ b \o a = c \o a => b = c
           /\ Len(a \o b) = Len(a) + Len(b)
<1>1. ASSUME a \o b = a \o c PROVE b = c
  <2>1. Len(b) = Len(c)
    BY <1>1
  <2>2. ASSUME NEW i \in 1 .. Len(b) PROVE b[i] = c[i]
    <3>1. b[i] = (a \o b)[Len(a) + i] /\ c[i] = (a \o c)[Len(a) + i]
      BY <2>1
    <3> QED
      BY <3>1, <1>1
  <2> QED
    BY <2>1, <2>2
<1>2. ASSUME b \o a = c \o a PROVE b = c
  <2>1. Len(b) = Len(c)
    BY <1>2
  <2>2. ASSUME NEW i \in 1 .. Len(b) PROVE b[i] = c[i]
    <3>1. b[i] = (b \o a)[i] /\ c[i] = (c \o a)[i]
      BY <2>1
    <3> QED
      BY <3>1, <1>2
  <2> QED
    BY <2>1, <2>2
<1>3. Len(a \o b) = Len(a) + Len(b)
  OBVIOUS
<1> QED
  BY <1>1, <1>2, <1>3

\* There are partial results up to any position.
LEMMA PartialExists ==
    ASSUME NEW ss \in Pieces
    PROVE  \E F : Partial(ss, Len(ss), F)
<1> DEFINE T == {n \in Nat : \E F : Partial(ss, n, F)}
<1>0. Len(ss) \in Nat /\ \A i \in 1 .. Len(ss) : ss[i] \in Seq(Nat)
  BY DEF Pieces
<1>1. 0 \in T
  <2> DEFINE F == [i \in 0 .. 0 |-> <<>>]
  <2>1. F \in [0 .. 0 -> Seq(Nat)] /\ F[0] = <<>>
    OBVIOUS
  <2>2. Partial(ss, 0, F)
    BY <2>1 DEF Partial
  <2> QED
    BY <2>2
<1>2. ASSUME NEW n \in 0 .. Len(ss), n \in T, n # Len(ss) PROVE n + 1 \in T
  <2>1. PICK F : Partial(ss, n, F)
    BY <1>2
  <2>2. /\ n \in Nat /\ n + 1 \in 1 .. Len(ss) /\ n \in 0 .. n /\ 0 \in 0 .. n
        /\ n + 1 \in Nat /\ n + 1 \in 0 .. n + 1 /\ (n + 1) - 1 = n
    BY <1>0, <1>2
  <2>3. /\ F \in [0 .. n -> Seq(Nat)] /\ F[0] = <<>>
        /\ \A i \in 1 .. n : F[i] = F[i - 1] \o ss[i]
    BY <2>1 DEF Partial
  <2> DEFINE last == F[n] \o ss[n + 1]
             G == [i \in 0 .. n + 1 |-> IF i = n + 1 THEN last ELSE F[i]]
  <2>4. last \in Seq(Nat)
    <3>1. F[n] \in Seq(Nat) /\ ss[n + 1] \in Seq(Nat)
      BY <1>0, <2>2, <2>3
    <3> QED
      BY <3>1
  <2> HIDE DEF last
  <2>5. G[n + 1] = last /\ \A i \in 0 .. n : G[i] = F[i]
    BY <2>2
  <2>6. G \in [0 .. n + 1 -> Seq(Nat)]
    BY <2>2, <2>3, <2>4
  <2> HIDE DEF G
  <2> USE DEF last
  <2>7. ASSUME NEW i \in 1 .. n + 1 PROVE G[i] = G[i - 1] \o ss[i]
    <3>1. CASE i = n + 1
      <4>1. G[i] = F[n] \o ss[n + 1] /\ G[n] = F[n]
        BY <2>2, <2>5, <3>1
      <4> QED
        BY <2>2, <3>1, <4>1
    <3>2. CASE i # n + 1
      <4>1. i \in 1 .. n /\ i \in 0 .. n /\ i - 1 \in 0 .. n
        BY <2>2, <3>2
      <4>2. G[i] = F[i] /\ G[i - 1] = F[i - 1] /\ F[i] = F[i - 1] \o ss[i]
        BY <2>3, <2>5, <4>1
      <4> QED
        BY <4>2
    <3> QED
      BY <3>1, <3>2
  <2>8. G[0] = <<>>
    BY <2>2, <2>3, <2>5
  <2>9. Partial(ss, n + 1, G)
    BY <2>6, <2>7, <2>8 DEF Partial
  <2> QED
    BY <2>2, <2>9
<1> HIDE DEF T
<1>3. \A n \in 0 .. Len(ss) : n \in T /\ n # Len(ss) => n + 1 \in T
  BY <1>2
<1>4. \A n \in 0 .. Len(ss) : n \in T
  BY <1>0, <1>1, <1>3, Upward
<1> QED
  BY <1>0, <1>4 DEF T

\* The last one is what FlattenSeq returns.
LEMMA FlattenIs ==
    ASSUME NEW ss \in Pieces, NEW F, Partial(ss, Len(ss), F)
    PROVE  FlattenSeq(ss) = F[Len(ss)]
<1> DEFINE Rec(f) == [i \in 1 .. Len(ss) |-> IF i = 1 THEN ss[i] ELSE f[i - 1] \o ss[i]]
           flatten == CHOOSE f : f = Rec(f)
           h == [i \in 1 .. Len(ss) |-> F[i]]
<1>0. Len(ss) \in Nat /\ \A i \in 1 .. Len(ss) : ss[i] \in Seq(Nat)
  BY DEF Pieces
<1>1. CASE Len(ss) = 0
  <2>1. ss = <<>>
    BY <1>1 DEF Pieces
  <2>2. FlattenSeq(ss) = ss
    BY <2>1 DEF FlattenSeq
  <2>3. F[0] = <<>>
    BY DEF Partial
  <2> QED
    BY <1>1, <2>1, <2>2, <2>3
<1>2. CASE Len(ss) # 0
  <2>1. FlattenSeq(ss) = flatten[Len(ss)]
    BY <1>2 DEF FlattenSeq
  <2>2. ASSUME NEW i \in 1 .. Len(ss)
        PROVE  h[i] = IF i = 1 THEN ss[i] ELSE h[i - 1] \o ss[i]
    <3>1. F[i] = F[i - 1] \o ss[i] /\ F[0] = <<>>
      BY DEF Partial
    <3>2. CASE i = 1
      <4>1. ss[i] \in Seq(Nat) /\ i - 1 = 0
        BY <1>0, <3>2
      <4>2. F[i] = <<>> \o ss[i]
        BY <3>1, <4>1
      <4>3. <<>> \o ss[i] = ss[i]
        BY <4>1
      <4> QED
        BY <3>2, <4>2, <4>3
    <3>3. CASE i # 1
      <4>1. i - 1 \in 1 .. Len(ss)
        BY <1>0, <3>3
      <4> QED
        BY <3>1, <3>3, <4>1
    <3> QED
      BY <3>2, <3>3
  <2>3. h = Rec(h)
    BY <2>2
  <2>4. flatten = Rec(flatten)
    <3> HIDE DEF h, Rec
    <3> QED
      BY <2>3
  <2> HIDE DEF flatten
  <2>5. \A i \in 1 .. Len(ss) : flatten[i] = IF i = 1 THEN ss[i] ELSE flatten[i - 1] \o ss[i]
    BY <2>4
  <2> DEFINE T == {i \in Nat : flatten[i] = h[i]}
  <2> HIDE DEF h
  <2>6. 1 \in 1 .. Len(ss) /\ Len(ss) \in 1 .. Len(ss)
    BY <1>0, <1>2
  <2>7. flatten[1] = h[1]
    BY <2>2, <2>5, <2>6
  <2>8. ASSUME NEW i \in 1 .. Len(ss), i # Len(ss), flatten[i] = h[i]
        PROVE  flatten[i + 1] = h[i + 1]
    <3>1. i + 1 \in 1 .. Len(ss) /\ i + 1 # 1 /\ (i + 1) - 1 = i
      BY <1>0, <2>8
    <3> QED
      BY <2>2, <2>5, <2>8, <3>1
  <2>9. \A i \in 1 .. Len(ss) : i \in T
    <3>1. 1 \in T
      BY <2>7
    <3>2. \A i \in 1 .. Len(ss) : i \in T /\ i # Len(ss) => i + 1 \in T
      BY <2>8
    <3> HIDE DEF T
    <3> QED
      BY <1>0, <3>1, <3>2, Upward
  <2> QED
    BY <2>1, <2>6, <2>9 DEF h
<1> QED
  BY <1>1, <1>2

SamePieces(ss, tt, n) == \A i \in 1 .. n : ss[i] = tt[i]

\* Where pieces agree, partial results do.
LEMMA PartialAgree ==
    ASSUME NEW ss, NEW tt, NEW M \in Nat, NEW N \in Nat, NEW F, NEW G,
           Partial(ss, M, F), Partial(tt, N, G),
           NEW n \in Nat, n <= M, n <= N, SamePieces(ss, tt, n)
    PROVE  F[n] = G[n]
<1> DEFINE T == {i \in Nat : F[i] = G[i]}
<1>1. 0 \in T
  BY DEF Partial
<1>2. ASSUME NEW i \in 0 .. n, i \in T, i # n PROVE i + 1 \in T
  <2>1. /\ i + 1 \in 1 .. n /\ i + 1 \in 1 .. M /\ i + 1 \in 1 .. N
        /\ i + 1 \in Nat /\ (i + 1) - 1 = i
    BY <1>2
  <2>2. F[i + 1] = F[i] \o ss[i + 1] /\ G[i + 1] = G[i] \o tt[i + 1]
    BY <2>1 DEF Partial
  <2>3. ss[i + 1] = tt[i + 1]
    BY <2>1 DEF SamePieces
  <2> QED
    BY <1>2, <2>1, <2>2, <2>3
<1> HIDE DEF T
<1>3. \A i \in 0 .. n : i \in T /\ i # n => i + 1 \in T
  BY <1>2
<1>4. \A i \in 0 .. n : i \in T
  BY <1>1, <1>3, Upward
<1> QED
  BY <1>4 DEF T

\* One piece that changes shows in the result.
LEMMA ChangeShows ==
    ASSUME NEW ss \in Pieces, NEW tt \in Pieces, Len(ss) = Len(tt), NEW j \in 1 .. Len(ss),
           ss[j] # tt[j], \A i \in 1 .. Len(ss) : i # j => ss[i] = tt[i]
    PROVE  FlattenSeq(ss) # FlattenSeq(tt)
<1>0. /\ Len(ss) \in Nat
      /\ \A i \in 1 .. Len(ss) : ss[i] \in Seq(Nat) /\ tt[i] \in Seq(Nat)
  BY DEF Pieces
<1>1. PICK F : Partial(ss, Len(ss), F)
  BY PartialExists
<1>2. PICK G : Partial(tt, Len(ss), G)
  BY PartialExists
<1>3. FlattenSeq(ss) = F[Len(ss)] /\ FlattenSeq(tt) = G[Len(ss)]
  BY <1>1, <1>2, FlattenIs
<1>4. \A i \in 1 .. Len(ss) : F[i] = F[i - 1] \o ss[i] /\ G[i] = G[i - 1] \o tt[i]
  BY <1>1, <1>2 DEF Partial
<1>5. \A i \in 0 .. Len(ss) : F[i] \in Seq(Nat) /\ G[i] \in Seq(Nat)
  BY <1>1, <1>2 DEF Partial
<1>6. F[j - 1] = G[j - 1]
  <2>1. j - 1 \in Nat /\ j - 1 <= Len(ss) /\ SamePieces(ss, tt, j - 1)
    BY <1>0 DEF SamePieces
  <2> QED
    BY <1>0, <1>1, <1>2, <2>1, PartialAgree
<1> DEFINE T == {i \in Nat : F[i] # G[i]}
<1>7. j \in T
  <2>1. j - 1 \in 0 .. Len(ss)
    BY <1>0
  <2>2. F[j - 1] \in Seq(Nat) /\ ss[j] \in Seq(Nat) /\ tt[j] \in Seq(Nat)
    BY <1>0, <1>5, <2>1
  <2>3. F[j - 1] \o ss[j] # F[j - 1] \o tt[j]
    BY <2>2, Cancel
  <2>4. F[j] # G[j]
    BY <1>4, <1>6, <2>3
  <2> QED
    BY <2>4
<1>8. ASSUME NEW i \in j .. Len(ss), i \in T, i # Len(ss) PROVE i + 1 \in T
  <2>1. i \in 0 .. Len(ss) /\ i + 1 \in 1 .. Len(ss) /\ i + 1 \in Nat /\ (i + 1) - 1 = i /\ i + 1 # j
    BY <1>0, <1>8
  <2>2. F[i + 1] = F[i] \o ss[i + 1] /\ G[i + 1] = G[i] \o ss[i + 1]
    BY <1>4, <2>1
  <2>3. F[i] \in Seq(Nat) /\ G[i] \in Seq(Nat) /\ ss[i + 1] \in Seq(Nat)
    BY <1>0, <1>5, <2>1
  <2>4. F[i] # G[i]
    BY <1>8
  <2>5. F[i] \o ss[i + 1] # G[i] \o ss[i + 1]
    BY <2>3, <2>4, Cancel
  <2> QED
    BY <2>1, <2>2, <2>5
<1> HIDE DEF T
<1>9. \A i \in j .. Len(ss) : i \in T /\ i # Len(ss) => i + 1 \in T
  BY <1>8
<1>10. j \in Nat /\ Len(ss) \in j .. Len(ss)
  BY <1>0
<1>11. \A i \in j .. Len(ss) : i \in T
  BY <1>0, <1>7, <1>9, <1>10, Upward
<1> QED
  BY <1>3, <1>10, <1>11 DEF T

\* One piece that is added makes the result longer.
LEMMA AdditionShows ==
    ASSUME NEW ss \in Pieces, NEW tt \in Pieces, Len(tt) = Len(ss) + 1, NEW j \in 1 .. Len(tt),
           tt[j] # <<>>, \A i \in 1 .. j - 1 : tt[i] = ss[i], \A i \in j .. Len(ss) : tt[i + 1] = ss[i]
    PROVE  FlattenSeq(ss) # FlattenSeq(tt)
<1>0. /\ Len(ss) \in Nat
      /\ \A i \in 1 .. Len(ss) : ss[i] \in Seq(Nat)
      /\ \A i \in 1 .. Len(ss) + 1 : tt[i] \in Seq(Nat)
  BY DEF Pieces
<1>1. PICK F : Partial(ss, Len(ss), F)
  BY PartialExists
<1>2. PICK G : Partial(tt, Len(ss) + 1, G)
  BY PartialExists
<1>3. FlattenSeq(ss) = F[Len(ss)] /\ FlattenSeq(tt) = G[Len(ss) + 1]
  BY <1>1, <1>2, FlattenIs
<1>4. /\ \A i \in 1 .. Len(ss) : F[i] = F[i - 1] \o ss[i]
      /\ \A i \in 1 .. Len(ss) + 1 : G[i] = G[i - 1] \o tt[i]
  BY <1>1, <1>2 DEF Partial
<1>5. /\ \A i \in 0 .. Len(ss) : F[i] \in Seq(Nat)
      /\ \A i \in 0 .. Len(ss) + 1 : G[i] \in Seq(Nat)
  BY <1>1, <1>2 DEF Partial
<1>6. j - 1 \in 0 .. Len(ss) /\ j \in Nat /\ Len(ss) + 1 \in Nat /\ Len(ss) + 1 \in j .. Len(ss) + 1
  BY <1>0
<1>7. F[j - 1] = G[j - 1]
  <2>1. j - 1 \in Nat /\ j - 1 <= Len(ss) /\ j - 1 <= Len(tt) /\ Len(tt) \in Nat
    BY <1>0
  <2>2. SamePieces(ss, tt, j - 1)
    BY <1>0 DEF SamePieces
  <2>3. Partial(tt, Len(tt), G)
    BY <1>2
  <2> QED
    BY <1>0, <1>1, <2>1, <2>2, <2>3, PartialAgree
<1> DEFINE T == {i \in Nat : Len(F[i - 1]) < Len(G[i])}
<1>8. j \in T
  <2>1. G[j] = F[j - 1] \o tt[j]
    BY <1>4, <1>7
  <2>2. F[j - 1] \in Seq(Nat) /\ tt[j] \in Seq(Nat)
    BY <1>0, <1>5, <1>6
  <2>3. Len(tt[j]) # 0 /\ Len(tt[j]) \in Nat /\ Len(F[j - 1]) \in Nat
    BY <2>2
  <2>4. Len(G[j]) = Len(F[j - 1]) + Len(tt[j])
    BY <2>1, <2>2, Cancel
  <2>5. Len(F[j - 1]) < Len(G[j])
    BY <2>3, <2>4
  <2> QED
    BY <1>6, <2>5
<1>9. ASSUME NEW i \in j .. Len(ss) + 1, i \in T, i # Len(ss) + 1 PROVE i + 1 \in T
  <2>1. /\ i - 1 \in 0 .. Len(ss) /\ i \in 0 .. Len(ss) + 1 /\ i \in j .. Len(ss)
        /\ i \in 1 .. Len(ss) /\ i + 1 \in 1 .. Len(ss) + 1
        /\ i + 1 \in Nat /\ (i + 1) - 1 = i
    <3>1. i # Len(ss) + 1
      BY <1>9
    <3> HIDE DEF T
    <3> QED
      BY <1>0, <1>6, <3>1
  <2>2. F[i] = F[i - 1] \o ss[i] /\ G[i + 1] = G[i] \o ss[i]
    BY <1>4, <2>1
  <2>3. F[i - 1] \in Seq(Nat) /\ G[i] \in Seq(Nat) /\ ss[i] \in Seq(Nat)
    BY <1>0, <1>5, <2>1
  <2>4. Len(F[i]) = Len(F[i - 1]) + Len(ss[i]) /\ Len(G[i + 1]) = Len(G[i]) + Len(ss[i])
    BY <2>2, <2>3, Cancel
  <2>5. /\ Len(F[i - 1]) \in Nat /\ Len(G[i]) \in Nat /\ Len(ss[i]) \in Nat
        /\ Len(F[i - 1]) < Len(G[i])
    BY <2>3, <1>9
  <2>6. \A a, b, c \in Nat : a < b => a + c < b + c
    OBVIOUS
  <2>7. Len(F[i]) < Len(G[i + 1])
    BY <2>4, <2>5, <2>6
  <2> QED
    BY <2>1, <2>7
<1> HIDE DEF T
<1>10. \A i \in j .. Len(ss) + 1 : i \in T /\ i # Len(ss) + 1 => i + 1 \in T
  BY <1>9
<1>11. \A i \in j .. Len(ss) + 1 : i \in T
  BY <1>6, <1>8, <1>10, Upward
<1>12. Len(F[Len(ss)]) < Len(G[Len(ss) + 1])
  <2>1. Len(ss) + 1 \in T /\ (Len(ss) + 1) - 1 = Len(ss)
    BY <1>0, <1>6, <1>11
  <2> QED
    BY <2>1 DEF T
<1>13. Len(F[Len(ss)]) \in Nat
  <2>1. Len(ss) \in 0 .. Len(ss)
    BY <1>0
  <2>2. F[Len(ss)] \in Seq(Nat)
    BY <1>5, <2>1
  <2> QED
    BY <2>2
<1> QED
  BY <1>3, <1>12, <1>13

(***************************************************************************)
(* Edits of one entry.                                                     *)
(***************************************************************************)

\* What is written of each key, in the order s
Entries(data, s) == [n \in DOMAIN s |-> s[n] \o data[s[n]]]

\* Keys of a map, of which there are finitely many
LEMMA KeysAre ==
    ASSUME NEW data \in DataMaps
    PROVE  /\ DOMAIN data \in SUBSET (Seq(Nat) \ {<<>>}) /\ DOMAIN data \in SUBSET Seq(Nat)
           /\ IsFiniteSet(DOMAIN data)
           /\ \A k \in DOMAIN data : data[k] \in Seq(Nat)
<1>1. PICK ks \in SUBSET Keys : data \in [ks -> Contents]
  BY DEF DataMaps
<1>2. DOMAIN data = ks /\ \A k \in ks : data[k] \in Contents
  BY <1>1
<1> QED
  BY <1>1, <1>2, HashAssumption, FS_Subset

\* What is written of a map is the concatenation of its entries in the one sorted order.
LEMMA WrittenIs ==
    ASSUME NEW data \in DataMaps, NEW o \in Orders(data)
    PROVE  \E s \in SetToSeqs(DOMAIN data) :
              /\ Increasing(s)
              /\ Entries(data, s) \in Pieces /\ Len(Entries(data, s)) = Len(s)
              /\ DOMAIN s = 1 .. Len(s) /\ Len(s) \in Nat
              /\ \A n \in 1 .. Len(s) :
                    s[n] \in DOMAIN data /\ Entries(data, s)[n] = s[n] \o data[s[n]]
              /\ Written(data, o) = FlattenSeq(Entries(data, s))
              /\ Written(data, o) \in Seq(Nat)
<1> DEFINE s == Sorted(o)
           N == Cardinality(DOMAIN data)
<1>1. s \in SetToSeqs(DOMAIN data) /\ Increasing(s)
  BY KeysAre, SortedIs DEF Orders
<1>2. Written(data, o) = FlattenSeq(Entries(data, s))
  BY DEF Written, Entries
<1> HIDE DEF s
<1>3. N \in Nat /\ s \in [1 .. N -> DOMAIN data] /\ Len(s) = N /\ DOMAIN s = 1 .. N
  BY <1>1, KeysAre, OrderIs
<1> HIDE DEF N
<1>4. ASSUME NEW n \in 1 .. N PROVE s[n] \in DOMAIN data /\ s[n] \o data[s[n]] \in Seq(Nat)
  <2>1. s[n] \in DOMAIN data
    BY <1>3
  <2>2. s[n] \in Seq(Nat) /\ data[s[n]] \in Seq(Nat)
    BY <2>1, KeysAre
  <2> QED
    BY <2>1, <2>2
<1>5. Entries(data, s) \in [1 .. N -> Seq(Nat)]
  BY <1>3, <1>4 DEF Entries
<1>6. \A n \in 1 .. N : Entries(data, s)[n] = s[n] \o data[s[n]]
  BY <1>3 DEF Entries
<1>7. Entries(data, s) \in Pieces /\ Len(Entries(data, s)) = N
  BY <1>3, <1>5 DEF Pieces
<1>8. FlattenSeq(Entries(data, s)) \in Seq(Nat)
  <2>1. PICK F : Partial(Entries(data, s), Len(Entries(data, s)), F)
    BY <1>7, PartialExists
  <2>2. FlattenSeq(Entries(data, s)) = F[N]
    BY <2>1, <1>7, FlattenIs
  <2>3. F[N] \in Seq(Nat)
    BY <2>1, <1>3, <1>7 DEF Partial
  <2> QED
    BY <2>2, <2>3
<1> QED
  BY <1>1, <1>2, <1>3, <1>4, <1>6, <1>7, <1>8

\* s is t without its element at j
DropsAt(t, s, j) ==
    /\ \A i \in 1 .. j - 1 : t[i] = s[i]
    /\ \A i \in j .. Len(s) : t[i + 1] = s[i]

\* The sorted order without one key: those after it move down by one.
LEMMA Removal ==
    ASSUME NEW D \in SUBSET Seq(Nat), IsFiniteSet(D), NEW k \in D,
           NEW t \in SetToSeqs(D), Increasing(t),
           NEW s \in SetToSeqs(D \ {k}), Increasing(s)
    PROVE  /\ Len(t) = Len(s) + 1
           /\ \E j \in 1 .. Len(t) : t[j] = k /\ DropsAt(t, s, j)
<1> DEFINE N == Cardinality(D \ {k})
<1>1. /\ D \ {k} \in SUBSET Seq(Nat) /\ IsFiniteSet(D \ {k}) /\ N \in Nat
      /\ Cardinality(D) \in Nat /\ N = Cardinality(D) - 1
  BY FS_RemoveElement, FS_CardinalityType
<1>2. Cardinality(D) = N + 1
  <2> HIDE DEF N
  <2> QED
    BY <1>1
<1>3. Len(s) = N
  BY <1>1, OrderIs
<1>4. /\ t \in [1 .. N + 1 -> D] /\ Len(t) = N + 1
      /\ \A m, n \in 1 .. N + 1 : t[m] = t[n] => m = n
      /\ \E n \in 1 .. N + 1 : t[n] = k
  <2>1. /\ t \in [1 .. Cardinality(D) -> D] /\ Len(t) = Cardinality(D)
        /\ \A m, n \in 1 .. Cardinality(D) : t[m] = t[n] => m = n
    BY OrderIs
  <2>2. \E n \in 1 .. Cardinality(D) : t[n] = k
    BY OrderIs
  <2> HIDE DEF N
  <2> QED
    BY <1>2, <2>1, <2>2
<1>5. PICK j \in 1 .. N + 1 : t[j] = k
  BY <1>4
<1> DEFINE at(n) == IF n < j THEN n ELSE n + 1
           u == [n \in 1 .. N |-> t[at(n)]]
<1>6. \A n \in 1 .. N : u[n] = t[at(n)]
  OBVIOUS
<1>7. DOMAIN u = 1 .. N
  OBVIOUS
<1>8. u \in [1 .. N -> D \ {k}]
  <2>1. ASSUME NEW n \in 1 .. N PROVE t[at(n)] \in D \ {k}
    <3> HIDE DEF N
    <3>1. at(n) \in 1 .. N + 1 /\ at(n) # j
      BY <1>1, <1>5
    <3> HIDE DEF at
    <3> QED
      BY <3>1, <1>4, <1>5
  <2> HIDE DEF N, at
  <2> QED
    BY <2>1
<1>9. \A m, n \in 1 .. N : m < n => at(m) < at(n) /\ at(m) \in 1 .. N + 1 /\ at(n) \in 1 .. N + 1
  <2> HIDE DEF N
  <2> QED
    BY <1>1, <1>5
<1>10. Len(u) = N
  <2> HIDE DEF N, at, u
  <2> QED
    BY <1>1, <1>7, <1>8
<1>11. \A m, n \in 1 .. N + 1 : m < n => Less(t[m], t[n])
  <2> HIDE DEF N
  <2> QED
    BY <1>4 DEF Increasing, IsSorted
<1> HIDE DEF u
<1>12. \A m, n \in 1 .. N : m < n => Less(u[m], u[n]) /\ u[m] # u[n]
  <2> HIDE DEF N
  <2>1. TAKE m, n \in 1 .. N
  <2>2. HAVE m < n
  <2> HIDE DEF at
  <2>3. at(m) < at(n) /\ at(m) \in 1 .. N + 1 /\ at(n) \in 1 .. N + 1
    BY <1>9, <2>2
  <2>4. at(m) # at(n)
    BY <2>3
  <2>5. u[m] = t[at(m)] /\ u[n] = t[at(n)]
    BY <1>6
  <2> QED
    BY <1>4, <1>11, <2>3, <2>4, <2>5
<1>13. Increasing(u)
  <2> HIDE DEF N, at
  <2> QED
    BY <1>10, <1>12 DEF Increasing, IsSorted
<1>14. \A m, n \in 1 .. N : u[m] = u[n] => m = n
  <2> HIDE DEF N, at
  <2> QED
    BY <1>1, <1>12
<1>15. u \in SetToSeqs(D \ {k})
  BY <1>8, <1>14 DEF SetToSeqs
<1>16. u = s
  BY <1>1, <1>13, <1>15, SortedIsUnique
<1> HIDE DEF N
<1>17. \A i \in 1 .. j - 1 : t[i] = s[i]
  <2> TAKE i \in 1 .. j - 1
  <2>1. i \in 1 .. N /\ at(i) = i
    BY <1>1, <1>5
  <2> QED
    BY <2>1, <1>6, <1>16
<1>18. \A i \in j .. N : t[i + 1] = s[i]
  <2> TAKE i \in j .. N
  <2>1. i \in 1 .. N /\ at(i) = i + 1
    BY <1>1, <1>5
  <2> QED
    BY <2>1, <1>6, <1>16
<1> QED
  BY <1>3, <1>4, <1>5, <1>17, <1>18 DEF DropsAt

\* The entry of one key shows in what is written.
LEMMA EntryShows ==
    ASSUME NEW data \in DataMaps, NEW k \in DOMAIN data, NEW less \in DataMaps,
           less = Without(data, k), NEW p \in Orders(data), NEW q \in Orders(less)
    PROVE  Written(data, p) # Written(less, q)
<1> DEFINE D == DOMAIN data
<1>1. /\ D \in SUBSET (Seq(Nat) \ {<<>>}) /\ D \in SUBSET Seq(Nat) /\ IsFiniteSet(D)
      /\ \A x \in D : data[x] \in Seq(Nat)
  BY KeysAre
<1>2. DOMAIN less = D \ {k} /\ \A x \in D \ {k} : less[x] = data[x]
  BY DEF Without
<1> DEFINE IsOrder(d, s, w) ==
              /\ s \in SetToSeqs(DOMAIN d) /\ Increasing(s)
              /\ Entries(d, s) \in Pieces /\ Len(Entries(d, s)) = Len(s) /\ Len(s) \in Nat
              /\ \A n \in 1 .. Len(s) :
                    s[n] \in DOMAIN d /\ Entries(d, s)[n] = s[n] \o d[s[n]]
              /\ w = FlattenSeq(Entries(d, s))
<1>3. PICK t : IsOrder(data, t, Written(data, p))
  BY WrittenIs
<1>4. PICK s : IsOrder(less, s, Written(less, q))
  BY WrittenIs
<1>5. /\ Len(t) = Len(s) + 1
      /\ \E j \in 1 .. Len(t) : t[j] = k /\ DropsAt(t, s, j)
  <2>1. s \in SetToSeqs(D \ {k}) /\ Increasing(s) /\ t \in SetToSeqs(D) /\ Increasing(t)
    BY <1>2, <1>3, <1>4
  <2> QED
    BY <1>1, <2>1, Removal
<1>6. PICK j \in 1 .. Len(t) : t[j] = k /\ DropsAt(t, s, j)
  BY <1>5
<1> DEFINE tt == Entries(data, t)
           ss == Entries(less, s)
<1>7. /\ ss \in Pieces /\ tt \in Pieces /\ Len(ss) = Len(s) /\ Len(tt) = Len(t)
      /\ Len(s) \in Nat /\ Len(t) = Len(s) + 1
      /\ \A n \in 1 .. Len(t) : tt[n] = t[n] \o data[t[n]]
      /\ \A n \in 1 .. Len(s) : ss[n] = s[n] \o data[s[n]]
  <2>1. /\ ss \in Pieces /\ tt \in Pieces /\ Len(ss) = Len(s) /\ Len(tt) = Len(t)
        /\ Len(s) \in Nat
        /\ \A n \in 1 .. Len(t) : tt[n] = t[n] \o data[t[n]]
    BY <1>3, <1>4
  <2>2. ASSUME NEW n \in 1 .. Len(s) PROVE ss[n] = s[n] \o data[s[n]]
    <3>1. s[n] \in D \ {k} /\ ss[n] = s[n] \o less[s[n]]
      BY <1>2, <1>4
    <3> QED
      BY <1>2, <3>1
  <2> QED
    BY <1>5, <2>1, <2>2
<1> HIDE DEF tt, ss, IsOrder, D
<1>8. tt[j] # <<>>
  <2>1. k \in Seq(Nat) /\ k # <<>> /\ data[k] \in Seq(Nat)
    BY <1>1 DEF D
  <2>2. k \o data[k] # <<>>
    BY <2>1
  <2> QED
    BY <1>6, <1>7, <2>2
<1>9. \A i \in 1 .. j - 1 : tt[i] = ss[i]
  <2> TAKE i \in 1 .. j - 1
  <2>1. i \in 1 .. Len(t) /\ i \in 1 .. Len(s)
    BY <1>7
  <2> QED
    BY <1>6, <1>7, <2>1 DEF DropsAt
<1>10. \A i \in j .. Len(ss) : tt[i + 1] = ss[i]
  <2> TAKE i \in j .. Len(ss)
  <2>1. i \in j .. Len(s) /\ i + 1 \in 1 .. Len(t) /\ i \in 1 .. Len(s)
    BY <1>7
  <2>2. t[i + 1] = s[i]
    BY <1>6, <2>1 DEF DropsAt
  <2> QED
    BY <1>7, <2>1, <2>2
<1>11. FlattenSeq(ss) # FlattenSeq(tt)
  <2>1. Len(tt) = Len(ss) + 1 /\ j \in 1 .. Len(tt)
    BY <1>7
  <2> QED
    BY <1>7, <1>8, <1>9, <1>10, <2>1, AdditionShows
<1> QED
  BY <1>3, <1>4, <1>11 DEF IsOrder, tt, ss

\* So does a value.
LEMMA ValueShows ==
    ASSUME NEW data \in DataMaps, NEW k \in DOMAIN data, NEW new \in DataMaps,
           DOMAIN new = DOMAIN data, new[k] # data[k],
           \A x \in DOMAIN data : x # k => new[x] = data[x],
           NEW p \in Orders(data), NEW q \in Orders(new)
    PROVE  Written(data, p) # Written(new, q)
<1> DEFINE D == DOMAIN data
           IsOrder(d, s, w) ==
              /\ s \in SetToSeqs(D) /\ Increasing(s)
              /\ Entries(d, s) \in Pieces /\ Len(Entries(d, s)) = Len(s) /\ Len(s) \in Nat
              /\ \A n \in 1 .. Len(s) :
                    s[n] \in D /\ Entries(d, s)[n] = s[n] \o d[s[n]]
              /\ w = FlattenSeq(Entries(d, s))
<1>1. /\ D \in SUBSET Seq(Nat) /\ IsFiniteSet(D)
      /\ \A x \in D : data[x] \in Seq(Nat) /\ new[x] \in Seq(Nat)
  BY KeysAre
<1>2. PICK s : IsOrder(data, s, Written(data, p))
  BY WrittenIs
<1>3. PICK t : IsOrder(new, t, Written(new, q))
  BY WrittenIs
<1>4. s = t
  BY <1>1, <1>2, <1>3, SortedIsUnique
<1>5. /\ \E j \in 1 .. Len(s) : s[j] = k
      /\ \A m, n \in 1 .. Len(s) : s[m] = s[n] => m = n
  <2>1. s \in SetToSeqs(D)
    BY <1>2
  <2>2. /\ Len(s) = Cardinality(D)
        /\ \E j \in 1 .. Cardinality(D) : s[j] = k
        /\ \A m, n \in 1 .. Cardinality(D) : s[m] = s[n] => m = n
    BY <1>1, <2>1, OrderIs
  <2> QED
    BY <2>2
<1>6. PICK j \in 1 .. Len(s) : s[j] = k
  BY <1>5
<1> DEFINE ss == Entries(data, s)
           tt == Entries(new, s)
<1>7. /\ ss \in Pieces /\ tt \in Pieces /\ Len(ss) = Len(s) /\ Len(tt) = Len(s)
      /\ \A n \in 1 .. Len(s) : /\ s[n] \in D
                               /\ ss[n] = s[n] \o data[s[n]] /\ tt[n] = s[n] \o new[s[n]]
  BY <1>2, <1>3, <1>4
<1> HIDE DEF ss, tt, IsOrder
<1>8. ss[j] # tt[j]
  <2>1. k \in Seq(Nat) /\ data[k] \in Seq(Nat) /\ new[k] \in Seq(Nat)
    BY <1>1
  <2>2. k \o data[k] # k \o new[k]
    BY <2>1, Cancel
  <2> QED
    BY <1>6, <1>7, <2>2
<1>9. \A i \in 1 .. Len(ss) : i # j => ss[i] = tt[i]
  <2>1. TAKE i \in 1 .. Len(ss)
  <2>2. HAVE i # j
  <2>3. i \in 1 .. Len(s) /\ s[i] # k /\ s[i] \in D
    BY <1>5, <1>6, <1>7, <2>2
  <2> QED
    BY <1>7, <2>3
<1>10. FlattenSeq(ss) # FlattenSeq(tt)
  BY <1>7, <1>8, <1>9, ChangeShows
<1> QED
  BY <1>2, <1>3, <1>4, <1>10 DEF IsOrder, ss, tt

\* An edit of one entry of one map changes what is written for it.
LEMMA EditShows ==
    ASSUME NEW data \in DataMaps, NEW new \in EditedOnce(data), new # data,
           NEW p \in Orders(data), NEW q \in Orders(new)
    PROVE  Written(data, p) # Written(new, q)
<1>0. new \in DataMaps
  BY EditsAreMaps
<1>1. ASSUME NEW k \in DOMAIN data, new = Without(data, k)
      PROVE  Written(data, p) # Written(new, q)
  BY <1>0, <1>1, EntryShows
<1>2. ASSUME NEW k \in Keys, NEW v \in Contents, new = With(data, k, v)
      PROVE  Written(data, p) # Written(new, q)
  <2>1. DOMAIN new = DOMAIN data \cup {k} /\ new[k] = v
    BY <1>2 DEF With
  <2>2. \A x \in DOMAIN data : x # k => new[x] = data[x]
    BY <1>2 DEF With
  <2>3. data = [x \in DOMAIN data |-> data[x]] /\ new = [x \in DOMAIN new |-> new[x]]
    BY <1>0 DEF DataMaps
  <2>4. CASE k \notin DOMAIN data
    <3>1. DOMAIN new \ {k} = DOMAIN data
      BY <2>1, <2>4
    <3>2. data = Without(new, k)
      BY <2>2, <2>3, <2>4, <3>1 DEF Without
    <3> QED
      BY <1>0, <2>1, <3>2, EntryShows
  <2>5. CASE k \in DOMAIN data
    <3>1. DOMAIN new = DOMAIN data
      BY <2>1, <2>5
    <3>2. new[k] # data[k]
      BY <2>2, <2>3, <3>1
    <3> QED
      BY <1>0, <2>2, <2>5, <3>1, <3>2, ValueShows
  <2> QED
    BY <2>4, <2>5
<1> QED
  BY <1>1, <1>2 DEF EditedOnce

\* A map has an order in which it may be ranged over.
LEMMA OrderExists ==
    ASSUME NEW data \in DataMaps
    PROVE  \E o : o \in Orders(data)
BY KeysAre, SortedExists DEF Orders

\* An edit of one entry of one prerequisite always changes the digest, so the pods
\* restart (prerequisites.go, computeConfigHash: "to detect changes"): for any finite
\* set of keys and any values.
THEOREM EditIsAlwaysDetected == Spec => EditIsDetected
<1> DEFINE Typed == configMap \in DataMaps /\ secret \in DataMaps
           Ranged(data) == Written(data, CHOOSE o \in Orders(data) : TRUE)
<1>1. Init => Typed
  BY DEF Init
<1>2. Typed /\ [Next]_vars => Typed'
  BY EditsAreMaps DEF Next, Edit, Replace, vars
<1>3. ASSUME NEW data \in DataMaps
      PROVE  (CHOOSE o \in Orders(data) : TRUE) \in Orders(data) /\ Ranged(data) \in Seq(Nat)
  <2>1. (CHOOSE o \in Orders(data) : TRUE) \in Orders(data)
    BY OrderExists
  <2> QED
    BY <2>1, WrittenIs
<1>4. ASSUME NEW data \in DataMaps, NEW new \in EditedOnce(data), new # data
      PROVE  Ranged(new) # Ranged(data)
  <2>1. new \in DataMaps
    BY EditsAreMaps
  <2> QED
    BY <1>3, <1>4, <2>1, EditShows
<1> HIDE DEF Ranged
<1>5. \A cm, s : ComputeConfigHash(cm, s) = Ranged(cm) \o Ranged(s)
  BY DEF ComputeConfigHash, Ranged
<1>6. Typed /\ Typed' /\ [Next]_vars => [Edit => DigestMoves]_vars
  <2> SUFFICES ASSUME Typed, Typed', Edit, vars' # vars
               PROVE  Ranged(configMap') \o Ranged(secret') # Ranged(configMap) \o Ranged(secret)
    BY <1>5 DEF DigestMoves
  <2>0. /\ Ranged(configMap) \in Seq(Nat) /\ Ranged(secret) \in Seq(Nat)
        /\ Ranged(configMap') \in Seq(Nat) /\ Ranged(secret') \in Seq(Nat)
    BY <1>3
  <2>1. CASE configMap' \in EditedOnce(configMap) /\ UNCHANGED secret
    <3>1. Ranged(configMap') # Ranged(configMap)
      BY <1>4, <2>1 DEF vars
    <3> QED
      BY <2>0, <2>1, <3>1, Cancel
  <2>2. CASE secret' \in EditedOnce(secret) /\ UNCHANGED configMap
    <3>1. Ranged(secret') # Ranged(secret)
      BY <1>4, <2>2 DEF vars
    <3> QED
      BY <2>0, <2>2, <3>1, Cancel
  <2> QED
    BY <2>1, <2>2 DEF Edit
<1> QED
  BY <1>1, <1>2, <1>6, PTL DEF Spec, EditIsDetected
=============================================================================
