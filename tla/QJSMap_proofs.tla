---------------------------- MODULE QJSMap_proofs ----------------------------
(***************************************************************************)
(* Proofs about QJSMap, for every set of keys and every hash function, any *)
(* number of records, iterators and activations of forEach.                *)
(***************************************************************************)
EXTENDS QJSMap, FiniteSetTheorems, SequenceTheorems, TLAPS

-----------------------------------------------------------------------------
(* Lists from which elements are taken.                                    *)

\* Nothing is in the list twice.
Distinct(s) == \A i, j \in DOMAIN s : s[i] = s[j] => i = j

\* The n-th of the elements that stay is well defined: each of them has a rank
\* of its own, and there are as many ranks as elements.
LEMMA Ranks ==
  ASSUME NEW N \in Nat, NEW kept \in SUBSET (1 .. N)
  PROVE  LET Rank(i) == Cardinality({j \in kept : j <= i})
         IN  /\ IsFiniteSet(kept) /\ Cardinality(kept) \in Nat
             /\ \A i \in kept : Rank(i) \in 1 .. Cardinality(kept)
             /\ \A i, j \in kept : i < j => Rank(i) < Rank(j)
             /\ \A i, j \in kept : Rank(i) = Rank(j) => i = j
             /\ \A n \in 1 .. Cardinality(kept) : \E i \in kept : Rank(i) = n
<1> DEFINE Upto(i) == {j \in kept : j <= i}
           Rank(i) == Cardinality(Upto(i))
<1>1. IsFiniteSet(kept) /\ Cardinality(kept) \in Nat
  <2>1. IsFiniteSet(1 .. N)
    BY FS_Interval
  <2> QED
    BY <2>1, FS_Subset, FS_CardinalityType
<1>2. \A i \in kept : i \in Nat
  OBVIOUS
<1>3. ASSUME NEW i \in kept
      PROVE  IsFiniteSet(Upto(i)) /\ Rank(i) \in 1 .. Cardinality(kept)
  <2>1. IsFiniteSet(Upto(i)) /\ Cardinality(Upto(i)) <= Cardinality(kept)
    BY <1>1, FS_Subset
  <2>2. Cardinality(Upto(i)) \in Nat /\ Cardinality(Upto(i)) # 0
    <3>1. i \in Upto(i)
      BY <1>2
    <3> QED
      BY <2>1, <3>1, FS_EmptySet, FS_CardinalityType
  <2> QED
    BY <1>1, <2>1, <2>2
<1>4. ASSUME NEW i \in kept, NEW j \in kept, i < j
      PROVE  Rank(i) < Rank(j)
  <2>1. i \in Nat /\ j \in Nat /\ j <= j /\ ~(j <= i)
    BY <1>2, <1>4
  <2>2. \A n \in Nat : n <= i => n <= j
    BY <1>4, <2>1
  <2>3. Upto(i) \in SUBSET Upto(j)
    BY <1>2, <2>2
  <2>4. j \in Upto(j) /\ j \notin Upto(i)
    BY <2>1
  <2> QED
    BY <1>3, <2>3, <2>4, FS_Subset
<1>5. ASSUME NEW i \in kept, NEW j \in kept, Rank(i) = Rank(j)
      PROVE  i = j
  <2>1. Rank(i) \in Int /\ Rank(j) \in Int /\ i \in Nat /\ j \in Nat
    BY <1>1, <1>2, <1>3
  <2> HIDE DEF Rank
  <2> QED
    BY <1>4, <1>5, <2>1
<1> HIDE DEF Rank
<1>6. ASSUME NEW n \in 1 .. Cardinality(kept)
      PROVE  \E i \in kept : Rank(i) = n
  <2> DEFINE f == [i \in kept |-> Rank(i)]
             T == 1 .. Cardinality(kept)
  <2>1. f \in Injection(kept, T)
    BY <1>3, <1>5 DEF Injection, IsInjective
  <2>2. IsFiniteSet(T) /\ Cardinality(T) = Cardinality(kept)
    BY <1>1, FS_Interval
  <2>3. f \in Surjection(kept, T)
    BY <2>1, <2>2, FS_Injection
  <2> QED
    BY <2>3 DEF Surjection
<1> QED
  BY <1>1, <1>3, <1>4, <1>5, <1>6 DEF Rank

\* What is left of a list.
LEMMA WithoutIs ==
  ASSUME NEW S, NEW s \in Seq(S), NEW D
  PROVE  /\ Without(s, D) \in Seq(S)
         /\ ToSet(Without(s, D)) = ToSet(s) \ D
         /\ Distinct(s) => Distinct(Without(s, D))
<1> DEFINE kept == {i \in DOMAIN s : s[i] \notin D}
           Rank(i) == Cardinality({j \in kept : j <= i})
           Nth(n) == CHOOSE i \in kept : Rank(i) = n
           N == Cardinality(kept)
<1>1. Without(s, D) = [n \in 1 .. N |-> s[Nth(n)]]
  BY DEF Without
<1>2. /\ N \in Nat
      /\ \A i \in kept : Rank(i) \in 1 .. N
      /\ \A i, j \in kept : Rank(i) = Rank(j) => i = j
      /\ \A n \in 1 .. N : \E i \in kept : Rank(i) = n
  <2>1. Len(s) \in Nat /\ kept \in SUBSET (1 .. Len(s))
    OBVIOUS
  <2> HIDE DEF kept
  <2> QED
    BY <2>1, Ranks
<1>3. kept \subseteq DOMAIN s /\ (\A i \in kept : s[i] \in S /\ s[i] \notin D)
  OBVIOUS
<1>4. ASSUME NEW i \in DOMAIN s, s[i] \notin D PROVE i \in kept
  BY <1>4
<1> HIDE DEF kept, Rank, N
<1>5. ASSUME NEW n \in 1 .. N PROVE Nth(n) \in kept /\ Rank(Nth(n)) = n
  BY <1>2
<1> HIDE DEF Nth
<1>6. Without(s, D) \in Seq(S) /\ DOMAIN Without(s, D) = 1 .. N
  BY <1>1, <1>2, <1>3, <1>5
<1>7. ASSUME NEW x \in ToSet(Without(s, D)) PROVE x \in ToSet(s) \ D
  <2>1. PICK n \in 1 .. N : x = s[Nth(n)]
    BY <1>1, <1>6, <1>7 DEF ToSet
  <2> QED
    BY <1>3, <1>5, <2>1 DEF ToSet
<1>8. ASSUME NEW x \in ToSet(s) \ D PROVE x \in ToSet(Without(s, D))
  <2>1. PICK i \in DOMAIN s : x = s[i]
    BY <1>8 DEF ToSet
  <2>2. i \in kept
    BY <1>4, <1>8, <2>1
  <2>3. Rank(i) \in 1 .. N /\ Nth(Rank(i)) = i
    BY <1>2, <1>5, <2>2
  <2> QED
    BY <1>1, <1>6, <2>1, <2>3 DEF ToSet
<1>9. ASSUME Distinct(s), NEW n \in 1 .. N, NEW m \in 1 .. N, Without(s, D)[n] = Without(s, D)[m] PROVE n = m
  <2>1. s[Nth(n)] = s[Nth(m)]
    BY <1>1, <1>9
  <2>2. Nth(n) = Nth(m)
    BY <1>3, <1>5, <1>9, <2>1 DEF Distinct
  <2> QED
    BY <1>5, <2>2
<1> QED
  BY <1>6, <1>7, <1>8, <1>9 DEF Distinct

\* w has the elements of s that are not in D: e[n] is the place of the n-th of
\* them in s.
Picks(e, w, s, D) ==
  /\ e \in [DOMAIN w -> DOMAIN s]
  /\ \A m, n \in DOMAIN w : m < n => e[m] < e[n]
  /\ \A n \in DOMAIN w : w[n] = s[e[n]] /\ s[e[n]] \notin D
  /\ \A i \in DOMAIN s : s[i] \notin D => \E n \in DOMAIN w : e[n] = i

\* Without picks them.
LEMMA WithoutPicks ==
  ASSUME NEW S, NEW s \in Seq(S), NEW D
  PROVE  \E e : Picks(e, Without(s, D), s, D)
<1> DEFINE kept == {i \in DOMAIN s : s[i] \notin D}
           Rank(i) == Cardinality({j \in kept : j <= i})
           Nth(n) == CHOOSE i \in kept : Rank(i) = n
           N == Cardinality(kept)
           w == Without(s, D)
           e == [n \in 1 .. N |-> Nth(n)]
<1>1. w = [n \in 1 .. N |-> s[Nth(n)]]
  BY DEF Without
<1>2. /\ N \in Nat
      /\ \A i \in kept : Rank(i) \in 1 .. N
      /\ \A i, j \in kept : i < j => Rank(i) < Rank(j)
      /\ \A i, j \in kept : Rank(i) = Rank(j) => i = j
      /\ \A n \in 1 .. N : \E i \in kept : Rank(i) = n
  <2>1. Len(s) \in Nat /\ kept \in SUBSET (1 .. Len(s))
    OBVIOUS
  <2> HIDE DEF kept
  <2> QED
    BY <2>1, Ranks
<1>3. /\ kept \subseteq DOMAIN s /\ (\A i \in kept : s[i] \notin D)
      /\ \A i \in DOMAIN s : i \in Nat
  OBVIOUS
<1>4. ASSUME NEW i \in DOMAIN s, s[i] \notin D PROVE i \in kept
  BY <1>4
<1> HIDE DEF kept, Rank, N
<1>5. ASSUME NEW n \in 1 .. N PROVE Nth(n) \in kept /\ Rank(Nth(n)) = n
  BY <1>2
<1> HIDE DEF Nth, w
<1>6. DOMAIN w = 1 .. N
  BY <1>1
<1>7. e \in [DOMAIN w -> DOMAIN s]
  BY <1>3, <1>5, <1>6
<1>8. ASSUME NEW m \in 1 .. N, NEW n \in 1 .. N, m < n PROVE Nth(m) < Nth(n)
  <2>1. Nth(m) \in Nat /\ Nth(n) \in Nat /\ Nth(m) # Nth(n)
    BY <1>2, <1>3, <1>5, <1>8
  <2>2. ~(Nth(n) < Nth(m))
    BY <1>2, <1>5, <1>8
  <2> QED
    BY <2>1, <2>2
<1>9. \A n \in DOMAIN w : w[n] = s[e[n]] /\ s[e[n]] \notin D
  BY <1>1, <1>3, <1>5, <1>6
<1>10. ASSUME NEW i \in DOMAIN s, s[i] \notin D PROVE \E n \in DOMAIN w : e[n] = i
  <2>1. i \in kept /\ Rank(i) \in 1 .. N
    BY <1>2, <1>4, <1>10
  <2>2. Nth(Rank(i)) = i
    BY <1>2, <1>5, <2>1
  <2> QED
    BY <1>6, <2>1, <2>2
<1>11. \A m, n \in DOMAIN w : m < n => e[m] < e[n]
  BY <1>6, <1>8
<1>12. Picks(e, w, s, D)
  BY <1>7, <1>9, <1>10, <1>11 DEF Picks
<1> QED
  BY <1>12 DEF w

\* The size of an interval.
LEMMA UpTo ==
  ASSUME NEW n \in Nat
  PROVE  IsFiniteSet(1 .. n) /\ Cardinality(1 .. n) = n
BY FS_Interval

\* Nothing else is picked: places in increasing order are the places Without
\* counts.
LEMMA PicksWithout ==
  ASSUME NEW S, NEW s \in Seq(S), NEW w \in Seq(S), NEW D, NEW e, Picks(e, w, s, D)
  PROVE  w = Without(s, D)
<1> DEFINE kept == {i \in DOMAIN s : s[i] \notin D}
           Upto(i) == {j \in kept : j <= i}
           Rank(i) == Cardinality(Upto(i))
           Nth(n) == CHOOSE i \in kept : Rank(i) = n
           N == Cardinality(kept)
<1>1. Without(s, D) = [n \in 1 .. N |-> s[Nth(n)]]
  BY DEF Without
<1>2. /\ IsFiniteSet(kept) /\ N \in Nat
      /\ \A i, j \in kept : Rank(i) = Rank(j) => i = j
  <2>1. Len(s) \in Nat /\ kept \in SUBSET (1 .. Len(s))
    OBVIOUS
  <2> HIDE DEF kept
  <2> QED
    BY <2>1, Ranks
<1>3. /\ \A n \in DOMAIN w : e[n] \in kept /\ e[n] \in Nat
      /\ \A i \in kept : i \in Nat /\ \E n \in DOMAIN w : e[n] = i
      /\ \A m, n \in DOMAIN w : m < n => e[m] < e[n]
  BY DEF Picks
<1>4. Len(w) \in Nat /\ DOMAIN w = 1 .. Len(w)
  OBVIOUS
<1> HIDE DEF kept, N
<1>5. \A m, n \in DOMAIN w : e[m] <= e[n] <=> m <= n
  BY <1>3, <1>4
<1>6. ASSUME NEW n \in DOMAIN w PROVE Rank(e[n]) = n
  <2> DEFINE f == [m \in 1 .. n |-> e[m]]
  <2>1. \A m \in 1 .. n : m \in DOMAIN w
    BY <1>4
  <2>2. \A m \in 1 .. n : e[m] \in Upto(e[n])
    BY <1>3, <1>4, <1>5, <2>1
  <2>3. \A i, j \in 1 .. n : e[i] = e[j] => i = j
    <3> TAKE i, j \in 1 .. n
    <3>1. i \in DOMAIN w /\ j \in DOMAIN w /\ e[i] \in Nat /\ e[j] \in Nat /\ i \in Nat /\ j \in Nat
      BY <1>3, <1>4, <2>1
    <3> QED
      BY <1>5, <3>1
  <2>4. \A i \in Upto(e[n]) : \E m \in 1 .. n : e[m] = i
    <3> TAKE i \in Upto(e[n])
    <3>1. i \in kept /\ i <= e[n]
      OBVIOUS
    <3>2. PICK m \in DOMAIN w : e[m] = i
      BY <1>3, <3>1
    <3>3. m \in 1 .. n
      BY <1>4, <1>5, <3>1, <3>2
    <3> QED
      BY <3>2, <3>3
  <2> HIDE DEF Upto
  <2>5. f \in Bijection(1 .. n, Upto(e[n]))
    BY <2>2, <2>3, <2>4 DEF Bijection, Injection, Surjection, IsInjective
  <2>6. IsFiniteSet(1 .. n) /\ Cardinality(1 .. n) = n
    BY <1>4, UpTo
  <2>7. ExistsBijection(1 .. n, Upto(e[n]))
    BY <2>5 DEF ExistsBijection
  <2> QED
    BY <2>6, <2>7, FS_Bijection
<1>7. N = Len(w)
  <2> DEFINE f == [m \in 1 .. Len(w) |-> e[m]]
  <2>1. \A i, j \in 1 .. Len(w) : e[i] = e[j] => i = j
    <3> TAKE i, j \in 1 .. Len(w)
    <3>1. i \in DOMAIN w /\ j \in DOMAIN w /\ e[i] \in Nat /\ e[j] \in Nat /\ i \in Nat /\ j \in Nat
      BY <1>3, <1>4
    <3> QED
      BY <1>5, <3>1
  <2>2. f \in Bijection(1 .. Len(w), kept)
    BY <1>3, <1>4, <2>1 DEF Bijection, Injection, Surjection, IsInjective
  <2>3. IsFiniteSet(1 .. Len(w)) /\ Cardinality(1 .. Len(w)) = Len(w)
    BY <1>4, UpTo
  <2>4. ExistsBijection(1 .. Len(w), kept)
    BY <2>2 DEF ExistsBijection
  <2> QED
    BY <2>3, <2>4, FS_Bijection DEF N
<1> HIDE DEF Rank
<1>8. ASSUME NEW n \in DOMAIN w PROVE Nth(n) = e[n]
  BY <1>2, <1>3, <1>6
<1> HIDE DEF Nth
<1>9. ASSUME NEW n \in DOMAIN w PROVE w[n] = s[Nth(n)]
  BY <1>8 DEF Picks
<1>10. w = [n \in 1 .. Len(w) |-> w[n]]
  BY <1>4
<1> QED
  BY <1>1, <1>4, <1>7, <1>9, <1>10

\* What is after x in a list.
After(s, x) ==
  LET i == CHOOSE i \in DOMAIN s : s[i] = x
  IN  SubSeq(s, i + 1, Len(s))

\* In a list where nothing is twice, After is the part of the list after the
\* place of the element.
LEMMA AfterIs ==
  ASSUME NEW S, NEW s \in Seq(S), Distinct(s), NEW i \in DOMAIN s
  PROVE  LET a == After(s, s[i])
         IN  /\ a = SubSeq(s, i + 1, Len(s))
             /\ a \in Seq(S) /\ Len(a) = Len(s) - i /\ DOMAIN a = 1 .. Len(s) - i
             /\ \A n \in 1 .. Len(s) - i : a[n] = s[n + i]
<1>1. (CHOOSE j \in DOMAIN s : s[j] = s[i]) = i
  BY DEF Distinct
<1>2. After(s, s[i]) = SubSeq(s, i + 1, Len(s))
  BY <1>1 DEF After
<1>3. i \in 1 .. Len(s) /\ Len(s) \in Nat
  OBVIOUS
<1> DEFINE a == SubSeq(s, i + 1, Len(s))
<1>4. a \in Seq(S) /\ Len(a) = Len(s) - i
  BY <1>3
<1>5. \A n \in 1 .. Len(s) - i : a[n] = s[n + i]
  BY <1>3
<1> HIDE DEF a
<1>6. DOMAIN a = 1 .. Len(s) - i
  BY <1>4
<1> QED
  BY <1>2, <1>4, <1>5, <1>6 DEF a

\* What is after an element is in the list, and nothing is there twice.
LEMMA AfterDistinct ==
  ASSUME NEW S, NEW s \in Seq(S), Distinct(s), NEW x \in ToSet(s)
  PROVE  After(s, x) \in Seq(S) /\ Distinct(After(s, x)) /\ ToSet(After(s, x)) \subseteq ToSet(s)
<1> DEFINE a == After(s, x)
<1>1. PICK i \in DOMAIN s : s[i] = x
  BY DEF ToSet
<1>2. /\ a \in Seq(S) /\ DOMAIN a = 1 .. Len(s) - i
      /\ \A n \in 1 .. Len(s) - i : a[n] = s[n + i]
  BY <1>1, AfterIs
<1>3. Len(s) \in Nat /\ DOMAIN s = 1 .. Len(s) /\ i \in 1 .. Len(s)
  BY <1>1
<1> HIDE DEF a
<1>4. \A n \in DOMAIN a : n + i \in DOMAIN s /\ a[n] = s[n + i]
  BY <1>2, <1>3
<1>5. Distinct(a)
  <2> SUFFICES ASSUME NEW m \in DOMAIN a, NEW n \in DOMAIN a, a[m] = a[n] PROVE m = n
    BY DEF Distinct
  <2>1. m + i = n + i
    BY <1>4 DEF Distinct
  <2> QED
    BY <1>2, <1>3, <2>1
<1>6. ToSet(a) \subseteq ToSet(s)
  BY <1>4 DEF ToSet
<1> QED
  BY <1>2, <1>5, <1>6 DEF a

\* Taking elements out, one set after another.
LEMMA WithoutTwice ==
  ASSUME NEW S, NEW s \in Seq(S), NEW A, NEW B
  PROVE  Without(Without(s, A), B) = Without(s, A \cup B)
<1> DEFINE u == Without(s, A)
           w == Without(u, B)
<1>1. u \in Seq(S) /\ w \in Seq(S)
  BY WithoutIs
<1>2. PICK d : Picks(d, u, s, A)
  BY WithoutPicks
<1>3. PICK e : Picks(e, w, u, B)
  BY <1>1, WithoutPicks
<1> HIDE DEF u, w
<1> DEFINE f == [n \in DOMAIN w |-> d[e[n]]]
<1>4. f \in [DOMAIN w -> DOMAIN s]
  BY <1>2, <1>3 DEF Picks
<1>5. \A m, n \in DOMAIN w : m < n => f[m] < f[n]
  BY <1>2, <1>3 DEF Picks
<1>6. \A n \in DOMAIN w : w[n] = s[f[n]] /\ s[f[n]] \notin A \cup B
  BY <1>2, <1>3 DEF Picks
<1>7. ASSUME NEW i \in DOMAIN s, s[i] \notin A \cup B PROVE \E n \in DOMAIN w : f[n] = i
  <2>1. PICK m \in DOMAIN u : d[m] = i
    BY <1>2, <1>7 DEF Picks
  <2>2. u[m] \notin B
    BY <1>2, <1>7, <2>1 DEF Picks
  <2>3. PICK n \in DOMAIN w : e[n] = m
    BY <1>3, <2>2 DEF Picks
  <2> QED
    BY <2>1, <2>3
<1>8. Picks(f, w, s, A \cup B)
  BY <1>4, <1>5, <1>6, <1>7 DEF Picks
<1>9. w = Without(s, A \cup B)
  BY <1>1, <1>8, PicksWithout
<1> QED
  BY <1>9 DEF u, w

\* Only what is in the list matters.
LEMMA WithoutSame ==
  ASSUME NEW S, NEW s \in Seq(S), NEW A, NEW B, \A x \in ToSet(s) : x \in A <=> x \in B
  PROVE  Without(s, A) = Without(s, B)
<1>1. \A i \in DOMAIN s : s[i] \in A <=> s[i] \in B
  BY DEF ToSet
<1>2. PICK e : Picks(e, Without(s, A), s, A)
  BY WithoutPicks
<1>3. Picks(e, Without(s, A), s, B)
  BY <1>1, <1>2 DEF Picks
<1> QED
  BY <1>3, WithoutIs, PicksWithout

\* A new element at the end.
LEMMA WithoutAppend ==
  ASSUME NEW S, NEW s \in Seq(S), NEW x \in S, NEW D, x \notin D
  PROVE  Without(Append(s, x), D) = Append(Without(s, D), x)
<1> DEFINE u == Without(s, D)
           t == Append(s, x)
           w == Append(u, x)
<1>1. u \in Seq(S)
  BY WithoutIs
<1>2. PICK d : Picks(d, u, s, D)
  BY WithoutPicks
<1> HIDE DEF u
<1>3. /\ Len(s) \in Nat /\ DOMAIN s = 1 .. Len(s) /\ t \in Seq(S) /\ DOMAIN t = 1 .. Len(s) + 1
      /\ t[Len(s) + 1] = x /\ \A i \in 1 .. Len(s) : t[i] = s[i]
  OBVIOUS
<1>4. /\ Len(u) \in Nat /\ DOMAIN u = 1 .. Len(u) /\ w \in Seq(S) /\ DOMAIN w = 1 .. Len(u) + 1
      /\ w[Len(u) + 1] = x /\ \A i \in 1 .. Len(u) : w[i] = u[i]
  BY <1>1
<1> HIDE DEF t, w
<1> DEFINE e == [n \in DOMAIN w |-> IF n \in DOMAIN u THEN d[n] ELSE Len(s) + 1]
<1>5. \A n \in DOMAIN u : d[n] \in 1 .. Len(s)
  BY <1>2, <1>3 DEF Picks
<1>6. \A n \in DOMAIN w : n = Len(u) + 1 \/ n \in DOMAIN u
  BY <1>4
<1>7. Len(u) + 1 \notin DOMAIN u /\ Len(u) + 1 \in DOMAIN w /\ \A n \in DOMAIN u : n \in DOMAIN w
  BY <1>4
<1>8. e \in [DOMAIN w -> DOMAIN t]
  BY <1>3, <1>5
<1>9. \A m, n \in DOMAIN w : m < n => e[m] < e[n]
  <2> SUFFICES ASSUME NEW m \in DOMAIN w, NEW n \in DOMAIN w, m < n PROVE e[m] < e[n]
    OBVIOUS
  <2>1. m \in DOMAIN u
    BY <1>4
  <2>2. CASE n \in DOMAIN u
    BY <1>2, <2>1, <2>2 DEF Picks
  <2>3. CASE n \notin DOMAIN u
    BY <1>3, <1>5, <2>1, <2>3
  <2> QED
    BY <2>2, <2>3
<1>10. \A n \in DOMAIN w : w[n] = t[e[n]] /\ t[e[n]] \notin D
  <2> TAKE n \in DOMAIN w
  <2>1. CASE n \in DOMAIN u
    <3>1. e[n] = d[n] /\ d[n] \in 1 .. Len(s) /\ u[n] = s[d[n]] /\ s[d[n]] \notin D
      BY <1>2, <1>5, <2>1 DEF Picks
    <3> QED
      BY <1>3, <1>4, <2>1, <3>1
  <2>2. CASE n = Len(u) + 1
    BY <1>3, <1>4, <1>7, <2>2
  <2> QED
    BY <1>6, <2>1, <2>2
<1>11. ASSUME NEW i \in DOMAIN t, t[i] \notin D PROVE \E n \in DOMAIN w : e[n] = i
  <2>1. CASE i \in DOMAIN s
    <3>1. PICK n \in DOMAIN u : d[n] = i
      BY <1>2, <1>3, <1>11, <2>1 DEF Picks
    <3> QED
      BY <1>7, <3>1
  <2>2. CASE i = Len(s) + 1
    BY <1>7, <2>2
  <2> QED
    BY <1>3, <2>1, <2>2
<1>12. Picks(e, w, t, D)
  BY <1>8, <1>9, <1>10, <1>11 DEF Picks
<1>13. w = Without(t, D)
  BY <1>3, <1>4, <1>12, PicksWithout
<1> QED
  BY <1>13 DEF t, u, w

\* What stays after an element is what was after it and stays.
LEMMA WithoutAfter ==
  ASSUME NEW S, NEW s \in Seq(S), Distinct(s), NEW D, NEW x \in ToSet(s) \ D
  PROVE  /\ x \in ToSet(Without(s, D)) /\ After(s, x) \in Seq(S)
         /\ After(Without(s, D), x) = Without(After(s, x), D)
<1> DEFINE u == Without(s, D)
           a == After(s, x)
           w == After(u, x)
<1>1. u \in Seq(S) /\ Distinct(u) /\ x \in ToSet(u)
  BY WithoutIs
<1>2. PICK d : Picks(d, u, s, D)
  BY WithoutPicks
<1> HIDE DEF u
<1>3. PICK j \in DOMAIN u : u[j] = x
  BY <1>1 DEF ToSet
<1>4. PICK i \in DOMAIN s : s[i] = x /\ d[j] = i
  BY <1>2, <1>3 DEF Picks
<1>5. /\ a \in Seq(S) /\ DOMAIN a = 1 .. Len(s) - i
      /\ \A n \in 1 .. Len(s) - i : a[n] = s[n + i]
  <2>1. a = After(s, s[i])
    BY <1>4
  <2> HIDE DEF a
  <2> QED
    BY <2>1, AfterIs
<1>6. /\ w \in Seq(S) /\ DOMAIN w = 1 .. Len(u) - j
      /\ \A n \in 1 .. Len(u) - j : w[n] = u[n + j]
  <2>1. w = After(u, u[j])
    BY <1>3
  <2> HIDE DEF w
  <2> QED
    BY <1>1, <2>1, AfterIs
<1>7. /\ Len(s) \in Nat /\ DOMAIN s = 1 .. Len(s) /\ i \in 1 .. Len(s)
      /\ Len(u) \in Nat /\ DOMAIN u = 1 .. Len(u) /\ j \in 1 .. Len(u)
  BY <1>1, <1>4
<1> HIDE DEF a, w
<1> DEFINE e == [n \in DOMAIN w |-> d[n + j] - i]
<1>8. /\ \A n \in DOMAIN u : d[n] \in 1 .. Len(s)
      /\ \A m, n \in DOMAIN u : m < n => d[m] < d[n]
      /\ \A n \in DOMAIN u : u[n] = s[d[n]] /\ s[d[n]] \notin D
      /\ \A n \in DOMAIN s : s[n] \notin D => \E m \in DOMAIN u : d[m] = n
  BY <1>2, <1>7 DEF Picks
<1>9. ASSUME NEW n \in DOMAIN w
      PROVE  /\ n + j \in DOMAIN u /\ d[n + j] \in 1 .. Len(s) /\ d[n + j] > i
             /\ e[n] = d[n + j] - i /\ e[n] \in 1 .. Len(s) - i
  <2>1. n + j \in DOMAIN u /\ n + j > j
    BY <1>6, <1>7
  <2>2. d[n + j] \in 1 .. Len(s) /\ d[n + j] > i
    BY <1>4, <1>7, <1>8, <2>1
  <2> QED
    BY <1>7, <2>1, <2>2
<1>10. e \in [DOMAIN w -> DOMAIN a]
  BY <1>5, <1>9
<1>11. ASSUME NEW m \in DOMAIN w, NEW n \in DOMAIN w, m < n PROVE e[m] < e[n]
  <2>1. m + j < n + j
    BY <1>6, <1>7, <1>11
  <2>2. d[m + j] < d[n + j]
    BY <1>8, <1>9, <2>1
  <2> QED
    BY <1>7, <1>9, <2>2
<1>12. ASSUME NEW n \in DOMAIN w PROVE w[n] = a[e[n]] /\ a[e[n]] \notin D
  <2>1. a[e[n]] = s[d[n + j]]
    <3>1. e[n] + i = d[n + j]
      BY <1>7, <1>9
    <3> QED
      BY <1>5, <1>9, <3>1
  <2> QED
    BY <1>6, <1>8, <1>9, <2>1
<1>13. ASSUME NEW n \in DOMAIN a, a[n] \notin D PROVE \E m \in DOMAIN w : e[m] = n
  <2>1. n + i \in DOMAIN s /\ s[n + i] \notin D /\ n + i > i /\ n \in Nat
    BY <1>5, <1>7, <1>13
  <2>2. PICK m \in DOMAIN u : d[m] = n + i
    BY <1>8, <2>1
  <2>3. m > j
    <3>1. ~(m < j) /\ m # j
      BY <1>4, <1>7, <1>8, <2>1, <2>2
    <3> QED
      BY <1>7, <3>1
  <2>4. m - j \in DOMAIN w /\ (m - j) + j = m
    BY <1>6, <1>7, <2>3
  <2>5. e[m - j] = n
    BY <1>7, <2>1, <2>2, <2>4
  <2> QED
    BY <2>4, <2>5
<1>14. Picks(e, w, a, D)
  BY <1>10, <1>11, <1>12, <1>13 DEF Picks
<1>15. w = Without(a, D)
  BY <1>5, <1>6, <1>14, PicksWithout
<1> QED
  BY <1>1, <1>5, <1>15 DEF a, u, w

\* A new element at the end is after every other one.
LEMMA AfterAppend ==
  ASSUME NEW S, NEW s \in Seq(S), Distinct(s), NEW x \in ToSet(s), NEW y \in S \ ToSet(s)
  PROVE  After(Append(s, y), x) = Append(After(s, x), y)
<1> DEFINE t == Append(s, y)
<1>1. PICK i \in DOMAIN s : s[i] = x
  BY DEF ToSet
<1>2. /\ Len(s) \in Nat /\ DOMAIN s = 1 .. Len(s) /\ t \in Seq(S) /\ Len(t) = Len(s) + 1
      /\ DOMAIN t = 1 .. Len(s) + 1 /\ t[Len(s) + 1] = y /\ \A n \in 1 .. Len(s) : t[n] = s[n]
  OBVIOUS
<1>3. \A n \in DOMAIN s : s[n] # y
  BY DEF ToSet
<1> HIDE DEF t
<1>4. Distinct(t)
  <2> SUFFICES ASSUME NEW m \in DOMAIN t, NEW n \in DOMAIN t, t[m] = t[n] PROVE m = n
    BY DEF Distinct
  <2>1. \A k \in DOMAIN t : k = Len(s) + 1 \/ (k \in DOMAIN s /\ t[k] = s[k] /\ t[k] # y)
    BY <1>2, <1>3
  <2> QED
    BY <1>2, <2>1 DEF Distinct
<1>5. t[i] = x /\ i \in DOMAIN t /\ i \in 1 .. Len(s)
  BY <1>1, <1>2
<1> DEFINE a == After(s, x)
           b == After(t, x)
           c == Append(a, y)
<1>6. /\ a \in Seq(S) /\ Len(a) = Len(s) - i /\ DOMAIN a = 1 .. Len(s) - i
      /\ \A n \in 1 .. Len(s) - i : a[n] = s[n + i]
  <2>1. a = After(s, s[i])
    BY <1>1
  <2> HIDE DEF a
  <2> QED
    BY <2>1, AfterIs
<1>7. /\ b \in Seq(S) /\ Len(b) = Len(s) + 1 - i /\ DOMAIN b = 1 .. Len(s) + 1 - i
      /\ \A n \in 1 .. Len(s) + 1 - i : b[n] = t[n + i]
  <2>0. t \in Seq(S) /\ Distinct(t) /\ i \in DOMAIN t
    BY <1>2, <1>4, <1>5
  <2>1. b = After(t, t[i])
    BY <1>5
  <2> HIDE DEF b
  <2>2. /\ b \in Seq(S) /\ Len(b) = Len(t) - i /\ DOMAIN b = 1 .. Len(t) - i
        /\ \A n \in 1 .. Len(t) - i : b[n] = t[n + i]
    BY <2>0, <2>1, AfterIs
  <2> QED
    BY <1>2, <2>2
<1> HIDE DEF a, b
<1>8. /\ c \in Seq(S) /\ Len(c) = Len(a) + 1 /\ c[Len(a) + 1] = y
      /\ \A n \in 1 .. Len(a) : c[n] = a[n]
  BY <1>6
<1> HIDE DEF c
<1>9. ASSUME NEW n \in 1 .. Len(c) PROVE b[n] = c[n]
  <2> DEFINE l == Len(s) - i
  <2>1. l \in Nat /\ l + i = Len(s) /\ Len(a) = l /\ Len(c) = l + 1 /\ Len(s) + 1 - i = l + 1
    BY <1>2, <1>5, <1>6, <1>8
  <2> HIDE DEF l
  <2>2. n \in 1 .. l + 1 /\ b[n] = t[n + i]
    BY <1>7, <2>1
  <2>3. CASE n = l + 1
    <3>1. n + i = Len(s) + 1
      BY <1>2, <1>5, <2>1, <2>3
    <3> QED
      BY <1>2, <1>8, <2>1, <2>2, <2>3, <3>1
  <2>4. CASE n # l + 1
    <3>1. n \in 1 .. l /\ n + i \in 1 .. Len(s)
      BY <1>5, <2>1, <2>2, <2>4
    <3>2. c[n] = a[n] /\ a[n] = s[n + i]
      BY <1>6, <1>8, <2>1, <3>1 DEF l
    <3>3. t[n + i] = s[n + i]
      BY <1>2, <3>1
    <3> QED
      BY <2>2, <3>2, <3>3
  <2> QED
    BY <2>3, <2>4
<1>10. Len(b) = Len(c)
  BY <1>2, <1>5, <1>6, <1>7, <1>8
<1>11. b = c
  BY <1>7, <1>8, <1>9, <1>10, SeqEqual
<1> QED
  BY <1>11 DEF a, b, c, t

\* What is after what is after.
LEMMA AfterAfter ==
  ASSUME NEW S, NEW s \in Seq(S), Distinct(s), NEW x \in ToSet(s), NEW y \in ToSet(After(s, x))
  PROVE  After(After(s, x), y) = After(s, y) /\ y \in ToSet(s)
<1> DEFINE a == After(s, x)
<1>1. PICK i \in DOMAIN s : s[i] = x
  BY DEF ToSet
<1>2. /\ a \in Seq(S) /\ Len(a) = Len(s) - i /\ DOMAIN a = 1 .. Len(s) - i
      /\ \A n \in 1 .. Len(s) - i : a[n] = s[n + i]
  <2>1. a = After(s, s[i])
    BY <1>1
  <2> HIDE DEF a
  <2> QED
    BY <2>1, AfterIs
<1>3. Len(s) \in Nat /\ DOMAIN s = 1 .. Len(s) /\ i \in 1 .. Len(s)
  BY <1>1
<1> HIDE DEF a
<1>4. PICK j \in DOMAIN a : a[j] = y
  BY DEF ToSet, a
<1>5. j + i \in DOMAIN s /\ s[j + i] = y /\ j \in 1 .. Len(s) - i
  BY <1>2, <1>3, <1>4
<1>6. Distinct(a)
  <2> SUFFICES ASSUME NEW m \in DOMAIN a, NEW n \in DOMAIN a, a[m] = a[n] PROVE m = n
    BY DEF Distinct
  <2>0. \A k \in DOMAIN a : k + i \in DOMAIN s /\ a[k] = s[k + i]
    BY <1>2, <1>3
  <2>1. m + i \in DOMAIN s /\ n + i \in DOMAIN s /\ s[m + i] = s[n + i]
    BY <2>0
  <2> QED
    BY <1>2, <1>3, <2>1 DEF Distinct
<1> DEFINE b == After(a, y)
           c == After(s, y)
<1>7. /\ b \in Seq(S) /\ Len(b) = Len(a) - j
      /\ \A n \in 1 .. Len(a) - j : b[n] = a[n + j]
  <2>1. b = After(a, a[j])
    BY <1>4
  <2> HIDE DEF b
  <2> QED
    BY <1>2, <1>6, <2>1, AfterIs
<1>8. /\ c \in Seq(S) /\ Len(c) = Len(s) - (j + i)
      /\ \A n \in 1 .. Len(s) - (j + i) : c[n] = s[n + (j + i)]
  <2>1. c = After(s, s[j + i])
    BY <1>5
  <2> HIDE DEF c
  <2> QED
    BY <1>5, <2>1, AfterIs
<1> HIDE DEF b, c
<1>9. Len(b) = Len(c)
  BY <1>2, <1>3, <1>5, <1>7, <1>8
<1>10. ASSUME NEW n \in 1 .. Len(c) PROVE b[n] = c[n]
  <2>0. n \in Nat /\ i \in Nat /\ j \in Nat /\ n >= 1 /\ n <= Len(s) - (j + i)
    BY <1>3, <1>5, <1>8
  <2>1. n + j \in 1 .. Len(s) - i /\ n \in 1 .. Len(a) - j /\ (n + j) + i = n + (j + i)
    BY <1>2, <1>3, <2>0
  <2> QED
    BY <1>2, <1>7, <1>8, <2>1
<1>11. b = c
  BY <1>7, <1>8, <1>9, <1>10, SeqEqual
<1> QED
  BY <1>5, <1>11 DEF a, b, c, ToSet

\* The rest of a list after the first element that stays.
LEMMA WithoutHead ==
  ASSUME NEW S, NEW s \in Seq(S), Distinct(s), NEW D, Without(s, D) # <<>>
  PROVE  /\ Head(Without(s, D)) \in ToSet(s) \ D
         /\ Without(After(s, Head(Without(s, D))), D) = Tail(Without(s, D))
<1> DEFINE w == Without(s, D)
<1>1. w \in Seq(S) /\ Distinct(w) /\ ToSet(w) = ToSet(s) \ D
  BY WithoutIs
<1>2. w # <<>>
  OBVIOUS
<1> HIDE DEF w
<1>3. 1 \in DOMAIN w /\ Head(w) = w[1] /\ Len(w) \in Nat
  BY <1>1, <1>2
<1>4. Head(w) \in ToSet(w)
  BY <1>3 DEF ToSet
<1>5. After(w, Head(w)) = SubSeq(w, 2, Len(w))
  <2>1. After(w, w[1]) = SubSeq(w, 1 + 1, Len(w))
    BY <1>1, <1>3, AfterIs
  <2>2. 1 + 1 = 2
    OBVIOUS
  <2> QED
    BY <1>3, <2>1, <2>2
<1>6. SubSeq(w, 2, Len(w)) = Tail(w)
  BY <1>1, <1>2, TailIsSubSeq
<1>7. After(w, Head(w)) = Without(After(s, Head(w)), D)
  BY <1>1, <1>4, WithoutAfter DEF w
<1> QED
  BY <1>1, <1>4, <1>5, <1>6, <1>7 DEF w

\* A list without its p-th element.
LEMMA RemoveAtIs ==
  ASSUME NEW S, NEW s \in Seq(S), NEW p \in DOMAIN s
  PROVE  /\ RemoveAt(s, p) \in Seq(S) /\ Len(RemoveAt(s, p)) = Len(s) - 1
         /\ \A n \in 1 .. Len(s) - 1 : RemoveAt(s, p)[n] = IF n < p THEN s[n] ELSE s[n + 1]
<1>1. Len(s) \in Nat /\ p \in 1 .. Len(s) /\ DOMAIN s = 1 .. Len(s)
  OBVIOUS
<1> DEFINE a == SubSeq(s, 1, p - 1)
           b == SubSeq(s, p + 1, Len(s))
<1>2. a \in Seq(S) /\ Len(a) = p - 1 /\ \A n \in 1 .. p - 1 : a[n] = s[n]
  BY <1>1
<1>3. b \in Seq(S) /\ Len(b) = Len(s) - p /\ \A n \in 1 .. Len(s) - p : b[n] = s[n + p]
  BY <1>1
<1>4. RemoveAt(s, p) = a \o b
  BY DEF RemoveAt
<1> HIDE DEF a, b
<1>5. /\ a \o b \in Seq(S) /\ Len(a \o b) = Len(a) + Len(b)
      /\ \A n \in 1 .. Len(a) + Len(b) : (a \o b)[n] = IF n <= Len(a) THEN a[n] ELSE b[n - Len(a)]
  BY <1>2, <1>3, ConcatProperties
<1>6. ASSUME NEW n \in 1 .. Len(s) - 1
      PROVE  (a \o b)[n] = IF n < p THEN s[n] ELSE s[n + 1]
  <2>1. n \in 1 .. Len(a) + Len(b)
    BY <1>1, <1>2, <1>3
  <2>2. CASE n < p
    <3>1. n <= Len(a) /\ n \in 1 .. p - 1
      BY <1>1, <1>2, <2>2
    <3> QED
      BY <1>2, <1>5, <2>1, <2>2, <3>1
  <2>3. CASE ~(n < p)
    <3>1. ~(n <= Len(a)) /\ n - Len(a) \in 1 .. Len(s) - p /\ (n - Len(a)) + p = n + 1
      BY <1>1, <1>2, <2>3
    <3> QED
      BY <1>3, <1>5, <2>1, <2>3, <3>1
  <2> QED
    BY <2>2, <2>3
<1>7. Len(a) + Len(b) = Len(s) - 1
  BY <1>1, <1>2, <1>3
<1> QED
  BY <1>4, <1>5, <1>6, <1>7

\* Without one element.
LEMMA WithoutOne ==
  ASSUME NEW S, NEW s \in Seq(S), Distinct(s)
  PROVE  /\ \A p \in DOMAIN s : Without(s, {s[p]}) = RemoveAt(s, p)
         /\ \A x : x \notin ToSet(s) => Without(s, {x}) = s
<1>1. Len(s) \in Nat /\ DOMAIN s = 1 .. Len(s)
  OBVIOUS
<1>2. ASSUME NEW p \in DOMAIN s PROVE Without(s, {s[p]}) = RemoveAt(s, p)
  <2> DEFINE w == RemoveAt(s, p)
             e == [n \in DOMAIN w |-> IF n < p THEN n ELSE n + 1]
  <2>1. /\ w \in Seq(S) /\ Len(w) = Len(s) - 1
        /\ \A n \in 1 .. Len(s) - 1 : w[n] = IF n < p THEN s[n] ELSE s[n + 1]
    BY RemoveAtIs
  <2> HIDE DEF w
  <2>2. DOMAIN w = 1 .. Len(s) - 1 /\ p \in 1 .. Len(s)
    BY <1>1, <2>1
  <2>3. ASSUME NEW n \in DOMAIN w
        PROVE  e[n] = (IF n < p THEN n ELSE n + 1) /\ e[n] \in 1 .. Len(s) /\ e[n] # p
    BY <1>1, <2>2
  <2>4. e \in [DOMAIN w -> DOMAIN s]
    BY <1>1, <2>3
  <2>5. \A m, n \in DOMAIN w : m < n => e[m] < e[n]
    BY <1>1, <2>2
  <2>6. \A n \in DOMAIN w : w[n] = s[e[n]] /\ s[e[n]] \notin {s[p]}
    <3> TAKE n \in DOMAIN w
    <3>1. w[n] = s[e[n]]
      BY <2>1, <2>2, <2>3
    <3>2. s[e[n]] # s[p]
      BY <1>1, <2>3 DEF Distinct
    <3> QED
      BY <3>1, <3>2
  <2>7. ASSUME NEW i \in DOMAIN s, s[i] \notin {s[p]} PROVE \E n \in DOMAIN w : e[n] = i
    <3>1. i # p /\ i \in 1 .. Len(s)
      BY <1>1, <2>7
    <3>2. CASE i < p
      <4>1. i \in DOMAIN w /\ e[i] = i
        BY <1>1, <2>2, <3>1, <3>2
      <4> QED
        BY <4>1
    <3>3. CASE ~(i < p)
      <4>1. i - 1 \in DOMAIN w /\ ~(i - 1 < p) /\ (i - 1) + 1 = i
        BY <1>1, <2>2, <3>1, <3>3
      <4>2. e[i - 1] = i
        BY <4>1
      <4> QED
        BY <4>1, <4>2
    <3> QED
      BY <3>2, <3>3
  <2>8. Picks(e, w, s, {s[p]})
    BY <2>4, <2>5, <2>6, <2>7 DEF Picks
  <2>9. w = Without(s, {s[p]})
    BY <2>1, <2>8, PicksWithout
  <2> QED
    BY <2>9 DEF w
<1>3. ASSUME NEW x, x \notin ToSet(s) PROVE Without(s, {x}) = s
  <2> DEFINE e == [n \in DOMAIN s |-> n]
  <2>1. \A n \in DOMAIN s : s[n] # x
    BY <1>3 DEF ToSet
  <2>2. Picks(e, s, s, {x})
    BY <2>1 DEF Picks
  <2> QED
    BY <2>2, PicksWithout
<1> QED
  BY <1>2, <1>3

-----------------------------------------------------------------------------
(* The invariant.                                                          *)

Live == ToSet(records) \ Zombies
On(r) == {t \in Travs : cur[t] = r}

\* Of a record that is empty the key is gone.
Keyed == \A r \in Slots : IF rec[r].empty THEN rec[r].key = None ELSE rec[r].key \in Keys

\* What TableMatchesList says, without map_find_record.
Tabled ==
  /\ \A b \in DOMAIN table : \A r \in ToSet(table[b]) : r \in Live /\ BucketOf(rec[r].key, HashSize) = b
  /\ \A b \in DOMAIN table : Distinct(table[b])
  /\ \A r \in Live : r \in ToSet(table[BucketOf(rec[r].key, HashSize)])
  /\ \A r, s \in Live : rec[r].key = rec[s].key => r = s

Counted == count = Cardinality(Live)

MInv == TypeOK /\ Distinct(records) /\ Keyed /\ Tabled /\ Counted /\ LocksExact

\* Sets of records and of traversals are finite.
LEMMA Finite ==
  ASSUME MInv
  PROVE  /\ IsFiniteSet(Live) /\ Live \subseteq Slots /\ ToSet(records) \subseteq Slots
         /\ \A r : IsFiniteSet(On(r)) /\ Cardinality(On(r)) \in Nat
<1>1. ToSet(records) \subseteq Slots
  BY DEF MInv, TypeOK, ToSet
<1>2. IsFiniteSet(Live)
  BY <1>1, MapAssumption, FS_Subset DEF Live
<1>3. ASSUME NEW r PROVE IsFiniteSet(On(r)) /\ Cardinality(On(r)) \in Nat
  <2>1. On(r) \in SUBSET (Iters \cup Frames)
    BY DEF On, Travs
  <2> QED
    BY <2>1, MapAssumption, FS_Subset, FS_CardinalityType
<1> QED
  BY <1>1, <1>2, <1>3 DEF Live

\* What LocksExact says of a record.
LEMMA LocksOf ==
  ASSUME MInv, NEW r \in Slots
  PROVE  /\ r \in ToSet(records) <=> (Cardinality(On(r)) > 0 \/ ~rec[r].empty)
         /\ rec[r].rc = Cardinality(On(r)) + (IF rec[r].empty THEN 0 ELSE 1)
  BY DEF MInv, LocksExact, On

\* map_find_record finds the record with a key, if there is one.
LEMMA FindIs ==
  ASSUME TypeOK, Tabled, NEW k \in Keys
  PROVE  /\ Find(k) # None => Find(k) \in Live /\ rec[Find(k)].key = k
         /\ \A r \in Live : rec[r].key = k => Find(k) = r
<1> DEFINE bucket == table[BucketOf(k, HashSize)]
           hits == {i \in DOMAIN bucket : rec[bucket[i]].key = k}
           least == CHOOSE i \in hits : \A j \in hits : i <= j
<1>1. BucketOf(k, HashSize) \in DOMAIN table /\ bucket \in Seq(Slots)
  BY MapAssumption DEF TypeOK
<1>2. Find(k) = IF hits = {} THEN None ELSE bucket[least]
  BY DEF Find
<1>3. ASSUME NEW i \in hits PROVE i \in Nat /\ bucket[i] \in Live /\ rec[bucket[i]].key = k
  <2>1. i \in DOMAIN bucket /\ bucket[i] \in ToSet(bucket)
    BY DEF ToSet
  <2> QED
    BY <1>1, <1>3, <2>1 DEF Tabled
<1>4. ASSUME NEW i \in hits, NEW j \in hits PROVE i = j
  <2>1. bucket[i] = bucket[j]
    BY <1>3 DEF Tabled
  <2>2. Distinct(bucket)
    BY <1>1 DEF Tabled
  <2> QED
    BY <1>4, <2>1, <2>2 DEF Distinct
<1>5. ASSUME NEW i \in hits PROVE hits = {i} /\ least = i
  <2>1. hits = {i}
    BY <1>4
  <2>2. i \in hits /\ \A j \in hits : i <= j
    BY <1>3, <1>4
  <2> HIDE DEF hits
  <2> QED
    BY <2>1, <2>2
<1>6. ASSUME NEW r \in Live, rec[r].key = k PROVE \E i \in hits : bucket[i] = r
  <2>1. r \in ToSet(bucket)
    BY <1>6 DEF Tabled
  <2> QED
    BY <1>6, <2>1 DEF ToSet
<1> HIDE DEF hits, bucket, least
<1> QED
  BY <1>2, <1>3, <1>5, <1>6

\* The invariant implies what is checked.
LEMMA MInvSound ==
  ASSUME MInv
  PROVE  RecordsSound
<1>1. \A r \in Live : rec[r].key \in Keys
  BY Finite DEF MInv, Keyed, Live, Zombies
<1>2. \A r \in Live : Find(rec[r].key) = r
  BY <1>1, FindIs DEF MInv
<1>3. ASSUME NEW b \in DOMAIN table, NEW i \in DOMAIN table[b]
      PROVE  /\ table[b][i] \in Live /\ BucketOf(rec[table[b][i]].key, HashSize) = b
             /\ \A j \in DOMAIN table[b] : table[b][j] = table[b][i] => j = i
  <2>1. table[b][i] \in ToSet(table[b])
    BY DEF ToSet
  <2> QED
    BY <2>1 DEF MInv, Tabled, Distinct
<1>4. TableMatchesList
  BY <1>2, <1>3 DEF TableMatchesList, MInv, Counted, Live
<1> QED
  BY <1>4 DEF RecordsSound, MInv

\* The invariant holds at first.
LEMMA InitMInv ==
  ASSUME Init
  PROVE  MInv
<1>1. ToSet(records) = {} /\ Live = {} /\ DOMAIN records = {}
  BY DEF Init, ToSet, Live
<1>2. DOMAIN table = {0} /\ HashSize = 1 /\ table[0] = <<>>
  BY FS_Singleton DEF Init, HashSize
<1>3. ToSet(table[0]) = {}
  BY <1>2 DEF ToSet
<1>4. TypeOK
  <2>1. table \in [0 .. HashSize - 1 -> Seq(Slots)]
    BY <1>2 DEF Init
  <2> QED
    BY <1>2, <2>1, MapAssumption DEF Init, TypeOK, Blank
<1>5. Distinct(records) /\ Keyed
  BY <1>1 DEF Distinct, Keyed, Init, Blank
<1>6. Tabled
  BY <1>1, <1>2, <1>3 DEF Tabled, Distinct
<1>7. Counted
  BY <1>1, FS_EmptySet DEF Counted, Init
<1>8. LocksExact
  <2> SUFFICES ASSUME NEW r \in Slots
               PROVE  /\ r \in ToSet(records) <=> (Cardinality({t \in Travs : cur[t] = r}) > 0 \/ ~rec[r].empty)
                      /\ rec[r].rc = Cardinality({t \in Travs : cur[t] = r}) + (IF rec[r].empty THEN 0 ELSE 1)
    BY DEF LocksExact
  <2>1. {t \in Travs : cur[t] = r} = {}
    BY MapAssumption DEF Init
  <2>2. Cardinality({t \in Travs : cur[t] = r}) = 0
    BY <2>1, FS_EmptySet
  <2>3. r \notin ToSet(records) /\ rec[r].empty = TRUE /\ rec[r].rc = 0
    BY <1>1 DEF Init, Blank
  <2> QED
    BY <2>2, <2>3
<1> QED
  BY <1>4, <1>5, <1>6, <1>7, <1>8 DEF MInv

\* A new value changes nothing else.
LEMMA ValueKeeps ==
  ASSUME MInv, NEW f \in Slots, NEW v \in Vals,
         rec' = [rec EXCEPT ![f].val = v], UNCHANGED <<records, table, count, threshold, cur>>
  PROVE  MInv'
<1>1. rec' \in [Slots -> [key : Keys \cup {None}, val : Vals \cup {None}, empty : BOOLEAN, rc : Nat]]
  BY DEF MInv, TypeOK
<1>2. \A r \in Slots : rec'[r].key = rec[r].key /\ rec'[r].empty = rec[r].empty /\ rec'[r].rc = rec[r].rc
  BY DEF MInv, TypeOK
<1>3. Zombies' = Zombies /\ Live' = Live /\ Live \subseteq Slots /\ HashSize' = HashSize
  BY <1>2, Finite DEF Zombies, Live, HashSize
<1>4. TypeOK'
  BY <1>1, <1>3 DEF MInv, TypeOK
<1>5. Distinct(records)' /\ Keyed'
  BY <1>2 DEF MInv, Keyed, Distinct
<1>6. Tabled'
  <2>1. \A b \in DOMAIN table : \A r \in ToSet(table[b]) : r \in Slots
    BY <1>3 DEF MInv, Tabled
  <2> QED
    BY <1>2, <1>3, <2>1 DEF MInv, Tabled, Distinct
<1>7. Counted' /\ LocksExact'
  BY <1>2, <1>3 DEF MInv, Counted, LocksExact
<1> QED
  BY <1>4, <1>5, <1>6, <1>7 DEF MInv


\* map_delete_record of records in the list.
LEMMA DeletedKeeps ==
  ASSUME MInv, NEW D \in SUBSET ToSet(records), Deleted(D), UNCHANGED <<threshold, cur>>
  PROVE  MInv'
<1> DEFINE full == D \ Zombies
           freed == {r \in full : rec[r].rc = 1}
<1>1. /\ records' = Without(records, freed)
      /\ rec' = [r \in Slots |-> IF r \in full THEN Emptied(r) ELSE rec[r]]
      /\ table' = [b \in DOMAIN table |-> Without(table[b], full)]
      /\ count' = count - Cardinality(full)
  BY DEF Deleted
<1>2. full \subseteq Live /\ full \subseteq Slots /\ freed \subseteq full
  BY Finite DEF Live
<1>3. \A r \in full : ~rec[r].empty /\ rec[r].rc = Cardinality(On(r)) + 1 /\ Cardinality(On(r)) \in Nat
  BY <1>2, LocksOf, Finite DEF Zombies
<1>4. \A r \in freed : rec[r].rc = 1
  OBVIOUS
<1>5. \A r \in full \ freed : rec[r].rc # 1
  OBVIOUS
<1> HIDE DEF full, freed
<1>6. /\ \A r \in full : /\ rec'[r].key = None /\ rec'[r].val = None /\ rec'[r].empty
                         /\ rec'[r].rc = Cardinality(On(r))
      /\ \A r \in Slots \ full : rec'[r] = rec[r]
  <2>1. ASSUME NEW r \in full
        PROVE  /\ Emptied(r).key = None /\ Emptied(r).val = None /\ Emptied(r).empty
               /\ Emptied(r).rc = rec[r].rc - 1
    BY DEF Emptied, Blank
  <2>2. ASSUME NEW r \in full
        PROVE  /\ rec'[r].key = None /\ rec'[r].val = None /\ rec'[r].empty
               /\ rec'[r].rc = Cardinality(On(r))
    <3>1. rec'[r] = Emptied(r)
      BY <1>1, <1>2
    <3> QED
      BY <1>3, <2>1, <3>1
  <2>3. \A r \in Slots \ full : rec'[r] = rec[r]
    BY <1>1
  <2> QED
    BY <2>2, <2>3
<1>7. rec' \in [Slots -> [key : Keys \cup {None}, val : Vals \cup {None}, empty : BOOLEAN, rc : Nat]]
  <2>1. ASSUME NEW r \in full
        PROVE  Emptied(r) \in [key : Keys \cup {None}, val : Vals \cup {None}, empty : BOOLEAN, rc : Nat]
    <3>1. rec[r].rc - 1 \in Nat
      BY <1>3
    <3>2. Blank \in [key : Keys \cup {None}, val : Vals \cup {None}, empty : BOOLEAN, rc : Nat]
      BY DEF Blank
    <3> QED
      BY <3>1, <3>2 DEF Emptied
  <2>2. \A r \in Slots : rec[r] \in [key : Keys \cup {None}, val : Vals \cup {None}, empty : BOOLEAN, rc : Nat]
    BY DEF MInv, TypeOK
  <2> QED
    BY <1>1, <2>1, <2>2
<1>8. /\ records' \in Seq(Slots) /\ ToSet(records') = ToSet(records) \ freed
      /\ Distinct(records')
  BY <1>1, WithoutIs DEF MInv, TypeOK
<1>9. Zombies' = Zombies \cup full
  BY <1>2, <1>3, <1>6, Zenon DEF Zombies
<1>10. Live' = Live \ full
  BY <1>2, <1>8, <1>9 DEF Live
<1>11. DOMAIN table' = DOMAIN table /\ HashSize' = HashSize
  BY <1>1 DEF HashSize
<1>12. ASSUME NEW b \in DOMAIN table
       PROVE  /\ table'[b] \in Seq(Slots) /\ ToSet(table'[b]) = ToSet(table[b]) \ full
              /\ Distinct(table'[b])
  <2>1. table[b] \in Seq(Slots) /\ Distinct(table[b])
    BY DEF MInv, TypeOK, Tabled
  <2>2. table'[b] = Without(table[b], full)
    BY <1>1
  <2> QED
    BY <2>1, <2>2, WithoutIs
<1>13. Counted' /\ count' \in Nat
  <2>1. IsFiniteSet(Live) /\ Live \cap full = full
    BY <1>2, Finite
  <2>2. Cardinality(Live \ full) = Cardinality(Live) - Cardinality(full) /\ IsFiniteSet(Live \ full)
    BY <2>1, FS_Difference
  <2>3. Cardinality(Live \ full) \in Nat
    BY <2>2, FS_CardinalityType
  <2> QED
    BY <1>1, <1>10, <2>2, <2>3 DEF MInv, Counted
<1>14. TypeOK'
  <2>1. table' \in [0 .. HashSize' - 1 -> Seq(Slots)]
    BY <1>1, <1>11, <1>12 DEF MInv, TypeOK
  <2> QED
    BY <1>7, <1>8, <1>11, <1>13, <2>1 DEF MInv, TypeOK
<1>15. Keyed'
  BY <1>6 DEF MInv, Keyed
<1>16. Tabled'
  <2>1. \A r \in Live' : r \in Live /\ r \in Slots /\ rec'[r].key = rec[r].key
    BY <1>6, <1>10, Finite
  <2>2. ASSUME NEW b \in DOMAIN table', NEW r \in ToSet(table'[b])
        PROVE  r \in Live' /\ BucketOf(rec'[r].key, HashSize') = b
    <3>1. r \in Live /\ BucketOf(rec[r].key, HashSize) = b /\ r \notin full
      BY <1>11, <1>12, <2>2 DEF MInv, Tabled
    <3> QED
      BY <1>10, <1>11, <2>1, <3>1
  <2>3. ASSUME NEW r \in Live' PROVE r \in ToSet(table'[BucketOf(rec'[r].key, HashSize')])
    <3>1. r \in ToSet(table[BucketOf(rec[r].key, HashSize)]) /\ r \notin full
      BY <1>10, <2>1, <2>3 DEF MInv, Tabled
    <3>2. BucketOf(rec[r].key, HashSize) \in DOMAIN table
      <4>1. rec[r].key \in Keys
        BY <2>1, <2>3 DEF MInv, Keyed, Live, Zombies
      <4> QED
        BY <4>1, MapAssumption DEF MInv, TypeOK
    <3> QED
      BY <1>11, <1>12, <2>1, <2>3, <3>1, <3>2
  <2>4. \A r, s \in Live' : rec'[r].key = rec'[s].key => r = s
    BY <2>1 DEF MInv, Tabled
  <2>5. \A b \in DOMAIN table' : Distinct(table'[b])
    BY <1>11, <1>12
  <2> QED
    BY <2>2, <2>3, <2>4, <2>5 DEF Tabled, Distinct
<1>17. LocksExact'
  <2> SUFFICES ASSUME NEW r \in Slots
               PROVE  /\ r \in ToSet(records') <=> (Cardinality(On(r)) > 0 \/ ~rec'[r].empty)
                      /\ rec'[r].rc = Cardinality(On(r)) + (IF rec'[r].empty THEN 0 ELSE 1)
    BY DEF LocksExact, On
  <2>1. CASE r \in full
    <3>1. r \in ToSet(records)
      BY <1>2, <2>1 DEF Live
    <3> QED
      BY <1>3, <1>4, <1>5, <1>6, <1>8, <2>1, <3>1
  <2>2. CASE r \notin full
    BY <1>2, <1>6, <1>8, <2>2, LocksOf
  <2> QED
    BY <2>1, <2>2
<1> QED
  BY <1>8, <1>13, <1>14, <1>15, <1>16, <1>17 DEF MInv, Distinct

\* A traversal leaves its record, and locks the next.
LEMMA GoesKeeps ==
  ASSUME MInv, NEW t \in Travs, NEW next \in Live \cup {None}, Goes(t, next)
  PROVE  MInv'
<1> DEFINE left == {r \in Slots : r = cur[t]}
           freed == {r \in left : rec[r].rc = 1}
           Locks(r) == rec[r].rc - (IF r \in left THEN 1 ELSE 0) + (IF r = next THEN 1 ELSE 0)
<1>1. /\ records' = Without(records, freed)
      /\ rec' = [r \in Slots |-> IF r \in freed THEN Blank ELSE [rec[r] EXCEPT !.rc = Locks(r)]]
      /\ cur' = [cur EXCEPT ![t] = next]
      /\ UNCHANGED <<table, count, threshold>>
  BY DEF Goes
<1>2. ASSUME NEW r \in Slots
      PROVE  /\ Cardinality(On(r)) \in Nat /\ Cardinality(On(r)') \in Nat
             /\ Cardinality(On(r)') = Cardinality(On(r)) - (IF r \in left THEN 1 ELSE 0) + (IF r = next THEN 1 ELSE 0)
             /\ r \in left => Cardinality(On(r)) > 0
  <2>1. On(r)' = IF r = next THEN (On(r) \ {t}) \cup {t} ELSE On(r) \ {t}
    BY <1>1, MapAssumption DEF On, MInv, TypeOK
  <2>2. t \in On(r) <=> r \in left
    BY DEF On
  <2>3. IsFiniteSet(On(r)) /\ Cardinality(On(r)) \in Nat
    BY Finite
  <2>4. /\ IsFiniteSet(On(r) \ {t})
        /\ Cardinality(On(r) \ {t}) = Cardinality(On(r)) - (IF r \in left THEN 1 ELSE 0)
    BY <2>2, <2>3, FS_RemoveElement
  <2>5. /\ IsFiniteSet((On(r) \ {t}) \cup {t})
        /\ Cardinality((On(r) \ {t}) \cup {t}) = Cardinality(On(r) \ {t}) + 1
    BY <2>4, FS_AddElement
  <2>6. r \in left => Cardinality(On(r)) # 0
    BY <2>2, <2>3, FS_EmptySet
  <2>7. IsFiniteSet(On(r)') /\ Cardinality(On(r)') \in Nat
    BY <2>1, <2>4, <2>5, FS_CardinalityType
  <2> QED
    BY <2>1, <2>3, <2>4, <2>5, <2>6, <2>7
<1>3. ASSUME NEW r \in Slots
      PROVE  /\ r \in ToSet(records) <=> (Cardinality(On(r)) > 0 \/ ~rec[r].empty)
             /\ rec[r].rc = Cardinality(On(r)) + (IF rec[r].empty THEN 0 ELSE 1)
             /\ r = next => ~rec[r].empty
  <2>1. r = next => ~rec[r].empty
    BY MapAssumption DEF Live, Zombies
  <2> QED
    BY <2>1, LocksOf
<1>4. \A r \in Slots : r \in freed <=> r \in left /\ rec[r].rc = 1
  OBVIOUS
<1> HIDE DEF left, freed
<1>5. ASSUME NEW r \in Slots
      PROVE  /\ rec'[r].key = rec[r].key /\ rec'[r].empty = rec[r].empty
             /\ rec'[r].rc = Cardinality(On(r)') + (IF rec[r].empty THEN 0 ELSE 1)
             /\ rec'[r] \in [key : Keys \cup {None}, val : Vals \cup {None}, empty : BOOLEAN, rc : Nat]
  <2>1. rec[r] \in [key : Keys \cup {None}, val : Vals \cup {None}, empty : BOOLEAN, rc : Nat]
    BY DEF MInv, TypeOK
  <2>2. CASE r \in freed
    <3>1. rec'[r] = Blank
      BY <1>1, <2>2
    <3>2. rec[r].empty /\ r # next /\ Cardinality(On(r)) = 1 /\ rec[r].key = None
      BY <1>2, <1>3, <1>4, <2>1, <2>2 DEF MInv, Keyed
    <3>3. Cardinality(On(r)') = 0
      BY <1>2, <1>4, <2>2, <3>2
    <3> QED
      BY <2>1, <3>1, <3>2, <3>3 DEF Blank
  <2>3. CASE r \notin freed
    <3>1. rec'[r] = [rec[r] EXCEPT !.rc = Locks(r)]
      BY <1>1, <2>3
    <3>2. Locks(r) = Cardinality(On(r)') + (IF rec[r].empty THEN 0 ELSE 1) /\ Locks(r) \in Nat
      BY <1>2, <1>3
    <3> HIDE DEF Locks
    <3> QED
      BY <2>1, <3>1, <3>2
  <2> QED
    BY <2>2, <2>3
<1>6. freed \subseteq Zombies
  BY <1>2, <1>3, <1>4 DEF Zombies, freed, left
<1>7. Zombies' = Zombies
  BY <1>5 DEF Zombies
<1>8. /\ records' \in Seq(Slots) /\ ToSet(records') = ToSet(records) \ freed
      /\ Distinct(records')
  BY <1>1, WithoutIs DEF MInv, TypeOK
<1>9. Live' = Live /\ HashSize' = HashSize /\ Live \subseteq Slots
  BY <1>1, <1>6, <1>7, <1>8, Finite DEF Live, HashSize
<1>10. TypeOK'
  <2>1. rec' \in [Slots -> [key : Keys \cup {None}, val : Vals \cup {None}, empty : BOOLEAN, rc : Nat]]
    BY <1>1, <1>5
  <2>2. cur' \in [Travs -> Slots \cup {Start, None}]
    BY <1>1, <1>9 DEF MInv, TypeOK
  <2> QED
    BY <1>1, <1>8, <1>9, <2>1, <2>2 DEF MInv, TypeOK
<1>11. Keyed'
  BY <1>5 DEF MInv, Keyed
<1>12. Tabled' /\ Counted'
  <2>1. \A b \in DOMAIN table : \A r \in ToSet(table[b]) : r \in Slots
    BY <1>9 DEF MInv, Tabled
  <2> QED
    <3>1. \A r \in Slots : rec'[r].key = rec[r].key
      BY <1>5
    <3>2. Tabled'
      BY <1>1, <1>9, <2>1, <3>1 DEF MInv, Tabled, Distinct
    <3>3. Counted'
      BY <1>1, <1>9 DEF MInv, Counted
    <3> QED
      BY <3>2, <3>3
<1>13. LocksExact'
  <2> SUFFICES ASSUME NEW r \in Slots
               PROVE  /\ r \in ToSet(records') <=> (Cardinality(On(r)') > 0 \/ ~rec'[r].empty)
                      /\ rec'[r].rc = Cardinality(On(r)') + (IF rec'[r].empty THEN 0 ELSE 1)
    BY DEF LocksExact, On
  <2>1. r \in ToSet(records') <=> r \in ToSet(records) /\ ~(r \in left /\ rec[r].rc = 1)
    BY <1>4, <1>8
  <2>2. /\ rec'[r].rc = Cardinality(On(r)') + (IF rec'[r].empty THEN 0 ELSE 1)
        /\ rec'[r].empty = rec[r].empty
    BY <1>5
  <2>3. /\ r \in ToSet(records) <=> (Cardinality(On(r)) > 0 \/ ~rec[r].empty)
        /\ rec[r].rc = Cardinality(On(r)) + (IF rec[r].empty THEN 0 ELSE 1)
        /\ r = next => ~rec[r].empty
    BY <1>3
  <2>4. Cardinality(On(r)) \in Nat /\ Cardinality(On(r)') \in Nat
    BY <1>2
  <2>5. r \in ToSet(records') <=> (Cardinality(On(r)') > 0 \/ ~rec'[r].empty)
    <3>1. rec[r].empty \in BOOLEAN
      BY DEF MInv, TypeOK
    <3>2. CASE rec[r].empty
      BY <1>2, <2>1, <2>2, <2>3, <2>4, <3>1, <3>2
    <3>3. CASE ~rec[r].empty
      <4>1. ~(r \in left /\ rec[r].rc = 1)
        BY <1>2, <2>3, <3>3
      <4> QED
        BY <2>1, <2>2, <2>3, <3>3, <4>1
    <3> QED
      BY <3>2, <3>3
  <2> QED
    BY <2>2, <2>5
<1> QED
  BY <1>8, <1>10, <1>11, <1>12, <1>13 DEF MInv, Distinct


\* A record for a key that has none, in the table as it is or in a larger one.
LEMMA AddRecordKeeps ==
  ASSUME MInv, NEW k \in Keys, NEW v \in Vals, \A x \in Live : rec[x].key # k,
         AddRecord(k, v), UNCHANGED cur
  PROVE  MInv'
<1> DEFINE size == (IF HashSize = 1 THEN 4 ELSE HashSize * 2) + Slack
           b0 == BucketOf(k, HashSize)
<1>1. PICK r \in Slots \ ToSet(records) :
        /\ records' = Append(records, r) /\ count' = count + 1
        /\ rec' = [rec EXCEPT ![r] = [key |-> k, val |-> v, empty |-> FALSE, rc |-> 1]]
        /\ \/ table' = [table EXCEPT ![b0] = Append(@, r)] /\ UNCHANGED threshold
           \/ size <= MaxSize /\ table' = Rehash(records', rec', size) /\ threshold' = size * 2
  BY DEF AddRecord
<1>2. HashSize \in 1 .. MaxSize /\ size \in Nat \ {0} /\ DOMAIN table = 0 .. HashSize - 1
  BY MapAssumption DEF MInv, TypeOK
<1> HIDE DEF size
<1>3. r \in Zombies /\ rec[r].empty /\ Cardinality(On(r)) = 0
  <2>1. rec[r].empty \in BOOLEAN
    BY DEF MInv, TypeOK
  <2> QED
    BY <1>1, <2>1, LocksOf, Finite DEF Zombies
<1>4. /\ rec' \in [Slots -> [key : Keys \cup {None}, val : Vals \cup {None}, empty : BOOLEAN, rc : Nat]]
      /\ rec'[r].key = k /\ ~rec'[r].empty /\ rec'[r].rc = 1
      /\ \A x \in Slots \ {r} : rec'[x] = rec[x]
  BY <1>1 DEF MInv, TypeOK
<1>5. /\ records' \in Seq(Slots) /\ ToSet(records') = ToSet(records) \cup {r} /\ Distinct(records')
  <2>1. records \in Seq(Slots) /\ Len(records) \in Nat /\ DOMAIN records = 1 .. Len(records)
    BY DEF MInv, TypeOK
  <2>2. /\ records' \in Seq(Slots) /\ DOMAIN records' = 1 .. Len(records) + 1
        /\ \A i \in 1 .. Len(records) : records'[i] = records[i]
        /\ records'[Len(records) + 1] = r
    BY <1>1, <2>1
  <2>3. \A i \in 1 .. Len(records) : records[i] # r
    BY <1>1, <2>1 DEF ToSet
  <2>4. ASSUME NEW x \in ToSet(records) PROVE x \in ToSet(records')
    <3>1. PICK i \in 1 .. Len(records) : x = records[i]
      BY <2>1, <2>4 DEF ToSet
    <3>2. i \in DOMAIN records' /\ records'[i] = x
      BY <2>1, <2>2, <3>1
    <3> QED
      BY <3>2 DEF ToSet
  <2>5. r \in ToSet(records')
    <3>1. Len(records) + 1 \in DOMAIN records'
      BY <2>1, <2>2
    <3> QED
      BY <2>2, <3>1 DEF ToSet
  <2>6. ASSUME NEW x \in ToSet(records') PROVE x \in ToSet(records) \cup {r}
    BY <2>1, <2>2, <2>6 DEF ToSet
  <2>7. Distinct(records')
    BY <2>1, <2>2, <2>3 DEF MInv, Distinct
  <2> QED
    BY <2>2, <2>4, <2>5, <2>6, <2>7
<1>6. Zombies' = Zombies \ {r}
  BY <1>4 DEF Zombies
<1>7. Live' = Live \cup {r} /\ r \notin Live
  BY <1>1, <1>3, <1>5, <1>6 DEF Live
<1>8. Counted' /\ count' \in Nat
  <2>1. Cardinality(Live \cup {r}) = Cardinality(Live) + 1
    BY <1>7, Finite, FS_AddElement
  <2> QED
    BY <1>1, <1>7, <2>1 DEF MInv, Counted, TypeOK
<1>9. Keyed'
  BY <1>4 DEF MInv, Keyed
<1>10. \A x \in Live : x \in Slots /\ x # r /\ rec'[x] = rec[x] /\ rec[x].key \in Keys
  BY <1>4, <1>7, Finite DEF MInv, Keyed, Live, Zombies
<1>11. \A x, y \in Live' : rec'[x].key = rec'[y].key => x = y
  BY <1>4, <1>7, <1>10 DEF MInv, Tabled
<1>12. LocksExact'
  <2> SUFFICES ASSUME NEW x \in Slots
               PROVE  /\ x \in ToSet(records') <=> (Cardinality(On(x)) > 0 \/ ~rec'[x].empty)
                      /\ rec'[x].rc = Cardinality(On(x)) + (IF rec'[x].empty THEN 0 ELSE 1)
    BY DEF LocksExact, On
  <2>1. CASE x = r
    BY <1>3, <1>4, <1>5, <2>1
  <2>2. CASE x # r
    BY <1>4, <1>5, <2>2, LocksOf
  <2> QED
    BY <2>1, <2>2
<1>13. CASE table' = [table EXCEPT ![b0] = Append(@, r)] /\ UNCHANGED threshold
  <2>1. b0 \in DOMAIN table
    BY <1>2, MapAssumption
  <2>2. DOMAIN table' = DOMAIN table /\ HashSize' = HashSize
    BY <1>13 DEF HashSize
  <2>3. table[b0] \in Seq(Slots) /\ r \notin ToSet(table[b0]) /\ Distinct(table[b0])
    BY <1>7, <2>1 DEF MInv, TypeOK, Tabled
  <2>4. table'[b0] = Append(table[b0], r) /\ \A b \in DOMAIN table \ {b0} : table'[b] = table[b]
    BY <1>13, <2>1
  <2>5. table'[b0] \in Seq(Slots) /\ ToSet(table'[b0]) = ToSet(table[b0]) \cup {r} /\ Distinct(table'[b0])
    <3> DEFINE s == table[b0]
               a == table'[b0]
    <3>1. Len(s) \in Nat /\ DOMAIN s = 1 .. Len(s)
      BY <2>3
    <3>2. /\ a \in Seq(Slots) /\ DOMAIN a = 1 .. Len(s) + 1
          /\ \A i \in 1 .. Len(s) : a[i] = s[i]
          /\ a[Len(s) + 1] = r
      BY <2>3, <2>4
    <3>3. \A i \in 1 .. Len(s) : s[i] # r
      BY <2>3, <3>1 DEF ToSet
    <3> HIDE DEF s, a
    <3>4. ASSUME NEW x \in ToSet(s) PROVE x \in ToSet(a)
      <4>1. PICK i \in 1 .. Len(s) : x = s[i]
        BY <3>1, <3>4 DEF ToSet
      <4>2. i \in DOMAIN a /\ a[i] = x
        BY <3>1, <3>2, <4>1
      <4> QED
        BY <4>2 DEF ToSet
    <3>5. r \in ToSet(a)
      <4>1. Len(s) + 1 \in DOMAIN a
        BY <3>1, <3>2
      <4> QED
        BY <3>2, <4>1 DEF ToSet
    <3>6. ASSUME NEW x \in ToSet(a) PROVE x \in ToSet(s) \cup {r}
      BY <3>1, <3>2, <3>6 DEF ToSet
    <3>7. Distinct(s)
      BY <2>3 DEF s
    <3>8. Distinct(a)
      BY <3>1, <3>2, <3>3, <3>7 DEF Distinct
    <3> QED
      BY <3>2, <3>4, <3>5, <3>6, <3>8 DEF s, a
  <2>6. TypeOK'
    <3>1. table' \in [0 .. HashSize' - 1 -> Seq(Slots)]
      BY <1>2, <1>13, <2>1, <2>2, <2>4, <2>5 DEF MInv, TypeOK
    <3> QED
      BY <1>4, <1>5, <1>8, <1>13, <2>2, <3>1 DEF MInv, TypeOK
  <2>7. Tabled'
    <3>1. ASSUME NEW b \in DOMAIN table, NEW x \in ToSet(table'[b])
          PROVE  x \in Live' /\ BucketOf(rec'[x].key, HashSize) = b
      <4>1. CASE x = r
        BY <1>4, <1>7, <2>3, <2>4, <2>5, <3>1, <4>1 DEF MInv, Tabled
      <4>2. CASE x # r
        <5>1. x \in ToSet(table[b])
          BY <2>4, <2>5, <3>1, <4>2
        <5> QED
          BY <1>7, <1>10, <5>1 DEF MInv, Tabled
      <4> QED
        BY <4>1, <4>2
    <3>2. ASSUME NEW b \in DOMAIN table PROVE Distinct(table'[b])
      BY <2>4, <2>5 DEF MInv, Tabled
    <3>3. ASSUME NEW x \in Live' PROVE x \in ToSet(table'[BucketOf(rec'[x].key, HashSize)])
      <4>1. CASE x = r
        BY <1>4, <2>5, <4>1
      <4>2. CASE x # r
        <5>1. x \in ToSet(table[BucketOf(rec[x].key, HashSize)]) /\ rec'[x].key = rec[x].key
          BY <1>7, <1>10, <3>3, <4>2 DEF MInv, Tabled
        <5>2. BucketOf(rec[x].key, HashSize) \in DOMAIN table
          BY <1>2, <1>7, <1>10, <3>3, <4>2, MapAssumption
        <5> QED
          BY <2>4, <2>5, <5>1, <5>2
      <4> QED
        BY <4>1, <4>2
    <3> QED
      BY <1>11, <2>2, <3>1, <3>2, <3>3 DEF Tabled, Distinct
  <2> QED
    BY <1>5, <1>8, <1>9, <1>12, <2>6, <2>7 DEF MInv, Distinct
<1>14. CASE size <= MaxSize /\ table' = Rehash(records', rec', size) /\ threshold' = size * 2
  <2> DEFINE Not(b) == {x \in Slots : rec'[x].empty \/ BucketOf(rec'[x].key, size) # b}
  <2>1. table' = [b \in 0 .. size - 1 |-> Without(records', Not(b))]
    BY <1>14 DEF Rehash
  <2>2. DOMAIN table' = 0 .. size - 1 /\ HashSize' = size
    <3>1. DOMAIN table' = 0 .. size - 1
      BY <2>1
    <3>2. Cardinality(0 .. size - 1) = size
      BY <1>2, FS_Interval
    <3> QED
      BY <3>1, <3>2 DEF HashSize
  <2>3. ASSUME NEW b \in 0 .. size - 1
        PROVE  /\ table'[b] \in Seq(Slots) /\ ToSet(table'[b]) = ToSet(records') \ Not(b)
               /\ Distinct(table'[b])
    <3>1. table'[b] = Without(records', Not(b))
      BY <2>1
    <3> HIDE DEF Not
    <3> QED
      BY <1>5, <3>1, WithoutIs
  <2>4. ToSet(records') \subseteq Slots /\ \A x \in Slots : x \in Live' <=> x \in ToSet(records') /\ ~rec'[x].empty
    BY <1>1, <1>5, Finite DEF Live, Zombies
  <2>5. ASSUME NEW b \in 0 .. size - 1, NEW x
        PROVE  x \in ToSet(table'[b]) <=> x \in Live' /\ BucketOf(rec'[x].key, size) = b
    <3>1. x \in ToSet(table'[b]) <=> x \in ToSet(records') /\ x \notin Not(b)
      BY <2>3
    <3>2. Live' \subseteq Slots
      BY <1>1, <1>7, Finite
    <3> QED
      BY <2>4, <3>1, <3>2
  <2> HIDE DEF Not
  <2>6. TypeOK'
    <3>1. table' \in [0 .. size - 1 -> Seq(Slots)]
      BY <2>1, <2>3
    <3>2. size \in 1 .. MaxSize /\ size * 2 \in Nat
      BY <1>2, <1>14
    <3> QED
      BY <1>4, <1>5, <1>8, <1>14, <2>2, <3>1, <3>2 DEF MInv, TypeOK
  <2>7. \A x \in Live' : BucketOf(rec'[x].key, size) \in 0 .. size - 1
    <3>1. \A x \in Live' : rec'[x].key \in Keys
      BY <1>4, <1>7, <1>10
    <3> QED
      BY <1>2, <1>14, <3>1, MapAssumption
  <2>8. Tabled'
    BY <1>11, <2>2, <2>3, <2>5, <2>7 DEF Tabled, Distinct
  <2> QED
    BY <1>5, <1>8, <1>9, <1>12, <2>6, <2>8 DEF MInv, Distinct
<1> QED
  BY <1>1, <1>13, <1>14

\* A traversal stops at nothing or at a record that is not empty.
LEMMA VisitGoes ==
  ASSUME MInv, NEW t \in Travs, Visit(t)
  PROVE  \E next \in Live \cup {None} : Goes(t, next)
<1> DEFINE ahead == Without(Ahead(t), Zombies)
<1>1. records \in Seq(Slots) /\ Len(records) \in Nat /\ DOMAIN records = 1 .. Len(records)
  BY DEF MInv, TypeOK
<1>2. Ahead(t) \in Seq(Slots) /\ ToSet(Ahead(t)) \subseteq ToSet(records)
  <2>1. CASE cur[t] \notin Slots
    BY <1>1, <2>1 DEF Ahead
  <2>2. CASE cur[t] \in Slots
    <3> DEFINE i == CHOOSE i \in DOMAIN records : records[i] = cur[t]
               rest == SubSeq(records, i + 1, Len(records))
    <3>1. i \in 1 .. Len(records)
      <4>1. t \in On(cur[t])
        BY DEF On
      <4>2. Cardinality(On(cur[t])) > 0
        BY <4>1, Finite, FS_EmptySet
      <4>3. cur[t] \in ToSet(records)
        BY <2>2, <4>2, LocksOf
      <4>4. \E n \in DOMAIN records : records[n] = cur[t]
        BY <4>3 DEF ToSet
      <4> QED
        BY <1>1, <4>4
    <3>2. Ahead(t) = rest
      BY <2>2 DEF Ahead, Following
    <3> HIDE DEF i
    <3>3. /\ rest \in Seq(Slots)
          /\ \A n \in DOMAIN rest : rest[n] = records[n + i] /\ n + i \in 1 .. Len(records)
      BY <1>1, <3>1
    <3> HIDE DEF rest
    <3> QED
      BY <1>1, <3>2, <3>3 DEF ToSet
  <2> QED
    BY <2>1, <2>2
<1>3. ahead \in Seq(Slots) /\ ToSet(ahead) = ToSet(Ahead(t)) \ Zombies
  BY <1>2, WithoutIs
<1>4. Goes(t, IF ahead = <<>> THEN None ELSE Head(ahead))
  BY DEF Visit
<1> HIDE DEF ahead
<1>5. ahead # <<>> => Head(ahead) \in Live
  <2> SUFFICES ASSUME ahead # <<>> PROVE Head(ahead) \in Live
    OBVIOUS
  <2>1. 1 \in DOMAIN ahead /\ Head(ahead) = ahead[1]
    BY <1>3
  <2>2. Head(ahead) \in ToSet(ahead)
    BY <2>1 DEF ToSet
  <2> QED
    BY <1>2, <1>3, <2>2 DEF Live
<1> QED
  BY <1>4, <1>5

\* Every step keeps the invariant.
LEMMA NextMInv ==
  ASSUME MInv, [Next]_vars
  PROVE  MInv'
<1>1. ASSUME NEW k \in Keys, NEW v \in Vals, Set(k, v) PROVE MInv'
  <2>1. /\ Find(k) # None => Find(k) \in Live
        /\ \A r \in Live : rec[r].key = k => Find(k) = r
    BY FindIs DEF MInv
  <2>2. CASE Find(k) = None
    <3>1. \A x \in Live : rec[x].key # k
      BY <2>1, <2>2, Finite, MapAssumption
    <3> QED
      BY <1>1, <2>2, <3>1, AddRecordKeeps DEF Set
  <2>3. CASE Find(k) # None
    <3>1. Find(k) \in Slots
      BY <2>1, <2>3, Finite
    <3> QED
      BY <1>1, <2>3, <3>1, ValueKeeps DEF Set
  <2> QED
    BY <2>2, <2>3
<1>2. ASSUME NEW k \in Keys, Delete(k) PROVE MInv'
  <2>1. Find(k) \in ToSet(records)
    BY <1>2, FindIs DEF MInv, Delete, Live
  <2>2. {Find(k)} \in SUBSET ToSet(records)
    BY <2>1
  <2> QED
    BY <1>2, <2>2, DeletedKeeps DEF Delete
<1>3. CASE Clear
  BY <1>3, DeletedKeeps DEF Clear
<1>4. ASSUME NEW t \in Travs, NewIterator(t) PROVE MInv'
  <2>1. \A r \in Slots : On(r)' = On(r)
    BY <1>4, MapAssumption DEF NewIterator, On, MInv, TypeOK
  <2>2. LocksExact'
    BY <1>4, <2>1 DEF NewIterator, LocksExact, MInv, On
  <2>3. TypeOK'
    BY <1>4 DEF NewIterator, MInv, TypeOK, HashSize
  <2>4. UNCHANGED <<records, rec, table, count, threshold>> /\ Zombies' = Zombies /\ Live' = Live /\ HashSize' = HashSize
    BY <1>4 DEF NewIterator, Zombies, Live, HashSize
  <2> QED
    BY <2>2, <2>3, <2>4 DEF MInv, Keyed, Tabled, Counted, Distinct
<1>5. ASSUME NEW t \in Travs, Visit(t) PROVE MInv'
  BY <1>5, VisitGoes, GoesKeeps
<1>6. ASSUME NEW t \in Travs, Goes(t, None) PROVE MInv'
  BY <1>6, GoesKeeps
<1>7. CASE UNCHANGED vars
  <2>1. Zombies' = Zombies /\ Live' = Live /\ HashSize' = HashSize
    BY <1>7 DEF vars, Zombies, Live, HashSize
  <2> QED
    BY <1>7, <2>1 DEF vars, MInv, TypeOK, Keyed, Tabled, Counted, Distinct, LocksExact
<1> QED
  BY <1>1, <1>2, <1>3, <1>4, <1>5, <1>6, <1>7 DEF Next, Travs, IterNext, DropIterator, ForEach, Returned, Threw

\* Whatever script does to a Map or Set in the middle of traversals: the table
\* finds the records that the list holds, those that are not empty and each
\* once; record_count counts them; and a record is freed when it is deleted and
\* its last lock is gone, not earlier and not later.
THEOREM RecordsSoundCorrect == Spec => []RecordsSound
<1>1. Init => MInv
  BY InitMInv
<1>2. MInv /\ [Next]_vars => MInv'
  BY NextMInv
<1>3. MInv => RecordsSound
  BY MInvSound
<1> QED
  BY <1>1, <1>2, <1>3, PTL DEF Spec

-----------------------------------------------------------------------------
(* The keys of lists of records.                                           *)

\* The keys of the records of a list that are not in Z.
EntriesOf(list, R, Z) ==
  LET full == Without(list, Z)
  IN  [i \in DOMAIN full |-> R[full[i]].key]

KeyedIn(list, R, Z) == \A x \in ToSet(list) \ Z : R[x].key \in Keys

\* The n-th key is the key of the n-th record that is not a zombie.
LEMMA EntriesIs ==
  ASSUME NEW list \in Seq(Slots), NEW R, NEW Z, KeyedIn(list, R, Z)
  PROVE  LET w == Without(list, Z)
             s == EntriesOf(list, R, Z)
         IN  /\ w \in Seq(Slots) /\ s \in Seq(Keys) /\ Len(s) = Len(w) /\ DOMAIN s = DOMAIN w
             /\ \A n \in DOMAIN w : s[n] = R[w[n]].key /\ w[n] \in ToSet(list) \ Z
             /\ s = <<>> <=> w = <<>>
             /\ ToSet(s) = {R[x].key : x \in ToSet(list) \ Z}
<1> DEFINE w == Without(list, Z)
           s == EntriesOf(list, R, Z)
<1>1. w \in Seq(Slots) /\ ToSet(w) = ToSet(list) \ Z
  BY WithoutIs
<1>2. s = [i \in DOMAIN w |-> R[w[i]].key]
  BY DEF EntriesOf
<1> HIDE DEF w, s
<1>3. Len(w) \in Nat /\ DOMAIN w = 1 .. Len(w)
  BY <1>1
<1>4. \A n \in DOMAIN w : w[n] \in ToSet(list) \ Z /\ s[n] = R[w[n]].key /\ s[n] \in Keys
  <2> TAKE n \in DOMAIN w
  <2>1. w[n] \in ToSet(w)
    BY DEF ToSet
  <2> QED
    BY <1>1, <1>2, <2>1 DEF KeyedIn
<1>5. s \in Seq(Keys) /\ Len(s) = Len(w) /\ DOMAIN s = DOMAIN w
  BY <1>2, <1>3, <1>4
<1>6. s = <<>> <=> w = <<>>
  BY <1>1, <1>3, <1>5
<1>7. ASSUME NEW k \in ToSet(s) PROVE \E x \in ToSet(list) \ Z : k = R[x].key
  BY <1>4, <1>5 DEF ToSet
<1>8. ASSUME NEW x \in ToSet(list) \ Z PROVE R[x].key \in ToSet(s)
  <2>1. PICK n \in DOMAIN w : w[n] = x
    BY <1>1 DEF ToSet
  <2> QED
    BY <1>4, <1>5, <2>1 DEF ToSet
<1>9. ToSet(s) = {R[x].key : x \in ToSet(list) \ Z}
  BY <1>7, <1>8
<1> QED
  BY <1>1, <1>4, <1>5, <1>6, <1>9 DEF w, s

\* The keys do not change when only what is not a key changes.
LEMMA EntriesSame ==
  ASSUME NEW list \in Seq(Slots), NEW R, NEW Z, NEW Q, NEW Y,
         \A x \in ToSet(list) : x \in Z <=> x \in Y,
         \A x \in ToSet(list) \ Z : R[x].key = Q[x].key
  PROVE  EntriesOf(list, R, Z) = EntriesOf(list, Q, Y)
<1> DEFINE w == Without(list, Z)
<1>1. w = Without(list, Y)
  BY WithoutSame
<1>2. \A n \in DOMAIN w : w[n] \in ToSet(list) \ Z
  <2> TAKE n \in DOMAIN w
  <2>1. w[n] \in ToSet(w)
    BY DEF ToSet
  <2> QED
    BY <2>1, WithoutIs
<1> HIDE DEF w
<1>3. [i \in DOMAIN w |-> R[w[i]].key] = [i \in DOMAIN w |-> Q[w[i]].key]
  BY <1>2
<1> QED
  BY <1>1, <1>3 DEF EntriesOf, w

\* A zombie in the list makes no difference: it is freed without script
\* noticing.
LEMMA EntriesWithout ==
  ASSUME NEW list \in Seq(Slots), NEW R, NEW Z, NEW A \in SUBSET Z
  PROVE  EntriesOf(Without(list, A), R, Z) = EntriesOf(list, R, Z)
<1>1. A \cup Z = Z
  OBVIOUS
<1>2. Without(Without(list, A), Z) = Without(list, Z)
  BY <1>1, WithoutTwice
<1> QED
  BY <1>2 DEF EntriesOf

\* A new record at the end is a new key at the end.
LEMMA EntriesAppend ==
  ASSUME NEW list \in Seq(Slots), NEW R, NEW Z, KeyedIn(list, R, Z),
         NEW r \in Slots \ Z, R[r].key \in Keys
  PROVE  EntriesOf(Append(list, r), R, Z) = Append(EntriesOf(list, R, Z), R[r].key)
<1> DEFINE w == Without(list, Z)
           s == EntriesOf(list, R, Z)
           t == EntriesOf(Append(list, r), R, Z)
           u == Append(w, r)
           v == Append(s, R[r].key)
<1>1. /\ w \in Seq(Slots) /\ s \in Seq(Keys) /\ Len(s) = Len(w)
      /\ \A n \in DOMAIN w : s[n] = R[w[n]].key
  BY EntriesIs
<1>2. Without(Append(list, r), Z) = u
  BY WithoutAppend
<1>3. t = [i \in DOMAIN u |-> R[u[i]].key]
  BY <1>2 DEF EntriesOf
<1> HIDE DEF w, s, t
<1>4. /\ u \in Seq(Slots) /\ Len(u) = Len(w) + 1 /\ u[Len(w) + 1] = r
      /\ \A n \in 1 .. Len(w) : u[n] = w[n]
  BY <1>1
<1>5. /\ v \in Seq(Keys) /\ Len(v) = Len(w) + 1 /\ v[Len(w) + 1] = R[r].key
      /\ \A n \in 1 .. Len(w) : v[n] = s[n]
  BY <1>1
<1> HIDE DEF u, v
<1>6. Len(w) \in Nat /\ DOMAIN u = 1 .. Len(w) + 1 /\ DOMAIN w = 1 .. Len(w)
  BY <1>1, <1>4
<1>7. ASSUME NEW n \in 1 .. Len(w) + 1 PROVE v[n] = R[u[n]].key
  <2>1. CASE n = Len(w) + 1
    BY <1>4, <1>5, <2>1
  <2>2. CASE n \in 1 .. Len(w)
    BY <1>1, <1>4, <1>5, <1>6, <2>2
  <2> QED
    BY <1>6, <2>1, <2>2
<1>8. v = [n \in 1 .. Len(w) + 1 |-> v[n]]
  BY <1>5
<1>9. t = v
  BY <1>3, <1>6, <1>7, <1>8
<1> QED
  BY <1>9 DEF t, v, s

\* The map without a key is the list without the record of that key.
LEMMA EntriesDrop ==
  ASSUME NEW list \in Seq(Slots), Distinct(list), NEW R, NEW Z, KeyedIn(list, R, Z),
         NEW r \in Slots \ Z,
         \A x \in ToSet(list) \ Z : R[x].key = R[r].key <=> x = r
  PROVE  EntriesOf(list, R, Z \cup {r}) = Abstract!Drop(EntriesOf(list, R, Z), R[r].key)
<1> DEFINE w == Without(list, Z)
           s == EntriesOf(list, R, Z)
           k == R[r].key
           u == Without(w, {r})
<1>1. /\ w \in Seq(Slots) /\ s \in Seq(Keys) /\ Len(s) = Len(w) /\ DOMAIN s = DOMAIN w
      /\ \A n \in DOMAIN w : s[n] = R[w[n]].key /\ w[n] \in ToSet(list) \ Z
  BY EntriesIs
<1>2. Distinct(w)
  BY WithoutIs
<1>3. Without(list, Z \cup {r}) = u
  BY WithoutTwice
<1>4. EntriesOf(list, R, Z \cup {r}) = [i \in DOMAIN u |-> R[u[i]].key]
  BY <1>3 DEF EntriesOf
<1>5. s = [i \in DOMAIN w |-> R[w[i]].key]
  BY DEF EntriesOf
<1> HIDE DEF w, s, u
<1>6. \A n \in DOMAIN w : s[n] = k <=> w[n] = r
  BY <1>1
<1>7. CASE r \in ToSet(w)
  <2>1. PICK p \in DOMAIN w : w[p] = r
    BY <1>7 DEF ToSet
  <2>2. \A n \in DOMAIN s : s[n] = k <=> n = p
    BY <1>1, <1>2, <1>6, <2>1 DEF Distinct
  <2>3. k \in ToSet(s) /\ (CHOOSE i \in DOMAIN s : s[i] = k) = p
    <3>1. k \in ToSet(s)
      BY <1>1, <2>2, <2>1 DEF ToSet
    <3>2. p \in DOMAIN s /\ s[p] = k
      BY <1>1, <2>1, <2>2
    <3> HIDE DEF k
    <3>3. (CHOOSE i \in DOMAIN s : s[i] = k) = p
      BY <2>2, <3>2
    <3> QED
      BY <3>1, <3>3
  <2>4. Abstract!Drop(s, k) = RemoveAt(s, p)
    BY <2>3 DEF Abstract!Drop, Abstract!ToSet, Abstract!RemoveAt, ToSet, RemoveAt
  <2>5. u = RemoveAt(w, p)
    BY <1>1, <1>2, <2>1, WithoutOne DEF u
  <2> DEFINE d == RemoveAt(s, p)
  <2>6. /\ u \in Seq(Slots) /\ Len(u) = Len(w) - 1
        /\ \A n \in 1 .. Len(w) - 1 : u[n] = IF n < p THEN w[n] ELSE w[n + 1]
    BY <1>1, <2>1, <2>5, RemoveAtIs
  <2>7. /\ d \in Seq(Keys) /\ Len(d) = Len(w) - 1
        /\ \A n \in 1 .. Len(w) - 1 : d[n] = IF n < p THEN s[n] ELSE s[n + 1]
    <3>1. p \in DOMAIN s
      BY <1>1, <2>1
    <3>2. /\ RemoveAt(s, p) \in Seq(Keys) /\ Len(RemoveAt(s, p)) = Len(s) - 1
          /\ \A n \in 1 .. Len(s) - 1 : RemoveAt(s, p)[n] = IF n < p THEN s[n] ELSE s[n + 1]
      BY <1>1, <3>1, RemoveAtIs
    <3> QED
      BY <1>1, <3>2
  <2> HIDE DEF d, k
  <2>8. Len(w) \in Nat /\ DOMAIN u = 1 .. Len(w) - 1 /\ DOMAIN w = 1 .. Len(w) /\ p \in 1 .. Len(w)
    BY <1>1, <2>1, <2>6
  <2>9. ASSUME NEW n \in 1 .. Len(w) - 1 PROVE d[n] = R[u[n]].key
    <3>1. n \in DOMAIN w /\ n + 1 \in DOMAIN w
      BY <2>8
    <3>2. CASE n < p
      BY <1>1, <2>6, <2>7, <3>1, <3>2
    <3>3. CASE ~(n < p)
      BY <1>1, <2>6, <2>7, <3>1, <3>3
    <3> QED
      BY <3>2, <3>3
  <2>10. d = [n \in 1 .. Len(w) - 1 |-> d[n]]
    BY <2>7, <2>8
  <2>11. d = [i \in DOMAIN u |-> R[u[i]].key]
    BY <2>8, <2>9, <2>10
  <2> QED
    BY <1>4, <2>4, <2>11 DEF d, k, s
<1>8. CASE r \notin ToSet(w)
  <2>1. u = w
    BY <1>1, <1>2, <1>8, WithoutOne DEF u
  <2>2. k \notin ToSet(s)
    BY <1>1, <1>6, <1>8 DEF ToSet
  <2>3. Abstract!Drop(s, k) = s
    BY <2>2 DEF Abstract!Drop, Abstract!ToSet, ToSet
  <2> QED
    BY <1>4, <1>5, <2>1, <2>3 DEF s
<1> QED
  BY <1>7, <1>8

\* The next record a traversal visits, and what is left ahead of it.
LEMMA EntriesTail ==
  ASSUME NEW list \in Seq(Slots), Distinct(list), NEW R, NEW Z, KeyedIn(list, R, Z),
         Without(list, Z) # <<>>
  PROVE  LET next == Head(Without(list, Z))
         IN  /\ next \in ToSet(list) \ Z /\ EntriesOf(list, R, Z) # <<>>
             /\ EntriesOf(After(list, next), R, Z) = Tail(EntriesOf(list, R, Z))
<1> DEFINE w == Without(list, Z)
           s == EntriesOf(list, R, Z)
           next == Head(w)
           u == Tail(w)
           t == Tail(s)
<1>1. /\ w \in Seq(Slots) /\ s \in Seq(Keys) /\ Len(s) = Len(w) /\ DOMAIN s = DOMAIN w
      /\ \A n \in DOMAIN w : s[n] = R[w[n]].key
      /\ s = <<>> <=> w = <<>>
  BY EntriesIs
<1>2. next \in ToSet(list) \ Z /\ Without(After(list, next), Z) = u
  BY WithoutHead
<1>3. EntriesOf(After(list, next), R, Z) = [i \in DOMAIN u |-> R[u[i]].key]
  BY <1>2 DEF EntriesOf
<1>4. w # <<>> /\ s # <<>>
  BY <1>1
<1> HIDE DEF w, s
<1>5. u \in Seq(Slots) /\ Len(u) = Len(w) - 1 /\ \A n \in 1 .. Len(w) - 1 : u[n] = w[n + 1]
  BY <1>1, <1>4
<1>6. t \in Seq(Keys) /\ Len(t) = Len(w) - 1 /\ \A n \in 1 .. Len(w) - 1 : t[n] = s[n + 1]
  BY <1>1, <1>4
<1> HIDE DEF u, t
<1>7. Len(w) \in Nat /\ DOMAIN u = 1 .. Len(w) - 1 /\ DOMAIN w = 1 .. Len(w)
  BY <1>1, <1>5
<1>8. ASSUME NEW n \in 1 .. Len(w) - 1 PROVE t[n] = R[u[n]].key
  <2>1. n + 1 \in DOMAIN w
    BY <1>7
  <2> QED
    BY <1>1, <1>5, <1>6, <2>1
<1>9. t = [n \in 1 .. Len(w) - 1 |-> t[n]]
  BY <1>6, <1>7
<1>10. t = [i \in DOMAIN u |-> R[u[i]].key]
  BY <1>7, <1>8, <1>9
<1> QED
  BY <1>2, <1>3, <1>4, <1>10 DEF t, s, w

-----------------------------------------------------------------------------
(* What script sees.                                                       *)

\* What the steps of OrderedMap are shown from: the mapped order, values and
\* todo are those of the records, a key has one live record, and a traversal is
\* at a record of the list that its lock keeps alive.
Shown ==
  /\ records \in Seq(Slots) /\ Distinct(records)
  /\ \A r \in Live : r \in Slots /\ rec[r].key \in Keys
  /\ \A r, s \in Live : rec[r].key = rec[s].key => r = s
  /\ order = EntriesOf(records, rec, Zombies)
  /\ DOMAIN value = {rec[r].key : r \in Live} /\ value = [k \in DOMAIN value |-> value[k]]
  /\ \A r \in Live : value[rec[r].key] = rec[r].val
  /\ todo = [t \in Travs |-> IF cur[t] = None THEN None ELSE EntriesOf(Ahead(t), rec, Zombies)]
  /\ \A t \in Travs :
       /\ Ahead(t) = IF cur[t] \in Slots THEN After(records, cur[t]) ELSE records
       /\ cur[t] \in Slots => cur[t] \in ToSet(records) /\ \A r \in Live : r = cur[t] => rec[r].rc # 1
       /\ Ahead(t) \in Seq(Slots) /\ Distinct(Ahead(t)) /\ ToSet(Ahead(t)) \subseteq ToSet(records)

\* The invariant of the records gives what script sees.
LEMMA MInvShown ==
  MInv => Shown
<1> SUFFICES ASSUME MInv PROVE Shown
  OBVIOUS
<1>1. records \in Seq(Slots) /\ Distinct(records)
  BY DEF MInv, TypeOK
<1>2. \A r \in Live : r \in Slots /\ rec[r].key \in Keys
  BY Finite DEF MInv, Keyed, Live, Zombies
<1>3. \A r \in Live : Find(rec[r].key) = r
  BY <1>2, FindIs DEF MInv
<1>4. \A r, s \in Live : rec[r].key = rec[s].key => r = s
  BY DEF MInv, Tabled
<1>5. order = EntriesOf(records, rec, Zombies)
  BY DEF order, Entries, EntriesOf
<1>6. /\ DOMAIN value = {rec[r].key : r \in Live} /\ value = [k \in DOMAIN value |-> value[k]]
      /\ \A r \in Live : value[rec[r].key] = rec[r].val
  <2>1. value = [k \in {rec[r].key : r \in Live} |-> rec[Find(k)].val]
    BY DEF value, Live
  <2> QED
    BY <1>3, <2>1
<1>7. todo = [t \in Travs |-> IF cur[t] = None THEN None ELSE EntriesOf(Ahead(t), rec, Zombies)]
  BY DEF todo, Entries, EntriesOf
<1>8. ASSUME NEW t \in Travs
      PROVE  /\ Ahead(t) = IF cur[t] \in Slots THEN After(records, cur[t]) ELSE records
             /\ cur[t] \in Slots => cur[t] \in ToSet(records) /\ \A r \in Live : r = cur[t] => rec[r].rc # 1
             /\ Ahead(t) \in Seq(Slots) /\ Distinct(Ahead(t)) /\ ToSet(Ahead(t)) \subseteq ToSet(records)
  <2>1. Ahead(t) = IF cur[t] \in Slots THEN After(records, cur[t]) ELSE records
    BY DEF Ahead, Following, After
  <2>2. ASSUME cur[t] \in Slots
        PROVE  cur[t] \in ToSet(records) /\ \A r \in Live : r = cur[t] => rec[r].rc # 1
    <3>1. t \in On(cur[t])
      BY DEF On
    <3>2. Cardinality(On(cur[t])) \in Nat /\ Cardinality(On(cur[t])) > 0
      BY <3>1, Finite, FS_EmptySet
    <3>3. \A r \in Live : ~rec[r].empty
      BY <1>2 DEF Live, Zombies
    <3> QED
      BY <2>2, <3>2, <3>3, LocksOf
  <2>3. Ahead(t) \in Seq(Slots) /\ Distinct(Ahead(t)) /\ ToSet(Ahead(t)) \subseteq ToSet(records)
    BY <1>1, <2>1, <2>2, AfterDistinct
  <2> QED
    BY <2>1, <2>2, <2>3
<1> QED
  BY <1>1, <1>2, <1>4, <1>5, <1>6, <1>7, <1>8 DEF Shown

\* Before and after a step.
LEMMA BothShown ==
  MInv /\ [Next]_vars => Shown /\ Shown'
<1>1. MInv => Shown
  BY MInvShown
<1>2. MInv /\ [Next]_vars => MInv'
  BY NextMInv
<1> QED
  BY <1>1, <1>2, PTL

\* Setting the value of a key that is there.
LEMMA ValueShows ==
  ASSUME MInv, Shown, Shown', NEW f \in Live, NEW v \in Vals, NEW k, k = rec[f].key,
         rec' = [rec EXCEPT ![f].val = v], UNCHANGED <<records, table, count, threshold, cur>>
  PROVE  Abstract!Set(k, v)
<1>1. f \in Slots /\ \A r \in Slots : /\ rec'[r].key = rec[r].key /\ rec'[r].empty = rec[r].empty
                                     /\ rec'[r].val = IF r = f THEN v ELSE rec[r].val
  BY DEF MInv, TypeOK, Shown
<1>2. Zombies' = Zombies /\ Live' = Live
  BY <1>1 DEF Zombies, Live
<1>3. ASSUME NEW list \in Seq(Slots), ToSet(list) \subseteq ToSet(records)
      PROVE  EntriesOf(list, rec', Zombies') = EntriesOf(list, rec, Zombies)
  <2>1. \A x \in ToSet(list) \ Zombies : rec[x].key = rec'[x].key
    BY <1>1, <1>3 DEF Shown, Live
  <2>2. \A x \in ToSet(list) : x \in Zombies <=> x \in Zombies'
    BY <1>2
  <2> DEFINE Q == rec'
             Y == Zombies'
  <2> HIDE DEF Q, Y
  <2>3. /\ \A x \in ToSet(list) : x \in Zombies <=> x \in Y
        /\ \A x \in ToSet(list) \ Zombies : rec[x].key = Q[x].key
    BY <2>1, <2>2 DEF Q, Y
  <2>4. EntriesOf(list, rec, Zombies) = EntriesOf(list, Q, Y)
    BY <2>3, EntriesSame
  <2> QED
    BY <2>4 DEF Q, Y
<1>4. order' = order
  <2>1. order = EntriesOf(records, rec, Zombies) /\ order' = EntriesOf(records', rec', Zombies')
    BY DEF Shown
  <2> QED
    BY <1>3, <2>1 DEF Shown
<1>5. todo' = todo
  <2>1. ASSUME NEW t \in Travs
        PROVE  EntriesOf(Ahead(t)', rec', Zombies') = EntriesOf(Ahead(t), rec, Zombies)
    <3>1. Ahead(t)' = Ahead(t) /\ Ahead(t) \in Seq(Slots) /\ ToSet(Ahead(t)) \subseteq ToSet(records)
      BY DEF Shown
    <3> QED
      BY <1>3, <3>1
  <2>2. /\ todo = [t \in Travs |-> IF cur[t] = None THEN None ELSE EntriesOf(Ahead(t), rec, Zombies)]
        /\ todo' = [t \in Travs |-> IF cur'[t] = None THEN None ELSE EntriesOf(Ahead(t)', rec', Zombies')]
    BY DEF Shown
  <2> QED
    BY <2>1, <2>2
<1>6. k \in DOMAIN value
  BY DEF Shown
<1>7. value' = [x \in DOMAIN value \cup {k} |-> IF x = k THEN v ELSE value[x]]
  <2>1. DOMAIN value' = DOMAIN value \cup {k}
    BY <1>1, <1>2, <1>6 DEF Shown
  <2>2. ASSUME NEW x \in DOMAIN value' PROVE value'[x] = IF x = k THEN v ELSE value[x]
    <3>1. PICK r \in Live : x = rec[r].key
      BY <1>1, <1>2, <2>2 DEF Shown
    <3>2. r \in Slots /\ r \in Live' /\ x = rec'[r].key
      BY <1>1, <1>2, <3>1 DEF Shown
    <3>3. value'[x] = rec'[r].val /\ value[x] = rec[r].val
      BY <3>1, <3>2 DEF Shown
    <3>4. x = k <=> r = f
      BY <3>1 DEF Shown
    <3> QED
      BY <1>1, <3>2, <3>3, <3>4
  <2>3. value' = [x \in DOMAIN value' |-> value'[x]]
    BY DEF Shown
  <2> QED
    BY <2>1, <2>2, <2>3
<1> QED
  BY <1>4, <1>5, <1>6, <1>7 DEF Abstract!Set, Abstract!Present

\* Adding a record: a new key, at the end, that every traversal still has ahead
\* of it.
LEMMA AddShows ==
  ASSUME MInv, Shown, Shown', NEW k \in Keys, NEW v \in Vals, \A x \in Live : rec[x].key # k,
         AddRecord(k, v), UNCHANGED cur
  PROVE  Abstract!Set(k, v)
<1>1. PICK r \in Slots \ ToSet(records) :
        /\ records' = Append(records, r)
        /\ rec' = [rec EXCEPT ![r] = [key |-> k, val |-> v, empty |-> FALSE, rc |-> 1]]
  BY DEF AddRecord
<1>2. r \in Zombies
  <2>1. rec[r].empty \in BOOLEAN
    BY DEF MInv, TypeOK
  <2> QED
    BY <1>1, <2>1, LocksOf DEF Zombies
<1>3. /\ rec'[r].key = k /\ rec'[r].val = v /\ ~rec'[r].empty
      /\ \A x \in Slots \ {r} : rec'[x] = rec[x]
  BY <1>1 DEF MInv, TypeOK
<1>4. Zombies' = Zombies \ {r}
  BY <1>3 DEF Zombies
<1>5. ToSet(records') = ToSet(records) \cup {r}
  <2>1. /\ DOMAIN records = 1 .. Len(records) /\ Len(records) \in Nat
        /\ DOMAIN records' = 1 .. Len(records) + 1 /\ records'[Len(records) + 1] = r
        /\ \A i \in 1 .. Len(records) : records'[i] = records[i]
    BY <1>1 DEF Shown
  <2>2. ASSUME NEW x \in ToSet(records') PROVE x \in ToSet(records) \cup {r}
    BY <2>1 DEF ToSet
  <2>3. r \in ToSet(records')
    <3>1. Len(records) + 1 \in DOMAIN records'
      BY <2>1
    <3> QED
      BY <2>1, <3>1 DEF ToSet
  <2>4. ASSUME NEW x \in ToSet(records) PROVE x \in ToSet(records')
    <3>1. PICK i \in 1 .. Len(records) : records[i] = x
      BY <2>1 DEF ToSet
    <3>2. i \in DOMAIN records' /\ records'[i] = x
      BY <2>1, <3>1
    <3> QED
      BY <3>2 DEF ToSet
  <2> QED
    BY <2>2, <2>3, <2>4
<1>6. Live' = Live \cup {r} /\ r \notin Live
  BY <1>1, <1>2, <1>4, <1>5 DEF Live
<1>7. ASSUME NEW list \in Seq(Slots), ToSet(list) \subseteq ToSet(records)
      PROVE  /\ EntriesOf(list, rec, Zombies) \in Seq(Keys)
             /\ EntriesOf(Append(list, r), rec', Zombies') = Append(EntriesOf(list, rec, Zombies), k)
  <2>1. \A x \in ToSet(list) : x \in Zombies <=> x \in Zombies'
    BY <1>1, <1>4, <1>7
  <2>2. \A x \in ToSet(list) \ Zombies : rec[x].key = rec'[x].key /\ rec[x].key \in Keys
    BY <1>1, <1>3, <1>7 DEF Shown, Live
  <2>3. KeyedIn(list, rec', Zombies') /\ KeyedIn(list, rec, Zombies)
    BY <2>1, <2>2 DEF KeyedIn
  <2>4. EntriesOf(list, rec, Zombies) = EntriesOf(list, rec', Zombies')
    BY <2>1, <2>2, EntriesSame
  <2>5. r \in Slots \ Zombies'
    BY <1>1, <1>4
  <2>6. EntriesOf(Append(list, r), rec', Zombies') = Append(EntriesOf(list, rec', Zombies'), rec'[r].key)
    BY <1>3, <2>3, <2>5, EntriesAppend
  <2> QED
    BY <1>3, <2>3, <2>4, <2>6, EntriesIs
<1>8. order' = Append(order, k)
  <2>1. order = EntriesOf(records, rec, Zombies) /\ order' = EntriesOf(records', rec', Zombies')
    BY DEF Shown
  <2> QED
    BY <1>1, <1>7, <2>1 DEF Shown
<1>9. ASSUME NEW t \in Travs
      PROVE  /\ EntriesOf(Ahead(t), rec, Zombies) \in Seq(Keys)
             /\ EntriesOf(Ahead(t)', rec', Zombies') = Append(EntriesOf(Ahead(t), rec, Zombies), k)
  <2>1. /\ Ahead(t) = IF cur[t] \in Slots THEN After(records, cur[t]) ELSE records
        /\ Ahead(t)' = IF cur[t] \in Slots THEN After(records', cur[t]) ELSE records'
        /\ cur[t] \in Slots => cur[t] \in ToSet(records)
        /\ Ahead(t) \in Seq(Slots) /\ ToSet(Ahead(t)) \subseteq ToSet(records)
    BY DEF Shown
  <2>2. ASSUME cur[t] \in Slots PROVE After(records', cur[t]) = Append(After(records, cur[t]), r)
    BY <1>1, <2>1, <2>2, AfterAppend DEF Shown
  <2>3. Ahead(t)' = Append(Ahead(t), r)
    BY <1>1, <2>1, <2>2
  <2> QED
    BY <1>7, <2>1, <2>3
<1>10. todo' = [t \in Travs |-> IF todo[t] = None THEN None ELSE Append(todo[t], k)]
  <2>1. /\ todo = [t \in Travs |-> IF cur[t] = None THEN None ELSE EntriesOf(Ahead(t), rec, Zombies)]
        /\ todo' = [t \in Travs |-> IF cur'[t] = None THEN None ELSE EntriesOf(Ahead(t)', rec', Zombies')]
    BY DEF Shown
  <2>2. \A t \in Travs : todo[t] = None <=> cur[t] = None
    BY <1>9, <2>1, MapAssumption
  <2> QED
    BY <1>9, <2>1, <2>2
<1>11. k \notin DOMAIN value
  BY DEF Shown
<1>12. value' = [x \in DOMAIN value \cup {k} |-> IF x = k THEN v ELSE value[x]]
  <2>1. \A x \in Live : x \in Slots /\ x # r /\ rec'[x] = rec[x]
    BY <1>3, <1>6 DEF Shown
  <2>2. DOMAIN value' = DOMAIN value \cup {k}
    <3>1. DOMAIN value = {rec[x].key : x \in Live} /\ DOMAIN value' = {rec'[x].key : x \in Live'}
      BY DEF Shown
    <3>2. ASSUME NEW y \in DOMAIN value' PROVE y \in DOMAIN value \cup {k}
      <4>1. PICK x \in Live' : y = rec'[x].key
        BY <3>1, <3>2
      <4> QED
        BY <1>3, <1>6, <2>1, <3>1, <4>1
    <3>3. ASSUME NEW y \in DOMAIN value \cup {k} PROVE y \in DOMAIN value'
      <4>1. PICK x \in Live' : y = rec'[x].key
        BY <1>3, <1>6, <2>1, <3>1, <3>3
      <4> QED
        BY <3>1, <4>1
    <3> QED
      BY <3>2, <3>3
  <2>3. ASSUME NEW x \in DOMAIN value' PROVE value'[x] = IF x = k THEN v ELSE value[x]
    <3>1. CASE x = k
      BY <1>3, <1>6, <3>1 DEF Shown
    <3>2. CASE x # k
      <4>1. PICK y \in Live : x = rec[y].key
        BY <2>2, <2>3, <3>2 DEF Shown
      <4>2. value'[x] = rec'[y].val /\ value[x] = rec[y].val
        BY <1>6, <2>1, <4>1 DEF Shown
      <4> QED
        BY <2>1, <3>2, <4>2
    <3> QED
      BY <3>1, <3>2
  <2>4. value' = [x \in DOMAIN value' |-> value'[x]]
    BY DEF Shown
  <2> QED
    BY <2>2, <2>3, <2>4
<1> QED
  BY <1>8, <1>10, <1>11, <1>12 DEF Abstract!Set, Abstract!Present

\* What map_delete_record does to the records.
LEMMA DeletedIs ==
  ASSUME MInv, NEW D \in SUBSET ToSet(records), Deleted(D)
  PROVE  LET full == D \ Zombies
             freed == {r \in full : rec[r].rc = 1}
         IN  /\ records' = Without(records, freed)
             /\ Zombies' = Zombies \cup full
             /\ \A r \in Slots \ full : rec'[r] = rec[r]
<1> DEFINE full == D \ Zombies
<1>1. /\ rec' = [r \in Slots |-> IF r \in full THEN Emptied(r) ELSE rec[r]]
      /\ full \subseteq Slots
  BY Finite DEF Deleted
<1>2. \A r \in full : rec'[r].empty
  <2> TAKE r \in full
  <2>1. Emptied(r).empty
    BY DEF Emptied, Blank
  <2> QED
    BY <1>1, <2>1
<1>3. \A r \in Slots \ full : rec'[r] = rec[r]
  BY <1>1
<1> HIDE DEF full
<1>4. Zombies' = Zombies \cup full
  BY <1>1, <1>2, <1>3, Zenon DEF Zombies
<1> QED
  BY <1>3, <1>4 DEF Deleted, full

\* map_delete_record, whether the record is freed or kept for an iterator.
LEMMA DeleteShows ==
  ASSUME MInv, Shown, Shown', NEW r \in Live, NEW k \in Keys, rec[r].key = k,
         Deleted({r}), UNCHANGED <<threshold, cur>>
  PROVE  Abstract!Delete(k)
<1> DEFINE freed == {x \in {r} : rec[x].rc = 1}
<1>1. /\ records' = Without(records, freed) /\ Zombies' = Zombies \cup {r}
      /\ \A x \in Slots \ {r} : rec'[x] = rec[x]
  <2>1. {r} \in SUBSET ToSet(records) /\ {r} \ Zombies = {r}
    BY DEF Live
  <2> QED
    BY <2>1, DeletedIs
<1>2. freed \in SUBSET {r} /\ (\A x \in freed : rec[x].rc = 1)
  OBVIOUS
<1> HIDE DEF freed
<1>3. Live' = Live \ {r} /\ r \in Slots /\ r \notin Zombies
  <2>1. ToSet(records') = ToSet(records) \ freed
    BY <1>1, WithoutIs DEF Shown
  <2> QED
    BY <1>1, <1>2, <2>1 DEF Live, Shown
<1>4. ASSUME NEW list \in Seq(Slots), Distinct(list), ToSet(list) \subseteq ToSet(records)
      PROVE  /\ EntriesOf(list, rec, Zombies) \in Seq(Keys)
             /\ EntriesOf(Without(list, freed), rec', Zombies') = Abstract!Drop(EntriesOf(list, rec, Zombies), k)
  <2>1. freed \in SUBSET Zombies'
    BY <1>1, <1>2
  <2>2. EntriesOf(Without(list, freed), rec', Zombies') = EntriesOf(list, rec', Zombies')
    BY <2>1, EntriesWithout
  <2>3. ASSUME NEW x \in ToSet(list) \ Zombies
        PROVE  x \in Slots /\ x \in Live /\ rec[x].key \in Keys /\ (rec[x].key = k <=> x = r)
    BY <1>4 DEF Shown, Live
  <2>4. KeyedIn(list, rec, Zombies)
    BY <2>3 DEF KeyedIn
  <2>5. EntriesOf(list, rec', Zombies') = EntriesOf(list, rec, Zombies \cup {r})
    <3>1. \A x \in ToSet(list) : x \in Zombies' <=> x \in Zombies \cup {r}
      BY <1>1
    <3>2. \A x \in ToSet(list) \ Zombies' : rec'[x].key = rec[x].key
      BY <1>1, <2>3
    <3> QED
      BY <3>1, <3>2, EntriesSame
  <2>6. EntriesOf(list, rec, Zombies \cup {r}) = Abstract!Drop(EntriesOf(list, rec, Zombies), rec[r].key)
    <3>1. r \in Slots \ Zombies
      BY <1>3
    <3> QED
      BY <1>4, <2>3, <2>4, <3>1, EntriesDrop
  <2> QED
    BY <2>2, <2>4, <2>5, <2>6, EntriesIs
<1>5. order' = Abstract!Drop(order, k)
  <2>1. order = EntriesOf(records, rec, Zombies) /\ order' = EntriesOf(records', rec', Zombies')
    BY DEF Shown
  <2> QED
    BY <1>1, <1>4, <2>1 DEF Shown
<1>6. ASSUME NEW t \in Travs
      PROVE  /\ EntriesOf(Ahead(t), rec, Zombies) \in Seq(Keys)
             /\ EntriesOf(Ahead(t)', rec', Zombies') = Abstract!Drop(EntriesOf(Ahead(t), rec, Zombies), k)
  <2>1. /\ Ahead(t) = IF cur[t] \in Slots THEN After(records, cur[t]) ELSE records
        /\ Ahead(t)' = IF cur[t] \in Slots THEN After(records', cur[t]) ELSE records'
        /\ cur[t] \in Slots => cur[t] \in ToSet(records) /\ (r = cur[t] => rec[r].rc # 1)
        /\ Ahead(t) \in Seq(Slots) /\ Distinct(Ahead(t)) /\ ToSet(Ahead(t)) \subseteq ToSet(records)
    BY DEF Shown
  <2>2. ASSUME cur[t] \in Slots PROVE After(records', cur[t]) = Without(After(records, cur[t]), freed)
    <3>1. cur[t] \in ToSet(records) \ freed
      BY <1>2, <2>1, <2>2
    <3> QED
      BY <1>1, <3>1, WithoutAfter DEF Shown
  <2>3. Ahead(t)' = Without(Ahead(t), freed)
    BY <1>1, <2>1, <2>2
  <2> QED
    BY <1>4, <2>1, <2>3
<1>7. todo' = [t \in Travs |-> IF todo[t] = None THEN None ELSE Abstract!Drop(todo[t], k)]
  <2>1. /\ todo = [t \in Travs |-> IF cur[t] = None THEN None ELSE EntriesOf(Ahead(t), rec, Zombies)]
        /\ todo' = [t \in Travs |-> IF cur'[t] = None THEN None ELSE EntriesOf(Ahead(t)', rec', Zombies')]
    BY DEF Shown
  <2>2. \A t \in Travs : todo[t] = None <=> cur[t] = None
    BY <1>6, <2>1, MapAssumption
  <2> QED
    BY <1>6, <2>1, <2>2
<1>8. k \in DOMAIN value
  BY DEF Shown
<1>9. value' = [x \in DOMAIN value \ {k} |-> value[x]]
  <2>1. \A x \in Live' : x \in Live /\ x # r /\ rec'[x] = rec[x] /\ rec[x].key # k
    BY <1>1, <1>3 DEF Shown
  <2>2. \A x \in Live : x = r \/ x \in Live'
    BY <1>3
  <2>3. DOMAIN value' = DOMAIN value \ {k}
    <3>1. DOMAIN value = {rec[x].key : x \in Live} /\ DOMAIN value' = {rec'[x].key : x \in Live'}
      BY DEF Shown
    <3>2. ASSUME NEW y \in DOMAIN value' PROVE y \in DOMAIN value \ {k}
      <4>1. PICK x \in Live' : y = rec'[x].key
        BY <3>1, <3>2
      <4> QED
        BY <2>1, <3>1, <4>1
    <3>3. ASSUME NEW y \in DOMAIN value \ {k} PROVE y \in DOMAIN value'
      <4>1. PICK x \in Live : y = rec[x].key
        BY <3>1, <3>3
      <4>2. x \in Live' /\ y = rec'[x].key
        BY <2>1, <2>2, <3>3, <4>1
      <4> QED
        BY <3>1, <4>2
    <3> QED
      BY <3>2, <3>3
  <2>4. ASSUME NEW y \in DOMAIN value' PROVE value'[y] = value[y]
    <3>1. PICK x \in Live' : y = rec'[x].key
      BY <2>4 DEF Shown
    <3>2. value'[rec'[x].key] = rec'[x].val
      BY DEF Shown
    <3>3. value[rec[x].key] = rec[x].val
      BY <2>1 DEF Shown
    <3> QED
      BY <2>1, <3>1, <3>2, <3>3
  <2>5. value' = [y \in DOMAIN value' |-> value'[y]]
    BY DEF Shown
  <2> QED
    BY <2>3, <2>4, <2>5
<1> QED
  BY <1>5, <1>7, <1>8, <1>9 DEF Abstract!Delete, Abstract!Present

\* When everything is deleted no key is left.
LEMMA NothingIn ==
  ASSUME NEW S, NEW s \in Seq(S), ToSet(s) = {}
  PROVE  s = <<>>
<1> SUFFICES ASSUME s # <<>> PROVE FALSE
  OBVIOUS
<1>1. 1 \in DOMAIN s
  OBVIOUS
<1>2. s[1] \in ToSet(s)
  BY <1>1 DEF ToSet
<1> QED
  BY <1>2

\* js_map_clear: every record is deleted, traversals included.
LEMMA ClearShows ==
  ASSUME MInv, Shown, Shown', Deleted(ToSet(records)), UNCHANGED <<threshold, cur>>
  PROVE  Abstract!Clear
<1> DEFINE full == ToSet(records) \ Zombies
           freed == {x \in full : rec[x].rc = 1}
<1>1. records' = Without(records, freed) /\ Zombies' = Zombies \cup full
  BY DeletedIs
<1>2. ToSet(records') \subseteq ToSet(records) /\ ToSet(records) \subseteq Zombies'
  <2>1. ToSet(records') = ToSet(records) \ freed
    <3> HIDE DEF freed
    <3> QED
      BY <1>1, WithoutIs DEF Shown
  <2> QED
    BY <1>1, <2>1
<1>3. Live' = {}
  BY <1>2 DEF Live
<1>4. ASSUME NEW list \in Seq(Slots), ToSet(list) \subseteq ToSet(records')
      PROVE  EntriesOf(list, rec', Zombies') = <<>>
  <2> DEFINE w == Without(list, Zombies')
  <2>1. ToSet(w) = {} /\ w \in Seq(Slots)
    BY <1>2, <1>4, WithoutIs
  <2> HIDE DEF w
  <2>2. w = <<>>
    BY <2>1, NothingIn
  <2>3. KeyedIn(list, rec', Zombies')
    BY <1>2, <1>4 DEF KeyedIn
  <2> QED
    BY <2>2, <2>3, EntriesIs DEF w
<1>5. order' = <<>>
  <2>1. order' = EntriesOf(records', rec', Zombies') /\ records' \in Seq(Slots)
    BY DEF Shown
  <2> QED
    BY <1>4, <2>1
<1>6. ASSUME NEW t \in Travs PROVE EntriesOf(Ahead(t)', rec', Zombies') = <<>>
  <2>1. Ahead(t)' \in Seq(Slots) /\ ToSet(Ahead(t)') \subseteq ToSet(records')
    BY DEF Shown
  <2> QED
    BY <1>4, <2>1
<1>7. ASSUME NEW t \in Travs PROVE EntriesOf(Ahead(t), rec, Zombies) # None
  <2>1. Ahead(t) \in Seq(Slots) /\ ToSet(Ahead(t)) \subseteq ToSet(records)
    BY DEF Shown
  <2>2. KeyedIn(Ahead(t), rec, Zombies)
    BY <2>1 DEF KeyedIn, Shown, Live
  <2> QED
    BY <2>1, <2>2, EntriesIs, MapAssumption
<1>8. todo' = [t \in Travs |-> IF todo[t] = None THEN None ELSE <<>>]
  <2>1. /\ todo = [t \in Travs |-> IF cur[t] = None THEN None ELSE EntriesOf(Ahead(t), rec, Zombies)]
        /\ todo' = [t \in Travs |-> IF cur'[t] = None THEN None ELSE EntriesOf(Ahead(t)', rec', Zombies')]
    BY DEF Shown
  <2>2. \A t \in Travs : todo[t] = None <=> cur[t] = None
    BY <1>7, <2>1
  <2> QED
    BY <1>6, <2>1, <2>2
<1>9. value' = <<>>
  <2>1. DOMAIN value' = {} /\ value' = [x \in DOMAIN value' |-> value'[x]]
    BY <1>3 DEF Shown
  <2>2. value' \in Seq({})
    <3>1. value' \in [1 .. 0 -> {}]
      BY <2>1
    <3> QED
      BY <3>1
  <2>3. Len(value') = 0
    BY <2>1, <2>2
  <2> QED
    BY <2>2, <2>3
<1> QED
  BY <1>5, <1>8, <1>9 DEF Abstract!Clear

\* A traversal that goes on changes nothing but what it has ahead of it.
LEMMA GoesShows ==
  ASSUME MInv, Shown, Shown', NEW t \in Travs, NEW next \in Live \cup {None}, Goes(t, next)
  PROVE  /\ order' = order /\ value' = value
         /\ todo' = [todo EXCEPT ![t] = IF next = None THEN None
                                        ELSE EntriesOf(After(records, next), rec, Zombies)]
<1> DEFINE left == {r \in Slots : r = cur[t]}
           freed == {r \in left : rec[r].rc = 1}
           Locks(r) == rec[r].rc - (IF r \in left THEN 1 ELSE 0) + (IF r = next THEN 1 ELSE 0)
<1>1. /\ records' = Without(records, freed)
      /\ rec' = [r \in Slots |-> IF r \in freed THEN Blank ELSE [rec[r] EXCEPT !.rc = Locks(r)]]
      /\ cur' = [cur EXCEPT ![t] = next]
  BY DEF Goes
<1>2. \A r \in freed : r \in Slots /\ r = cur[t] /\ rec[r].rc = 1
  OBVIOUS
<1> HIDE DEF left, freed, Locks
<1>3. freed \subseteq Zombies
  <2> SUFFICES ASSUME NEW r \in freed PROVE r \in Zombies
    OBVIOUS
  <2>1. r \in ToSet(records) /\ r \notin Live
    <3>1. cur[t] \in Slots => cur[t] \in ToSet(records) /\ \A x \in Live : x = cur[t] => rec[x].rc # 1
      BY DEF Shown
    <3>2. r \in Slots /\ r = cur[t] /\ rec[r].rc = 1
      BY <1>2
    <3> QED
      BY <3>1, <3>2
  <2> QED
    BY <1>2, <2>1 DEF Live
<1>4. \A r \in Slots : rec'[r].empty = rec[r].empty
  <2> TAKE r \in Slots
  <2>1. CASE r \in freed
    <3>1. rec[r].empty = TRUE
      BY <1>3, <2>1 DEF Zombies, MInv, TypeOK
    <3> QED
      BY <1>1, <2>1, <3>1 DEF Blank
  <2>2. CASE r \notin freed
    BY <1>1, <2>2 DEF MInv, TypeOK
  <2> QED
    BY <2>1, <2>2
<1>5. \A r \in Slots \ Zombies : rec'[r].key = rec[r].key /\ rec'[r].val = rec[r].val
  BY <1>1, <1>3 DEF MInv, TypeOK
<1>6. Zombies' = Zombies
  BY <1>4 DEF Zombies
<1>7. ToSet(records') = ToSet(records) \ freed /\ Live' = Live /\ Live \subseteq Slots \ Zombies
  <2>1. ToSet(records') = ToSet(records) \ freed
    BY <1>1, WithoutIs DEF Shown
  <2> QED
    BY <1>3, <1>6, <2>1 DEF Live, Shown
<1>8. ASSUME NEW list \in Seq(Slots), ToSet(list) \subseteq ToSet(records)
      PROVE  EntriesOf(Without(list, freed), rec', Zombies') = EntriesOf(list, rec, Zombies)
  <2>1. EntriesOf(Without(list, freed), rec', Zombies') = EntriesOf(list, rec', Zombies')
    BY <1>3, <1>6, EntriesWithout
  <2>2. \A x \in ToSet(list) : x \in Zombies <=> x \in Zombies'
    BY <1>6
  <2>3. \A x \in ToSet(list) \ Zombies : rec[x].key = rec'[x].key
    BY <1>5, <1>7, <1>8 DEF Live
  <2> QED
    BY <2>1, <2>2, <2>3, EntriesSame
<1>9. order' = order
  <2>1. order = EntriesOf(records, rec, Zombies) /\ order' = EntriesOf(records', rec', Zombies')
    BY DEF Shown
  <2> QED
    BY <1>1, <1>8, <2>1 DEF Shown
<1>10. value' = value
  <2>1. /\ DOMAIN value = {rec[r].key : r \in Live} /\ DOMAIN value' = {rec'[r].key : r \in Live'}
        /\ value = [x \in DOMAIN value |-> value[x]] /\ value' = [x \in DOMAIN value' |-> value'[x]]
        /\ \A r \in Live : value[rec[r].key] = rec[r].val
        /\ \A r \in Live' : value'[rec'[r].key] = rec'[r].val
    BY DEF Shown
  <2>2. DOMAIN value' = DOMAIN value
    BY <1>5, <1>7, <2>1
  <2>3. ASSUME NEW x \in DOMAIN value PROVE value'[x] = value[x]
    <3>1. PICK r \in Live : x = rec[r].key
      BY <2>1
    <3> QED
      BY <1>5, <1>7, <2>1, <3>1
  <2> QED
    BY <2>1, <2>2, <2>3
<1>11. ASSUME NEW u \in Travs, u # t
       PROVE  cur'[u] = cur[u] /\ EntriesOf(Ahead(u)', rec', Zombies') = EntriesOf(Ahead(u), rec, Zombies)
  <2>1. cur'[u] = cur[u]
    BY <1>1, <1>11 DEF MInv, TypeOK
  <2>2. /\ Ahead(u) = IF cur[u] \in Slots THEN After(records, cur[u]) ELSE records
        /\ Ahead(u)' = IF cur'[u] \in Slots THEN After(records', cur'[u]) ELSE records'
        /\ cur'[u] \in Slots => cur'[u] \in ToSet(records')
        /\ Ahead(u) \in Seq(Slots) /\ ToSet(Ahead(u)) \subseteq ToSet(records)
    BY DEF Shown
  <2>3. ASSUME cur[u] \in Slots PROVE After(records', cur[u]) = Without(After(records, cur[u]), freed)
    <3>1. cur[u] \in ToSet(records) \ freed
      BY <1>7, <2>1, <2>2, <2>3
    <3> QED
      BY <1>1, <3>1, WithoutAfter DEF Shown
  <2>4. Ahead(u)' = Without(Ahead(u), freed)
    BY <1>1, <2>1, <2>2, <2>3
  <2> QED
    BY <1>8, <2>1, <2>2, <2>4
<1>12. ASSUME next # None
       PROVE  EntriesOf(Ahead(t)', rec', Zombies') = EntriesOf(After(records, next), rec, Zombies)
  <2>1. next \in Live /\ next \in ToSet(records) \ freed /\ next \in Slots
    BY <1>3, <1>7, <1>12 DEF Live
  <2>2. Ahead(t)' = After(records', next)
    <3>1. cur'[t] = next
      BY <1>1 DEF MInv, TypeOK
    <3>2. Ahead(t)' = IF cur'[t] \in Slots THEN After(records', cur'[t]) ELSE records'
      BY DEF Shown
    <3> QED
      BY <2>1, <3>1, <3>2
  <2>3. After(records', next) = Without(After(records, next), freed)
    BY <1>1, <2>1, WithoutAfter DEF Shown
  <2>4. After(records, next) \in Seq(Slots) /\ ToSet(After(records, next)) \subseteq ToSet(records)
    BY <2>1, AfterDistinct DEF Shown
  <2> QED
    BY <1>8, <2>2, <2>3, <2>4
<1>13. todo' = [todo EXCEPT ![t] = IF next = None THEN None
                                   ELSE EntriesOf(After(records, next), rec, Zombies)]
  <2>1. /\ todo = [u \in Travs |-> IF cur[u] = None THEN None ELSE EntriesOf(Ahead(u), rec, Zombies)]
        /\ todo' = [u \in Travs |-> IF cur'[u] = None THEN None ELSE EntriesOf(Ahead(u)', rec', Zombies')]
    BY DEF Shown
  <2>2. cur'[t] = next
    BY <1>1 DEF MInv, TypeOK
  <2>3. todo'[t] = IF next = None THEN None ELSE EntriesOf(After(records, next), rec, Zombies)
    BY <1>12, <2>1, <2>2
  <2>4. \A u \in Travs : u # t => todo'[u] = todo[u]
    BY <1>11, <2>1
  <2> QED
    BY <2>1, <2>3, <2>4
<1> QED
  BY <1>9, <1>10, <1>13

\* The next call of an iterator or of forEach visits the head of what is ahead,
\* or ends.
LEMMA VisitShows ==
  ASSUME MInv, Shown, Shown', NEW t \in Travs, Visit(t)
  PROVE  Abstract!BeginVisit(t) \/ Abstract!Visit(t) \/ Abstract!End(t) \/ UNCHANGED <<order, value, todo>>
<1> DEFINE ahead == Without(Ahead(t), Zombies)
           next == IF ahead = <<>> THEN None ELSE Head(ahead)
           left == EntriesOf(Ahead(t), rec, Zombies)
<1>1. /\ Ahead(t) = IF cur[t] \in Slots THEN After(records, cur[t]) ELSE records
      /\ cur[t] \in Slots => cur[t] \in ToSet(records)
      /\ Ahead(t) \in Seq(Slots) /\ Distinct(Ahead(t)) /\ ToSet(Ahead(t)) \subseteq ToSet(records)
  BY DEF Shown
<1>2. KeyedIn(Ahead(t), rec, Zombies)
  BY <1>1 DEF KeyedIn, Shown, Live
<1>3. left \in Seq(Keys) /\ (left = <<>> <=> ahead = <<>>) /\ left # None
  BY <1>1, <1>2, EntriesIs, MapAssumption
<1>4. ASSUME ahead # <<>>
      PROVE  /\ next \in ToSet(Ahead(t)) /\ next \in Live /\ next # None
             /\ EntriesOf(After(records, next), rec, Zombies) = Tail(left)
  <2>1. /\ next \in ToSet(Ahead(t)) \ Zombies
        /\ EntriesOf(After(Ahead(t), next), rec, Zombies) = Tail(left)
    BY <1>1, <1>2, <1>4, EntriesTail
  <2>2. next \in Live
    BY <1>1, <2>1 DEF Live
  <2>3. next # None
    BY <2>2, MapAssumption DEF Shown
  <2> HIDE DEF next
  <2>4. After(Ahead(t), next) = After(records, next)
    <3>1. CASE cur[t] \in Slots
      BY <1>1, <2>1, <3>1, AfterAfter DEF Shown
    <3>2. CASE cur[t] \notin Slots
      BY <1>1, <3>2
    <3> QED
      BY <3>1, <3>2
  <2> QED
    BY <2>1, <2>2, <2>3, <2>4
<1>5. next \in Live \cup {None} /\ Goes(t, next)
  BY <1>4 DEF Visit
<1> HIDE DEF next
<1>6. /\ order' = order /\ value' = value
      /\ todo' = [todo EXCEPT ![t] = IF next = None THEN None
                                     ELSE EntriesOf(After(records, next), rec, Zombies)]
  BY <1>5, GoesShows
<1>7. /\ todo = [u \in Travs |-> IF cur[u] = None THEN None ELSE EntriesOf(Ahead(u), rec, Zombies)]
      /\ order = EntriesOf(records, rec, Zombies)
  BY DEF Shown
<1> HIDE DEF left, ahead
<1>8. todo[t] = IF cur[t] = None THEN None ELSE left
  BY <1>7 DEF left
<1>9. CASE ahead = <<>>
  <2>1. next = None
    BY <1>9 DEF next
  <2>2. todo' = [todo EXCEPT ![t] = None]
    BY <1>6, <2>1
  <2>3. CASE cur[t] = None
    <3>1. todo' = todo
      BY <1>7, <1>8, <2>2, <2>3
    <3> QED
      BY <1>6, <3>1
  <2>4. CASE cur[t] # None
    BY <1>3, <1>6, <1>8, <2>2, <2>4 DEF Abstract!End
  <2> QED
    BY <2>3, <2>4
<1>10. CASE ahead # <<>>
  <2>1. todo' = [todo EXCEPT ![t] = Tail(left)]
    BY <1>4, <1>6, <1>10
  <2>2. CASE cur[t] = None
    <3>1. left = order
      BY <1>1, <1>7, <2>2, MapAssumption DEF left
    <3> QED
      BY <1>3, <1>6, <1>8, <1>10, <2>1, <2>2, <3>1 DEF Abstract!BeginVisit
  <2>3. CASE cur[t] # None
    BY <1>3, <1>6, <1>8, <1>10, <2>1, <2>3 DEF Abstract!Visit
  <2> QED
    BY <2>2, <2>3
<1> QED
  BY <1>9, <1>10

\* forEach or an iterator that is left before its end.
LEMMA LeaveShows ==
  ASSUME MInv, Shown, Shown', NEW t \in Travs, cur[t] # None, Goes(t, None)
  PROVE  Abstract!End(t)
<1>1. order' = order /\ value' = value /\ todo' = [todo EXCEPT ![t] = None]
  BY GoesShows
<1>2. EntriesOf(Ahead(t), rec, Zombies) # None
  <2>1. Ahead(t) \in Seq(Slots) /\ ToSet(Ahead(t)) \subseteq ToSet(records)
    BY DEF Shown
  <2>2. KeyedIn(Ahead(t), rec, Zombies)
    BY <2>1 DEF KeyedIn, Shown, Live
  <2> QED
    BY <2>1, <2>2, EntriesIs, MapAssumption
<1>3. todo[t] # None
  BY <1>2 DEF Shown
<1> QED
  BY <1>1, <1>3 DEF Abstract!End

\* A traversal begins before the first record.
LEMMA NewShows ==
  ASSUME MInv, Shown, Shown', NEW t \in Travs, NewIterator(t)
  PROVE  Abstract!Begin(t)
<1>1. /\ records' = records /\ rec' = rec /\ cur[t] = None /\ cur' = [cur EXCEPT ![t] = Start]
      /\ Zombies' = Zombies /\ Live' = Live
  BY DEF NewIterator, Zombies, Live
<1>2. order' = order
  BY <1>1 DEF Shown
<1>3. value' = value
  <2>1. /\ DOMAIN value = {rec[r].key : r \in Live} /\ DOMAIN value' = {rec[r].key : r \in Live}
        /\ value = [x \in DOMAIN value |-> value[x]] /\ value' = [x \in DOMAIN value' |-> value'[x]]
        /\ \A r \in Live : value[rec[r].key] = rec[r].val /\ value'[rec[r].key] = rec[r].val
    BY <1>1 DEF Shown
  <2>2. \A x \in DOMAIN value : value'[x] = value[x]
    BY <2>1
  <2> QED
    BY <2>1, <2>2
<1>4. cur'[t] = Start /\ \A u \in Travs : u # t => cur'[u] = cur[u]
  BY <1>1 DEF MInv, TypeOK
<1>5. /\ todo = [u \in Travs |-> IF cur[u] = None THEN None ELSE EntriesOf(Ahead(u), rec, Zombies)]
      /\ todo' = [u \in Travs |-> IF cur'[u] = None THEN None ELSE EntriesOf(Ahead(u)', rec, Zombies)]
      /\ order = EntriesOf(records, rec, Zombies)
  BY <1>1 DEF Shown
<1>6. \A u \in Travs : /\ Ahead(u) = IF cur[u] \in Slots THEN After(records, cur[u]) ELSE records
                       /\ Ahead(u)' = IF cur'[u] \in Slots THEN After(records, cur'[u]) ELSE records
  BY <1>1 DEF Shown
<1>7. todo'[t] = order /\ todo[t] = None
  BY <1>1, <1>4, <1>5, <1>6, MapAssumption
<1>8. \A u \in Travs : u # t => todo'[u] = todo[u]
  BY <1>4, <1>5, <1>6
<1>9. todo' = [todo EXCEPT ![t] = order]
  BY <1>5, <1>7, <1>8
<1> QED
  BY <1>2, <1>3, <1>7, <1>9 DEF Abstract!Begin

\* The empty map.
LEMMA InitShows ==
  ASSUME Init
  PROVE  Abstract!Init
<1>1. MInv
  BY InitMInv
<1>2. Shown
  BY <1>1, MInvShown
<1>3. ToSet(records) = {} /\ Live = {}
  BY DEF Init, ToSet, Live
<1>4. order = <<>>
  <2>1. KeyedIn(records, rec, Zombies) /\ records \in Seq(Slots)
    BY <1>2, <1>3 DEF KeyedIn, Shown
  <2>2. order = EntriesOf(records, rec, Zombies)
    BY <1>2 DEF Shown
  <2>3. order \in Seq(Keys) /\ ToSet(order) = {rec[x].key : x \in ToSet(records) \ Zombies}
    BY <2>1, <2>2, EntriesIs
  <2>4. ToSet(order) = {}
    BY <1>3, <2>3
  <2> QED
    BY <2>3, <2>4, NothingIn
<1>5. value = <<>>
  <2>1. DOMAIN value = {} /\ value = [x \in DOMAIN value |-> value[x]]
    BY <1>2, <1>3 DEF Shown
  <2>2. value \in [1 .. 0 -> {}]
    BY <2>1
  <2>3. value \in Seq({})
    BY <2>2
  <2>4. Len(value) = 0
    BY <2>1, <2>3
  <2> QED
    BY <2>3, <2>4
<1>6. todo = [t \in Travs |-> None]
  BY <1>2 DEF Init, Shown
<1> QED
  BY <1>4, <1>5, <1>6 DEF Abstract!Init

\* Every step of the records is a step of the ordered map or changes nothing
\* that script sees.
LEMMA NextShows ==
  ASSUME MInv, Shown, Shown', [Next]_vars
  PROVE  [Abstract!Next]_(Abstract!vars)
<1>1. ASSUME NEW k \in Keys, NEW v \in Vals, Set(k, v) PROVE Abstract!Set(k, v)
  <2>1. /\ Find(k) # None => Find(k) \in Live /\ rec[Find(k)].key = k
        /\ \A r \in Live : rec[r].key = k => Find(k) = r
    BY FindIs DEF MInv
  <2>2. CASE Find(k) = None
    <3>1. \A x \in Live : rec[x].key # k
      BY <2>1, <2>2, Finite, MapAssumption
    <3> QED
      BY <1>1, <2>2, <3>1, AddShows DEF Set
  <2>3. CASE Find(k) # None
    BY <1>1, <2>1, <2>3, ValueShows DEF Set
  <2> QED
    BY <2>2, <2>3
<1>2. ASSUME NEW k \in Keys, Delete(k) PROVE Abstract!Delete(k)
  <2>1. Find(k) \in Live /\ rec[Find(k)].key = k
    BY <1>2, FindIs DEF MInv, Delete
  <2> QED
    BY <1>2, <2>1, DeleteShows DEF Delete
<1>3. Clear => Abstract!Clear
  BY ClearShows DEF Clear
<1>4. ASSUME NEW t \in Travs, NewIterator(t) PROVE Abstract!Begin(t)
  BY <1>4, NewShows
<1>5. ASSUME NEW t \in Travs, Visit(t)
      PROVE  Abstract!BeginVisit(t) \/ Abstract!Visit(t) \/ Abstract!End(t) \/ UNCHANGED <<order, value, todo>>
  BY <1>5, VisitShows
<1>6. ASSUME NEW t \in Travs, cur[t] # None, Goes(t, None) PROVE Abstract!End(t)
  BY <1>6, LeaveShows
<1>7. ASSUME UNCHANGED vars PROVE UNCHANGED <<order, value, todo>>
  BY <1>7 DEF vars, order, value, todo, Entries, Zombies, Without, Ahead, Following, Find, HashSize
<1>8. ASSUME \E k \in Keys, v \in Vals : Set(k, v) PROVE Abstract!Next
  BY <1>1, <1>8 DEF Abstract!Next
<1>9. ASSUME \E k \in Keys : Delete(k) PROVE Abstract!Next
  BY <1>2, <1>9 DEF Abstract!Next
<1>10. ASSUME Clear PROVE Abstract!Next
  BY <1>3, <1>10 DEF Abstract!Next
<1>11. ASSUME NEW t \in Iters, NewIterator(t) \/ IterNext(t) \/ DropIterator(t)
       PROVE  Abstract!Next \/ UNCHANGED <<order, value, todo>>
  <2>1. t \in Travs
    BY DEF Travs
  <2> QED
    BY <1>4, <1>5, <1>6, <1>11, <2>1 DEF IterNext, DropIterator, Abstract!Next
<1>12. ASSUME NEW t \in Frames, ForEach(t) \/ Returned(t) \/ Threw(t)
       PROVE  Abstract!Next \/ UNCHANGED <<order, value, todo>>
  <2>1. t \in Travs
    BY DEF Travs
  <2> QED
    BY <1>5, <1>6, <1>12, <2>1 DEF ForEach, Returned, Threw, Abstract!Next
<1>13. ASSUME Next PROVE Abstract!Next \/ UNCHANGED <<order, value, todo>>
  <2>1. CASE \E t \in Iters : NewIterator(t) \/ IterNext(t) \/ DropIterator(t)
    BY <1>11, <2>1
  <2>2. CASE \E t \in Frames : ForEach(t) \/ Returned(t) \/ Threw(t)
    BY <1>12, <2>2
  <2> QED
    BY <1>8, <1>9, <1>10, <1>13, <2>1, <2>2 DEF Next
<1> QED
  BY <1>7, <1>13 DEF Abstract!vars

\* Seen from script, the records, the table and the locks are an ordered map:
\* whatever is set, deleted and cleared in the middle of traversals, each
\* visits every entry that is there when its turn comes, once and in order.
THEOREM ImplementsOrderedMapCorrect == Spec => ImplementsOrderedMap
<1>1. Init => MInv
  BY InitMInv
<1>2. MInv /\ [Next]_vars => MInv'
  BY NextMInv
<1>3. Init => Abstract!Init
  BY InitShows
<1>4. MInv /\ [Next]_vars => [Abstract!Next]_(Abstract!vars)
  BY BothShown, NextShows
<1> QED
  BY <1>1, <1>2, <1>3, <1>4, PTL DEF Spec, ImplementsOrderedMap, Abstract!Spec

=============================================================================
