---------------------------- MODULE QJSGC_proofs -----------------------------
(***************************************************************************)
(* Proofs about QJSGC, for any number of objects, weak maps and cells and   *)
(* any references between them.                                             *)
(***************************************************************************)
EXTENDS MCMemory, FiniteSetTheorems, SequenceTheorems, TLAPS

-----------------------------------------------------------------------------
(* The invariant.                                                          *)

\* Nothing is in the list twice.
Distinct(s) == \A i, j \in DOMAIN s : s[i] = s[j] => i = j

\* What a walk has behind it: the elements before c, all of them at the end.
Before(s, c) == {s[i] : i \in {j \in DOMAIN s : \A k \in 1 .. j : s[k] # c}}

Existing == {n \in Nodes : st[n] # "none"}

\* The nodes whose references count now: gc_decref takes those of the nodes it
\* visits, the loops of gc_scan give back those of the nodes they visit.
Counting ==
  CASE pc = "decref"  -> {n \in Nodes : mark[n] = 0}
    [] pc = "scan"    -> Before(gc, cursor)
    [] pc = "restore" -> ToSet(gc) \cup Before(tmp, cursor)
    [] OTHER          -> Nodes

Counted == {e \in held : e.from \in Counting \cup {Stack}}

Count(E, n) == Cardinality(To(E, n))

\* Every count is the number of references that count now.
Counts == \A n \in Nodes : rc[n] = Count(Counted, n)

\* What holds what: a var_ref holds a value, the stack holds values; a cell is
\* held, by a node.
Edges ==
  /\ \A e \in held : e.from \in Cells \cup {Stack} => e.to \in Values
  /\ \A c \in Cells : st[c] = "live" => To(held, c) # {}

\* A node that exists is in one list, once.
Lists ==
  /\ Distinct(gc) /\ Distinct(tmp) /\ Distinct(zero)
  /\ ToSet(gc) \cap ToSet(tmp) = {} /\ ToSet(gc) \cap ToSet(zero) = {}
  /\ ToSet(tmp) \cap ToSet(zero) = {}
  /\ ToSet(gc) \cup ToSet(tmp) \cup ToSet(zero) = Existing

\* Which lists are in use when; zombies are finalized objects of a cycle.
Phases ==
  /\ phase = "remove" <=> pc = "remove"
  /\ phase = "decref" => pc = "run"
  /\ phase = "none" => zero = <<>>
  /\ pc = "run" => tmp = <<>>
  /\ \A n \in Nodes : st[n] = "zombie" => pc = "remove" /\ n \in ToSet(zero) /\ n \in Values

\* Between collections nothing is marked, and what waits to be freed has no
\* reference.
RunInv ==
  pc = "run" =>
    /\ \A n \in Existing : mark[n] = 0
    /\ \A n \in ToSet(zero) : n \in Values /\ rc[n] = 0

\* What gc_decref has visited is marked; it is in tmp_obj_list if its count is
\* zero by now.
DecrefInv ==
  pc = "decref" =>
    /\ cursor \in ToSet(gc) \cup {End}
    /\ \A n \in ToSet(gc) : mark[n] = 1 <=> n \in Before(gc, cursor)
    /\ \A n \in Before(gc, cursor) : rc[n] # 0
    /\ \A n \in ToSet(tmp) : mark[n] = 1 /\ rc[n] = 0

\* What gc_scan keeps is reached from the stack; what is left in tmp_obj_list
\* is not referenced by what was visited.
ScanInv ==
  pc = "scan" =>
    /\ cursor \in ToSet(gc) \cup {End}
    /\ \A n \in ToSet(gc) : rc[n] # 0 /\ n \in Reach
    /\ \A n \in ToSet(tmp) : rc[n] = 0
    /\ \A n \in Before(gc, cursor) : mark[n] = 0

\* From then on the lists are the garbage: only garbage refers to garbage.
Garbage == ToSet(tmp) \cup ToSet(zero)

GarbageInv ==
  pc \in {"restore", "remove"} =>
    /\ \A e \in held : e.to \in Garbage => e.from \in Garbage
    /\ \A n \in ToSet(gc) : mark[n] = 0

RestoreInv ==
  pc = "restore" =>
    /\ cursor \in ToSet(tmp) \cup {End}
    /\ \A n \in ToSet(gc) : n \in Reach

\* Objects that gc_free_cycles set aside are finalized.
RemoveInv == pc = "remove" => \A n \in ToSet(zero) : n \in Values => st[n] = "zombie"

GInv ==
  /\ TypeOK /\ IsFiniteSet(held) /\ Counts /\ Edges /\ NoDangling /\ Lists /\ Phases
  /\ RunInv /\ DecrefInv /\ ScanInv /\ GarbageInv /\ RestoreInv /\ RemoveInv

-----------------------------------------------------------------------------
(* Lists.                                                                  *)

\* Each element of a finite set of numbers has a rank of its own, and there are
\* as many ranks as elements.
LEMMA Ranks ==
  ASSUME NEW kept \in SUBSET Nat, IsFiniteSet(kept)
  PROVE  LET Rank(i) == Cardinality({j \in kept : j <= i})
         IN  /\ Cardinality(kept) \in Nat
             /\ \A i \in kept : Rank(i) \in 1 .. Cardinality(kept)
             /\ \A i, j \in kept : i < j => Rank(i) < Rank(j)
             /\ \A i, j \in kept : Rank(i) = Rank(j) => i = j
             /\ \A n \in 1 .. Cardinality(kept) : \E i \in kept : Rank(i) = n
<1> DEFINE Upto(i) == {j \in kept : j <= i}
           Rank(i) == Cardinality(Upto(i))
<1>1. IsFiniteSet(kept) /\ Cardinality(kept) \in Nat
  BY FS_CardinalityType
<1>2. \A i \in kept : i \in Nat
  OBVIOUS
<1>3. ASSUME NEW i \in kept
      PROVE  IsFiniteSet(Upto(i)) /\ Rank(i) \in 1 .. Cardinality(kept)
  <2>1. IsFiniteSet(Upto(i)) /\ Cardinality(Upto(i)) <= Cardinality(kept)
    BY <1>1, FS_Subset
  <2>2. Cardinality(Upto(i)) \in Nat /\ Cardinality(Upto(i)) # 0
    <3>1. i \in Upto(i)
      BY <1>2
    <3> QED
      BY <2>1, <3>1, FS_EmptySet, FS_CardinalityType
  <2> QED
    BY <1>1, <2>1, <2>2
<1>4. ASSUME NEW i \in kept, NEW j \in kept, i < j
      PROVE  Rank(i) < Rank(j)
  <2>1. i \in Nat /\ j \in Nat /\ j <= j /\ ~(j <= i)
    BY <1>2, <1>4
  <2>2. \A n \in Nat : n <= i => n <= j
    BY <1>4, <2>1
  <2>3. Upto(i) \in SUBSET Upto(j)
    BY <1>2, <2>2
  <2>4. j \in Upto(j) /\ j \notin Upto(i)
    BY <2>1
  <2> QED
    BY <1>3, <2>3, <2>4, FS_Subset
<1>5. ASSUME NEW i \in kept, NEW j \in kept, Rank(i) = Rank(j)
      PROVE  i = j
  <2>1. Rank(i) \in Int /\ Rank(j) \in Int /\ i \in Nat /\ j \in Nat
    BY <1>1, <1>2, <1>3
  <2> HIDE DEF Rank
  <2> QED
    BY <1>4, <1>5, <2>1
<1> HIDE DEF Rank
<1>6. ASSUME NEW n \in 1 .. Cardinality(kept)
      PROVE  \E i \in kept : Rank(i) = n
  <2> DEFINE f == [i \in kept |-> Rank(i)]
             T == 1 .. Cardinality(kept)
  <2>1. f \in Injection(kept, T)
    BY <1>3, <1>5 DEF Injection, IsInjective
  <2>2. IsFiniteSet(T) /\ Cardinality(T) = Cardinality(kept)
    BY <1>1, FS_Interval
  <2>3. f \in Surjection(kept, T)
    BY <2>1, <2>2, FS_Injection
  <2> QED
    BY <2>3 DEF Surjection
<1> QED
  BY <1>1, <1>3, <1>4, <1>5, <1>6 DEF Rank

\* What is left of a list.
LEMMA WithoutIs ==
  ASSUME NEW S, NEW s \in Seq(S), NEW D
  PROVE  /\ Without(s, D) \in Seq(S)
         /\ ToSet(Without(s, D)) = ToSet(s) \ D
         /\ Distinct(s) => Distinct(Without(s, D))
<1> DEFINE kept == {i \in DOMAIN s : s[i] \notin D}
           Rank(i) == Cardinality({j \in kept : j <= i})
           Nth(n) == CHOOSE i \in kept : Rank(i) = n
           N == Cardinality(kept)
<1>1. Without(s, D) = [n \in 1 .. N |-> s[Nth(n)]]
  BY DEF Without
<1>2. /\ N \in Nat
      /\ \A i \in kept : Rank(i) \in 1 .. N
      /\ \A i, j \in kept : Rank(i) = Rank(j) => i = j
      /\ \A n \in 1 .. N : \E i \in kept : Rank(i) = n
  <2>1. kept \in SUBSET (1 .. Len(s)) /\ kept \in SUBSET Nat
    OBVIOUS
  <2>2. IsFiniteSet(1 .. Len(s))
    BY FS_Interval
  <2> HIDE DEF kept
  <2>3. IsFiniteSet(kept)
    BY <2>1, <2>2, FS_Subset
  <2> QED
    BY <2>1, <2>3, Ranks
<1>3. kept \subseteq DOMAIN s /\ (\A i \in kept : s[i] \in S /\ s[i] \notin D)
  OBVIOUS
<1>4. ASSUME NEW i \in DOMAIN s, s[i] \notin D PROVE i \in kept
  BY <1>4
<1> HIDE DEF kept, Rank, N
<1>5. ASSUME NEW n \in 1 .. N PROVE Nth(n) \in kept /\ Rank(Nth(n)) = n
  BY <1>2
<1> HIDE DEF Nth
<1>6. Without(s, D) \in Seq(S) /\ DOMAIN Without(s, D) = 1 .. N
  BY <1>1, <1>2, <1>3, <1>5
<1>7. ASSUME NEW x \in ToSet(Without(s, D)) PROVE x \in ToSet(s) \ D
  <2>1. PICK n \in 1 .. N : x = s[Nth(n)]
    BY <1>1, <1>6, <1>7 DEF ToSet
  <2> QED
    BY <1>3, <1>5, <2>1 DEF ToSet
<1>8. ASSUME NEW x \in ToSet(s) \ D PROVE x \in ToSet(Without(s, D))
  <2>1. PICK i \in DOMAIN s : x = s[i]
    BY <1>8 DEF ToSet
  <2>2. i \in kept
    BY <1>4, <1>8, <2>1
  <2>3. Rank(i) \in 1 .. N /\ Nth(Rank(i)) = i
    BY <1>2, <1>5, <2>2
  <2> QED
    BY <1>1, <1>6, <2>1, <2>3 DEF ToSet
<1>9. ASSUME Distinct(s), NEW n \in 1 .. N, NEW m \in 1 .. N, Without(s, D)[n] = Without(s, D)[m] PROVE n = m
  <2>1. s[Nth(n)] = s[Nth(m)]
    BY <1>1, <1>9
  <2>2. Nth(n) = Nth(m)
    BY <1>3, <1>5, <1>9, <2>1 DEF Distinct
  <2> QED
    BY <1>5, <2>2
<1> QED
  BY <1>6, <1>7, <1>8, <1>9 DEF Distinct

\* w has the elements of s that are not in D: e[n] is the place of the n-th of
\* them in s.
Picks(e, w, s, D) ==
  /\ e \in [DOMAIN w -> DOMAIN s]
  /\ \A m, n \in DOMAIN w : m < n => e[m] < e[n]
  /\ \A n \in DOMAIN w : w[n] = s[e[n]] /\ s[e[n]] \notin D
  /\ \A i \in DOMAIN s : s[i] \notin D => \E n \in DOMAIN w : e[n] = i

\* Without picks them.
LEMMA WithoutPicks ==
  ASSUME NEW S, NEW s \in Seq(S), NEW D
  PROVE  \E e : Picks(e, Without(s, D), s, D)
<1> DEFINE kept == {i \in DOMAIN s : s[i] \notin D}
           Rank(i) == Cardinality({j \in kept : j <= i})
           Nth(n) == CHOOSE i \in kept : Rank(i) = n
           N == Cardinality(kept)
           w == Without(s, D)
           e == [n \in 1 .. N |-> Nth(n)]
<1>1. w = [n \in 1 .. N |-> s[Nth(n)]]
  BY DEF Without
<1>2. /\ N \in Nat
      /\ \A i \in kept : Rank(i) \in 1 .. N
      /\ \A i, j \in kept : i < j => Rank(i) < Rank(j)
      /\ \A i, j \in kept : Rank(i) = Rank(j) => i = j
      /\ \A n \in 1 .. N : \E i \in kept : Rank(i) = n
  <2>1. kept \in SUBSET (1 .. Len(s)) /\ kept \in SUBSET Nat
    OBVIOUS
  <2>2. IsFiniteSet(1 .. Len(s))
    BY FS_Interval
  <2> HIDE DEF kept
  <2>3. IsFiniteSet(kept)
    BY <2>1, <2>2, FS_Subset
  <2> QED
    BY <2>1, <2>3, Ranks
<1>3. /\ kept \subseteq DOMAIN s /\ (\A i \in kept : s[i] \notin D)
      /\ \A i \in DOMAIN s : i \in Nat
  OBVIOUS
<1>4. ASSUME NEW i \in DOMAIN s, s[i] \notin D PROVE i \in kept
  BY <1>4
<1> HIDE DEF kept, Rank, N
<1>5. ASSUME NEW n \in 1 .. N PROVE Nth(n) \in kept /\ Rank(Nth(n)) = n
  BY <1>2
<1> HIDE DEF Nth, w
<1>6. DOMAIN w = 1 .. N
  BY <1>1
<1>7. e \in [DOMAIN w -> DOMAIN s]
  BY <1>3, <1>5, <1>6
<1>8. ASSUME NEW m \in 1 .. N, NEW n \in 1 .. N, m < n PROVE Nth(m) < Nth(n)
  <2>1. Nth(m) \in Nat /\ Nth(n) \in Nat /\ Nth(m) # Nth(n)
    BY <1>2, <1>3, <1>5, <1>8
  <2>2. ~(Nth(n) < Nth(m))
    BY <1>2, <1>5, <1>8
  <2> QED
    BY <2>1, <2>2
<1>9. \A n \in DOMAIN w : w[n] = s[e[n]] /\ s[e[n]] \notin D
  BY <1>1, <1>3, <1>5, <1>6
<1>10. ASSUME NEW i \in DOMAIN s, s[i] \notin D PROVE \E n \in DOMAIN w : e[n] = i
  <2>1. i \in kept /\ Rank(i) \in 1 .. N
    BY <1>2, <1>4, <1>10
  <2>2. Nth(Rank(i)) = i
    BY <1>2, <1>5, <2>1
  <2> QED
    BY <1>6, <2>1, <2>2
<1>11. \A m, n \in DOMAIN w : m < n => e[m] < e[n]
  BY <1>6, <1>8
<1>12. Picks(e, w, s, D)
  BY <1>7, <1>9, <1>10, <1>11 DEF Picks
<1> QED
  BY <1>12 DEF w

\* The elements of a set, one after the other.
LEMMA OrderedIs ==
  ASSUME NEW T, NEW S \in SUBSET T, T \subseteq Nat, IsFiniteSet(S)
  PROVE  /\ Ordered(S) \in Seq(T)
         /\ ToSet(Ordered(S)) = S
         /\ Distinct(Ordered(S))
<1> DEFINE Rank(i) == Cardinality({j \in S : j <= i})
           Nth(n) == CHOOSE i \in S : Rank(i) = n
           N == Cardinality(S)
<1>1. Ordered(S) = [n \in 1 .. N |-> Nth(n)]
  BY DEF Ordered
<1>2. /\ N \in Nat
      /\ \A i \in S : Rank(i) \in 1 .. N
      /\ \A i, j \in S : Rank(i) = Rank(j) => i = j
      /\ \A n \in 1 .. N : \E i \in S : Rank(i) = n
  BY Ranks
<1> HIDE DEF Rank, N
<1>3. ASSUME NEW n \in 1 .. N PROVE Nth(n) \in S /\ Rank(Nth(n)) = n
  BY <1>2
<1>4. ASSUME NEW i \in S PROVE Rank(i) \in 1 .. N /\ Nth(Rank(i)) = i
  BY <1>2, <1>3
<1> HIDE DEF Nth
<1>5. Ordered(S) \in Seq(T) /\ DOMAIN Ordered(S) = 1 .. N
  <2>1. \A n \in 1 .. N : Nth(n) \in T
    BY <1>3
  <2>2. [n \in 1 .. N |-> Nth(n)] \in Seq(T)
    BY <1>2, <2>1
  <2> QED
    BY <1>1, <2>2
<1>6. ToSet(Ordered(S)) = S
  <2>1. ToSet(Ordered(S)) \subseteq S
    BY <1>1, <1>3, <1>5 DEF ToSet
  <2>2. ASSUME NEW i \in S PROVE i \in ToSet(Ordered(S))
    <3>1. Rank(i) \in 1 .. N /\ Ordered(S)[Rank(i)] = i
      BY <1>1, <1>4
    <3> QED
      BY <1>5, <3>1 DEF ToSet
  <2> QED
    BY <2>1, <2>2
<1>7. Distinct(Ordered(S))
  BY <1>1, <1>3, <1>5 DEF Distinct
<1> QED
  BY <1>5, <1>6, <1>7

\* Two lists, one after the other.
LEMMA ConcatIs ==
  ASSUME NEW S, NEW s \in Seq(S), NEW t \in Seq(S)
  PROVE  /\ s \o t \in Seq(S)
         /\ ToSet(s \o t) = ToSet(s) \cup ToSet(t)
         /\ Distinct(s) /\ Distinct(t) /\ ToSet(s) \cap ToSet(t) = {} => Distinct(s \o t)
<1> DEFINE u == s \o t
<1>1. /\ u \in Seq(S) /\ Len(u) = Len(s) + Len(t) /\ Len(s) \in Nat /\ Len(t) \in Nat
      /\ DOMAIN u = 1 .. Len(u) /\ DOMAIN s = 1 .. Len(s) /\ DOMAIN t = 1 .. Len(t)
  OBVIOUS
<1>2. /\ \A i \in DOMAIN s : i \in DOMAIN u /\ u[i] = s[i]
      /\ \A i \in DOMAIN t : Len(s) + i \in DOMAIN u /\ u[Len(s) + i] = t[i]
  OBVIOUS
<1> HIDE DEF u
<1>3. \A i \in DOMAIN u : i \in DOMAIN s \/ \E j \in DOMAIN t : i = Len(s) + j
  <2> TAKE i \in DOMAIN u
  <2>1. i \in Nat /\ (i \notin DOMAIN s => i - Len(s) \in DOMAIN t /\ i = Len(s) + (i - Len(s)))
    BY <1>1
  <2> QED
    BY <2>1
<1>4. ToSet(u) = ToSet(s) \cup ToSet(t)
  BY <1>2, <1>3 DEF ToSet
<1>5. ASSUME Distinct(s), Distinct(t), ToSet(s) \cap ToSet(t) = {},
             NEW i \in DOMAIN u, NEW j \in DOMAIN u, u[i] = u[j]
      PROVE  i = j
  <2>1. \A a \in DOMAIN s, b \in DOMAIN t : s[a] # t[b]
    BY <1>5 DEF ToSet
  <2>2. CASE i \in DOMAIN s
    <3>1. j \in DOMAIN s
      BY <1>2, <1>3, <1>5, <2>1, <2>2
    <3> QED
      BY <1>2, <1>5, <2>2, <3>1 DEF Distinct
  <2>3. CASE i \notin DOMAIN s
    <3>1. PICK a \in DOMAIN t : i = Len(s) + a
      BY <1>3, <2>3
    <3>2. PICK b \in DOMAIN t : j = Len(s) + b
      BY <1>2, <1>3, <1>5, <2>1, <3>1
    <3> QED
      BY <1>2, <1>5, <3>1, <3>2 DEF Distinct
  <2> QED
    BY <2>2, <2>3
<1> QED
  BY <1>1, <1>4, <1>5 DEF u, Distinct

\* An element at the end.
LEMMA AppendIs ==
  ASSUME NEW S, NEW s \in Seq(S), NEW x \in S
  PROVE  /\ Append(s, x) \in Seq(S)
         /\ ToSet(Append(s, x)) = ToSet(s) \cup {x}
         /\ Distinct(s) /\ x \notin ToSet(s) => Distinct(Append(s, x))
<1> DEFINE t == <<x>>
<1>1. t \in Seq(S) /\ ToSet(t) = {x} /\ Distinct(t)
  BY DEF ToSet, Distinct
<1>2. Append(s, x) = s \o t
  OBVIOUS
<1> HIDE DEF t
<1>3. /\ s \o t \in Seq(S)
      /\ ToSet(s \o t) = ToSet(s) \cup ToSet(t)
      /\ Distinct(s) /\ Distinct(t) /\ ToSet(s) \cap ToSet(t) = {} => Distinct(s \o t)
  BY <1>1, ConcatIs
<1> QED
  BY <1>1, <1>2, <1>3

\* Nothing is in an empty list only.
LEMMA EmptyIs ==
  ASSUME NEW S, NEW s \in Seq(S)
  PROVE  s = <<>> <=> ToSet(s) = {}
<1>1. CASE s = <<>>
  BY <1>1 DEF ToSet
<1>2. CASE s # <<>>
  <2>1. 1 \in DOMAIN s
    BY <1>2
  <2>2. s[1] \in ToSet(s)
    BY <2>1 DEF ToSet
  <2> QED
    BY <1>2, <2>2
<1> QED
  BY <1>1, <1>2

\* What is behind an element.
LEMMA BeforeAt ==
  ASSUME NEW S, NEW s \in Seq(S), NEW x
  PROVE  /\ Before(s, x) \subseteq ToSet(s) /\ x \notin Before(s, x)
         /\ x \notin ToSet(s) => Before(s, x) = ToSet(s)
         /\ \A i \in DOMAIN s : Distinct(s) => Before(s, s[i]) = {s[j] : j \in 1 .. i - 1}
<1>1. DOMAIN s = 1 .. Len(s) /\ Len(s) \in Nat
  OBVIOUS
<1>2. Before(s, x) \subseteq ToSet(s) /\ x \notin Before(s, x)
  BY <1>1 DEF Before, ToSet
<1>3. ASSUME x \notin ToSet(s) PROVE Before(s, x) = ToSet(s)
  BY <1>1, <1>3 DEF Before, ToSet
<1>4. ASSUME NEW i \in DOMAIN s, Distinct(s)
      PROVE  Before(s, s[i]) = {s[j] : j \in 1 .. i - 1}
  <2>1. {j \in DOMAIN s : \A k \in 1 .. j : s[k] # s[i]} = 1 .. i - 1
    <3>1. ASSUME NEW j \in DOMAIN s, \A k \in 1 .. j : s[k] # s[i] PROVE j \in 1 .. i - 1
      BY <1>1, <3>1
    <3>2. ASSUME NEW j \in 1 .. i - 1 PROVE j \in DOMAIN s /\ \A k \in 1 .. j : s[k] # s[i]
      <4>1. j \in DOMAIN s /\ \A k \in 1 .. j : k \in DOMAIN s /\ k # i
        BY <1>1
      <4> QED
        BY <1>4, <4>1 DEF Distinct
    <3> QED
      BY <3>1, <3>2
  <2> QED
    BY <2>1 DEF Before
<1> QED
  BY <1>2, <1>3, <1>4

\* A walk begins with nothing behind it.
LEMMA FirstIs ==
  ASSUME NEW S, NEW s \in Seq(S)
  PROVE  FirstOf(s) \in ToSet(s) \cup {End} /\ Before(s, FirstOf(s)) = {}
<1>1. CASE s = <<>>
  BY <1>1 DEF FirstOf, Before
<1>2. CASE s # <<>>
  <2>1. FirstOf(s) = s[1] /\ 1 \in DOMAIN s /\ DOMAIN s = 1 .. Len(s) /\ Len(s) \in Nat
    BY <1>2 DEF FirstOf
  <2>2. \A j \in DOMAIN s : 1 \in 1 .. j
    BY <2>1
  <2> QED
    BY <2>1, <2>2 DEF Before, ToSet
<1> QED
  BY <1>1, <1>2

\* A step of a walk leaves one more element behind.
LEMMA FollowingIs ==
  ASSUME NEW S, NEW s \in Seq(S), Distinct(s), End \notin S, NEW c \in ToSet(s)
  PROVE  LET x == Following(s, c)
         IN  x \in ToSet(s) \cup {End} /\ Before(s, x) = Before(s, c) \cup {c}
<1>1. PICK i \in DOMAIN s : s[i] = c
  BY DEF ToSet
<1>2. (CHOOSE j \in DOMAIN s : s[j] = c) = i
  BY <1>1 DEF Distinct
<1>3. /\ DOMAIN s = 1 .. Len(s) /\ Len(s) \in Nat /\ i \in Nat
      /\ \A j \in DOMAIN s : s[j] \in S
  OBVIOUS
<1>4. Before(s, c) = {s[j] : j \in 1 .. i - 1}
  BY <1>1, BeforeAt
<1>5. CASE i = Len(s)
  <2>1. Following(s, c) = End
    BY <1>2, <1>5 DEF Following
  <2>2. End \notin ToSet(s)
    BY <1>3 DEF ToSet
  <2>3. Before(s, End) = ToSet(s)
    BY <2>2, BeforeAt
  <2>4. 1 .. Len(s) = (1 .. i - 1) \cup {i}
    BY <1>3, <1>5
  <2>5. ToSet(s) = {s[j] : j \in (1 .. i - 1) \cup {i}}
    BY <1>3, <2>4 DEF ToSet
  <2> QED
    BY <1>1, <1>4, <2>1, <2>3, <2>5
<1>6. CASE i # Len(s)
  <2>1. Following(s, c) = s[i + 1]
    BY <1>2, <1>6 DEF Following
  <2>a. i + 1 \in DOMAIN s
    BY <1>3, <1>6
  <2>2. Before(s, s[i + 1]) = {s[j] : j \in 1 .. (i + 1) - 1}
    BY <2>a, BeforeAt
  <2>3. 1 .. (i + 1) - 1 = (1 .. i - 1) \cup {i}
    BY <1>3
  <2> QED
    BY <1>1, <1>4, <2>1, <2>a, <2>2, <2>3 DEF ToSet
<1> QED
  BY <1>5, <1>6

\* What leaves the list leaves what is behind the walk too.
LEMMA BeforeWithout ==
  ASSUME NEW S, NEW s \in Seq(S), NEW D, NEW x, x \notin D
  PROVE  Before(Without(s, D), x) = Before(s, x) \ D
<1> DEFINE w == Without(s, D)
<1>1. PICK e : Picks(e, w, s, D)
  BY WithoutPicks
<1>2. w \in Seq(S)
  BY WithoutIs
<1> HIDE DEF w
<1>3. /\ DOMAIN s = 1 .. Len(s) /\ Len(s) \in Nat /\ DOMAIN w = 1 .. Len(w) /\ Len(w) \in Nat
  BY <1>2
<1>4. /\ \A n \in DOMAIN w : e[n] \in DOMAIN s /\ e[n] \in Nat /\ n \in Nat
      /\ \A m, n \in DOMAIN w : m < n => e[m] < e[n]
      /\ \A n \in DOMAIN w : w[n] = s[e[n]] /\ s[e[n]] \notin D
      /\ \A i \in DOMAIN s : s[i] \notin D => \E n \in DOMAIN w : e[n] = i
  BY <1>1, <1>3 DEF Picks
<1>5. ASSUME NEW m \in DOMAIN w, NEW n \in DOMAIN w PROVE e[m] <= e[n] <=> m <= n
  <2>1. e[m] \in Nat /\ e[n] \in Nat /\ m \in Nat /\ n \in Nat
    BY <1>4
  <2>2. (m < n => e[m] < e[n]) /\ (n < m => e[n] < e[m]) /\ (m = n => e[m] = e[n])
    BY <1>4
  <2> QED
    BY <2>1, <2>2
<1>6. ASSUME NEW y \in Before(w, x) PROVE y \in Before(s, x) \ D
  <2>1. PICK n \in DOMAIN w : y = w[n] /\ \A k \in 1 .. n : w[k] # x
    BY DEF Before
  <2>2. ASSUME NEW k \in 1 .. e[n], s[k] = x PROVE FALSE
    <3>1. k \in DOMAIN s /\ k <= e[n]
      BY <1>3, <1>4
    <3>2. PICK m \in DOMAIN w : e[m] = k
      BY <1>4, <2>2, <3>1
    <3>3. m <= n /\ m \in 1 .. n
      BY <1>3, <1>4, <1>5, <3>1, <3>2
    <3> QED
      BY <1>4, <2>1, <2>2, <3>2, <3>3
  <2>3. e[n] \in DOMAIN s /\ y = s[e[n]] /\ y \notin D
    BY <1>4, <2>1
  <2>4. y \in Before(s, x)
    BY <2>2, <2>3 DEF Before
  <2> QED
    BY <2>3, <2>4
<1>7. ASSUME NEW y \in Before(s, x) \ D PROVE y \in Before(w, x)
  <2>1. PICK i \in DOMAIN s : y = s[i] /\ \A k \in 1 .. i : s[k] # x
    BY DEF Before
  <2>2. PICK n \in DOMAIN w : e[n] = i
    BY <1>4, <2>1
  <2>3. ASSUME NEW k \in 1 .. n PROVE w[k] # x
    <3>1. k \in DOMAIN w /\ k <= n
      BY <1>3
    <3>2. e[k] \in 1 .. i
      BY <1>3, <1>4, <1>5, <2>2, <3>1
    <3> QED
      BY <1>4, <2>1, <3>1, <3>2
  <2> QED
    BY <1>4, <2>1, <2>2, <2>3 DEF Before
<1> QED
  BY <1>6, <1>7 DEF w

\* What is added at the end is not behind an element of the list.
LEMMA BeforeConcat ==
  ASSUME NEW S, NEW s \in Seq(S), NEW t \in Seq(S), NEW c \in ToSet(s)
  PROVE  Before(s \o t, c) = Before(s, c)
<1> DEFINE u == s \o t
<1>1. PICK i \in DOMAIN s : s[i] = c
  BY DEF ToSet
<1>2. /\ Len(s) \in Nat /\ DOMAIN s = 1 .. Len(s) /\ DOMAIN s \subseteq DOMAIN u
      /\ \A j \in DOMAIN s : u[j] = s[j]
      /\ \A j \in DOMAIN u : j \in Nat
  OBVIOUS
<1> HIDE DEF u
<1>3. ASSUME NEW j \in DOMAIN u, \A k \in 1 .. j : u[k] # c PROVE j \in DOMAIN s
  <2>1. i \notin 1 .. j
    BY <1>1, <1>2, <1>3
  <2> QED
    BY <1>2, <2>1
<1>4. \A j \in DOMAIN s : \A k \in 1 .. j : k \in DOMAIN s
  BY <1>2
<1>5. {j \in DOMAIN u : \A k \in 1 .. j : u[k] # c} = {j \in DOMAIN s : \A k \in 1 .. j : s[k] # c}
  BY <1>2, <1>3, <1>4
<1> QED
  BY <1>2, <1>5 DEF Before, u

-----------------------------------------------------------------------------
(* Counts and references.                                                  *)

LEMMA NodesAre ==
  /\ Nodes \subseteq Nat /\ IsFiniteSet(Nodes)
  /\ End \notin Nodes /\ Stack \notin Nodes /\ Strong \notin Values
  /\ Values \subseteq Nodes /\ Cells \subseteq Nodes /\ Values \cap Cells = {}
  /\ \A n \in Nodes : n \in Values \/ n \in Cells
BY NodesAssumption DEF Nodes, Values, End, Stack, Strong

\* A number of references to n.
LEMMA CountIs ==
  ASSUME NEW E, NEW n, IsFiniteSet(E)
  PROVE  /\ Count(E, n) \in Nat /\ IsFiniteSet(To(E, n))
         /\ Count(E, n) = 0 <=> To(E, n) = {}
<1>1. IsFiniteSet(To(E, n))
  BY FS_Subset DEF To
<1> QED
  BY <1>1, FS_CardinalityType, FS_EmptySet DEF Count

\* Fewer references.
LEMMA CountLess ==
  ASSUME NEW E, IsFiniteSet(E), NEW D \in SUBSET E, NEW n
  PROVE  /\ Count(E \ D, n) = Count(E, n) - Count(D, n)
         /\ Count(D, n) \in Nat /\ Count(E, n) \in Nat /\ Count(E \ D, n) \in Nat
         /\ Count(D, n) >= Count(E, n) => To(D, n) = To(E, n)
<1>1. IsFiniteSet(D) /\ IsFiniteSet(E \ D)
  BY FS_Subset
<1>2. /\ IsFiniteSet(To(E, n)) /\ IsFiniteSet(To(D, n))
      /\ Count(D, n) \in Nat /\ Count(E, n) \in Nat /\ Count(E \ D, n) \in Nat
  BY <1>1, CountIs
<1>3. /\ To(D, n) \in SUBSET To(E, n)
      /\ To(E \ D, n) = To(E, n) \ To(D, n) /\ To(E, n) \cap To(D, n) = To(D, n)
  BY DEF To
<1>4. Cardinality(To(E, n) \ To(D, n)) = Cardinality(To(E, n)) - Cardinality(To(E, n) \cap To(D, n))
  BY <1>2, FS_Difference
<1>5. /\ Cardinality(To(D, n)) <= Cardinality(To(E, n))
      /\ Cardinality(To(E, n)) = Cardinality(To(D, n)) => To(E, n) = To(D, n)
  BY <1>2, <1>3, FS_Subset
<1>6. /\ Cardinality(To(D, n)) = Count(D, n) /\ Cardinality(To(E, n)) = Count(E, n)
      /\ Count(E \ D, n) = Cardinality(To(E, n) \ To(D, n))
      /\ Cardinality(To(E, n) \cap To(D, n)) = Count(D, n)
  BY <1>3 DEF Count
<1> QED
  BY <1>2, <1>4, <1>5, <1>6

\* More references.
LEMMA CountMore ==
  ASSUME NEW E, IsFiniteSet(E), NEW A, IsFiniteSet(A), E \cap A = {}, NEW n
  PROVE  Count(E \cup A, n) = Count(E, n) + Count(A, n)
<1>1. /\ To(E \cup A, n) = To(E, n) \cup To(A, n)
      /\ To(E, n) \cap To(A, n) = {}
  BY DEF To
<1>2. /\ IsFiniteSet(To(E, n)) /\ IsFiniteSet(To(A, n))
      /\ Count(E, n) \in Nat /\ Count(A, n) \in Nat
  BY CountIs
<1>3. Cardinality(To(E, n) \cup To(A, n)) = Cardinality(To(E, n)) + Cardinality(To(A, n)) - 0
  BY <1>1, <1>2, FS_Union, FS_EmptySet
<1>4. /\ Cardinality(To(A, n)) = Count(A, n) /\ Cardinality(To(E, n)) = Count(E, n)
      /\ Count(E \cup A, n) = Cardinality(To(E, n) \cup To(A, n))
  BY <1>1 DEF Count
<1> QED
  BY <1>2, <1>3, <1>4

\* The program can name what the stack and what it can name hold.
LEMMA ReachClosed ==
  ASSUME held \in SUBSET Refs, NEW e \in held, e.from \in Reach \cup {Stack}
  PROVE  e.to \in Reach
<1>1. e.to \in Nodes
  BY DEF Refs
<1> QED
  BY <1>1 DEF Reach

\* What it can name is in every closed set.
LEMMA ReachWithin ==
  ASSUME NEW S \in SUBSET Existing,
         \A e \in held : e.from \in S \cup {Stack} => e.to \in S
  PROVE  Reach \subseteq S
BY DEF Reach, Existing

LEMMA ReachExists ==
  ASSUME TypeOK, NoDangling
  PROVE  Reach \subseteq Existing
<1>1. \A e \in held : e.to \in Existing
  BY DEF TypeOK, NoDangling, Existing, Refs
<1> QED
  BY <1>1, ReachWithin

\* Outside the passes every reference counts.
LEMMA CountedAll ==
  ASSUME TypeOK, pc \in {"run", "remove"}
  PROVE  Counted = held
<1>1. Counting = Nodes
  BY DEF Counting
<1>2. \A e \in held : e.from \in Nodes \cup {Stack}
  BY DEF TypeOK, Refs
<1> QED
  BY <1>1, <1>2 DEF Counted

-----------------------------------------------------------------------------
(* Freeing.                                                                *)

\* The parts of Free.
Lost(E)       == E \cup {e \in held : e.from \in FreedCells(E)}
Dead(E)       == {n \in Values : Queues /\ To(Lost(E), n) # {} /\ rc'[n] <= 0}
Zombies(P)    == {p \in P : phase = "remove" /\ rc'[p] # 0}
Gone(E, P)    == (FreedCells(E) \cup P) \ Zombies(P)
Moved(E, P)   == FreedCells(E) \cup P \cup Dead(E)

LEMMA FreeIs ==
  ASSUME NEW E, NEW P, NEW A, Free(E, P, A)
  PROVE  /\ rc' = [n \in Nodes |-> (rc[n] - Count(Lost(E), n)) + Count(A, n)]
         /\ held' = (held \ Lost(E)) \cup A
         /\ st' = [n \in Nodes |-> IF n \in Gone(E, P) THEN "none"
                                   ELSE IF n \in Zombies(P) THEN "zombie" ELSE st[n]]
         /\ mark' = [n \in Nodes |-> IF n \in Gone(E, P) THEN 0 ELSE mark[n]]
         /\ gc' = Without(gc, Moved(E, P)) /\ tmp' = Without(tmp, Moved(E, P))
         /\ zero' = Ordered(Dead(E)) \o Without(zero, Moved(E, P)) \o Ordered(Zombies(P))
<1>1. rc' = [n \in Nodes |-> Less(Lost(E))[n] + Cardinality(To(A, n))]
  BY DEF Free, Lost, FreedCells
<1>2. \A n \in Nodes : Less(Lost(E))[n] = rc[n] - Cardinality(To(Lost(E), n))
  BY DEF Less
<1>3. rc' = [n \in Nodes |-> (rc[n] - Count(Lost(E), n)) + Count(A, n)]
  BY <1>1, <1>2 DEF Count
<1> QED
  BY <1>3 DEF Free, Lost, FreedCells, Dead, Zombies, Gone, Moved

\* What may be freed, and stored: E is held; P, if any, is an object that exists,
\* with everything that goes with it in E, and named only in a cycle; what A
\* names and what holds it is live.
MayFree(E, P, A) ==
  /\ E \in SUBSET held /\ P \in SUBSET Existing /\ P \subseteq Values
  /\ \A e \in held : e.from \in P \/ e.key \in P => e \in E
  /\ \A e \in held : e.to \in P => phase = "remove" /\ e.from # Stack
  /\ A \in SUBSET Refs /\ IsFiniteSet(A) /\ A \cap (held \ E) = {}
  /\ A # {} => P = {}
  /\ \A a \in A : /\ a.from \in Values /\ st[a.from] = "live"
                  /\ a.to \in Values /\ st[a.to] = "live"
                  /\ a.key # Strong => st[a.key] = "live"

\* The counts, again exact; a freed cell is not referenced any more.
LEMMA FreeCounts ==
  ASSUME TypeOK, IsFiniteSet(held), Edges, \A n \in Nodes : rc[n] = Count(held, n),
         NEW E, NEW P, NEW A, MayFree(E, P, A), Free(E, P, A)
  PROVE  /\ held' \in SUBSET Refs /\ IsFiniteSet(held') /\ Lost(E) \in SUBSET held
         /\ rc' \in [Nodes -> Nat] /\ \A n \in Nodes : rc'[n] = Count(held', n)
         /\ \A c \in FreedCells(E) : To(held', c) = {}
         /\ \A e \in held' : e.from \notin FreedCells(E)
         /\ \A c \in Cells : c \notin FreedCells(E) /\ To(held, c) # {} => To(held', c) # {}
<1> DEFINE lost == Lost(E)
<1>1. lost \in SUBSET held /\ E \in SUBSET held /\ A \cap (held \ lost) = {} /\ IsFiniteSet(A)
  BY DEF MayFree, Lost
<1>2. held' = (held \ lost) \cup A
  BY FreeIs
<1>3. rc' = [n \in Nodes |-> (rc[n] - Count(lost, n)) + Count(A, n)]
  BY FreeIs
<1>4. held' \in SUBSET Refs
  BY <1>1, <1>2 DEF MayFree, TypeOK
<1>5. IsFiniteSet(held \ lost) /\ IsFiniteSet(held')
  BY <1>1, <1>2, FS_Subset, FS_Union
<1>6. \A a \in A : a.from \in Values /\ a.to \in Values
  BY DEF MayFree
<1>7. \A e \in held \ lost : e.from \notin FreedCells(E)
  BY DEF Lost
<1>8. \A c \in FreedCells(E) : c \in Cells /\ To(E, c) # {} /\ rc[c] <= Count(E, c)
  BY DEF FreedCells, Count
<1>9. ASSUME NEW c \in Cells PROVE To(lost, c) = To(E, c)
  <2>1. \A e \in held : e.from \in FreedCells(E) => e.to \in Values
    BY <1>8 DEF Edges
  <2> QED
    BY <2>1, NodesAre DEF Lost, To
<1> HIDE DEF lost
<1>14. ASSUME NEW n
       PROVE  /\ Count(held \ lost, n) = Count(held, n) - Count(lost, n) /\ Count(lost, n) \in Nat
              /\ Count(held, n) \in Nat /\ Count(held \ lost, n) \in Nat
  <2>1. IsFiniteSet(held) /\ lost \in SUBSET held
    BY <1>1
  <2> QED
    BY <2>1, CountLess
<1>10. ASSUME NEW n \in Nodes PROVE rc'[n] = Count(held', n) /\ rc'[n] \in Nat
  <2>1. Count(held \ lost, n) = Count(held, n) - Count(lost, n) /\ Count(held \ lost, n) \in Nat
    BY <1>14
  <2>2. Count(held', n) = Count(held \ lost, n) + Count(A, n) /\ Count(A, n) \in Nat
    BY <1>1, <1>2, <1>5, CountMore, CountIs
  <2> QED
    BY <1>3, <2>1, <2>2
<1>11. ASSUME NEW c \in FreedCells(E) PROVE To(held', c) = {}
  <2>1. Count(E, c) >= Count(held, c)
    <3>1. Count(E, c) \in Nat /\ Count(held, c) \in Nat
      BY <1>1, CountLess
    <3> QED
      BY <1>8, <3>1, NodesAre
  <2>2. To(E, c) = To(held, c)
    BY <1>1, <2>1, CountLess
  <2>3. c \in Cells /\ To(lost, c) = To(held, c) /\ c \notin Values
    BY <1>8, <1>9, <2>2, NodesAre
  <2>4. ASSUME NEW e \in held', e.to = c PROVE FALSE
    <3>1. e \in held \ lost
      BY <1>2, <1>6, <2>3, <2>4
    <3>2. e \in To(held, c)
      BY <2>4, <3>1 DEF To
    <3>3. e \in To(lost, c)
      BY <2>3, <3>2
    <3> QED
      BY <3>1, <3>3 DEF To
  <2> QED
    BY <2>4 DEF To
<1>12. \A e \in held' : e.from \notin FreedCells(E)
  BY <1>2, <1>6, <1>7, <1>8, NodesAre
<1>13. ASSUME NEW c \in Cells, c \notin FreedCells(E), To(held, c) # {} PROVE To(held', c) # {}
  <2>1. CASE To(E, c) = {}
    BY <1>2, <1>9, <1>13, <2>1 DEF To
  <2>2. CASE ~(rc[c] <= Count(E, c))
    <3>1. Count(held \ lost, c) = Count(held, c) - Count(lost, c) /\ Count(lost, c) \in Nat
          /\ Count(held, c) \in Nat /\ Count(held \ lost, c) \in Nat
      BY <1>14
    <3>2. Count(lost, c) = Count(E, c)
      BY <1>9 DEF Count
    <3>3. Count(held \ lost, c) # 0
      BY <2>2, <3>1, <3>2, NodesAre
    <3>4. To(held \ lost, c) # {}
      BY <1>5, <3>3, CountIs
    <3> QED
      BY <1>2, <3>4 DEF To
  <2> QED
    BY <1>13, <2>1, <2>2 DEF FreedCells, Count
<1> QED
  BY <1>1, <1>3, <1>4, <1>5, <1>10, <1>11, <1>12, <1>13 DEF lost

\* The state before, and what happens in it.
Frees(E, P, A) ==
  /\ TypeOK /\ IsFiniteSet(held) /\ Edges /\ NoDangling /\ Lists
  /\ \A n \in Nodes : rc[n] = Count(held, n)
  /\ MayFree(E, P, A) /\ Free(E, P, A)

\* The nodes that Free moves.
LEMMA FreeNodes ==
  ASSUME NEW E, NEW P, NEW A, Frees(E, P, A)
  PROVE  /\ FreedCells(E) \subseteq Cells /\ FreedCells(E) \subseteq Existing
         /\ Dead(E) \subseteq Values /\ Dead(E) \subseteq Existing /\ Dead(E) \cap P = {}
         /\ Zombies(P) \subseteq P /\ (phase # "remove" => Zombies(P) = {})
         /\ phase = "remove" => Dead(E) = {}
         /\ Existing' = Existing \ Gone(E, P)
         /\ \A n \in Dead(E) : rc'[n] = 0 /\ To(held', n) = {}
         /\ \A n \in Gone(E, P) : To(held', n) = {}
<1> USE DEF Frees
<1>1. /\ held' \in SUBSET Refs /\ IsFiniteSet(held') /\ Lost(E) \in SUBSET held
      /\ rc' \in [Nodes -> Nat] /\ \A n \in Nodes : rc'[n] = Count(held', n)
      /\ \A c \in FreedCells(E) : To(held', c) = {}
  BY FreeCounts
<1>2. \A e \in held : e.to \in Nodes /\ e.to \in Existing
  BY DEF TypeOK, Refs, NoDangling, Existing
<1>3. FreedCells(E) \subseteq Cells /\ FreedCells(E) \subseteq Existing
  <2>1. \A c \in FreedCells(E) : c \in Cells /\ To(E, c) # {}
    BY DEF FreedCells
  <2>2. E \subseteq held
    BY DEF MayFree
  <2> QED
    BY <1>2, <2>1, <2>2 DEF To
<1>4. /\ Dead(E) \subseteq Values /\ (phase = "remove" => Dead(E) = {})
      /\ \A n \in Dead(E) : To(Lost(E), n) # {} /\ rc'[n] <= 0
  BY DEF Dead, Queues
<1>5. \A n \in Dead(E) : \E e \in held : e.to = n
  BY <1>1, <1>4 DEF To
<1>6. Dead(E) \subseteq Existing
  BY <1>2, <1>5
<1>7. Dead(E) \cap P = {}
  BY <1>4, <1>5 DEF MayFree
<1>8. Zombies(P) \subseteq P /\ (phase # "remove" => Zombies(P) = {})
  BY DEF Zombies
<1>9. P \subseteq Values /\ P \subseteq Existing /\ Existing \subseteq Nodes
  BY DEF MayFree, Existing
<1>10. Existing' = Existing \ Gone(E, P)
  <2>1. /\ \A n \in Nodes : st'[n] = IF n \in Gone(E, P) THEN "none"
                                     ELSE IF n \in Zombies(P) THEN "zombie" ELSE st[n]
    BY FreeIs
  <2>2. Zombies(P) \subseteq Existing /\ Zombies(P) \cap Gone(E, P) = {}
    BY <1>8, <1>9 DEF Gone
  <2> QED
    BY <2>1, <2>2 DEF Existing
<1>11. ASSUME NEW n \in Nodes, rc'[n] = 0 PROVE To(held', n) = {}
  <2>1. Count(held', n) = 0
    BY <1>1, <1>11
  <2> QED
    BY <1>1, <2>1, CountIs
<1>12. ASSUME NEW n \in Dead(E) PROVE rc'[n] = 0 /\ To(held', n) = {}
  <2>1. n \in Nodes /\ rc'[n] \in Nat
    BY <1>1, <1>4, NodesAre
  <2> QED
    BY <1>4, <1>11, <2>1
<1>13. ASSUME NEW n \in Gone(E, P) PROVE To(held', n) = {}
  <2>1. CASE n \in FreedCells(E)
    BY <1>1, <2>1
  <2>2. CASE n \in P /\ phase = "remove"
    <3>1. rc'[n] = 0
      BY <1>13, <2>2 DEF Gone, Zombies
    <3> QED
      BY <1>9, <1>11, <2>2, <3>1
  <2>3. CASE n \in P /\ phase # "remove"
    <3>1. \A e \in held : e.to # n
      BY <2>3 DEF MayFree
    <3>2. A = {}
      BY <2>3 DEF MayFree
    <3>3. held' \subseteq held
      BY <3>2, FreeIs
    <3> QED
      BY <3>1, <3>3 DEF To
  <2> QED
    BY <1>13, <2>1, <2>2, <2>3 DEF Gone
<1> QED
  BY <1>3, <1>4, <1>6, <1>7, <1>8, <1>10, <1>12, <1>13

\* The lists.
LEMMA FreeLists ==
  ASSUME NEW E, NEW P, NEW A, Frees(E, P, A)
  PROVE  /\ gc' \in Seq(Nodes) /\ tmp' \in Seq(Nodes) /\ zero' \in Seq(Nodes) /\ Lists'
         /\ ToSet(gc') = ToSet(gc) \ Moved(E, P) /\ ToSet(tmp') = ToSet(tmp) \ Moved(E, P)
         /\ ToSet(zero') = Dead(E) \cup (ToSet(zero) \ Moved(E, P)) \cup Zombies(P)
<1> DEFINE D == Dead(E)
           Z == Zombies(P)
           M == Moved(E, P)
           z == Without(zero, M)
           d == Ordered(D)
           b == Ordered(Z)
<1>1. /\ gc \in Seq(Nodes) /\ tmp \in Seq(Nodes) /\ zero \in Seq(Nodes)
      /\ Distinct(gc) /\ Distinct(tmp) /\ Distinct(zero)
      /\ ToSet(gc) \cap ToSet(tmp) = {} /\ ToSet(gc) \cap ToSet(zero) = {}
      /\ ToSet(tmp) \cap ToSet(zero) = {}
      /\ ToSet(gc) \cup ToSet(tmp) \cup ToSet(zero) = Existing
  BY DEF Frees, TypeOK, Lists
<1>2. /\ gc' = Without(gc, M) /\ tmp' = Without(tmp, M) /\ zero' = d \o z \o b
  BY FreeIs DEF Frees
<1>3. /\ FreedCells(E) \subseteq Cells /\ FreedCells(E) \subseteq Existing
      /\ D \subseteq Values /\ D \subseteq Existing /\ D \cap P = {} /\ Z \subseteq P
      /\ (D = {} \/ Z = {}) /\ Existing' = Existing \ Gone(E, P)
  BY FreeNodes
<1>4. P \subseteq Existing /\ Existing \subseteq Nodes
  BY DEF Frees, MayFree, Existing
<1>5. M = FreedCells(E) \cup P \cup D /\ Gone(E, P) = (FreedCells(E) \cup P) \ Z
  BY DEF Moved, Gone
<1> HIDE DEF D, Z, M
<1>6. /\ D \in SUBSET Nodes /\ IsFiniteSet(D) /\ Z \in SUBSET Nodes /\ IsFiniteSet(Z)
      /\ Nodes \subseteq Nat
  BY <1>3, <1>4, NodesAre, FS_Subset
<1>7. /\ d \in Seq(Nodes) /\ ToSet(d) = D /\ Distinct(d)
      /\ b \in Seq(Nodes) /\ ToSet(b) = Z /\ Distinct(b)
  BY <1>6, OrderedIs
<1>8. /\ gc' \in Seq(Nodes) /\ ToSet(gc') = ToSet(gc) \ M /\ Distinct(gc')
      /\ tmp' \in Seq(Nodes) /\ ToSet(tmp') = ToSet(tmp) \ M /\ Distinct(tmp')
      /\ z \in Seq(Nodes) /\ ToSet(z) = ToSet(zero) \ M /\ Distinct(z)
  BY <1>1, <1>2, WithoutIs
<1> HIDE DEF d, z, b
<1>9. d \o z \in Seq(Nodes) /\ ToSet(d \o z) = D \cup (ToSet(zero) \ M) /\ Distinct(d \o z)
  BY <1>5, <1>7, <1>8, ConcatIs
<1> DEFINE dz == d \o z
<1> HIDE DEF dz
<1>10. zero' = dz \o b /\ dz \in Seq(Nodes) /\ ToSet(dz) = D \cup (ToSet(zero) \ M) /\ Distinct(dz)
  BY <1>2, <1>9 DEF dz
<1>11. zero' \in Seq(Nodes) /\ ToSet(zero') = D \cup (ToSet(zero) \ M) \cup Z /\ Distinct(zero')
  <2>1. ToSet(dz) \cap ToSet(b) = {}
    BY <1>3, <1>5, <1>7, <1>10
  <2> QED
    BY <1>7, <1>10, <2>1, ConcatIs
<1>12. ToSet(gc') \cup ToSet(tmp') \cup ToSet(zero') = Existing'
  <2>1. D \cap FreedCells(E) = {} /\ Z \subseteq M /\ D \subseteq M
    BY <1>3, <1>5, NodesAre
  <2> QED
    BY <1>1, <1>3, <1>4, <1>5, <1>8, <1>11, <2>1
<1>13. /\ ToSet(gc') \cap ToSet(tmp') = {} /\ ToSet(gc') \cap ToSet(zero') = {}
       /\ ToSet(tmp') \cap ToSet(zero') = {}
  BY <1>1, <1>3, <1>5, <1>8, <1>11
<1>14. Lists'
  BY <1>8, <1>11, <1>12, <1>13 DEF Lists
<1> QED
  BY <1>8, <1>11, <1>14 DEF D, Z, M

\* What is referenced still exists.
LEMMA FreeDangling ==
  ASSUME NEW E, NEW P, NEW A, Frees(E, P, A)
  PROVE  /\ st' \in [Nodes -> {"none", "live", "zombie"}] /\ mark' \in [Nodes -> 0 .. 1]
         /\ Edges' /\ NoDangling'
         /\ \A n \in Nodes : n \notin Gone(E, P) /\ n \notin Zombies(P) => st'[n] = st[n] /\ mark'[n] = mark[n]
         /\ \A e \in held' : e \in A \/ (e \in held /\ e.from \notin P /\ e.from \notin FreedCells(E))
<1>1. /\ held' \in SUBSET Refs /\ IsFiniteSet(held') /\ Lost(E) \in SUBSET held
      /\ \A c \in FreedCells(E) : To(held', c) = {}
      /\ \A e \in held' : e.from \notin FreedCells(E)
      /\ \A c \in Cells : c \notin FreedCells(E) /\ To(held, c) # {} => To(held', c) # {}
  BY FreeCounts DEF Frees
<1>2. /\ FreedCells(E) \subseteq Cells
      /\ Zombies(P) \subseteq P /\ (phase # "remove" => Zombies(P) = {})
      /\ \A n \in Gone(E, P) : To(held', n) = {}
  BY FreeNodes
<1>3. /\ held' = (held \ Lost(E)) \cup A
      /\ st' = [n \in Nodes |-> IF n \in Gone(E, P) THEN "none"
                                   ELSE IF n \in Zombies(P) THEN "zombie" ELSE st[n]]
      /\ mark' = [n \in Nodes |-> IF n \in Gone(E, P) THEN 0 ELSE mark[n]]
  BY FreeIs DEF Frees
<1>4. st \in [Nodes -> {"none", "live", "zombie"}] /\ mark \in [Nodes -> 0 .. 1]
  BY DEF Frees, TypeOK
<1>5. /\ E \in SUBSET held /\ P \subseteq Values
      /\ \A e \in held : e.from \in P \/ e.key \in P => e \in E
      /\ \A e \in held : e.to \in P => phase = "remove" /\ e.from # Stack
      /\ A # {} => P = {}
      /\ \A a \in A : /\ a.from \in Values /\ st[a.from] = "live"
                      /\ a.to \in Values /\ st[a.to] = "live"
                      /\ a.key # Strong => st[a.key] = "live"
  BY DEF Frees, MayFree
<1>6. \A e \in held \ Lost(E) : e \notin E /\ e.from \notin P /\ e.key \notin P /\ e.from \notin FreedCells(E)
  BY <1>5 DEF Lost
<1>7. Gone(E, P) \subseteq FreedCells(E) \cup P
  BY DEF Gone
<1>8. st' \in [Nodes -> {"none", "live", "zombie"}] /\ mark' \in [Nodes -> 0 .. 1]
  BY <1>3, <1>4
<1>9. \A n \in Nodes : n \notin Gone(E, P) /\ n \notin Zombies(P) => st'[n] = st[n] /\ mark'[n] = mark[n]
  BY <1>3
<1>10. \A n \in Nodes : n \notin FreedCells(E) /\ n \notin P => st'[n] = st[n]
  BY <1>2, <1>7, <1>9
<1>11. \A e \in held' : e \in A \/ (e \in held /\ e.from \notin P /\ e.from \notin FreedCells(E))
  BY <1>3, <1>6
<1>12. ASSUME NEW e \in held'
       PROVE  /\ e.from # Stack => st'[e.from] = "live"
              /\ st'[e.to] # "none"
              /\ e.from = Stack => st'[e.to] = "live"
              /\ e.key # Strong => st'[e.key] = "live"
  <2>1. /\ e.from \in Nodes \cup {Stack} /\ e.to \in Nodes /\ e.key \in Values \cup {Strong}
        /\ e.to \notin Gone(E, P)
    BY <1>1, <1>2 DEF Refs, To
  <2>2. CASE e \in A
    <3>1. e.from \in Values /\ e.to \in Values /\ P = {} /\ st[e.from] = "live" /\ st[e.to] = "live"
          /\ (e.key # Strong => st[e.key] = "live")
      BY <1>5, <2>2
    <3>2. \A n \in Values : n \in Nodes /\ n \notin FreedCells(E)
      BY <1>2, NodesAre
    <3> QED
      BY <1>10, <2>1, <3>1, <3>2, NodesAre
  <2>3. CASE e \in held \ Lost(E)
    <3>1. /\ e.from # Stack => st[e.from] = "live"
          /\ st[e.to] # "none"
          /\ e.from = Stack => st[e.to] = "live"
          /\ e.key # Strong => st[e.key] = "live"
      BY <2>3 DEF Frees, NoDangling
    <3>2. e.from \notin P /\ e.key \notin P /\ e.from \notin FreedCells(E) /\ e.to \notin FreedCells(E)
      BY <1>1, <1>6, <2>3 DEF To
    <3>3. e.key # Strong => e.key \in Nodes /\ e.key \notin FreedCells(E)
      BY <1>2, <2>1, NodesAre
    <3>4. e.to \in P => e.from # Stack
      BY <1>5, <2>3
    <3>5. st'[e.to] # "none"
      BY <1>3, <2>1, <3>1
    <3>6. e.from # Stack => st'[e.from] = "live"
      BY <1>10, <2>1, <3>1, <3>2
    <3>7. e.from = Stack => st'[e.to] = "live"
      BY <1>10, <2>1, <3>1, <3>2, <3>4
    <3>8. e.key # Strong => st'[e.key] = "live"
      BY <1>10, <3>1, <3>2, <3>3
    <3> QED
      BY <3>5, <3>6, <3>7, <3>8
  <2> QED
    BY <1>3, <2>2, <2>3
<1>13. Edges'
  <2>1. ASSUME NEW e \in held', e.from \in Cells \cup {Stack} PROVE e.to \in Values
    <3>1. e \notin A
      BY <1>5, <2>1, NodesAre
    <3> QED
      BY <1>11, <2>1, <3>1 DEF Frees, Edges
  <2>2. ASSUME NEW c \in Cells, st'[c] = "live" PROVE To(held', c) # {}
    <3>1. c \notin FreedCells(E)
      <4>1. c \notin P
        BY <1>5, NodesAre
      <4>2. c \in FreedCells(E) => c \in Gone(E, P)
        BY <1>2, <4>1 DEF Gone
      <4> QED
        BY <1>3, <2>2, <4>2, NodesAre
    <3>2. st[c] = "live"
      BY <1>5, <1>10, <2>2, <3>1, NodesAre
    <3> QED
      BY <1>1, <3>1, <3>2 DEF Frees, Edges
  <2> QED
    BY <2>1, <2>2 DEF Edges
<1>14. NoDangling'
  BY <1>12 DEF NoDangling
<1> QED
  BY <1>8, <1>9, <1>11, <1>13, <1>14

-----------------------------------------------------------------------------
(* The program and the freeing loop.                                       *)

\* After a step too.
LEMMA CountedAllNext ==
  ASSUME TypeOK', pc' \in {"run", "remove"}
  PROVE  Counted' = held'
<1>1. Counting' = Nodes
  BY DEF Counting
<1>2. \A e \in held' : e.from \in Nodes \cup {Stack}
  BY DEF TypeOK, Refs
<1> QED
  BY <1>1, <1>2 DEF Counted

\* The counts between collections.
LEMMA CountsAre ==
  ASSUME GInv, pc \in {"run", "remove"}
  PROVE  \A n \in Nodes : rc[n] = Count(held, n)
<1>1. Counted = held
  BY CountedAll DEF GInv
<1> QED
  BY <1>1 DEF GInv, Counts

\* Only GInv's parts about the run apply while the program acts.
LEMMA RunInvs ==
  ASSUME pc' = "run", TypeOK', IsFiniteSet(held'), Edges', NoDangling', Lists', RunInv', Phases',
         \A n \in Nodes : rc'[n] = Count(held', n)
  PROVE  GInv'
<1>1. Counted' = held'
  BY CountedAllNext
<1>2. Counts'
  BY <1>1 DEF Counts
<1>3. DecrefInv' /\ ScanInv' /\ GarbageInv' /\ RestoreInv' /\ RemoveInv'
  BY DEF DecrefInv, ScanInv, GarbageInv, RestoreInv, RemoveInv
<1> QED
  BY <1>2, <1>3 DEF GInv

\* Freeing between collections.
LEMMA RunFree ==
  ASSUME GInv, pc = "run", NEW E, NEW P, NEW A, MayFree(E, P, A), Free(E, P, A),
         A # {} => zero = <<>>, pc' = pc, cursor' = cursor,
         phase' \in {"none", "decref"}, phase' = "none" => zero' = <<>>
  PROVE  GInv'
<1>1. Frees(E, P, A)
  BY CountsAre DEF GInv, Frees
<1>2. phase # "remove" /\ tmp = <<>> /\ \A n \in Nodes : st[n] # "zombie"
  BY DEF GInv, Phases
<1>3. /\ held' \in SUBSET Refs /\ IsFiniteSet(held')
      /\ rc' \in [Nodes -> Nat] /\ \A n \in Nodes : rc'[n] = Count(held', n)
  BY <1>1, FreeCounts DEF Frees
<1>4. /\ Dead(E) \subseteq Values /\ Zombies(P) = {}
      /\ Existing' = Existing \ Gone(E, P)
      /\ \A n \in Dead(E) : rc'[n] = 0
  BY <1>1, <1>2, FreeNodes
<1>5. /\ gc' \in Seq(Nodes) /\ tmp' \in Seq(Nodes) /\ zero' \in Seq(Nodes) /\ Lists'
      /\ ToSet(tmp') = ToSet(tmp) \ Moved(E, P)
      /\ ToSet(zero') = Dead(E) \cup (ToSet(zero) \ Moved(E, P)) \cup Zombies(P)
  BY <1>1, FreeLists
<1>6. /\ st' \in [Nodes -> {"none", "live", "zombie"}] /\ mark' \in [Nodes -> 0 .. 1]
      /\ Edges' /\ NoDangling'
      /\ \A n \in Nodes : n \notin Gone(E, P) /\ n \notin Zombies(P) => st'[n] = st[n] /\ mark'[n] = mark[n]
      /\ \A e \in held' : e \in A \/ e \in held
  BY <1>1, FreeDangling
<1>7. TypeOK'
  BY <1>3, <1>5, <1>6 DEF GInv, TypeOK
<1>8. \A n \in Nodes : st'[n] # "zombie"
  <2>1. st' = [n \in Nodes |-> IF n \in Gone(E, P) THEN "none"
                               ELSE IF n \in Zombies(P) THEN "zombie" ELSE st[n]]
    BY FreeIs
  <2> QED
    BY <1>2, <1>4, <2>1
<1>9. tmp' = <<>>
  <2>1. ToSet(tmp) = {}
    BY <1>2, EmptyIs DEF GInv, TypeOK
  <2>2. ToSet(tmp') = {}
    BY <1>5, <2>1
  <2> QED
    BY <1>5, <2>2, EmptyIs
<1>10. Phases'
  BY <1>8, <1>9 DEF Phases
<1>11. ASSUME NEW n \in Existing' PROVE mark'[n] = 0
  <2>1. n \in Existing /\ n \notin Gone(E, P) /\ n \in Nodes
    BY <1>4 DEF Existing
  <2> QED
    BY <1>4, <1>6, <2>1 DEF GInv, RunInv
<1>12. ASSUME NEW n \in ToSet(zero') PROVE n \in Values /\ rc'[n] = 0
  <2>1. CASE n \in Dead(E)
    BY <1>4, <2>1
  <2>2. CASE n \in ToSet(zero)
    <3>1. n \in Values /\ n \in Nodes /\ rc[n] = 0
      BY <2>2, NodesAre DEF GInv, RunInv
    <3>2. A = {}
      BY <2>2 DEF ToSet
    <3>3. Count(held, n) = 0 /\ IsFiniteSet(held)
      BY <1>1, <3>1 DEF Frees
    <3>4. To(held, n) = {}
      BY <3>3, CountIs
    <3>5. To(held', n) = {}
      BY <1>6, <3>2, <3>4 DEF To
    <3>6. Count(held', n) = 0
      BY <1>3, <3>5, CountIs
    <3> QED
      BY <1>3, <3>1, <3>6
  <2> QED
    BY <1>4, <1>5, <2>1, <2>2
<1>13. RunInv'
  BY <1>11, <1>12 DEF RunInv
<1> QED
  BY <1>3, <1>5, <1>6, <1>7, <1>10, <1>13, RunInvs

\* In the program everything that exists is live.
LEMMA RunLive ==
  ASSUME GInv, pc = "run"
  PROVE  /\ \A n \in Nodes : st[n] # "none" => st[n] = "live"
         /\ \A n \in Nodes : n \in Reach => st[n] = "live"
         /\ \A n \in Nodes : Field(Stack, n) \in held => n \in Values /\ st[n] = "live"
<1>1. \A n \in Nodes : st[n] # "none" => st[n] = "live"
  BY DEF GInv, TypeOK, Phases
<1>2. \A n \in Nodes : n \in Reach => st[n] = "live"
  BY <1>1, ReachExists DEF GInv, Existing
<1>3. \A n \in Nodes : Field(Stack, n) \in held => n \in Values /\ st[n] = "live"
  BY DEF GInv, NoDangling, Edges, Field
<1> QED
  BY <1>1, <1>2, <1>3

LEMMA DropKeeps ==
  ASSUME GInv, NEW n \in Values, Drop(n)
  PROVE  GInv'
<1>1. /\ pc = "run" /\ phase = "none" /\ Field(Stack, n) \in held
      /\ Free({Field(Stack, n)}, {}, {}) /\ StartFreeing /\ UNCHANGED <<pc, cursor>>
  BY DEF Drop, Running, OnStack
<1>2. MayFree({Field(Stack, n)}, {}, {})
  BY <1>1, FS_EmptySet DEF MayFree
<1> QED
  BY <1>1, <1>2, RunFree DEF StartFreeing

LEMMA UnlinkKeeps ==
  ASSUME GInv, NEW a \in Values, NEW b \in Nodes, Unlink(a, b)
  PROVE  GInv'
<1>1. /\ pc = "run" /\ phase = "none" /\ Field(a, b) \in held
      /\ Free({Field(a, b)}, {}, {}) /\ StartFreeing /\ UNCHANGED <<pc, cursor>>
  BY DEF Unlink, Running
<1>2. MayFree({Field(a, b)}, {}, {})
  BY <1>1, FS_EmptySet DEF MayFree
<1> QED
  BY <1>1, <1>2, RunFree DEF StartFreeing

LEMMA WeakDeleteKeeps ==
  ASSUME GInv, NEW m \in WeakMaps, NEW k \in Values, WeakDelete(m, k)
  PROVE  GInv'
<1>1. /\ pc = "run" /\ phase = "none"
      /\ Free(RecordsOf(m, k), {}, {}) /\ StartFreeing /\ UNCHANGED <<pc, cursor>>
  BY DEF WeakDelete, Running
<1>2. MayFree(RecordsOf(m, k), {}, {})
  BY FS_EmptySet DEF MayFree, RecordsOf
<1> QED
  BY <1>1, <1>2, RunFree DEF StartFreeing

LEMMA WeakSetKeeps ==
  ASSUME GInv, NEW m \in WeakMaps, NEW k \in Values, NEW v \in Values, WeakSet(m, k, v)
  PROVE  GInv'
<1> DEFINE A == {Record(m, k, v)}
<1>1. /\ pc = "run" /\ phase = "none" /\ OnStack({m, k, v})
      /\ Free(RecordsOf(m, k), {}, A) /\ StartFreeing /\ UNCHANGED <<pc, cursor>>
  BY DEF WeakSet, Running
<1>2. m \in Values /\ m \in Nodes /\ k \in Nodes /\ v \in Nodes
  BY NodesAre DEF Values
<1>3. st[m] = "live" /\ st[k] = "live" /\ st[v] = "live"
  BY <1>1, <1>2, RunLive DEF OnStack
<1>4. /\ Record(m, k, v) \in Refs /\ Record(m, k, v).from = m
      /\ Record(m, k, v).key = k /\ Record(m, k, v).to = v
  BY <1>2 DEF Record, Refs
<1>5. IsFiniteSet(A)
  BY FS_Singleton
<1>6. MayFree(RecordsOf(m, k), {}, A)
  BY <1>2, <1>3, <1>4, <1>5 DEF MayFree, RecordsOf
<1>7. zero = <<>>
  BY <1>1 DEF GInv, Phases
<1> QED
  BY <1>1, <1>6, <1>7, RunFree DEF StartFreeing

\* The head of gc_zero_ref_count_list is an object nothing refers to.
LEMMA HeadMayGo ==
  ASSUME GInv, pc = "run", zero # <<>>
  PROVE  MayFree(Held(Head(zero)) \cup KeyedBy(Head(zero)), {Head(zero)}, {})
<1> DEFINE p == Head(zero)
<1>1. p \in ToSet(zero)
  <2>1. zero \in Seq(Nodes) /\ p = zero[1] /\ 1 \in DOMAIN zero
    BY DEF GInv, TypeOK
  <2> QED
    BY <2>1 DEF ToSet
<1>2. p \in Values /\ p \in Existing /\ rc[p] = 0 /\ p \in Nodes
  BY <1>1, NodesAre DEF GInv, RunInv, Lists
<1>3. Count(held, p) = 0
  BY <1>2, CountsAre
<1>4. To(held, p) = {}
  BY <1>3, CountIs DEF GInv
<1> QED
  BY <1>2, <1>4, FS_EmptySet DEF MayFree, To, Held, KeyedBy

LEMMA FreeZeroKeeps ==
  ASSUME GInv, FreeZero
  PROVE  GInv'
<1>1. pc = "run" /\ phase = "decref" /\ UNCHANGED <<pc, cursor>>
  BY DEF FreeZero
<1>2. CASE zero = <<>>
  <2>1. phase' = "none" /\ UNCHANGED <<st, held, rc, mark, gc, tmp, zero>>
    BY <1>2 DEF FreeZero
  <2>2. TypeOK'
    BY <1>1, <2>1 DEF GInv, TypeOK
  <2>3. Existing' = Existing
    BY <2>1 DEF Existing
  <2>4. Edges' /\ NoDangling' /\ Lists' /\ RunInv' /\ Phases' /\ IsFiniteSet(held')
    BY <1>1, <1>2, <2>1, <2>3 DEF GInv, Edges, NoDangling, Lists, RunInv, Phases
  <2>5. \A n \in Nodes : rc'[n] = Count(held', n)
    BY <1>1, <2>1, CountsAre
  <2> QED
    BY <1>1, <2>2, <2>4, <2>5, RunInvs
<1>3. CASE zero # <<>>
  <2> DEFINE p == Head(zero)
             E == Held(p) \cup KeyedBy(p)
  <2>1. FreeObject(p) /\ phase' = phase
    BY <1>3 DEF FreeZero
  <2>2. Free(E, {p}, {})
    BY <2>1 DEF FreeObject
  <2>3. MayFree(E, {p}, {})
    BY <1>1, <1>3, HeadMayGo
  <2> QED
    BY <1>1, <2>1, <2>2, <2>3, RunFree
<1> QED
  BY <1>2, <1>3

\* References stored.
LEMMA StoreKeeps ==
  ASSUME GInv, Running, NEW A \in SUBSET Refs, IsFiniteSet(A), A \cap held = {}, Store(A),
         \A a \in A : /\ a.from # Stack => a.from \in Values /\ st[a.from] = "live"
                      /\ a.to \in Nodes /\ st[a.to] = "live" /\ a.key = Strong
                      /\ a.from = Stack => a.to \in Values,
         UNCHANGED <<st, mark, gc, tmp, zero, phase, pc, cursor>>
  PROVE  GInv'
<1>1. pc = "run" /\ phase = "none" /\ zero = <<>>
  BY DEF Running, GInv, Phases
<1>2. rc' = [n \in Nodes |-> rc[n] + Count(A, n)] /\ held' = held \cup A
  BY DEF Store, More, Count
<1>3. IsFiniteSet(held) /\ IsFiniteSet(held') /\ held' \in SUBSET Refs
  BY <1>2, FS_Union DEF GInv, TypeOK
<1>4. ASSUME NEW n \in Nodes PROVE rc'[n] = Count(held', n) /\ rc'[n] \in Nat
  <2>1. rc[n] = Count(held, n) /\ rc[n] \in Nat /\ Count(A, n) \in Nat
    BY <1>1, <1>3, CountsAre, CountIs
  <2>2. Count(held', n) = Count(held, n) + Count(A, n)
    BY <1>2, <1>3, CountMore
  <2> QED
    BY <1>2, <2>1, <2>2
<1>5. TypeOK'
  BY <1>2, <1>3, <1>4 DEF GInv, TypeOK
<1>6. Existing' = Existing
  BY DEF Existing
<1>7. Lists' /\ Phases' /\ RunInv'
  BY <1>1, <1>6 DEF GInv, Lists, Phases, RunInv, ToSet
<1>8. \A e \in held' : e.from \in Cells \cup {Stack} => e.to \in Values
  <2> TAKE e \in held'
  <2>1. CASE e \in A
    BY <2>1, NodesAre
  <2>2. CASE e \in held
    BY <2>2 DEF GInv, Edges
  <2> QED
    BY <1>2, <2>1, <2>2
<1>9. \A c \in Cells : st'[c] = "live" => To(held', c) # {}
  BY <1>2 DEF GInv, Edges, To
<1>10. NoDangling'
  <2>1. \A e \in held' : e \in A \/ e \in held
    BY <1>2
  <2> QED
    BY <2>1 DEF GInv, NoDangling
<1> QED
  BY <1>1, <1>3, <1>4, <1>5, <1>7, <1>8, <1>9, <1>10, RunInvs DEF Edges

LEMMA LinkKeeps ==
  ASSUME GInv, NEW a \in Values, NEW b \in Nodes, Link(a, b)
  PROVE  GInv'
<1> DEFINE A == {Field(a, b)}
<1>1. /\ Running /\ OnStack({a, b} \cap Values) /\ Field(a, b) \notin held /\ b \in Reach
      /\ Store(A) /\ UNCHANGED <<st, mark, gc, tmp, zero, phase, pc, cursor>>
  BY DEF Link
<1>2. a \in Nodes /\ a # Stack /\ pc = "run"
  BY <1>1, NodesAre DEF Running
<1>3. st[a] = "live" /\ st[b] = "live"
  BY <1>1, <1>2, RunLive DEF OnStack
<1>4. /\ Field(a, b) \in Refs /\ Field(a, b).from = a
      /\ Field(a, b).key = Strong /\ Field(a, b).to = b
  BY <1>2 DEF Field, Refs
<1>5. IsFiniteSet(A)
  BY FS_Singleton
<1> QED
  BY <1>1, <1>2, <1>3, <1>4, <1>5, StoreKeeps

LEMMA HoldKeeps ==
  ASSUME GInv, NEW n \in Values, Hold(n)
  PROVE  GInv'
<1> DEFINE A == {Field(Stack, n)}
<1>1. /\ Running /\ Field(Stack, n) \notin held /\ n \in Reach
      /\ Store(A) /\ UNCHANGED <<st, mark, gc, tmp, zero, phase, pc, cursor>>
  BY DEF Hold, OnStack
<1>2. n \in Nodes /\ pc = "run"
  BY <1>1, NodesAre DEF Running
<1>3. st[n] = "live"
  BY <1>1, <1>2, RunLive
<1>4. /\ Field(Stack, n) \in Refs /\ Field(Stack, n).from = Stack
      /\ Field(Stack, n).key = Strong /\ Field(Stack, n).to = n
  BY <1>2 DEF Field, Refs
<1>5. IsFiniteSet(A)
  BY FS_Singleton
<1> QED
  BY <1>1, <1>2, <1>3, <1>4, <1>5, StoreKeeps

\* A node is made, with one reference to it.
LEMMA MakeKeeps ==
  ASSUME GInv, Running, NEW n \in Nodes, st[n] = "none",
         NEW A \in SUBSET Refs, IsFiniteSet(A), Count(A, n) = 1, Make(n, A),
         \A a \in A : /\ a.from \in {Stack, n} \/ (a.from \in Values /\ st[a.from] = "live")
                      /\ a.to = n \/ (a.to \in Values /\ st[a.to] = "live")
                      /\ a.from \in Cells \cup {Stack} => a.to \in Values
                      /\ a.key = Strong /\ n \in {a.from, a.to}
  PROVE  GInv'
<1>1. pc = "run" /\ phase = "none" /\ zero = <<>> /\ tmp = <<>>
  BY DEF Running, GInv, Phases
<1>2. /\ st' = [st EXCEPT ![n] = "live"] /\ mark' = [mark EXCEPT ![n] = 0] /\ gc' = Append(gc, n)
      /\ rc' = [[m \in Nodes |-> rc[m] + Count(A, m)] EXCEPT ![n] = 1] /\ held' = held \cup A
      /\ UNCHANGED <<tmp, zero, phase, pc, cursor>>
  BY DEF Make, More, Count
<1>3. /\ st \in [Nodes -> {"none", "live", "zombie"}] /\ mark \in [Nodes -> 0 .. 1]
      /\ gc \in Seq(Nodes) /\ held \in SUBSET Refs /\ IsFiniteSet(held)
  BY DEF GInv, TypeOK
<1>4. IsFiniteSet(held') /\ held' \in SUBSET Refs
  BY <1>2, <1>3, FS_Union
<1>5. \A e \in held : e.from # n /\ e.to # n
  BY NodesAre DEF GInv, NoDangling
<1>6. held \cap A = {} /\ To(held, n) = {}
  BY <1>5 DEF To
<1>7. ASSUME NEW m \in Nodes PROVE rc'[m] = Count(held', m) /\ rc'[m] \in Nat
  <2>1. rc[m] = Count(held, m) /\ rc[m] \in Nat /\ Count(A, m) \in Nat
    BY <1>1, <1>3, CountsAre, CountIs
  <2>2. Count(held', m) = Count(held, m) + Count(A, m)
    BY <1>2, <1>3, <1>6, CountMore
  <2>3. m = n => Count(held, m) = 0
    BY <1>3, <1>6, CountIs
  <2> QED
    BY <1>2, <2>1, <2>2, <2>3
<1>8. ToSet(gc) \cup ToSet(tmp) \cup ToSet(zero) = Existing /\ n \notin Existing /\ Distinct(gc)
  BY DEF GInv, Lists, Existing
<1>9. gc' \in Seq(Nodes) /\ ToSet(gc') = ToSet(gc) \cup {n} /\ Distinct(gc')
  BY <1>2, <1>3, <1>8, AppendIs
<1>10. Existing' = Existing \cup {n}
  BY <1>2, <1>3 DEF Existing
<1>11. rc' \in [Nodes -> Nat]
  BY <1>2, <1>7
<1>12. TypeOK'
  BY <1>2, <1>3, <1>4, <1>9, <1>11 DEF GInv, TypeOK
<1>13. Lists'
  BY <1>1, <1>2, <1>8, <1>9, <1>10 DEF GInv, Lists, ToSet
<1>14. Phases' /\ RunInv'
  <2>1. \A m \in Existing' : mark'[m] = 0
    BY <1>1, <1>2, <1>3, <1>10 DEF GInv, RunInv, Existing
  <2>2. \A m \in ToSet(zero') : FALSE
    BY <1>1, <1>2 DEF ToSet
  <2>3. \A m \in Nodes : st'[m] # "zombie"
    BY <1>1, <1>2, <1>3 DEF GInv, Phases
  <2> QED
    BY <1>1, <1>2, <2>1, <2>2, <2>3 DEF GInv, RunInv, Phases
<1>15. Edges'
  <2>1. ASSUME NEW e \in held', e.from \in Cells \cup {Stack} PROVE e.to \in Values
    BY <1>2, <2>1 DEF GInv, Edges
  <2>2. ASSUME NEW c \in Cells, st'[c] = "live" PROVE To(held', c) # {}
    <3>1. CASE c = n
      <4>1. To(A, n) # {}
        BY CountIs
      <4> QED
        BY <1>2, <3>1, <4>1 DEF To
    <3>2. CASE c # n
      BY <1>2, <1>3, <2>2, <3>2, NodesAre DEF GInv, Edges, To
    <3> QED
      BY <3>1, <3>2
  <2> QED
    BY <2>1, <2>2 DEF Edges
<1>16. NoDangling'
  <2>1. \A m \in Nodes : st[m] = "live" \/ m = n => st'[m] = "live"
    BY <1>2, <1>3
  <2>2. \A m \in Nodes : st[m] # "none" => st'[m] # "none"
    BY <1>2, <1>3
  <2>3. ASSUME NEW e \in held'
        PROVE  /\ e.from # Stack => st'[e.from] = "live"
               /\ st'[e.to] # "none"
               /\ e.from = Stack => st'[e.to] = "live"
               /\ e.key # Strong => st'[e.key] = "live"
    <3>1. e.from \in Nodes \cup {Stack} /\ e.to \in Nodes /\ e.key \in Nodes \cup {Strong}
      BY <1>4, NodesAre DEF Refs
    <3>2. CASE e \in A
      <4>1. /\ e.from \in {Stack, n} \/ st[e.from] = "live"
            /\ e.to = n \/ st[e.to] = "live"
            /\ e.key = Strong
        BY <3>2
      <4> QED
        BY <2>1, <3>1, <4>1
    <3>3. CASE e \in held
      <4>1. /\ e.from # Stack => st[e.from] = "live"
            /\ st[e.to] # "none"
            /\ e.from = Stack => st[e.to] = "live"
            /\ e.key # Strong => st[e.key] = "live"
        BY <3>3 DEF GInv, NoDangling
      <4> QED
        BY <2>1, <2>2, <3>1, <4>1
    <3> QED
      BY <1>2, <3>2, <3>3
  <2> QED
    BY <2>3 DEF NoDangling
<1> QED
  BY <1>1, <1>2, <1>4, <1>7, <1>12, <1>13, <1>14, <1>15, <1>16, RunInvs

LEMMA NewObjectKeeps ==
  ASSUME GInv, NEW n \in Values, NewObject(n)
  PROVE  GInv'
<1> DEFINE A == {Field(Stack, n)}
<1>1. Running /\ st[n] = "none" /\ Make(n, A)
  BY DEF NewObject
<1>2. n \in Nodes /\ Stack \notin Nodes
  BY NodesAre
<1>3. /\ Field(Stack, n) \in Refs /\ Field(Stack, n).from = Stack
      /\ Field(Stack, n).key = Strong /\ Field(Stack, n).to = n
  BY <1>2 DEF Field, Refs
<1>4. IsFiniteSet(A) /\ Cardinality(A) = 1
  BY FS_Singleton
<1>5. To(A, n) = A
  BY <1>3 DEF To
<1>6. Count(A, n) = 1
  BY <1>4, <1>5 DEF Count
<1> HIDE DEF A
<1>7. \A a \in A : a \in Refs /\ a.from = Stack /\ a.key = Strong /\ a.to = n
  BY <1>3 DEF A
<1> QED
  BY <1>1, <1>2, <1>4, <1>6, <1>7, MakeKeeps

LEMMA NewCellKeeps ==
  ASSUME GInv, NEW c \in Cells, NEW o \in Values, NEW v \in Objects, NewCell(c, o, v)
  PROVE  GInv'
<1> DEFINE A == {Field(c, v), Field(o, c)}
<1>1. Running /\ st[c] = "none" /\ OnStack({o, v}) /\ Make(c, A) /\ pc = "run"
  BY DEF NewCell, Running
<1>2. v \in Values /\ v \in Nodes /\ o \in Nodes /\ c \in Nodes /\ c # v /\ c # o /\ o \notin Cells /\ o # Stack
  BY NodesAre DEF Values
<1>3. st[o] = "live" /\ st[v] = "live"
  BY <1>1, <1>2, RunLive DEF OnStack
<1>4. /\ Field(c, v) \in Refs /\ Field(c, v).from = c
      /\ Field(c, v).key = Strong /\ Field(c, v).to = v
      /\ Field(o, c) \in Refs /\ Field(o, c).from = o
      /\ Field(o, c).key = Strong /\ Field(o, c).to = c
  BY <1>2 DEF Field, Refs
<1>5. IsFiniteSet({Field(c, v)}) /\ IsFiniteSet({Field(o, c)}) /\ Cardinality({Field(o, c)}) = 1
  BY FS_Singleton
<1>6. A = {Field(c, v)} \cup {Field(o, c)}
  OBVIOUS
<1>7. IsFiniteSet(A)
  BY <1>5, <1>6, FS_Union
<1>8. To(A, c) = {Field(o, c)}
  BY <1>2, <1>4 DEF To
<1>9. Count(A, c) = 1
  BY <1>5, <1>8 DEF Count
<1>10. \A a \in A : \/ a \in Refs /\ a.from = c /\ a.key = Strong /\ a.to = v
                    \/ a \in Refs /\ a.from = o /\ a.key = Strong /\ a.to = c
  BY <1>4
<1> HIDE DEF A
<1>11. A \in SUBSET Refs
  BY <1>10
<1>12. \A a \in A : /\ a.from \in {Stack, c} \/ (a.from \in Values /\ st[a.from] = "live")
                    /\ a.to = c \/ (a.to \in Values /\ st[a.to] = "live")
                    /\ a.from \in Cells \cup {Stack} => a.to \in Values
                    /\ a.key = Strong /\ c \in {a.from, a.to}
  BY <1>2, <1>3, <1>10
<1> QED
  BY <1>1, <1>2, <1>7, <1>9, <1>11, <1>12, MakeKeeps

-----------------------------------------------------------------------------
(* The collector: the passes that play with the counts.                    *)

\* While they go on nothing changes in the heap but counts, marks and lists.
LEMMA PassInvs ==
  ASSUME GInv, pc \in {"run", "decref", "scan", "restore"}, pc' \in {"decref", "scan", "restore"},
         phase = "none", UNCHANGED <<st, held, zero, phase>>, TypeOK', Counts', Lists',
         DecrefInv', ScanInv', GarbageInv', RestoreInv'
  PROVE  GInv'
<1>1. Edges' /\ NoDangling' /\ IsFiniteSet(held')
  BY DEF GInv, Edges, NoDangling
<1>2. Phases' /\ RunInv' /\ RemoveInv'
  BY DEF GInv, Phases, RunInv, RemoveInv
<1> QED
  BY <1>1, <1>2 DEF GInv

\* In a pass everything that exists is live and in one of two lists.
LEMMA PassLive ==
  ASSUME GInv, pc # "run", pc # "remove"
  PROVE  /\ phase = "none" /\ zero = <<>> /\ ToSet(zero) = {}
         /\ ToSet(gc) \cup ToSet(tmp) = Existing /\ ToSet(gc) \cap ToSet(tmp) = {}
         /\ Distinct(gc) /\ Distinct(tmp) /\ gc \in Seq(Nodes) /\ tmp \in Seq(Nodes)
         /\ \A e \in held : e.from \in Existing \cup {Stack} /\ e.to \in Existing
         /\ \A n \in Existing : n \in Nodes /\ st[n] = "live"
<1>1. phase = "none" /\ zero = <<>>
  BY DEF GInv, Phases, TypeOK
<1>2. ToSet(zero) = {}
  BY <1>1 DEF ToSet
<1>3. \A e \in held : e.from \in Existing \cup {Stack} /\ e.to \in Existing
  <2> TAKE e \in held
  <2>1. /\ e.from \in Nodes \cup {Stack} /\ e.to \in Nodes
        /\ (e.from # Stack => st[e.from] = "live") /\ st[e.to] # "none"
    BY DEF GInv, TypeOK, Refs, NoDangling
  <2> QED
    BY <2>1 DEF Existing
<1>4. \A n \in Existing : n \in Nodes /\ st[n] = "live"
  BY DEF GInv, TypeOK, Phases, Existing
<1> QED
  BY <1>1, <1>2, <1>3, <1>4 DEF GInv, TypeOK, Lists

LEMMA StartGCKeeps ==
  ASSUME GInv, StartGC
  PROVE  GInv'
<1>1. /\ pc = "run" /\ phase = "none" /\ zero = <<>> /\ tmp = <<>>
      /\ pc' = "decref" /\ cursor' = FirstOf(gc)
      /\ UNCHANGED <<st, held, rc, mark, gc, tmp, zero, phase>>
  BY DEF StartGC, Running, heap, GInv, Phases
<1>2. gc \in Seq(Nodes) /\ ToSet(tmp) = {}
  BY <1>1 DEF GInv, TypeOK, ToSet
<1>3. cursor' \in ToSet(gc) \cup {End} /\ Before(gc, cursor') = {}
  BY <1>1, <1>2, FirstIs
<1>4. ToSet(gc) \subseteq Existing /\ Existing \subseteq Nodes
  BY DEF GInv, Lists, Existing
<1>5. \A n \in Existing : mark[n] = 0
  BY <1>1 DEF GInv, RunInv
<1>6. TypeOK'
  BY <1>1, <1>3, <1>4 DEF GInv, TypeOK
<1>7. Counted' = held
  <2>1. Counting' = {n \in Nodes : mark[n] = 0}
    BY <1>1 DEF Counting
  <2>2. \A e \in held : e.from \in Nodes \cup {Stack} /\ (e.from # Stack => e.from \in Existing)
    BY DEF GInv, TypeOK, Refs, NoDangling, Existing
  <2> QED
    BY <1>1, <1>4, <1>5, <2>1, <2>2 DEF Counted
<1>8. Counts'
  BY <1>1, <1>7, CountsAre DEF Counts
<1>9. Lists'
  BY <1>1 DEF GInv, Lists, Existing
<1>10. DecrefInv'
  BY <1>1, <1>2, <1>3, <1>4, <1>5 DEF DecrefInv
<1>11. ScanInv' /\ GarbageInv' /\ RestoreInv'
  BY <1>1 DEF ScanInv, GarbageInv, RestoreInv
<1> QED
  BY <1>1, <1>6, <1>8, <1>9, <1>10, <1>11, PassInvs

\* The end of gc_decref.
LEMMA DecrefEnd ==
  ASSUME GInv, pc = "decref", cursor = End, pc' = "scan", cursor' = FirstOf(gc), UNCHANGED heap
  PROVE  GInv'
<1>1. UNCHANGED <<st, held, rc, mark, gc, tmp, zero, phase>>
  BY DEF heap
<1>2. /\ phase = "none" /\ ToSet(gc) \cup ToSet(tmp) = Existing /\ gc \in Seq(Nodes)
      /\ \A e \in held : e.from \in Existing \cup {Stack} /\ e.to \in Existing
      /\ \A n \in Existing : n \in Nodes /\ st[n] = "live"
  BY PassLive
<1>3. cursor' \in ToSet(gc) \cup {End} /\ Before(gc, cursor') = {}
  BY <1>2, FirstIs
<1>4. End \notin ToSet(gc)
  BY <1>2, NodesAre
<1>5. Before(gc, cursor) = ToSet(gc)
  BY <1>2, <1>4, BeforeAt
<1>6. \A n \in Existing : mark[n] = 1
  BY <1>2, <1>5 DEF GInv, DecrefInv
<1>7. Counted = {e \in held : e.from = Stack}
  <2>1. Counting = {n \in Nodes : mark[n] = 0}
    BY DEF Counting
  <2> QED
    BY <1>2, <1>6, <2>1 DEF Counted
<1>8. Counted' = Counted
  <2>1. Counting' = {}
    BY <1>1, <1>3 DEF Counting
  <2> QED
    BY <1>1, <1>7, <2>1 DEF Counted
<1>9. Counts'
  BY <1>1, <1>8 DEF GInv, Counts
<1>10. TypeOK'
  BY <1>1, <1>2, <1>3 DEF GInv, TypeOK
<1>11. Lists'
  BY <1>1 DEF GInv, Lists, Existing
<1>12. ASSUME NEW n \in ToSet(gc) PROVE rc[n] # 0 /\ n \in Reach
  <2>1. rc[n] # 0
    BY <1>5 DEF GInv, DecrefInv
  <2>2. n \in Nodes /\ Count(Counted, n) # 0
    BY <1>2, <2>1 DEF GInv, Counts
  <2>3. IsFiniteSet(Counted)
    BY FS_Subset DEF GInv, Counted
  <2>4. PICK e \in Counted : e.to = n
    BY <2>2, <2>3, CountIs DEF To
  <2> QED
    BY <1>7, <2>1, <2>4, ReachClosed DEF GInv, TypeOK
<1>13. Reach' = Reach
  BY <1>1 DEF Reach
<1>14. ScanInv'
  BY <1>1, <1>3, <1>12, <1>13 DEF GInv, DecrefInv, ScanInv
<1>15. DecrefInv' /\ GarbageInv' /\ RestoreInv'
  BY DEF DecrefInv, GarbageInv, RestoreInv
<1> QED
  BY <1>1, <1>2, <1>9, <1>10, <1>11, <1>14, <1>15, PassInvs

\* One element of gc_decref.
LEMMA DecrefStep ==
  ASSUME GInv, pc = "decref", cursor # End, GCDecref
  PROVE  GInv'
<1> DEFINE c == cursor
           kids == Held(c)
           moved == Parked(kids)
           o == Ordered(moved)
           t == Without(tmp, moved)
<1>1. /\ rc' = Less(kids) /\ mark' = [mark EXCEPT ![c] = 1]
      /\ gc' = Without(gc, moved) /\ tmp' = t \o o
      /\ cursor' = NextOf(gc, tmp, c) /\ UNCHANGED <<st, held, zero, phase, pc>>
  BY DEF GCDecref
<1>2. /\ phase = "none" /\ ToSet(zero) = {}
      /\ ToSet(gc) \cup ToSet(tmp) = Existing /\ ToSet(gc) \cap ToSet(tmp) = {}
      /\ Distinct(gc) /\ Distinct(tmp) /\ gc \in Seq(Nodes) /\ tmp \in Seq(Nodes)
      /\ \A e \in held : e.from \in Existing \cup {Stack} /\ e.to \in Existing
      /\ \A n \in Existing : n \in Nodes /\ st[n] = "live"
  BY PassLive
<1>3. /\ c \in ToSet(gc) /\ c \in Nodes /\ c \in Existing /\ c # Stack
      /\ \A n \in ToSet(gc) : mark[n] = 1 <=> n \in Before(gc, c)
      /\ \A n \in Before(gc, c) : rc[n] # 0
      /\ \A n \in ToSet(tmp) : mark[n] = 1 /\ rc[n] = 0
  BY <1>2, NodesAre DEF GInv, DecrefInv
<1>4. Before(gc, c) \subseteq ToSet(gc) /\ c \notin Before(gc, c)
  BY <1>2, BeforeAt
<1>5. mark \in [Nodes -> 0 .. 1] /\ mark[c] = 0
  BY <1>3, <1>4 DEF GInv, TypeOK
<1>6. /\ IsFiniteSet(Counted) /\ Counted = {e \in held : e.from = Stack \/ mark[e.from] = 0}
      /\ kids \in SUBSET Counted /\ IsFiniteSet(kids)
  <2>1. Counting = {n \in Nodes : mark[n] = 0}
    BY DEF Counting
  <2>2. Counted = {e \in held : e.from = Stack \/ mark[e.from] = 0}
    BY <1>2, <2>1 DEF Counted
  <2>3. IsFiniteSet(held)
    BY DEF GInv
  <2> QED
    BY <1>5, <2>2, <2>3, FS_Subset DEF Held
<1>7. Counted' = Counted \ kids
  <2>1. Counting' = {n \in Nodes : mark'[n] = 0}
    BY <1>1 DEF Counting
  <2>2. \A n \in Nodes : mark'[n] = 0 <=> mark[n] = 0 /\ n # c
    BY <1>1, <1>5
  <2> QED
    BY <1>1, <1>2, <1>3, <1>6, <2>1, <2>2 DEF Counted, Held
<1> HIDE DEF kids
<1>8. ASSUME NEW n \in Nodes
      PROVE  /\ rc'[n] = rc[n] - Count(kids, n) /\ rc'[n] = Count(Counted', n)
             /\ rc'[n] \in Nat /\ rc[n] \in Nat /\ Count(kids, n) \in Nat
             /\ Count(kids, n) = 0 <=> To(kids, n) = {}
  <2>1. rc[n] = Count(Counted, n) /\ rc'[n] = rc[n] - Count(kids, n)
    BY <1>1 DEF GInv, Counts, Less, Count
  <2>2. /\ Count(Counted', n) = Count(Counted, n) - Count(kids, n)
        /\ Count(kids, n) \in Nat /\ Count(Counted, n) \in Nat /\ Count(Counted', n) \in Nat
    BY <1>6, <1>7, CountLess
  <2>3. Count(kids, n) = 0 <=> To(kids, n) = {}
    BY <1>6, CountIs
  <2> QED
    BY <2>1, <2>2, <2>3
<1>9. \A n \in Nodes : n \in moved <=> rc'[n] = 0 /\ mark'[n] = 1 /\ (n = c \/ To(kids, n) # {})
  BY DEF Parked
<1>10. \A n \in moved : n \in ToSet(gc)
  <2> TAKE n \in moved
  <2>1. n \in Nodes /\ (n = c \/ To(kids, n) # {})
    BY DEF Parked
  <2>2. CASE n = c
    BY <1>3, <2>2
  <2>3. CASE To(kids, n) # {}
    <3>1. n \in Existing
      BY <1>2, <1>6, <2>3 DEF To
    <3>2. rc[n] # 0
      BY <1>8, <2>1, <2>3
    <3> QED
      BY <1>2, <1>3, <3>1, <3>2
  <2> QED
    BY <2>1, <2>2, <2>3
<1>11. moved \in SUBSET Nodes /\ IsFiniteSet(moved) /\ Nodes \subseteq Nat
  BY <1>2, <1>10, NodesAre, FS_Subset
<1> HIDE DEF moved
<1>12. o \in Seq(Nodes) /\ ToSet(o) = moved /\ Distinct(o)
  BY <1>11, OrderedIs
<1>13. /\ gc' \in Seq(Nodes) /\ ToSet(gc') = ToSet(gc) \ moved /\ Distinct(gc')
       /\ t \in Seq(Nodes) /\ ToSet(t) = ToSet(tmp) \ moved /\ Distinct(t)
  BY <1>1, <1>2, WithoutIs
<1> HIDE DEF o, t
<1>14. tmp' \in Seq(Nodes) /\ ToSet(tmp') = ToSet(tmp) \cup moved /\ Distinct(tmp')
  <2>1. ToSet(t) \cap ToSet(o) = {} /\ ToSet(t) = ToSet(tmp)
    BY <1>2, <1>10, <1>12, <1>13
  <2> QED
    BY <1>1, <1>12, <1>13, <2>1, ConcatIs
<1>15. Lists'
  <2>1. Existing' = Existing /\ ToSet(zero') = {} /\ Distinct(zero')
    BY <1>1, <1>2 DEF Existing, GInv, Lists
  <2> QED
    BY <1>2, <1>10, <1>13, <1>14, <2>1 DEF Lists
<1> DEFINE x == Following(gc, c)
<1>16. x \in ToSet(gc) \cup {End} /\ Before(gc, x) = Before(gc, c) \cup {c} /\ cursor' = x
  <2>1. cursor' = x
    BY <1>1, <1>3 DEF NextOf
  <2> QED
    BY <1>2, <1>3, <2>1, NodesAre, FollowingIs
<1> HIDE DEF x
<1>17. x \notin moved
  <2>1. x \notin Before(gc, x)
    BY <1>2, BeforeAt
  <2>2. CASE x = End
    BY <1>11, <2>2, NodesAre
  <2>3. CASE x \in ToSet(gc)
    <3>1. x # c /\ mark[x] # 1 /\ x \in Nodes
      BY <1>2, <1>3, <1>16, <2>1, <2>3
    <3>2. mark'[x] # 1
      BY <1>1, <1>5, <3>1
    <3> QED
      BY <1>9, <3>1, <3>2
  <2> QED
    BY <1>16, <2>2, <2>3
<1>18. Before(gc', x) = (Before(gc, c) \cup {c}) \ moved
  BY <1>1, <1>2, <1>16, <1>17, BeforeWithout
<1>19. DecrefInv'
  <2>1. cursor' \in ToSet(gc') \cup {End}
    BY <1>13, <1>16, <1>17
  <2>2. \A n \in Nodes : mark'[n] = IF n = c THEN 1 ELSE mark[n]
    BY <1>1, <1>5
  <2>3. \A n \in ToSet(gc') : mark'[n] = 1 <=> n \in Before(gc', x)
    BY <1>2, <1>3, <1>13, <1>18, <2>2
  <2>4. ASSUME NEW n \in Before(gc', x) PROVE rc'[n] # 0
    <3>1. n \in Nodes /\ n \notin moved /\ (n = c \/ n \in Before(gc, c))
      BY <1>2, <1>3, <1>4, <1>18
    <3>2. mark'[n] = 1
      BY <1>3, <1>4, <2>2, <3>1
    <3>3. CASE n = c \/ To(kids, n) # {}
      BY <1>9, <3>1, <3>2, <3>3
    <3>4. CASE n # c /\ To(kids, n) = {}
      BY <1>3, <1>8, <3>1, <3>4
    <3> QED
      BY <3>3, <3>4
  <2>5. ASSUME NEW n \in ToSet(tmp') PROVE mark'[n] = 1 /\ rc'[n] = 0
    <3>1. CASE n \in moved
      BY <1>9, <1>11, <3>1
    <3>2. CASE n \in ToSet(tmp)
      <4>1. n \in Nodes /\ mark[n] = 1 /\ rc[n] = 0
        BY <1>2, <1>3, <3>2
      <4> QED
        BY <1>8, <2>2, <4>1
    <3> QED
      BY <1>14, <3>1, <3>2
  <2> QED
    BY <1>16, <2>1, <2>3, <2>4, <2>5 DEF DecrefInv
<1>20. TypeOK'
  <2>1. rc' \in [Nodes -> Nat]
    <3>1. rc' = [n \in Nodes |-> rc'[n]]
      BY <1>1 DEF Less
    <3> QED
      BY <1>8, <3>1
  <2>2. mark' \in [Nodes -> 0 .. 1]
    <3>1. 1 \in 0 .. 1
      OBVIOUS
    <3> QED
      BY <1>1, <1>5, <3>1
  <2>3. cursor' \in Nodes \cup {End}
    BY <1>2, <1>16
  <2> QED
    BY <1>1, <1>13, <1>14, <2>1, <2>2, <2>3 DEF GInv, TypeOK
<1>21. Counts'
  BY <1>8 DEF Counts
<1>22. ScanInv' /\ GarbageInv' /\ RestoreInv'
  BY <1>1 DEF ScanInv, GarbageInv, RestoreInv
<1> QED
  BY <1>1, <1>2, <1>15, <1>19, <1>20, <1>21, <1>22, PassInvs

\* One element of gc_scan's first loop.
LEMMA ScanStep ==
  ASSUME GInv, pc = "scan", cursor # End, GCScan
  PROVE  GInv'
<1> DEFINE c == cursor
           kids == Held(c)
           back == Rescued(kids)
           o == Ordered(back)
<1>1. /\ rc' = More(kids)
      /\ mark' = [n \in Nodes |-> IF n \in back \cup {c} THEN 0 ELSE mark[n]]
      /\ gc' = gc \o o /\ tmp' = Without(tmp, back)
      /\ cursor' = NextOf(gc', tmp', c) /\ UNCHANGED <<st, held, zero, phase, pc>>
  BY DEF GCScan, Scan
<1>2. /\ phase = "none" /\ ToSet(zero) = {}
      /\ ToSet(gc) \cup ToSet(tmp) = Existing /\ ToSet(gc) \cap ToSet(tmp) = {}
      /\ Distinct(gc) /\ Distinct(tmp) /\ gc \in Seq(Nodes) /\ tmp \in Seq(Nodes)
      /\ \A e \in held : e.from \in Existing \cup {Stack} /\ e.to \in Existing
      /\ \A n \in Existing : n \in Nodes /\ st[n] = "live"
  BY PassLive
<1>3. /\ c \in ToSet(gc) /\ c \in Nodes /\ c \in Existing /\ c # Stack
      /\ \A n \in ToSet(gc) : rc[n] # 0 /\ n \in Reach
      /\ \A n \in ToSet(tmp) : rc[n] = 0
      /\ \A n \in Before(gc, c) : mark[n] = 0
  BY <1>2, NodesAre DEF GInv, ScanInv
<1>4. Before(gc, c) \subseteq ToSet(gc) /\ c \notin Before(gc, c)
  BY <1>2, BeforeAt
<1>5. /\ IsFiniteSet(Counted) /\ Counted = {e \in held : e.from \in Before(gc, c) \cup {Stack}}
      /\ kids \cap Counted = {} /\ IsFiniteSet(kids)
  <2>1. Counting = Before(gc, c)
    BY DEF Counting
  <2>2. IsFiniteSet(held)
    BY DEF GInv
  <2> QED
    BY <1>3, <1>4, <2>1, <2>2, FS_Subset DEF Held, Counted
<1>6. \A n \in Nodes : n \in back <=> rc[n] = 0 /\ To(kids, n) # {}
  BY DEF Rescued
<1>7. \A n \in back : n \in ToSet(tmp) /\ n \in Reach
  <2> TAKE n \in back
  <2>1. n \in Nodes /\ rc[n] = 0 /\ To(kids, n) # {}
    BY DEF Rescued
  <2>2. PICK e \in held : e.from = c /\ e.to = n
    BY <2>1 DEF To, Held
  <2>3. n \in ToSet(tmp)
    BY <1>2, <1>3, <2>1, <2>2
  <2>4. n \in Reach
    BY <1>3, <2>2, ReachClosed DEF GInv, TypeOK
  <2> QED
    BY <2>3, <2>4
<1>8. back \in SUBSET Nodes /\ IsFiniteSet(back) /\ Nodes \subseteq Nat
  BY <1>2, <1>7, NodesAre, FS_Subset
<1> HIDE DEF back, kids
<1>9. o \in Seq(Nodes) /\ ToSet(o) = back /\ Distinct(o)
  BY <1>8, OrderedIs
<1> HIDE DEF o
<1>10. gc' \in Seq(Nodes) /\ ToSet(gc') = ToSet(gc) \cup back /\ Distinct(gc')
  <2>1. ToSet(gc) \cap ToSet(o) = {}
    BY <1>2, <1>7, <1>9
  <2> QED
    BY <1>1, <1>2, <1>9, <2>1, ConcatIs
<1>11. tmp' \in Seq(Nodes) /\ ToSet(tmp') = ToSet(tmp) \ back /\ Distinct(tmp')
  BY <1>1, <1>2, WithoutIs
<1>12. Lists'
  <2>1. Existing' = Existing /\ ToSet(zero') = {} /\ Distinct(zero')
    BY <1>1, <1>2 DEF Existing, GInv, Lists
  <2> QED
    BY <1>2, <1>7, <1>10, <1>11, <2>1 DEF Lists
<1> DEFINE x == Following(gc', c)
<1>13. x \in ToSet(gc') \cup {End} /\ Before(gc', x) = Before(gc, c) \cup {c} /\ cursor' = x
  <2>1. c \in ToSet(gc')
    BY <1>3, <1>10
  <2>2. cursor' = x
    BY <1>1, <2>1 DEF NextOf
  <2>3. Before(gc', c) = Before(gc, c)
    BY <1>1, <1>2, <1>3, <1>9, BeforeConcat
  <2>4. x \in ToSet(gc') \cup {End} /\ Before(gc', x) = Before(gc', c) \cup {c}
    <3> DEFINE g == gc'
    <3>1. g \in Seq(Nodes) /\ Distinct(g) /\ End \notin Nodes /\ c \in ToSet(g)
      BY <1>10, <2>1, NodesAre
    <3> HIDE DEF g
    <3>2. Following(g, c) \in ToSet(g) \cup {End} /\ Before(g, Following(g, c)) = Before(g, c) \cup {c}
      BY <3>1, FollowingIs
    <3> QED
      BY <3>2 DEF g
  <2> QED
    BY <2>2, <2>3, <2>4
<1> HIDE DEF x
<1>14. Counted' = Counted \cup kids
  <2>1. Counting' = Before(gc, c) \cup {c}
    BY <1>1, <1>13 DEF Counting
  <2> QED
    BY <1>1, <1>5, <2>1 DEF Counted, Held, kids
<1>15. ASSUME NEW n \in Nodes
       PROVE  /\ rc'[n] = rc[n] + Count(kids, n) /\ rc'[n] = Count(Counted', n)
              /\ rc'[n] \in Nat /\ rc[n] \in Nat /\ Count(kids, n) \in Nat
              /\ Count(kids, n) = 0 <=> To(kids, n) = {}
  <2>1. rc[n] = Count(Counted, n) /\ rc'[n] = rc[n] + Count(kids, n)
    BY <1>1 DEF GInv, Counts, More, Count
  <2>2. Count(Counted', n) = Count(Counted, n) + Count(kids, n)
    BY <1>5, <1>14, CountMore
  <2>3. /\ Count(Counted, n) \in Nat /\ Count(kids, n) \in Nat
        /\ Count(kids, n) = 0 <=> To(kids, n) = {}
    BY <1>5, CountIs
  <2> QED
    BY <2>1, <2>2, <2>3
<1>16. \A n \in Nodes : mark'[n] = IF n \in back \cup {c} THEN 0 ELSE mark[n]
  BY <1>1
<1>17. ScanInv'
  <2>1. ASSUME NEW n \in ToSet(gc') PROVE rc'[n] # 0 /\ n \in Reach
    <3>1. CASE n \in back
      <4>1. n \in Nodes /\ Count(kids, n) # 0
        BY <1>6, <1>8, <1>15, <3>1
      <4> QED
        BY <1>7, <1>15, <3>1, <4>1
    <3>2. CASE n \in ToSet(gc)
      <4>1. n \in Nodes
        BY <1>2, <3>2
      <4> QED
        BY <1>3, <1>15, <3>2, <4>1
    <3> QED
      BY <1>10, <3>1, <3>2
  <2>2. ASSUME NEW n \in ToSet(tmp') PROVE rc'[n] = 0
    <3>1. n \in Nodes /\ rc[n] = 0 /\ n \notin back
      BY <1>2, <1>3, <1>11
    <3> QED
      BY <1>6, <1>15, <3>1
  <2>3. \A n \in Before(gc', x) : mark'[n] = 0
    BY <1>2, <1>3, <1>4, <1>13, <1>16
  <2>4. Reach' = Reach
    BY <1>1 DEF Reach
  <2> QED
    BY <1>13, <2>1, <2>2, <2>3, <2>4 DEF ScanInv
<1>18. TypeOK'
  <2>1. rc' \in [Nodes -> Nat]
    <3>1. rc' = [n \in Nodes |-> rc'[n]]
      BY <1>1 DEF More
    <3> QED
      BY <1>15, <3>1
  <2>2. mark' \in [Nodes -> 0 .. 1]
    BY <1>1 DEF GInv, TypeOK
  <2>3. cursor' \in Nodes \cup {End}
    BY <1>2, <1>7, <1>10, <1>13
  <2> QED
    BY <1>1, <1>10, <1>11, <2>1, <2>2, <2>3 DEF GInv, TypeOK
<1>19. Counts'
  BY <1>15 DEF Counts
<1>20. DecrefInv' /\ GarbageInv' /\ RestoreInv'
  BY <1>1 DEF DecrefInv, GarbageInv, RestoreInv
<1> QED
  BY <1>1, <1>2, <1>12, <1>17, <1>18, <1>19, <1>20, PassInvs

\* The end of its first loop.
LEMMA ScanEnd ==
  ASSUME GInv, pc = "scan", cursor = End, EndScan
  PROVE  GInv'
<1>1. /\ UNCHANGED <<st, held, rc, mark, gc, tmp, zero, phase>>
      /\ pc' = "restore" /\ cursor' = FirstOf(tmp)
  BY DEF heap, EndScan
<1>2. /\ phase = "none" /\ ToSet(zero) = {} /\ ToSet(gc) \cup ToSet(tmp) = Existing
      /\ ToSet(gc) \cap ToSet(tmp) = {} /\ gc \in Seq(Nodes) /\ tmp \in Seq(Nodes)
      /\ \A e \in held : e.from \in Existing \cup {Stack} /\ e.to \in Existing
      /\ \A n \in Existing : n \in Nodes /\ st[n] = "live"
  BY PassLive
<1>3. cursor' \in ToSet(tmp) \cup {End} /\ Before(tmp, cursor') = {}
  BY <1>1, <1>2, FirstIs
<1>4. End \notin ToSet(gc) /\ Stack \notin ToSet(tmp)
  BY <1>2, NodesAre
<1>5. Before(gc, cursor) = ToSet(gc)
  BY <1>2, <1>4, BeforeAt
<1>6. Counted = {e \in held : e.from \in ToSet(gc) \cup {Stack}}
  <2>1. Counting = ToSet(gc)
    BY <1>5 DEF Counting
  <2> QED
    BY <2>1 DEF Counted
<1>7. Counted' = Counted
  <2>1. Counting' = ToSet(gc)
    BY <1>1, <1>3 DEF Counting
  <2> QED
    BY <1>1, <1>6, <2>1 DEF Counted
<1>8. Counts'
  BY <1>1, <1>7 DEF GInv, Counts
<1>9. TypeOK'
  BY <1>1, <1>2, <1>3 DEF GInv, TypeOK
<1>10. Lists'
  BY <1>1 DEF GInv, Lists, Existing
<1>11. ASSUME NEW e \in held, e.to \in ToSet(tmp) PROVE e.from \in ToSet(tmp)
  <2>1. e.to \in Nodes /\ rc[e.to] = 0
    BY <1>2, <1>11 DEF GInv, ScanInv
  <2>2. Count(Counted, e.to) = 0 /\ IsFiniteSet(Counted)
    <3>1. IsFiniteSet(held)
      BY DEF GInv
    <3> QED
      BY <1>6, <2>1, <3>1, FS_Subset DEF GInv, Counts
  <2>3. e \notin Counted
    BY <2>2, CountIs DEF To
  <2> QED
    BY <1>2, <1>6, <2>3
<1>12. GarbageInv'
  <2>1. Garbage' = ToSet(tmp)
    BY <1>1, <1>2 DEF Garbage
  <2>2. \A n \in ToSet(gc) : mark[n] = 0
    BY <1>5 DEF GInv, ScanInv
  <2> QED
    BY <1>1, <1>11, <2>1, <2>2 DEF GarbageInv
<1>13. RestoreInv'
  <2>1. Reach' = Reach
    BY <1>1 DEF Reach
  <2> QED
    BY <1>1, <1>3, <2>1 DEF GInv, ScanInv, RestoreInv
<1>14. DecrefInv' /\ ScanInv'
  BY <1>1 DEF DecrefInv, ScanInv
<1> QED
  BY <1>1, <1>2, <1>8, <1>9, <1>10, <1>12, <1>13, <1>14, PassInvs

\* One element of gc_scan's second loop.
LEMMA RestoreStep ==
  ASSUME GInv, pc = "restore", cursor # End, GCRestore
  PROVE  GInv'
<1> DEFINE c == cursor
           kids == Held(c)
<1>1. /\ rc' = More(kids) /\ cursor' = NextOf(gc, tmp, c)
      /\ UNCHANGED <<st, held, mark, gc, tmp, zero, phase, pc>>
  BY DEF GCRestore, Restored
<1>2. /\ phase = "none" /\ ToSet(gc) \cup ToSet(tmp) = Existing
      /\ ToSet(gc) \cap ToSet(tmp) = {} /\ Distinct(tmp) /\ tmp \in Seq(Nodes)
      /\ \A n \in Existing : n \in Nodes /\ st[n] = "live"
  BY PassLive
<1>3. c \in ToSet(tmp) /\ c \notin ToSet(gc) /\ c \in Nodes /\ c # Stack
  BY <1>2, NodesAre DEF GInv, RestoreInv
<1>4. c \notin Before(tmp, c)
  BY <1>2, BeforeAt
<1>5. /\ IsFiniteSet(Counted)
      /\ Counted = {e \in held : e.from \in (ToSet(gc) \cup Before(tmp, c)) \cup {Stack}}
      /\ kids \cap Counted = {} /\ IsFiniteSet(kids)
  <2>1. Counting = ToSet(gc) \cup Before(tmp, c)
    BY DEF Counting
  <2>2. IsFiniteSet(held)
    BY DEF GInv
  <2> QED
    BY <1>3, <1>4, <2>1, <2>2, FS_Subset DEF Held, Counted
<1> DEFINE x == Following(tmp, c)
<1>6. x \in ToSet(tmp) \cup {End} /\ Before(tmp, x) = Before(tmp, c) \cup {c} /\ cursor' = x
  <2>1. cursor' = x
    BY <1>1, <1>3 DEF NextOf
  <2> QED
    BY <1>2, <1>3, <2>1, NodesAre, FollowingIs
<1> HIDE DEF x
<1>7. Counted' = Counted \cup kids
  <2>1. Counting' = ToSet(gc) \cup (Before(tmp, c) \cup {c})
    BY <1>1, <1>6 DEF Counting
  <2> QED
    BY <1>1, <1>5, <2>1 DEF Counted, Held
<1> HIDE DEF kids
<1>8. ASSUME NEW n \in Nodes PROVE rc'[n] = Count(Counted', n) /\ rc'[n] \in Nat
  <2>1. rc[n] = Count(Counted, n) /\ rc'[n] = rc[n] + Count(kids, n)
    BY <1>1 DEF GInv, Counts, More, Count
  <2> QED
    BY <1>5, <1>7, <2>1, CountMore, CountIs
<1>9. TypeOK'
  <2>1. rc' \in [Nodes -> Nat]
    <3>1. rc' = [n \in Nodes |-> rc'[n]]
      BY <1>1 DEF More
    <3> QED
      BY <1>8, <3>1
  <2>2. cursor' \in Nodes \cup {End}
    BY <1>2, <1>6
  <2> QED
    BY <1>1, <2>1, <2>2 DEF GInv, TypeOK
<1>10. Counts'
  BY <1>8 DEF Counts
<1>11. Lists'
  BY <1>1 DEF GInv, Lists, Existing
<1>12. GarbageInv'
  BY <1>1 DEF GInv, GarbageInv, Garbage
<1>13. RestoreInv'
  <2>1. Reach' = Reach
    BY <1>1 DEF Reach
  <2> QED
    BY <1>1, <1>6, <2>1 DEF GInv, RestoreInv
<1>14. DecrefInv' /\ ScanInv'
  BY <1>1 DEF DecrefInv, ScanInv
<1> QED
  BY <1>1, <1>2, <1>9, <1>10, <1>11, <1>12, <1>13, <1>14, PassInvs

\* The end of the second loop: every reference counts again.
LEMMA RestoreEnd ==
  ASSUME GInv, pc = "restore", cursor = End, GCRestore
  PROVE  GInv'
<1>1. /\ pc' = "remove" /\ phase' = "remove"
      /\ UNCHANGED <<st, held, rc, mark, gc, tmp, zero, cursor>>
  BY DEF GCRestore
<1>2. /\ ToSet(zero) = {} /\ ToSet(gc) \cup ToSet(tmp) = Existing /\ tmp \in Seq(Nodes)
      /\ \A e \in held : e.from \in Existing \cup {Stack}
      /\ \A n \in Existing : n \in Nodes /\ st[n] = "live"
  BY PassLive
<1>3. Counted = held
  <2>1. End \notin ToSet(tmp)
    BY <1>2, NodesAre
  <2>2. Before(tmp, cursor) = ToSet(tmp)
    BY <1>2, <2>1, BeforeAt
  <2>3. Counting = Existing
    BY <1>2, <2>2 DEF Counting
  <2> QED
    BY <1>2, <2>3 DEF Counted
<1>4. TypeOK'
  BY <1>1 DEF GInv, TypeOK
<1>5. Counts'
  <2>1. Counted' = held
    BY <1>1, <1>4, CountedAllNext
  <2> QED
    BY <1>1, <1>3, <2>1 DEF GInv, Counts
<1>6. Edges' /\ NoDangling' /\ IsFiniteSet(held')
  BY <1>1 DEF GInv, Edges, NoDangling
<1>7. Lists'
  BY <1>1 DEF GInv, Lists, Existing
<1>8. Phases'
  BY <1>1 DEF GInv, Phases
<1>9. GarbageInv' /\ RemoveInv'
  BY <1>1, <1>2 DEF GInv, GarbageInv, Garbage, RemoveInv
<1>10. RunInv' /\ DecrefInv' /\ ScanInv' /\ RestoreInv'
  BY <1>1 DEF RunInv, DecrefInv, ScanInv, RestoreInv
<1> QED
  BY <1>4, <1>5, <1>6, <1>7, <1>8, <1>9, <1>10 DEF GInv

-----------------------------------------------------------------------------
(* The collector: the garbage is freed.                                    *)

\* Only GInv's parts about the garbage apply while it is removed.
LEMMA RemoveInvs ==
  ASSUME pc' = "remove", TypeOK', IsFiniteSet(held'), Edges', NoDangling', Lists', Phases',
         GarbageInv', RemoveInv', \A n \in Nodes : rc'[n] = Count(held', n)
  PROVE  GInv'
<1>1. Counted' = held'
  BY CountedAllNext
<1>2. Counts'
  BY <1>1 DEF Counts
<1>3. RunInv' /\ DecrefInv' /\ ScanInv' /\ RestoreInv'
  BY DEF RunInv, DecrefInv, ScanInv, RestoreInv
<1> QED
  BY <1>2, <1>3 DEF GInv

\* What gc_free_cycles takes.
LEMMA FirstOfTmp ==
  ASSUME GInv, tmp # <<>>
  PROVE  Head(tmp) \in ToSet(tmp) /\ Head(tmp) \in Existing /\ Head(tmp) \in Nodes
<1>1. tmp \in Seq(Nodes) /\ Head(tmp) = tmp[1] /\ 1 \in DOMAIN tmp
  BY DEF GInv, TypeOK
<1>2. Head(tmp) \in ToSet(tmp)
  BY <1>1 DEF ToSet
<1> QED
  BY <1>2 DEF GInv, Lists, Existing

\* Garbage is held by garbage only: its objects may be freed.
LEMMA GarbageMayGo ==
  ASSUME GInv, pc = "remove", NEW p \in ToSet(tmp), p \in Values
  PROVE  MayFree(Held(p) \cup KeyedBy(p), {p}, {})
<1>1. phase = "remove"
  BY DEF GInv, Phases
<1>2. /\ p \in Existing /\ p \in Garbage /\ p \notin ToSet(zero)
      /\ Existing \subseteq Nodes /\ Garbage \subseteq Existing /\ Stack \notin Nodes
  BY NodesAre DEF GInv, Lists, Garbage, Existing
<1>3. \A e \in held : e.to \in Garbage => e.from \in Garbage
  BY DEF GInv, GarbageInv
<1> QED
  BY <1>1, <1>2, <1>3, FS_EmptySet DEF MayFree, Held, KeyedBy

\* It frees an object.
LEMMA RemoveFree ==
  ASSUME GInv, pc = "remove", NEW p \in ToSet(tmp), p \in Values, FreeObject(p),
         UNCHANGED <<phase, pc, cursor>>
  PROVE  GInv'
<1> DEFINE E == Held(p) \cup KeyedBy(p)
           P == {p}
<1>1. phase = "remove"
  BY DEF GInv, Phases
<1>2. /\ p \in Existing /\ p \in Garbage /\ p \notin ToSet(zero) /\ p \notin ToSet(gc)
      /\ Existing \subseteq Nodes /\ Garbage \subseteq Existing /\ Stack \notin Nodes
  BY NodesAre DEF GInv, Lists, Garbage, Existing
<1>3. /\ \A e \in held : e.to \in Garbage => e.from \in Garbage
      /\ \A n \in ToSet(gc) : mark[n] = 0
  BY DEF GInv, GarbageInv
<1>4. MayFree(E, P, {})
  BY GarbageMayGo
<1>5. Free(E, P, {})
  BY DEF FreeObject
<1> HIDE DEF E
<1>6. Frees(E, P, {})
  BY <1>4, <1>5, CountsAre DEF GInv, Frees
<1>7. /\ held' \in SUBSET Refs /\ IsFiniteSet(held') /\ rc' \in [Nodes -> Nat]
      /\ \A n \in Nodes : rc'[n] = Count(held', n)
  BY <1>6, FreeCounts DEF Frees
<1>8. /\ FreedCells(E) \subseteq Cells /\ Zombies(P) \subseteq P /\ Dead(E) = {}
  BY <1>1, <1>6, FreeNodes
<1>9. /\ gc' \in Seq(Nodes) /\ tmp' \in Seq(Nodes) /\ zero' \in Seq(Nodes) /\ Lists'
      /\ ToSet(gc') = ToSet(gc) \ Moved(E, P) /\ ToSet(tmp') = ToSet(tmp) \ Moved(E, P)
      /\ ToSet(zero') = Dead(E) \cup (ToSet(zero) \ Moved(E, P)) \cup Zombies(P)
  BY <1>6, FreeLists
<1>10. /\ st' \in [Nodes -> {"none", "live", "zombie"}] /\ mark' \in [Nodes -> 0 .. 1]
       /\ Edges' /\ NoDangling'
       /\ \A n \in Nodes : n \notin Gone(E, P) /\ n \notin Zombies(P) => st'[n] = st[n] /\ mark'[n] = mark[n]
       /\ \A e \in held' : e \in {} \/ (e \in held /\ e.from \notin P /\ e.from \notin FreedCells(E))
  BY <1>6, FreeDangling
<1>11. st' = [n \in Nodes |-> IF n \in Gone(E, P) THEN "none"
                              ELSE IF n \in Zombies(P) THEN "zombie" ELSE st[n]]
  BY <1>5, FreeIs
<1>12. /\ Moved(E, P) = FreedCells(E) \cup P /\ Gone(E, P) \subseteq Moved(E, P)
       /\ Gone(E, P) \cap Zombies(P) = {} /\ Zombies(P) \subseteq Moved(E, P)
  BY <1>8 DEF Moved, Gone
<1>13. TypeOK'
  BY <1>7, <1>9, <1>10 DEF GInv, TypeOK
<1>14. ASSUME NEW n \in Nodes, st'[n] = "zombie" PROVE n \in ToSet(zero') /\ n \in Values
  <2>1. CASE n \in Zombies(P)
    BY <1>8, <1>9, <2>1
  <2>2. CASE n \notin Zombies(P)
    <3>1. st[n] = "zombie"
      BY <1>11, <1>14, <2>2
    <3>2. n \in ToSet(zero) /\ n \in Values
      BY <3>1 DEF GInv, Phases
    <3>3. n \notin Moved(E, P)
      BY <1>2, <1>8, <1>12, <3>2, NodesAre
    <3> QED
      BY <1>9, <3>2, <3>3
  <2> QED
    BY <2>1, <2>2
<1>15. Phases'
  BY <1>1, <1>14 DEF Phases
<1>16. GarbageInv'
  <2>1. Garbage' = (Garbage \ Moved(E, P)) \cup Zombies(P)
    BY <1>8, <1>9 DEF Garbage
  <2>2. ASSUME NEW e \in held', e.to \in Garbage' PROVE e.from \in Garbage'
    <3>1. e \in held /\ e.from \notin Moved(E, P)
      BY <1>10, <1>12
    <3>2. e.to \in Garbage
      BY <1>2, <1>8, <2>1, <2>2
    <3> QED
      BY <1>3, <2>1, <3>1, <3>2
  <2>3. ASSUME NEW n \in ToSet(gc') PROVE mark'[n] = 0
    <3>1. n \in ToSet(gc) /\ n \notin Moved(E, P) /\ n \in Nodes
      BY <1>9 DEF GInv, Lists, Existing
    <3> QED
      BY <1>3, <1>10, <1>12, <3>1
  <2> QED
    BY <2>2, <2>3 DEF GarbageInv
<1>17. RemoveInv'
  <2>1. ASSUME NEW n \in ToSet(zero'), n \in Values PROVE st'[n] = "zombie"
    <3>1. CASE n \in Zombies(P)
      BY <1>11, <1>12, <2>1, <3>1, NodesAre
    <3>2. CASE n \notin Zombies(P)
      <4>1. n \in ToSet(zero) /\ n \notin Moved(E, P) /\ n \in Nodes
        BY <1>8, <1>9, <2>1, <3>2, NodesAre
      <4>2. st[n] = "zombie"
        BY <2>1, <4>1 DEF GInv, RemoveInv
      <4> QED
        BY <1>10, <1>12, <4>1, <4>2
    <3> QED
      BY <3>1, <3>2
  <2> QED
    BY <2>1 DEF RemoveInv
<1> QED
  BY <1>7, <1>9, <1>10, <1>13, <1>15, <1>16, <1>17, RemoveInvs

\* It sets a cell aside.
LEMMA SetAsideKeeps ==
  ASSUME GInv, pc = "remove", NEW p \in ToSet(tmp), p \notin Values, SetAside(p),
         UNCHANGED <<phase, pc, cursor>>
  PROVE  GInv'
<1>1. /\ tmp' = Without(tmp, {p}) /\ zero' = Append(zero, p)
      /\ UNCHANGED <<st, held, rc, mark, gc>>
  BY DEF SetAside
<1>2. /\ gc \in Seq(Nodes) /\ tmp \in Seq(Nodes) /\ zero \in Seq(Nodes) /\ p \in Nodes
      /\ p \notin ToSet(zero) /\ p \notin ToSet(gc)
  BY DEF GInv, TypeOK, Lists, Existing
<1>3. tmp' \in Seq(Nodes) /\ ToSet(tmp') = ToSet(tmp) \ {p} /\ Distinct(tmp')
  BY <1>1, <1>2, WithoutIs DEF GInv, Lists
<1>4. zero' \in Seq(Nodes) /\ ToSet(zero') = ToSet(zero) \cup {p} /\ Distinct(zero')
  BY <1>1, <1>2, AppendIs DEF GInv, Lists
<1>5. TypeOK'
  BY <1>1, <1>3, <1>4 DEF GInv, TypeOK
<1>6. Edges' /\ NoDangling' /\ IsFiniteSet(held')
  BY <1>1 DEF GInv, Edges, NoDangling
<1>7. Lists'
  <2>1. Existing' = Existing
    BY <1>1 DEF Existing
  <2> QED
    BY <1>1, <1>2, <1>3, <1>4, <2>1 DEF GInv, Lists
<1>8. Phases'
  BY <1>1, <1>4 DEF GInv, Phases
<1>9. GarbageInv'
  <2>1. Garbage' = Garbage
    BY <1>3, <1>4 DEF Garbage
  <2> QED
    BY <1>1, <2>1 DEF GInv, GarbageInv
<1>10. RemoveInv'
  BY <1>1, <1>4 DEF GInv, RemoveInv
<1>11. \A n \in Nodes : rc'[n] = Count(held', n)
  BY <1>1, CountsAre
<1> QED
  BY <1>5, <1>6, <1>7, <1>8, <1>9, <1>10, <1>11, RemoveInvs

\* At its end what is set aside is finalized: the cells are freed by now, since
\* a cell that is left is held by something that is left.
LEMMA OnlyZombies ==
  ASSUME GInv, pc = "remove", tmp = <<>>
  PROVE  \A n \in ToSet(zero) : n \in Values /\ st[n] = "zombie" /\ To(held, n) = {}
<1>1. Garbage = ToSet(zero)
  BY DEF Garbage, ToSet
<1>2. /\ ToSet(zero) \subseteq Existing /\ Existing \subseteq Nodes
      /\ \A e \in held : e.to \in ToSet(zero) => e.from \in ToSet(zero)
      /\ \A n \in ToSet(zero) : n \in Values => st[n] = "zombie"
  BY <1>1 DEF GInv, Lists, GarbageInv, RemoveInv, Existing
<1>3. ASSUME NEW e \in held, e.to \in ToSet(zero) PROVE e.from \in Cells
  <2>1. e.from \in ToSet(zero) /\ e.from \in Nodes /\ e.from # Stack
    BY <1>2, <1>3, NodesAre
  <2>2. st[e.from] = "live"
    BY <2>1 DEF GInv, NoDangling
  <2> QED
    BY <1>2, <2>1, <2>2, NodesAre
<1>4. ASSUME NEW n \in ToSet(zero) PROVE n \in Values
  <2>1. SUFFICES ASSUME n \in Cells PROVE FALSE
    BY <1>2, NodesAre
  <2>2. st[n] = "live"
    <3>1. n \in Nodes /\ st[n] # "none" /\ n \notin Values
      BY <1>2, <2>1, NodesAre DEF Existing
    <3> QED
      BY <3>1 DEF GInv, TypeOK, Phases
  <2>3. PICK e \in held : e.to = n
    BY <2>1, <2>2 DEF GInv, Edges, To
  <2>4. e.to \in Values
    BY <1>3, <2>3 DEF GInv, Edges
  <2> QED
    BY <2>1, <2>3, <2>4, NodesAre
<1>5. ASSUME NEW n \in ToSet(zero) PROVE To(held, n) = {}
  <2>1. ASSUME NEW e \in held, e.to = n PROVE FALSE
    <3>1. e.from \in Cells /\ e.from \in ToSet(zero)
      BY <1>2, <1>3, <2>1
    <3> QED
      BY <1>4, <3>1, NodesAre
  <2> QED
    BY <2>1 DEF To
<1> QED
  BY <1>2, <1>4, <1>5

\* The memory of the zombies is released.
LEMMA GCSweepKeeps ==
  ASSUME GInv, GCSweep
  PROVE  GInv'
<1>1. /\ pc = "remove" /\ tmp = <<>> /\ pc' = "run" /\ phase' = "none" /\ zero' = <<>>
      /\ st'   = [n \in Nodes |-> IF n \in ToSet(zero) THEN "none" ELSE st[n]]
      /\ rc'   = [n \in Nodes |-> IF n \in ToSet(zero) THEN 0 ELSE rc[n]]
      /\ mark' = [n \in Nodes |-> IF n \in ToSet(zero) THEN 0 ELSE mark[n]]
      /\ UNCHANGED <<held, gc, tmp, cursor>>
  BY DEF GCSweep
<1>2. \A n \in ToSet(zero) : n \in Values /\ st[n] = "zombie" /\ To(held, n) = {}
  BY <1>1, OnlyZombies
<1>3. /\ ToSet(tmp) = {} /\ ToSet(zero') = {} /\ ToSet(gc) \cap ToSet(zero) = {}
      /\ Existing = ToSet(gc) \cup ToSet(zero) /\ Existing \subseteq Nodes
  <2>1. ToSet(<<>>) = {}
    BY DEF ToSet
  <2>2. Existing \subseteq Nodes
    BY DEF Existing
  <2> QED
    BY <1>1, <2>1, <2>2 DEF GInv, Lists
<1>4. \A n \in Nodes : rc[n] = Count(held, n)
  BY <1>1, CountsAre
<1>5. ASSUME NEW n \in Nodes PROVE rc'[n] = Count(held, n)
  <2>1. CASE n \in ToSet(zero)
    <3>1. Count(held, n) = 0
      BY <1>2, <2>1, CountIs DEF GInv
    <3> QED
      BY <1>1, <2>1, <3>1
  <2> QED
    BY <1>1, <1>4, <2>1
<1>6. \A n \in Nodes : n \notin ToSet(zero) => st'[n] = st[n] /\ mark'[n] = mark[n]
  BY <1>1
<1>7. TypeOK'
  <2>1. 0 \in 0 .. 1 /\ 0 \in Nat
    OBVIOUS
  <2>2. mark' \in [Nodes -> 0 .. 1] /\ rc' \in [Nodes -> Nat]
    BY <1>1, <2>1 DEF GInv, TypeOK
  <2>3. st' \in [Nodes -> {"none", "live", "zombie"}]
    BY <1>1 DEF GInv, TypeOK
  <2>4. zero' \in Seq(Nodes)
    BY <1>1
  <2> QED
    BY <1>1, <2>2, <2>3, <2>4 DEF GInv, TypeOK
<1>8. ASSUME NEW n \in Nodes, st[n] = "live" PROVE n \notin ToSet(zero) /\ st'[n] = "live"
  BY <1>2, <1>6, <1>8
<1>9. Edges'
  <2>1. \A c \in Cells : st'[c] = "live" => st[c] = "live"
    BY <1>1, NodesAre
  <2> QED
    BY <1>1, <2>1 DEF GInv, Edges
<1>10. NoDangling'
  <2>1. ASSUME NEW e \in held
        PROVE  /\ e.from # Stack => st'[e.from] = "live"
               /\ st'[e.to] # "none"
               /\ e.from = Stack => st'[e.to] = "live"
               /\ e.key # Strong => st'[e.key] = "live"
    <3>1. e.from \in Nodes \cup {Stack} /\ e.to \in Nodes /\ e.key \in Values \cup {Strong}
      BY DEF GInv, TypeOK, Refs
    <3>2. e.to \notin ToSet(zero)
      BY <1>2 DEF To
    <3> QED
      BY <1>6, <1>8, <3>1, <3>2, NodesAre DEF GInv, NoDangling
  <2> QED
    BY <1>1, <2>1 DEF NoDangling
<1>11. Existing' = ToSet(gc)
  BY <1>1, <1>3 DEF Existing
<1>12. Lists'
  BY <1>1, <1>3, <1>11 DEF GInv, Lists
<1>13. RunInv'
  <2>1. \A n \in ToSet(gc) : mark[n] = 0 /\ n \in Nodes /\ n \notin ToSet(zero)
    BY <1>1, <1>3 DEF GInv, GarbageInv
  <2> QED
    BY <1>3, <1>6, <1>11, <2>1 DEF RunInv
<1>14. Phases'
  <2>1. ASSUME NEW n \in Nodes PROVE st'[n] # "zombie"
    <3>1. n \notin ToSet(zero) => st[n] # "zombie"
      BY DEF GInv, Phases
    <3> QED
      BY <1>1, <3>1
  <2> QED
    BY <1>1, <2>1 DEF Phases
<1>15. IsFiniteSet(held') /\ \A n \in Nodes : rc'[n] = Count(held', n)
  BY <1>1, <1>5 DEF GInv
<1> QED
  BY <1>1, <1>7, <1>9, <1>10, <1>12, <1>13, <1>14, <1>15, RunInvs

-----------------------------------------------------------------------------
(* The invariant holds, and what follows from it.                          *)

LEMMA InitGInv ==
  ASSUME Init
  PROVE  GInv
<1>1. /\ st = [n \in Nodes |-> "none"] /\ held = {}
      /\ rc = [n \in Nodes |-> 0] /\ mark = [n \in Nodes |-> 0]
      /\ gc = <<>> /\ tmp = <<>> /\ zero = <<>>
      /\ phase = "none" /\ pc = "run" /\ cursor = End
  BY DEF Init
<1>2. ToSet(<<>>) = {} /\ Distinct(<<>>)
  BY DEF ToSet, Distinct
<1>3. TypeOK
  <2>1. 0 \in 0 .. 1
    OBVIOUS
  <2> QED
    BY <1>1, <2>1 DEF TypeOK
<1>4. IsFiniteSet(held)
  BY <1>1, FS_EmptySet
<1>5. Counts
  <2>1. Counted = {}
    BY <1>1 DEF Counted
  <2>2. \A n : To({}, n) = {}
    BY DEF To
  <2> QED
    BY <1>1, <2>1, <2>2, FS_EmptySet DEF Counts, Count
<1>6. Existing = {}
  BY <1>1 DEF Existing
<1>7. Edges /\ NoDangling /\ Lists /\ Phases
  BY <1>1, <1>2, <1>6, NodesAre DEF Edges, NoDangling, Lists, Phases
<1>8. /\ RunInv /\ DecrefInv /\ ScanInv /\ GarbageInv /\ RestoreInv /\ RemoveInv
  BY <1>1, <1>2, <1>6 DEF RunInv, DecrefInv, ScanInv, GarbageInv, RestoreInv, RemoveInv
<1> QED
  BY <1>3, <1>4, <1>5, <1>7, <1>8 DEF GInv

LEMMA ProgramGInv ==
  ASSUME GInv, Program
  PROVE  GInv'
<1>1. ASSUME NEW n \in Values, NewObject(n) \/ Hold(n) \/ Drop(n) PROVE GInv'
  BY <1>1, NewObjectKeeps, HoldKeeps, DropKeeps
<1>2. ASSUME NEW c \in Cells, NEW o \in Values, NEW v \in Objects, NewCell(c, o, v) PROVE GInv'
  BY <1>2, NewCellKeeps
<1>3. ASSUME NEW a \in Values, NEW b \in Nodes, Link(a, b) \/ Unlink(a, b) PROVE GInv'
  BY <1>3, LinkKeeps, UnlinkKeeps
<1>4. ASSUME NEW m \in WeakMaps, NEW k \in Values, NEW v \in Values, WeakSet(m, k, v) PROVE GInv'
  BY <1>4, WeakSetKeeps
<1>5. ASSUME NEW m \in WeakMaps, NEW k \in Values, WeakDelete(m, k) PROVE GInv'
  BY <1>5, WeakDeleteKeeps
<1> QED
  BY <1>1, <1>2, <1>3, <1>4, <1>5 DEF Program

LEMMA CollectorGInv ==
  ASSUME GInv, Collector
  PROVE  GInv'
<1>1. CASE StartGC
  BY <1>1, StartGCKeeps
<1>2. CASE GCDecref
  <2>1. CASE cursor = End
    BY <1>2, <2>1, DecrefEnd DEF GCDecref
  <2>2. CASE cursor # End
    BY <1>2, <2>2, DecrefStep DEF GCDecref
  <2> QED
    BY <2>1, <2>2
<1>3. CASE GCScan
  <2>1. CASE cursor = End
    BY <1>3, <2>1, ScanEnd DEF GCScan
  <2>2. CASE cursor # End
    BY <1>3, <2>2, ScanStep DEF GCScan
  <2> QED
    BY <2>1, <2>2
<1>4. CASE GCRestore
  <2>1. CASE cursor = End
    BY <1>4, <2>1, RestoreEnd DEF GCRestore
  <2>2. CASE cursor # End
    BY <1>4, <2>2, RestoreStep DEF GCRestore
  <2> QED
    BY <2>1, <2>2
<1>5. CASE GCRemove
  <2> DEFINE p == Head(tmp)
  <2>1. /\ pc = "remove" /\ tmp # <<>> /\ UNCHANGED <<phase, pc, cursor>>
        /\ p \in Values => FreeObject(p)
        /\ p \notin Values => SetAside(p)
    BY <1>5 DEF GCRemove
  <2>2. p \in ToSet(tmp)
    BY <2>1, FirstOfTmp
  <2> HIDE DEF p
  <2>3. CASE p \in Values
    BY <2>1, <2>2, <2>3, RemoveFree
  <2>4. CASE p \notin Values
    BY <2>1, <2>2, <2>4, SetAsideKeeps
  <2> QED
    BY <2>3, <2>4
<1>6. CASE GCSweep
  BY <1>6, GCSweepKeeps
<1> QED
  BY <1>1, <1>2, <1>3, <1>4, <1>5, <1>6 DEF Collector

LEMMA StutterGInv ==
  ASSUME GInv, UNCHANGED vars
  PROVE  GInv'
<1>1. UNCHANGED <<st, held, rc, mark, gc, tmp, zero, phase, pc, cursor>>
  BY DEF vars, heap
<1>2. TypeOK' /\ IsFiniteSet(held') /\ Edges' /\ NoDangling' /\ Phases'
  BY <1>1 DEF GInv, TypeOK, Edges, NoDangling, Phases
<1>3. Existing' = Existing /\ Reach' = Reach /\ Garbage' = Garbage
  BY <1>1 DEF Existing, Reach, Garbage
<1>4. Counting' = Counting
  BY <1>1 DEF Counting
<1>5. Counts' /\ Lists'
  BY <1>1, <1>3, <1>4 DEF GInv, Counts, Counted, Lists
<1>6. RunInv' /\ DecrefInv' /\ ScanInv'
  BY <1>1, <1>3 DEF GInv, RunInv, DecrefInv, ScanInv
<1>7. GarbageInv' /\ RestoreInv' /\ RemoveInv'
  BY <1>1, <1>3 DEF GInv, GarbageInv, RestoreInv, RemoveInv
<1> QED
  BY <1>2, <1>5, <1>6, <1>7 DEF GInv

LEMMA GInvHolds == Spec => []GInv
<1>1. Init => GInv
  BY InitGInv
<1>2. GInv /\ [Next]_vars => GInv'
  BY ProgramGInv, FreeZeroKeeps, CollectorGInv, StutterGInv DEF Next
<1> QED
  BY <1>1, <1>2, PTL DEF Spec

\* Every reference count is the number of references that exist, whatever the
\* program builds and drops: gc_scan puts back what gc_decref took, and freeing
\* takes a count for each reference a node held.
THEOREM CountsExactCorrect == Spec => []CountsExact
<1>1. GInv => CountsExact
  BY CountsAre DEF CountsExact, Count
<1> QED
  BY <1>1, GInvHolds, PTL

\* What the program can name is live.
LEMMA ReachIsLive ==
  ASSUME GInv
  PROVE  ReachableAlive
<1>1. CASE pc = "remove"
  <2>1. ToSet(gc) \subseteq Existing /\ ToSet(gc) \cap Garbage = {} /\ Stack \notin Garbage
        /\ Existing = ToSet(gc) \cup Garbage /\ Existing \subseteq Nodes
    BY NodesAre DEF GInv, Lists, Garbage, Existing
  <2>2. \A e \in held : e.to \in Existing /\ (e.to \in Garbage => e.from \in Garbage)
    BY <1>1 DEF GInv, TypeOK, Refs, NoDangling, GarbageInv, Existing
  <2>3. Reach \subseteq ToSet(gc)
    BY <2>1, <2>2, ReachWithin
  <2>4. ASSUME NEW n \in ToSet(gc) PROVE st[n] = "live"
    <3>1. n \in Nodes /\ st[n] # "none" /\ n \notin ToSet(zero)
      BY <2>1 DEF Existing, Garbage
    <3> QED
      BY <3>1 DEF GInv, TypeOK, Phases
  <2> QED
    BY <2>3, <2>4 DEF ReachableAlive
<1>2. CASE pc # "remove"
  <2>1. Reach \subseteq Existing
    BY ReachExists DEF GInv
  <2>2. \A n \in Existing : st[n] = "live"
    BY <1>2 DEF GInv, TypeOK, Phases, Existing
  <2> QED
    BY <2>1, <2>2 DEF ReachableAlive
<1> QED
  BY <1>1, <1>2

\* Nothing that is used was freed: no field, record or slot names released
\* memory, and what the program can reach is never finalized, while a
\* collection runs too.
THEOREM HeapSoundCorrect == Spec => []HeapSound
<1>1. GInv => HeapSound
  BY ReachIsLive DEF GInv, HeapSound
<1> QED
  BY <1>1, GInvHolds, PTL

\* A list in which nothing is twice is as long as its set.
LEMMA DistinctLength ==
  ASSUME NEW S, NEW s \in Seq(S), Distinct(s)
  PROVE  Len(s) = Cardinality(ToSet(s))
<1> DEFINE D == 1 .. Len(s)
<1>1. IsFiniteSet(D) /\ Cardinality(D) = Len(s) /\ DOMAIN s = D /\ Len(s) \in Nat
  <2>1. DOMAIN s = D /\ Len(s) \in Nat /\ 1 \in Int /\ Len(s) \in Int
    OBVIOUS
  <2>2. IsFiniteSet(D) /\ Cardinality(D) = IF 1 > Len(s) THEN 0 ELSE Len(s) - 1 + 1
    BY <2>1, FS_Interval
  <2> QED
    BY <2>1, <2>2
<1>2. s \in Surjection(D, ToSet(s)) /\ s \in Injection(D, ToSet(s))
  <2>1. s \in [D -> ToSet(s)]
    BY <1>1 DEF ToSet
  <2>2. \A x \in ToSet(s) : \E i \in D : s[i] = x
    BY <1>1 DEF ToSet
  <2>3. \A i, j \in D : s[i] = s[j] => i = j
    BY <1>1 DEF Distinct
  <2> QED
    BY <2>1, <2>2, <2>3 DEF Surjection, Injection, IsInjective
<1>3. IsFiniteSet(ToSet(s)) /\ Cardinality(ToSet(s)) <= Cardinality(D)
      /\ (Cardinality(ToSet(s)) = Cardinality(D) <=> s \in Injection(D, ToSet(s)))
  <2> HIDE DEF D
  <2> QED
    BY <1>1, <1>2, FS_Surjection
<1> QED
  BY <1>1, <1>2, <1>3

\* The assertions of the collector's passes hold wherever they are evaluated,
\* and a collection starts from the lists and marks they ask for.
THEOREM ListsSoundCorrect == Spec => []ListsSound
<1>1. ASSUME GInv PROVE Assertions
  <2>1. ASSUME pc = "decref", cursor # End PROVE mark[cursor] = 0 /\ st[cursor] # "none"
    <3>1. gc \in Seq(Nodes) /\ cursor \in ToSet(gc) /\ cursor \in Existing
      BY <1>1, <2>1 DEF GInv, TypeOK, DecrefInv, Lists
    <3>2. cursor \notin Before(gc, cursor)
      BY <3>1, BeforeAt
    <3>3. mark[cursor] # 1
      BY <1>1, <2>1, <3>1, <3>2 DEF GInv, DecrefInv
    <3> QED
      BY <1>1, <3>1, <3>3 DEF GInv, TypeOK, Existing
  <2>2. ASSUME pc = "scan", NEW n \in ToSet(gc) PROVE rc[n] > 0
    <3>1. n \in Nodes /\ rc[n] # 0
      BY <1>1, <2>2 DEF GInv, ScanInv, Lists, Existing
    <3> QED
      BY <1>1, <3>1 DEF GInv, TypeOK
  <2>3. ASSUME phase = "decref", NEW n \in ToSet(zero) PROVE rc[n] = 0 /\ st[n] = "live"
    <3>1. pc = "run" /\ n \in Nodes /\ st[n] # "none"
      BY <1>1, <2>3 DEF GInv, Phases, Lists, Existing
    <3> QED
      BY <1>1, <2>3, <3>1, RunLive DEF GInv, RunInv
  <2>4. ASSUME pc = "remove", tmp = <<>> PROVE ToSet(zero) \cap Cells = {}
    BY <1>1, <2>4, OnlyZombies, NodesAre
  <2> QED
    BY <2>1, <2>2, <2>3, <2>4 DEF Assertions
<1>2. ASSUME GInv, Running
      PROVE  /\ tmp = <<>> /\ zero = <<>> /\ ToSet(gc) = {n \in Nodes : st[n] = "live"}
             /\ Len(gc) = Cardinality(ToSet(gc)) /\ \A n \in ToSet(gc) : mark[n] = 0
  <2>1. pc = "run" /\ phase = "none" /\ tmp = <<>> /\ zero = <<>>
    BY <1>2 DEF GInv, Running, Phases
  <2>2. ToSet(gc) = Existing
    BY <1>2, <2>1 DEF GInv, Lists, ToSet
  <2>3. Existing = {n \in Nodes : st[n] = "live"}
    BY <1>2, <2>1, RunLive DEF Existing
  <2>4. Len(gc) = Cardinality(ToSet(gc))
    BY <1>2, DistinctLength DEF GInv, TypeOK, Lists
  <2>5. \A n \in ToSet(gc) : mark[n] = 0
    BY <1>2, <2>1, <2>2 DEF GInv, RunInv
  <2> QED
    BY <2>1, <2>2, <2>3, <2>4, <2>5
<1>3. GInv => ListsSound
  BY <1>1, <1>2 DEF ListsSound, ReadyForNextGC
<1> QED
  BY <1>3, GInvHolds, PTL

\* The two passes of the collector, which follow counts and not references,
\* leave in tmp_obj_list what the program cannot reach, and nothing else.
THEOREM CollectedExactlyCorrect == Spec => []CollectedExactly
<1>1. ASSUME GInv, pc = "restore"
      PROVE  ToSet(tmp) = {n \in Nodes : st[n] = "live"} \ Reach
  <2>1. /\ ToSet(zero) = {} /\ ToSet(gc) \cup ToSet(tmp) = Existing /\ ToSet(gc) \cap ToSet(tmp) = {}
        /\ \A e \in held : e.to \in Existing
        /\ \A n \in Existing : n \in Nodes /\ st[n] = "live"
    BY <1>1, PassLive
  <2>2. Existing = {n \in Nodes : st[n] = "live"}
    BY <2>1 DEF Existing
  <2>3. ToSet(gc) \subseteq Reach
    BY <1>1 DEF GInv, RestoreInv
  <2>4. Reach \subseteq ToSet(gc)
    <3>1. \A e \in held : e.to \in ToSet(tmp) => e.from \in ToSet(tmp)
      BY <1>1, <2>1 DEF GInv, GarbageInv, Garbage
    <3>2. Stack \notin ToSet(tmp)
      BY <2>1, NodesAre
    <3>3. \A e \in held : e.from \in ToSet(gc) \cup {Stack} => e.to \in ToSet(gc)
      BY <2>1, <3>1, <3>2
    <3> QED
      BY <2>1, <3>3, ReachWithin
  <2> QED
    BY <2>1, <2>2, <2>3, <2>4
<1>2. GInv => CollectedExactly
  BY <1>1 DEF CollectedExactly
<1> QED
  BY <1>2, GInvHolds, PTL

-----------------------------------------------------------------------------
(* Prompt release. Without weak maps nothing is left at zero.              *)

\* While no map has a record: between collections nothing in gc_obj_list is at
\* zero; a collection keeps what the stack, or something kept, holds.
Prompt ==
  /\ \A e \in held : e.key = Strong
  /\ pc = "run" => \A n \in ToSet(gc) : rc[n] # 0
  /\ pc \in {"restore", "remove"} =>
       \A n \in ToSet(gc) : \E e \in held : e.to = n /\ e.from \in ToSet(gc) \cup {Stack}

\* What is stored adds to the counts.
LEMMA StorePrompt ==
  ASSUME GInv, Prompt, pc = "run", pc' = pc, gc' = gc, NEW A \in SUBSET Refs, IsFiniteSet(A),
         Store(A), \A a \in A : a.key = Strong
  PROVE  Prompt'
<1>1. rc' = [n \in Nodes |-> rc[n] + Count(A, n)] /\ held' = held \cup A
  BY DEF Store, More, Count
<1>2. ASSUME NEW n \in ToSet(gc) PROVE rc'[n] # 0
  <2>1. n \in Nodes
    BY DEF GInv, Lists, Existing
  <2>2. rc[n] \in Nat /\ rc[n] # 0 /\ Count(A, n) \in Nat
    BY <2>1, CountIs DEF GInv, TypeOK, Prompt
  <2> QED
    BY <1>1, <2>1, <2>2
<1> QED
  BY <1>1, <1>2 DEF Prompt

\* A new node has a reference.
LEMMA MakePrompt ==
  ASSUME GInv, Prompt, pc = "run", NEW m \in Nodes, NEW A \in SUBSET Refs, IsFiniteSet(A),
         Make(m, A), \A a \in A : a.key = Strong
  PROVE  Prompt'
<1>1. /\ gc' = Append(gc, m) /\ pc' = pc /\ held' = held \cup A
      /\ rc' = [[n \in Nodes |-> rc[n] + Count(A, n)] EXCEPT ![m] = 1]
  BY DEF Make, More, Count
<1>2. gc \in Seq(Nodes)
  BY DEF GInv, TypeOK
<1>3. ToSet(gc') = ToSet(gc) \cup {m}
  BY <1>1, <1>2, AppendIs
<1>4. ASSUME NEW n \in ToSet(gc') PROVE rc'[n] # 0
  <2>1. CASE n = m
    BY <1>1, <2>1
  <2>2. CASE n # m
    <3>1. n \in ToSet(gc) /\ n \in Nodes
      BY <1>3, <2>2 DEF GInv, Lists, Existing
    <3>2. rc[n] \in Nat /\ rc[n] # 0 /\ Count(A, n) \in Nat
      BY <3>1, CountIs DEF GInv, TypeOK, Prompt
    <3> QED
      BY <1>1, <2>2, <3>1, <3>2
  <2> QED
    BY <2>1, <2>2
<1> QED
  BY <1>1, <1>4 DEF Prompt

\* Between collections what comes to zero is queued or freed.
LEMMA FreePrompt ==
  ASSUME GInv, Prompt, pc = "run", pc' = pc, NEW E, NEW P, MayFree(E, P, {}), Free(E, P, {})
  PROVE  Prompt'
<1>1. Frees(E, P, {})
  BY CountsAre DEF GInv, Frees
<1>2. phase # "remove"
  BY DEF GInv, Phases
<1>3. /\ IsFiniteSet(held') /\ Lost(E) \in SUBSET held
      /\ rc' \in [Nodes -> Nat] /\ \A n \in Nodes : rc'[n] = Count(held', n)
      /\ \A c \in Cells : c \notin FreedCells(E) /\ To(held, c) # {} => To(held', c) # {}
  BY <1>1, FreeCounts DEF Frees
<1>4. ToSet(gc') = ToSet(gc) \ Moved(E, P)
  BY <1>1, FreeLists
<1>5. held' = held \ Lost(E)
  BY FreeIs
<1>6. ASSUME NEW n \in ToSet(gc') PROVE rc'[n] # 0
  <2>1. n \in ToSet(gc) /\ n \notin Moved(E, P) /\ n \in Nodes
    BY <1>4 DEF GInv, Lists, Existing
  <2>2. rc[n] # 0 /\ rc[n] = Count(held, n) /\ IsFiniteSet(held)
    BY <1>1, <2>1 DEF Prompt, Frees
  <2>3. To(held, n) # {}
    BY <2>2, CountIs
  <2>4. CASE n \in Cells
    <3>1. To(held', n) # {}
      BY <1>3, <2>1, <2>3, <2>4 DEF Moved
    <3> QED
      BY <1>3, <2>1, <3>1, CountIs
  <2>5. CASE n \in Values /\ To(Lost(E), n) = {}
    <3>1. To(held', n) # {}
      BY <1>5, <2>3, <2>5 DEF To
    <3> QED
      BY <1>3, <2>1, <3>1, CountIs
  <2>6. CASE n \in Values /\ To(Lost(E), n) # {}
    <3>1. ~(rc'[n] <= 0)
      BY <1>2, <2>1, <2>6 DEF Moved, Dead, Queues
    <3> QED
      BY <1>3, <2>1, <3>1
  <2> QED
    BY <2>1, <2>4, <2>5, <2>6, NodesAre
<1> QED
  BY <1>5, <1>6 DEF Prompt

LEMMA ProgramPrompt ==
  ASSUME GInv, Prompt, Program,
         \A m \in WeakMaps, k, v \in Values : ~WeakSet(m, k, v)
  PROVE  Prompt'
<1>1. ASSUME NEW n \in Values, NewObject(n) PROVE Prompt'
  <2> DEFINE A == {Field(Stack, n)}
  <2>1. pc = "run" /\ Make(n, A) /\ n \in Nodes
    BY <1>1, NodesAre DEF NewObject, Running
  <2>2. A \in SUBSET Refs /\ \A a \in A : a.key = Strong
    BY <2>1 DEF Field, Refs
  <2>3. IsFiniteSet(A)
    BY FS_Singleton
  <2> QED
    BY <2>1, <2>2, <2>3, MakePrompt
<1>2. ASSUME NEW n \in Values, Hold(n) PROVE Prompt'
  <2> DEFINE A == {Field(Stack, n)}
  <2>1. pc = "run" /\ pc' = pc /\ gc' = gc /\ Store(A) /\ n \in Nodes
    BY <1>2, NodesAre DEF Hold, Running
  <2>2. A \in SUBSET Refs /\ \A a \in A : a.key = Strong
    BY <2>1 DEF Field, Refs
  <2>3. IsFiniteSet(A)
    BY FS_Singleton
  <2> QED
    BY <2>1, <2>2, <2>3, StorePrompt
<1>3. ASSUME NEW n \in Values, Drop(n) PROVE Prompt'
  <2>1. /\ pc = "run" /\ pc' = pc /\ Field(Stack, n) \in held /\ Free({Field(Stack, n)}, {}, {})
    BY <1>3 DEF Drop, Running, OnStack
  <2>2. MayFree({Field(Stack, n)}, {}, {})
    BY <2>1, FS_EmptySet DEF MayFree
  <2> QED
    BY <2>1, <2>2, FreePrompt
<1>4. ASSUME NEW c \in Cells, NEW o \in Values, NEW v \in Objects, NewCell(c, o, v) PROVE Prompt'
  <2> DEFINE A == {Field(c, v), Field(o, c)}
  <2>1. pc = "run" /\ Make(c, A) /\ c \in Nodes /\ o \in Nodes /\ v \in Nodes
    BY <1>4, NodesAre DEF NewCell, Running, Values
  <2>2. A \in SUBSET Refs /\ IsFiniteSet(A) /\ \A a \in A : a.key = Strong
    <3>1. A = {Field(c, v)} \cup {Field(o, c)}
      OBVIOUS
    <3>2. IsFiniteSet({Field(c, v)}) /\ IsFiniteSet({Field(o, c)})
      BY FS_Singleton
    <3>3. IsFiniteSet(A)
      BY <3>1, <3>2, FS_Union
    <3> QED
      BY <2>1, <3>3 DEF Field, Refs
  <2> QED
    BY <2>1, <2>2, MakePrompt
<1>5. ASSUME NEW a \in Values, NEW b \in Nodes, Link(a, b) PROVE Prompt'
  <2> DEFINE A == {Field(a, b)}
  <2>1. pc = "run" /\ pc' = pc /\ gc' = gc /\ Store(A) /\ a \in Nodes
    BY <1>5, NodesAre DEF Link, Running
  <2>2. A \in SUBSET Refs /\ \A x \in A : x.key = Strong
    BY <2>1 DEF Field, Refs
  <2>3. IsFiniteSet(A)
    BY FS_Singleton
  <2> QED
    BY <2>1, <2>2, <2>3, StorePrompt
<1>6. ASSUME NEW a \in Values, NEW b \in Nodes, Unlink(a, b) PROVE Prompt'
  <2>1. pc = "run" /\ pc' = pc /\ Field(a, b) \in held /\ Free({Field(a, b)}, {}, {})
    BY <1>6 DEF Unlink, Running
  <2>2. MayFree({Field(a, b)}, {}, {})
    BY <2>1, FS_EmptySet DEF MayFree
  <2> QED
    BY <2>1, <2>2, FreePrompt
<1>7. ASSUME NEW m \in WeakMaps, NEW k \in Values, WeakDelete(m, k) PROVE Prompt'
  <2>1. pc = "run" /\ pc' = pc /\ Free(RecordsOf(m, k), {}, {})
    BY <1>7 DEF WeakDelete, Running
  <2>2. MayFree(RecordsOf(m, k), {}, {})
    BY FS_EmptySet DEF MayFree, RecordsOf
  <2> QED
    BY <2>1, <2>2, FreePrompt
<1> QED
  BY <1>1, <1>2, <1>3, <1>4, <1>5, <1>6, <1>7 DEF Program

LEMMA FreeZeroPrompt ==
  ASSUME GInv, Prompt, FreeZero
  PROVE  Prompt'
<1>1. pc = "run" /\ pc' = pc
  BY DEF FreeZero
<1>2. CASE zero = <<>>
  BY <1>1, <1>2 DEF FreeZero, Prompt
<1>3. CASE zero # <<>>
  <2> DEFINE p == Head(zero)
             E == Held(p) \cup KeyedBy(p)
  <2>1. Free(E, {p}, {})
    BY <1>3 DEF FreeZero, FreeObject
  <2>2. MayFree(E, {p}, {})
    BY <1>1, <1>3, HeadMayGo
  <2> QED
    BY <1>1, <2>1, <2>2, FreePrompt
<1> QED
  BY <1>2, <1>3

\* At the end of gc_scan what is kept is held by what is kept.
LEMMA ScanEndPrompt ==
  ASSUME GInv, Prompt, pc = "scan", cursor = End, EndScan
  PROVE  Prompt'
<1>1. UNCHANGED <<held, rc, gc>> /\ pc' = "restore"
  BY DEF heap, EndScan
<1>2. gc \in Seq(Nodes) /\ ToSet(gc) \subseteq Nodes /\ End \notin ToSet(gc)
  BY NodesAre DEF GInv, TypeOK, Lists, Existing
<1>3. Counting = ToSet(gc)
  BY <1>2, BeforeAt DEF Counting
<1>4. ASSUME NEW n \in ToSet(gc) PROVE \E e \in held : e.to = n /\ e.from \in ToSet(gc) \cup {Stack}
  <2>1. rc[n] # 0 /\ n \in Nodes
    BY <1>2 DEF GInv, ScanInv
  <2>2. Count(Counted, n) # 0 /\ IsFiniteSet(held)
    BY <2>1 DEF GInv, Counts
  <2>3. IsFiniteSet(Counted)
    BY <2>2, FS_Subset DEF Counted
  <2>4. PICK e \in Counted : e.to = n
    BY <2>2, <2>3, CountIs DEF To
  <2> QED
    BY <1>3, <2>4 DEF Counted
<1> QED
  BY <1>1, <1>4 DEF Prompt

\* The garbage goes, and no reference between what is kept.
LEMMA RemovePrompt ==
  ASSUME GInv, Prompt, pc = "remove", pc' = pc, UNCHANGED phase,
         NEW p \in ToSet(tmp), p \in Values, FreeObject(p)
  PROVE  Prompt'
<1> DEFINE E == Held(p) \cup KeyedBy(p)
           Holds(e) == e.from \in ToSet(gc) \cup {Stack}
<1>1. Free(E, {p}, {}) /\ MayFree(E, {p}, {})
  BY GarbageMayGo DEF FreeObject
<1>2. Frees(E, {p}, {})
  BY <1>1, CountsAre DEF GInv, Frees
<1>3. /\ p \notin ToSet(gc) /\ p # Stack /\ ToSet(gc) \subseteq Nodes
      /\ \A e \in held : e.key = Strong
      /\ \A n \in ToSet(gc) : \E e \in held : e.to = n /\ Holds(e)
  BY NodesAre DEF GInv, Lists, Existing, Prompt
<1>4. ASSUME NEW e \in held, Holds(e) PROVE e \notin E
  BY <1>3, <1>4, NodesAre DEF Held, KeyedBy
<1> HIDE DEF E
<1>5. ASSUME NEW c \in ToSet(gc) PROVE c \notin FreedCells(E)
  <2>1. PICK e \in held : e.to = c /\ Holds(e)
    BY <1>3
  <2>2. To(E, c) # To(held, c)
    BY <1>4, <2>1 DEF To
  <2>3. E \in SUBSET held /\ IsFiniteSet(held) /\ c \in Nodes /\ rc[c] = Count(held, c)
    BY <1>2, <1>3 DEF Frees, MayFree
  <2>4. ~(Count(E, c) >= Count(held, c)) /\ Count(E, c) \in Nat /\ Count(held, c) \in Nat
    BY <2>2, <2>3, CountLess
  <2> QED
    BY <2>3, <2>4 DEF FreedCells, Count
<1>6. phase = "remove"
  BY DEF GInv, Phases
<1>7. Dead(E) = {}
  BY <1>2, <1>6, FreeNodes
<1>8. ToSet(gc') = ToSet(gc)
  <2>1. ToSet(gc') = ToSet(gc) \ Moved(E, {p})
    BY <1>2, FreeLists
  <2> QED
    BY <1>3, <1>5, <1>7, <2>1 DEF Moved
<1>9. held' = held \ Lost(E)
  BY <1>1, FreeIs
<1>10. ASSUME NEW e \in held, Holds(e) PROVE e \in held'
  <2>1. e.from \notin FreedCells(E)
    BY <1>5, <1>10, NodesAre DEF FreedCells
  <2> QED
    BY <1>4, <1>9, <1>10, <2>1 DEF Lost
<1>11. \A e \in held' : e.key = Strong
  BY <1>3, <1>9
<1> QED
  BY <1>3, <1>8, <1>10, <1>11 DEF Prompt

LEMMA CollectorPrompt ==
  ASSUME GInv, Prompt, Collector
  PROVE  Prompt'
<1>1. CASE StartGC \/ GCDecref
  BY <1>1 DEF StartGC, GCDecref, heap, Prompt
<1>2. CASE GCScan
  <2>1. CASE cursor = End
    BY <1>2, <2>1, ScanEndPrompt DEF GCScan
  <2>2. CASE cursor # End
    BY <1>2, <2>2 DEF GCScan, Scan, Prompt
  <2> QED
    BY <2>1, <2>2
<1>3. CASE GCRestore
  BY <1>3 DEF GCRestore, Prompt
<1>4. CASE GCRemove
  <2> DEFINE p == Head(tmp)
  <2>1. /\ pc = "remove" /\ tmp # <<>> /\ UNCHANGED <<phase, pc, cursor>>
        /\ p \in Values => FreeObject(p)
        /\ p \notin Values => SetAside(p)
    BY <1>4 DEF GCRemove
  <2>2. p \in ToSet(tmp)
    BY <2>1, FirstOfTmp
  <2> HIDE DEF p
  <2>3. CASE p \in Values
    BY <2>1, <2>2, <2>3, RemovePrompt
  <2>4. CASE p \notin Values
    BY <2>1, <2>4 DEF SetAside, Prompt
  <2> QED
    BY <2>3, <2>4
<1>5. CASE GCSweep
  <2>1. /\ pc = "remove" /\ pc' = "run" /\ UNCHANGED <<held, gc>>
        /\ rc' = [n \in Nodes |-> IF n \in ToSet(zero) THEN 0 ELSE rc[n]]
    BY <1>5 DEF GCSweep
  <2>2. ASSUME NEW n \in ToSet(gc) PROVE rc'[n] # 0
    <3>1. n \in Nodes /\ n \notin ToSet(zero)
      BY DEF GInv, Lists, Existing
    <3>2. To(held, n) # {} /\ IsFiniteSet(held)
      BY <2>1 DEF GInv, Prompt, To
    <3>3. rc[n] = Count(held, n)
      BY <2>1, <3>1, CountsAre
    <3>4. Count(held, n) # 0
      BY <3>2, CountIs
    <3> QED
      BY <2>1, <3>1, <3>3, <3>4
  <2> QED
    BY <2>1, <2>2 DEF Prompt
<1> QED
  BY <1>1, <1>2, <1>3, <1>4, <1>5 DEF Collector

LEMMA NextPrompt ==
  ASSUME GInv, Prompt, Next, \A m \in WeakMaps, k, v \in Values : ~WeakSet(m, k, v)
  PROVE  Prompt'
BY ProgramPrompt, FreeZeroPrompt, CollectorPrompt DEF Next

LEMMA PromptSurvives ==
  ASSUME GInv, Prompt
  PROVE  Survivors
<1>1. ASSUME pc = "run", NEW n \in ToSet(gc) PROVE rc[n] > 0
  <2>1. n \in Nodes /\ rc[n] # 0
    BY <1>1 DEF GInv, Lists, Existing, Prompt
  <2> QED
    BY <2>1 DEF GInv, TypeOK
<1> QED
  BY <1>1 DEF Survivors, Running

LEMMA InitPrompt ==
  ASSUME Init
  PROVE  Prompt
BY DEF Init, Prompt, ToSet

\* Without weak maps, for any heap: outside the freeing loop and the collector
\* every node that is left has a counted reference, so that what is not part of
\* a cycle, or held by one, was freed when its last reference was dropped.
THEOREM SurvivorsCorrect ==
  ASSUME WeakMaps = {}
  PROVE  Spec => []Survivors
<1> DEFINE I == GInv /\ Prompt
<1>1. Init => I
  BY InitGInv, InitPrompt
<1>2. I /\ [Next]_vars => I'
  <2>1. ASSUME I, Next PROVE I'
    BY <2>1, NextPrompt, ProgramGInv, FreeZeroKeeps, CollectorGInv DEF Next
  <2>2. ASSUME I, UNCHANGED vars PROVE I'
    <3>1. UNCHANGED <<held, rc, gc, pc>>
      BY <2>2 DEF vars, heap
    <3> QED
      BY <2>2, <3>1, StutterGInv DEF Prompt
  <2> QED
    BY <2>1, <2>2
<1>3. I => Survivors
  BY PromptSurvives
<1> QED
  BY <1>1, <1>2, <1>3, PTL DEF Spec

\* In the specification that is checked, whose heaps have a weak map or have
\* none.
THEOREM PromptReleaseCorrect == MCSpec => PromptRelease
<1> DEFINE NoMaps == \A m \in WeakMaps : st[m] = "none"
           I == GInv /\ on \in {"objects", "cell", "weak"} /\ (on # "weak" => Prompt /\ NoMaps)
           W == on # "weak" => Survivors
<1>1. MCInit => I
  <2>1. ASSUME MCInit PROVE I
    <3>1. Init /\ on \in {"objects", "cell", "weak"}
      BY <2>1 DEF MCInit, Kinds
    <3>2. NoMaps
      BY <3>1, NodesAre DEF Init, Values
    <3> QED
      BY <3>1, <3>2, InitGInv, InitPrompt
  <2> QED
    BY <2>1
<1>2. I /\ [Within(Next)]_<<vars, on>> => I' /\ on' = on
  <2>1. ASSUME I, Within(Next) PROVE I' /\ on' = on
    <3>1. Next /\ on' = on /\ \A n \in Nodes \ Kinds[on].nodes : st'[n] = "none"
      BY <2>1 DEF Within
    <3>2. GInv'
      BY <2>1, <3>1, ProgramGInv, FreeZeroKeeps, CollectorGInv DEF Next
    <3>3. ASSUME on # "weak" PROVE Prompt' /\ NoMaps'
      <4>1. ASSUME NEW m \in WeakMaps, NEW k \in Values, NEW v \in Values, WeakSet(m, k, v) PROVE FALSE
        <5>1. OnStack({m, k, v}) /\ pc = "run" /\ m \in Nodes
          BY <4>1, NodesAre DEF WeakSet, Running, Values
        <5>2. st[m] = "live"
          BY <2>1, <5>1, RunLive DEF OnStack
        <5> QED
          BY <2>1, <3>3, <5>2
      <4>2. Prompt'
        BY <2>1, <3>1, <3>3, <4>1, NextPrompt
      <4>3. ASSUME NEW m \in WeakMaps PROVE st'[m] = "none"
        <5>1. m \in Nodes
          BY NodesAre DEF Values
        <5>2. m \notin Kinds[on].nodes
          BY <2>1, <3>3, KindsAssumption
        <5> QED
          BY <3>1, <5>1, <5>2
      <4> QED
        BY <4>2, <4>3
    <3> QED
      BY <2>1, <3>1, <3>2, <3>3
  <2>2. ASSUME I, UNCHANGED <<vars, on>> PROVE I' /\ on' = on
    <3>1. UNCHANGED vars /\ UNCHANGED <<st, held, rc, gc, pc>> /\ on' = on
      BY <2>2 DEF vars, heap
    <3> QED
      BY <2>2, <3>1, StutterGInv DEF Prompt
  <2> QED
    BY <2>1, <2>2
<1>3. I => W
  BY PromptSurvives
<1>4. W' /\ on' = on => [on # "weak" => Survivors']_<<vars, on>>
  OBVIOUS
<1> HIDE DEF I, W
<1> QED
  BY <1>1, <1>2, <1>3, <1>4, PTL DEF MCSpec, PromptRelease
=============================================================================
