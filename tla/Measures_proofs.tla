-------------------------- MODULE Measures_proofs --------------------------
(***************************************************************************)
(* What the loops that measure a call compute, for any input.  The         *)
(* interval arithmetic: sorting, merging, intersection, complement,        *)
(* subtraction, total; on it stand the metrics of a recording, which       *)
(* account for all of its time, and the waterfall of a turn, which leaves  *)
(* unattributed only what no stage covers.  A list is related to the unit  *)
(* instants its windows cover, by induction over the loop that builds it.  *)
(* The word error rate: each cell of its table is related to the           *)
(* alignments of two texts, by induction over the rows and along each.     *)
(***************************************************************************)
EXTENDS AudioIntervals, Waterfall, GroundTruth, Induction

-----------------------------------------------------------------------------
(* A recursive function is the function of its recursion.                  *)

LEMMA SameRecursion ==
  ASSUME NEW N \in Nat, NEW S, NEW f \in [0 .. N -> S], NEW at,
         DOMAIN at = 0 .. N, at = [n \in 0 .. N |-> at[n]],
         at[0] = f[0], \A n \in 1 .. N : at[n - 1] = f[n - 1] => at[n] = f[n]
  PROVE  at = f
<1> DEFINE T == {n \in Nat : n <= N => at[n] = f[n]}
<1>1. 0 \in T
  OBVIOUS
<1>2. ASSUME NEW n \in Nat, n \in T PROVE n + 1 \in T
  <2>1. CASE n + 1 <= N
    <3> DEFINE m == n + 1
    <3>1. m \in 1 .. N /\ m - 1 = n /\ n <= N
      BY <2>1
    <3>2. at[m - 1] = f[m - 1]
      BY <1>2, <3>1
    <3> HIDE DEF m
    <3>3. at[m] = f[m]
      BY <3>1, <3>2
    <3> QED  BY <3>3 DEF m
  <2> QED  BY <2>1
<1> HIDE DEF T
<1>3. Nat \subseteq T
  BY <1>1, <1>2, NaturalInduction
<1>4. \A n \in 0 .. N : at[n] = f[n]
  BY <1>3 DEF T
<1> QED  BY <1>4

-----------------------------------------------------------------------------
(* Sorting and merging.                                                    *)

Win == Int \X Int

Precedes(w, v) == w[1] < v[1] \/ (w[1] = v[1] /\ w[2] <= v[2])

LEMMA FirstIs ==
  ASSUME NEW S \in SUBSET Win, IsFiniteSet(S), S # {}
  PROVE  First(S) \in S /\ \A v \in S : Precedes(First(S), v)
<1> DEFINE Has(R) == \E w \in R : \A v \in R : Precedes(w, v)
           T == {n \in Nat : \A R \in SUBSET S : Cardinality(R) = n + 1 => Has(R)}
<1>1. 0 \in T
  <2> SUFFICES ASSUME NEW R \in SUBSET S, Cardinality(R) = 1 PROVE Has(R)
    OBVIOUS
  <2>1. PICK x : R = {x}
    BY FS_Subset, FS_Singleton
  <2>2. x \in Win
    BY <2>1
  <2> QED  BY <2>1, <2>2 DEF Precedes, Win
<1>2. ASSUME NEW n \in Nat, n \in T PROVE n + 1 \in T
  <2> SUFFICES ASSUME NEW R \in SUBSET S, Cardinality(R) = (n + 1) + 1 PROVE Has(R)
    OBVIOUS
  <2>1. IsFiniteSet(R) /\ R # {}
    BY FS_Subset, FS_EmptySet
  <2>2. PICK x \in R : TRUE
    BY <2>1
  <2>3. Cardinality(R \ {x}) = n + 1
    <3> HIDE DEF T
    <3>1. Cardinality(R \ {x}) = Cardinality(R) - 1
      BY <2>1, <2>2, FS_RemoveElement
    <3> QED  BY <3>1
  <2>4. PICK w \in R \ {x} : \A v \in R \ {x} : Precedes(w, v)
    BY <1>2, <2>3
  <2>5. x \in Win /\ w \in Win /\ \A v \in R : v \in Win
    BY <2>4
  <2>6. Precedes(w, x) \/ (Precedes(x, x) /\ \A v \in R \ {x} : Precedes(x, v))
    BY <2>4, <2>5 DEF Precedes, Win
  <2> QED  BY <2>4, <2>6
<1> HIDE DEF T
<1>3. Nat \subseteq T
  BY <1>1, <1>2, NaturalInduction
<1>4. Has(S)
  <2>1. Cardinality(S) \in Nat /\ Cardinality(S) # 0
    BY FS_CardinalityType, FS_EmptySet
  <2>2. Cardinality(S) - 1 \in T /\ Cardinality(S) = (Cardinality(S) - 1) + 1
    BY <1>3, <2>1
  <2> HIDE DEF Has
  <2> QED  BY <2>2 DEF T
<1> QED  BY <1>4 DEF First, Precedes

\* What is left of S after each step of its sorting.
Lefts(S, f) ==
  /\ f \in [0 .. Cardinality(S) -> SUBSET S] /\ f[0] = S
  /\ \A n \in 1 .. Cardinality(S) : f[n] = f[n - 1] \ {First(f[n - 1])}

LEMMA LeftIs ==
  ASSUME NEW S, IsFiniteSet(S)
  PROVE  \E f : Lefts(S, f) /\ Sorted(S) = [n \in 1 .. Cardinality(S) |-> First(f[n - 1])]
<1> DEFINE N == Cardinality(S)
           Is(f) == f = [n \in 0 .. N |-> IF n = 0 THEN S ELSE f[n - 1] \ {First(f[n - 1])}]
           at == CHOOSE f : Is(f)
           step == [p \in (1 .. N) \X (SUBSET S) |-> p[2] \ {First(p[2])}]
<1>1. N \in Nat /\ S \in SUBSET S /\ step \in [(1 .. N) \X (SUBSET S) -> SUBSET S]
  BY FS_CardinalityType
<1>2. PICK f : IsRecursion(f, N, SUBSET S, S, step)
  <2> HIDE DEF step, N
  <2> QED  BY <1>1, RecursionExists
<1>3. f \in [0 .. N -> SUBSET S] /\ f[0] = S
  BY <1>2 DEF IsRecursion
<1>4. \A n \in 1 .. N : f[n] = f[n - 1] \ {First(f[n - 1])}
  <2> SUFFICES ASSUME NEW n \in 1 .. N PROVE f[n] = f[n - 1] \ {First(f[n - 1])}
    OBVIOUS
  <2>1. <<n, f[n - 1]>> \in (1 .. N) \X (SUBSET S)
    <3> HIDE DEF N, step
    <3>1. n - 1 \in 0 .. N
      BY <1>1
    <3>2. f[n - 1] \in SUBSET S
      BY <1>3, <3>1
    <3> QED  BY <3>2
  <2>2. f[n] = step[<<n, f[n - 1]>>]
    BY <1>2 DEF IsRecursion
  <2> QED  BY <2>1, <2>2
<1>5. Is(f)
  <2> HIDE DEF N
  <2>1. ASSUME NEW n \in 0 .. N PROVE f[n] = IF n = 0 THEN S ELSE f[n - 1] \ {First(f[n - 1])}
    <3>1. n # 0 => n \in 1 .. N
      BY <1>1
    <3>2. n # 0 => f[n] = f[n - 1] \ {First(f[n - 1])}
      BY <1>4, <3>1
    <3>3. n = 0 => f[n] = S
      BY <1>3
    <3> QED  BY <3>2, <3>3, Zenon
  <2> QED  BY <1>3, <2>1
<1>6. Is(at)
  <2> HIDE DEF Is
  <2> QED  BY <1>5
<1>7. Sorted(S) = [n \in 1 .. Cardinality(S) |-> First(at[n - 1])]
  BY DEF Sorted
<1> HIDE DEF at, N, step
<1>8. \A n \in 0 .. N : at[n] = IF n = 0 THEN S ELSE at[n - 1] \ {First(at[n - 1])}
  BY <1>6
<1>9. DOMAIN at = 0 .. N /\ at = [n \in 0 .. N |-> at[n]]
  <2>1. PICK e : at = [n \in 0 .. N |-> e[n]]
    BY <1>6
  <2> QED  BY <2>1
<1>10. at = f
  <2>1. at[0] = f[0]
    <3>1. 0 \in 0 .. N
      BY <1>1
    <3>2. at[0] = S
      BY <1>8, <3>1
    <3> QED  BY <1>3, <3>2
  <2>2. ASSUME NEW n \in 1 .. N, at[n - 1] = f[n - 1] PROVE at[n] = f[n]
    <3>1. n \in 0 .. N /\ n # 0
      BY <1>1
    <3> QED  BY <1>4, <1>8, <2>2, <3>1
  <2> QED  BY <1>1, <1>3, <1>9, <2>1, <2>2, SameRecursion
<1>11. Lefts(S, f)
  BY <1>3, <1>4 DEF Lefts, N
<1>12. Sorted(S) = [n \in 1 .. Cardinality(S) |-> First(f[n - 1])]
  BY <1>7, <1>10
<1> QED  BY <1>11, <1>12

\* The windows of S in order.
InOrder(S, o) ==
  /\ o \in Seq(S) /\ \A w \in S : \E n \in 1 .. Len(o) : o[n] = w
  /\ \A i, j \in 1 .. Len(o) : i <= j => Precedes(o[i], o[j])

LEMMA SortedIs ==
  ASSUME NEW S \in SUBSET Win, IsFiniteSet(S)
  PROVE  InOrder(S, Sorted(S))
<1> DEFINE N == Cardinality(S)
           o == Sorted(S)
<1>1. PICK f : Lefts(S, f) /\ o = [n \in 1 .. N |-> First(f[n - 1])]
  BY LeftIs
<1>2. /\ N \in Nat /\ f \in [0 .. N -> SUBSET S] /\ f[0] = S
      /\ \A n \in 1 .. N : f[n] = f[n - 1] \ {First(f[n - 1])}
  BY <1>1, FS_CardinalityType DEF Lefts
<1>3. \A n \in 0 .. N : IsFiniteSet(f[n])
  BY <1>2, FS_Subset
<1>4. \A n \in 1 .. N : o[n] = First(f[n - 1])
  BY <1>1
<1>5. DOMAIN o = 1 .. N
  BY <1>1
<1> HIDE DEF o
<1> DEFINE T == {n \in Nat : n <= N => Cardinality(f[n]) = N - n}
<1>6. 0 \in T
  BY <1>2
<1>7. ASSUME NEW n \in Nat, n \in T PROVE n + 1 \in T
  <2>1. CASE n + 1 <= N
    <3>1. n + 1 \in 1 .. N /\ (n + 1) - 1 = n /\ n \in 0 .. N
      BY <1>2, <2>1
    <3>2. Cardinality(f[n]) = N - n /\ IsFiniteSet(f[n])
      BY <1>3, <1>7, <3>1
    <3>3. f[n + 1] = f[n] \ {First(f[n])}
      BY <1>2, <3>1
    <3>4. f[n] # {} /\ f[n] \in SUBSET Win
      BY <1>2, <2>1, <3>1, <3>2, FS_EmptySet
    <3>5. First(f[n]) \in f[n]
      BY <3>2, <3>4, FirstIs
    <3>6. Cardinality(f[n + 1]) = (N - n) - 1
      <4> DEFINE R == f[n]
                 w == First(R)
      <4> HIDE DEF R, w
      <4>1. IsFiniteSet(R) /\ w \in R /\ Cardinality(R) = N - n /\ f[n + 1] = R \ {w}
        BY <3>2, <3>3, <3>5 DEF R, w
      <4>2. Cardinality(R \ {w}) = Cardinality(R) - 1
        BY <4>1, FS_RemoveElement
      <4> QED  BY <4>1, <4>2
    <3> QED  BY <1>2, <3>6
  <2> QED  BY <2>1
<1>8. \A n \in 0 .. N : Cardinality(f[n]) = N - n
  <2> HIDE DEF T
  <2>1. Nat \subseteq T
    BY <1>6, <1>7, NaturalInduction
  <2> QED  BY <1>2, <2>1 DEF T
<1>9. ASSUME NEW n \in 1 .. N
      PROVE  o[n] \in f[n - 1] /\ \A v \in f[n - 1] : Precedes(o[n], v)
  <2>1. n - 1 \in 0 .. N /\ N - (n - 1) # 0
    BY <1>2
  <2>2. f[n - 1] # {} /\ f[n - 1] \in SUBSET Win /\ IsFiniteSet(f[n - 1])
    BY <1>2, <1>3, <1>8, <2>1, FS_EmptySet
  <2> QED  BY <1>4, <2>2, FirstIs
<1>10. \A i, j \in 0 .. N : i <= j => f[j] \subseteq f[i]
  <2> SUFFICES ASSUME NEW i \in 0 .. N PROVE \A j \in 0 .. N : i <= j => f[j] \subseteq f[i]
    OBVIOUS
  <2> DEFINE U == {n \in Nat : i <= n /\ n <= N => f[n] \subseteq f[i]}
  <2>1. 0 \in U
    BY <1>2
  <2>2. ASSUME NEW n \in Nat, n \in U PROVE n + 1 \in U
    <3>1. CASE i <= n + 1 /\ n + 1 <= N
      <4>1. n + 1 \in 1 .. N /\ (n + 1) - 1 = n /\ n <= N
        BY <1>2, <3>1
      <4>2. f[n + 1] \subseteq f[n]
        BY <1>2, <4>1
      <4>3. i = n + 1 \/ i <= n
        BY <3>1
      <4> QED  BY <2>2, <4>1, <4>2, <4>3
    <3> QED  BY <3>1
  <2> HIDE DEF U
  <2>3. Nat \subseteq U
    BY <2>1, <2>2, NaturalInduction
  <2> QED  BY <1>2, <2>3 DEF U
<1>11. ASSUME NEW i \in 1 .. N, NEW j \in 1 .. N, i <= j PROVE Precedes(o[i], o[j])
  <2>1. i - 1 \in 0 .. N /\ j - 1 \in 0 .. N /\ i - 1 <= j - 1
    BY <1>2, <1>11
  <2> QED  BY <1>9, <1>10, <2>1
<1>12. ASSUME NEW w \in S PROVE \E n \in 1 .. N : o[n] = w
  <2> DEFINE K == {n \in 0 .. N : w \notin f[n]}
  <2>1. K \in SUBSET Nat /\ N \in K
    <3>1. f[N] = {}
      BY <1>2, <1>3, <1>8, FS_EmptySet
    <3> QED  BY <1>2, <3>1
  <2>2. PICK m \in K : \A n \in K : m <= n
    <3> HIDE DEF K
    <3> QED  BY <2>1, HasLeast
  <2>3. m \in 1 .. N /\ m - 1 \in 0 .. N /\ m - 1 \notin K
    BY <1>2, <2>2
  <2>4. w \in f[m - 1] /\ w \notin f[m - 1] \ {First(f[m - 1])}
    BY <1>2, <2>3
  <2> QED  BY <1>4, <2>3, <2>4
<1>13. o \in Seq(S) /\ Len(o) = N
  <2>1. ASSUME NEW n \in 1 .. N PROVE o[n] \in S
    <3>1. n - 1 \in 0 .. N
      BY <1>2
    <3> QED  BY <1>2, <1>9, <3>1
  <2>2. o = [n \in 1 .. N |-> o[n]]
    BY <1>1, <1>4 DEF o
  <2> QED  BY <1>2, <1>5, <2>1, <2>2
<1> QED  BY <1>11, <1>12, <1>13 DEF InOrder, o


\* A window that does not end before it starts.
Stretch == {w \in Win : w[1] <= w[2]}

Apart(list) == \A i, j \in 1 .. Len(list) : i < j => list[i][2] < list[j][1]

Covers(w, x) == w[1] <= x /\ x < w[2]

\* list is the union of the windows of S, in order.
UnionIs(S, list) ==
  /\ list \in Seq(Stretch) /\ Apart(list)
  /\ \A x \in Int : (\E i \in 1 .. Len(list) : Covers(list[i], x)) <=> \E w \in S : Covers(w, x)
  /\ \A i \in 1 .. Len(list) : \E w \in S : w[1] = list[i][1]
  /\ \A w \in S : \E i \in 1 .. Len(list) : list[i][1] <= w[1] /\ w[2] <= list[i][2]

LEMMA StretchIs ==
  /\ \A w \in Stretch : w[1] \in Int /\ w[2] \in Int /\ w[1] <= w[2]
  /\ \A a, b \in Int : a <= b => <<a, b>> \in Stretch
  /\ \A w \in Stretch : w \in Win
BY DEF Stretch, Win

LEMMA ExtendedType ==
  ASSUME NEW list \in Seq(Stretch), NEW w \in Stretch
  PROVE  Extended(list, w) \in Seq(Stretch)
<1> DEFINE n == Len(list)
<1>1. CASE n = 0 \/ w[1] > list[n][2]
  <2>1. Extended(list, w) = Append(list, w)
    BY <1>1 DEF Extended
  <2> QED  BY <2>1
<1>2. CASE ~(n = 0 \/ w[1] > list[n][2])
  <2>1. n \in 1 .. Len(list) /\ list[n] \in Stretch
    BY <1>2
  <2> DEFINE v == <<list[n][1], Greatest(list[n][2], w[2])>>
  <2>2. v \in Stretch
    BY <2>1, StretchIs DEF Greatest
  <2>3. Extended(list, w) = [list EXCEPT ![n] = v]
    BY <1>2 DEF Extended
  <2> HIDE DEF v
  <2> QED  BY <2>1, <2>2, <2>3
<1> QED  BY <1>1, <1>2

LEMMA ExtendedIs ==
  ASSUME NEW S \in SUBSET Stretch, NEW list, UnionIs(S, list),
         NEW w \in Stretch, \A v \in S : v[1] <= w[1]
  PROVE  UnionIs(S \cup {w}, Extended(list, w))
<1> DEFINE n == Len(list)
           e == Extended(list, w)
<1>1. /\ list \in Seq(Stretch) /\ n \in Nat
      /\ \A i, j \in 1 .. n : i < j => list[i][2] < list[j][1]
      /\ \A x \in Int : (\E i \in 1 .. n : Covers(list[i], x)) <=> \E v \in S : Covers(v, x)
      /\ \A i \in 1 .. n : \E v \in S : v[1] = list[i][1]
      /\ \A v \in S : \E i \in 1 .. n : list[i][1] <= v[1] /\ v[2] <= list[i][2]
  <2>1. list \in Seq(Stretch) /\ Apart(list)
    BY DEF UnionIs
  <2>2. \A i, j \in 1 .. n : i < j => list[i][2] < list[j][1]
    BY <2>1 DEF Apart
  <2>3. \A x \in Int : (\E i \in 1 .. n : Covers(list[i], x)) <=> \E v \in S : Covers(v, x)
    BY ONLY UnionIs(S, list), Zenon DEF UnionIs
  <2>4. /\ \A i \in 1 .. n : \E v \in S : v[1] = list[i][1]
        /\ \A v \in S : \E i \in 1 .. n : list[i][1] <= v[1] /\ v[2] <= list[i][2]
    BY ONLY UnionIs(S, list), Zenon DEF UnionIs
  <2>5. n \in Nat
    BY <2>1
  <2> QED  BY <2>1, <2>2, <2>3, <2>4, <2>5
<1>2. /\ \A i \in 1 .. n : list[i][1] \in Int /\ list[i][2] \in Int /\ list[i][1] <= list[i][2]
      /\ w[1] \in Int /\ w[2] \in Int /\ w[1] <= w[2]
  <2>1. \A i \in 1 .. n : list[i] \in Stretch
    BY <1>1
  <2> QED  BY <2>1, StretchIs
<1>3. e \in Seq(Stretch)
  BY <1>1, ExtendedType
<1>4. \A i \in 1 .. n : i < n => list[i][2] < list[n][2]
  <2> SUFFICES ASSUME NEW i \in 1 .. n, i < n PROVE list[i][2] < list[n][2]
    OBVIOUS
  <2>1. n \in 1 .. n
    BY <1>1
  <2>2. list[i][2] < list[n][1]
    BY <1>1, <2>1
  <2> QED  BY <1>2, <2>1, <2>2
<1>5. CASE n = 0 \/ w[1] > list[n][2]
  <2>1. e = Append(list, w)
    BY <1>5 DEF Extended
  <2>2. Len(e) = n + 1 /\ e[n + 1] = w /\ \A i \in 1 .. n : e[i] = list[i]
    BY <1>1, <2>1
  <2> HIDE DEF e
  <2>3. \A i \in 1 .. n : list[i][2] < w[1]
    BY <1>2, <1>4, <1>5
  <2>4. \A i \in 1 .. n + 1 : i \in 1 .. n \/ i = n + 1
    BY <1>1
  <2>5. \A i, j \in 1 .. n + 1 : i < j => e[i][2] < e[j][1]
    <3> SUFFICES ASSUME NEW i \in 1 .. n + 1, NEW j \in 1 .. n + 1, i < j
                 PROVE  e[i][2] < e[j][1]
      OBVIOUS
    <3>1. i \in 1 .. n
      BY <1>1
    <3>2. CASE j = n + 1
      BY <2>2, <2>3, <3>1, <3>2
    <3>3. CASE j \in 1 .. n
      BY <1>1, <2>2, <3>1, <3>3
    <3> QED  BY <2>4, <3>2, <3>3
  <2>6. \A x \in Int : (\E i \in 1 .. n + 1 : Covers(e[i], x)) <=> \E v \in S \cup {w} : Covers(v, x)
    <3> SUFFICES ASSUME NEW x \in Int
                 PROVE  (\E i \in 1 .. n + 1 : Covers(e[i], x)) <=> \E v \in S \cup {w} : Covers(v, x)
      OBVIOUS
    <3>1. (\E i \in 1 .. n + 1 : Covers(e[i], x)) <=> (\E i \in 1 .. n : Covers(e[i], x)) \/ Covers(e[n + 1], x)
      <4>1. 1 .. n + 1 = (1 .. n) \cup {n + 1}
        BY <1>1
      <4> QED  BY <4>1
    <3>2. (\E i \in 1 .. n : Covers(e[i], x)) <=> \E i \in 1 .. n : Covers(list[i], x)
      BY <2>2
    <3> QED  BY <1>1, <2>2, <3>1, <3>2
  <2>7. \A i \in 1 .. n + 1 : \E v \in S \cup {w} : v[1] = e[i][1]
    BY <1>1, <2>2, <2>4
  <2>8. \A v \in S \cup {w} : \E i \in 1 .. n + 1 : e[i][1] <= v[1] /\ v[2] <= e[i][2]
    <3> SUFFICES ASSUME NEW v \in S \cup {w}
                 PROVE  \E i \in 1 .. n + 1 : e[i][1] <= v[1] /\ v[2] <= e[i][2]
      OBVIOUS
    <3>1. CASE v = w
      <4>1. n + 1 \in 1 .. n + 1
        BY <1>1
      <4> QED  BY <1>2, <2>2, <3>1, <4>1
    <3>2. CASE v \in S
      <4>1. PICK i \in 1 .. n : list[i][1] <= v[1] /\ v[2] <= list[i][2]
        BY <1>1, <3>2
      <4>2. i \in 1 .. n + 1 /\ e[i] = list[i]
        BY <1>1, <2>2, <4>1
      <4> QED  BY <4>1, <4>2
    <3> QED  BY <3>1, <3>2
  <2>9. Apart(e)
    BY <2>2, <2>5 DEF Apart
  <2>10. UnionIs(S \cup {w}, e)
    <3> HIDE DEF n
    <3>1. Len(e) = n + 1
      BY <2>2
    <3> QED  BY ONLY <1>3, <3>1, <2>6, <2>7, <2>8, <2>9 DEF UnionIs
  <2> QED  BY <2>10 DEF e
<1>6. CASE ~(n = 0 \/ w[1] > list[n][2])
  <2> DEFINE last == <<list[n][1], Greatest(list[n][2], w[2])>>
  <2>1. n \in 1 .. n /\ list[n][1] <= w[1] /\ w[1] <= list[n][2]
    <3>0. n \in 1 .. n
      BY <1>1, <1>6
    <3>1. n \in 1 .. n /\ w[1] <= list[n][2]
      BY <1>2, <1>6, <3>0
    <3>2. PICK v \in S : v[1] = list[n][1]
      BY <1>1, <3>1
    <3> QED  BY <3>1, <3>2
  <2>2. e = [list EXCEPT ![n] = last]
    BY <1>6 DEF Extended
  <2>3. Len(e) = n /\ e[n] = last /\ \A i \in 1 .. n : i # n => e[i] = list[i]
    BY <1>1, <2>1, <2>2
  <2>4. last[1] = list[n][1] /\ last[2] = Greatest(list[n][2], w[2])
    OBVIOUS
  <2>5. /\ last[2] \in Int /\ list[n][2] <= last[2] /\ w[2] <= last[2]
        /\ last[2] = list[n][2] \/ last[2] = w[2]
    BY <1>2, <2>1, <2>4 DEF Greatest
  <2> HIDE DEF e, last
  <2>6. \A i, j \in 1 .. n : i < j => e[i][2] < e[j][1]
    <3> SUFFICES ASSUME NEW i \in 1 .. n, NEW j \in 1 .. n, i < j
                 PROVE  e[i][2] < e[j][1]
      OBVIOUS
    <3>1. i # n /\ e[i] = list[i] /\ list[i][2] < list[j][1]
      BY <1>1, <2>3
    <3>2. e[j][1] = list[j][1]
      BY <2>3, <2>4
    <3> QED  BY <3>1, <3>2
  <2>7. ASSUME NEW x \in Int
        PROVE  (\E i \in 1 .. n : Covers(e[i], x)) <=> \E v \in S \cup {w} : Covers(v, x)
    <3>1. Covers(e[n], x) <=> Covers(list[n], x) \/ Covers(w, x)
      BY <1>2, <2>1, <2>3, <2>4, <2>5 DEF Covers
    <3>2. \A i \in 1 .. n : i # n => (Covers(e[i], x) <=> Covers(list[i], x))
      BY <2>3
    <3>3. (\E i \in 1 .. n : Covers(e[i], x)) <=> (\E i \in 1 .. n : Covers(list[i], x)) \/ Covers(w, x)
      BY <2>1, <3>1, <3>2
    <3> QED  BY <1>1, <3>3
  <2>8. \A i \in 1 .. n : \E v \in S \cup {w} : v[1] = e[i][1]
    <3>1. \A i \in 1 .. n : e[i][1] = list[i][1]
      BY <2>3, <2>4
    <3> QED  BY <1>1, <3>1
  <2>9. ASSUME NEW v \in S \cup {w}
        PROVE  \E i \in 1 .. n : e[i][1] <= v[1] /\ v[2] <= e[i][2]
    <3>1. CASE v = w
      BY <2>1, <2>3, <2>4, <2>5, <3>1
    <3>2. CASE v \in S
      <4>1. PICK i \in 1 .. n : list[i][1] <= v[1] /\ v[2] <= list[i][2]
        BY <1>1, <3>2
      <4>2. v[2] \in Int
        BY <3>2, StretchIs
      <4>3. e[i][1] = list[i][1] /\ (e[i][2] = list[i][2] \/ (i = n /\ e[i][2] = last[2]))
        BY <2>3, <2>4, <4>1
      <4>4. v[2] <= e[i][2]
        BY <1>2, <2>5, <4>1, <4>2, <4>3
      <4> QED  BY <4>1, <4>3, <4>4
    <3> QED  BY <3>1, <3>2
  <2>10. Apart(e)
    BY <2>3, <2>6 DEF Apart
  <2>11. UnionIs(S \cup {w}, e)
    <3> HIDE DEF n
    <3>1. Len(e) = n
      BY <2>3
    <3> QED  BY ONLY <1>3, <3>1, <2>7, <2>8, <2>9, <2>10 DEF UnionIs
  <2> QED  BY <2>11 DEF e
<1> QED  BY <1>5, <1>6

\* The windows merged after each step.
Merges(S, f) ==
  /\ f \in [0 .. Len(Sorted(S)) -> Seq(Stretch)] /\ f[0] = <<>>
  /\ \A n \in 1 .. Len(Sorted(S)) : f[n] = Extended(f[n - 1], Sorted(S)[n])

LEMMA MergesAre ==
  ASSUME NEW S, Sorted(S) \in Seq(Stretch)
  PROVE  \E f : Merges(S, f) /\ Merge(S) = f[Len(Sorted(S))]
<1> DEFINE N == Len(Sorted(S))
           Is(f) == f = [n \in 0 .. N |-> IF n = 0 THEN <<>> ELSE Extended(f[n - 1], Sorted(S)[n])]
           at == CHOOSE f : Is(f)
           step == [p \in (1 .. N) \X (Seq(Stretch)) |-> Extended(p[2], Sorted(S)[p[1]])]
<1>1. N \in Nat /\ <<>> \in Seq(Stretch) /\ step \in [(1 .. N) \X (Seq(Stretch)) -> Seq(Stretch)]
  <2>1. N \in Nat /\ <<>> \in Seq(Stretch)
    OBVIOUS
  <2>2. \A p \in (1 .. N) \X Seq(Stretch) : Extended(p[2], Sorted(S)[p[1]]) \in Seq(Stretch)
    <3> SUFFICES ASSUME NEW p \in (1 .. N) \X Seq(Stretch)
                 PROVE  Extended(p[2], Sorted(S)[p[1]]) \in Seq(Stretch)
      OBVIOUS
    <3>1. p[2] \in Seq(Stretch) /\ Sorted(S)[p[1]] \in Stretch
      OBVIOUS
    <3> QED  BY <3>1, ExtendedType
  <2> QED  BY <2>1, <2>2
<1>2. PICK f : IsRecursion(f, N, Seq(Stretch), <<>>, step)
  <2> HIDE DEF step, N
  <2> QED  BY <1>1, RecursionExists
<1>3. f \in [0 .. N -> Seq(Stretch)] /\ f[0] = <<>>
  BY <1>2 DEF IsRecursion
<1>4. \A n \in 1 .. N : f[n] = Extended(f[n - 1], Sorted(S)[n])
  <2> SUFFICES ASSUME NEW n \in 1 .. N PROVE f[n] = Extended(f[n - 1], Sorted(S)[n])
    OBVIOUS
  <2>1. <<n, f[n - 1]>> \in (1 .. N) \X (Seq(Stretch))
    <3> HIDE DEF N, step
    <3>1. n - 1 \in 0 .. N
      BY <1>1
    <3>2. f[n - 1] \in Seq(Stretch)
      BY <1>3, <3>1
    <3> QED  BY <3>2
  <2>2. f[n] = step[<<n, f[n - 1]>>]
    BY <1>2 DEF IsRecursion
  <2> QED  BY <2>1, <2>2
<1>5. Is(f)
  <2> HIDE DEF N
  <2>1. ASSUME NEW n \in 0 .. N PROVE f[n] = IF n = 0 THEN <<>> ELSE Extended(f[n - 1], Sorted(S)[n])
    <3>1. n # 0 => n \in 1 .. N
      BY <1>1
    <3>2. n # 0 => f[n] = Extended(f[n - 1], Sorted(S)[n])
      BY <1>4, <3>1
    <3>3. n = 0 => f[n] = <<>>
      BY <1>3
    <3> QED  BY <3>2, <3>3, Zenon
  <2> QED  BY <1>3, <2>1
<1>6. Is(at)
  <2> HIDE DEF Is
  <2> QED  BY <1>5
<1>7. Merge(S) = at[Len(Sorted(S))]
  BY DEF Merge
<1> HIDE DEF at, N, step
<1>8. \A n \in 0 .. N : at[n] = IF n = 0 THEN <<>> ELSE Extended(at[n - 1], Sorted(S)[n])
  BY <1>6
<1>9. DOMAIN at = 0 .. N /\ at = [n \in 0 .. N |-> at[n]]
  <2>1. PICK e : at = [n \in 0 .. N |-> e[n]]
    BY <1>6
  <2> QED  BY <2>1
<1>10. at = f
  <2>1. at[0] = f[0]
    <3>1. 0 \in 0 .. N
      BY <1>1
    <3>2. at[0] = <<>>
      BY <1>8, <3>1
    <3> QED  BY <1>3, <3>2
  <2>2. ASSUME NEW n \in 1 .. N, at[n - 1] = f[n - 1] PROVE at[n] = f[n]
    <3>1. n \in 0 .. N /\ n # 0
      BY <1>1
    <3> QED  BY <1>4, <1>8, <2>2, <3>1
  <2> QED  BY <1>1, <1>3, <1>9, <2>1, <2>2, SameRecursion
<1>11. Merges(S, f)
  BY <1>3, <1>4 DEF Merges, N
<1>12. Merge(S) = f[Len(Sorted(S))]
  BY <1>7, <1>10
<1> QED  BY <1>11, <1>12

\* Merging a set of windows gives its union in windows that do not touch.
LEMMA MergeIs ==
  ASSUME NEW S \in SUBSET Stretch, IsFiniteSet(S)
  PROVE  UnionIs(S, Merge(S))
<1> DEFINE o == Sorted(S)
           N == Len(o)
<1>1. InOrder(S, o)
  <2>1. S \in SUBSET Win
    BY StretchIs
  <2> QED  BY <2>1, SortedIs
<1>2. /\ o \in Seq(S) /\ \A w \in S : \E n \in 1 .. N : o[n] = w
      /\ \A i, j \in 1 .. N : i <= j => Precedes(o[i], o[j])
  BY <1>1 DEF InOrder
<1>3. o \in Seq(Stretch) /\ N \in Nat /\ \A n \in 1 .. N : o[n] \in S /\ o[n] \in Stretch
  <2>1. N \in Nat /\ \A n \in 1 .. N : o[n] \in S
    BY <1>2
  <2>2. DOMAIN o = 1 .. N /\ o = [n \in 1 .. N |-> o[n]]
    BY <1>2
  <2> HIDE DEF o, N
  <2> QED  BY <2>1, <2>2
<1>4. PICK f : Merges(S, f) /\ Merge(S) = f[N]
  BY <1>3, MergesAre
<1>5. f[0] = <<>> /\ \A n \in 1 .. N : f[n] = Extended(f[n - 1], o[n])
  BY <1>4 DEF Merges
<1> HIDE DEF o
<1> DEFINE Done(n) == {o[i] : i \in 1 .. n}
           T == {n \in Nat : n <= N => UnionIs(Done(n), f[n])}
<1>6. 0 \in T
  <2>1. UnionIs({}, <<>>)
    BY DEF UnionIs, Apart
  <2>2. Done(0) = {}
    OBVIOUS
  <2> QED  BY <1>5, <2>1, <2>2
<1>7. ASSUME NEW n \in Nat, n \in T PROVE n + 1 \in T
  <2> SUFFICES ASSUME n + 1 <= N PROVE UnionIs(Done(n + 1), f[n + 1])
    OBVIOUS
  <2>1. n + 1 \in 1 .. N /\ (n + 1) - 1 = n /\ n <= N
    BY <1>3
  <2>2. UnionIs(Done(n), f[n])
    BY <1>7, <2>1
  <2>3. Done(n + 1) = Done(n) \cup {o[n + 1]}
    <3>1. 1 .. n + 1 = (1 .. n) \cup {n + 1}
      OBVIOUS
    <3> QED  BY <3>1
  <2>4. Done(n) \in SUBSET Stretch /\ o[n + 1] \in Stretch
    BY <1>3, <2>1
  <2>5. \A v \in Done(n) : v[1] <= o[n + 1][1]
    <3> SUFFICES ASSUME NEW i \in 1 .. n PROVE o[i][1] <= o[n + 1][1]
      OBVIOUS
    <3>1. i \in 1 .. N /\ i <= n + 1
      BY <1>3, <2>1
    <3>2. Precedes(o[i], o[n + 1])
      BY <1>2, <2>1, <3>1
    <3>3. o[i] \in Stretch /\ o[n + 1] \in Stretch
      BY <1>3, <2>1, <3>1
    <3>4. o[i][1] \in Int /\ o[n + 1][1] \in Int
      BY <3>3, StretchIs
    <3> QED  BY <3>2, <3>4 DEF Precedes
  <2>6. f[n + 1] = Extended(f[n], o[n + 1])
    BY <1>5, <2>1
  <2> HIDE DEF Done, T
  <2> QED  BY <2>2, <2>3, <2>4, <2>5, <2>6, ExtendedIs
<1>8. N \in T
  <2> HIDE DEF T
  <2>1. Nat \subseteq T
    BY <1>6, <1>7, NaturalInduction
  <2> QED  BY <1>3, <2>1
<1>9. Done(N) = S
  BY <1>2, <1>3
<1> HIDE DEF Done
<1> QED  BY <1>3, <1>4, <1>8, <1>9

-----------------------------------------------------------------------------
(* What a list adds up to.                                                 *)

\* Windows one behind the other; they may touch.
InTurn(list) == \A i, j \in 1 .. Len(list) : i < j => list[i][2] <= list[j][1]

\* The sum after each number.
Sums(numbers, f) ==
  /\ f \in [0 .. Len(numbers) -> Int] /\ f[0] = 0
  /\ \A n \in 1 .. Len(numbers) : f[n] = f[n - 1] + numbers[n]

LEMMA AddedIs ==
  ASSUME NEW numbers \in Seq(Int)
  PROVE  \E f : Sums(numbers, f) /\ Added(numbers) = f[Len(numbers)]
<1> DEFINE N == Len(numbers)
           Is(f) == f = [n \in 0 .. N |-> IF n = 0 THEN 0 ELSE f[n - 1] + numbers[n]]
           at == CHOOSE f : Is(f)
           step == [p \in (1 .. N) \X (Int) |-> p[2] + numbers[p[1]]]
<1>1. N \in Nat /\ 0 \in Int /\ step \in [(1 .. N) \X (Int) -> Int]
  <2>1. N \in Nat /\ 0 \in Int
    OBVIOUS
  <2>2. \A p \in (1 .. N) \X Int : p[2] + numbers[p[1]] \in Int
    <3> SUFFICES ASSUME NEW p \in (1 .. N) \X Int PROVE p[2] + numbers[p[1]] \in Int
      OBVIOUS
    <3>1. p[2] \in Int /\ numbers[p[1]] \in Int
      OBVIOUS
    <3> QED  BY <3>1
  <2> QED  BY <2>1, <2>2
<1>2. PICK f : IsRecursion(f, N, Int, 0, step)
  <2> HIDE DEF step, N
  <2> QED  BY <1>1, RecursionExists
<1>3. f \in [0 .. N -> Int] /\ f[0] = 0
  BY <1>2 DEF IsRecursion
<1>4. \A n \in 1 .. N : f[n] = f[n - 1] + numbers[n]
  <2> SUFFICES ASSUME NEW n \in 1 .. N PROVE f[n] = f[n - 1] + numbers[n]
    OBVIOUS
  <2>1. <<n, f[n - 1]>> \in (1 .. N) \X (Int)
    <3> HIDE DEF N, step
    <3>1. n - 1 \in 0 .. N
      BY <1>1
    <3>2. f[n - 1] \in Int
      BY <1>3, <3>1
    <3> QED  BY <3>2
  <2>2. f[n] = step[<<n, f[n - 1]>>]
    BY <1>2 DEF IsRecursion
  <2> QED  BY <2>1, <2>2
<1>5. Is(f)
  <2> HIDE DEF N
  <2>1. ASSUME NEW n \in 0 .. N PROVE f[n] = IF n = 0 THEN 0 ELSE f[n - 1] + numbers[n]
    <3>1. n # 0 => n \in 1 .. N
      BY <1>1
    <3>2. n # 0 => f[n] = f[n - 1] + numbers[n]
      BY <1>4, <3>1
    <3>3. n = 0 => f[n] = 0
      BY <1>3
    <3> QED  BY <3>2, <3>3, Zenon
  <2> QED  BY <1>3, <2>1
<1>6. Is(at)
  <2> HIDE DEF Is
  <2> QED  BY <1>5
<1>7. Added(numbers) = at[Len(numbers)]
  BY DEF Added
<1> HIDE DEF at, N, step
<1>8. \A n \in 0 .. N : at[n] = IF n = 0 THEN 0 ELSE at[n - 1] + numbers[n]
  BY <1>6
<1>9. DOMAIN at = 0 .. N /\ at = [n \in 0 .. N |-> at[n]]
  <2>1. PICK e : at = [n \in 0 .. N |-> e[n]]
    BY <1>6
  <2> QED  BY <2>1
<1>10. at = f
  <2>1. at[0] = f[0]
    <3>1. 0 \in 0 .. N
      BY <1>1
    <3>2. at[0] = 0
      BY <1>8, <3>1
    <3> QED  BY <1>3, <3>2
  <2>2. ASSUME NEW n \in 1 .. N, at[n - 1] = f[n - 1] PROVE at[n] = f[n]
    <3>1. n \in 0 .. N /\ n # 0
      BY <1>1
    <3> QED  BY <1>4, <1>8, <2>2, <3>1
  <2> QED  BY <1>1, <1>3, <1>9, <2>1, <2>2, SameRecursion
<1>11. Sums(numbers, f)
  BY <1>3, <1>4 DEF Sums, N
<1>12. Added(numbers) = f[Len(numbers)]
  BY <1>7, <1>10
<1> QED  BY <1>11, <1>12

LEMMA CoveredFinite ==
  ASSUME NEW S \in SUBSET Win, IsFiniteSet(S)
  PROVE  IsFiniteSet(Instants(S)) /\ Instants(S) \in SUBSET Int
<1> DEFINE Within(R) == IsFiniteSet(Instants(R))
           T == {n \in Nat : \A R \in SUBSET S : Cardinality(R) = n => Within(R)}
<1>1. 0 \in T
  <2> SUFFICES ASSUME NEW R \in SUBSET S, Cardinality(R) = 0 PROVE Within(R)
    OBVIOUS
  <2>1. R = {}
    BY FS_Subset, FS_EmptySet
  <2>2. Instants(R) = {}
    BY <2>1 DEF Instants
  <2> QED  BY <2>2, FS_EmptySet
<1>2. ASSUME NEW n \in Nat, n \in T PROVE n + 1 \in T
  <2> SUFFICES ASSUME NEW R \in SUBSET S, Cardinality(R) = n + 1 PROVE Within(R)
    OBVIOUS
  <2>1. IsFiniteSet(R) /\ R # {}
    BY FS_Subset, FS_EmptySet
  <2>2. PICK x \in R : TRUE
    BY <2>1
  <2>3. x[1] \in Int /\ x[2] - 1 \in Int
    BY <2>2 DEF Win
  <2>4. Cardinality(R \ {x}) = n
    <3> HIDE DEF T
    <3>1. Cardinality(R \ {x}) = Cardinality(R) - 1
      BY <2>1, <2>2, FS_RemoveElement
    <3> QED  BY <3>1
  <2>5. IsFiniteSet(Instants(R \ {x}))
    BY <1>2, <2>4
  <2>6. IsFiniteSet(x[1] .. x[2] - 1)
    <3> HIDE DEF T
    <3> QED  BY <2>3, FS_Interval
  <2>7. Instants(R) = Instants(R \ {x}) \cup (x[1] .. x[2] - 1)
    BY <2>2 DEF Instants
  <2> HIDE DEF T
  <2> QED  BY <2>5, <2>6, <2>7, FS_Union
<1> HIDE DEF T
<1>3. Nat \subseteq T
  BY <1>1, <1>2, NaturalInduction
<1>4. Cardinality(S) \in T
  BY <1>3, FS_CardinalityType
<1>5. Instants(S) \in SUBSET Int
  BY DEF Instants, Win
<1> QED  BY <1>4, <1>5 DEF T

\* Of a list of windows in turn the lengths add up to the instants it covers.
LEMMA TotalIs ==
  ASSUME NEW list \in Seq(Stretch), InTurn(list)
  PROVE  Total(list) = Cardinality(Instants({list[i] : i \in 1 .. Len(list)}))
<1> DEFINE N == Len(list)
           numbers == Lengths(list)
           Firsts(n) == {list[i] : i \in 1 .. n}
<1>1. N \in Nat /\ \A i \in 1 .. N : list[i] \in Stretch
  OBVIOUS
<1>2. \A i \in 1 .. N : list[i][1] \in Int /\ list[i][2] \in Int /\ list[i][1] <= list[i][2]
  BY <1>1, StretchIs
<1>3. /\ numbers \in Seq(Int) /\ Len(numbers) = N
      /\ \A i \in 1 .. N : numbers[i] = list[i][2] - list[i][1]
  <2>1. numbers = [i \in 1 .. N |-> list[i][2] - list[i][1]]
    BY DEF Lengths
  <2>2. \A i \in 1 .. N : list[i][2] - list[i][1] \in Int
    BY <1>2
  <2> HIDE DEF numbers, N
  <2> QED  BY <1>1, <2>1, <2>2
<1>4. Total(list) = Added(numbers)
  BY DEF Total
<1> HIDE DEF numbers
<1>5. PICK f : Sums(numbers, f) /\ Added(numbers) = f[N]
  BY <1>3, AddedIs
<1>6. f[0] = 0 /\ \A n \in 1 .. N : f[n] = f[n - 1] + numbers[n]
  BY <1>3, <1>5 DEF Sums
<1> DEFINE T == {n \in Nat : n <= N =>
                   IsFiniteSet(Instants(Firsts(n))) /\ f[n] = Cardinality(Instants(Firsts(n)))}
<1>7. 0 \in T
  <2>1. Instants(Firsts(0)) = {}
    BY DEF Instants
  <2> QED  BY <1>6, <2>1, FS_EmptySet
<1>8. ASSUME NEW n \in Nat, n \in T PROVE n + 1 \in T
  <2> SUFFICES ASSUME n + 1 <= N
               PROVE  /\ IsFiniteSet(Instants(Firsts(n + 1)))
                      /\ f[n + 1] = Cardinality(Instants(Firsts(n + 1)))
    OBVIOUS
  <2> DEFINE a == list[n + 1][1]
             b == list[n + 1][2]
             before == Instants(Firsts(n))
             here == a .. b - 1
  <2>1. n + 1 \in 1 .. N /\ (n + 1) - 1 = n /\ n <= N
    BY <1>1
  <2>2. IsFiniteSet(before) /\ f[n] = Cardinality(before)
    BY <1>8, <2>1
  <2>3. a \in Int /\ b \in Int /\ a <= b
    BY <1>2, <2>1
  <2>4. Instants(Firsts(n + 1)) = before \cup here
    <3>1. Firsts(n + 1) = Firsts(n) \cup {list[n + 1]}
      <4>1. 1 .. n + 1 = (1 .. n) \cup {n + 1}
        OBVIOUS
      <4> QED  BY <4>1
    <3> HIDE DEF Firsts
    <3> QED  BY <3>1 DEF Instants
  <2>5. before \cap here = {}
    <3>1. \A i \in 1 .. n : i \in 1 .. N /\ i < n + 1
      BY <1>1, <2>1
    <3>2. \A i \in 1 .. n : list[i][2] <= a
      BY <2>1, <3>1 DEF InTurn
    <3>3. \A i \in 1 .. n : \A x \in list[i][1] .. list[i][2] - 1 : x \notin here
      BY <1>2, <2>3, <3>1, <3>2
    <3> HIDE DEF a, b, here
    <3> QED  BY <3>3 DEF Instants
  <2>6. IsFiniteSet(here) /\ Cardinality(here) = b - a
    <3> HIDE DEF a, b
    <3>1. IsFiniteSet(here) /\ Cardinality(here) = IF a > b - 1 THEN 0 ELSE (b - 1) - a + 1
      BY <2>3, FS_Interval
    <3> QED  BY <2>3, <3>1
  <2>7. f[n + 1] = Cardinality(before) + Cardinality(here)
    <3>1. f[n + 1] = f[n] + numbers[n + 1]
      BY <1>6, <2>1
    <3>2. numbers[n + 1] = b - a
      BY <1>3, <2>1
    <3> QED  BY <2>2, <2>6, <3>1, <3>2
  <2> HIDE DEF a, b, before, here, T
  <2>8. /\ IsFiniteSet(before \cup here)
        /\ Cardinality(before \cup here) = Cardinality(before) + Cardinality(here)
    <3>1. /\ IsFiniteSet(before \cup here)
          /\ Cardinality(before \cup here)
               = Cardinality(before) + Cardinality(here) - Cardinality(before \cap here)
      BY <2>2, <2>6, FS_Union
    <3>2. Cardinality(before \cap here) = 0
      BY <2>5, FS_EmptySet
    <3>3. Cardinality(before) \in Nat /\ Cardinality(here) \in Nat
      BY <2>2, <2>6, FS_CardinalityType
    <3> QED  BY <3>1, <3>2, <3>3
  <2> QED  BY <2>4, <2>7, <2>8
<1>9. N \in T
  <2> HIDE DEF T
  <2>1. Nat \subseteq T
    BY <1>7, <1>8, NaturalInduction
  <2> QED  BY <1>1, <2>1
<1> QED  BY <1>1, <1>4, <1>5, <1>9

LEMMA ApartInTurn ==
  ASSUME NEW list \in Seq(Stretch), Apart(list)
  PROVE  InTurn(list)
<1> SUFFICES ASSUME NEW i \in 1 .. Len(list), NEW j \in 1 .. Len(list), i < j
             PROVE  list[i][2] <= list[j][1]
  BY DEF InTurn
<1>1. list[i] \in Stretch /\ list[j] \in Stretch
  OBVIOUS
<1>2. list[i][2] \in Int /\ list[j][1] \in Int /\ list[i][2] < list[j][1]
  BY <1>1, StretchIs DEF Apart
<1> QED  BY <1>2

LEMMA InstantIs ==
  ASSUME NEW S \in SUBSET Stretch, NEW x
  PROVE  x \in Instants(S) <=> x \in Int /\ \E w \in S : Covers(w, x)
<1>1. \A w \in S : w[1] \in Int /\ w[2] \in Int
  BY StretchIs
<1>2. \A w \in S : x \in w[1] .. w[2] - 1 <=> x \in Int /\ Covers(w, x)
  BY <1>1 DEF Covers
<1> QED  BY <1>2 DEF Instants

\* The length of a merged set is the number of instants it covers.
LEMMA MergedTotal ==
  ASSUME NEW S \in SUBSET Stretch, IsFiniteSet(S)
  PROVE  Total(Merge(S)) = Cardinality(Instants(S))
<1> DEFINE m == Merge(S)
           W == {m[i] : i \in 1 .. Len(m)}
<1>1. /\ m \in Seq(Stretch) /\ Apart(m)
      /\ \A x \in Int : (\E i \in 1 .. Len(m) : Covers(m[i], x)) <=> \E w \in S : Covers(w, x)
  BY MergeIs DEF UnionIs
<1> HIDE DEF m
<1>2. Total(m) = Cardinality(Instants(W))
  BY <1>1, ApartInTurn, TotalIs
<1>3. W \in SUBSET Stretch
  BY <1>1
<1>4. \A x \in Int : (\E w \in W : Covers(w, x)) <=> \E w \in S : Covers(w, x)
  BY <1>1
<1> HIDE DEF W
<1>5. Instants(W) = Instants(S)
  <2>1. \A x : x \in Instants(W) <=> x \in Instants(S)
    BY <1>3, <1>4, InstantIs
  <2> QED  BY <2>1
<1> QED  BY <1>2, <1>5 DEF m

-----------------------------------------------------------------------------
(* The waterfall of a turn.                                                *)

LEMMA ImageFinite ==
  ASSUME NEW S, IsFiniteSet(S), NEW T, NEW f \in [S -> T], T = {f[x] : x \in S}
  PROVE  IsFiniteSet(T)
<1>1. f \in Surjection(S, T)
  BY DEF Surjection
<1> QED  BY <1>1, FS_Surjection

LEMMA HasEnds ==
  ASSUME NEW S \in SUBSET Int, IsFiniteSet(S), S # {}
  PROVE  /\ \E t \in S : \A u \in S : t <= u
         /\ \E t \in S : \A u \in S : u <= t
<1> DEFINE Has(R) == /\ \E t \in R : \A u \in R : t <= u
                     /\ \E t \in R : \A u \in R : u <= t
           T == {n \in Nat : \A R \in SUBSET S : Cardinality(R) = n + 1 => Has(R)}
<1>1. 0 \in T
  <2> SUFFICES ASSUME NEW R \in SUBSET S, Cardinality(R) = 1 PROVE Has(R)
    OBVIOUS
  <2>1. PICK x : R = {x}
    BY FS_Subset, FS_Singleton
  <2> QED  BY <2>1
<1>2. ASSUME NEW n \in Nat, n \in T PROVE n + 1 \in T
  <2> SUFFICES ASSUME NEW R \in SUBSET S, Cardinality(R) = (n + 1) + 1 PROVE Has(R)
    OBVIOUS
  <2>1. IsFiniteSet(R) /\ R # {}
    <3> HIDE DEF T
    <3>1. IsFiniteSet(R)
      BY FS_Subset
    <3>2. (n + 1) + 1 # 0
      OBVIOUS
    <3> QED  BY <3>1, <3>2, FS_EmptySet
  <2>2. PICK x \in R : TRUE
    BY <2>1
  <2>3. Cardinality(R \ {x}) = n + 1
    <3> HIDE DEF T
    <3>1. Cardinality(R \ {x}) = Cardinality(R) - 1
      BY <2>1, <2>2, FS_RemoveElement
    <3> QED  BY <3>1
  <2>4. Has(R \ {x})
    BY <1>2, <2>3
  <2>5. PICK a \in R \ {x} : \A u \in R \ {x} : a <= u
    BY <2>4
  <2>6. PICK b \in R \ {x} : \A u \in R \ {x} : u <= b
    BY <2>4
  <2>7. x \in Int /\ \A u \in R : u \in Int
    OBVIOUS
  <2>8. \E t \in R : \A u \in R : t <= u
    BY <2>5, <2>7
  <2>9. \E t \in R : \A u \in R : u <= t
    BY <2>6, <2>7
  <2> QED  BY <2>8, <2>9
<1> HIDE DEF T
<1>3. Nat \subseteq T
  BY <1>1, <1>2, NaturalInduction
<1>4. Cardinality(S) \in Nat /\ Cardinality(S) # 0
  BY FS_CardinalityType, FS_EmptySet
<1>5. Cardinality(S) - 1 \in T /\ Cardinality(S) = (Cardinality(S) - 1) + 1
  BY <1>3, <1>4
<1>6. Has(S)
  <2> HIDE DEF Has
  <2> QED  BY <1>5 DEF T
<1> QED  BY <1>6

LEMMA EndsAre ==
  ASSUME NEW S \in SUBSET Int, IsFiniteSet(S)
  PROVE  EarliestOf(S) \in Int \cup {None} /\ LatestOf(S) \in Int \cup {None}
<1>1. CASE S = {}
  BY <1>1 DEF EarliestOf, LatestOf
<1>2. CASE S # {}
  BY <1>2, HasEnds DEF EarliestOf, LatestOf
<1> QED  BY <1>1, <1>2

\* Every span and report of a turn has the values the calculator reads.
TurnIs(t) ==
  /\ \A f \in Stages : t[f] \in Seq(StageSpan)
  /\ \A f \in Reports : t[f] \in Int \cup {None}

Times == Int \cup {None}

LEMMA KnownIs ==
  ASSUME NEW spans \in Seq(StageSpan)
  PROVE  /\ Known(spans, "from") \in SUBSET Int /\ IsFiniteSet(Known(spans, "from"))
         /\ Known(spans, "to") \in SUBSET Int /\ IsFiniteSet(Known(spans, "to"))
         /\ FirstSpan(spans, "from") \in Times /\ FirstSpan(spans, "to") \in Times
<1>1. DOMAIN spans = 1 .. Len(spans) /\ Len(spans) \in Nat
      /\ \A n \in DOMAIN spans : spans[n] \in StageSpan
  OBVIOUS
<1>2. \A s \in StageSpan : s.from \in Times /\ s.to \in Times
  BY DEF StageSpan, Times
<1>3. IsFiniteSet(DOMAIN spans)
  BY <1>1, FS_Interval
<1>4. ASSUME NEW field \in {"from", "to"}
      PROVE  Known(spans, field) \in SUBSET Int /\ IsFiniteSet(Known(spans, field))
  <2> DEFINE f == [n \in DOMAIN spans |-> spans[n][field]]
             T == {f[n] : n \in DOMAIN spans}
  <2>1. \A n \in DOMAIN spans : spans[n][field] \in Times
    <3>1. CASE field = "from"
      BY <1>1, <1>2, <3>1 DEF Times
    <3>2. CASE field = "to"
      BY <1>1, <1>2, <3>2
    <3> QED  BY <3>1, <3>2
  <2>2. f \in [DOMAIN spans -> T]
    OBVIOUS
  <2>3. Known(spans, field) \subseteq T /\ Known(spans, field) \in SUBSET Int
    BY <2>1 DEF Known, Times
  <2> HIDE DEF f
  <2>4. IsFiniteSet(T)
    BY <1>3, <2>2, ImageFinite
  <2> HIDE DEF T
  <2> QED  BY <2>3, <2>4, FS_Subset
<1>5. FirstSpan(spans, "from") \in Times /\ FirstSpan(spans, "to") \in Times
  <2>1. CASE spans = <<>>
    BY <2>1 DEF FirstSpan, Times
  <2>2. CASE spans # <<>>
    <3>1. 1 \in DOMAIN spans
      BY <1>1, <2>2
    <3>2. spans[1].from \in Times /\ spans[1].to \in Times
      BY <1>1, <1>2, <3>1 DEF Times
    <3> QED  BY <2>2, <3>2 DEF FirstSpan
  <2> QED  BY <2>1, <2>2
<1> QED  BY <1>4, <1>5

LEMMA TimesAre ==
  ASSUME NEW a \in Times, NEW b \in Times
  PROVE  Default(a, b) \in Times /\ Plus(a, b) \in Times /\ Ms(a, b) \in Times
BY TurnAssumption DEF Times, Default, Plus, Ms

LEMMA TurnTimes ==
  ASSUME NEW t, TurnIs(t)
  PROVE  /\ EndOfSpeech(t) \in Times /\ SttStart(t) \in Times
         /\ CallerStop(t) \in Times /\ FirstAudio(t) \in Times
<1>1. t.speech \in Seq(StageSpan) /\ t.stt \in Seq(StageSpan) /\ t.tts \in Seq(StageSpan)
      /\ t.firstAudio \in Times /\ t.ttfb \in Times
  BY DEF TurnIs, Stages, Reports, Times
<1>2. EndOfSpeech(t) \in Times /\ SttStart(t) \in Times /\ SttFinal(t) \in Times
      /\ TtsStart(t) \in Times
  BY <1>1, KnownIs, EndsAre DEF EndOfSpeech, SttStart, SttFinal, TtsStart, Times
<1>3. CallerStop(t) \in Times
  BY <1>2, TimesAre DEF CallerStop
<1>4. TtsTtfb(t) \in Times
  BY <1>1, <1>2, TimesAre DEF TtsTtfb
<1>5. FirstAudio(t) \in Times
  BY <1>1, <1>2, <1>4, TimesAre DEF FirstAudio
<1> QED  BY <1>2, <1>3, <1>5

\* The windows of a turn that are known on both ends.
KnownOf(t) == {w \in Segments(t) : None \notin {w[1], w[2]}}

LEMMA KnownSegments ==
  ASSUME NEW t, TurnIs(t)
  PROVE  KnownOf(t) \in SUBSET Win /\ IsFiniteSet(KnownOf(t))
<1> DEFINE spans == t.stt \o t.llm \o t.tts
           f == [n \in DOMAIN spans |-> <<spans[n].from, spans[n].to>>]
           T == {f[n] : n \in DOMAIN spans}
           one == <<EndOfSpeech(t), SttStart(t)>>
<1>1. t.stt \in Seq(StageSpan) /\ t.llm \in Seq(StageSpan) /\ t.tts \in Seq(StageSpan)
  BY DEF TurnIs, Stages
<1>2. spans \in Seq(StageSpan)
  BY <1>1
<1>3. Segments(t) = {one} \cup T
  BY DEF Segments
<1> HIDE DEF spans, one
<1>4. DOMAIN spans = 1 .. Len(spans) /\ Len(spans) \in Nat
      /\ \A n \in DOMAIN spans : spans[n] \in StageSpan
  BY <1>2
<1>5. \A n \in DOMAIN spans : spans[n].from \in Times /\ spans[n].to \in Times
  BY <1>4 DEF StageSpan, Times
<1>6. IsFiniteSet(T)
  <2>1. f \in [DOMAIN spans -> T]
    OBVIOUS
  <2>2. IsFiniteSet(DOMAIN spans)
    BY <1>4, FS_Interval
  <2> HIDE DEF f
  <2> QED  BY <2>1, <2>2, ImageFinite
<1>7. IsFiniteSet(KnownOf(t))
  <2> HIDE DEF T
  <2>1. IsFiniteSet({one} \cup T)
    BY <1>6, FS_AddElement
  <2> QED  BY <1>3, <2>1, FS_Subset DEF KnownOf
<1>8. \A w \in T : w[1] \in Times /\ w[2] \in Times /\ w = <<w[1], w[2]>>
  BY <1>5
<1>9. one[1] \in Times /\ one[2] \in Times /\ one = <<one[1], one[2]>>
  BY TurnTimes DEF one
<1>10. ASSUME NEW w \in KnownOf(t) PROVE w \in Win
  <2>1. w[1] \in Times /\ w[2] \in Times /\ w = <<w[1], w[2]>>
    <3> HIDE DEF T
    <3> QED  BY <1>3, <1>8, <1>9 DEF KnownOf, Times
  <2>2. w[1] \in Int /\ w[2] \in Int
    BY <2>1 DEF KnownOf, Times
  <2> QED  BY <2>1, <2>2 DEF Win
<1> QED  BY <1>7, <1>10

\* The known windows between two times, cut to them.
Clipped(K, lo, hi) ==
  {w \in {<<Greatest(lo, s[1]), Least(hi, s[2])>> : s \in K} : w[2] > w[1]}

LEMMA ClippedIs ==
  ASSUME NEW K \in SUBSET Win, IsFiniteSet(K), NEW lo \in Int, NEW hi \in Int, lo < hi
  PROVE  /\ Clipped(K, lo, hi) \in SUBSET Stretch /\ IsFiniteSet(Clipped(K, lo, hi))
         /\ Instants(Clipped(K, lo, hi)) = {i \in lo .. hi - 1 : \E w \in K : Covers(w, i)}
<1> DEFINE Cut(s) == <<Greatest(lo, s[1]), Least(hi, s[2])>>
           f == [s \in K |-> Cut(s)]
           T == {f[s] : s \in K}
           C == Clipped(K, lo, hi)
<1>1. \A s \in K : s[1] \in Int /\ s[2] \in Int
  BY DEF Win
<1>2. T = {Cut(s) : s \in K}
  OBVIOUS
<1>3. IsFiniteSet(T)
  <2>1. f \in [K -> T]
    OBVIOUS
  <2> HIDE DEF f
  <2> QED  BY <2>1, ImageFinite
<1>4. \A s \in K : Cut(s)[1] = Greatest(lo, s[1]) /\ Cut(s)[2] = Least(hi, s[2])
  OBVIOUS
<1>5. C = {w \in T : w[2] > w[1]}
  BY <1>2 DEF Clipped
<1>6. IsFiniteSet(C)
  <2> HIDE DEF T
  <2> QED  BY <1>3, <1>5, FS_Subset
<1>7. \A s \in K : Cut(s)[1] \in Int /\ Cut(s)[2] \in Int /\ Cut(s) = <<Cut(s)[1], Cut(s)[2]>>
  BY <1>1, <1>4 DEF Greatest, Least
<1>8. C \in SUBSET Stretch
  <2> SUFFICES ASSUME NEW s \in K, Cut(s)[2] > Cut(s)[1] PROVE Cut(s) \in Stretch
    BY <1>2, <1>5
  <2>1. <<Cut(s)[1], Cut(s)[2]>> \in Stretch
    <3> HIDE DEF Cut
    <3>1. Cut(s)[1] <= Cut(s)[2]
      BY <1>7
    <3> QED  BY <1>7, <3>1, StretchIs
  <2> QED  BY <2>1
<1>9. \A x \in Int : (\E w \in C : Covers(w, x)) <=> x \in lo .. hi - 1 /\ \E s \in K : Covers(s, x)
  <2> SUFFICES ASSUME NEW x \in Int
               PROVE  (\E w \in C : Covers(w, x)) <=> x \in lo .. hi - 1 /\ \E s \in K : Covers(s, x)
    OBVIOUS
  <2>1. (\E w \in C : Covers(w, x)) <=> \E s \in K : Cut(s)[2] > Cut(s)[1] /\ Covers(Cut(s), x)
    BY <1>2, <1>5
  <2>2. \A s \in K : Cut(s)[2] > Cut(s)[1] /\ Covers(Cut(s), x)
                       <=> x \in lo .. hi - 1 /\ Covers(s, x)
    BY <1>1, <1>4 DEF Covers, Greatest, Least
  <2> HIDE DEF C, Cut
  <2> QED  BY <2>1, <2>2
<1>10. Instants(C) = {i \in lo .. hi - 1 : \E w \in K : Covers(w, i)}
  <2> HIDE DEF C
  <2>1. \A x : x \in Instants(C) <=> x \in {i \in lo .. hi - 1 : \E w \in K : Covers(w, i)}
    BY <1>8, <1>9, InstantIs
  <2> QED  BY <2>1
<1> QED  BY <1>6, <1>8, <1>10

LEMMA UncoveredIs ==
  ASSUME NEW K \in SUBSET Win, IsFiniteSet(K), NEW lo \in Int, NEW hi \in Int, lo < hi
  PROVE  LET left == (hi - lo) - Total(Merge(Clipped(K, lo, hi)))
         IN  /\ left \in 0 .. hi - lo
             /\ left = Cardinality({i \in lo .. hi - 1 : \A w \in K : ~Covers(w, i)})
<1> DEFINE all == lo .. hi - 1
           C == Clipped(K, lo, hi)
           I == Instants(C)
<1>1. C \in SUBSET Stretch /\ IsFiniteSet(C) /\ I = {i \in all : \E w \in K : Covers(w, i)}
  BY ClippedIs
<1>2. Total(Merge(C)) = Cardinality(I)
  <2> HIDE DEF C
  <2> QED  BY <1>1, MergedTotal
<1>3. IsFiniteSet(all) /\ Cardinality(all) = hi - lo
  <2>1. IsFiniteSet(all) /\ Cardinality(all) = IF lo > hi - 1 THEN 0 ELSE (hi - 1) - lo + 1
    BY FS_Interval
  <2> QED  BY <2>1
<1> HIDE DEF C, I
<1>4. all \cap I = I /\ all \ I = {i \in all : \A w \in K : ~Covers(w, i)}
  BY <1>1
<1>5. Cardinality(all \ I) = (hi - lo) - Cardinality(I)
  <2> HIDE DEF all
  <2> QED  BY <1>3, <1>4, FS_Difference
<1>6. Cardinality(I) \in Nat /\ Cardinality(all \ I) \in Nat
  <2> HIDE DEF all
  <2>1. IsFiniteSet(I) /\ IsFiniteSet(all \ I)
    BY <1>3, <1>4, FS_Subset, FS_Difference
  <2> QED  BY <2>1, FS_CardinalityType
<1> HIDE DEF all
<1>7. (hi - lo) - Cardinality(I) \in 0 .. hi - lo
  BY <1>5, <1>6
<1> QED  BY <1>2, <1>4, <1>5, <1>7 DEF C, all


\* The invariant: a turn never holds a value of another shape.
TurnTyped == TurnIs(turnSpans) /\ DOMAIN turnSpans = Stages \cup Reports
                /\ turnSpans = [f \in Stages \cup Reports |-> turnSpans[f]]

LEMMA NamesApart ==
  \A f \in Stages : f \notin Reports
BY DEF Stages, Reports

LEMMA TurnTypedInit ==
  ASSUME TurnInit PROVE TurnTyped
<1>1. turnSpans = [f \in Stages \cup Reports |-> IF f \in Stages THEN <<>> ELSE None]
  BY DEF TurnInit
<1>2. \A f \in Stages : turnSpans[f] = <<>>
  BY <1>1
<1>3. \A f \in Reports : turnSpans[f] = None
  BY <1>1, NamesApart
<1> QED  BY <1>1, <1>2, <1>3 DEF TurnTyped, TurnIs

LEMMA TurnTypedStep ==
  ASSUME TurnTyped, [TurnNext]_turnSpans PROVE TurnTyped'
<1>1. ASSUME NEW f \in Stages, ReadSpan(f) PROVE TurnTyped'
  <2>1. PICK s \in Read[f] : turnSpans' = [turnSpans EXCEPT ![f] = Append(@, s)]
    BY <1>1 DEF ReadSpan
  <2>2. s \in StageSpan
    BY <2>1, TurnAssumption
  <2>3. turnSpans[f] \in Seq(StageSpan)
    BY DEF TurnTyped, TurnIs
  <2>4. Append(turnSpans[f], s) \in Seq(StageSpan)
    BY <2>2, <2>3
  <2>5. /\ turnSpans'[f] = Append(turnSpans[f], s) /\ DOMAIN turnSpans' = DOMAIN turnSpans
        /\ \A g \in DOMAIN turnSpans : g # f => turnSpans'[g] = turnSpans[g]
        /\ turnSpans' = [g \in DOMAIN turnSpans |-> turnSpans'[g]]
    BY <2>1 DEF TurnTyped
  <2>6. \A g \in Reports : turnSpans'[g] = turnSpans[g]
    BY <2>5, NamesApart DEF TurnTyped
  <2>7. \A g \in Stages : turnSpans'[g] \in Seq(StageSpan)
    BY <2>4, <2>5 DEF TurnTyped, TurnIs
  <2> QED  BY <2>5, <2>6, <2>7 DEF TurnTyped, TurnIs
<1>2. ASSUME NEW f \in Reports, ReadReport(f) PROVE TurnTyped'
  <2>1. PICK v \in Read[f] : turnSpans' = [turnSpans EXCEPT ![f] = v]
    BY <1>2 DEF ReadReport
  <2>2. v \in Int
    BY <2>1, TurnAssumption
  <2>3. /\ turnSpans'[f] = v /\ DOMAIN turnSpans' = DOMAIN turnSpans
        /\ \A g \in DOMAIN turnSpans : g # f => turnSpans'[g] = turnSpans[g]
        /\ turnSpans' = [g \in DOMAIN turnSpans |-> turnSpans'[g]]
    BY <2>1 DEF TurnTyped
  <2>4. \A g \in Stages : turnSpans'[g] = turnSpans[g]
    BY <2>3, NamesApart DEF TurnTyped
  <2>5. \A g \in Reports : turnSpans'[g] \in Int \cup {None}
    BY <2>2, <2>3 DEF TurnTyped, TurnIs
  <2> QED  BY <2>3, <2>4, <2>5 DEF TurnTyped, TurnIs
<1>3. CASE UNCHANGED turnSpans
  BY <1>3 DEF TurnTyped, TurnIs
<1> QED  BY <1>1, <1>2, <1>3 DEF TurnNext

LEMMA TurnAttributed ==
  ASSUME TurnTyped PROVE UnattributedIsUncovered
<1> DEFINE t == turnSpans
           lo == CallerStop(t)
           hi == FirstAudio(t)
           K == KnownOf(t)
           latency == Ms(lo, hi)
           left == (hi - lo) - Total(Merge(Clipped(K, lo, hi)))
           free == Cardinality({i \in lo .. hi - 1 : \A w \in K : ~(w[1] <= i /\ i < w[2])})
           un == Uncovered(t)
<1>1. TurnIs(t)
  BY DEF TurnTyped
<1>2. /\ BuildTurn(t).unattributed = un /\ BuildTurn(t).responseLatency = latency
  BY DEF BuildTurn
<1>3. un = IF None \in {lo, hi} THEN None ELSE IF hi <= lo THEN None ELSE Greatest(0, left)
  BY DEF Uncovered, KnownOf, Clipped
<1>4. lo \in Times /\ hi \in Times /\ K \in SUBSET Win /\ IsFiniteSet(K)
  BY <1>1, TurnTimes, KnownSegments
<1>5. latency = IF None \in {lo, hi} THEN None ELSE IF hi >= lo THEN hi - lo ELSE None
  BY DEF Ms
<1> HIDE DEF t, lo, hi, K, left, free, un, latency
<1>6. CASE None \in {lo, hi}
  <2>1. un = None /\ latency = None
    BY <1>3, <1>5, <1>6
  <2> QED  BY <1>2, <2>1 DEF UnattributedIsUncovered, t
<1>7. CASE None \notin {lo, hi} /\ hi <= lo
  <2>1. un = None /\ latency \in {None, 0}
    BY <1>3, <1>4, <1>5, <1>7 DEF Times
  <2> QED  BY <1>2, <2>1 DEF UnattributedIsUncovered, t
<1>8. CASE None \notin {lo, hi} /\ ~(hi <= lo)
  <2>1. lo \in Int /\ hi \in Int /\ lo < hi
    BY <1>4, <1>8 DEF Times
  <2>2. left \in 0 .. hi - lo /\ left = free
    BY <1>4, <2>1, UncoveredIs DEF left, free, Covers
  <2>3. un = left
    <3>1. un = Greatest(0, left)
      BY <1>3, <1>8
    <3>2. left \in Int /\ 0 <= left
      BY <2>1, <2>2
    <3> QED  BY <3>1, <3>2 DEF Greatest
  <2>4. latency = hi - lo /\ latency \in Int /\ latency # 0
    <3>1. hi >= lo
      BY <2>1
    <3>2. latency = hi - lo
      BY <1>5, <1>8, <3>1
    <3> QED  BY <2>1, <3>2
  <2>5. un # None /\ latency \notin {None, 0}
    BY <2>1, <2>2, <2>3, <2>4, TurnAssumption
  <2>6. un \in 0 .. latency /\ un = free
    BY <2>2, <2>3, <2>4
  <2> QED  BY <1>2, <2>5, <2>6 DEF UnattributedIsUncovered, t, lo, hi, K, KnownOf, free
<1> QED  BY <1>6, <1>7, <1>8

\* build_turn: whatever spans a turn has and however they overlap, unattributed_ms is
\* the time from the end of the caller's speech to the first audio that none of them
\* covers, and it is known where the response latency is known and positive.
THEOREM UnattributedAlways == TurnSpec => []UnattributedIsUncovered
<1>1. TurnInit => TurnTyped
  BY TurnTypedInit
<1>2. TurnTyped /\ [TurnNext]_turnSpans => TurnTyped'
  BY TurnTypedStep
<1>3. TurnTyped => UnattributedIsUncovered
  BY TurnAttributed
<1> QED  BY <1>1, <1>2, <1>3, PTL DEF TurnSpec

-----------------------------------------------------------------------------
(* What two lists of windows have in common.                               *)

Walk(a, b) == [i : 1 .. Len(a) + 1, j : 1 .. Len(b) + 1, out : Seq(Stretch)]

Walked(a, b, at) == IF at.i > Len(a) \/ at.j > Len(b) THEN at ELSE Advanced(a, b, at)

LEMMA GreatestIs ==
  ASSUME NEW a \in Int, NEW b \in Int
  PROVE  /\ Greatest(a, b) \in Int /\ a <= Greatest(a, b) /\ b <= Greatest(a, b)
         /\ Greatest(a, b) = a \/ Greatest(a, b) = b
BY DEF Greatest

LEMMA CommonIs ==
  ASSUME NEW v \in Stretch, NEW w \in Stretch
  PROVE  LET c == Common(v, w)
         IN  /\ c[1] = Greatest(v[1], w[1]) /\ c[2] = Least(v[2], w[2])
             /\ c[1] \in Int /\ c[2] \in Int
             /\ c[1] < c[2] => c \in Stretch
             /\ c[2] <= v[2] /\ c[2] <= w[2] /\ v[1] <= c[1] /\ w[1] <= c[1]
             /\ \A x \in Int : Covers(c, x) <=> Covers(v, x) /\ Covers(w, x)
<1> DEFINE c == Common(v, w)
<1>1. v[1] \in Int /\ v[2] \in Int /\ w[1] \in Int /\ w[2] \in Int
  BY StretchIs
<1>2. c = <<Greatest(v[1], w[1]), Least(v[2], w[2])>>
  BY DEF Common
<1>3. c[1] = Greatest(v[1], w[1]) /\ c[2] = Least(v[2], w[2]) /\ c = <<c[1], c[2]>>
  BY <1>2
<1> HIDE DEF c
<1>4. /\ c[1] \in Int /\ c[2] \in Int
      /\ c[2] <= v[2] /\ c[2] <= w[2] /\ v[1] <= c[1] /\ w[1] <= c[1]
  BY <1>1, <1>3 DEF Greatest, Least
<1>5. c[1] < c[2] => c \in Stretch
  <2>1. c[1] < c[2] => <<c[1], c[2]>> \in Stretch
    BY <1>4, StretchIs
  <2> QED  BY <1>3, <2>1
<1>6. \A x \in Int : Covers(c, x) <=> Covers(v, x) /\ Covers(w, x)
  BY <1>1, <1>3 DEF Greatest, Least, Covers
<1> QED  BY <1>3, <1>4, <1>5, <1>6 DEF c

LEMMA AdvancedIs ==
  ASSUME NEW a \in Seq(Stretch), NEW b \in Seq(Stretch), NEW at \in Walk(a, b),
         ~(at.i > Len(a) \/ at.j > Len(b))
  PROVE  LET c == Common(a[at.i], b[at.j])
             to == Advanced(a, b, at)
         IN  /\ to \in Walk(a, b)
             /\ to.out = IF c[1] < c[2] THEN Append(at.out, c) ELSE at.out
             /\ \/ a[at.i][2] < b[at.j][2] /\ to.i = at.i + 1 /\ to.j = at.j
                \/ ~(a[at.i][2] < b[at.j][2]) /\ to.i = at.i /\ to.j = at.j + 1
<1> DEFINE c == Common(a[at.i], b[at.j])
           to == Advanced(a, b, at)
<1>1. at.i \in 1 .. Len(a) /\ at.j \in 1 .. Len(b) /\ at.out \in Seq(Stretch)
  BY DEF Walk
<1>2. a[at.i] \in Stretch /\ b[at.j] \in Stretch
  BY <1>1
<1>3. c[1] < c[2] => c \in Stretch
  BY <1>2, CommonIs
<1> HIDE DEF c
<1>4. to = [i   |-> IF a[at.i][2] < b[at.j][2] THEN at.i + 1 ELSE at.i,
            j   |-> IF a[at.i][2] < b[at.j][2] THEN at.j ELSE at.j + 1,
            out |-> IF c[1] < c[2] THEN Append(at.out, c) ELSE at.out]
  BY DEF Advanced, c
<1>5. (IF c[1] < c[2] THEN Append(at.out, c) ELSE at.out) \in Seq(Stretch)
  BY <1>1, <1>3
<1>6. (IF a[at.i][2] < b[at.j][2] THEN at.i + 1 ELSE at.i) \in 1 .. Len(a) + 1
      /\ (IF a[at.i][2] < b[at.j][2] THEN at.j ELSE at.j + 1) \in 1 .. Len(b) + 1
  BY <1>1
<1>7. to \in Walk(a, b)
  BY <1>4, <1>5, <1>6 DEF Walk
<1>8. /\ to.out = IF c[1] < c[2] THEN Append(at.out, c) ELSE at.out
      /\ \/ a[at.i][2] < b[at.j][2] /\ to.i = at.i + 1 /\ to.j = at.j
         \/ ~(a[at.i][2] < b[at.j][2]) /\ to.i = at.i /\ to.j = at.j + 1
  BY <1>4
<1> QED  BY <1>7, <1>8 DEF c

\* Where the walk stands after each step.
Walks(a, b, f) ==
  /\ f \in [0 .. Len(a) + Len(b) -> Walk(a, b)] /\ f[0] = [i |-> 1, j |-> 1, out |-> <<>>]
  /\ \A n \in 1 .. Len(a) + Len(b) : f[n] = Walked(a, b, f[n - 1])

LEMMA WalkIs ==
  ASSUME NEW a \in Seq(Stretch), NEW b \in Seq(Stretch)
  PROVE  \E f : Walks(a, b, f) /\ Intersect(a, b) = f[Len(a) + Len(b)].out
<1> DEFINE N == Len(a) + Len(b)
           Is(f) == f = [n \in 0 .. N |-> IF n = 0 THEN [i |-> 1, j |-> 1, out |-> <<>>] ELSE Walked(a, b, f[n - 1])]
           at == CHOOSE f : Is(f)
           step == [p \in (1 .. N) \X (Walk(a, b)) |-> Walked(a, b, p[2])]
<1>1. N \in Nat /\ [i |-> 1, j |-> 1, out |-> <<>>] \in Walk(a, b) /\ step \in [(1 .. N) \X (Walk(a, b)) -> Walk(a, b)]
  <2>1. N \in Nat /\ [i |-> 1, j |-> 1, out |-> <<>>] \in Walk(a, b)
    BY DEF Walk
  <2>2. \A p \in (1 .. N) \X Walk(a, b) : Walked(a, b, p[2]) \in Walk(a, b)
    <3> SUFFICES ASSUME NEW p \in (1 .. N) \X Walk(a, b) PROVE Walked(a, b, p[2]) \in Walk(a, b)
      OBVIOUS
    <3>1. p[2] \in Walk(a, b)
      OBVIOUS
    <3> QED  BY <3>1, AdvancedIs DEF Walked
  <2> QED  BY <2>1, <2>2
<1>2. PICK f : IsRecursion(f, N, Walk(a, b), [i |-> 1, j |-> 1, out |-> <<>>], step)
  <2> HIDE DEF step, N
  <2> QED  BY <1>1, RecursionExists
<1>3. f \in [0 .. N -> Walk(a, b)] /\ f[0] = [i |-> 1, j |-> 1, out |-> <<>>]
  BY <1>2 DEF IsRecursion
<1>4. \A n \in 1 .. N : f[n] = Walked(a, b, f[n - 1])
  <2> SUFFICES ASSUME NEW n \in 1 .. N PROVE f[n] = Walked(a, b, f[n - 1])
    OBVIOUS
  <2>1. <<n, f[n - 1]>> \in (1 .. N) \X (Walk(a, b))
    <3> HIDE DEF N, step
    <3>1. n - 1 \in 0 .. N
      BY <1>1
    <3>2. f[n - 1] \in Walk(a, b)
      BY <1>3, <3>1
    <3> QED  BY <3>2
  <2>2. f[n] = step[<<n, f[n - 1]>>]
    BY <1>2 DEF IsRecursion
  <2> QED  BY <2>1, <2>2
<1>5. Is(f)
  <2> HIDE DEF N
  <2>1. ASSUME NEW n \in 0 .. N PROVE f[n] = IF n = 0 THEN [i |-> 1, j |-> 1, out |-> <<>>] ELSE Walked(a, b, f[n - 1])
    <3>1. n # 0 => n \in 1 .. N
      BY <1>1
    <3>2. n # 0 => f[n] = Walked(a, b, f[n - 1])
      BY <1>4, <3>1
    <3>3. n = 0 => f[n] = [i |-> 1, j |-> 1, out |-> <<>>]
      BY <1>3
    <3> QED  BY <3>2, <3>3, Zenon
  <2> QED  BY <1>3, <2>1
<1>6. Is(at)
  <2> HIDE DEF Is
  <2> QED  BY <1>5
<1>7. Intersect(a, b) = at[Len(a) + Len(b)].out
  BY DEF Intersect, Walked
<1> HIDE DEF at, N, step
<1>8. \A n \in 0 .. N : at[n] = IF n = 0 THEN [i |-> 1, j |-> 1, out |-> <<>>] ELSE Walked(a, b, at[n - 1])
  BY <1>6
<1>9. DOMAIN at = 0 .. N /\ at = [n \in 0 .. N |-> at[n]]
  <2>1. PICK e : at = [n \in 0 .. N |-> e[n]]
    BY <1>6
  <2> QED  BY <2>1
<1>10. at = f
  <2>1. at[0] = f[0]
    <3>1. 0 \in 0 .. N
      BY <1>1
    <3>2. at[0] = [i |-> 1, j |-> 1, out |-> <<>>]
      BY <1>8, <3>1
    <3> QED  BY <1>3, <3>2
  <2>2. ASSUME NEW n \in 1 .. N, at[n - 1] = f[n - 1] PROVE at[n] = f[n]
    <3>1. n \in 0 .. N /\ n # 0
      BY <1>1
    <3> QED  BY <1>4, <1>8, <2>2, <3>1
  <2> QED  BY <1>1, <1>3, <1>9, <2>1, <2>2, SameRecursion
<1>11. Walks(a, b, f)
  BY <1>3, <1>4 DEF Walks, N
<1>12. Intersect(a, b) = f[Len(a) + Len(b)].out
  BY <1>7, <1>10
<1> QED  BY <1>11, <1>12

\* What a walk has found once the windows before i and before j are behind it.
Found(a, b, at) ==
  /\ InTurn(at.out)
  /\ at.i <= Len(a) /\ at.j <= Len(b) =>
       \A k \in 1 .. Len(at.out) : at.out[k][2] <= Greatest(a[at.i][1], b[at.j][1])
  /\ \A x \in Int : (\E k \in 1 .. Len(at.out) : Covers(at.out[k], x))
       <=> \E p \in 1 .. Len(a), q \in 1 .. Len(b) :
             (p < at.i \/ q < at.j) /\ Covers(a[p], x) /\ Covers(b[q], x)

\* One step of the walk.
LEMMA FoundStep ==
  ASSUME NEW a \in Seq(Stretch), NEW b \in Seq(Stretch), Apart(a), Apart(b),
         NEW at \in Walk(a, b), ~(at.i > Len(a) \/ at.j > Len(b)), Found(a, b, at)
  PROVE  Found(a, b, Advanced(a, b, at))
<1> DEFINE i == at.i
           j == at.j
           v == a[i]
           w == b[j]
           c == Common(v, w)
           to == Advanced(a, b, at)
           m == Len(at.out)
<1>1. i \in 1 .. Len(a) /\ j \in 1 .. Len(b) /\ at.out \in Seq(Stretch) /\ m \in Nat
  BY DEF Walk
<1>2. v \in Stretch /\ w \in Stretch
  BY <1>1
<1>3. /\ c[1] = Greatest(v[1], w[1]) /\ c[1] \in Int /\ c[2] \in Int
      /\ c[1] < c[2] => c \in Stretch
      /\ c[2] <= v[2] /\ c[2] <= w[2]
      /\ \A x \in Int : Covers(c, x) <=> Covers(v, x) /\ Covers(w, x)
  BY <1>2, CommonIs
<1>4. /\ to \in Walk(a, b)
      /\ to.out = IF c[1] < c[2] THEN Append(at.out, c) ELSE at.out
      /\ \/ v[2] < w[2] /\ to.i = i + 1 /\ to.j = j
         \/ ~(v[2] < w[2]) /\ to.i = i /\ to.j = j + 1
  BY AdvancedIs
<1>5. /\ \A k \in 1 .. m : at.out[k] \in Stretch
      /\ \A k, l \in 1 .. m : k < l => at.out[k][2] <= at.out[l][1]
      /\ \A k \in 1 .. m : at.out[k][2] <= Greatest(v[1], w[1])
      /\ \A x \in Int : (\E k \in 1 .. m : Covers(at.out[k], x))
           <=> \E p \in 1 .. Len(a), q \in 1 .. Len(b) :
                 (p < i \/ q < j) /\ Covers(a[p], x) /\ Covers(b[q], x)
  <2>1. \A k \in 1 .. m : at.out[k] \in Stretch
    BY <1>1
  <2>2. \A k, l \in 1 .. m : k < l => at.out[k][2] <= at.out[l][1]
    BY DEF Found, InTurn
  <2>3. i <= Len(a) /\ j <= Len(b)
    BY <1>1
  <2>4. \A k \in 1 .. m : at.out[k][2] <= Greatest(v[1], w[1])
    BY <2>3 DEF Found
  <2>5. \A x \in Int : (\E k \in 1 .. m : Covers(at.out[k], x))
           <=> \E p \in 1 .. Len(a), q \in 1 .. Len(b) :
                 (p < i \/ q < j) /\ Covers(a[p], x) /\ Covers(b[q], x)
    BY ONLY Found(a, b, at), Zenon DEF Found
  <2> QED  BY <2>1, <2>2, <2>4, <2>5
<1>6. /\ v[1] \in Int /\ v[2] \in Int /\ v[1] <= v[2]
      /\ w[1] \in Int /\ w[2] \in Int /\ w[1] <= w[2]
  BY <1>2, StretchIs
<1>7. /\ \A p \in 1 .. Len(a) : a[p] \in Stretch /\ a[p][1] \in Int /\ a[p][2] \in Int
      /\ \A q \in 1 .. Len(b) : b[q] \in Stretch /\ b[q][1] \in Int /\ b[q][2] \in Int
  BY StretchIs
<1> DEFINE out == to.out
<1>8. out \in Seq(Stretch)
  BY <1>4 DEF Walk
<1>9. /\ c[1] < c[2] => /\ Len(out) = m + 1 /\ out[m + 1] = c
                        /\ \A k \in 1 .. m : out[k] = at.out[k]
      /\ ~(c[1] < c[2]) => out = at.out
  <2> HIDE DEF c, to
  <2>1. ASSUME c[1] < c[2]
        PROVE  /\ Len(out) = m + 1 /\ out[m + 1] = c
               /\ \A k \in 1 .. m : out[k] = at.out[k]
    <3>1. out = Append(at.out, c)
      BY <1>4, <2>1
    <3> HIDE DEF out
    <3> QED  BY <1>1, <2>1, <3>1
  <2>2. ASSUME ~(c[1] < c[2]) PROVE out = at.out
    BY <1>4, <2>2
  <2> HIDE DEF out, m
  <2> QED  BY <2>1, <2>2, Zenon
<1>10. ASSUME NEW k \in 1 .. Len(out)
       PROVE  \/ k \in 1 .. m /\ out[k] = at.out[k]
              \/ out[k] = c /\ k = m + 1 /\ c[1] < c[2]
  <2> HIDE DEF out, c, m
  <2>1. CASE c[1] < c[2]
    BY <1>1, <1>9, <2>1
  <2>2. CASE ~(c[1] < c[2])
    BY <1>9, <2>2 DEF m
  <2> QED  BY <2>1, <2>2
<1>11. /\ \A p \in 1 .. Len(a) : p > i => v[2] < a[p][1]
       /\ \A q \in 1 .. Len(b) : q > j => w[2] < b[q][1]
  BY <1>1 DEF Apart
<1> HIDE DEF i, j, v, w, c, to, m, out
<1>12. InTurn(out)
  <2> SUFFICES ASSUME NEW k \in 1 .. Len(out), NEW l \in 1 .. Len(out), k < l
               PROVE  out[k][2] <= out[l][1]
    BY DEF InTurn
  <2>1. k \in 1 .. m /\ out[k] = at.out[k]
    BY <1>1, <1>10
  <2>2. CASE l \in 1 .. m
    BY <1>1, <1>5, <1>10, <2>1, <2>2
  <2>3. CASE out[l] = c
    BY <1>3, <1>5, <2>1, <2>3
  <2> QED  BY <1>10, <2>2, <2>3
<1>13. ASSUME to.i <= Len(a), to.j <= Len(b), NEW k \in 1 .. Len(out)
       PROVE  out[k][2] <= Greatest(a[to.i][1], b[to.j][1])
  <2>1. to.i \in 1 .. Len(a) /\ to.j \in 1 .. Len(b) /\ to.i \in Nat /\ to.j \in Nat
    BY <1>4, <1>13 DEF Walk
  <2>2. out[k][2] \in Int /\ (out[k][2] <= Greatest(v[1], w[1]) \/ (out[k][2] <= v[2] /\ out[k][2] <= w[2]))
    <3>1. out[k] \in Stretch
      BY <1>8
    <3>2. out[k][2] \in Int
      BY <3>1, StretchIs
    <3> QED  BY <1>3, <1>5, <1>10, <3>2
  <2> DEFINE end == out[k][2]
  <2>5. end \in Int /\ (end <= v[1] \/ end <= w[1] \/ (end <= v[2] /\ end <= w[2]))
    <3>1. Greatest(v[1], w[1]) \in {v[1], w[1]}
      BY DEF Greatest
    <3> QED  BY <2>2, <3>1
  <2> HIDE DEF end
  <2>3. CASE v[2] < w[2] /\ to.i = i + 1 /\ to.j = j
    <3>1. v[2] < a[to.i][1] /\ b[to.j] = w
      BY <1>1, <1>11, <2>1, <2>3 DEF w
    <3>2. a[to.i][1] \in Int
      BY <1>7, <2>1
    <3>3. end <= a[to.i][1] \/ end <= w[1]
      BY <1>6, <2>5, <3>1, <3>2
    <3>4. /\ a[to.i][1] <= Greatest(a[to.i][1], w[1]) /\ w[1] <= Greatest(a[to.i][1], w[1])
          /\ Greatest(a[to.i][1], w[1]) \in Int
      BY <1>6, <3>2, GreatestIs
    <3>5. end <= Greatest(a[to.i][1], w[1])
      BY <1>6, <2>5, <3>2, <3>3, <3>4
    <3> QED  BY <3>1, <3>5 DEF end
  <2>4. CASE ~(v[2] < w[2]) /\ to.i = i /\ to.j = j + 1
    <3>1. w[2] < b[to.j][1] /\ a[to.i] = v
      BY <1>1, <1>11, <2>1, <2>4 DEF v
    <3>2. b[to.j][1] \in Int
      BY <1>7, <2>1
    <3>3. end <= v[1] \/ end <= b[to.j][1]
      BY <1>6, <2>5, <3>1, <3>2
    <3>4. /\ v[1] <= Greatest(v[1], b[to.j][1]) /\ b[to.j][1] <= Greatest(v[1], b[to.j][1])
          /\ Greatest(v[1], b[to.j][1]) \in Int
      BY <1>6, <3>2, GreatestIs
    <3>5. end <= Greatest(v[1], b[to.j][1])
      BY <1>6, <2>5, <3>2, <3>3, <3>4
    <3> QED  BY <3>1, <3>5 DEF end
  <2> QED  BY <1>4, <2>3, <2>4 DEF end
<1>14. ASSUME NEW x \in Int
       PROVE  (\E k \in 1 .. Len(out) : Covers(out[k], x))
                <=> \E p \in 1 .. Len(a), q \in 1 .. Len(b) :
                      (p < to.i \/ q < to.j) /\ Covers(a[p], x) /\ Covers(b[q], x)
  <2>1. (\E k \in 1 .. Len(out) : Covers(out[k], x))
          <=> (\E k \in 1 .. m : Covers(at.out[k], x)) \/ Covers(c, x)
    <3>1. CASE c[1] < c[2]
      <4>1. m + 1 \in 1 .. Len(out) /\ \A k \in 1 .. m : k \in 1 .. Len(out)
        BY <1>1, <1>9, <3>1
      <4> QED  BY <1>9, <1>10, <3>1, <4>1
    <3>2. CASE ~(c[1] < c[2])
      <4>1. ~Covers(c, x)
        BY <1>3, <3>2 DEF Covers
      <4> QED  BY <1>9, <3>2, <4>1 DEF m
    <3> QED  BY <3>1, <3>2
  <2>2. Covers(c, x) <=> Covers(a[i], x) /\ Covers(b[j], x)
    BY <1>3 DEF v, w
  <2>3. ASSUME NEW p \in 1 .. Len(a), NEW q \in 1 .. Len(b), Covers(a[p], x), Covers(b[q], x)
        PROVE  (p < to.i \/ q < to.j) <=> (p < i \/ q < j \/ (p = i /\ q = j))
    <3>1. p \in Int /\ q \in Int /\ i \in Int /\ j \in Int
      BY <1>1
    <3>2. /\ p > i => v[2] < a[p][1]
          /\ q > j => w[2] < b[q][1]
      BY <1>11
    <3>3. a[p][1] <= x /\ b[q][1] <= x
      BY <2>3 DEF Covers
    <3>4. p = i => x < v[2]
      BY <2>3 DEF Covers, v
    <3>5. q = j => x < w[2]
      BY <2>3 DEF Covers, w
    <3>6. a[p][1] \in Int /\ b[q][1] \in Int
      BY <1>7
    <3>7. CASE v[2] < w[2] /\ to.i = i + 1 /\ to.j = j
      <4>1. p = i => ~(q > j)
        BY <1>6, <3>2, <3>3, <3>4, <3>6, <3>7
      <4> QED  BY <3>1, <3>7, <4>1
    <3>8. CASE ~(v[2] < w[2]) /\ to.i = i /\ to.j = j + 1
      <4>1. q = j => ~(p > i)
        BY <1>6, <3>2, <3>3, <3>5, <3>6, <3>8
      <4> QED  BY <3>1, <3>8, <4>1
    <3> QED  BY <1>4, <3>7, <3>8
  <2>4. (\E p \in 1 .. Len(a), q \in 1 .. Len(b) :
           (p < to.i \/ q < to.j) /\ Covers(a[p], x) /\ Covers(b[q], x))
          <=> (\E p \in 1 .. Len(a), q \in 1 .. Len(b) :
                 (p < i \/ q < j) /\ Covers(a[p], x) /\ Covers(b[q], x))
              \/ Covers(c, x)
    BY <1>1, <2>2, <2>3
  <2> QED  BY <1>5, <2>1, <2>4
<1> QED  BY <1>12, <1>13, <1>14 DEF Found, out, to

\* Intersect: windows in turn that cover what both lists cover.
LEMMA IntersectIs ==
  ASSUME NEW a \in Seq(Stretch), NEW b \in Seq(Stretch), Apart(a), Apart(b)
  PROVE  LET out == Intersect(a, b)
         IN  /\ out \in Seq(Stretch) /\ InTurn(out)
             /\ \A x \in Int : (\E k \in 1 .. Len(out) : Covers(out[k], x))
                  <=> /\ \E p \in 1 .. Len(a) : Covers(a[p], x)
                      /\ \E q \in 1 .. Len(b) : Covers(b[q], x)
<1> DEFINE N == Len(a) + Len(b)
<1>1. PICK f : Walks(a, b, f) /\ Intersect(a, b) = f[N].out
  BY WalkIs
<1>2. /\ f \in [0 .. N -> Walk(a, b)] /\ f[0] = [i |-> 1, j |-> 1, out |-> <<>>]
      /\ \A n \in 1 .. N : f[n] = Walked(a, b, f[n - 1])
  BY <1>1 DEF Walks
<1>3. N \in Nat /\ Len(a) \in Nat /\ Len(b) \in Nat
  OBVIOUS
<1> DEFINE Over(at) == at.i > Len(a) \/ at.j > Len(b)
           T == {n \in Nat : n <= N =>
                   Found(a, b, f[n]) /\ (Over(f[n]) \/ f[n].i + f[n].j = n + 2)}
<1> HIDE DEF N
<1>4. 0 \in T
  <2>1. f[0].i = 1 /\ f[0].j = 1 /\ f[0].out = <<>> /\ Len(f[0].out) = 0
    BY <1>2
  <2>2. Found(a, b, f[0])
    <3>1. InTurn(f[0].out)
      BY <2>1 DEF InTurn
    <3>2. \A p \in 1 .. Len(a), q \in 1 .. Len(b) : ~(p < f[0].i \/ q < f[0].j)
      BY <2>1
    <3>3. 1 .. Len(f[0].out) = {}
      BY <2>1
    <3> QED  BY <3>1, <3>2, <3>3 DEF Found
  <2>3. f[0].i + f[0].j = 0 + 2
    BY <2>1
  <2> QED  BY <2>2, <2>3
<1>5. ASSUME NEW n \in Nat, n \in T PROVE n + 1 \in T
  <2> SUFFICES ASSUME n + 1 <= N
               PROVE  Found(a, b, f[n + 1]) /\ (Over(f[n + 1]) \/ f[n + 1].i + f[n + 1].j = (n + 1) + 2)
    OBVIOUS
  <2>1. n + 1 \in 1 .. N /\ (n + 1) - 1 = n /\ n <= N /\ n \in 0 .. N
    BY <1>3
  <2>2. Found(a, b, f[n]) /\ (Over(f[n]) \/ f[n].i + f[n].j = n + 2)
    BY <1>5, <2>1
  <2>3. f[n + 1] = Walked(a, b, f[n]) /\ f[n] \in Walk(a, b)
    BY <1>2, <2>1
  <2>4. CASE Over(f[n])
    <3>1. f[n + 1] = f[n]
      BY <2>3, <2>4 DEF Walked
    <3> QED  BY <2>2, <2>4, <3>1
  <2>5. CASE ~Over(f[n])
    <3>1. f[n + 1] = Advanced(a, b, f[n])
      BY <2>3, <2>5 DEF Walked
    <3>2. Found(a, b, f[n + 1])
      BY <2>2, <2>3, <2>5, <3>1, FoundStep
    <3>3. f[n + 1].i + f[n + 1].j = (f[n].i + f[n].j) + 1
      <4>1. f[n].i \in Int /\ f[n].j \in Int
        BY <2>3 DEF Walk
      <4>2. \/ f[n + 1].i = f[n].i + 1 /\ f[n + 1].j = f[n].j
            \/ f[n + 1].i = f[n].i /\ f[n + 1].j = f[n].j + 1
        BY <2>3, <2>5, <3>1, AdvancedIs
      <4> QED  BY <4>1, <4>2
    <3> QED  BY <2>2, <2>5, <3>2, <3>3
  <2> QED  BY <2>4, <2>5
<1>6. N \in T
  <2> HIDE DEF T
  <2>1. Nat \subseteq T
    BY <1>4, <1>5, NaturalInduction
  <2> QED  BY <1>3, <2>1
<1> DEFINE at == f[N]
           out == Intersect(a, b)
<1>7. at \in Walk(a, b) /\ Found(a, b, at) /\ (Over(at) \/ at.i + at.j = N + 2)
  BY <1>2, <1>3, <1>6
<1>8. out = at.out
  BY <1>1 DEF N
<1> HIDE DEF at, out
<1>9. at.out \in Seq(Stretch) /\ at.i \in Int /\ at.j \in Int
  BY <1>7 DEF Walk
<1>10. Over(at)
  BY <1>3, <1>7, <1>9 DEF N
<1>11. \A p \in 1 .. Len(a), q \in 1 .. Len(b) : p < at.i \/ q < at.j
  BY <1>3, <1>9, <1>10
<1>12. \A x \in Int : (\E k \in 1 .. Len(at.out) : Covers(at.out[k], x))
         <=> \E p \in 1 .. Len(a), q \in 1 .. Len(b) :
               (p < at.i \/ q < at.j) /\ Covers(a[p], x) /\ Covers(b[q], x)
  BY ONLY <1>7, Zenon DEF Found
<1>13. \A x \in Int : (\E k \in 1 .. Len(at.out) : Covers(at.out[k], x))
         <=> /\ \E p \in 1 .. Len(a) : Covers(a[p], x)
             /\ \E q \in 1 .. Len(b) : Covers(b[q], x)
  BY <1>11, <1>12
<1>14. InTurn(at.out)
  BY <1>7 DEF Found
<1> QED  BY <1>8, <1>9, <1>13, <1>14 DEF out

-----------------------------------------------------------------------------
(* Talk, overlap and silence.                                              *)

LEMMA WindowsIs ==
  ASSUME NEW list \in Seq(Stretch)
  PROVE  /\ Windows(list) \in SUBSET Stretch /\ IsFiniteSet(Windows(list))
         /\ \A x : x \in Instants(Windows(list))
                     <=> x \in Int /\ \E k \in 1 .. Len(list) : Covers(list[k], x)
<1>1. Windows(list) = {list[n] : n \in 1 .. Len(list)}
  BY DEF Windows
<1>2. Windows(list) \in SUBSET Stretch
  BY <1>1
<1>3. IsFiniteSet(Windows(list))
  <2> DEFINE f == [n \in 1 .. Len(list) |-> list[n]]
  <2>1. f \in [1 .. Len(list) -> Windows(list)] /\ Windows(list) = {f[n] : n \in 1 .. Len(list)}
    BY <1>1
  <2>2. IsFiniteSet(1 .. Len(list))
    <3>1. Len(list) \in Int
      OBVIOUS
    <3> QED  BY <3>1, FS_Interval
  <2> HIDE DEF f
  <2> QED  BY <2>1, <2>2, ImageFinite
<1>4. \A x : x \in Instants(Windows(list))
               <=> x \in Int /\ \E k \in 1 .. Len(list) : Covers(list[k], x)
  <2>1. \A x : (\E w \in Windows(list) : Covers(w, x)) <=> \E k \in 1 .. Len(list) : Covers(list[k], x)
    BY <1>1
  <2> QED  BY <1>2, <2>1, InstantIs
<1> QED  BY <1>2, <1>3, <1>4

LEMMA TotalWindows ==
  ASSUME NEW list \in Seq(Stretch), InTurn(list)
  PROVE  Total(list) = Cardinality(Instants(Windows(list)))
BY TotalIs DEF Windows

LEMMA MergedIs ==
  ASSUME NEW S \in SUBSET Stretch, IsFiniteSet(S)
  PROVE  /\ Merge(S) \in Seq(Stretch) /\ Apart(Merge(S)) /\ InTurn(Merge(S))
         /\ Instants(Windows(Merge(S))) = Instants(S)
<1> DEFINE m == Merge(S)
<1>1. /\ m \in Seq(Stretch) /\ Apart(m)
      /\ \A x \in Int : (\E i \in 1 .. Len(m) : Covers(m[i], x)) <=> \E w \in S : Covers(w, x)
  BY MergeIs DEF UnionIs
<1> HIDE DEF m
<1>2. InTurn(m)
  BY <1>1, ApartInTurn
<1>3. \A x : x \in Instants(Windows(m)) <=> x \in Instants(S)
  BY <1>1, WindowsIs, InstantIs
<1> QED  BY <1>1, <1>2, <1>3 DEF m

AgentSpan == [from : Int, to : Int, open : BOOLEAN]

\* The invariant: what is spoken has the shape the metrics read, and utterances
\* of the caller stand apart.
TalkTyped ==
  /\ talk \in [caller : SUBSET Window, heard : SUBSET Window, agent : SUBSET AgentSpan,
               traced : BOOLEAN, offset : Int, padding : SUBSET Window]
  /\ IsFiniteSet(talk.caller) /\ IsFiniteSet(talk.heard)
  /\ IsFiniteSet(talk.agent) /\ IsFiniteSet(talk.padding)
  /\ \A s \in talk.agent : s.from <= s.to

LEMMA WindowStretch ==
  /\ Window \in SUBSET Stretch
  /\ \A w \in Window : w[1] \in Int /\ w[2] \in Int /\ w[1] < w[2]
<1>1. \A w \in Window : w[1] \in Int /\ w[2] \in Int /\ w[1] < w[2] /\ w \in Int \X Int
  BY DEF Window
<1> QED  BY <1>1 DEF Stretch, Win

LEMMA SpokenIs ==
  ASSUME NEW S \in SUBSET AgentSpan, IsFiniteSet(S), \A s \in S : s.from <= s.to, NEW offset \in Int
  PROVE  SpokenWindows(S, offset) \in SUBSET Stretch /\ IsFiniteSet(SpokenWindows(S, offset))
<1> DEFINE R == {t \in S : ~t.open}
           f == [s \in R |-> <<s.from - offset, s.to - offset>>]
           W == SpokenWindows(S, offset)
<1>1. W = {<<s.from - offset, s.to - offset>> : s \in R}
  BY DEF SpokenWindows
<1>2. \A s \in R : s.from \in Int /\ s.to \in Int /\ s.from <= s.to
  BY DEF AgentSpan
<1>3. \A s \in R : <<s.from - offset, s.to - offset>> \in Stretch
  <2> SUFFICES ASSUME NEW s \in R PROVE <<s.from - offset, s.to - offset>> \in Stretch
    OBVIOUS
  <2>1. s.from - offset \in Int /\ s.to - offset \in Int /\ s.from - offset <= s.to - offset
    BY <1>2
  <2> QED  BY <2>1, StretchIs
<1>4. IsFiniteSet(R)
  BY FS_Subset
<1> HIDE DEF R
<1>5. f \in [R -> W] /\ W = {f[s] : s \in R}
  BY <1>1
<1> HIDE DEF f, W
<1>6. IsFiniteSet(W)
  BY <1>4, <1>5, ImageFinite
<1>7. W \in SUBSET Stretch
  BY <1>1, <1>3
<1> QED  BY <1>6, <1>7 DEF W

LEMMA TalkTypedInit ==
  ASSUME TalkInit PROVE TalkTyped
<1>1. talk \in [caller : {{}}, heard : {{}}, agent : {{}}, traced : BOOLEAN,
                offset : Offset, padding : Padding]
  BY DEF TalkInit
<1>2. talk.offset \in Int /\ IsFiniteSet(talk.padding) /\ talk.padding \subseteq Window
  BY <1>1, IntervalAssumption
<1>3. talk.caller = {} /\ talk.heard = {} /\ talk.agent = {} /\ IsFiniteSet({})
  BY <1>1, FS_EmptySet
<1> QED  BY <1>1, <1>2, <1>3 DEF TalkTyped

LEMMA TalkTypedStep ==
  ASSUME TalkTyped, [TalkNext]_talk PROVE TalkTyped'
<1> DEFINE Talk == [caller : SUBSET Window, heard : SUBSET Window, agent : SUBSET AgentSpan,
                    traced : BOOLEAN, offset : Int, padding : SUBSET Window]
<1>1. ASSUME NEW w \in Clock \X Clock, CallerSpeaks(w) \/ AgentHeard(w) PROVE TalkTyped'
  <2>1. w \in Window
    BY <1>1, IntervalAssumption DEF CallerSpeaks, AgentHeard, Window
  <2>2. \/ talk' = [talk EXCEPT !.caller = talk.caller \cup {w}]
        \/ talk' = [talk EXCEPT !.heard = talk.heard \cup {w}]
    BY <1>1 DEF CallerSpeaks, AgentHeard
  <2>3. /\ talk'.caller \in {talk.caller, talk.caller \cup {w}}
        /\ talk'.heard \in {talk.heard, talk.heard \cup {w}}
        /\ talk'.agent = talk.agent /\ talk'.padding = talk.padding
        /\ talk' \in Talk
    BY <2>1, <2>2 DEF TalkTyped
  <2>4. IsFiniteSet(talk.caller \cup {w}) /\ IsFiniteSet(talk.heard \cup {w})
    BY FS_AddElement DEF TalkTyped
  <2> QED  BY <2>3, <2>4 DEF TalkTyped
<1>2. ASSUME NEW w \in Clock \X Clock, NEW open \in BOOLEAN, AgentSpeaks(w, open) PROVE TalkTyped'
  <2> DEFINE s == [from |-> w[1], to |-> w[2], open |-> open]
  <2>1. s \in AgentSpan /\ s.from <= s.to
    BY <1>2, IntervalAssumption DEF AgentSpeaks, AgentSpan
  <2>2. talk' = [talk EXCEPT !.agent = talk.agent \cup {s}]
    BY <1>2 DEF AgentSpeaks
  <2> HIDE DEF s
  <2>3. /\ talk'.caller = talk.caller /\ talk'.agent = talk.agent \cup {s}
        /\ talk'.heard = talk.heard /\ talk'.padding = talk.padding
        /\ talk' \in Talk
    BY <2>1, <2>2 DEF TalkTyped
  <2>4. IsFiniteSet(talk.agent \cup {s})
    BY FS_AddElement DEF TalkTyped
  <2> QED  BY <2>1, <2>3, <2>4 DEF TalkTyped
<1>3. CASE UNCHANGED talk
  BY <1>3 DEF TalkTyped
<1> QED  BY <1>1, <1>2, <1>3 DEF TalkNext

LEMMA DurationIs ==
  ASSUME NEW C \in SUBSET Window, IsFiniteSet(C), NEW list \in Seq(Stretch)
  PROVE  /\ Duration(C, list) \in Int /\ 0 <= Duration(C, list)
         /\ \A u \in C : u[2] <= Duration(C, list)
         /\ \A w \in Windows(list) : w[2] <= Duration(C, list)
<1> DEFINE f == [u \in C |-> u[2]]
           g == [w \in Windows(list) |-> w[2]]
           Ends == {f[u] : u \in C}
           Lasts == {g[w] : w \in Windows(list)}
           S == {0} \cup Ends \cup Lasts
<1>1. Duration(C, list) = Max({0} \cup {u[2] : u \in C} \cup {w[2] : w \in Windows(list)})
  BY DEF Duration
<1>2. Ends = {u[2] : u \in C} /\ Lasts = {w[2] : w \in Windows(list)}
  OBVIOUS
<1>3. Ends \in SUBSET Int /\ Lasts \in SUBSET Int
  BY WindowStretch, WindowsIs, StretchIs
<1>4. IsFiniteSet(Ends) /\ IsFiniteSet(Lasts)
  <2>1. f \in [C -> Ends] /\ g \in [Windows(list) -> Lasts]
    OBVIOUS
  <2> HIDE DEF f, g
  <2>2. IsFiniteSet(Windows(list))
    BY WindowsIs
  <2> QED  BY <2>1, <2>2, ImageFinite
<1> HIDE DEF Ends, Lasts
<1>5. IsFiniteSet(S)
  <2>1. IsFiniteSet({0})
    BY FS_Singleton
  <2>2. IsFiniteSet({0} \cup Ends)
    BY <1>4, <2>1, FS_Union
  <2> QED  BY <1>4, <2>2, FS_Union
<1>6. S \in SUBSET Int /\ 0 \in S
  BY <1>3
<1>7. Duration(C, list) = Max(S)
  BY <1>1, <1>2
<1> HIDE DEF S
<1>8. Max(S) \in S /\ \A t \in S : t <= Max(S)
  <2>1. \E t \in S : \A u \in S : u <= t
    BY <1>5, <1>6, HasEnds
  <2> QED  BY <2>1 DEF Max
<1> QED  BY <1>2, <1>6, <1>7, <1>8 DEF S

LEMMA RatioIs ==
  ASSUME NEW C \in SUBSET Stretch, IsFiniteSet(C), NEW W \in SUBSET Stretch, IsFiniteSet(W)
  PROVE  LET ratio == TalkRatio(C, Merge(W))
         IN  /\ ratio.caller = Cardinality(Instants(C))
             /\ ratio.agent = Cardinality(Instants(W))
             /\ ratio.overlap = Cardinality(Instants(C) \cap Instants(W))
<1> DEFINE a == Merge(C)
           b == Merge(W)
           both == Intersect(a, b)
<1>1. /\ a \in Seq(Stretch) /\ Apart(a) /\ Instants(Windows(a)) = Instants(C)
      /\ b \in Seq(Stretch) /\ Apart(b) /\ Instants(Windows(b)) = Instants(W)
  BY MergedIs
<1>2. Total(a) = Cardinality(Instants(C)) /\ Total(b) = Cardinality(Instants(W))
  BY MergedTotal
<1>3. LET ratio == TalkRatio(C, b)
      IN  ratio.caller = Total(a) /\ ratio.agent = Total(b) /\ ratio.overlap = Total(both)
  BY DEF TalkRatio, UttsToIntervals
<1> HIDE DEF a, b
<1>4. /\ both \in Seq(Stretch) /\ InTurn(both)
      /\ \A x \in Int : (\E k \in 1 .. Len(both) : Covers(both[k], x))
           <=> /\ \E p \in 1 .. Len(a) : Covers(a[p], x)
               /\ \E q \in 1 .. Len(b) : Covers(b[q], x)
  BY <1>1, IntersectIs
<1> HIDE DEF both
<1>5. \A x : x \in Instants(Windows(both)) <=> x \in Instants(Windows(a)) /\ x \in Instants(Windows(b))
  BY <1>1, <1>4, WindowsIs
<1>6. Instants(Windows(both)) = Instants(C) \cap Instants(W)
  BY <1>1, <1>5
<1>7. Total(both) = Cardinality(Instants(C) \cap Instants(W))
  BY <1>4, <1>6, TotalWindows
<1> QED  BY <1>2, <1>3, <1>7 DEF b

\* Everything is counted once.
LEMMA CountedOnce ==
  ASSUME NEW H, IsFiniteSet(H), NEW W, IsFiniteSet(W), NEW D, IsFiniteSet(D)
  PROVE  Cardinality(H) + Cardinality(W) - Cardinality(H \cap W) + Cardinality(D \ (H \cup W))
           = Cardinality(H \cup W \cup D)
<1>1. /\ IsFiniteSet(H \cup W)
      /\ Cardinality(H \cup W) = Cardinality(H) + Cardinality(W) - Cardinality(H \cap W)
  BY FS_Union
<1> DEFINE U == H \cup W
           rest == D \ U
<1>2. IsFiniteSet(rest)
  <2> HIDE DEF U
  <2> QED  BY FS_Difference
<1>3. U \cup D = U \cup rest /\ U \cap rest = {}
  OBVIOUS
<1> HIDE DEF rest, U
<1>4. Cardinality(U \cup rest) = Cardinality(U) + Cardinality(rest) - Cardinality(U \cap rest)
  BY <1>1, <1>2, FS_Union DEF U
<1>5. Cardinality(U \cap rest) = 0
  BY <1>3, FS_EmptySet
<1>6. Cardinality(U) \in Nat /\ Cardinality(rest) \in Nat
  BY <1>1, <1>2, FS_CardinalityType DEF U
<1>7. Cardinality(U \cup D) = Cardinality(U) + Cardinality(rest)
  BY <1>3, <1>4, <1>5, <1>6
<1> QED  BY <1>1, <1>7 DEF U, rest

LEMMA BargeIns ==
  ASSUME NEW C \in SUBSET Window, NEW W \in SUBSET Stretch, IsFiniteSet(W)
  PROVE  BargeInCount(C, Merge(W)) = Cardinality({u \in C : {u[1] - 1, u[1]} \subseteq Instants(W)})
<1> DEFINE b == Merge(W)
<1>1. b \in Seq(Stretch) /\ Apart(b) /\ Instants(Windows(b)) = Instants(W)
  BY MergedIs
<1> HIDE DEF b
<1>2. \A k \in 1 .. Len(b) : b[k][1] \in Int /\ b[k][2] \in Int
  <2>1. \A k \in 1 .. Len(b) : b[k] \in Stretch
    BY <1>1
  <2> QED  BY <2>1, StretchIs
<1>3. ASSUME NEW u \in C
      PROVE  (\E w \in Windows(b) : w[1] < u[1] /\ u[1] < w[2])
               <=> {u[1] - 1, u[1]} \subseteq Instants(W)
  <2>1. u[1] \in Int
    BY WindowStretch
  <2>2. {u[1] - 1, u[1]} \subseteq Instants(W)
          <=> /\ \E k \in 1 .. Len(b) : Covers(b[k], u[1] - 1)
              /\ \E k \in 1 .. Len(b) : Covers(b[k], u[1])
    <3>1. u[1] - 1 \in Int
      BY <2>1
    <3> QED  BY <1>1, <2>1, <3>1, WindowsIs
  <2>3. (\E w \in Windows(b) : w[1] < u[1] /\ u[1] < w[2])
          <=> \E k \in 1 .. Len(b) : b[k][1] < u[1] /\ u[1] < b[k][2]
    BY DEF Windows
  <2>4. \A k \in 1 .. Len(b) : b[k][1] < u[1] /\ u[1] < b[k][2]
          <=> Covers(b[k], u[1] - 1) /\ Covers(b[k], u[1])
    BY <1>2, <2>1 DEF Covers
  <2>5. \A k, l \in 1 .. Len(b) : Covers(b[k], u[1] - 1) /\ Covers(b[l], u[1]) => k = l
    <3> SUFFICES ASSUME NEW k \in 1 .. Len(b), NEW l \in 1 .. Len(b), k # l,
                        Covers(b[k], u[1] - 1), Covers(b[l], u[1])
                 PROVE  FALSE
      OBVIOUS
    <3>1. k < l => b[k][2] < b[l][1]
      BY <1>1 DEF Apart
    <3>2. l < k => b[l][2] < b[k][1]
      BY <1>1 DEF Apart
    <3>3. u[1] - 1 < b[k][2] /\ b[l][1] <= u[1] /\ u[1] < b[l][2] /\ b[k][1] <= u[1] - 1
      BY DEF Covers
    <3>4. k < l \/ l < k
      OBVIOUS
    <3>5. b[k][1] \in Int /\ b[k][2] \in Int /\ b[l][1] \in Int /\ b[l][2] \in Int
      BY <1>2
    <3> QED  BY <2>1, <3>1, <3>2, <3>3, <3>4, <3>5
  <2> QED  BY <2>2, <2>3, <2>4, <2>5
<1>4. {u \in C : \E w \in Windows(b) : w[1] < u[1] /\ u[1] < w[2]}
        = {u \in C : {u[1] - 1, u[1]} \subseteq Instants(W)}
  BY <1>3
<1> QED  BY <1>4 DEF BargeInCount, b

-----------------------------------------------------------------------------
(* Silence.                                                                *)

\* The stretches of U in turn: none can be prolonged but over a mark, and none
\* has a mark within.
Runs(list, U, M) ==
  /\ list \in Seq(Window) /\ InTurn(list)
  /\ \A x \in Int : (\E k \in 1 .. Len(list) : Covers(list[k], x)) <=> x \in U
  /\ \A k \in 1 .. Len(list) :
       /\ list[k][1] - 1 \notin U \/ list[k][1] \in M
       /\ list[k][2] \notin U \/ list[k][2] \in M
       /\ \A mark \in M : ~(list[k][1] < mark /\ mark < list[k][2])

LEMMA WindowSeq ==
  \A list \in Seq(Window) : list \in Seq(Stretch)
<1> SUFFICES ASSUME NEW list \in Seq(Window) PROVE list \in Seq(Stretch)
  OBVIOUS
<1>1. \A n \in 1 .. Len(list) : list[n] \in Stretch
  BY WindowStretch
<1>2. list = [n \in 1 .. Len(list) |-> list[n]] /\ Len(list) \in Nat
  OBVIOUS
<1> QED  BY <1>1, <1>2

LEMMA RunIs ==
  ASSUME NEW list, NEW U \in SUBSET Int, NEW M \in SUBSET Int, Runs(list, U, M),
         NEW k \in 1 .. Len(list), NEW x \in Int, Covers(list[k], x)
  PROVE  SilentRun(x, U, M) = list[k][1] .. list[k][2] - 1
<1> DEFINE s == list[k][1]
           e == list[k][2]
           R == SilentRun(x, U, M)
<1>1. /\ list \in Seq(Window)
      /\ \A y \in Int : (\E n \in 1 .. Len(list) : Covers(list[n], y)) <=> y \in U
      /\ s - 1 \notin U \/ s \in M
      /\ e \notin U \/ e \in M
      /\ \A mark \in M : ~(s < mark /\ mark < e)
  BY DEF Runs
<1>2. s \in Int /\ e \in Int /\ s < e
  <2>1. list[k] \in Window
    BY <1>1
  <2> QED  BY <2>1, WindowStretch
<1>3. s <= x /\ x < e
  BY DEF Covers
<1>4. \A y \in s .. e - 1 : y \in U
  <2> SUFFICES ASSUME NEW y \in s .. e - 1 PROVE y \in U
    OBVIOUS
  <2>1. y \in Int /\ Covers(list[k], y)
    BY <1>2 DEF Covers
  <2> QED  BY <1>1, <2>1
<1> HIDE DEF s, e
<1>5. ASSUME NEW y \in s .. e - 1 PROVE y \in R
  <2>1. y \in Int /\ s <= y /\ y < e
    BY <1>2
  <2>2. \A z \in Least(x, y) .. Greatest(x, y) : z \in s .. e - 1
    BY <1>2, <1>3, <2>1 DEF Least, Greatest
  <2>3. \A z \in Least(x, y) + 1 .. Greatest(x, y) : s < z /\ z < e
    BY <1>2, <1>3, <2>1 DEF Least, Greatest
  <2>4. Least(x, y) .. Greatest(x, y) \subseteq U
    BY <1>4, <2>2
  <2>5. (Least(x, y) + 1 .. Greatest(x, y)) \cap M = {}
    BY <1>1, <2>3
  <2> QED  BY <1>4, <2>4, <2>5 DEF SilentRun
<1>6. ASSUME NEW y \in R PROVE y \in s .. e - 1
  <2>1. /\ y \in U /\ y \in Int /\ Least(x, y) .. Greatest(x, y) \subseteq U
        /\ (Least(x, y) + 1 .. Greatest(x, y)) \cap M = {}
    BY <1>6 DEF SilentRun
  <2>2. ~(y < s)
    <3> SUFFICES ASSUME y < s PROVE FALSE
      OBVIOUS
    <3>1. s - 1 \in Least(x, y) .. Greatest(x, y) /\ s \in Least(x, y) + 1 .. Greatest(x, y)
      BY <1>2, <1>3, <2>1 DEF Least, Greatest
    <3> QED  BY <1>1, <2>1, <3>1
  <2>3. ~(e <= y)
    <3> SUFFICES ASSUME e <= y PROVE FALSE
      OBVIOUS
    <3>1. e \in Least(x, y) .. Greatest(x, y) /\ e \in Least(x, y) + 1 .. Greatest(x, y)
      BY <1>2, <1>3, <2>1 DEF Least, Greatest
    <3> QED  BY <1>1, <2>1, <3>1
  <2> QED  BY <1>2, <2>1, <2>2, <2>3
<1>7. R = s .. e - 1
  BY <1>5, <1>6
<1> QED  BY <1>7 DEF s, e

\* Where the lengths of the long runs are added up, the instants of long silent
\* stretches are counted.
LEMMA LongRuns ==
  ASSUME NEW list, NEW U \in SUBSET Int, NEW M \in SUBSET Int, Runs(list, U, M)
  PROVE  LET lasts == Lengths(list)
         IN  Added([n \in DOMAIN lasts |-> IF lasts[n] >= MinGap THEN lasts[n] ELSE 0])
               = Cardinality({i \in U : Cardinality(SilentRun(i, U, M)) >= MinGap})
<1> DEFINE N == Len(list)
           Long(n) == list[n][2] - list[n][1] >= MinGap
           Cut(n) == IF Long(n) THEN list[n] ELSE <<list[n][1], list[n][1]>>
           cuts == [n \in 1 .. N |-> Cut(n)]
           lasts == Lengths(list)
           numbers == [n \in DOMAIN lasts |-> IF lasts[n] >= MinGap THEN lasts[n] ELSE 0]
           I == {i \in U : Cardinality(SilentRun(i, U, M)) >= MinGap}
<1>1. /\ list \in Seq(Window) /\ N \in Nat
      /\ \A x \in Int : (\E n \in 1 .. N : Covers(list[n], x)) <=> x \in U
  BY DEF Runs
<1>2. \A n \in 1 .. N : list[n][1] \in Int /\ list[n][2] \in Int /\ list[n][1] < list[n][2]
                         /\ list[n] \in Stretch
  <2>1. \A n \in 1 .. N : list[n] \in Window
    BY <1>1
  <2> QED  BY <2>1, WindowStretch
<1>3. \A n \in 1 .. N : /\ Cut(n) \in Stretch /\ Cut(n)[1] = list[n][1]
                        /\ Long(n) => Cut(n)[2] = list[n][2]
                        /\ ~Long(n) => Cut(n)[2] = list[n][1]
  <2> SUFFICES ASSUME NEW n \in 1 .. N
               PROVE  /\ Cut(n) \in Stretch /\ Cut(n)[1] = list[n][1]
                      /\ Long(n) => Cut(n)[2] = list[n][2]
                      /\ ~Long(n) => Cut(n)[2] = list[n][1]
    OBVIOUS
  <2>1. <<list[n][1], list[n][1]>> \in Stretch
    BY <1>2, StretchIs
  <2> HIDE DEF Long
  <2>2. CASE Long(n)
    BY <1>2, <2>2
  <2>3. CASE ~Long(n)
    BY <1>2, <2>1, <2>3
  <2> QED  BY <2>2, <2>3
<1>4. cuts \in Seq(Stretch) /\ Len(cuts) = N /\ \A n \in 1 .. N : cuts[n] = Cut(n)
  <2> HIDE DEF Cut
  <2> QED  BY <1>1, <1>3
<1>5. Lengths(cuts) = numbers
  <2>1. lasts = [n \in 1 .. N |-> list[n][2] - list[n][1]]
    BY DEF Lengths
  <2>2. numbers = [n \in 1 .. N |-> IF Long(n) THEN list[n][2] - list[n][1] ELSE 0]
    BY <2>1
  <2>3. Lengths(cuts) = [n \in 1 .. N |-> cuts[n][2] - cuts[n][1]]
    BY <1>4 DEF Lengths
  <2>4. \A n \in 1 .. N : cuts[n][2] - cuts[n][1] = IF Long(n) THEN list[n][2] - list[n][1] ELSE 0
    <3> SUFFICES ASSUME NEW n \in 1 .. N
                 PROVE  cuts[n][2] - cuts[n][1] = IF Long(n) THEN list[n][2] - list[n][1] ELSE 0
      OBVIOUS
    <3> HIDE DEF Long, Cut, cuts
    <3>1. CASE Long(n)
      BY <1>3, <1>4, <3>1
    <3>2. CASE ~Long(n)
      <4>1. cuts[n][2] = list[n][1] /\ cuts[n][1] = list[n][1]
        BY <1>3, <1>4, <3>2
      <4> QED  BY <1>2, <3>2, <4>1
    <3> QED  BY <3>1, <3>2
  <2> HIDE DEF cuts, numbers, Long
  <2> QED  BY <2>2, <2>3, <2>4
<1> HIDE DEF cuts, numbers, Cut
<1>6. InTurn(cuts)
  <2> SUFFICES ASSUME NEW i \in 1 .. N, NEW j \in 1 .. N, i < j
               PROVE  cuts[i][2] <= cuts[j][1]
    BY <1>4 DEF InTurn
  <2>1. list[i][2] <= list[j][1]
    BY DEF Runs, InTurn
  <2>2. cuts[j][1] = list[j][1] /\ cuts[i][2] \in {list[i][1], list[i][2]}
    BY <1>3, <1>4
  <2> QED  BY <1>2, <2>1, <2>2
<1>7. \A x \in Int : (\E n \in 1 .. N : Covers(cuts[n], x)) <=> x \in I
  <2> SUFFICES ASSUME NEW x \in Int PROVE (\E n \in 1 .. N : Covers(cuts[n], x)) <=> x \in I
    OBVIOUS
  <2>1. \A n \in 1 .. N : Covers(cuts[n], x) <=> Covers(list[n], x) /\ Long(n)
    <3> SUFFICES ASSUME NEW n \in 1 .. N
                 PROVE  Covers(cuts[n], x) <=> Covers(list[n], x) /\ Long(n)
      OBVIOUS
    <3> HIDE DEF Long
    <3>1. CASE Long(n)
      BY <1>3, <1>4, <3>1 DEF Covers
    <3>2. CASE ~Long(n)
      <4>1. cuts[n][1] = list[n][1] /\ cuts[n][2] = list[n][1]
        BY <1>3, <1>4, <3>2
      <4> QED  BY <1>2, <3>2, <4>1 DEF Covers
    <3> QED  BY <3>1, <3>2
  <2>2. \A n \in 1 .. N : Covers(list[n], x) => (Long(n) <=> Cardinality(SilentRun(x, U, M)) >= MinGap)
    <3> SUFFICES ASSUME NEW n \in 1 .. N, Covers(list[n], x)
                 PROVE  Long(n) <=> Cardinality(SilentRun(x, U, M)) >= MinGap
      OBVIOUS
    <3> DEFINE s == list[n][1]
               e == list[n][2]
    <3>1. SilentRun(x, U, M) = s .. e - 1
      BY RunIs
    <3>2. s \in Int /\ e \in Int /\ s < e
      BY <1>2
    <3> HIDE DEF s, e
    <3>3. Cardinality(s .. e - 1) = IF s > e - 1 THEN 0 ELSE (e - 1) - s + 1
      BY <3>2, FS_Interval
    <3>4. Cardinality(s .. e - 1) = e - s
      BY <3>2, <3>3
    <3> QED  BY <3>1, <3>4 DEF s, e
  <2> HIDE DEF Long
  <2> QED  BY <1>1, <2>1, <2>2
<1>8. Instants(Windows(cuts)) = I
  <2>1. \A x : x \in Instants(Windows(cuts)) <=> x \in Int /\ \E k \in 1 .. N : Covers(cuts[k], x)
    BY <1>4, WindowsIs
  <2>2. \A x \in I : x \in Int
    OBVIOUS
  <2> HIDE DEF I
  <2> QED  BY <1>7, <2>1, <2>2
<1>9. Total(cuts) = Cardinality(I)
  <2> HIDE DEF I
  <2> QED  BY <1>4, <1>6, <1>8, TotalWindows
<1>10. Added(numbers) = Cardinality(I)
  BY <1>5, <1>9 DEF Total
<1> QED  BY <1>10 DEF numbers

\* The gaps between windows.
Scan == [gaps : Seq(Window), cursor : Int]

LEMMA NextGapIs ==
  ASSUME NEW acc \in Scan, NEW w \in Stretch
  PROVE  LET to == NextGap(acc, w)
         IN  /\ to \in Scan /\ to.cursor = Greatest(acc.cursor, w[2])
             /\ to.gaps = IF w[1] > acc.cursor THEN Append(acc.gaps, <<acc.cursor, w[1]>>) ELSE acc.gaps
<1>1. acc.cursor \in Int /\ acc.gaps \in Seq(Window) /\ w[1] \in Int /\ w[2] \in Int
  BY StretchIs DEF Scan
<1>2. w[1] > acc.cursor => <<acc.cursor, w[1]>> \in Window
  BY <1>1 DEF Window
<1>3. (IF w[1] > acc.cursor THEN Append(acc.gaps, <<acc.cursor, w[1]>>) ELSE acc.gaps) \in Seq(Window)
  BY <1>1, <1>2
<1>4. Greatest(acc.cursor, w[2]) \in Int
  BY <1>1 DEF Greatest
<1> QED  BY <1>3, <1>4 DEF NextGap, Scan

\* What follows the last window.
Closed(end, duration) ==
  IF end.cursor < duration THEN Append(end.gaps, <<end.cursor, duration>>) ELSE end.gaps

\* The gaps after each window.
Scans(S, duration, f) ==
  /\ f \in [0 .. Len(Merge(S)) -> Scan] /\ f[0] = [gaps |-> <<>>, cursor |-> 0]
  /\ \A n \in 1 .. Len(Merge(S)) : f[n] = NextGap(f[n - 1], Merge(S)[n])

LEMMA ScanIs ==
  ASSUME NEW S, NEW duration, Merge(S) \in Seq(Stretch)
  PROVE  \E f : Scans(S, duration, f) /\ Complement(S, duration) = Closed(f[Len(Merge(S))], duration)
<1> DEFINE N == Len(Merge(S))
           Is(f) == f = [n \in 0 .. N |-> IF n = 0 THEN [gaps |-> <<>>, cursor |-> 0] ELSE NextGap(f[n - 1], Merge(S)[n])]
           at == CHOOSE f : Is(f)
           step == [p \in (1 .. N) \X (Scan) |-> NextGap(p[2], Merge(S)[p[1]])]
<1>1. N \in Nat /\ [gaps |-> <<>>, cursor |-> 0] \in Scan /\ step \in [(1 .. N) \X (Scan) -> Scan]
  <2>1. N \in Nat /\ [gaps |-> <<>>, cursor |-> 0] \in Scan
    BY DEF Scan
  <2>2. \A p \in (1 .. N) \X Scan : NextGap(p[2], Merge(S)[p[1]]) \in Scan
    <3> SUFFICES ASSUME NEW p \in (1 .. N) \X Scan PROVE NextGap(p[2], Merge(S)[p[1]]) \in Scan
      OBVIOUS
    <3>1. p[2] \in Scan /\ Merge(S)[p[1]] \in Stretch
      OBVIOUS
    <3> QED  BY <3>1, NextGapIs
  <2> QED  BY <2>1, <2>2
<1>2. PICK f : IsRecursion(f, N, Scan, [gaps |-> <<>>, cursor |-> 0], step)
  <2> HIDE DEF step, N
  <2> QED  BY <1>1, RecursionExists
<1>3. f \in [0 .. N -> Scan] /\ f[0] = [gaps |-> <<>>, cursor |-> 0]
  BY <1>2 DEF IsRecursion
<1>4. \A n \in 1 .. N : f[n] = NextGap(f[n - 1], Merge(S)[n])
  <2> SUFFICES ASSUME NEW n \in 1 .. N PROVE f[n] = NextGap(f[n - 1], Merge(S)[n])
    OBVIOUS
  <2>1. <<n, f[n - 1]>> \in (1 .. N) \X (Scan)
    <3> HIDE DEF N, step
    <3>1. n - 1 \in 0 .. N
      BY <1>1
    <3>2. f[n - 1] \in Scan
      BY <1>3, <3>1
    <3> QED  BY <3>2
  <2>2. f[n] = step[<<n, f[n - 1]>>]
    BY <1>2 DEF IsRecursion
  <2> QED  BY <2>1, <2>2
<1>5. Is(f)
  <2> HIDE DEF N
  <2>1. ASSUME NEW n \in 0 .. N PROVE f[n] = IF n = 0 THEN [gaps |-> <<>>, cursor |-> 0] ELSE NextGap(f[n - 1], Merge(S)[n])
    <3>1. n # 0 => n \in 1 .. N
      BY <1>1
    <3>2. n # 0 => f[n] = NextGap(f[n - 1], Merge(S)[n])
      BY <1>4, <3>1
    <3>3. n = 0 => f[n] = [gaps |-> <<>>, cursor |-> 0]
      BY <1>3
    <3> QED  BY <3>2, <3>3, Zenon
  <2> QED  BY <1>3, <2>1
<1>6. Is(at)
  <2> HIDE DEF Is
  <2> QED  BY <1>5
<1>7. Complement(S, duration) = Closed(at[Len(Merge(S))], duration)
  BY DEF Complement, Closed
<1> HIDE DEF at, N, step
<1>8. \A n \in 0 .. N : at[n] = IF n = 0 THEN [gaps |-> <<>>, cursor |-> 0] ELSE NextGap(at[n - 1], Merge(S)[n])
  BY <1>6
<1>9. DOMAIN at = 0 .. N /\ at = [n \in 0 .. N |-> at[n]]
  <2>1. PICK e : at = [n \in 0 .. N |-> e[n]]
    BY <1>6
  <2> QED  BY <2>1
<1>10. at = f
  <2>1. at[0] = f[0]
    <3>1. 0 \in 0 .. N
      BY <1>1
    <3>2. at[0] = [gaps |-> <<>>, cursor |-> 0]
      BY <1>8, <3>1
    <3> QED  BY <1>3, <3>2
  <2>2. ASSUME NEW n \in 1 .. N, at[n - 1] = f[n - 1] PROVE at[n] = f[n]
    <3>1. n \in 0 .. N /\ n # 0
      BY <1>1
    <3> QED  BY <1>4, <1>8, <2>2, <3>1
  <2> QED  BY <1>1, <1>3, <1>9, <2>1, <2>2, SameRecursion
<1>11. Scans(S, duration, f)
  BY <1>3, <1>4 DEF Scans, N
<1>12. Complement(S, duration) = Closed(f[Len(Merge(S))], duration)
  BY <1>7, <1>10
<1> QED  BY <1>11, <1>12

\* list holds the gaps before cursor that the first n windows of m leave.
GapsTo(m, n, list, cursor) ==
  /\ list \in Seq(Window) /\ InTurn(list)
  /\ \A k \in 1 .. Len(list) : list[k][2] <= cursor
  /\ \A x \in Int : (\E k \in 1 .. Len(list) : Covers(list[k], x))
       <=> 0 <= x /\ x < cursor /\ \A i \in 1 .. n : ~Covers(m[i], x)
  /\ \A k \in 1 .. Len(list) : list[k][1] = 0 \/ \E i \in 1 .. Len(m) : list[k][1] = m[i][2]
  /\ \A k \in 1 .. Len(list) : \A i \in 1 .. Len(m) :
       m[i][2] <= list[k][1] \/ list[k][2] <= m[i][1]

\* One more gap, from the cursor to stop.
LEMMA GapAdded ==
  ASSUME NEW m \in Seq(Stretch), NEW n \in Nat, NEW list, NEW cursor \in Int,
         GapsTo(m, n, list, cursor), 0 <= cursor,
         cursor = 0 \/ \E i \in 1 .. Len(m) : cursor = m[i][2],
         \A i \in 1 .. n : m[i][2] <= cursor, n <= Len(m),
         NEW stop \in Int, cursor < stop, \A i \in 1 .. Len(m) : i > n => stop <= m[i][1]
  PROVE  GapsTo(m, n, Append(list, <<cursor, stop>>), stop)
<1> DEFINE w == <<cursor, stop>>
           out == Append(list, w)
           N == Len(list)
<1>1. w \in Window /\ w[1] = cursor /\ w[2] = stop
  BY DEF Window
<1>2. /\ list \in Seq(Window) /\ N \in Nat
      /\ \A k, l \in 1 .. N : k < l => list[k][2] <= list[l][1]
      /\ \A k \in 1 .. N : list[k][2] <= cursor
      /\ \A k \in 1 .. N : list[k][1] = 0 \/ \E i \in 1 .. Len(m) : list[k][1] = m[i][2]
      /\ \A k \in 1 .. N : \A i \in 1 .. Len(m) : m[i][2] <= list[k][1] \/ list[k][2] <= m[i][1]
  BY DEF GapsTo, InTurn
<1>3. \A x \in Int : (\E k \in 1 .. N : Covers(list[k], x))
        <=> 0 <= x /\ x < cursor /\ \A i \in 1 .. n : ~Covers(m[i], x)
  BY ONLY GapsTo(m, n, list, cursor), Zenon DEF GapsTo
<1>4. \A k \in 1 .. N : list[k][1] \in Int /\ list[k][2] \in Int
  <2>1. \A k \in 1 .. N : list[k] \in Window
    BY <1>2
  <2> QED  BY <2>1, WindowStretch
<1>5. \A i \in 1 .. Len(m) : m[i][1] \in Int /\ m[i][2] \in Int /\ m[i][1] <= m[i][2]
  <2>1. \A i \in 1 .. Len(m) : m[i] \in Stretch
    OBVIOUS
  <2> QED  BY <2>1, StretchIs
<1> HIDE DEF w
<1>6. out \in Seq(Window) /\ Len(out) = N + 1 /\ out[N + 1] = w /\ \A k \in 1 .. N : out[k] = list[k]
  BY <1>1, <1>2
<1> HIDE DEF out
<1>7. ASSUME NEW k \in 1 .. N + 1 PROVE (k \in 1 .. N /\ k \in Int) \/ k = N + 1
  BY <1>2
<1>8. ASSUME NEW k \in 1 .. N + 1, NEW l \in 1 .. N + 1, k < l PROVE out[k][2] <= out[l][1]
  <2>1. k \in 1 .. N
    BY <1>2, <1>8
  <2>2. CASE l = N + 1
    BY <1>1, <1>2, <1>6, <2>1, <2>2
  <2>3. CASE l \in 1 .. N
    BY <1>2, <1>6, <1>8, <2>1, <2>3
  <2> QED  BY <1>7, <2>2, <2>3
<1>9. InTurn(out)
  BY <1>6, <1>8 DEF InTurn
<1>10. \A k \in 1 .. N + 1 : out[k][2] <= stop
  <2> SUFFICES ASSUME NEW k \in 1 .. N + 1 PROVE out[k][2] <= stop
    OBVIOUS
  <2>1. CASE k \in 1 .. N
    <3>1. out[k] = list[k] /\ list[k][2] <= cursor /\ list[k][2] \in Int
      BY <1>2, <1>4, <1>6, <2>1
    <3> QED  BY <3>1
  <2>2. CASE k = N + 1
    BY <1>1, <1>6, <2>2
  <2> QED  BY <1>7, <2>1, <2>2
<1>11. ASSUME NEW x \in Int
       PROVE  (\E k \in 1 .. N + 1 : Covers(out[k], x))
                <=> 0 <= x /\ x < stop /\ \A i \in 1 .. n : ~Covers(m[i], x)
  <2>1. (\E k \in 1 .. N + 1 : Covers(out[k], x)) <=> (\E k \in 1 .. N : Covers(list[k], x)) \/ Covers(w, x)
    <3>1. N + 1 \in 1 .. N + 1 /\ \A k \in 1 .. N : k \in 1 .. N + 1
      BY <1>2
    <3> QED  BY <1>6, <1>7, <3>1
  <2>2. Covers(w, x) <=> cursor <= x /\ x < stop
    BY <1>1 DEF Covers
  <2>3. cursor <= x => \A i \in 1 .. n : ~Covers(m[i], x)
    <3> SUFFICES ASSUME cursor <= x, NEW i \in 1 .. n PROVE ~Covers(m[i], x)
      OBVIOUS
    <3>1. i \in 1 .. Len(m)
      OBVIOUS
    <3> QED  BY <1>5, <3>1 DEF Covers
  <2> QED  BY <1>3, <2>1, <2>2, <2>3
<1>12. \A k \in 1 .. N + 1 : out[k][1] = 0 \/ \E i \in 1 .. Len(m) : out[k][1] = m[i][2]
  BY <1>1, <1>2, <1>6, <1>7
<1>13. ASSUME NEW k \in 1 .. N + 1, NEW i \in 1 .. Len(m)
       PROVE  m[i][2] <= out[k][1] \/ out[k][2] <= m[i][1]
  <2>1. CASE k \in 1 .. N
    BY <1>2, <1>6, <2>1
  <2>2. CASE k = N + 1
    <3>1. i \in 1 .. n \/ i > n
      OBVIOUS
    <3> QED  BY <1>1, <1>6, <2>2, <3>1
  <2> QED  BY <1>7, <2>1, <2>2
<1>14. GapsTo(m, n, out, stop)
  <2>1. Len(out) = N + 1
    BY <1>6
  <2> HIDE DEF N
  <2> QED  BY ONLY <2>1, <1>6, <1>9, <1>10, <1>11, <1>12, <1>13 DEF GapsTo
<1> QED  BY <1>14 DEF out, w

\* One window further.
LEMMA GapStep ==
  ASSUME NEW m \in Seq(Stretch), Apart(m), NEW n \in Nat, n + 1 <= Len(m), NEW acc \in Scan,
         GapsTo(m, n, acc.gaps, acc.cursor), 0 <= acc.cursor,
         IF n = 0 THEN acc.cursor = 0 ELSE acc.cursor \in {0, m[n][2]} /\ m[n][2] <= acc.cursor
  PROVE  LET to == NextGap(acc, m[n + 1])
         IN  /\ GapsTo(m, n + 1, to.gaps, to.cursor) /\ 0 <= to.cursor
             /\ to.cursor \in {0, m[n + 1][2]} /\ m[n + 1][2] <= to.cursor
<1> DEFINE w == m[n + 1]
           to == NextGap(acc, w)
           cursor == acc.cursor
<1>1. w \in Stretch /\ n + 1 \in 1 .. Len(m) /\ cursor \in Int
  BY DEF Scan
<1>2. /\ to \in Scan /\ to.cursor = Greatest(cursor, w[2])
      /\ to.gaps = IF w[1] > cursor THEN Append(acc.gaps, <<cursor, w[1]>>) ELSE acc.gaps
  BY <1>1, NextGapIs
<1>3. w[1] \in Int /\ w[2] \in Int /\ w[1] <= w[2]
  BY <1>1, StretchIs
<1>4. \A i \in 1 .. Len(m) : m[i][1] \in Int /\ m[i][2] \in Int /\ m[i][1] <= m[i][2]
  <2>1. \A i \in 1 .. Len(m) : m[i] \in Stretch
    OBVIOUS
  <2> QED  BY <2>1, StretchIs
<1>5. \A i \in 1 .. Len(m) : /\ i <= n => m[i][2] < w[1] /\ m[i][2] <= cursor
                             /\ i > n + 1 => w[2] < m[i][1]
  <2> SUFFICES ASSUME NEW i \in 1 .. Len(m)
               PROVE  /\ i <= n => m[i][2] < w[1] /\ m[i][2] <= cursor
                      /\ i > n + 1 => w[2] < m[i][1]
    OBVIOUS
  <2>1. i <= n => m[i][2] < w[1]
    BY <1>1 DEF Apart
  <2>2. i > n + 1 => w[2] < m[i][1]
    BY <1>1 DEF Apart
  <2>3. i <= n => m[i][2] <= cursor
    <3> SUFFICES ASSUME i <= n PROVE m[i][2] <= cursor
      OBVIOUS
    <3>1. n # 0 /\ n \in 1 .. Len(m)
      OBVIOUS
    <3>2. i = n \/ m[i][2] < m[n][1]
      BY <3>1 DEF Apart
    <3> QED  BY <1>1, <1>4, <3>1, <3>2
  <2> QED  BY <2>1, <2>2, <2>3
<1> DEFINE stop == Greatest(cursor, w[1])
           list == to.gaps
<1>6. stop \in Int /\ cursor <= stop /\ (stop = cursor \/ stop = w[1]) /\ w[1] <= stop
  BY <1>1, <1>3 DEF Greatest
<1>7. n # 0 => cursor < w[1] \/ cursor = 0
  BY <1>5
<1> HIDE DEF w, to, cursor
<1>8. GapsTo(m, n, list, stop)
  <2>1. CASE w[1] > cursor
    <3>1. stop = w[1] /\ list = Append(acc.gaps, <<cursor, w[1]>>)
      BY <1>1, <1>2, <1>3, <2>1 DEF Greatest
    <3>2. \A i \in 1 .. Len(m) : i > n => w[1] <= m[i][1]
      <4> SUFFICES ASSUME NEW i \in 1 .. Len(m), i > n PROVE w[1] <= m[i][1]
        OBVIOUS
      <4>1. i = n + 1 \/ i > n + 1
        OBVIOUS
      <4>2. i = n + 1 => m[i] = w
        BY DEF w
      <4> QED  BY <1>3, <1>4, <1>5, <4>1, <4>2
    <3>3. \A i \in 1 .. n : m[i][2] <= cursor
      BY <1>5
    <3>4. cursor = 0 \/ \E i \in 1 .. Len(m) : cursor = m[i][2]
      BY DEF cursor
    <3>5. GapsTo(m, n, acc.gaps, cursor) /\ 0 <= cursor /\ n <= Len(m)
      BY DEF cursor
    <3> HIDE DEF stop, list
    <3> QED  BY <1>1, <1>3, <2>1, <3>1, <3>2, <3>3, <3>4, <3>5, GapAdded
  <2>2. CASE ~(w[1] > cursor)
    <3>1. stop = cursor /\ list = acc.gaps
      BY <1>1, <1>2, <1>3, <2>2 DEF Greatest
    <3> HIDE DEF stop, list
    <3> QED  BY <3>1 DEF cursor
  <2> QED  BY <2>1, <2>2
<1>9. to.cursor = Greatest(stop, w[2])
  BY <1>1, <1>2, <1>3 DEF Greatest
<1> HIDE DEF stop, list
<1>10. to.cursor \in Int /\ stop <= to.cursor /\ w[2] <= to.cursor /\ (to.cursor = stop \/ to.cursor = w[2])
  BY <1>3, <1>6, <1>9 DEF Greatest
<1>11. /\ list \in Seq(Window) /\ InTurn(list)
       /\ \A k \in 1 .. Len(list) : list[k][2] <= stop
       /\ \A k \in 1 .. Len(list) : list[k][1] = 0 \/ \E i \in 1 .. Len(m) : list[k][1] = m[i][2]
       /\ \A k \in 1 .. Len(list) : \A i \in 1 .. Len(m) :
            m[i][2] <= list[k][1] \/ list[k][2] <= m[i][1]
  BY <1>8 DEF GapsTo
<1>12. \A x \in Int : (\E k \in 1 .. Len(list) : Covers(list[k], x))
         <=> 0 <= x /\ x < stop /\ \A i \in 1 .. n : ~Covers(m[i], x)
  BY ONLY <1>8, Zenon DEF GapsTo
<1>13. \A k \in 1 .. Len(list) : list[k][2] <= to.cursor
  <2>1. \A k \in 1 .. Len(list) : list[k] \in Window
    BY <1>11
  <2>2. \A k \in 1 .. Len(list) : list[k][2] \in Int
    BY <2>1, WindowStretch
  <2> QED  BY <1>6, <1>10, <1>11, <2>2
<1>14. ASSUME NEW x \in Int
       PROVE  (\E k \in 1 .. Len(list) : Covers(list[k], x))
                <=> 0 <= x /\ x < to.cursor /\ \A i \in 1 .. n + 1 : ~Covers(m[i], x)
  <2>1. (\A i \in 1 .. n + 1 : ~Covers(m[i], x)) <=> (\A i \in 1 .. n : ~Covers(m[i], x)) /\ ~Covers(w, x)
    <3>1. 1 .. n + 1 = (1 .. n) \cup {n + 1}
      OBVIOUS
    <3> QED  BY <3>1 DEF w
  <2>2. 0 <= x /\ x < stop => ~Covers(w, x)
    <3> SUFFICES ASSUME 0 <= x, x < stop, w[1] <= x, x < w[2] PROVE FALSE
      BY DEF Covers
    <3>1. stop = cursor /\ w[1] < cursor
      BY <1>1, <1>3, <1>6
    <3>2. n = 0 => cursor = 0
      BY DEF cursor
    <3> QED  BY <1>1, <1>3, <1>7, <3>1, <3>2
  <2>3. stop <= x /\ x < to.cursor => Covers(w, x)
    BY <1>3, <1>6, <1>10 DEF Covers
  <2>4. CASE x < stop
    <3>1. x < to.cursor
      BY <1>6, <1>10, <2>4
    <3> QED  BY <1>12, <2>1, <2>2, <2>4, <3>1
  <2>5. CASE ~(x < stop)
    <3>1. stop <= x
      BY <1>6, <2>5
    <3> QED  BY <1>12, <2>1, <2>3, <2>5, <3>1
  <2> QED  BY <2>4, <2>5
<1>15. GapsTo(m, n + 1, list, to.cursor)
  BY ONLY <1>11, <1>13, <1>14 DEF GapsTo
<1>16. 0 <= to.cursor
  <2>1. 0 <= cursor
    BY DEF cursor
  <2> QED  BY <1>1, <1>6, <1>10, <2>1
<1>17. to.cursor \in {0, w[2]}
  <2>1. CASE to.cursor = w[2]
    BY <2>1
  <2>2. CASE to.cursor = stop /\ stop = cursor
    <3>1. cursor = 0 \/ (n # 0 /\ cursor = m[n][2])
      BY DEF cursor
    <3>2. n # 0 /\ cursor = m[n][2] => cursor < w[1]
      BY <1>5
    <3> QED  BY <1>1, <1>3, <1>6, <1>10, <2>2, <3>1, <3>2
  <2>3. CASE to.cursor = stop /\ stop = w[1]
    BY <1>3, <1>10, <2>3
  <2> QED  BY <1>6, <1>10, <2>1, <2>2, <2>3
<1> QED  BY <1>10, <1>15, <1>16, <1>17 DEF list, to, w

\* The gaps of a set of windows up to duration.
LEMMA GapsAre ==
  ASSUME NEW S \in SUBSET Stretch, IsFiniteSet(S), NEW duration \in Int, 0 <= duration,
         \A w \in S : w[2] <= duration
  PROVE  LET m == Merge(S)
             gaps == Complement(S, duration)
         IN  /\ GapsTo(m, Len(m), gaps, duration)
             /\ \A k \in 1 .. Len(gaps) :
                  gaps[k][2] = duration \/ \E i \in 1 .. Len(m) : gaps[k][2] = m[i][1]
<1> DEFINE m == Merge(S)
           N == Len(m)
<1>1. UnionIs(S, m)
  BY MergeIs
<1>2. /\ m \in Seq(Stretch) /\ Apart(m) /\ N \in Nat
      /\ \A i \in 1 .. N : \E w \in S : w[1] = m[i][1]
  BY <1>1 DEF UnionIs
<1>3. \A x \in Int : (\E i \in 1 .. N : Covers(m[i], x)) <=> \E w \in S : Covers(w, x)
  BY ONLY <1>1, Zenon DEF UnionIs
<1>4. PICK f : Scans(S, duration, f) /\ Complement(S, duration) = Closed(f[N], duration)
  BY <1>2, ScanIs
<1>5. /\ f \in [0 .. N -> Scan] /\ f[0] = [gaps |-> <<>>, cursor |-> 0]
      /\ \A n \in 1 .. N : f[n] = NextGap(f[n - 1], m[n])
  BY <1>4 DEF Scans
<1> HIDE DEF m
<1>6. \A i \in 1 .. N : m[i][1] \in Int /\ m[i][2] \in Int /\ m[i][1] <= m[i][2]
  <2>1. \A i \in 1 .. N : m[i] \in Stretch
    BY <1>2
  <2> QED  BY <2>1, StretchIs
<1>7. \A w \in S : w[1] \in Int /\ w[2] \in Int /\ w[1] <= w[2] /\ w[2] <= duration
  BY StretchIs
<1>8. \A i \in 1 .. N : m[i][2] <= duration
  <2> SUFFICES ASSUME NEW i \in 1 .. N PROVE m[i][2] <= duration
    OBVIOUS
  <2>1. CASE m[i][1] < m[i][2]
    <3>1. m[i][2] - 1 \in Int /\ Covers(m[i], m[i][2] - 1)
      BY <1>6, <2>1 DEF Covers
    <3>2. PICK w \in S : Covers(w, m[i][2] - 1)
      BY <1>3, <3>1
    <3>3. m[i][2] - 1 < w[2]
      BY <3>2 DEF Covers
    <3> QED  BY <1>6, <1>7, <3>3
  <2>2. CASE ~(m[i][1] < m[i][2])
    <3>1. PICK w \in S : w[1] = m[i][1]
      BY <1>2
    <3> QED  BY <1>6, <1>7, <2>2, <3>1
  <2> QED  BY <2>1, <2>2
<1> DEFINE Stands(n) == IF n = 0 THEN f[n].cursor = 0
                        ELSE f[n].cursor \in {0, m[n][2]} /\ m[n][2] <= f[n].cursor
           Starts(n) == \A k \in 1 .. Len(f[n].gaps) : \E i \in 1 .. N : f[n].gaps[k][2] = m[i][1]
           T == {n \in Nat : n <= N =>
                   /\ GapsTo(m, n, f[n].gaps, f[n].cursor) /\ 0 <= f[n].cursor
                   /\ Stands(n) /\ Starts(n)}
<1>9. 0 \in T
  <2>1. f[0].gaps = <<>> /\ f[0].cursor = 0 /\ Len(f[0].gaps) = 0
    BY <1>5
  <2>2. GapsTo(m, 0, <<>>, 0)
    <3>1. InTurn(<<>>)
      BY DEF InTurn
    <3>2. <<>> \in Seq(Window) /\ 1 .. Len(<<>>) = {}
      OBVIOUS
    <3>3. \A x \in Int : ~(0 <= x /\ x < 0)
      OBVIOUS
    <3> QED  BY <3>1, <3>2, <3>3 DEF GapsTo
  <2>3. Stands(0) /\ Starts(0)
    BY <2>1
  <2> HIDE DEF Stands, Starts
  <2> QED  BY <2>1, <2>2, <2>3
<1>10. ASSUME NEW n \in Nat, n \in T PROVE n + 1 \in T
  <2> SUFFICES ASSUME n + 1 <= N
               PROVE  /\ GapsTo(m, n + 1, f[n + 1].gaps, f[n + 1].cursor) /\ 0 <= f[n + 1].cursor
                      /\ Stands(n + 1) /\ Starts(n + 1)
    OBVIOUS
  <2> DEFINE w == m[n + 1]
             acc == f[n]
             to == f[n + 1]
  <2>1. n + 1 \in 1 .. N /\ (n + 1) - 1 = n /\ n <= N /\ n \in 0 .. N /\ n + 1 # 0
    BY <1>2
  <2>2. /\ GapsTo(m, n, acc.gaps, acc.cursor) /\ 0 <= acc.cursor
        /\ IF n = 0 THEN acc.cursor = 0 ELSE acc.cursor \in {0, m[n][2]} /\ m[n][2] <= acc.cursor
        /\ \A k \in 1 .. Len(acc.gaps) : \E i \in 1 .. N : acc.gaps[k][2] = m[i][1]
    BY <1>10, <2>1
  <2>3. acc \in Scan /\ to = NextGap(acc, w)
    BY <1>5, <2>1
  <2>4. /\ GapsTo(m, n + 1, to.gaps, to.cursor) /\ 0 <= to.cursor
        /\ to.cursor \in {0, w[2]} /\ w[2] <= to.cursor
    <3> HIDE DEF T, acc, to
    <3> QED  BY <1>2, <2>2, <2>3, GapStep
  <2>5. Stands(n + 1)
    BY <2>1, <2>4
  <2>6. Starts(n + 1)
    <3>1. w \in Stretch
      BY <1>2, <2>1
    <3>2. to.gaps = IF w[1] > acc.cursor THEN Append(acc.gaps, <<acc.cursor, w[1]>>) ELSE acc.gaps
      BY <2>3, <3>1, NextGapIs
    <3>3. acc.gaps \in Seq(Window) /\ Len(acc.gaps) \in Nat
      BY <2>3 DEF Scan
    <3> HIDE DEF acc, to
    <3>4. ASSUME NEW k \in 1 .. Len(to.gaps)
          PROVE  \E i \in 1 .. N : to.gaps[k][2] = m[i][1]
      <4>1. CASE ~(w[1] > acc.cursor)
        BY <2>2, <3>2, <4>1
      <4>2. CASE w[1] > acc.cursor
        <5>1. to.gaps = Append(acc.gaps, <<acc.cursor, w[1]>>)
          BY <3>2, <4>2
        <5>2. k \in 1 .. Len(acc.gaps) \/ k = Len(acc.gaps) + 1
          BY <3>3, <5>1
        <5>3. CASE k \in 1 .. Len(acc.gaps)
          <6>1. to.gaps[k] = acc.gaps[k]
            BY <3>3, <5>1, <5>3
          <6> QED  BY <2>2, <5>3, <6>1
        <5>4. CASE k = Len(acc.gaps) + 1
          <6>1. to.gaps[k] = <<acc.cursor, w[1]>>
            BY <3>3, <5>1, <5>4
          <6>2. to.gaps[k][2] = w[1]
            BY <6>1
          <6> QED  BY <2>1, <6>2
        <5> QED  BY <5>2, <5>3, <5>4
      <4> QED  BY <4>1, <4>2
    <3> QED  BY <3>4 DEF to
  <2> HIDE DEF Stands, Starts
  <2> QED  BY <2>4, <2>5, <2>6
<1>11. N \in T
  <2> HIDE DEF T
  <2>1. Nat \subseteq T
    BY <1>9, <1>10, NaturalInduction
  <2> QED  BY <1>2, <2>1
<1> DEFINE end == f[N]
           gaps == Complement(S, duration)
<1>12. /\ GapsTo(m, N, end.gaps, end.cursor) /\ 0 <= end.cursor
       /\ Stands(N) /\ Starts(N)
  <2> HIDE DEF Stands, Starts
  <2> QED  BY <1>2, <1>11
<1>13. end \in Scan /\ end.gaps \in Seq(Window) /\ end.cursor \in Int /\ Len(end.gaps) \in Nat
  BY <1>2, <1>5 DEF Scan
<1>14. /\ end.cursor = 0 \/ \E i \in 1 .. N : end.cursor = m[i][2]
       /\ \A i \in 1 .. N : m[i][2] <= end.cursor
  <2>1. CASE N = 0
    BY <1>12, <2>1
  <2>2. CASE N # 0
    <3>1. N \in 1 .. N /\ end.cursor \in {0, m[N][2]} /\ m[N][2] <= end.cursor
      BY <1>2, <1>12, <2>2
    <3>2. ASSUME NEW i \in 1 .. N PROVE m[i][2] <= end.cursor
      <4>1. i = N \/ m[i][2] < m[N][1]
        BY <1>2, <3>1 DEF Apart
      <4> HIDE DEF end
      <4> QED  BY <1>6, <1>13, <3>1, <4>1
    <3> QED  BY <3>1, <3>2
  <2> QED  BY <2>1, <2>2
<1>15. gaps = Closed(end, duration)
  BY <1>4
<1>16. Starts(N) <=> \A k \in 1 .. Len(end.gaps) : \E i \in 1 .. N : end.gaps[k][2] = m[i][1]
  OBVIOUS
<1> HIDE DEF gaps, end, Starts, Stands, T
<1>17. CASE end.cursor < duration
  <2>1. gaps = Append(end.gaps, <<end.cursor, duration>>)
    BY <1>15, <1>17 DEF Closed
  <2>2. \A i \in 1 .. N : i > N => duration <= m[i][1]
    BY <1>2
  <2>3. N <= Len(m)
    BY <1>2
  <2>4. GapsTo(m, N, gaps, duration)
    <3> HIDE DEF N
    <3>1. N \in Nat /\ Len(m) = N
      BY <1>2 DEF N
    <3> QED  BY <1>2, <1>12, <1>13, <1>14, <1>17, <2>1, <2>2, <2>3, <3>1, GapAdded
  <2>5. ASSUME NEW k \in 1 .. Len(gaps)
        PROVE  gaps[k][2] = duration \/ \E i \in 1 .. N : gaps[k][2] = m[i][1]
    <3>1. k \in 1 .. Len(end.gaps) \/ k = Len(end.gaps) + 1
      BY <1>13, <2>1
    <3>2. CASE k \in 1 .. Len(end.gaps)
      <4>1. gaps[k] = end.gaps[k]
        BY <1>13, <2>1, <3>2
      <4> QED  BY <1>12, <1>16, <3>2, <4>1
    <3>3. CASE k = Len(end.gaps) + 1
      <4>1. gaps[k] = <<end.cursor, duration>>
        BY <1>13, <2>1, <3>3
      <4> QED  BY <4>1
    <3> QED  BY <3>1, <3>2, <3>3
  <2> QED  BY <2>4, <2>5 DEF gaps, m
<1>18. CASE ~(end.cursor < duration)
  <2>1. gaps = end.gaps
    BY <1>15, <1>18 DEF Closed
  <2>2. end.cursor = duration
    BY <1>8, <1>13, <1>14, <1>18
  <2> QED  BY <1>12, <1>16, <2>1, <2>2 DEF gaps, m
<1> QED  BY <1>17, <1>18

\* Between windows that stand apart and windows that leave marks.
LEMMA GapRuns ==
  ASSUME NEW C \in SUBSET Window, NEW A \in SUBSET Stretch, IsFiniteSet(C), IsFiniteSet(A),
         NEW duration \in Int, 0 <= duration, \A w \in C \cup A : w[2] <= duration
  PROVE  Runs(Complement(C \cup A, duration),
              (0 .. duration - 1) \ (Instants(C) \cup Instants(A)), {w[1] : w \in A})
<1> DEFINE S == C \cup A
           m == Merge(S)
           g == Complement(S, duration)
           U == (0 .. duration - 1) \ (Instants(C) \cup Instants(A))
           M == {w[1] : w \in A}
<1>1. S \in SUBSET Stretch /\ IsFiniteSet(S)
  BY WindowStretch, FS_Union
<1>2. Instants(S) = Instants(C) \cup Instants(A)
  BY DEF Instants
<1> HIDE DEF S
<1>3. /\ GapsTo(m, Len(m), g, duration)
      /\ \A k \in 1 .. Len(g) : g[k][2] = duration \/ \E i \in 1 .. Len(m) : g[k][2] = m[i][1]
  <2>1. \A w \in S : w[2] <= duration
    BY DEF S
  <2> QED  BY <1>1, <2>1, GapsAre
<1>4. UnionIs(S, m)
  BY <1>1, MergeIs
<1> HIDE DEF m, g
<1>5. /\ m \in Seq(Stretch)
      /\ \A i \in 1 .. Len(m) : \E w \in S : w[1] = m[i][1]
      /\ \A w \in S : \E i \in 1 .. Len(m) : m[i][1] <= w[1] /\ w[2] <= m[i][2]
  BY <1>4 DEF UnionIs
<1>6. \A x \in Int : (\E i \in 1 .. Len(m) : Covers(m[i], x)) <=> \E w \in S : Covers(w, x)
  BY ONLY <1>4, Zenon DEF UnionIs
<1>7. \A x : x \in Instants(S) <=> x \in Int /\ \E w \in S : Covers(w, x)
  BY <1>1, InstantIs
<1>8. /\ g \in Seq(Window) /\ InTurn(g)
      /\ \A k \in 1 .. Len(g) : g[k][1] = 0 \/ \E i \in 1 .. Len(m) : g[k][1] = m[i][2]
      /\ \A k \in 1 .. Len(g) : \A i \in 1 .. Len(m) : m[i][2] <= g[k][1] \/ g[k][2] <= m[i][1]
  BY <1>3 DEF GapsTo
<1>9. \A x \in Int : (\E k \in 1 .. Len(g) : Covers(g[k], x))
        <=> 0 <= x /\ x < duration /\ \A i \in 1 .. Len(m) : ~Covers(m[i], x)
  BY ONLY <1>3, Zenon DEF GapsTo
<1>10. \A x \in Int : (\E k \in 1 .. Len(g) : Covers(g[k], x)) <=> x \in U
  <2>1. \A x \in Int : x \in 0 .. duration - 1 <=> 0 <= x /\ x < duration
    OBVIOUS
  <2> QED  BY <1>2, <1>6, <1>7, <1>9, <2>1
<1>11. \A k \in 1 .. Len(g) : g[k][1] \in Int /\ g[k][2] \in Int /\ g[k][1] < g[k][2]
  <2>1. \A k \in 1 .. Len(g) : g[k] \in Window
    BY <1>8
  <2> QED  BY <2>1, WindowStretch
<1>12. \A i \in 1 .. Len(m) : m[i][1] \in Int /\ m[i][2] \in Int /\ m[i][1] <= m[i][2]
  <2>1. \A i \in 1 .. Len(m) : m[i] \in Stretch
    BY <1>5
  <2> QED  BY <2>1, StretchIs
<1>13. \A w \in S : w[1] \in Int /\ w[2] \in Int /\ w[1] <= w[2] /\ (w \in C => w[1] < w[2])
  BY <1>1, WindowStretch, StretchIs
<1>14. \A w \in S : w[1] \in M \/ w[1] \notin U
  <2> SUFFICES ASSUME NEW w \in S, w[1] \notin M PROVE w[1] \notin U
    OBVIOUS
  <2>1. w \in C
    BY DEF S
  <2>2. Covers(w, w[1])
    BY <1>13, <2>1 DEF Covers
  <2> QED  BY <1>2, <1>7, <1>13, <2>2
<1>15. ASSUME NEW k \in 1 .. Len(g) PROVE g[k][1] - 1 \notin U \/ g[k][1] \in M
  <2>1. CASE g[k][1] = 0
    BY <2>1
  <2>2. ASSUME NEW i \in 1 .. Len(m), g[k][1] = m[i][2] PROVE g[k][1] - 1 \notin U \/ g[k][1] \in M
    <3>1. CASE m[i][1] < m[i][2]
      <4>1. g[k][1] - 1 \in Int /\ Covers(m[i], g[k][1] - 1)
        BY <1>12, <2>2, <3>1 DEF Covers
      <4>2. g[k][1] - 1 \in Instants(S)
        BY <1>6, <1>7, <4>1
      <4> QED  BY <1>2, <4>2
    <3>2. CASE ~(m[i][1] < m[i][2])
      <4>1. PICK w \in S : w[1] = m[i][1]
        BY <1>5
      <4>2. w[1] = g[k][1]
        BY <1>12, <2>2, <3>2, <4>1
      <4>3. g[k][1] \in U
        <5>1. g[k][1] \in Int /\ Covers(g[k], g[k][1])
          BY <1>11 DEF Covers
        <5> QED  BY <1>10, <5>1
      <4> QED  BY <1>14, <4>2, <4>3
    <3> QED  BY <3>1, <3>2
  <2> QED  BY <1>8, <2>1, <2>2
<1>16. ASSUME NEW k \in 1 .. Len(g) PROVE g[k][2] \notin U \/ g[k][2] \in M
  <2>1. CASE g[k][2] = duration
    BY <2>1
  <2>2. ASSUME NEW i \in 1 .. Len(m), g[k][2] = m[i][1] PROVE g[k][2] \notin U \/ g[k][2] \in M
    <3>1. PICK w \in S : w[1] = m[i][1]
      BY <1>5
    <3> QED  BY <1>14, <2>2, <3>1
  <2> QED  BY <1>3, <2>1, <2>2
<1>17. ASSUME NEW k \in 1 .. Len(g), NEW mark \in M PROVE ~(g[k][1] < mark /\ mark < g[k][2])
  <2>1. PICK w \in S : mark = w[1]
    BY DEF S
  <2>2. PICK i \in 1 .. Len(m) : m[i][1] <= w[1] /\ w[2] <= m[i][2]
    BY <1>5, <2>1
  <2>3. m[i][2] <= g[k][1] \/ g[k][2] <= m[i][1]
    BY <1>8
  <2>4. w[1] \in Int /\ w[2] \in Int /\ w[1] <= w[2] /\ m[i][1] \in Int /\ m[i][2] \in Int
    BY <1>12, <1>13
  <2>5. g[k][1] \in Int /\ g[k][2] \in Int
    BY <1>11
  <2> QED  BY ONLY <2>1, <2>2, <2>3, <2>4, <2>5
<1>18. Runs(g, U, M)
  <2> HIDE DEF U, M
  <2> QED  BY ONLY <1>8, <1>10, <1>15, <1>16, <1>17 DEF Runs
<1> QED  BY <1>18 DEF g, S

\* What a cut leaves of a window.
RestIs(seg, cut, rest) ==
  /\ rest \in Seq(Window) /\ InTurn(rest)
  /\ \A x \in Int : (\E k \in 1 .. Len(rest) : Covers(rest[k], x)) <=> Covers(seg, x) /\ ~Covers(cut, x)
  /\ \A k \in 1 .. Len(rest) :
       /\ seg[1] <= rest[k][1] /\ rest[k][2] <= seg[2]
       /\ rest[k][1] \in {seg[1], cut[2]} /\ rest[k][2] \in {seg[2], cut[1]}

LEMMA RemainsIs ==
  ASSUME NEW seg \in Window, NEW cut \in Window
  PROVE  RestIs(seg, cut, Remains(seg, cut))
<1>1. /\ seg[1] \in Int /\ seg[2] \in Int /\ seg[1] < seg[2]
      /\ cut[1] \in Int /\ cut[2] \in Int /\ cut[1] < cut[2]
  BY WindowStretch
<1> DEFINE one == <<seg[1], cut[1]>>
           two == <<cut[2], seg[2]>>
           rest == Remains(seg, cut)
<1>2. /\ one[1] = seg[1] /\ one[2] = cut[1] /\ two[1] = cut[2] /\ two[2] = seg[2]
      /\ cut[1] > seg[1] => one \in Window
      /\ cut[2] < seg[2] => two \in Window
  BY <1>1 DEF Window
<1>3. ASSUME NEW w \in Window PROVE <<w>> \in Seq(Window) /\ InTurn(<<w>>) /\ Len(<<w>>) = 1 /\ <<w>>[1] = w
  BY DEF InTurn
<1>4. CASE cut[2] <= seg[1] \/ cut[1] >= seg[2]
  <2>1. rest = <<seg>>
    BY <1>4 DEF Remains
  <2>2. \A x \in Int : Covers(seg, x) => ~Covers(cut, x)
    BY <1>1, <1>4 DEF Covers
  <2> HIDE DEF rest
  <2>3. /\ rest \in Seq(Window) /\ InTurn(rest) /\ Len(rest) = 1 /\ rest[1] = seg
        /\ \A k \in 1 .. Len(rest) : k = 1
    BY <1>3, <2>1
  <2>4. 1 \in 1 .. Len(rest)
    BY <2>3
  <2>5. \A x \in Int : (\E k \in 1 .. Len(rest) : Covers(rest[k], x)) <=> Covers(seg, x) /\ ~Covers(cut, x)
    BY <2>2, <2>3, <2>4
  <2> QED  BY <1>1, <2>3, <2>5 DEF RestIs, rest
<1>5. CASE ~(cut[2] <= seg[1] \/ cut[1] >= seg[2])
  <2>1. rest = (IF cut[1] > seg[1] THEN <<one>> ELSE <<>>) \o (IF cut[2] < seg[2] THEN <<two>> ELSE <<>>)
    BY <1>5 DEF Remains
  <2> HIDE DEF rest, one, two
  <2>2. CASE cut[1] > seg[1] /\ cut[2] < seg[2]
    <3>1. rest = <<one>> \o <<two>>
      BY <2>1, <2>2
    <3>2. one \in Window /\ two \in Window
      BY <1>2, <2>2
    <3>3. rest \in Seq(Window) /\ Len(rest) = 2 /\ rest[1] = one /\ rest[2] = two
      BY <3>1, <3>2
    <3>4. \A k \in 1 .. Len(rest) : k = 1 \/ k = 2
      BY <3>3
    <3>5. InTurn(rest)
      BY <1>1, <1>2, <3>3, <3>4 DEF InTurn
    <3>6. 1 \in 1 .. Len(rest) /\ 2 \in 1 .. Len(rest)
      BY <3>3
    <3>7. \A x \in Int : Covers(one, x) \/ Covers(two, x) <=> Covers(seg, x) /\ ~Covers(cut, x)
      BY <1>1, <1>2, <1>5, <2>2 DEF Covers
    <3>8. \A x \in Int : (\E k \in 1 .. Len(rest) : Covers(rest[k], x)) <=> Covers(seg, x) /\ ~Covers(cut, x)
      BY <3>3, <3>4, <3>6, <3>7
    <3>9. ASSUME NEW k \in 1 .. Len(rest)
          PROVE  /\ seg[1] <= rest[k][1] /\ rest[k][2] <= seg[2]
                 /\ rest[k][1] \in {seg[1], cut[2]} /\ rest[k][2] \in {seg[2], cut[1]}
      BY <1>1, <1>2, <1>5, <2>2, <3>3, <3>4
    <3> QED  BY <3>3, <3>5, <3>8, <3>9 DEF RestIs, rest
  <2>3. CASE cut[1] > seg[1] /\ ~(cut[2] < seg[2])
    <3>1. rest = <<one>>
      BY <2>1, <2>3
    <3>2. one \in Window
      BY <1>2, <2>3
    <3>3. /\ rest \in Seq(Window) /\ InTurn(rest) /\ Len(rest) = 1 /\ rest[1] = one
          /\ \A k \in 1 .. Len(rest) : k = 1
      BY <1>3, <3>1, <3>2
    <3>4. 1 \in 1 .. Len(rest)
      BY <3>3
    <3>5. \A x \in Int : Covers(one, x) <=> Covers(seg, x) /\ ~Covers(cut, x)
      BY <1>1, <1>2, <1>5, <2>3 DEF Covers
    <3>6. \A x \in Int : (\E k \in 1 .. Len(rest) : Covers(rest[k], x)) <=> Covers(seg, x) /\ ~Covers(cut, x)
      BY <3>3, <3>4, <3>5
    <3>7. ASSUME NEW k \in 1 .. Len(rest)
          PROVE  /\ seg[1] <= rest[k][1] /\ rest[k][2] <= seg[2]
                 /\ rest[k][1] \in {seg[1], cut[2]} /\ rest[k][2] \in {seg[2], cut[1]}
      BY <1>1, <1>2, <1>5, <2>3, <3>3
    <3> QED  BY <3>3, <3>6, <3>7 DEF RestIs, rest
  <2>4. CASE ~(cut[1] > seg[1]) /\ cut[2] < seg[2]
    <3>1. rest = <<two>>
      BY <2>1, <2>4
    <3>2. two \in Window
      BY <1>2, <2>4
    <3>3. /\ rest \in Seq(Window) /\ InTurn(rest) /\ Len(rest) = 1 /\ rest[1] = two
          /\ \A k \in 1 .. Len(rest) : k = 1
      BY <1>3, <3>1, <3>2
    <3>4. 1 \in 1 .. Len(rest)
      BY <3>3
    <3>5. \A x \in Int : Covers(two, x) <=> Covers(seg, x) /\ ~Covers(cut, x)
      BY <1>1, <1>2, <1>5, <2>4 DEF Covers
    <3>6. \A x \in Int : (\E k \in 1 .. Len(rest) : Covers(rest[k], x)) <=> Covers(seg, x) /\ ~Covers(cut, x)
      BY <3>3, <3>4, <3>5
    <3>7. ASSUME NEW k \in 1 .. Len(rest)
          PROVE  /\ seg[1] <= rest[k][1] /\ rest[k][2] <= seg[2]
                 /\ rest[k][1] \in {seg[1], cut[2]} /\ rest[k][2] \in {seg[2], cut[1]}
      BY <1>1, <1>2, <1>5, <2>4, <3>3
    <3> QED  BY <3>3, <3>6, <3>7 DEF RestIs, rest
  <2>5. CASE ~(cut[1] > seg[1]) /\ ~(cut[2] < seg[2])
    <3>1. rest = <<>>
      BY <2>1, <2>5
    <3>2. rest \in Seq(Window) /\ InTurn(rest) /\ 1 .. Len(rest) = {}
      BY <3>1 DEF InTurn
    <3>3. \A x \in Int : ~(Covers(seg, x) /\ ~Covers(cut, x))
      BY <1>1, <2>5 DEF Covers
    <3> QED  BY <3>2, <3>3 DEF RestIs, rest
  <2> QED  BY <2>2, <2>3, <2>4, <2>5
<1> QED  BY <1>4, <1>5

\* What is left of the first segments.
Remainders(list, cut, f) ==
  /\ f \in [0 .. Len(list) -> Seq(Window)] /\ f[0] = <<>>
  /\ \A n \in 1 .. Len(list) : f[n] = f[n - 1] \o Remains(list[n], cut)

LEMMA RemainsOfAre ==
  ASSUME NEW list \in Seq(Window), NEW cut \in Window
  PROVE  \E f : Remainders(list, cut, f) /\ RemainsOf(list, cut) = f[Len(list)]
<1> DEFINE N == Len(list)
           Is(f) == f = [n \in 0 .. N |-> IF n = 0 THEN <<>> ELSE f[n - 1] \o Remains(list[n], cut)]
           at == CHOOSE f : Is(f)
           step == [p \in (1 .. N) \X (Seq(Window)) |-> p[2] \o Remains(list[p[1]], cut)]
<1>1. N \in Nat /\ <<>> \in Seq(Window) /\ step \in [(1 .. N) \X (Seq(Window)) -> Seq(Window)]
  <2>1. N \in Nat /\ <<>> \in Seq(Window)
    OBVIOUS
  <2>2. \A p \in (1 .. N) \X Seq(Window) : p[2] \o Remains(list[p[1]], cut) \in Seq(Window)
    <3> SUFFICES ASSUME NEW p \in (1 .. N) \X Seq(Window)
                 PROVE  p[2] \o Remains(list[p[1]], cut) \in Seq(Window)
      OBVIOUS
    <3>1. p[2] \in Seq(Window) /\ list[p[1]] \in Window
      OBVIOUS
    <3>2. Remains(list[p[1]], cut) \in Seq(Window)
      BY <3>1, RemainsIs DEF RestIs
    <3> QED  BY <3>1, <3>2
  <2> QED  BY <2>1, <2>2
<1>2. PICK f : IsRecursion(f, N, Seq(Window), <<>>, step)
  <2> HIDE DEF step, N
  <2> QED  BY <1>1, RecursionExists
<1>3. f \in [0 .. N -> Seq(Window)] /\ f[0] = <<>>
  BY <1>2 DEF IsRecursion
<1>4. \A n \in 1 .. N : f[n] = f[n - 1] \o Remains(list[n], cut)
  <2> SUFFICES ASSUME NEW n \in 1 .. N PROVE f[n] = f[n - 1] \o Remains(list[n], cut)
    OBVIOUS
  <2>1. <<n, f[n - 1]>> \in (1 .. N) \X (Seq(Window))
    <3> HIDE DEF N, step
    <3>1. n - 1 \in 0 .. N
      BY <1>1
    <3>2. f[n - 1] \in Seq(Window)
      BY <1>3, <3>1
    <3> QED  BY <3>2
  <2>2. f[n] = step[<<n, f[n - 1]>>]
    BY <1>2 DEF IsRecursion
  <2> QED  BY <2>1, <2>2
<1>5. Is(f)
  <2> HIDE DEF N
  <2>1. ASSUME NEW n \in 0 .. N PROVE f[n] = IF n = 0 THEN <<>> ELSE f[n - 1] \o Remains(list[n], cut)
    <3>1. n # 0 => n \in 1 .. N
      BY <1>1
    <3>2. n # 0 => f[n] = f[n - 1] \o Remains(list[n], cut)
      BY <1>4, <3>1
    <3>3. n = 0 => f[n] = <<>>
      BY <1>3
    <3> QED  BY <3>2, <3>3, Zenon
  <2> QED  BY <1>3, <2>1
<1>6. Is(at)
  <2> HIDE DEF Is
  <2> QED  BY <1>5
<1>7. RemainsOf(list, cut) = at[Len(list)]
  BY DEF RemainsOf
<1> HIDE DEF at, N, step
<1>8. \A n \in 0 .. N : at[n] = IF n = 0 THEN <<>> ELSE at[n - 1] \o Remains(list[n], cut)
  BY <1>6
<1>9. DOMAIN at = 0 .. N /\ at = [n \in 0 .. N |-> at[n]]
  <2>1. PICK e : at = [n \in 0 .. N |-> e[n]]
    BY <1>6
  <2> QED  BY <2>1
<1>10. at = f
  <2>1. at[0] = f[0]
    <3>1. 0 \in 0 .. N
      BY <1>1
    <3>2. at[0] = <<>>
      BY <1>8, <3>1
    <3> QED  BY <1>3, <3>2
  <2>2. ASSUME NEW n \in 1 .. N, at[n - 1] = f[n - 1] PROVE at[n] = f[n]
    <3>1. n \in 0 .. N /\ n # 0
      BY <1>1
    <3> QED  BY <1>4, <1>8, <2>2, <3>1
  <2> QED  BY <1>1, <1>3, <1>9, <2>1, <2>2, SameRecursion
<1>11. Remainders(list, cut, f)
  BY <1>3, <1>4 DEF Remainders, N
<1>12. RemainsOf(list, cut) = f[Len(list)]
  BY <1>7, <1>10
<1> QED  BY <1>11, <1>12

\* What a cut leaves of the first n segments of a list.
LeftOf(list, n, cut, left) ==
  /\ left \in Seq(Window) /\ InTurn(left)
  /\ \A x \in Int : (\E k \in 1 .. Len(left) : Covers(left[k], x))
       <=> (\E i \in 1 .. n : Covers(list[i], x)) /\ ~Covers(cut, x)
  /\ \A k \in 1 .. Len(left) : \E i \in 1 .. n :
       /\ list[i][1] <= left[k][1] /\ left[k][2] <= list[i][2]
       /\ left[k][1] \in {list[i][1], cut[2]} /\ left[k][2] \in {list[i][2], cut[1]}

LEMMA LeftStep ==
  ASSUME NEW list \in Seq(Window), InTurn(list), NEW n \in Nat, n + 1 <= Len(list),
         NEW cut \in Window, NEW left, LeftOf(list, n, cut, left)
  PROVE  LeftOf(list, n + 1, cut, left \o Remains(list[n + 1], cut))
<1> DEFINE seg == list[n + 1]
           rest == Remains(seg, cut)
           out == left \o rest
           L == Len(left)
           R == Len(rest)
<1>1. n + 1 \in 1 .. Len(list) /\ seg \in Window
  OBVIOUS
<1>2. RestIs(seg, cut, rest)
  BY <1>1, RemainsIs
<1> HIDE DEF rest
<1>3. /\ rest \in Seq(Window) /\ R \in Nat
      /\ \A k, l \in 1 .. R : k < l => rest[k][2] <= rest[l][1]
      /\ \A k \in 1 .. R :
           /\ seg[1] <= rest[k][1] /\ rest[k][2] <= seg[2]
           /\ rest[k][1] \in {seg[1], cut[2]} /\ rest[k][2] \in {seg[2], cut[1]}
  BY <1>2 DEF RestIs, InTurn
<1>4. \A x \in Int : (\E k \in 1 .. R : Covers(rest[k], x)) <=> Covers(seg, x) /\ ~Covers(cut, x)
  BY ONLY <1>2, Zenon DEF RestIs
<1>5. /\ left \in Seq(Window) /\ L \in Nat
      /\ \A k, l \in 1 .. L : k < l => left[k][2] <= left[l][1]
      /\ \A k \in 1 .. L : \E i \in 1 .. n :
           /\ list[i][1] <= left[k][1] /\ left[k][2] <= list[i][2]
           /\ left[k][1] \in {list[i][1], cut[2]} /\ left[k][2] \in {list[i][2], cut[1]}
  <2>1. left \in Seq(Window) /\ L \in Nat /\ InTurn(left)
    BY DEF LeftOf
  <2>2. \A k, l \in 1 .. L : k < l => left[k][2] <= left[l][1]
    BY ONLY <2>1 DEF InTurn
  <2>3. \A k \in 1 .. L : \E i \in 1 .. n :
          /\ list[i][1] <= left[k][1] /\ left[k][2] <= list[i][2]
          /\ left[k][1] \in {list[i][1], cut[2]} /\ left[k][2] \in {list[i][2], cut[1]}
    BY ONLY LeftOf(list, n, cut, left), Zenon DEF LeftOf
  <2> QED  BY <2>1, <2>2, <2>3
<1>6. \A x \in Int : (\E k \in 1 .. L : Covers(left[k], x))
        <=> (\E i \in 1 .. n : Covers(list[i], x)) /\ ~Covers(cut, x)
  BY ONLY LeftOf(list, n, cut, left), Zenon DEF LeftOf
<1>7. /\ out \in Seq(Window) /\ Len(out) = L + R
      /\ \A k \in 1 .. L : out[k] = left[k]
      /\ \A k \in 1 .. R : out[L + k] = rest[k]
  BY <1>3, <1>5
<1>8. ASSUME NEW k \in 1 .. L + R PROVE k \in 1 .. L \/ \E l \in 1 .. R : k = L + l
  <2>1. CASE k <= L
    BY <1>3, <1>5, <2>1
  <2>2. CASE ~(k <= L)
    <3>1. k - L \in 1 .. R /\ k = L + (k - L)
      BY <1>3, <1>5, <2>2
    <3> QED  BY <3>1
  <2> QED  BY <2>1, <2>2
<1> HIDE DEF out, seg
<1>9. /\ \A k \in 1 .. L : left[k][1] \in Int /\ left[k][2] \in Int
      /\ \A k \in 1 .. R : rest[k][1] \in Int /\ rest[k][2] \in Int
      /\ \A i \in 1 .. Len(list) : list[i][1] \in Int /\ list[i][2] \in Int
      /\ seg[1] \in Int /\ seg[2] \in Int
  <2>1. /\ \A k \in 1 .. L : left[k] \in Window
        /\ \A k \in 1 .. R : rest[k] \in Window
        /\ \A i \in 1 .. Len(list) : list[i] \in Window
    BY <1>3, <1>5
  <2> QED  BY <1>1, <2>1, WindowStretch
<1>10. \A k \in 1 .. L : left[k][2] <= seg[1]
  <2> SUFFICES ASSUME NEW k \in 1 .. L PROVE left[k][2] <= seg[1]
    OBVIOUS
  <2>1. PICK i \in 1 .. n : left[k][2] <= list[i][2]
    BY <1>5
  <2>2. i \in 1 .. Len(list) /\ i < n + 1
    OBVIOUS
  <2>3. list[i][2] <= seg[1]
    BY <1>1, <2>2 DEF InTurn, seg
  <2> QED  BY <1>9, <2>1, <2>2, <2>3
<1>11. ASSUME NEW k \in 1 .. L + R, NEW l \in 1 .. L + R, k < l PROVE out[k][2] <= out[l][1]
  <2>1. CASE k \in 1 .. L /\ l \in 1 .. L
    BY <1>5, <1>7, <1>11, <2>1
  <2>2. ASSUME k \in 1 .. L, NEW b \in 1 .. R, l = L + b PROVE out[k][2] <= out[l][1]
    <3>1. out[k] = left[k] /\ out[l] = rest[b] /\ seg[1] <= rest[b][1]
      BY <1>3, <1>7, <2>2
    <3>2. left[k][2] <= seg[1]
      BY <1>10, <2>2
    <3> QED  BY <1>9, <2>2, <3>1, <3>2
  <2>3. ASSUME NEW a \in 1 .. R, k = L + a, NEW b \in 1 .. R, l = L + b PROVE out[k][2] <= out[l][1]
    <3>1. a < b
      BY <1>5, <1>11, <2>3
    <3> QED  BY <1>3, <1>7, <2>3, <3>1
  <2>4. ~(l \in 1 .. L /\ \E a \in 1 .. R : k = L + a)
    BY <1>3, <1>5, <1>11
  <2> QED  BY <1>8, <2>1, <2>2, <2>3, <2>4
<1>12. ASSUME NEW x \in Int
       PROVE  (\E k \in 1 .. L + R : Covers(out[k], x))
                <=> (\E i \in 1 .. n + 1 : Covers(list[i], x)) /\ ~Covers(cut, x)
  <2>1. (\E k \in 1 .. L + R : Covers(out[k], x))
          <=> (\E k \in 1 .. L : Covers(left[k], x)) \/ (\E k \in 1 .. R : Covers(rest[k], x))
    <3>1. \A k \in 1 .. L : k \in 1 .. L + R
      BY <1>3, <1>5
    <3>2. \A k \in 1 .. R : L + k \in 1 .. L + R
      BY <1>3, <1>5
    <3>3. ASSUME NEW k \in 1 .. L + R, Covers(out[k], x)
          PROVE  (\E l \in 1 .. L : Covers(left[l], x)) \/ (\E l \in 1 .. R : Covers(rest[l], x))
      BY <1>7, <1>8, <3>3
    <3>4. ASSUME NEW k \in 1 .. L, Covers(left[k], x) PROVE \E l \in 1 .. L + R : Covers(out[l], x)
      BY <1>7, <3>1, <3>4
    <3>5. ASSUME NEW k \in 1 .. R, Covers(rest[k], x) PROVE \E l \in 1 .. L + R : Covers(out[l], x)
      BY <1>7, <3>2, <3>5
    <3> QED  BY <3>3, <3>4, <3>5
  <2>2. (\E i \in 1 .. n + 1 : Covers(list[i], x)) <=> (\E i \in 1 .. n : Covers(list[i], x)) \/ Covers(seg, x)
    <3>1. 1 .. n + 1 = (1 .. n) \cup {n + 1}
      OBVIOUS
    <3> QED  BY <3>1 DEF seg
  <2> QED  BY <1>4, <1>6, <2>1, <2>2
<1>13. ASSUME NEW k \in 1 .. L + R
       PROVE  \E i \in 1 .. n + 1 :
                /\ list[i][1] <= out[k][1] /\ out[k][2] <= list[i][2]
                /\ out[k][1] \in {list[i][1], cut[2]} /\ out[k][2] \in {list[i][2], cut[1]}
  <2>1. CASE k \in 1 .. L
    <3>1. PICK i \in 1 .. n :
            /\ list[i][1] <= left[k][1] /\ left[k][2] <= list[i][2]
            /\ left[k][1] \in {list[i][1], cut[2]} /\ left[k][2] \in {list[i][2], cut[1]}
      BY <1>5, <2>1
    <3>2. i \in 1 .. n + 1
      OBVIOUS
    <3> QED  BY <1>7, <2>1, <3>1, <3>2
  <2>2. ASSUME NEW l \in 1 .. R, k = L + l
        PROVE  \E i \in 1 .. n + 1 :
                 /\ list[i][1] <= out[k][1] /\ out[k][2] <= list[i][2]
                 /\ out[k][1] \in {list[i][1], cut[2]} /\ out[k][2] \in {list[i][2], cut[1]}
    <3>1. out[k] = rest[l] /\ n + 1 \in 1 .. n + 1
      BY <1>7, <2>2
    <3> QED  BY <1>3, <3>1 DEF seg
  <2> QED  BY <1>8, <2>1, <2>2
<1>14. LeftOf(list, n + 1, cut, out)
  <2>1. Len(out) = L + R /\ out \in Seq(Window)
    BY <1>7
  <2>2. InTurn(out)
    BY <1>11, <2>1 DEF InTurn
  <2> HIDE DEF L, R
  <2> QED  BY ONLY <2>1, <2>2, <1>12, <1>13 DEF LeftOf
<1> QED  BY <1>14 DEF out, rest, seg

LEMMA RemainsOfIs ==
  ASSUME NEW list \in Seq(Window), InTurn(list), NEW cut \in Window
  PROVE  LeftOf(list, Len(list), cut, RemainsOf(list, cut))
<1> DEFINE N == Len(list)
<1>1. PICK f : Remainders(list, cut, f) /\ RemainsOf(list, cut) = f[N]
  BY RemainsOfAre
<1>2. f[0] = <<>> /\ \A n \in 1 .. N : f[n] = f[n - 1] \o Remains(list[n], cut)
  BY <1>1 DEF Remainders
<1>3. N \in Nat
  OBVIOUS
<1> DEFINE T == {n \in Nat : n <= N => LeftOf(list, n, cut, f[n])}
<1>4. 0 \in T
  <2>1. LeftOf(list, 0, cut, <<>>)
    BY DEF LeftOf, InTurn
  <2> QED  BY <1>2, <2>1
<1>5. ASSUME NEW n \in Nat, n \in T PROVE n + 1 \in T
  <2> SUFFICES ASSUME n + 1 <= N PROVE LeftOf(list, n + 1, cut, f[n + 1])
    OBVIOUS
  <2>1. n + 1 \in 1 .. N /\ (n + 1) - 1 = n /\ n <= N
    BY <1>3
  <2>2. LeftOf(list, n, cut, f[n])
    BY <1>5, <2>1
  <2>3. f[n + 1] = f[n] \o Remains(list[n + 1], cut)
    BY <1>2, <2>1
  <2> HIDE DEF T
  <2> QED  BY <2>2, <2>3, LeftStep
<1>6. N \in T
  <2> HIDE DEF T
  <2>1. Nat \subseteq T
    BY <1>4, <1>5, NaturalInduction
  <2> QED  BY <1>3, <2>1
<1> QED  BY <1>1, <1>3, <1>6

\* A cut leaves the runs of what it does not cover.
LEMMA RunsCut ==
  ASSUME NEW list, NEW U \in SUBSET Int, NEW M \in SUBSET Int, Runs(list, U, M), NEW cut \in Window
  PROVE  Runs(RemainsOf(list, cut), {x \in U : ~Covers(cut, x)}, M)
<1> DEFINE left == RemainsOf(list, cut)
           V == {x \in U : ~Covers(cut, x)}
           N == Len(list)
<1>1. /\ list \in Seq(Window) /\ InTurn(list)
      /\ \A k \in 1 .. N : /\ list[k][1] - 1 \notin U \/ list[k][1] \in M
                           /\ list[k][2] \notin U \/ list[k][2] \in M
                           /\ \A mark \in M : ~(list[k][1] < mark /\ mark < list[k][2])
  BY DEF Runs
<1>2. \A x \in Int : (\E k \in 1 .. N : Covers(list[k], x)) <=> x \in U
  BY ONLY Runs(list, U, M), Zenon DEF Runs
<1>3. LeftOf(list, N, cut, left)
  BY <1>1, RemainsOfIs
<1> HIDE DEF left
<1>4. /\ left \in Seq(Window) /\ InTurn(left)
      /\ \A k \in 1 .. Len(left) : \E i \in 1 .. N :
           /\ list[i][1] <= left[k][1] /\ left[k][2] <= list[i][2]
           /\ left[k][1] \in {list[i][1], cut[2]} /\ left[k][2] \in {list[i][2], cut[1]}
  BY <1>3 DEF LeftOf
<1>5. \A x \in Int : (\E k \in 1 .. Len(left) : Covers(left[k], x))
        <=> (\E i \in 1 .. N : Covers(list[i], x)) /\ ~Covers(cut, x)
  BY ONLY <1>3, Zenon DEF LeftOf
<1>6. \A x \in Int : (\E k \in 1 .. Len(left) : Covers(left[k], x)) <=> x \in V
  BY <1>2, <1>5
<1>7. cut[1] \in Int /\ cut[2] \in Int /\ cut[1] < cut[2]
  BY WindowStretch
<1>8. Covers(cut, cut[2] - 1) /\ Covers(cut, cut[1])
  BY <1>7 DEF Covers
<1>9. ASSUME NEW k \in 1 .. Len(left)
      PROVE  /\ left[k][1] - 1 \notin V \/ left[k][1] \in M
             /\ left[k][2] \notin V \/ left[k][2] \in M
             /\ \A mark \in M : ~(left[k][1] < mark /\ mark < left[k][2])
  <2>1. PICK i \in 1 .. N :
          /\ list[i][1] <= left[k][1] /\ left[k][2] <= list[i][2]
          /\ left[k][1] \in {list[i][1], cut[2]} /\ left[k][2] \in {list[i][2], cut[1]}
    BY <1>4
  <2>2. left[k][1] - 1 \notin V \/ left[k][1] \in M
    <3>1. CASE left[k][1] = list[i][1]
      BY <1>1, <3>1
    <3>2. CASE left[k][1] = cut[2]
      BY <1>8, <3>2
    <3> QED  BY <2>1, <3>1, <3>2
  <2>3. left[k][2] \notin V \/ left[k][2] \in M
    <3>1. CASE left[k][2] = list[i][2]
      BY <1>1, <3>1
    <3>2. CASE left[k][2] = cut[1]
      BY <1>8, <3>2
    <3> QED  BY <2>1, <3>1, <3>2
  <2>4. \A mark \in M : ~(left[k][1] < mark /\ mark < left[k][2])
    <3>0. left[k] \in Window /\ list[i] \in Window
      BY <1>1, <1>4
    <3>1. left[k][1] \in Int /\ left[k][2] \in Int /\ list[i][1] \in Int /\ list[i][2] \in Int
      BY <3>0, WindowStretch
    <3> SUFFICES ASSUME NEW mark \in M, left[k][1] < mark, mark < left[k][2] PROVE FALSE
      OBVIOUS
    <3> QED  BY <1>1, <2>1, <3>1
  <2> QED  BY <2>2, <2>3, <2>4
<1>10. Runs(left, V, M)
  <2> HIDE DEF V
  <2> QED  BY ONLY <1>4, <1>6, <1>9 DEF Runs
<1> QED  BY <1>10 DEF left

\* What is left after each cut.
Cuts(base, cuts, f) ==
  /\ f \in [0 .. Len(cuts) -> Seq(Window)] /\ f[0] = base
  /\ \A n \in 1 .. Len(cuts) : f[n] = RemainsOf(f[n - 1], cuts[n])

LEMMA CutsAre ==
  ASSUME NEW base \in Seq(Window), NEW cuts \in Seq(Window), \A list \in Seq(Window), cut \in Window : RemainsOf(list, cut) \in Seq(Window)
  PROVE  \E f : Cuts(base, cuts, f) /\ Subtract(base, cuts) = f[Len(cuts)]
<1> DEFINE N == Len(cuts)
           Is(f) == f = [n \in 0 .. N |-> IF n = 0 THEN base ELSE RemainsOf(f[n - 1], cuts[n])]
           at == CHOOSE f : Is(f)
           step == [p \in (1 .. N) \X (Seq(Window)) |-> RemainsOf(p[2], cuts[p[1]])]
<1>1. N \in Nat /\ base \in Seq(Window) /\ step \in [(1 .. N) \X (Seq(Window)) -> Seq(Window)]
  <2>1. N \in Nat
    OBVIOUS
  <2>2. \A p \in (1 .. N) \X Seq(Window) : RemainsOf(p[2], cuts[p[1]]) \in Seq(Window)
    <3> SUFFICES ASSUME NEW p \in (1 .. N) \X Seq(Window)
                 PROVE  RemainsOf(p[2], cuts[p[1]]) \in Seq(Window)
      OBVIOUS
    <3>1. p[2] \in Seq(Window) /\ cuts[p[1]] \in Window
      OBVIOUS
    <3> QED  BY <3>1
  <2> QED  BY <2>1, <2>2
<1>2. PICK f : IsRecursion(f, N, Seq(Window), base, step)
  <2> HIDE DEF step, N
  <2> QED  BY <1>1, RecursionExists
<1>3. f \in [0 .. N -> Seq(Window)] /\ f[0] = base
  BY <1>2 DEF IsRecursion
<1>4. \A n \in 1 .. N : f[n] = RemainsOf(f[n - 1], cuts[n])
  <2> SUFFICES ASSUME NEW n \in 1 .. N PROVE f[n] = RemainsOf(f[n - 1], cuts[n])
    OBVIOUS
  <2>1. <<n, f[n - 1]>> \in (1 .. N) \X (Seq(Window))
    <3> HIDE DEF N, step
    <3>1. n - 1 \in 0 .. N
      BY <1>1
    <3>2. f[n - 1] \in Seq(Window)
      BY <1>3, <3>1
    <3> QED  BY <3>2
  <2>2. f[n] = step[<<n, f[n - 1]>>]
    BY <1>2 DEF IsRecursion
  <2> QED  BY <2>1, <2>2
<1>5. Is(f)
  <2> HIDE DEF N
  <2>1. ASSUME NEW n \in 0 .. N PROVE f[n] = IF n = 0 THEN base ELSE RemainsOf(f[n - 1], cuts[n])
    <3>1. n # 0 => n \in 1 .. N
      BY <1>1
    <3>2. n # 0 => f[n] = RemainsOf(f[n - 1], cuts[n])
      BY <1>4, <3>1
    <3>3. n = 0 => f[n] = base
      BY <1>3
    <3> QED  BY <3>2, <3>3, Zenon
  <2> QED  BY <1>3, <2>1
<1>6. Is(at)
  <2> HIDE DEF Is
  <2> QED  BY <1>5
<1>7. Subtract(base, cuts) = at[Len(cuts)]
  BY DEF Subtract
<1> HIDE DEF at, N, step
<1>8. \A n \in 0 .. N : at[n] = IF n = 0 THEN base ELSE RemainsOf(at[n - 1], cuts[n])
  BY <1>6
<1>9. DOMAIN at = 0 .. N /\ at = [n \in 0 .. N |-> at[n]]
  <2>1. PICK e : at = [n \in 0 .. N |-> e[n]]
    BY <1>6
  <2> QED  BY <2>1
<1>10. at = f
  <2>1. at[0] = f[0]
    <3>1. 0 \in 0 .. N
      BY <1>1
    <3>2. at[0] = base
      BY <1>8, <3>1
    <3> QED  BY <1>3, <3>2
  <2>2. ASSUME NEW n \in 1 .. N, at[n - 1] = f[n - 1] PROVE at[n] = f[n]
    <3>1. n \in 0 .. N /\ n # 0
      BY <1>1
    <3> QED  BY <1>4, <1>8, <2>2, <3>1
  <2> QED  BY <1>1, <1>3, <1>9, <2>1, <2>2, SameRecursion
<1>11. Cuts(base, cuts, f)
  BY <1>3, <1>4 DEF Cuts, N
<1>12. Subtract(base, cuts) = f[Len(cuts)]
  BY <1>7, <1>10
<1> QED  BY <1>11, <1>12

LEMMA RemainsOfType ==
  ASSUME NEW list \in Seq(Window), NEW cut \in Window
  PROVE  RemainsOf(list, cut) \in Seq(Window)
<1>1. PICK f : Remainders(list, cut, f) /\ RemainsOf(list, cut) = f[Len(list)]
  BY RemainsOfAre
<1>2. f \in [0 .. Len(list) -> Seq(Window)] /\ Len(list) \in 0 .. Len(list)
  BY <1>1 DEF Remainders
<1> QED  BY <1>1, <1>2

\* Subtract leaves the runs of what no cut covers.
LEMMA RunsSubtracted ==
  ASSUME NEW base, NEW U \in SUBSET Int, NEW M \in SUBSET Int, Runs(base, U, M),
         NEW cuts \in Seq(Window)
  PROVE  Runs(Subtract(base, cuts), {x \in U : \A i \in 1 .. Len(cuts) : ~Covers(cuts[i], x)}, M)
<1> DEFINE N == Len(cuts)
           V(n) == {x \in U : \A i \in 1 .. n : ~Covers(cuts[i], x)}
<1>1. base \in Seq(Window) /\ N \in Nat
  BY DEF Runs
<1>2. PICK f : Cuts(base, cuts, f) /\ Subtract(base, cuts) = f[N]
  BY <1>1, RemainsOfType, CutsAre
<1>3. f[0] = base /\ \A n \in 1 .. N : f[n] = RemainsOf(f[n - 1], cuts[n])
  BY <1>2 DEF Cuts
<1> DEFINE T == {n \in Nat : n <= N => Runs(f[n], V(n), M)}
<1>4. 0 \in T
  <2>1. V(0) = U
    OBVIOUS
  <2> HIDE DEF V
  <2> QED  BY <1>3, <2>1
<1>5. ASSUME NEW n \in Nat, n \in T PROVE n + 1 \in T
  <2> SUFFICES ASSUME n + 1 <= N PROVE Runs(f[n + 1], V(n + 1), M)
    OBVIOUS
  <2>1. n + 1 \in 1 .. N /\ (n + 1) - 1 = n /\ n <= N /\ cuts[n + 1] \in Window
    BY <1>1
  <2>2. Runs(f[n], V(n), M)
    BY <1>5, <2>1
  <2>3. f[n + 1] = RemainsOf(f[n], cuts[n + 1])
    BY <1>3, <2>1
  <2>4. V(n + 1) = {x \in V(n) : ~Covers(cuts[n + 1], x)}
    <3>1. 1 .. n + 1 = (1 .. n) \cup {n + 1}
      OBVIOUS
    <3> QED  BY <3>1
  <2>5. V(n) \in SUBSET Int
    OBVIOUS
  <2> HIDE DEF T, V
  <2> QED  BY <2>1, <2>2, <2>3, <2>4, <2>5, RunsCut
<1>6. N \in T
  <2> HIDE DEF T
  <2>1. Nat \subseteq T
    BY <1>4, <1>5, NaturalInduction
  <2> QED  BY <1>1, <2>1
<1>7. Runs(f[N], V(N), M)
  <2> HIDE DEF V
  <2> QED  BY <1>1, <1>6
<1> QED  BY <1>2, <1>7

\* Of windows that have a length the merged ones have one too.
LEMMA MergedWindows ==
  ASSUME NEW S \in SUBSET Window, IsFiniteSet(S)
  PROVE  /\ Merge(S) \in Seq(Window)
         /\ \A x : x \in Instants(S) <=> x \in Int /\ \E i \in 1 .. Len(Merge(S)) : Covers(Merge(S)[i], x)
<1> DEFINE m == Merge(S)
<1>1. S \in SUBSET Stretch
  BY WindowStretch
<1>2. UnionIs(S, m)
  BY <1>1, MergeIs
<1> HIDE DEF m
<1>3. /\ m \in Seq(Stretch) /\ Apart(m)
      /\ \A i \in 1 .. Len(m) : \E w \in S : w[1] = m[i][1]
  BY <1>2 DEF UnionIs
<1>4. \A x \in Int : (\E i \in 1 .. Len(m) : Covers(m[i], x)) <=> \E w \in S : Covers(w, x)
  BY ONLY <1>2, Zenon DEF UnionIs
<1>5. \A i \in 1 .. Len(m) : m[i] \in Stretch /\ m[i][1] \in Int /\ m[i][2] \in Int /\ m[i][1] <= m[i][2]
  <2>1. \A i \in 1 .. Len(m) : m[i] \in Stretch
    BY <1>3
  <2> QED  BY <2>1, StretchIs
<1>6. ASSUME NEW i \in 1 .. Len(m) PROVE m[i] \in Window
  <2>1. PICK w \in S : w[1] = m[i][1]
    BY <1>3
  <2>2. Covers(w, m[i][1])
    BY <2>1, WindowStretch DEF Covers
  <2>3. PICK j \in 1 .. Len(m) : Covers(m[j], m[i][1])
    BY <1>4, <1>5, <2>2
  <2>4. m[j][1] <= m[i][1] /\ m[i][1] < m[j][2]
    BY <2>3 DEF Covers
  <2>5. /\ i < j => m[i][2] < m[j][1]
        /\ j < i => m[j][2] < m[i][1]
    BY <1>3 DEF Apart
  <2>6. i = j
    BY <1>5, <2>4, <2>5
  <2>7. m[i][1] < m[i][2]
    BY <2>4, <2>6
  <2>8. m[i] \in Int \X Int
    BY <1>5 DEF Stretch, Win
  <2> QED  BY <2>7, <2>8 DEF Window
<1>7. m \in Seq(Window)
  <2>1. m = [i \in 1 .. Len(m) |-> m[i]] /\ Len(m) \in Nat
    BY <1>3
  <2> QED  BY <1>6, <2>1
<1>8. \A x : x \in Instants(S) <=> x \in Int /\ \E i \in 1 .. Len(m) : Covers(m[i], x)
  BY <1>1, <1>4, InstantIs
<1> QED  BY <1>7, <1>8 DEF m

\* The instants of silent stretches that last MinGap.
LongSilence(C, list, duration, P) ==
  LET quiet == ((0 .. duration - 1) \ (Instants(C) \cup Instants(Windows(list)))) \ Instants(P)
      marks == {w[1] : w \in Windows(list)}
  IN  Cardinality({i \in quiet : Cardinality(SilentRun(i, quiet, marks)) >= MinGap})

LEMMA DeadAirIs ==
  ASSUME NEW C \in SUBSET Window, IsFiniteSet(C), NEW list \in Seq(Stretch),
         NEW P \in SUBSET Window, IsFiniteSet(P),
         NEW duration \in Int, 0 <= duration, \A w \in C \cup Windows(list) : w[2] <= duration
  PROVE  DeadAir(C, list, duration, P) = LongSilence(C, list, duration, P)
<1> DEFINE A == Windows(list)
           U == (0 .. duration - 1) \ (Instants(C) \cup Instants(A))
           M == {w[1] : w \in A}
           gaps == Complement(C \cup A, duration)
           cuts == Merge(P)
           left == Subtract(gaps, cuts)
           quiet == U \ Instants(P)
           V == {x \in U : \A i \in 1 .. Len(cuts) : ~Covers(cuts[i], x)}
           lasts == Lengths(left)
<1>1. A \in SUBSET Stretch /\ IsFiniteSet(A)
  BY WindowsIs
<1>2. U \in SUBSET Int /\ M \in SUBSET Int
  <2>1. M \in SUBSET Int
    <3> HIDE DEF A
    <3> QED  BY <1>1, StretchIs
  <2> QED  BY <2>1
<1> HIDE DEF A
<1>3. Runs(gaps, U, M)
  BY <1>1, GapRuns DEF A
<1>4. /\ cuts \in Seq(Window)
      /\ \A x : x \in Instants(P) <=> x \in Int /\ \E i \in 1 .. Len(cuts) : Covers(cuts[i], x)
  BY MergedWindows
<1> HIDE DEF U, M, gaps, cuts
<1>5. Runs(left, V, M)
  BY <1>2, <1>3, <1>4, RunsSubtracted
<1>6. quiet = V
  <2>1. \A x \in U : x \in Int
    BY <1>2
  <2> QED  BY <1>4, <2>1
<1>7. quiet \in SUBSET Int
  BY <1>2
<1> HIDE DEF left, V, quiet
<1>8. Added([n \in DOMAIN lasts |-> IF lasts[n] >= MinGap THEN lasts[n] ELSE 0])
        = Cardinality({i \in quiet : Cardinality(SilentRun(i, quiet, M)) >= MinGap})
  BY <1>2, <1>5, <1>6, <1>7, LongRuns
<1>9. DeadAir(C, list, duration, P)
        = Added([n \in DOMAIN lasts |-> IF lasts[n] >= MinGap THEN lasts[n] ELSE 0])
  BY DEF DeadAir, left, gaps, cuts, A
<1> QED  BY <1>8, <1>9 DEF LongSilence, quiet, U, M, A

LEMMA TalkAccounted ==
  ASSUME TalkTyped PROVE TimeAccounted
<1> DEFINE caller == talk.caller
           padding == talk.padding
           W == IF talk.traced THEN SpokenWindows(talk.agent, talk.offset) ELSE talk.heard
           agent == AgentTalk
           ratio == TalkRatio(caller, agent)
           heard == Instants(caller)
           spoken == Instants(W)
           all == caller \cup talk.heard
           duration == Duration(all, agent)
           silent == (0 .. duration - 1) \ (heard \cup spoken)
           quiet == silent \ Instants(padding)
           marks == {w[1] : w \in Windows(agent)}
<1>1. /\ caller \in SUBSET Window /\ IsFiniteSet(caller)
      /\ padding \in SUBSET Window /\ IsFiniteSet(padding)
      /\ talk.heard \in SUBSET Window /\ IsFiniteSet(talk.heard)
      /\ talk.agent \in SUBSET AgentSpan /\ talk.offset \in Int
      /\ IsFiniteSet(talk.agent) /\ \A s \in talk.agent : s.from <= s.to
  BY DEF TalkTyped
<1>2. W \in SUBSET Stretch /\ IsFiniteSet(W)
  <2>1. SpokenWindows(talk.agent, talk.offset) \in SUBSET Stretch
        /\ IsFiniteSet(SpokenWindows(talk.agent, talk.offset))
    BY <1>1, SpokenIs
  <2> QED  BY <1>1, <2>1, WindowStretch
<1>3. agent = Merge(W)
  BY DEF AgentTalk, AgentIntervals, UttsToIntervals
<1>12. all \in SUBSET Window /\ IsFiniteSet(all) /\ caller \subseteq all
  BY <1>1, FS_Union
<1> HIDE DEF caller, padding, W, all
<1>4. agent \in Seq(Stretch) /\ Instants(Windows(agent)) = spoken
  <2>1. Merge(W) \in Seq(Stretch) /\ Instants(Windows(Merge(W))) = Instants(W)
    BY <1>2, MergedIs
  <2> HIDE DEF agent
  <2> QED  BY <1>3, <2>1
<1>5. caller \in SUBSET Stretch
  BY <1>1, WindowStretch
<1>6. /\ ratio.caller = Cardinality(heard) /\ ratio.agent = Cardinality(spoken)
      /\ ratio.overlap = Cardinality(heard \cap spoken)
  BY <1>1, <1>2, <1>3, <1>5, RatioIs
<1>7. IsFiniteSet(heard) /\ IsFiniteSet(spoken)
  <2>1. caller \in SUBSET Win /\ W \in SUBSET Win
    BY <1>2, <1>5, StretchIs
  <2> QED  BY <1>1, <1>2, <2>1, CoveredFinite
<1> HIDE DEF agent
<1>8. /\ duration \in Int /\ 0 <= duration
      /\ \A w \in caller \cup Windows(agent) : w[2] <= duration
  <2>1. /\ duration \in Int /\ 0 <= duration
        /\ \A u \in all : u[2] <= duration
        /\ \A w \in Windows(agent) : w[2] <= duration
    BY <1>4, <1>12, DurationIs
  <2> HIDE DEF duration
  <2> QED  BY <1>12, <2>1
<1> HIDE DEF duration, ratio, heard, spoken
<1>9. ratio.caller + ratio.agent - ratio.overlap + Cardinality(silent)
        = Cardinality(heard \cup spoken \cup 0 .. duration - 1)
  <2> DEFINE D == 0 .. duration - 1
  <2>1. IsFiniteSet(D)
    BY <1>8, FS_Interval
  <2> HIDE DEF D
  <2>2. Cardinality(heard) + Cardinality(spoken) - Cardinality(heard \cap spoken)
          + Cardinality(D \ (heard \cup spoken))
          = Cardinality(heard \cup spoken \cup D)
    BY <1>7, <2>1, CountedOnce
  <2> QED  BY <1>6, <2>2 DEF D
<1>10. DeadAir(caller, agent, duration, padding)
         = Cardinality({i \in quiet : Cardinality(SilentRun(i, quiet, marks)) >= MinGap})
  <2>1. DeadAir(caller, agent, duration, padding) = LongSilence(caller, agent, duration, padding)
    BY <1>1, <1>4, <1>8, DeadAirIs
  <2>2. quiet = ((0 .. duration - 1) \ (Instants(caller) \cup Instants(Windows(agent)))) \ Instants(padding)
    BY <1>4 DEF heard
  <2> HIDE DEF quiet
  <2> QED  BY <2>1, <2>2 DEF LongSilence
<1>11. BargeInCount(caller, agent) = Cardinality({u \in caller : {u[1] - 1, u[1]} \subseteq spoken})
  BY <1>1, <1>2, <1>3, BargeIns DEF spoken
<1> HIDE DEF quiet, silent, marks
<1> QED
  BY <1>6, <1>9, <1>10, <1>11
  DEF TimeAccounted, quiet, silent, marks, heard, spoken, duration, ratio, agent, caller, padding, W, all

\* _audio_metrics: of any utterances of either channel, agent spans or none, clock offset
\* and absent audio, talk, overlap and silence account for every instant once, dead air is
\* the instants of the silences that last, the one at the end included, and a barge-in is
\* where the agent speaks before and after.
THEOREM TimeAlwaysAccounted == TalkSpec => []TimeAccounted
<1>1. TalkInit => TalkTyped
  BY TalkTypedInit
<1>2. TalkTyped /\ [TalkNext]_talk => TalkTyped'
  BY TalkTypedStep
<1>3. TalkTyped => TimeAccounted
  BY TalkAccounted
<1> QED  BY <1>1, <1>2, <1>3, PTL DEF TalkSpec

-----------------------------------------------------------------------------
(* The word error rate.  The table of wer holds, for each beginning of the *)
(* reference and each of what was heard, the least number of edits over    *)
(* all alignments of the two.                                              *)

\* Alignments of the first i words of a text with the first j of another.
Alignments(i, j) == {a \in [1 .. i -> 0 .. j] : Aligned(a)}

EditsTo(ref, hyp, i, j, a) ==
  Cardinality({k \in 1 .. i : a[k] = 0 \/ ref[k] # hyp[a[k]]})
    + Cardinality({l \in 1 .. j : \A k \in 1 .. i : a[k] # l})

\* What it costs to pair a word with the j-th one heard.
Swapped(hyp, j, r) == IF hyp[j] = r THEN 0 ELSE 1
Swap(ref, hyp, i, j) == Swapped(hyp, j, ref[i])

\* d is the least number of edits.
Cheapest(ref, hyp, i, j, d) ==
  /\ \A a \in Alignments(i, j) : d <= EditsTo(ref, hyp, i, j, a)
  /\ \E a \in Alignments(i, j) : EditsTo(ref, hyp, i, j, a) = d

\* One more of what is counted.
LEMMA OneMore ==
  ASSUME NEW n \in Nat, NEW P \in SUBSET (1 .. n - 1), n \geq 1
  PROVE  /\ IsFiniteSet(P) /\ Cardinality(P) \in Nat
         /\ Cardinality(P \cup {n}) = Cardinality(P) + 1
<1>1. IsFiniteSet(1 .. n - 1)
  BY FS_Interval
<1>2. IsFiniteSet(P)
  BY <1>1, FS_Subset
<1>3. n \notin P
  OBVIOUS
<1> QED  BY <1>2, <1>3, FS_AddElement, FS_CardinalityType

\* A part of an interval can be counted.
LEMMA CountIs ==
  ASSUME NEW n \in Nat, NEW P \in SUBSET (1 .. n)
  PROVE  IsFiniteSet(P) /\ Cardinality(P) \in Nat
<1>1. IsFiniteSet(1 .. n)
  BY FS_Interval
<1>2. IsFiniteSet(P)
  BY <1>1, FS_Subset
<1> QED  BY <1>2, FS_CardinalityType

\* Edits are counted in whole numbers.
LEMMA EditsType ==
  ASSUME NEW ref, NEW hyp, NEW i \in Nat, NEW j \in Nat, NEW a
  PROVE  EditsTo(ref, hyp, i, j, a) \in Nat
<1> DEFINE P == {k \in 1 .. i : a[k] = 0 \/ ref[k] # hyp[a[k]]}
           Q == {l \in 1 .. j : \A k \in 1 .. i : a[k] # l}
<1>1. P \in SUBSET (1 .. i) /\ Q \in SUBSET (1 .. j)
  OBVIOUS
<1>2. EditsTo(ref, hyp, i, j, a) = Cardinality(P) + Cardinality(Q)
  BY DEF EditsTo
<1> HIDE DEF P, Q
<1>3. Cardinality(P) \in Nat /\ Cardinality(Q) \in Nat
  BY <1>1, CountIs
<1> QED  BY <1>2, <1>3

\* An alignment with one more word of the reference, not heard or heard behind the others.
LEMMA OneWordMore ==
  ASSUME NEW i \in Nat, NEW j \in Nat, i \geq 1, NEW m \in Nat, m <= j,
         NEW b \in Alignments(i - 1, m), NEW a \in [1 .. i -> 0 .. j],
         \A k \in 1 .. i - 1 : a[k] = b[k], a[i] = 0 \/ a[i] > m
  PROVE  a \in Alignments(i, j)
<1>1. b \in [1 .. i - 1 -> 0 .. m] /\ Aligned(b)
  BY DEF Alignments
<1>2. \A k \in 1 .. i - 1 : a[k] <= m
  BY <1>1
<1>3. \A k, l \in 1 .. i : k < l => k \in 1 .. i - 1 /\ (l = i \/ l \in 1 .. i - 1)
  OBVIOUS
<1>4. \A k, l \in 1 .. i - 1 : k < l /\ a[k] # 0 /\ a[l] # 0 => a[k] < a[l]
  BY <1>1 DEF Aligned
<1>5. \A k, l \in 1 .. i : k < l /\ a[k] # 0 /\ a[l] # 0 => a[k] < a[l]
  <2> SUFFICES ASSUME NEW k \in 1 .. i, NEW l \in 1 .. i, k < l, a[k] # 0, a[l] # 0
               PROVE  a[k] < a[l]
    OBVIOUS
  <2>1. a[k] \in 0 .. j /\ a[l] \in 0 .. j /\ a[k] <= m
    BY <1>2, <1>3
  <2> QED  BY <1>3, <1>4, <2>1
<1> QED  BY <1>5 DEF Alignments, Aligned

\* The last word of the reference is not heard.
LEMMA Dropped ==
  ASSUME NEW ref, NEW hyp, NEW i \in Nat, NEW j \in Nat, i \geq 1,
         NEW b \in Alignments(i - 1, j), NEW a \in [1 .. i -> 0 .. j],
         \A k \in 1 .. i - 1 : a[k] = b[k], a[i] = 0
  PROVE  EditsTo(ref, hyp, i, j, a) = EditsTo(ref, hyp, i - 1, j, b) + 1
<1> DEFINE P == {k \in 1 .. i - 1 : b[k] = 0 \/ ref[k] # hyp[b[k]]}
           Pa == {k \in 1 .. i : a[k] = 0 \/ ref[k] # hyp[a[k]]}
           Q == {l \in 1 .. j : \A k \in 1 .. i - 1 : b[k] # l}
           Qa == {l \in 1 .. j : \A k \in 1 .. i : a[k] # l}
<1>2. Pa = P \cup {i}
  OBVIOUS
<1>3. Qa = Q
  <2>1. \A l \in 1 .. j : (\A k \in 1 .. i : a[k] # l) <=> \A k \in 1 .. i - 1 : b[k] # l
    OBVIOUS
  <2> QED  BY <2>1
<1>4. P \in SUBSET (1 .. i - 1) /\ Q \in SUBSET (1 .. j)
  OBVIOUS
<1>5. /\ EditsTo(ref, hyp, i, j, a) = Cardinality(Pa) + Cardinality(Qa)
      /\ EditsTo(ref, hyp, i - 1, j, b) = Cardinality(P) + Cardinality(Q)
  BY DEF EditsTo
<1> HIDE DEF P, Pa, Q, Qa
<1>6. Cardinality(Pa) = Cardinality(P) + 1 /\ Cardinality(P) \in Nat
  BY <1>2, <1>4, OneMore
<1>7. Cardinality(Q) \in Nat
  BY <1>4, CountIs
<1> QED  BY <1>3, <1>5, <1>6, <1>7

\* The last word of the reference is heard as the last one heard.
LEMMA Paired ==
  ASSUME NEW ref, NEW hyp, NEW i \in Nat, NEW j \in Nat, i \geq 1, j \geq 1,
         NEW b \in Alignments(i - 1, j - 1), NEW a \in [1 .. i -> 0 .. j],
         \A k \in 1 .. i - 1 : a[k] = b[k], a[i] = j
  PROVE  EditsTo(ref, hyp, i, j, a) = EditsTo(ref, hyp, i - 1, j - 1, b) + Swap(ref, hyp, i, j)
<1> DEFINE P == {k \in 1 .. i - 1 : b[k] = 0 \/ ref[k] # hyp[b[k]]}
           Pa == {k \in 1 .. i : a[k] = 0 \/ ref[k] # hyp[a[k]]}
           Q == {l \in 1 .. j - 1 : \A k \in 1 .. i - 1 : b[k] # l}
           Qa == {l \in 1 .. j : \A k \in 1 .. i : a[k] # l}
<1>0. b \in [1 .. i - 1 -> 0 .. j - 1] /\ Aligned(b)
  BY DEF Alignments
<1>1. Swap(ref, hyp, i, j) \in {0, 1}
  BY DEF Swap, Swapped
<1>2. Pa = IF Swap(ref, hyp, i, j) = 0 THEN P ELSE P \cup {i}
  BY DEF Swap, Swapped
<1>3. Qa = Q
  <2>1. \A l \in 1 .. j : l # j => l \in 1 .. j - 1
    OBVIOUS
  <2>2. \A l \in 1 .. j - 1 : l \in 1 .. j /\ l # j
    OBVIOUS
  <2>3. \A l \in 1 .. j - 1 : (\A k \in 1 .. i : a[k] # l) <=> \A k \in 1 .. i - 1 : b[k] # l
    <3> SUFFICES ASSUME NEW l \in 1 .. j - 1
                 PROVE  (\A k \in 1 .. i : a[k] # l) <=> \A k \in 1 .. i - 1 : b[k] # l
      OBVIOUS
    <3>1. \A k \in 1 .. i : k = i \/ k \in 1 .. i - 1
      OBVIOUS
    <3>2. \A k \in 1 .. i - 1 : k \in 1 .. i
      OBVIOUS
    <3> QED  BY <2>2, <3>1, <3>2
  <2>4. j \notin Qa
    <3>1. i \in 1 .. i
      OBVIOUS
    <3> QED  BY <3>1
  <2>5. \A l \in 1 .. j - 1 : l \in Qa <=> l \in Q
    BY <2>2, <2>3
  <2>6. \A l \in Qa : l \in 1 .. j - 1
    <3>1. Qa \in SUBSET (1 .. j)
      OBVIOUS
    <3> HIDE DEF Qa
    <3> QED  BY <2>1, <2>4, <3>1
  <2>7. \A l \in Q : l \in 1 .. j - 1
    OBVIOUS
  <2> HIDE DEF Qa, Q
  <2> QED  BY <2>5, <2>6, <2>7
<1>4. P \in SUBSET (1 .. i - 1) /\ Q \in SUBSET (1 .. j - 1)
  OBVIOUS
<1>5. /\ EditsTo(ref, hyp, i, j, a) = Cardinality(Pa) + Cardinality(Qa)
      /\ EditsTo(ref, hyp, i - 1, j - 1, b) = Cardinality(P) + Cardinality(Q)
  BY DEF EditsTo
<1> HIDE DEF P, Pa, Q, Qa
<1>6. Cardinality(P \cup {i}) = Cardinality(P) + 1 /\ Cardinality(P) \in Nat
  BY <1>4, OneMore
<1>7. Cardinality(Q) \in Nat
  BY <1>4, OneMore
<1> QED  BY <1>1, <1>2, <1>3, <1>5, <1>6, <1>7

\* The last word heard is heard beside the reference.
LEMMA Beside ==
  ASSUME NEW ref, NEW hyp, NEW i \in Nat, NEW j \in Nat, j \geq 1,
         NEW a \in Alignments(i, j - 1)
  PROVE  /\ a \in Alignments(i, j)
         /\ EditsTo(ref, hyp, i, j, a) = EditsTo(ref, hyp, i, j - 1, a) + 1
<1> DEFINE P == {k \in 1 .. i : a[k] = 0 \/ ref[k] # hyp[a[k]]}
           Q == {l \in 1 .. j - 1 : \A k \in 1 .. i : a[k] # l}
           Qa == {l \in 1 .. j : \A k \in 1 .. i : a[k] # l}
<1>0. a \in [1 .. i -> 0 .. j - 1] /\ Aligned(a)
  BY DEF Alignments
<1>1. a \in Alignments(i, j)
  BY <1>0 DEF Alignments
<1>2. Qa = Q \cup {j}
  <2>1. \A k \in 1 .. i : a[k] # j
    BY <1>0
  <2>2. \A l \in 1 .. j : l = j \/ l \in 1 .. j - 1
    OBVIOUS
  <2>3. \A l \in 1 .. j - 1 : l \in 1 .. j
    OBVIOUS
  <2> QED  BY <2>1, <2>2, <2>3
<1>3. P \in SUBSET (1 .. i) /\ Q \in SUBSET (1 .. j - 1)
  OBVIOUS
<1>4. /\ EditsTo(ref, hyp, i, j, a) = Cardinality(P) + Cardinality(Qa)
      /\ EditsTo(ref, hyp, i, j - 1, a) = Cardinality(P) + Cardinality(Q)
  BY DEF EditsTo
<1> HIDE DEF P, Q, Qa
<1>5. Cardinality(Qa) = Cardinality(Q) + 1 /\ Cardinality(Q) \in Nat
  BY <1>2, <1>3, OneMore
<1>6. Cardinality(P) \in Nat
  BY <1>3, CountIs
<1> QED  BY <1>1, <1>4, <1>5, <1>6

\* The table of distances: D[i][j] for the first i words and the first j heard.
Table(ref, hyp, D) ==
  /\ D \in [0 .. Len(ref) -> [0 .. Len(hyp) -> Nat]]
  /\ \A j \in 0 .. Len(hyp) : D[0][j] = j
  /\ \A i \in 1 .. Len(ref) : D[i][0] = D[i - 1][0] + 1
  /\ \A i \in 1 .. Len(ref), j \in 1 .. Len(hyp) :
       D[i][j] = Smaller(Smaller(D[i - 1][j], D[i][j - 1]) + 1,
                         D[i - 1][j - 1] + Swap(ref, hyp, i, j))

\* Nothing said: every word heard is an edit.
LEMMA EachHeard ==
  ASSUME NEW ref, NEW hyp, NEW j \in Nat, NEW a
  PROVE  EditsTo(ref, hyp, 0, j, a) = j
<1>1. {k \in 1 .. 0 : a[k] = 0 \/ ref[k] # hyp[a[k]]} = {}
  OBVIOUS
<1>2. {l \in 1 .. j : \A k \in 1 .. 0 : a[k] # l} = 1 .. j
  OBVIOUS
<1>3. Cardinality(1 .. j) = j
  BY FS_Interval
<1>4. Cardinality({}) = 0
  BY FS_EmptySet
<1>5. EditsTo(ref, hyp, 0, j, a) = Cardinality({}) + Cardinality(1 .. j)
  BY <1>1, <1>2, Zenon DEF EditsTo
<1> QED  BY <1>3, <1>4, <1>5

\* Where the reference has no word, every word heard is an edit.
LEMMA NothingSaid ==
  ASSUME NEW ref, NEW hyp, NEW j \in Nat
  PROVE  Cheapest(ref, hyp, 0, j, j)
<1>1. [k \in 1 .. 0 |-> 0] \in Alignments(0, j)
  BY DEF Alignments, Aligned
<1> QED  BY <1>1, EachHeard DEF Cheapest

\* The first column: nothing heard, every word of the reference is an edit.
LEMMA NothingHeard ==
  ASSUME NEW ref, NEW hyp, NEW i \in Nat, i \geq 1, NEW d \in Nat,
         Cheapest(ref, hyp, i - 1, 0, d)
  PROVE  Cheapest(ref, hyp, i, 0, d + 1)
<1>1. ASSUME NEW a \in Alignments(i, 0) PROVE d + 1 <= EditsTo(ref, hyp, i, 0, a)
  <2> DEFINE b == [k \in 1 .. i - 1 |-> a[k]]
  <2>1. a \in [1 .. i -> 0 .. 0] /\ a[i] = 0
    BY DEF Alignments
  <2>2. b \in Alignments(i - 1, 0)
    BY <2>1 DEF Alignments, Aligned
  <2>3. \A k \in 1 .. i - 1 : a[k] = b[k]
    OBVIOUS
  <2> HIDE DEF b
  <2>4. EditsTo(ref, hyp, i, 0, a) = EditsTo(ref, hyp, i - 1, 0, b) + 1
    BY <2>1, <2>2, <2>3, Dropped
  <2>5. d <= EditsTo(ref, hyp, i - 1, 0, b) /\ EditsTo(ref, hyp, i - 1, 0, b) \in Nat
    BY <2>2, EditsType DEF Cheapest
  <2> QED  BY <2>4, <2>5
<1>2. PICK b \in Alignments(i - 1, 0) : EditsTo(ref, hyp, i - 1, 0, b) = d
  BY DEF Cheapest
<1> DEFINE a == [k \in 1 .. i |-> IF k = i THEN 0 ELSE b[k]]
<1>3. a \in [1 .. i -> 0 .. 0] /\ a[i] = 0 /\ \A k \in 1 .. i - 1 : a[k] = b[k]
  BY DEF Alignments
<1> HIDE DEF a
<1>4. a \in Alignments(i, 0)
  BY <1>3, OneWordMore
<1>5. EditsTo(ref, hyp, i, 0, a) = EditsTo(ref, hyp, i - 1, 0, b) + 1
  BY <1>3, Dropped
<1> QED  BY <1>1, <1>2, <1>4, <1>5 DEF Cheapest

\* A cell: the cheapest of the three ways to end.
LEMMA CellIs ==
  ASSUME NEW ref, NEW hyp, NEW i \in Nat, NEW j \in Nat, i \geq 1, j \geq 1,
         NEW up \in Nat, NEW left \in Nat, NEW across \in Nat,
         Cheapest(ref, hyp, i - 1, j, up), Cheapest(ref, hyp, i, j - 1, left),
         Cheapest(ref, hyp, i - 1, j - 1, across)
  PROVE  Cheapest(ref, hyp, i, j,
           Smaller(Smaller(up, left) + 1, across + Swap(ref, hyp, i, j)))
<1> DEFINE c == Swap(ref, hyp, i, j)
           d == Smaller(Smaller(up, left) + 1, across + Swap(ref, hyp, i, j))
<1>1. /\ c \in {0, 1} /\ d \in Nat /\ d <= up + 1 /\ d <= left + 1 /\ d <= across + c
      /\ d \in {up + 1, left + 1, across + c}
  BY DEF Smaller, Swap, Swapped
<1>2. ASSUME NEW a \in Alignments(i, j) PROVE d <= EditsTo(ref, hyp, i, j, a)
  <2> DEFINE b == [k \in 1 .. i - 1 |-> a[k]]
  <2>1. a \in [1 .. i -> 0 .. j] /\ Aligned(a)
    BY DEF Alignments
  <2>2. \A k \in 1 .. i - 1 : a[k] = b[k]
    OBVIOUS
  <2>3. \A k, l \in 1 .. i - 1 : k < l /\ b[k] # 0 /\ b[l] # 0 => b[k] < b[l]
    BY <2>1 DEF Aligned
  <2>4. CASE a[i] = 0
    <3>1. b \in Alignments(i - 1, j)
      BY <2>1, <2>3 DEF Alignments, Aligned
    <3> HIDE DEF b, d, c
    <3>2. EditsTo(ref, hyp, i, j, a) = EditsTo(ref, hyp, i - 1, j, b) + 1
      BY <2>1, <2>2, <2>4, <3>1, Dropped
    <3>3. up <= EditsTo(ref, hyp, i - 1, j, b) /\ EditsTo(ref, hyp, i - 1, j, b) \in Nat
      BY <3>1, EditsType DEF Cheapest
    <3> QED  BY <1>1, <3>2, <3>3
  <2>5. CASE a[i] = j
    <3>1. \A k \in 1 .. i - 1 : a[k] \in 0 .. j - 1
      <4> SUFFICES ASSUME NEW k \in 1 .. i - 1 PROVE a[k] \in 0 .. j - 1
        OBVIOUS
      <4>1. k \in 1 .. i /\ i \in 1 .. i /\ k < i
        OBVIOUS
      <4>2. a[k] # 0 => a[k] < j
        BY <2>1, <2>5, <4>1 DEF Aligned
      <4> QED  BY <2>1, <4>1, <4>2
    <3>2. b \in Alignments(i - 1, j - 1)
      BY <2>3, <3>1 DEF Alignments, Aligned
    <3> HIDE DEF b, d
    <3>3. EditsTo(ref, hyp, i, j, a) = EditsTo(ref, hyp, i - 1, j - 1, b) + c
      BY <2>1, <2>2, <2>5, <3>2, Paired
    <3>4. across <= EditsTo(ref, hyp, i - 1, j - 1, b) /\ EditsTo(ref, hyp, i - 1, j - 1, b) \in Nat
      BY <3>2, EditsType DEF Cheapest
    <3> QED  BY <1>1, <3>3, <3>4
  <2>6. CASE a[i] \notin {0, j}
    <3>1. a[i] \in 0 .. j - 1
      BY <2>1, <2>6
    <3>2. \A k \in 1 .. i : a[k] \in 0 .. j - 1
      <4> SUFFICES ASSUME NEW k \in 1 .. i PROVE a[k] \in 0 .. j - 1
        OBVIOUS
      <4>1. i \in 1 .. i /\ (k = i \/ k < i)
        OBVIOUS
      <4>2. k < i /\ a[k] # 0 => a[k] < a[i]
        BY <2>1, <2>6, <4>1 DEF Aligned
      <4>3. a[k] \in 0 .. j
        BY <2>1
      <4> QED  BY <3>1, <4>1, <4>2, <4>3
    <3>3. a \in Alignments(i, j - 1)
      BY <2>1, <3>2 DEF Alignments
    <3> HIDE DEF d, c
    <3>4. EditsTo(ref, hyp, i, j, a) = EditsTo(ref, hyp, i, j - 1, a) + 1
      BY <3>3, Beside
    <3>5. left <= EditsTo(ref, hyp, i, j - 1, a) /\ EditsTo(ref, hyp, i, j - 1, a) \in Nat
      BY <3>3, EditsType DEF Cheapest
    <3> QED  BY <1>1, <3>4, <3>5
  <2> QED  BY <2>4, <2>5, <2>6
<1>3. \E a \in Alignments(i, j) : EditsTo(ref, hyp, i, j, a) = d
  <2>1. CASE d = up + 1
    <3>1. PICK b \in Alignments(i - 1, j) : EditsTo(ref, hyp, i - 1, j, b) = up
      BY DEF Cheapest
    <3> DEFINE a == [k \in 1 .. i |-> IF k = i THEN 0 ELSE b[k]]
    <3>2. a \in [1 .. i -> 0 .. j] /\ a[i] = 0 /\ \A k \in 1 .. i - 1 : a[k] = b[k]
      BY DEF Alignments
    <3> HIDE DEF a, d
    <3>3. a \in Alignments(i, j)
      <4>1. j <= j
        OBVIOUS
      <4> QED  BY <3>2, <4>1, OneWordMore
    <3>4. EditsTo(ref, hyp, i, j, a) = EditsTo(ref, hyp, i - 1, j, b) + 1
      BY <3>2, Dropped
    <3> QED  BY <2>1, <3>1, <3>3, <3>4
  <2>2. CASE d = left + 1
    <3>1. PICK a \in Alignments(i, j - 1) : EditsTo(ref, hyp, i, j - 1, a) = left
      BY DEF Cheapest
    <3> HIDE DEF d
    <3>2. a \in Alignments(i, j) /\ EditsTo(ref, hyp, i, j, a) = left + 1
      BY <3>1, Beside
    <3> QED  BY <2>2, <3>2
  <2>3. CASE d = across + c
    <3>1. PICK b \in Alignments(i - 1, j - 1) : EditsTo(ref, hyp, i - 1, j - 1, b) = across
      BY DEF Cheapest
    <3> DEFINE a == [k \in 1 .. i |-> IF k = i THEN j ELSE b[k]]
    <3>2. a \in [1 .. i -> 0 .. j] /\ a[i] = j /\ \A k \in 1 .. i - 1 : a[k] = b[k]
      BY DEF Alignments
    <3> HIDE DEF a, d
    <3>3. a \in Alignments(i, j)
      <4>1. j - 1 \in Nat /\ j - 1 <= j /\ a[i] > j - 1
        BY <3>2
      <4> QED  BY <3>2, <4>1, OneWordMore
    <3>4. EditsTo(ref, hyp, i, j, a) = EditsTo(ref, hyp, i - 1, j - 1, b) + c
      BY <3>2, Paired
    <3> QED  BY <2>3, <3>1, <3>3, <3>4
  <2> HIDE DEF d, c
  <2> QED  BY <1>1, <2>1, <2>2, <2>3
<1> HIDE DEF d
<1>4. Cheapest(ref, hyp, i, j, d)
  BY <1>2, <1>3 DEF Cheapest
<1> QED  BY <1>4 DEF d

\* Every cell of the table is the least number of edits.
LEMMA TableIs ==
  ASSUME NEW ref \in Seq(Word), NEW hyp \in Seq(Word), NEW D, Table(ref, hyp, D)
  PROVE  \A i \in 0 .. Len(ref), j \in 0 .. Len(hyp) : Cheapest(ref, hyp, i, j, D[i][j])
<1> DEFINE N == Len(ref)
           M == Len(hyp)
           T == {i \in Nat : i <= N => \A j \in 0 .. M : Cheapest(ref, hyp, i, j, D[i][j])}
<1>0. N \in Nat /\ M \in Nat
  OBVIOUS
<1>t. \A i \in 0 .. N, j \in 0 .. M : D[i][j] \in Nat
  BY DEF Table
<1>1. 0 \in T
  <2>1. \A j \in 0 .. M : D[0][j] = j /\ j \in Nat
    BY <1>0 DEF Table
  <2> HIDE DEF M, N
  <2>2. \A j \in 0 .. M : Cheapest(ref, hyp, 0, j, D[0][j])
    BY <2>1, NothingSaid
  <2> QED  BY <2>2
<1>2. ASSUME NEW n \in Nat, n \in T PROVE n + 1 \in T
  <2> SUFFICES ASSUME n + 1 <= N
               PROVE  \A j \in 0 .. M : Cheapest(ref, hyp, n + 1, j, D[n + 1][j])
    OBVIOUS
  <2> DEFINE i == n + 1
             R == {j \in Nat : j <= M => Cheapest(ref, hyp, i, j, D[i][j])}
  <2>1. i \in 1 .. N /\ i \in 0 .. N /\ i - 1 \in 0 .. N /\ i - 1 = n /\ i \in Nat /\ i \geq 1
    BY <1>0
  <2>2. \A j \in 0 .. M : Cheapest(ref, hyp, i - 1, j, D[i - 1][j])
    BY <1>2, <2>1
  <2> HIDE DEF T, i
  <2>3. 0 \in R
    <3>1. D[i][0] = D[i - 1][0] + 1
      BY <2>1 DEF Table
    <3> HIDE DEF M, N
    <3>2. 0 \in 0 .. M
      BY <1>0
    <3>3. D[i - 1][0] \in Nat /\ Cheapest(ref, hyp, i - 1, 0, D[i - 1][0])
      BY <1>t, <2>1, <2>2, <3>2
    <3>4. Cheapest(ref, hyp, i, 0, D[i][0])
      BY <2>1, <3>1, <3>3, NothingHeard
    <3> QED  BY <3>4
  <2>4. ASSUME NEW m \in Nat, m \in R PROVE m + 1 \in R
    <3> SUFFICES ASSUME m + 1 <= M PROVE Cheapest(ref, hyp, i, m + 1, D[i][m + 1])
      OBVIOUS
    <3> DEFINE j == m + 1
    <3>1. j \in 1 .. M /\ j \in 0 .. M /\ j - 1 \in 0 .. M /\ j - 1 = m /\ j \in Nat /\ j \geq 1
      BY <1>0
    <3>2. Cheapest(ref, hyp, i, j - 1, D[i][j - 1])
      BY <2>4, <3>1
    <3> HIDE DEF j, R
    <3>3. D[i][j] = Smaller(Smaller(D[i - 1][j], D[i][j - 1]) + 1,
                            D[i - 1][j - 1] + Swap(ref, hyp, i, j))
      BY <2>1, <3>1 DEF Table
    <3> HIDE DEF M, N
    <3>4. D[i - 1][j] \in Nat /\ D[i][j - 1] \in Nat /\ D[i - 1][j - 1] \in Nat
      BY <1>t, <2>1, <3>1
    <3>5. Cheapest(ref, hyp, i - 1, j, D[i - 1][j]) /\ Cheapest(ref, hyp, i - 1, j - 1, D[i - 1][j - 1])
      BY <2>2, <3>1
    <3>6. Cheapest(ref, hyp, i, j,
            Smaller(Smaller(D[i - 1][j], D[i][j - 1]) + 1,
                    D[i - 1][j - 1] + Swap(ref, hyp, i, j)))
      BY <2>1, <3>1, <3>2, <3>4, <3>5, CellIs
    <3>7. Cheapest(ref, hyp, i, j, D[i][j])
      BY <3>3, <3>6
    <3> QED  BY <3>7 DEF j
  <2> HIDE DEF R
  <2>5. Nat \subseteq R
    BY <2>3, <2>4, NaturalInduction
  <2>6. \A j \in 0 .. M : Cheapest(ref, hyp, i, j, D[i][j])
    BY <1>0, <2>5 DEF R
  <2> QED  BY <2>6 DEF i
<1> HIDE DEF T
<1>3. Nat \subseteq T
  BY <1>1, <1>2, NaturalInduction
<1> QED  BY <1>0, <1>3 DEF T

\* What NextRow makes of the row before.
LEMMA RowIs ==
  ASSUME NEW hyp \in Seq(Word), NEW prev \in [0 .. Len(hyp) -> Nat], NEW r
  PROVE  /\ NextRow(prev, r, hyp) \in [0 .. Len(hyp) -> Nat]
         /\ NextRow(prev, r, hyp)[0] = prev[0] + 1
         /\ \A j \in 1 .. Len(hyp) :
              NextRow(prev, r, hyp)[j]
                = Smaller(Smaller(prev[j], NextRow(prev, r, hyp)[j - 1]) + 1,
                          prev[j - 1] + Swapped(hyp, j, r))
<1> DEFINE M == Len(hyp)
           cost(j) == IF hyp[j] = r THEN 0 ELSE 1
           cell(j, left) == Smaller(Smaller(prev[j], left) + 1, prev[j - 1] + cost(j))
           body(f, j) == IF j = 0 THEN prev[0] + 1
                         ELSE Smaller(Smaller(prev[j], f[j - 1]) + 1,
                                      prev[j - 1] + IF hyp[j] = r THEN 0 ELSE 1)
           Is(f) == f = [j \in 0 .. Len(hyp) |-> body(f, j)]
           at == CHOOSE f : Is(f)
           step == [p \in (1 .. M) \X Nat |-> cell(p[1], p[2])]
<1>1. M \in Nat /\ prev[0] + 1 \in Nat
  <2>1. M \in Nat
    OBVIOUS
  <2>2. 0 \in 0 .. M
    BY <2>1
  <2> QED  BY <2>1, <2>2
<1>2. \A j \in 1 .. M, n \in Nat : cell(j, n) \in Nat
  <2> SUFFICES ASSUME NEW j \in 1 .. M, NEW n \in Nat PROVE cell(j, n) \in Nat
    OBVIOUS
  <2>1. cost(j) \in Nat /\ prev[j] \in Nat /\ prev[j - 1] \in Nat
    <3>1. j \in 0 .. M /\ j - 1 \in 0 .. M
      BY <1>1
    <3> QED  BY <3>1
  <2> HIDE DEF cost
  <2> QED  BY <2>1 DEF Smaller
<1>3. step \in [(1 .. M) \X Nat -> Nat]
  <2> HIDE DEF cell, M
  <2>1. \A p \in (1 .. M) \X Nat : cell(p[1], p[2]) \in Nat
    BY <1>2
  <2> QED  BY <2>1
<1>4. PICK f : IsRecursion(f, M, Nat, prev[0] + 1, step)
  <2> HIDE DEF step, M
  <2> QED  BY <1>1, <1>3, RecursionExists
<1>5. f \in [0 .. M -> Nat] /\ f[0] = prev[0] + 1
  <2> HIDE DEF step, M
  <2> QED  BY <1>4 DEF IsRecursion
<1>6. \A j \in 1 .. M : f[j] = cell(j, f[j - 1])
  <2> SUFFICES ASSUME NEW j \in 1 .. M PROVE f[j] = cell(j, f[j - 1])
    OBVIOUS
  <2>1. <<j, f[j - 1]>> \in (1 .. M) \X Nat
    <3> HIDE DEF M, step
    <3>1. j - 1 \in 0 .. M
      BY <1>1
    <3> QED  BY <1>5, <3>1
  <2>2. f[j] = step[<<j, f[j - 1]>>]
    <3> HIDE DEF M, step, cell
    <3> QED  BY <1>4 DEF IsRecursion
  <2> HIDE DEF cell, M
  <2> QED  BY <2>1, <2>2
<1>7. \A j \in 0 .. M : f[j] = body(f, j)
  <2> SUFFICES ASSUME NEW j \in 0 .. M PROVE f[j] = body(f, j)
    OBVIOUS
  <2>1. j # 0 => j \in 1 .. M
    BY <1>1
  <2>2. j # 0 => f[j] = cell(j, f[j - 1])
    BY <1>6, <2>1
  <2> QED  BY <1>5, <2>2, Zenon
<1>8. Is(f)
  <2> HIDE DEF body
  <2> QED  BY <1>5, <1>7
<1>9. Is(at)
  <2> HIDE DEF Is
  <2> QED  BY <1>8
<1>10. NextRow(prev, r, hyp) = at
  BY DEF NextRow
<1> HIDE DEF at, step
<1>11. \A j \in 0 .. M : at[j] = body(at, j)
  <2> HIDE DEF body
  <2> QED  BY <1>9
<1>12. DOMAIN at = 0 .. M /\ at = [j \in 0 .. M |-> at[j]]
  <2> HIDE DEF body
  <2>1. PICK e : at = [j \in 0 .. M |-> e[j]]
    <3>1. at = [j \in 0 .. M |-> [k \in 0 .. M |-> body(at, k)][j]]
      BY <1>9
    <3> QED  BY <3>1
  <2> QED  BY <2>1
<1>13. at = f
  <2>1. at[0] = f[0]
    <3>1. 0 \in 0 .. M
      BY <1>1
    <3>2. at[0] = prev[0] + 1
      BY <1>11, <3>1
    <3> QED  BY <1>5, <3>2
  <2>2. ASSUME NEW j \in 1 .. M, at[j - 1] = f[j - 1] PROVE at[j] = f[j]
    <3>1. j \in 0 .. M /\ j # 0
      BY <1>1
    <3>2. at[j] = body(at, j) /\ f[j] = body(f, j)
      BY <1>7, <1>11, <3>1
    <3>3. body(at, j) = body(f, j)
      BY <2>2
    <3> HIDE DEF body
    <3> QED  BY <3>2, <3>3
  <2> HIDE DEF M, body, cell
  <2> QED  BY <1>1, <1>5, <1>12, <2>1, <2>2, SameRecursion
<1>14. \A j \in 1 .. M : at[j] = cell(j, at[j - 1])
  BY <1>6, <1>13
<1> HIDE DEF Is
<1>15. \A j \in 1 .. M : cell(j, at[j - 1])
                            = Smaller(Smaller(prev[j], at[j - 1]) + 1, prev[j - 1] + Swapped(hyp, j, r))
  BY Zenon DEF Swapped
<1> HIDE DEF cell
<1> QED  BY <1>5, <1>10, <1>13, <1>14, <1>15, Zenon

\* wer computes the table.
LEMMA DistanceIs ==
  ASSUME NEW ref \in Seq(Word), NEW hyp \in Seq(Word)
  PROVE  \E D : Table(ref, hyp, D) /\ Distance(ref, hyp) = D[Len(ref)][Len(hyp)]
<1> DEFINE N == Len(ref)
           M == Len(hyp)
           Row == [0 .. Len(hyp) -> Nat]
           first == [j \in 0 .. Len(hyp) |-> j]
           body(f, n) == IF n = 0 THEN [j \in 0 .. Len(hyp) |-> j]
                         ELSE NextRow(f[n - 1], ref[n], hyp)
           Is(f) == f = [n \in 0 .. Len(ref) |-> body(f, n)]
           at == CHOOSE f : Is(f)
           step == [p \in (1 .. N) \X Row |-> NextRow(p[2], ref[p[1]], hyp)]
<1>1. N \in Nat /\ M \in Nat /\ first \in Row
  OBVIOUS
<1>2. step \in [(1 .. N) \X Row -> Row]
  <2>1. \A p \in (1 .. N) \X Row : NextRow(p[2], ref[p[1]], hyp) \in Row
    <3> SUFFICES ASSUME NEW p \in (1 .. N) \X Row PROVE NextRow(p[2], ref[p[1]], hyp) \in Row
      OBVIOUS
    <3>1. p[2] \in [0 .. Len(hyp) -> Nat]
      OBVIOUS
    <3> QED  BY <3>1, RowIs
  <2> HIDE DEF N, Row
  <2> QED  BY <2>1
<1>3. PICK f : IsRecursion(f, N, Row, first, step)
  <2> HIDE DEF step, N, Row, first
  <2> QED  BY <1>1, <1>2, RecursionExists
<1>4. f \in [0 .. N -> Row] /\ f[0] = first
  <2> HIDE DEF step, N, Row, first
  <2> QED  BY <1>3 DEF IsRecursion
<1>5. \A n \in 1 .. N : f[n - 1] \in Row /\ f[n] = NextRow(f[n - 1], ref[n], hyp)
  <2> SUFFICES ASSUME NEW n \in 1 .. N
               PROVE  f[n - 1] \in Row /\ f[n] = NextRow(f[n - 1], ref[n], hyp)
    OBVIOUS
  <2> HIDE DEF Row, first
  <2>1. f[n - 1] \in Row
    <3> HIDE DEF step, N
    <3>1. n - 1 \in 0 .. N
      BY <1>1
    <3> QED  BY <1>4, <3>1
  <2>2. f[n] = step[<<n, f[n - 1]>>]
    <3> HIDE DEF N, step
    <3> QED  BY <1>3 DEF IsRecursion
  <2>3. <<n, f[n - 1]>> \in (1 .. N) \X Row
    <3> HIDE DEF N, step
    <3> QED  BY <2>1
  <2> QED  BY <2>1, <2>2, <2>3
<1>6. \A n \in 0 .. N : f[n] = body(f, n)
  <2> SUFFICES ASSUME NEW n \in 0 .. N PROVE f[n] = body(f, n)
    OBVIOUS
  <2>1. n # 0 => n \in 1 .. N
    BY <1>1
  <2>2. n # 0 => f[n] = NextRow(f[n - 1], ref[n], hyp)
    BY <1>5, <2>1
  <2> QED  BY <1>4, <2>2, Zenon
<1>7. Is(f)
  <2> HIDE DEF body
  <2>1. DOMAIN f = 0 .. N /\ f = [n \in 0 .. N |-> f[n]]
    BY <1>4
  <2> QED  BY <1>6, <2>1
<1>8. Is(at)
  <2> HIDE DEF Is
  <2> QED  BY <1>7
<1>9. Distance(ref, hyp) = at[Len(ref)][Len(hyp)]
  BY DEF Distance
<1> HIDE DEF at, step
<1>10. \A n \in 0 .. N : at[n] = body(at, n)
  <2> HIDE DEF body
  <2> QED  BY <1>8
<1>11. DOMAIN at = 0 .. N /\ at = [n \in 0 .. N |-> at[n]]
  <2> HIDE DEF body
  <2>1. PICK e : at = [n \in 0 .. N |-> e[n]]
    <3>1. at = [n \in 0 .. N |-> [k \in 0 .. N |-> body(at, k)][n]]
      BY <1>8
    <3> QED  BY <3>1
  <2> QED  BY <2>1
<1>12. at = f
  <2>1. at[0] = f[0]
    <3>1. 0 \in 0 .. N
      BY <1>1
    <3>2. at[0] = first
      BY <1>10, <3>1
    <3> QED  BY <1>4, <3>2
  <2>2. ASSUME NEW n \in 1 .. N, at[n - 1] = f[n - 1] PROVE at[n] = f[n]
    <3>1. n \in 0 .. N /\ n # 0
      BY <1>1
    <3>2. at[n] = NextRow(at[n - 1], ref[n], hyp)
      BY <1>10, <3>1, Zenon
    <3> HIDE DEF N, Row, first, body, Is
    <3> QED  BY <1>5, <2>2, <3>2
  <2> HIDE DEF N, Row, first, body, Is
  <2> QED  BY <1>1, <1>4, <1>11, <2>1, <2>2, SameRecursion
<1>13. Table(ref, hyp, f)
  <2>1. f \in [0 .. Len(ref) -> [0 .. Len(hyp) -> Nat]]
    BY <1>4
  <2>2. \A j \in 0 .. Len(hyp) : f[0][j] = j
    BY <1>4
  <2>3. \A i \in 1 .. Len(ref) : f[i - 1] \in [0 .. Len(hyp) -> Nat] /\ f[i] = NextRow(f[i - 1], ref[i], hyp)
    BY <1>5
  <2>4. ASSUME NEW i \in 1 .. Len(ref)
        PROVE  /\ f[i][0] = f[i - 1][0] + 1
               /\ \A j \in 1 .. Len(hyp) :
                    f[i][j] = Smaller(Smaller(f[i - 1][j], f[i][j - 1]) + 1,
                                      f[i - 1][j - 1] + Swapped(hyp, j, ref[i]))
    <3>1. f[i - 1] \in [0 .. Len(hyp) -> Nat] /\ f[i] = NextRow(f[i - 1], ref[i], hyp)
      BY <2>3
    <3> DEFINE prev == f[i - 1]
               r == ref[i]
    <3>2. prev \in [0 .. Len(hyp) -> Nat]
      BY <3>1
    <3> HIDE DEF N, M, Row, first, body, Is, prev, r
    <3>3. /\ NextRow(prev, r, hyp)[0] = prev[0] + 1
          /\ \A j \in 1 .. Len(hyp) :
               NextRow(prev, r, hyp)[j]
                 = Smaller(Smaller(prev[j], NextRow(prev, r, hyp)[j - 1]) + 1,
                           prev[j - 1] + Swapped(hyp, j, r))
      BY <3>2, RowIs
    <3>4. f[i] = NextRow(prev, r, hyp)
      BY <3>1 DEF prev, r
    <3> QED  BY <3>3, <3>4, Zenon DEF prev, r
  <2>5. \A i \in 1 .. Len(ref), j \in 1 .. Len(hyp) :
          f[i][j] = Smaller(Smaller(f[i - 1][j], f[i][j - 1]) + 1,
                            f[i - 1][j - 1] + Swap(ref, hyp, i, j))
    BY <2>4, Zenon DEF Swap
  <2>6. \A i \in 1 .. Len(ref) : f[i][0] = f[i - 1][0] + 1
    BY <2>4
  <2> HIDE DEF N, M, Row, first, body, Is
  <2> QED  BY <2>1, <2>2, <2>5, <2>6 DEF Table
<1>14. Distance(ref, hyp) = f[Len(ref)][Len(hyp)]
  BY <1>9, <1>12
<1> QED  BY <1>13, <1>14

\* wer finds the least number of edits.
LEMMA DistanceLeast ==
  ASSUME NEW ref \in Seq(Word), NEW hyp \in Seq(Word)
  PROVE  /\ Distance(ref, hyp) \in Nat
         /\ Cheapest(ref, hyp, Len(ref), Len(hyp), Distance(ref, hyp))
<1>1. PICK D : Table(ref, hyp, D) /\ Distance(ref, hyp) = D[Len(ref)][Len(hyp)]
  BY DistanceIs
<1>2. Len(ref) \in 0 .. Len(ref) /\ Len(hyp) \in 0 .. Len(hyp)
  OBVIOUS
<1>3. Cheapest(ref, hyp, Len(ref), Len(hyp), D[Len(ref)][Len(hyp)])
  BY <1>1, <1>2, TableIs
<1>4. D[Len(ref)][Len(hyp)] \in Nat
  BY <1>1, <1>2 DEF Table
<1> QED  BY <1>1, <1>3, <1>4

\* Rounding to thousandths: what is over the band.
LEMMA RoundedOver ==
  ASSUME NEW d \in Nat, NEW n \in Nat, n > 0
  PROVE  (2000 * d + n) \div (2 * n) > TranscriptBand
           <=> 2000 * d >= (2 * TranscriptBand + 1) * n
<1> DEFINE x == 2000 * d + n
           m == 2 * n
           q == x \div m
<1>1. x \in Nat /\ m \in Nat /\ m > 0
  OBVIOUS
<1>2. q \in Int /\ m * q <= x /\ x < m * q + m
  <2> HIDE DEF x, m
  <2> QED  BY <1>1
<1>3. q > 200 <=> x >= 201 * m
  <2> HIDE DEF x, m, q
  <2>1. q > 200 => m * q >= m * 201
    BY <1>1, <1>2
  <2>2. q <= 200 => m * q <= m * 200
    BY <1>1, <1>2
  <2> QED  BY <1>1, <1>2, <2>1, <2>2
<1> QED  BY <1>3 DEF TranscriptBand

\* The verdict on a track, in terms of its alignments.
Diverges(ref, heard) ==
  \A a \in [1 .. Len(ref) -> 0 .. Len(heard)] :
    Aligned(a) => /\ Edits(ref, heard, a) > 0
                  /\ 2000 * Edits(ref, heard, a) >= (2 * TranscriptBand + 1) * Len(ref)

\* The rounded rate is beyond the band exactly if every alignment needs too many edits.
LEMMA WerIs ==
  ASSUME NEW ref \in Seq(Word), NEW hyp \in Seq(Word)
  PROVE  Wer(ref, hyp) > TranscriptBand <=> Diverges(ref, hyp)
<1> DEFINE n == Len(ref)
           d == Distance(ref, hyp)
<1>1. n \in Nat /\ d \in Nat /\ Cheapest(ref, hyp, Len(ref), Len(hyp), d)
  BY DistanceLeast
<1>2. \A a \in [1 .. Len(ref) -> 0 .. Len(hyp)] :
        Edits(ref, hyp, a) = EditsTo(ref, hyp, Len(ref), Len(hyp), a)
  BY DEF Edits, EditsTo
<1>3. \A a \in [1 .. Len(ref) -> 0 .. Len(hyp)] : Edits(ref, hyp, a) \in Nat
  <2>1. Len(ref) \in Nat /\ Len(hyp) \in Nat
    OBVIOUS
  <2> QED  BY <1>2, <2>1, EditsType
<1>4. CASE ref = <<>>
  <2>1. n = 0 /\ Len(hyp) \in Nat
    BY <1>4
  <2>2. \A a \in [1 .. Len(ref) -> 0 .. Len(hyp)] : Edits(ref, hyp, a) = Len(hyp)
    <3>1. \A a : EditsTo(ref, hyp, 0, Len(hyp), a) = Len(hyp)
      BY <2>1, EachHeard
    <3>2. Len(ref) = 0
      BY <2>1
    <3> QED  BY <1>2, <3>1, <3>2
  <2>3. [k \in 1 .. 0 |-> 0] \in [1 .. Len(ref) -> 0 .. Len(hyp)] /\ Aligned([k \in 1 .. 0 |-> 0])
    BY <2>1 DEF Aligned
  <2>4. hyp = <<>> <=> Len(hyp) = 0
    OBVIOUS
  <2>5. Wer(ref, hyp) > TranscriptBand <=> hyp # <<>>
    BY <1>4 DEF Wer, TranscriptBand
  <2>6. Diverges(ref, hyp) <=> Len(hyp) > 0
    <3>1. (2 * TranscriptBand + 1) * Len(ref) = 0
      BY <2>1 DEF TranscriptBand
    <3> DEFINE none == [k \in 1 .. 0 |-> 0]
    <3>2. ASSUME Diverges(ref, hyp) PROVE Len(hyp) > 0
      <4> HIDE DEF none
      <4>1. Edits(ref, hyp, none) > 0
        BY <2>3, <3>2 DEF Diverges, none
      <4>2. Edits(ref, hyp, none) = Len(hyp)
        BY <2>2, <2>3 DEF none
      <4> QED  BY <4>1, <4>2
    <3>3. ASSUME Len(hyp) > 0 PROVE Diverges(ref, hyp)
      <4> SUFFICES ASSUME NEW a \in [1 .. Len(ref) -> 0 .. Len(hyp)], Aligned(a)
                   PROVE  /\ Edits(ref, hyp, a) > 0
                          /\ 2000 * Edits(ref, hyp, a) >= (2 * TranscriptBand + 1) * Len(ref)
        BY DEF Diverges
      <4>1. Edits(ref, hyp, a) = Len(hyp)
        BY <2>2
      <4> QED  BY <2>1, <3>1, <3>3, <4>1
    <3> QED  BY <3>2, <3>3
  <2> QED  BY <2>1, <2>4, <2>5, <2>6
<1>5. CASE ref # <<>>
  <2>1. n > 0
    BY <1>5
  <2>2. Wer(ref, hyp) > TranscriptBand <=> 2000 * d >= (2 * TranscriptBand + 1) * n
    BY <1>1, <1>5, <2>1, RoundedOver DEF Wer
  <2> DEFINE over == (2 * TranscriptBand + 1) * n
  <2>3. over \in Nat /\ over > 0
    BY <1>1, <2>1 DEF TranscriptBand
  <2>4. ASSUME 2000 * d >= over PROVE Diverges(ref, hyp)
    <3> SUFFICES ASSUME NEW a \in [1 .. Len(ref) -> 0 .. Len(hyp)], Aligned(a)
                 PROVE  Edits(ref, hyp, a) > 0 /\ 2000 * Edits(ref, hyp, a) >= over
      BY DEF Diverges
    <3>1. d <= Edits(ref, hyp, a) /\ Edits(ref, hyp, a) \in Nat
      BY <1>1, <1>2, <1>3 DEF Cheapest, Alignments
    <3> HIDE DEF d, over
    <3> QED  BY <1>1, <2>3, <2>4, <3>1
  <2>5. ASSUME Diverges(ref, hyp) PROVE 2000 * d >= over
    <3>1. PICK a \in [1 .. Len(ref) -> 0 .. Len(hyp)] : Aligned(a) /\ Edits(ref, hyp, a) = d
      BY <1>1, <1>2 DEF Cheapest, Alignments
    <3> QED  BY <2>5, <3>1 DEF Diverges
  <2> QED  BY <2>2, <2>4, <2>5
<1> QED  BY <1>4, <1>5

-----------------------------------------------------------------------------
(* What the two sides have of a call keeps its shape.                      *)

TimedTurn == [reported : Int \cup {None}, measured : Int \cup {None}]
Track == [text : BOOLEAN, ref : Seq(Word), wav : BOOLEAN, heard : Seq(Word) \cup {None}]

ClaimedTyped ==
  claimed \in [turns : Seq(TimedTurn), tracks : [Tracks -> Track],
               covered : [Tracks -> Covered], stt : BOOLEAN]

\* What reconcile is given has the types it reads, at first ...
LEMMA ClaimedTypedInit == ClaimedInit => ClaimedTyped
<1> SUFFICES ASSUME ClaimedInit PROVE ClaimedTyped
  OBVIOUS
<1>1. PICK tr \in [Tracks -> [text : BOOLEAN, ref : {<<>>}, wav : BOOLEAN, heard : {None, <<>>}]],
           on \in BOOLEAN, part \in [Tracks -> Covered] :
             claimed = [turns |-> <<>>, tracks |-> tr, covered |-> part, stt |-> on]
  BY DEF ClaimedInit
<1>2. \A f \in Tracks : tr[f] \in Track
  <2> SUFFICES ASSUME NEW f \in Tracks PROVE tr[f] \in Track
    OBVIOUS
  <2>1. tr[f] \in [text : BOOLEAN, ref : {<<>>}, wav : BOOLEAN, heard : {None, <<>>}]
    BY <1>1
  <2>2. <<>> \in Seq(Word)
    OBVIOUS
  <2>3. {<<>>} \subseteq Seq(Word) /\ {None, <<>>} \subseteq Seq(Word) \cup {None}
    BY <2>2
  <2> QED  BY <2>1, <2>3, Zenon DEF Track
<1>3. tr \in [Tracks -> Track]
  BY <1>1, <1>2
<1> QED  BY <1>1, <1>3 DEF ClaimedTyped

\* A track whose text becomes known keeps the rest.
LEMMA TextOnly ==
  ASSUME NEW r, NEW x, NEW b, NEW c, NEW d,
         r = [text |-> x, ref |-> b, wav |-> c, heard |-> d]
  PROVE  [r EXCEPT !.text = TRUE] = [text |-> TRUE, ref |-> b, wav |-> c, heard |-> d]
<1> DEFINE t == [r EXCEPT !.text = TRUE]
           u == [text |-> TRUE, ref |-> b, wav |-> c, heard |-> d]
<1>1. t.text = u.text /\ t.ref = u.ref /\ t.wav = u.wav /\ t.heard = u.heard
  OBVIOUS
<1>2. DOMAIN t = {"text", "ref", "wav", "heard"} /\ DOMAIN u = {"text", "ref", "wav", "heard"}
  OBVIOUS
<1>3. t = [k \in DOMAIN t |-> t[k]] /\ u = [k \in DOMAIN u |-> u[k]]
  OBVIOUS
<1> QED  BY <1>1, <1>2, <1>3

\* ... and with every turn and every word more.
LEMMA ClaimedTypedStep == ClaimedTyped /\ [ClaimedNext]_claimed => ClaimedTyped'
<1> SUFFICES ASSUME ClaimedTyped, [ClaimedNext]_claimed PROVE ClaimedTyped'
  OBVIOUS
<1>t. /\ claimed.turns \in Seq(TimedTurn) /\ claimed.stt \in BOOLEAN
      /\ claimed.tracks \in [Tracks -> Track]
      /\ claimed.covered \in [Tracks -> Covered]
      /\ claimed = [turns |-> claimed.turns, tracks |-> claimed.tracks,
                    covered |-> claimed.covered, stt |-> claimed.stt]
  BY DEF ClaimedTyped
<1>1. ASSUME NEW r \in Moment \cup {None}, NEW m \in Moment \cup {None}, Timed(r, m)
      PROVE  ClaimedTyped'
  <2>1. [reported |-> r, measured |-> m] \in TimedTurn
    BY <1>1, GroundTruthAssumption DEF TimedTurn
  <2>2. claimed' = [turns |-> Append(claimed.turns, [reported |-> r, measured |-> m]),
                    tracks |-> claimed.tracks, covered |-> claimed.covered, stt |-> claimed.stt]
    BY <1>1, <1>t DEF Timed
  <2>3. Append(claimed.turns, [reported |-> r, measured |-> m]) \in Seq(TimedTurn)
    BY <1>t, <2>1
  <2> QED  BY <1>t, <2>2, <2>3 DEF ClaimedTyped
<1>2. ASSUME NEW f \in Tracks, NEW w \in Word, Claims(f, w) PROVE ClaimedTyped'
  <2> DEFINE old == claimed.tracks[f]
             t == [text |-> TRUE, ref |-> Append(old.ref, w), wav |-> old.wav, heard |-> old.heard]
             tr == [claimed.tracks EXCEPT ![f] = t]
  <2>1. old \in Track
    BY <1>t
  <2>2. t \in Track
    <3> HIDE DEF old
    <3> QED  BY <2>1 DEF Track
  <2>3. claimed' = [turns |-> claimed.turns, tracks |-> tr, covered |-> claimed.covered, stt |-> claimed.stt]
    <3>1. claimed' = [claimed EXCEPT !.tracks[f].ref = Append(@, w), !.tracks[f].text = TRUE]
      BY <1>2 DEF Claims
    <3>2. claimed' = [turns |-> claimed.turns, covered |-> claimed.covered, stt |-> claimed.stt,
                      tracks |-> [claimed.tracks EXCEPT ![f] =
                         [[claimed.tracks[f] EXCEPT !.ref = Append(@, w)] EXCEPT !.text = TRUE]]]
      BY <1>t, <3>1
    <3>3. [[old EXCEPT !.ref = Append(@, w)] EXCEPT !.text = TRUE] = t
      <4>1. old = [text |-> old.text, ref |-> old.ref, wav |-> old.wav, heard |-> old.heard]
        BY <2>1 DEF Track
      <4> DEFINE mid == [text |-> old.text, ref |-> Append(old.ref, w), wav |-> old.wav,
                         heard |-> old.heard]
      <4>2. [old EXCEPT !.ref = Append(@, w)] = mid
        <5> HIDE DEF old
        <5> QED  BY <4>1
      <4>3. [mid EXCEPT !.text = TRUE] = t
        <5> HIDE DEF old
        <5> QED  BY TextOnly
      <4> HIDE DEF old, mid, t
      <4> QED  BY <4>2, <4>3
    <3> QED  BY <3>2, <3>3
  <2>4. tr \in [Tracks -> Track]
    <3> HIDE DEF t
    <3> QED  BY <1>t, <2>2
  <2> HIDE DEF tr
  <2> QED  BY <1>t, <2>3, <2>4 DEF ClaimedTyped
<1>3. ASSUME NEW f \in Tracks, NEW w \in Word, Hears(f, w) PROVE ClaimedTyped'
  <2> DEFINE old == claimed.tracks[f]
             t == [text |-> old.text, ref |-> old.ref, wav |-> old.wav, heard |-> Append(old.heard, w)]
             tr == [claimed.tracks EXCEPT ![f] = t]
  <2>1. old \in Track /\ old.heard \in Seq(Word)
    <3>1. old \in Track /\ old.heard # None
      BY <1>t, <1>3 DEF Hears
    <3> HIDE DEF old
    <3> QED  BY <3>1 DEF Track
  <2>2. t \in Track
    <3> HIDE DEF old
    <3> QED  BY <2>1 DEF Track
  <2>3. claimed' = [turns |-> claimed.turns, tracks |-> tr, covered |-> claimed.covered, stt |-> claimed.stt]
    <3>1. claimed' = [claimed EXCEPT !.tracks[f].heard = Append(@, w)]
      BY <1>3 DEF Hears
    <3>2. claimed' = [turns |-> claimed.turns, covered |-> claimed.covered, stt |-> claimed.stt,
                      tracks |-> [claimed.tracks EXCEPT ![f] =
                         [claimed.tracks[f] EXCEPT !.heard = Append(@, w)]]]
      BY <1>t, <3>1
    <3>3. [old EXCEPT !.heard = Append(@, w)] = t
      <4>1. old = [text |-> old.text, ref |-> old.ref, wav |-> old.wav, heard |-> old.heard]
        BY <2>1 DEF Track
      <4> HIDE DEF old
      <4> QED  BY <4>1
    <3> QED  BY <3>2, <3>3
  <2>4. tr \in [Tracks -> Track]
    <3> HIDE DEF t
    <3> QED  BY <1>t, <2>2
  <2> HIDE DEF tr
  <2> QED  BY <1>t, <2>3, <2>4 DEF ClaimedTyped
<1>4. CASE UNCHANGED claimed
  BY <1>4 DEF ClaimedTyped
<1> QED  BY <1>1, <1>2, <1>3, <1>4 DEF ClaimedNext

\* The two kinds of discrepancy.
LEMMA ReportIs ==
  ASSUME NEW turns, NEW tracks \in [Tracks -> Track], NEW stt \in BOOLEAN,
         NEW D, D = Reconcile(turns, tracks, stt).discrepancies
  PROVE  /\ \A f \in Tracks :
              (\E d \in D : "track" \in DOMAIN d /\ d.track = f /\ d.verdict = "material")
                <=> stt /\ tracks[f].text /\ tracks[f].wav /\ Verdict(tracks[f]) = "material"
         /\ \A i : (\E d \in D : "turn" \in DOMAIN d /\ d.turn = i /\ d.verdict = "material")
                <=> /\ i \in 1 .. Len(turns) /\ turns[i].reported # None /\ turns[i].measured # None
                    /\ Abs(turns[i].measured - turns[i].reported) > FirstAudioBand
<1> DEFINE late(i) == IF Abs(turns[i].measured - turns[i].reported) > FirstAudioBand
                      THEN "material" ELSE "agree"
           both == {j \in 1 .. Len(turns) : turns[j].reported # None /\ turns[j].measured # None}
           compared == {g \in Tracks : stt /\ tracks[g].text /\ tracks[g].wav}
           T(i) == [turn |-> i, delta |-> turns[i].measured - turns[i].reported, verdict |-> late(i)]
           C(f) == [track |-> f, verdict |-> Verdict(tracks[f])]
<1>1. D = Timing(turns) \cup Transcript(tracks, stt)
  BY DEF Reconcile
<1>2. Timing(turns) = {T(i) : i \in both}
  BY Zenon DEF Timing
<1>3. Transcript(tracks, stt) = {C(f) : f \in compared}
  <2>1. DOMAIN tracks = Tracks
    OBVIOUS
  <2> QED  BY <2>1, Zenon DEF Transcript
<1>4. \A i : /\ "track" \notin DOMAIN T(i) /\ "turn" \in DOMAIN T(i)
             /\ T(i).turn = i /\ T(i).verdict = late(i)
  <2> HIDE DEF late
  <2> QED  OBVIOUS
<1>5. \A f : /\ "turn" \notin DOMAIN C(f) /\ "track" \in DOMAIN C(f)
             /\ C(f).track = f /\ C(f).verdict = Verdict(tracks[f])
  OBVIOUS
<1>6. \A i : late(i) = "material" <=> Abs(turns[i].measured - turns[i].reported) > FirstAudioBand
  OBVIOUS
<1> HIDE DEF T, C, late
<1>7. \A f \in Tracks :
        (\E d \in D : "track" \in DOMAIN d /\ d.track = f /\ d.verdict = "material")
          <=> f \in compared /\ Verdict(tracks[f]) = "material"
  <2> SUFFICES ASSUME NEW f \in Tracks
               PROVE  (\E d \in D : "track" \in DOMAIN d /\ d.track = f /\ d.verdict = "material")
                        <=> f \in compared /\ Verdict(tracks[f]) = "material"
    OBVIOUS
  <2> HIDE DEF compared, both
  <2>1. ASSUME f \in compared, Verdict(tracks[f]) = "material"
        PROVE  \E d \in D : "track" \in DOMAIN d /\ d.track = f /\ d.verdict = "material"
    <3>1. C(f) \in D
      BY <1>1, <1>3, <2>1
    <3> QED  BY <1>5, <2>1, <3>1, Zenon
  <2>2. ASSUME NEW d \in D, "track" \in DOMAIN d, d.track = f, d.verdict = "material"
        PROVE  f \in compared /\ Verdict(tracks[f]) = "material"
    <3>1. d \notin Timing(turns)
      <4>1. \A i \in both : d # T(i)
        BY <1>4, <2>2, Zenon
      <4> QED  BY <1>2, <4>1
    <3>2. PICK g \in compared : d = C(g)
      BY <1>1, <1>3, <2>2, <3>1
    <3>3. g = f
      BY <1>5, <2>2, <3>2, Zenon
    <3>4. C(g).verdict = Verdict(tracks[g])
      BY <1>5
    <3> QED  BY <2>2, <3>2, <3>3, <3>4
  <2> QED  BY <2>1, <2>2
<1>8. \A i : (\E d \in D : "turn" \in DOMAIN d /\ d.turn = i /\ d.verdict = "material")
               <=> i \in both /\ late(i) = "material"
  <2> SUFFICES ASSUME NEW i
               PROVE  (\E d \in D : "turn" \in DOMAIN d /\ d.turn = i /\ d.verdict = "material")
                        <=> i \in both /\ late(i) = "material"
    OBVIOUS
  <2> HIDE DEF compared, both
  <2>1. ASSUME i \in both, late(i) = "material"
        PROVE  \E d \in D : "turn" \in DOMAIN d /\ d.turn = i /\ d.verdict = "material"
    <3>1. T(i) \in D
      BY <1>1, <1>2, <2>1
    <3> QED  BY <1>4, <2>1, <3>1, Zenon
  <2>2. ASSUME NEW d \in D, "turn" \in DOMAIN d, d.turn = i, d.verdict = "material"
        PROVE  i \in both /\ late(i) = "material"
    <3>1. d \notin Transcript(tracks, stt)
      <4>1. \A f \in compared : d # C(f)
        BY <1>5, <2>2, Zenon
      <4> QED  BY <1>3, <4>1
    <3>2. PICK k \in both : d = T(k)
      BY <1>1, <1>2, <2>2, <3>1
    <3>3. k = i
      BY <1>4, <2>2, <3>2, Zenon
    <3>4. T(k).verdict = late(k)
      BY <1>4
    <3> QED  BY <2>2, <3>2, <3>3, <3>4
  <2> QED  BY <2>1, <2>2
<1>9. \A f \in Tracks : f \in compared <=> stt /\ tracks[f].text /\ tracks[f].wav
  OBVIOUS
<1>10. \A i : i \in both <=> i \in 1 .. Len(turns) /\ turns[i].reported # None /\ turns[i].measured # None
  OBVIOUS
<1> HIDE DEF compared, both
<1> QED  BY <1>6, <1>7, <1>8, <1>9, <1>10

\* What reconcile reports of typed input is what the clocks and alignments say.
LEMMA Measured == ClaimedTyped => MaterialIsMeasured
<1> SUFFICES ASSUME ClaimedTyped PROVE MaterialIsMeasured
  OBVIOUS
<1> DEFINE turns == claimed.turns
           tracks == claimed.tracks
           stt == claimed.stt
           D == Reconcile(turns, tracks, stt).discrepancies
<1>1. turns \in Seq(TimedTurn) /\ tracks \in [Tracks -> Track] /\ stt \in BOOLEAN
  BY DEF ClaimedTyped
<1>2. ASSUME NEW f \in Tracks
      PROVE  (\E d \in D : "track" \in DOMAIN d /\ d.track = f /\ d.verdict = "material")
               <=> /\ stt /\ tracks[f].text /\ tracks[f].wav /\ tracks[f].heard # None
                   /\ Diverges(tracks[f].ref, tracks[f].heard)
  <2> HIDE DEF turns, tracks, stt
  <2>1. tracks[f] \in Track
    BY <1>1
  <2>2. tracks[f].ref \in Seq(Word) /\ tracks[f].heard \in Seq(Word) \cup {None}
    BY <2>1 DEF Track
  <2>3. Verdict(tracks[f]) = "material"
          <=> tracks[f].heard # None /\ Wer(tracks[f].ref, tracks[f].heard) > TranscriptBand
    BY DEF Verdict
  <2>4. tracks[f].heard # None =>
          (Wer(tracks[f].ref, tracks[f].heard) > TranscriptBand
             <=> Diverges(tracks[f].ref, tracks[f].heard))
    BY <2>2, WerIs
  <2>5. (\E d \in D : "track" \in DOMAIN d /\ d.track = f /\ d.verdict = "material")
          <=> stt /\ tracks[f].text /\ tracks[f].wav /\ Verdict(tracks[f]) = "material"
    BY <1>1, ReportIs
  <2> HIDE DEF D
  <2> QED  BY <2>3, <2>4, <2>5
<1>3. ASSUME NEW i \in 1 .. Len(turns)
      PROVE  (\E d \in D : "turn" \in DOMAIN d /\ d.turn = i /\ d.verdict = "material")
               <=> /\ turns[i].reported # None /\ turns[i].measured # None
                   /\ turns[i].measured \notin
                        turns[i].reported - FirstAudioBand .. turns[i].reported + FirstAudioBand
  <2> HIDE DEF turns, tracks, stt
  <2>1. turns[i] \in TimedTurn
    BY <1>1
  <2>2. turns[i].reported \in Int \cup {None} /\ turns[i].measured \in Int \cup {None}
    BY <2>1 DEF TimedTurn
  <2>3. ASSUME NEW r \in Int, NEW m \in Int
        PROVE  Abs(m - r) > FirstAudioBand <=> m \notin r - FirstAudioBand .. r + FirstAudioBand
    BY GroundTruthAssumption DEF Abs
  <2>4. (\E d \in D : "turn" \in DOMAIN d /\ d.turn = i /\ d.verdict = "material")
          <=> /\ i \in 1 .. Len(turns) /\ turns[i].reported # None /\ turns[i].measured # None
              /\ Abs(turns[i].measured - turns[i].reported) > FirstAudioBand
    BY <1>1, ReportIs
  <2> HIDE DEF D
  <2> QED  BY <2>2, <2>3, <2>4
<1> QED  BY <1>2, <1>3, Zenon DEF MaterialIsMeasured, Diverges

\* MaterialIsMeasured holds for any turns and tracks: the table of distances is the least
\* number of edits, whatever was said and heard.
THEOREM MaterialAlwaysMeasured == ClaimedSpec => []MaterialIsMeasured
<1>1. ClaimedSpec => []ClaimedTyped
  BY ClaimedTypedInit, ClaimedTypedStep, PTL DEF ClaimedSpec
<1> QED  BY <1>1, Measured, PTL
=============================================================================
