------------------------------ MODULE Induction ------------------------------
(***************************************************************************)
(* Induction over the naturals without a schema: the induction hypothesis  *)
(* is membership in a set.  With it a function that recursion defines step *)
(* by step exists.                                                         *)
(***************************************************************************)
EXTENDS Integers, FiniteSets, FiniteSetTheorems, TLAPS

\* Induction over a set of naturals: between n and the first one outside would be
\* more numbers than pigeonholes.
LEMMA NaturalInduction ==
  ASSUME NEW T, 0 \in T, \A n \in Nat : n \in T => n + 1 \in T
  PROVE  Nat \subseteq T
<1> SUFFICES ASSUME NEW x \in Nat, x \notin T PROVE FALSE
  OBVIOUS
<1> DEFINE S == {n \in 0 .. x : n \in T}
           f == [n \in S |-> n + 1]
<1>1. IsFiniteSet(S)
  <2>1. S \in SUBSET (0 .. x) /\ IsFiniteSet(0 .. x)
    BY FS_Interval
  <2> HIDE DEF S
  <2> QED  BY <2>1, FS_Subset
<1>2. f \in [S -> S \ {0}]
  <2>1. \A n \in S : n + 1 \in S \ {0}
    <3> SUFFICES ASSUME NEW n \in S PROVE n + 1 \in S \ {0}
      OBVIOUS
    <3>1. n \in Nat /\ n # x /\ n <= x
      OBVIOUS
    <3> QED  BY <3>1
  <2> QED  BY <2>1
<1>3. IsFiniteSet(S \ {0}) /\ Cardinality(S \ {0}) < Cardinality(S)
  <2>1. 0 \in S
    OBVIOUS
  <2> HIDE DEF S
  <2>2. IsFiniteSet(S \ {0}) /\ Cardinality(S \ {0}) = Cardinality(S) - 1
    BY <1>1, <2>1, FS_RemoveElement
  <2> QED  BY <1>1, <2>2, FS_CardinalityType
<1>4. PICK a, b \in S : a # b /\ f[a] = f[b]
  <2> HIDE DEF S, f
  <2> QED  BY <1>1, <1>2, <1>3, FS_PigeonHole
<1> QED  BY <1>4

\* f is defined on 0 .. N, each value from the one before.
IsRecursion(f, N, S, b, step) ==
  /\ f \in [0 .. N -> S] /\ f[0] = b
  /\ \A n \in 1 .. N : f[n] = step[<<n, f[n - 1]>>]

\* Recursion over 0 .. N: what is defined from its predecessor is defined.
LEMMA RecursionExists ==
  ASSUME NEW N \in Nat, NEW S, NEW b \in S, NEW step \in [(1 .. N) \X S -> S]
  PROVE  \E f : IsRecursion(f, N, S, b, step)
<1> DEFINE Rec(k, f) == f[0] = b /\ \A n \in 1 .. k : f[n] = step[<<n, f[n - 1]>>]
           T == {k \in Nat : k <= N => \E f \in [0 .. k -> S] : Rec(k, f)}
<1>1. 0 \in T
  <2>1. [n \in 0 .. 0 |-> b] \in [0 .. 0 -> S] /\ Rec(0, [n \in 0 .. 0 |-> b])
    OBVIOUS
  <2> QED  BY <2>1
<1>2. ASSUME NEW k \in Nat, k \in T PROVE k + 1 \in T
  <2> SUFFICES ASSUME k + 1 <= N PROVE \E f \in [0 .. k + 1 -> S] : Rec(k + 1, f)
    OBVIOUS
  <2>1. PICK f \in [0 .. k -> S] : Rec(k, f)
    BY <1>2
  <2> DEFINE g == [n \in 0 .. k + 1 |-> IF n = k + 1 THEN step[<<k + 1, f[k]>>] ELSE f[n]]
  <2>2. g \in [0 .. k + 1 -> S]
    OBVIOUS
  <2>3. g[0] = b
    BY <2>1
  <2>4. ASSUME NEW n \in 1 .. k + 1 PROVE g[n] = step[<<n, g[n - 1]>>]
    <3>1. g[n - 1] = f[n - 1]
      OBVIOUS
    <3>2. CASE n = k + 1
      <4>1. n - 1 = k /\ g[n] = step[<<k + 1, f[k]>>]
        BY <3>2
      <4> QED  BY <3>1, <3>2, <4>1
    <3>3. CASE n \in 1 .. k
      <4>1. g[n] = f[n] /\ f[n] = step[<<n, f[n - 1]>>]
        BY <2>1, <3>3
      <4> QED  BY <3>1, <4>1
    <3> QED  BY <3>2, <3>3
  <2> HIDE DEF g
  <2> QED  BY <2>2, <2>3, <2>4
<1>3. N \in T
  <2> HIDE DEF T
  <2> QED  BY <1>1, <1>2, NaturalInduction
<1> QED  BY <1>3 DEF IsRecursion

\* A set of naturals with an element has a least one.
LEMMA HasLeast ==
  ASSUME NEW S \in SUBSET Nat, NEW x \in S
  PROVE  \E n \in S : \A m \in S : n <= m
<1> SUFFICES ASSUME \A n \in S : \E m \in S : m < n PROVE FALSE
  OBVIOUS
<1> DEFINE T == {n \in Nat : \A m \in 0 .. n : m \notin S}
<1>1. 0 \in T
  OBVIOUS
<1>2. ASSUME NEW n \in Nat, n \in T PROVE n + 1 \in T
  <2>1. \A m \in S : m > n
    BY <1>2
  <2>2. n + 1 \notin S
    BY <2>1
  <2> QED  BY <2>1, <2>2
<1> HIDE DEF T
<1>3. Nat \subseteq T
  BY <1>1, <1>2, NaturalInduction
<1> QED  BY <1>3 DEF T
=============================================================================
