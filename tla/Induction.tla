----------------------------- MODULE Induction -----------------------------
(***************************************************************************)
(* Induction for the proofs, stated for sets so that the provers can use   *)
(* it, and proved from the pigeonhole principle.                           *)
(***************************************************************************)
EXTENDS Naturals, FiniteSets, FiniteSetTheorems, TLAPS

\* Induction over the naturals for a set: a smallest counterexample would be
\* the end of a finite set mapped one-to-one into itself less one element.
LEMMA SetInduction ==
  ASSUME NEW T, 0 \in T, \A n \in Nat : n \in T => n + 1 \in T
  PROVE  \A n \in Nat : n \in T
<1> SUFFICES ASSUME NEW n \in Nat, n \notin T PROVE FALSE
  OBVIOUS
<1> DEFINE C == {m \in 0..n : m \notin T}
           f == [m \in C |-> m - 1]
<1>1. IsFiniteSet(C)
  <2>1. IsFiniteSet(0..n)
    BY FS_Interval
  <2> QED
    BY <2>1, FS_Subset
<1>2. n \in C
  OBVIOUS
<1>3. IsFiniteSet(C \ {n}) /\ Cardinality(C \ {n}) = Cardinality(C) - 1
  BY <1>1, <1>2, FS_RemoveElement
<1>4. Cardinality(C) \in Nat
  BY <1>1, FS_CardinalityType
<1>5. f \in [C -> C \ {n}]
  <2>1. ASSUME NEW m \in C PROVE m - 1 \in C \ {n}
    <3>1. m \in Nat /\ m # 0 /\ m <= n
      OBVIOUS
    <3>2. m - 1 \in Nat /\ (m - 1) + 1 = m
      BY <3>1
    <3>3. m - 1 \notin T
      BY <3>2
    <3> QED
      BY <3>1, <3>2, <3>3
  <2> QED
    BY <2>1
<1>6. PICK x, y \in C : x # y /\ f[x] = f[y]
  <2> HIDE DEF f, C
  <2> QED
    BY <1>1, <1>3, <1>4, <1>5, FS_PigeonHole
<1> QED
  BY <1>6

\* The same up to a bound.
LEMMA BoundedInduction ==
  ASSUME NEW N \in Nat, NEW T, 0 \in T, \A n \in 0 .. N : (n < N /\ n \in T) => n + 1 \in T
  PROVE  \A n \in 0 .. N : n \in T
<1> DEFINE U == T \cup {n \in Nat : n > N}
<1>1. 0 \in U
  OBVIOUS
<1>2. ASSUME NEW n \in Nat, n \in U PROVE n + 1 \in U
  <2>1. CASE n < N
    BY <2>1, <1>2
  <2>2. CASE n >= N
    BY <2>2
  <2> QED
    BY <2>1, <2>2
<1>3. \A n \in Nat : n \in U
  <2> HIDE DEF U
  <2> QED
    BY <1>1, <1>2, SetInduction
<1> QED
  BY <1>3

\* A table of the values of a loop: F[n] is its step n, b where it starts.
Tabulates(f, N, V, b, F) ==
    /\ f \in [0 .. N -> V]
    /\ f[0] = b
    /\ \A n \in 1 .. N : f[n] = F[n][f[n - 1]]

\* A loop over values that its steps do not leave can be tabulated.
LEMMA Iterates ==
  ASSUME NEW N \in Nat, NEW V, NEW b \in V, NEW F, F \in [1 .. N -> [V -> V]]
  PROVE  \E f : Tabulates(f, N, V, b, F)
<1> DEFINE Run(f, k) == f[0] = b /\ \A n \in 1 .. k : f[n] = F[n][f[n - 1]]
           T == {k \in 0 .. N : \E f \in [0 .. k -> V] : Run(f, k)}
<1>1. 0 \in T
  <2> DEFINE f == [n \in 0 .. 0 |-> b]
  <2>1. f \in [0 .. 0 -> V] /\ Run(f, 0) /\ 0 \in 0 .. N
    OBVIOUS
  <2> HIDE DEF f, Run
  <2> QED
    BY <2>1
<1>2. ASSUME NEW k \in 0 .. N, k < N, k \in T PROVE k + 1 \in T
  <2>1. PICK f \in [0 .. k -> V] : Run(f, k)
    BY <1>2
  <2> DEFINE g == [n \in 0 .. (k + 1) |-> IF n <= k THEN f[n] ELSE F[k + 1][f[k]]]
  <2>2. k \in 0 .. k /\ k + 1 \in 1 .. N /\ k + 1 \in 0 .. N /\ ~(k + 1 <= k)
    BY <1>2
  <2>3. F[k + 1][f[k]] \in V
    BY <2>2
  <2>4. g \in [0 .. (k + 1) -> V]
    BY <2>3
  <2>5. g[0] = b
    BY <2>1
  <2>6. ASSUME NEW n \in 1 .. (k + 1) PROVE g[n] = F[n][g[n - 1]]
    <3>1. CASE n = k + 1
      BY <2>2, <3>1
    <3>2. CASE n <= k
      <4>1. n \in 1 .. k /\ n \in 0 .. (k + 1) /\ n - 1 \in 0 .. (k + 1) /\ n - 1 <= k
        BY <3>2
      <4>2. g[n] = f[n] /\ g[n - 1] = f[n - 1]
        BY <3>2, <4>1
      <4> QED
        BY <2>1, <4>1, <4>2
    <3> QED
      BY <3>1, <3>2
  <2>7. Run(g, k + 1)
    BY <2>5, <2>6
  <2> HIDE DEF g, Run
  <2> QED
    BY <2>2, <2>4, <2>7
<1>3. \A k \in 0 .. N : k \in T
  <2> HIDE DEF T
  <2> QED
    BY <1>1, <1>2, BoundedInduction
<1>4. \E f \in [0 .. N -> V] : Run(f, N)
  BY <1>3
<1> QED
  BY <1>4 DEF Tabulates

\* Whatever tabulates the loop stays among those values.
LEMMA StaysInside ==
  ASSUME NEW N \in Nat, NEW V, NEW f, f[0] \in V,
         \A n \in 1 .. N : f[n - 1] \in V => f[n] \in V
  PROVE  \A n \in 0 .. N : f[n] \in V
<1> DEFINE T == {n \in 0 .. N : f[n] \in V}
<1>1. 0 \in T
  OBVIOUS
<1>2. ASSUME NEW n \in 0 .. N, n < N, n \in T PROVE n + 1 \in T
  <2>1. n + 1 \in 1 .. N /\ (n + 1) - 1 = n
    BY <1>2
  <2> QED
    BY <1>2, <2>1
<1>3. \A n \in 0 .. N : n \in T
  <2> HIDE DEF T
  <2> QED
    BY <1>1, <1>2, BoundedInduction
<1> QED
  BY <1>3

\* A table with one entry replaced.
LEMMA Updated ==
  ASSUME NEW A, NEW B, NEW f \in [A -> B], NEW x, NEW y \in B
  PROVE  [f EXCEPT ![x] = y] \in [A -> B]
OBVIOUS

\* Two loops that take the same steps have the same values.
LEMMA LoopsAgree ==
  ASSUME NEW N \in Nat, NEW f, NEW g, f[0] = g[0],
         \A n \in 1 .. N : f[n - 1] = g[n - 1] => f[n] = g[n]
  PROVE  \A n \in 0 .. N : f[n] = g[n]
<1> DEFINE T == {n \in 0 .. N : f[n] = g[n]}
<1>1. 0 \in T
  OBVIOUS
<1>2. ASSUME NEW n \in 0 .. N, n < N, n \in T PROVE n + 1 \in T
  <2>1. n + 1 \in 1 .. N /\ (n + 1) - 1 = n /\ n + 1 \in 0 .. N
    BY <1>2
  <2> QED
    BY <1>2, <2>1
<1>3. \A n \in 0 .. N : n \in T
  <2> HIDE DEF T
  <2> QED
    BY <1>1, <1>2, BoundedInduction
<1> QED
  BY <1>3

=============================================================================
