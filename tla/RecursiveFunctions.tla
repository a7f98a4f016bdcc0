------------------------------ MODULE RecursiveFunctions ------------------------------
(*****************************************************************************)
(* Functions on the numbers up to some N that are defined from their value at*)
(* the number before: that there is one, that it is the one a definition     *)
(* names, and induction over it.                                             *)
(*****************************************************************************)
EXTENDS Naturals, WellFoundedInduction, TLAPS

(***************************************************************************)
(* Induction, for a set of naturals.                                       *)
(***************************************************************************)
LEMMA Inductive ==
  ASSUME NEW N \in Nat, NEW T, 0 \in T, \A n \in 0..N : n < N /\ n \in T => n + 1 \in T
  PROVE  \A n \in 0..N : n \in T
<1> DEFINE Missed == {n \in 0..N : n \notin T}
           Smaller == {ss \in Nat \X Nat : ss[1] < ss[2]}
<1> SUFFICES ASSUME Missed # {} PROVE FALSE
  OBVIOUS
<1>1. IsWellFoundedOn(Smaller, Nat)
  BY NatLessThanWellFounded DEF OpToRel
<1>2. Missed \subseteq Nat
  OBVIOUS
<1>3. PICK x \in Missed : \A y \in Missed : ~(<<y,x>> \in Smaller)
  BY <1>1, <1>2, WFMin
<1>4. x \in 0..N /\ x \notin T /\ x # 0
  BY <1>3
<1>5. x - 1 \in 0..N /\ x - 1 < N /\ x - 1 + 1 = x /\ <<x - 1, x>> \in Smaller
  BY <1>4
<1>6. x - 1 \notin Missed
  BY <1>3, <1>5
<1>7. x - 1 \in T
  BY <1>5, <1>6
<1> QED
  BY <1>4, <1>5, <1>7

(***************************************************************************)
(* The values of a function stay in a set that each step stays in.         *)
(***************************************************************************)
LEMMA StaysIn ==
  ASSUME NEW N \in Nat, NEW V, NEW h, h[0] \in V, \A i \in 1..N : h[i - 1] \in V => h[i] \in V
  PROVE  \A i \in 0..N : h[i] \in V
<1> DEFINE T == {n \in 0..N : h[n] \in V}
<1>1. 0 \in T
  OBVIOUS
<1>2. ASSUME NEW n \in 0..N, n < N, n \in T
      PROVE  n + 1 \in T
  <2>1. n + 1 \in 0..N /\ n + 1 \in 1..N /\ n + 1 - 1 = n
    BY <1>2
  <2> QED
    BY <2>1, <1>2
<1> HIDE DEF T
<1>3. \A n \in 0..N : n \in T
  BY <1>1, <1>2, Inductive
<1> QED
  BY <1>3 DEF T

(***************************************************************************)
(* A function that is defined from its value at the number before exists.  *)
(***************************************************************************)
Computed(N, V, b, step) ==
  \E f \in [0..N -> V] : f[0] = b /\ \A i \in 1..N : f[i] = step[i][f[i - 1]]
Steps(N, V) == [1..N -> [V -> V]]

LEMMA RecursionExists ==
  ASSUME NEW N \in Nat, NEW V, NEW b \in V, NEW step \in Steps(N, V)
  PROVE  Computed(N, V, b, step)
<1> DEFINE IsTo(f, n) == f[0] = b /\ \A i \in 1..n : f[i] = step[i][f[i - 1]]
           T == {n \in 0..N : \E f \in [0..n -> V] : IsTo(f, n)}
<1>1. 0 \in T
  <2> DEFINE f == [i \in 0..0 |-> b]
  <2>1. f \in [0..0 -> V] /\ f[0] = b
    OBVIOUS
  <2>2. \A i \in 1..0 : f[i] = step[i][f[i - 1]]
    OBVIOUS
  <2>3. IsTo(f, 0)
    BY <2>1, <2>2
  <2> HIDE DEF f, IsTo
  <2> QED
    BY <2>1, <2>3
<1>2. ASSUME NEW n \in 0..N, n < N, n \in T
      PROVE  n + 1 \in T
  <2>1. PICK f \in [0..n -> V] : IsTo(f, n)
    BY <1>2
  <2> DEFINE g == [i \in 0..n + 1 |-> IF i <= n THEN f[i] ELSE step[n + 1][f[n]]]
  <2>2. n + 1 \in 1..N /\ f[n] \in V
    BY <1>2
  <2>3. step[n + 1][f[n]] \in V
    BY <2>2 DEF Steps
  <2>4. g \in [0..n + 1 -> V]
    BY <2>3
  <2>5. g[0] = b
    <3>1. 0 \in 0..n + 1 /\ 0 <= n
      OBVIOUS
    <3> QED
      BY <2>1, <3>1
  <2>6. ASSUME NEW i \in 1..n + 1 PROVE g[i] = step[i][g[i - 1]]
    <3>1. i - 1 \in 0..n /\ i - 1 <= n
      OBVIOUS
    <3>2. g[i - 1] = f[i - 1]
      BY <3>1
    <3>3. CASE i <= n
      <4>1. i \in 1..n /\ g[i] = f[i]
        BY <3>3
      <4> QED
        BY <4>1, <3>2, <2>1
    <3>4. CASE ~(i <= n)
      <4>1. i = n + 1 /\ i - 1 = n /\ g[i] = step[n + 1][f[n]]
        BY <3>4
      <4> QED
        BY <4>1, <3>2
    <3> QED
      BY <3>3, <3>4
  <2>7. IsTo(g, n + 1)
    BY <2>5, <2>6
  <2> HIDE DEF g, IsTo
  <2>8. n + 1 \in 0..N
    BY <1>2
  <2> QED
    BY <2>4, <2>7, <2>8
<1> HIDE DEF T
<1>3. N \in T
  <2>1. N \in Nat /\ N \in 0..N
    OBVIOUS
  <2>2. \A n \in 0..N : n < N /\ n \in T => n + 1 \in T
    BY <1>2
  <2> QED
    BY <2>1, <2>2, <1>1, Inductive, Zenon
<1> QED
  BY <1>3 DEF T, Computed

=============================================================================
