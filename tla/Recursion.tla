------------------------------- MODULE Recursion -------------------------------
(***************************************************************************)
(* Functions that are defined by recursion over 0 .. n, as the models      *)
(* define their sums and folds: that there is one (RecursiveFunction), and *)
(* what holds of all its values (BoundedInduction, RecursiveStays).        *)
(***************************************************************************)
EXTENDS Integers, WellFoundedInduction, TLAPS

LEMMA SmallestOf ==
    ASSUME NEW S \in SUBSET Nat, S # {}
    PROVE  \E m \in S : \A y \in S : m <= y
<1>1. PICK m \in S : \A y \in S : <<y, m>> \notin OpToRel(<, Nat)
  BY NatLessThanWellFounded, WFMin, Zenon
<1>2. \A y \in S : <<y, m>> \in OpToRel(<, Nat) <=> y < m
  BY DEF OpToRel
<1>3. \A y \in S : ~(y < m)
  BY <1>1, <1>2, Zenon
<1> QED
  BY <1>3

LEMMA SetInduction ==
    ASSUME NEW T \in SUBSET Nat, 0 \in T, \A n \in T : n + 1 \in T
    PROVE  T = Nat
<1> SUFFICES ASSUME T # Nat PROVE FALSE
  OBVIOUS
<1> DEFINE R == Nat \ T
<1>0. R # {} /\ R \subseteq Nat
  OBVIOUS
<1>1. PICK m \in R : \A y \in R : m <= y
  BY <1>0, SmallestOf
<1>2. m \in Nat /\ m \notin T /\ m # 0
  BY <1>1
<1>3. m - 1 \in Nat /\ m - 1 \notin R
  BY <1>1, <1>2
<1> QED
  BY <1>2, <1>3

LEMMA BoundedInduction ==
    ASSUME NEW n \in Nat, NEW T, 0 \in T, \A i \in 1 .. n : i - 1 \in T => i \in T
    PROVE  0 .. n \subseteq T
<1> DEFINE S == {k \in Nat : k <= n => k \in T}
<1>1. 0 \in S
  OBVIOUS
<1>2. \A k \in S : k + 1 \in S
  <2> SUFFICES ASSUME NEW k \in S, k + 1 <= n PROVE k + 1 \in T
    OBVIOUS
  <2>1. k \in T /\ k + 1 \in 1 .. n /\ (k + 1) - 1 = k
    OBVIOUS
  <2> QED
    BY <2>1
<1>3. S = Nat
  <2> HIDE DEF S
  <2>1. S \subseteq Nat
    BY DEF S
  <2> QED
    BY <1>1, <1>2, <2>1, SetInduction
<1> QED
  BY <1>3

\* f has a first value, and each further value follows from the one before.
Recursive(f, V, n, first, step) ==
    /\ f \in [0 .. n -> V]
    /\ f[0] = first /\ \A i \in 1 .. n : f[i] = step[i][f[i - 1]]

LEMMA RecursiveFunction ==
    ASSUME NEW V, NEW n \in Nat, NEW first \in V, NEW step \in [1 .. n -> [V -> V]]
    PROVE  \E f : Recursive(f, V, n, first, step)
<1> DEFINE T == {k \in 0 .. n : \E f : Recursive(f, V, k, first, step)}
<1>1. 0 \in T
  <2> DEFINE f == [i \in 0 .. 0 |-> first]
  <2>1. Recursive(f, V, 0, first, step)
    BY DEF Recursive
  <2> QED
    BY <2>1
<1>2. ASSUME NEW k \in 1 .. n, k - 1 \in T PROVE k \in T
  <2>1. PICK f : Recursive(f, V, k - 1, first, step)
    BY <1>2
  <2> DEFINE g == [i \in 0 .. k |-> IF i < k THEN f[i] ELSE step[k][f[k - 1]]]
  <2>2. step[k] \in [V -> V] /\ f[k - 1] \in V
    BY <2>1 DEF Recursive
  <2>3. g \in [0 .. k -> V]
    BY <2>1, <2>2 DEF Recursive
  <2>4. \A i \in 0 .. k - 1 : g[i] = f[i]
    OBVIOUS
  <2>5. g[k] = step[k][f[k - 1]]
    OBVIOUS
  <2> HIDE DEF g
  <2>6. g[0] = first /\ \A i \in 1 .. k : g[i] = step[i][g[i - 1]]
    BY <2>1, <2>4, <2>5 DEF Recursive
  <2>7. Recursive(g, V, k, first, step)
    BY <2>3, <2>6 DEF Recursive
  <2> QED
    BY <2>7
<1>3. 0 .. n \subseteq T
  <2> HIDE DEF T
  <2>1. \A k \in 1 .. n : k - 1 \in T => k \in T
    BY <1>2
  <2> QED
    BY <1>1, <2>1, BoundedInduction
<1> QED
  BY <1>3

\* Values of a function that each follow from the one before stay in a set that
\* the steps do not leave.
LEMMA RecursiveStays ==
    ASSUME NEW V, NEW n \in Nat, NEW f, f[0] \in V,
           \A i \in 1 .. n : f[i - 1] \in V => f[i] \in V
    PROVE  \A i \in 0 .. n : f[i] \in V
<1> DEFINE T == {i \in 0 .. n : f[i] \in V}
<1>1. 0 \in T /\ \A i \in 1 .. n : i - 1 \in T => i \in T
  OBVIOUS
<1> HIDE DEF T
<1>2. 0 .. n \subseteq T
  BY <1>1, BoundedInduction
<1> QED
  BY <1>2 DEF T
===============================================================================
