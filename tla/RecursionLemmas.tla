-------------------------- MODULE RecursionLemmas --------------------------
(***************************************************************************)
(* Induction and recursion over the natural numbers in a form that the     *)
(* provers can use: with sets and functions instead of operators.          *)
(***************************************************************************)
EXTENDS Naturals, WellFoundedInduction, TLAPS

\* A nonempty set of natural numbers has a least element.
LEMMA LeastNumber ==
    ASSUME NEW S \in SUBSET Nat, S # {}
    PROVE  \E m \in S : \A y \in S : m <= y
<1>1. IsWellFoundedOn(OpToRel(<, Nat), Nat)
  BY NatLessThanWellFounded
<1>2. PICK m \in S : \A y \in S : <<y, m>> \notin OpToRel(<, Nat)
  BY <1>1, WFMin
<1>3. \A y \in S : ~(y < m)
  BY <1>2 DEF OpToRel
<1> QED
  BY <1>3

\* A set of natural numbers that holds 0, and with every number the next one,
\* holds them all: induction, for sets.
LEMMA SetInduction ==
    ASSUME NEW T, 0 \in T, \A n \in Nat : n \in T => n + 1 \in T
    PROVE  Nat \subseteq T
<1> SUFFICES ASSUME Nat \ T # {}
             PROVE  FALSE
  OBVIOUS
<1>1. PICK m \in Nat \ T : \A y \in Nat \ T : m <= y
  BY LeastNumber
<1>2. m # 0 /\ m - 1 \in Nat /\ ~(m <= m - 1)
  OBVIOUS
<1>3. m - 1 \in T
  BY <1>1, <1>2
<1>4. (m - 1) + 1 = m
  BY <1>2
<1> QED
  BY <1>2, <1>3, <1>4

\* step[m] takes the value at m - 1 to the value at m.
IsStep(step, X) == \A m \in Nat : \A x \in X : step[m][x] \in X

\* The function on 0 .. n with a first value and a step.
FollowsStep(f, n, X, base, step) ==
    /\ f \in [0 .. n -> X]
    /\ f[0] = base
    /\ \A m \in 1 .. n : f[m] = step[m][f[m - 1]]

\* There is one.
LEMMA RecursionExists ==
    ASSUME NEW X, NEW base \in X, NEW n \in Nat, NEW step, IsStep(step, X)
    PROVE  \E f : FollowsStep(f, n, X, base, step)
<1> DEFINE Exists(k) == \E f \in [0 .. k -> X] :
                            /\ f[0] = base
                            /\ \A m \in 1 .. k : f[m] = step[m][f[m - 1]]
           T == {k \in Nat : Exists(k)}
<1>0. \A m \in Nat : \A x \in X : step[m][x] \in X
  BY DEF IsStep
<1>1. Exists(0)
  <2>1. [m \in 0 .. 0 |-> base] \in [0 .. 0 -> X] /\ [m \in 0 .. 0 |-> base][0] = base
    OBVIOUS
  <2>2. \A m \in 1 .. 0 : FALSE
    OBVIOUS
  <2> QED
    BY <2>1, <2>2
<1>2. ASSUME NEW k \in Nat, Exists(k)
      PROVE  Exists(k + 1)
  <2>1. PICK f \in [0 .. k -> X] : /\ f[0] = base
                                   /\ \A m \in 1 .. k : f[m] = step[m][f[m - 1]]
    BY <1>2
  <2> DEFINE next == step[k + 1][f[k]]
             g == [m \in 0 .. k + 1 |-> IF m = k + 1 THEN next ELSE f[m]]
  <2>2. next \in X
    <3>1. k \in 0 .. k /\ k + 1 \in Nat
      OBVIOUS
    <3> QED
      BY <1>0, <3>1
  <2> HIDE DEF next
  <2>3. \A m \in 0 .. k + 1 : m # k + 1 => m \in 0 .. k
    OBVIOUS
  <2>4. g \in [0 .. k + 1 -> X]
    BY <2>2, <2>3
  <2>5. g[0] = base
    BY <2>1
  <2>6. ASSUME NEW m \in 1 .. k + 1
        PROVE  g[m] = step[m][g[m - 1]]
    <3>1. m - 1 \in 0 .. k + 1 /\ m - 1 # k + 1 /\ m \in 0 .. k + 1
      OBVIOUS
    <3>2. g[m - 1] = f[m - 1]
      BY <3>1
    <3>3. CASE m = k + 1
      <4>1. m - 1 = k /\ g[m] = next
        BY <3>3
      <4> QED
        BY <3>2, <3>3, <4>1 DEF next
    <3>4. CASE m # k + 1
      <4>1. m \in 1 .. k /\ g[m] = f[m]
        BY <3>4
      <4> QED
        BY <2>1, <3>2, <4>1
    <3> QED
      BY <3>3, <3>4
  <2> QED
    BY <2>4, <2>5, <2>6
<1> HIDE DEF Exists
<1>3. 0 \in T /\ \A k \in Nat : k \in T => k + 1 \in T
  BY <1>1, <1>2
<1>4. Exists(n)
  <2> HIDE DEF T
  <2>1. Nat \subseteq T
    BY <1>3, SetInduction
  <2> QED
    BY <2>1 DEF T
<1> QED
  BY <1>4 DEF Exists, FollowsStep

\* And no other.
LEMMA RecursionUnique ==
    ASSUME NEW X, NEW base, NEW n \in Nat, NEW step, NEW f, NEW g,
           FollowsStep(f, n, X, base, step), FollowsStep(g, n, X, base, step)
    PROVE  f = g
<1> DEFINE T == {m \in Nat : m <= n => f[m] = g[m]}
<1> USE DEF FollowsStep
<1>1. 0 \in T
  OBVIOUS
<1>2. ASSUME NEW k \in Nat, k \in T
      PROVE  k + 1 \in T
  <2> SUFFICES ASSUME k + 1 <= n
               PROVE  f[k + 1] = g[k + 1]
    OBVIOUS
  <2>1. k + 1 \in 1 .. n /\ (k + 1) - 1 = k /\ k <= n
    OBVIOUS
  <2>2. f[k] = g[k]
    BY <1>2, <2>1
  <2> QED
    BY <2>1, <2>2
<1> HIDE DEF T
<1>3. Nat \subseteq T
  BY <1>1, <1>2, SetInduction
<1>4. \A m \in 0 .. n : f[m] = g[m]
  BY <1>3 DEF T
<1> QED
  BY <1>4

\* A shorter one is its beginning.
LEMMA RecursionShorter ==
    ASSUME NEW X, NEW base, NEW n \in Nat, NEW k \in 0 .. n, NEW step, NEW f, NEW g,
           FollowsStep(f, n, X, base, step), FollowsStep(g, k, X, base, step)
    PROVE  \A m \in 0 .. k : f[m] = g[m]
<1> DEFINE h == [m \in 0 .. k |-> f[m]]
<1>1. FollowsStep(h, k, X, base, step)
  <2>1. \A m \in 0 .. k : m \in 0 .. n
    OBVIOUS
  <2>2. h \in [0 .. k -> X] /\ h[0] = base
    BY <2>1 DEF FollowsStep
  <2>3. \A m \in 1 .. k : m - 1 \in 0 .. k /\ m \in 0 .. k /\ m \in 1 .. n
    OBVIOUS
  <2>4. \A m \in 1 .. k : h[m] = step[m][h[m - 1]]
    BY <2>3 DEF FollowsStep
  <2> QED
    BY <2>2, <2>4 DEF FollowsStep
<1>2. k \in Nat
  OBVIOUS
<1> HIDE DEF h
<1>3. h = g
  BY <1>1, <1>2, RecursionUnique
<1> QED
  BY <1>3 DEF h

\* A function that makes the step wherever its values have the type is the one.
LEMMA RecursionTyped ==
    ASSUME NEW X, NEW base \in X, NEW n \in Nat, NEW step, IsStep(step, X),
           NEW f, f = [m \in 0 .. n |-> f[m]], f[0] = base,
           \A m \in 1 .. n : f[m - 1] \in X => f[m] = step[m][f[m - 1]]
    PROVE  FollowsStep(f, n, X, base, step)
<1> DEFINE T == {m \in Nat : m <= n => f[m] \in X}
<1>1. 0 \in T
  OBVIOUS
<1>2. ASSUME NEW k \in Nat, k \in T
      PROVE  k + 1 \in T
  <2> SUFFICES ASSUME k + 1 <= n
               PROVE  f[k + 1] \in X
    OBVIOUS
  <2>1. k + 1 \in 1 .. n /\ (k + 1) - 1 = k /\ k <= n
    OBVIOUS
  <2>2. f[k] \in X
    BY <1>2, <2>1
  <2>3. f[k + 1] = step[k + 1][f[k]]
    BY <2>1, <2>2
  <2> QED
    BY <2>1, <2>2, <2>3 DEF IsStep
<1> HIDE DEF T
<1>3. Nat \subseteq T
  BY <1>1, <1>2, SetInduction
<1>4. \A m \in 0 .. n : f[m] \in X
  BY <1>3 DEF T
<1>5. f \in [0 .. n -> X]
  BY <1>4
<1>6. \A m \in 1 .. n : m - 1 \in 0 .. n
  OBVIOUS
<1> QED
  BY <1>4, <1>5, <1>6 DEF FollowsStep
============================================================================
