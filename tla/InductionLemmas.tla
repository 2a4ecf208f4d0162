---------------------------- MODULE InductionLemmas ----------------------------
(***************************************************************************)
(* Induction on the natural numbers, and functions defined by recursion,   *)
(* stated for sets and functions instead of predicates and operators, so   *)
(* that no operator parameter is needed; they rest on the order of the     *)
(* natural numbers being well-founded.                                     *)
(***************************************************************************)
EXTENDS Integers, WellFoundedInduction, TLAPS

Less == {p \in Nat \X Nat : p[1] < p[2]}

\* A set of natural numbers that is not empty has a least element.
LEMMA LeastNatural ==
  ASSUME NEW S \in SUBSET Nat, S # {}
  PROVE  \E m \in S : \A k \in S : m <= k
<1>1. IsWellFoundedOn(Less, Nat)
  BY NatLessThanWellFounded DEF OpToRel, Less
<1>2. PICK m \in S : \A k \in S : ~(<<k, m>> \in Less)
  <2> HIDE DEF Less
  <2> QED BY <1>1, WFMin
<1>3. ASSUME NEW k \in S PROVE m <= k
  <2>1. k \in Nat /\ m \in Nat
    OBVIOUS
  <2>2. k < m => <<k, m>> \in Less
    BY <2>1 DEF Less
  <2> QED BY <1>2, <2>1, <2>2
<1> QED BY <1>3

\* One that is bounded has a greatest element as well.
LEMMA GreatestNatural ==
  ASSUME NEW S \in SUBSET Nat, S # {}, NEW bound \in Nat, \A k \in S : k <= bound
  PROVE  \E m \in S : \A k \in S : k <= m
<1> DEFINE T == {bound - k : k \in S}
<1>1. T \in SUBSET Nat /\ T # {}
  <2>1. \A k \in S : k \in Nat /\ bound - k \in Nat
    OBVIOUS
  <2> QED BY <2>1
<1>2. PICK t \in T : \A u \in T : t <= u
  <2> HIDE DEF T
  <2> QED BY <1>1, LeastNatural
<1>3. PICK m \in S : t = bound - m
  OBVIOUS
<1>4. ASSUME NEW k \in S PROVE k <= m
  <2>1. bound - m <= bound - k
    BY <1>2, <1>3
  <2>2. k \in Nat /\ m \in Nat
    OBVIOUS
  <2> QED BY <2>1, <2>2
<1> QED BY <1>4

\* Induction: what holds of 0, and of n + 1 when it holds of n, holds of all.
LEMMA SetInduction ==
  ASSUME NEW S \in SUBSET Nat, 0 \in S, \A n \in S : n + 1 \in S
  PROVE  S = Nat
<1> DEFINE T == Nat \ S
<1> SUFFICES ASSUME T # {} PROVE FALSE
  OBVIOUS
<1>1. PICK m \in T : \A k \in T : m <= k
  <2>1. T \in SUBSET Nat
    OBVIOUS
  <2> HIDE DEF T
  <2> QED BY <2>1, LeastNatural
<1>2. m - 1 \in Nat
  OBVIOUS
<1>3. m - 1 \notin T
  <2>1. m \in Nat
    OBVIOUS
  <2> HIDE DEF T
  <2> QED BY <1>1, <2>1
<1> QED BY <1>2, <1>3

\* f is on 0 .. n the function that recursion makes: its first value is start, and
\* each later one is what step makes of the one before.
Recursive(f, n, start, step) ==
  f[0] = start /\ \A i \in 1 .. n : f[i] = step[i][f[i - 1]]

\* Two functions start alike and go on alike on 0 .. n; they are equal there.
Alike(f, g, n) ==
  f[0] = g[0] /\ \A i \in 1 .. n : f[i - 1] = g[i - 1] => f[i] = g[i]
Equal(f, g, n) == \A i \in 0 .. n : f[i] = g[i]

\* Recursion does make a function.
LEMMA FiniteRecursion ==
  ASSUME NEW S, NEW start \in S, NEW step \in [Nat -> [S -> S]], NEW n \in Nat
  PROVE  \E f \in [0 .. n -> S] : Recursive(f, n, start, step)
<1> DEFINE Has == {m \in Nat : \E f \in [0 .. m -> S] : Recursive(f, m, start, step)}
<1>1. 0 \in Has
  <2>1. /\ [i \in 0 .. 0 |-> start] \in [0 .. 0 -> S]
        /\ Recursive([i \in 0 .. 0 |-> start], 0, start, step)
    BY DEF Recursive
  <2> QED BY <2>1
<1>2. ASSUME NEW m \in Has PROVE m + 1 \in Has
  <2>1. m \in Nat
    OBVIOUS
  <2>2. PICK f \in [0 .. m -> S] : Recursive(f, m, start, step)
    OBVIOUS
  <2> DEFINE g == [i \in 0 .. m + 1 |-> IF i <= m THEN f[i] ELSE step[m + 1][f[m]]]
  <2>3. g \in [0 .. m + 1 -> S]
    <3>1. step[m + 1][f[m]] \in S
      BY <2>1
    <3>2. \A i \in 0 .. m + 1 : i <= m => f[i] \in S
      BY <2>1
    <3> QED BY <3>1, <3>2
  <2>4. g[0] = start
    BY <2>1, <2>2 DEF Recursive
  <2>5. ASSUME NEW i \in 1 .. m + 1 PROVE g[i] = step[i][g[i - 1]]
    <3>1. i \in 0 .. m + 1 /\ i - 1 \in 0 .. m + 1 /\ i - 1 <= m
      BY <2>1
    <3>2. g[i - 1] = f[i - 1]
      BY <3>1
    <3>3. CASE i <= m
      <4>1. g[i] = f[i] /\ i \in 1 .. m
        BY <2>1, <3>1, <3>3
      <4> QED BY <2>2, <3>2, <4>1 DEF Recursive
    <3>4. CASE ~(i <= m)
      <4>1. i = m + 1 /\ i - 1 = m
        BY <2>1, <3>4
      <4> QED BY <2>1, <3>1, <3>2, <4>1
    <3> QED BY <3>3, <3>4
  <2>6. Recursive(g, m + 1, start, step)
    <3> HIDE DEF g
    <3> QED BY <2>4, <2>5 DEF Recursive
  <2> HIDE DEF g
  <2> QED BY <2>1, <2>3, <2>6
<1>3. Has \in SUBSET Nat
  OBVIOUS
<1>4. Has = Nat
  <2> HIDE DEF Has
  <2> QED BY <1>1, <1>2, <1>3, SetInduction
<1>5. n \in Has
  <2> HIDE DEF Has
  <2> QED BY <1>4
<1> QED BY <1>5

LEMMA RecursionUnique ==
  ASSUME NEW f, NEW g, NEW n \in Nat, Alike(f, g, n)
  PROVE  Equal(f, g, n)
<1> DEFINE Same == {m \in Nat : m \in 0 .. n => f[m] = g[m]}
<1>1. 0 \in Same
  BY DEF Alike
<1>2. ASSUME NEW m \in Same PROVE m + 1 \in Same
  <2>1. m \in Nat /\ m + 1 \in Nat /\ (m + 1) - 1 = m
    OBVIOUS
  <2>2. ASSUME m + 1 \in 0 .. n PROVE f[m + 1] = g[m + 1]
    <3>1. m \in 0 .. n /\ m + 1 \in 1 .. n
      BY <2>1, <2>2
    <3>2. f[m] = g[m]
      BY <3>1
    <3> QED BY <2>1, <3>1, <3>2 DEF Alike
  <2> QED BY <2>1, <2>2
<1>3. Same = Nat
  <2>1. Same \in SUBSET Nat
    OBVIOUS
  <2> HIDE DEF Same
  <2> QED BY <1>1, <1>2, <2>1, SetInduction
<1>4. \A m \in Nat : m \in 0 .. n => f[m] = g[m]
  BY <1>3
<1> QED BY <1>4 DEF Equal
=============================================================================
