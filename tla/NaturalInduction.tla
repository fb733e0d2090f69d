-------------------------- MODULE NaturalInduction --------------------------
(***************************************************************************)
(* Induction over the naturals, and the functions defined by recursion on  *)
(* them, as statements about sets and functions only, so that they can be  *)
(* cited by name wherever a model computes along a sequence.               *)
(***************************************************************************)
EXTENDS Integers, TLAPS, WellFoundedInduction

Below == {p \in Nat \X Nat : p[1] < p[2]}

LEMMA BelowWF == IsWellFoundedOn(Below, Nat)
  <1>1. OpToRel(<, Nat) = Below
    BY DEF OpToRel, Below
  <1> QED  BY <1>1, NatLessThanWellFounded

\* A set of naturals that is not empty has a least member.
LEMMA Least ==
  ASSUME NEW T \in SUBSET Nat, T # {}
  PROVE  \E x \in T : \A y \in T : x <= y
  <1>1. PICK x \in T : \A y \in T : <<y, x>> \notin Below
    BY BelowWF, WFMin
  <1>2. ASSUME NEW y \in T, y < x PROVE FALSE
    <2>1. <<y, x>> \in Nat \X Nat /\ <<y, x>>[1] < <<y, x>>[2]
      BY <1>2
    <2>2. <<y, x>> \in Below
      BY <2>1 DEF Below
    <2> QED  BY <1>1, <2>2
  <1> QED  BY <1>2

\* A set of naturals that is not empty and has an upper bound has a greatest one.
LEMMA Greatest ==
  ASSUME NEW T \in SUBSET Nat, T # {}, NEW b \in Nat, \A y \in T : y <= b
  PROVE  \E x \in T : \A y \in T : y <= x
  <1> DEFINE B == {x \in Nat : \A y \in T : y <= x}
  <1>1. PICK x \in B : \A y \in B : x <= y
    BY Least
  <1>2. CASE x \in T
    BY <1>1, <1>2
  <1>3. CASE x \notin T
    <2>1. PICK t \in T : TRUE
      OBVIOUS
    <2>2. x - 1 \in Nat
      BY <2>1, <1>1, <1>3
    <2>3. \A y \in T : y <= x - 1
      BY <1>1, <1>3
    <2> QED  BY <2>2, <2>3, <1>1
  <1> QED  BY <1>2, <1>3

\* Induction: a set that has 0, and with every number the next one, is Nat.
LEMMA Induction ==
  ASSUME NEW T \in SUBSET Nat, 0 \in T, \A n \in T : n + 1 \in T
  PROVE  T = Nat
  <1> SUFFICES ASSUME Nat \ T # {} PROVE FALSE
    OBVIOUS
  <1>1. PICK x \in Nat \ T : \A y \in Nat \ T : x <= y
    BY Least
  <1>2. x # 0 /\ x - 1 \in Nat
    BY <1>1
  <1>3. x - 1 \in T
    BY <1>1, <1>2
  <1> QED  BY <1>1, <1>2, <1>3

\* Induction up to a bound.
LEMMA BoundedInduction ==
  ASSUME NEW n \in Nat, NEW T, 0 \in T, \A i \in 1..n : i - 1 \in T => i \in T
  PROVE  0..n \subseteq T
  <1> DEFINE U == {i \in Nat : i <= n => i \in T}
  <1>1. 0 \in U
    OBVIOUS
  <1>2. ASSUME NEW i \in U PROVE i + 1 \in U
    <2>1. i + 1 <= n => i + 1 \in 1..n /\ (i + 1) - 1 = i /\ i <= n
      OBVIOUS
    <2> QED  BY <2>1
  <1>3. U = Nat
    <2> HIDE DEF U
    <2> QED  BY <1>1, <1>2, Induction DEF U
  <1> QED  BY <1>3

\* Recursion: a first value and a step for every number give a function.
Follows(f, first, step, n) ==
  f[0] = first /\ \A i \in 1..n : f[i] = step[i][f[i - 1]]

LEMMA FiniteRecursion ==
  ASSUME NEW S, NEW first \in S, NEW step \in [Nat -> [S -> S]], NEW n \in Nat
  PROVE  \E f \in [0..n -> S] : Follows(f, first, step, n)
  <1> DEFINE T == {m \in Nat : \E f \in [0..m -> S] : Follows(f, first, step, m)}
  <1>1. 0 \in T
    <2> DEFINE f == [i \in 0..0 |-> first]
    <2>1. f \in [0..0 -> S] /\ Follows(f, first, step, 0)
      BY DEF Follows
    <2> QED  BY <2>1
  <1>2. ASSUME NEW m \in T PROVE m + 1 \in T
    <2>1. PICK f \in [0..m -> S] : Follows(f, first, step, m)
      OBVIOUS
    <2> DEFINE v == step[m + 1][f[m]]
               g == [i \in 0..(m + 1) |-> IF i = m + 1 THEN v ELSE f[i]]
    <2>2. v \in S
      BY <2>1
    <2>3. g \in [0..(m + 1) -> S]
      BY <2>1, <2>2
    <2>4. \A i \in 1..(m + 1) : g[i] = step[i][g[i - 1]]
      <3> SUFFICES ASSUME NEW i \in 1..(m + 1) PROVE g[i] = step[i][g[i - 1]]
        OBVIOUS
      <3>1. g[i - 1] = f[i - 1]
        OBVIOUS
      <3>2. CASE i = m + 1
        BY <3>1, <3>2
      <3>3. CASE i \in 1..m
        BY <3>1, <3>3, <2>1 DEF Follows
      <3> QED  BY <3>2, <3>3
    <2>5. g[0] = first
      BY <2>1 DEF Follows
    <2>6. Follows(g, first, step, m + 1)
      BY <2>4, <2>5 DEF Follows
    <2> QED
      <3> HIDE DEF g
      <3> QED  BY <2>3, <2>6
  <1>3. T = Nat
    <2> HIDE DEF T
    <2> QED  BY <1>1, <1>2, Induction DEF T
  <1> QED  BY <1>3
=============================================================================
