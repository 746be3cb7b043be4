----------------------------- MODULE Induction -----------------------------
(***************************************************************************)
(* Induction over the naturals, stated with sets so that it can be used in *)
(* any proof, and the recursive functions it justifies: that a function on *)
(* 0 .. n with a given first value and a given next value exists and is    *)
(* the only one.                                                           *)
(*                                                                         *)
(* Everything rests on one library theorem: < is well-founded on Nat.      *)
(***************************************************************************)
EXTENDS Integers, WellFoundedInduction, TLAPS

\* A set of naturals that is not empty has a least element.
LEMMA LeastNatural ==
  ASSUME NEW T, T \subseteq Nat, T # {}
  PROVE  \E x \in T : \A y \in T : x <= y
<1> DEFINE Less == OpToRel(<, Nat)
<1>1. IsWellFoundedOn(Less, Nat)
  BY NatLessThanWellFounded
<1> HIDE DEF Less
<1>2. PICK x \in T : \A y \in T : ~(<<y, x>> \in Less)
  BY <1>1, WFMin
<1>3. \A y \in T : ~(y < x)
  <2> SUFFICES ASSUME NEW y \in T, y < x  PROVE FALSE
    OBVIOUS
  <2>1. <<y, x>> \in Less
    BY DEF Less, OpToRel
  <2> QED  BY <1>2, <2>1
<1> QED  BY <1>3

\* A set that holds 0, and with each number up to n the next one, holds all
\* numbers up to n.
LEMMA InductionUpTo ==
  ASSUME NEW n \in Nat, NEW S, 0 \in S, \A i \in 0 .. n - 1 : i \in S => i + 1 \in S
  PROVE  \A i \in 0 .. n : i \in S
<1> DEFINE T == {i \in 0 .. n : i \notin S}
<1> SUFFICES ASSUME T # {}  PROVE FALSE
  OBVIOUS
<1>a. T \subseteq Nat
  OBVIOUS
<1> HIDE DEF T
<1>1. PICK x \in T : \A y \in T : x <= y
  BY <1>a, LeastNatural
<1> USE DEF T
<1>2. x \in 0 .. n /\ x \notin S
  OBVIOUS
<1>3. x - 1 \in 0 .. n - 1
  BY <1>2
<1>4. x - 1 \in S
  BY <1>1, <1>3
<1> QED  BY <1>2, <1>3, <1>4

\* f on 0 .. n has the given first value, and next gives what follows each
\* value.
Unfolds(f, n, V, first, next) ==
  /\ f \in [0 .. n -> V]
  /\ f[0] = first
  /\ \A i \in 1 .. n : f[i] = next[<<i, f[i - 1]>>]

\* Such a function exists ...
LEMMA RecursionExists ==
  ASSUME NEW n \in Nat, NEW V, NEW first \in V, NEW next \in [(1 .. n) \X V -> V]
  PROVE  \E f : Unfolds(f, n, V, first, next)
<1> DEFINE Starts(k, f) == Unfolds(f, k, V, first, next)
           S == {k \in 0 .. n : \E f : Starts(k, f)}
<1>1. 0 \in S
  <2>1. Starts(0, [i \in 0 .. 0 |-> first])
    BY DEF Unfolds
  <2>2. 0 \in 0 .. n
    OBVIOUS
  <2> HIDE DEF Starts
  <2> QED  BY <2>1, <2>2
<1>2. ASSUME NEW k \in 0 .. n - 1, k \in S  PROVE k + 1 \in S
  <2>1. PICK f : Starts(k, f)
    BY <1>2
  <2> DEFINE v == next[<<k + 1, f[k]>>]
             g == [i \in 0 .. k + 1 |-> IF i = k + 1 THEN v ELSE f[i]]
  <2> USE DEF Unfolds
  <2>2. f[k] \in V /\ k + 1 \in 1 .. n /\ v \in V
    BY <2>1
  <2>3. g \in [0 .. k + 1 -> V] /\ g[0] = first
    BY <2>1, <2>2
  <2>4. ASSUME NEW i \in 1 .. k + 1  PROVE g[i] = next[<<i, g[i - 1]>>]
    <3>1. i - 1 \in 0 .. k + 1 /\ i - 1 # k + 1 /\ i \in 0 .. k + 1
      OBVIOUS
    <3>2. g[i - 1] = f[i - 1]
      BY <3>1
    <3>3. CASE i = k + 1
      <4>1. g[i] = v /\ f[i - 1] = f[k]
        BY <3>1, <3>3
      <4> QED  BY <3>2, <3>3, <4>1
    <3>4. CASE i # k + 1
      <4>1. i \in 1 .. k /\ g[i] = f[i]
        BY <3>1, <3>4
      <4> QED  BY <2>1, <3>2, <4>1
    <3> QED  BY <3>3, <3>4
  <2>5. Starts(k + 1, g)
    BY <2>3, <2>4
  <2> HIDE DEF g, Starts
  <2> QED  BY <2>2, <2>5
<1> HIDE DEF S, Starts
<1>3. n \in S
  BY <1>1, <1>2, InductionUpTo
<1> QED  BY <1>3 DEF S, Starts

\* ... and is the only one: two functions that start alike, and go on alike
\* from like values, agree.
StepAlike(f, g, n) ==
  /\ f[0] = g[0]
  /\ \A i \in 1 .. n : f[i - 1] = g[i - 1] => f[i] = g[i]

AgreeUpTo(f, g, n) == \A i \in 0 .. n : f[i] = g[i]

LEMMA RecursionUnique ==
  ASSUME NEW n \in Nat, NEW f, NEW g, StepAlike(f, g, n)
  PROVE  AgreeUpTo(f, g, n)
<1> USE DEF StepAlike, AgreeUpTo
<1> DEFINE S == {i \in 0 .. n : f[i] = g[i]}
<1>1. 0 \in S
  OBVIOUS
<1>2. ASSUME NEW i \in 0 .. n - 1, i \in S  PROVE i + 1 \in S
  <2>1. i + 1 \in 1 .. n /\ (i + 1) - 1 = i
    OBVIOUS
  <2>2. f[(i + 1) - 1] = g[(i + 1) - 1]
    BY <1>2, <2>1
  <2> QED  BY <2>1, <2>2
<1> HIDE DEF S
<1>3. \A i \in 0 .. n : i \in S
  BY <1>1, <1>2, InductionUpTo
<1> QED  BY <1>3 DEF S

=============================================================================
