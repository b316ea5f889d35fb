------------------------------ MODULE Induction ------------------------------
(***************************************************************************)
(* Induction over the natural numbers in a form a prover can use: about a  *)
(* set, where the library's theorems are about an operator.  It comes from *)
(* the library's fact that < is well founded on Nat.                       *)
(***************************************************************************)
EXTENDS Integers, WellFoundedInduction, TLAPS

LEMMA LeastNatural ==
    ASSUME NEW T, T \subseteq Nat, T # {}
    PROVE  \E x \in T : \A y \in T : ~(y < x)
<1> DEFINE less == OpToRel(<, Nat)
<1>1. IsWellFoundedOn(less, Nat)
  BY NatLessThanWellFounded
<1>2. \A x, y \in Nat : <<y, x>> \in less <=> y < x
  BY DEF OpToRel
<1> HIDE DEF less
<1>3. \E x \in T : \A y \in T : ~(<<y, x>> \in less)
  BY <1>1, WFMin
<1> QED BY <1>2, <1>3

(* A set with 0 and, with each number up to m, its successor.              *)
LEMMA UpTo ==
    ASSUME NEW m \in Nat, NEW T, 0 \in T,
           \A n \in 0..m : n < m /\ n \in T => n + 1 \in T
    PROVE  0..m \subseteq T
<1> SUFFICES ASSUME 0..m \ T # {} PROVE FALSE
  OBVIOUS
<1>1. 0..m \ T \subseteq Nat
  OBVIOUS
<1>2. PICK x \in 0..m \ T : \A y \in 0..m \ T : ~(y < x)
  BY <1>1, LeastNatural
<1>3. x # 0 /\ x - 1 \in 0..m /\ x - 1 < m /\ x - 1 < x /\ (x - 1) + 1 = x
  BY <1>2
<1> QED BY <1>2, <1>3

(* f takes s0 at 0, and step n maps its value at n - 1 to its value at n.  *)
Recursive(f, m, S, s0, step) ==
    /\ f \in [0..m -> S]
    /\ f[0] = s0
    /\ \A n \in 1..m : f[n] = step[n][f[n - 1]]

(* What is defined by recursion over 0..m exists.                          *)
LEMMA RecursionExists ==
    ASSUME NEW m \in Nat, NEW S, NEW s0 \in S, NEW step \in [1..m -> [S -> S]]
    PROVE  \E f : Recursive(f, m, S, s0, step)
<1> DEFINE Is(f, k) == /\ f \in [0..k -> S]
                       /\ f[0] = s0
                       /\ \A n \in 1..k : f[n] = step[n][f[n - 1]]
           T == {k \in 0..m : \E f : Is(f, k)}
<1>1. 0 \in T
  <2> DEFINE f == [n \in 0..0 |-> s0]
  <2>1. Is(f, 0)
    OBVIOUS
  <2> HIDE DEF f
  <2> QED BY <2>1
<1>2. ASSUME NEW k \in 0..m, k < m, k \in T
      PROVE  k + 1 \in T
  <2>1. PICK f : Is(f, k)
    BY <1>2
  <2> DEFINE g == [n \in 0..k+1 |-> IF n = k + 1 THEN step[k + 1][f[k]] ELSE f[n]]
  <2>2. k + 1 \in 1..m /\ step[k + 1] \in [S -> S] /\ f[k] \in S
    BY <1>2, <2>1
  <2>3. step[k + 1][f[k]] \in S
    BY <2>2
  <2>4. g \in [0..k+1 -> S]
    BY <2>1, <2>3
  <2>5. g[0] = s0
    BY <2>1
  <2>6. ASSUME NEW n \in 1..k+1
        PROVE  g[n] = step[n][g[n - 1]]
    <3>1. CASE n = k + 1
      BY <2>1, <3>1
    <3>2. CASE n # k + 1
      <4>1. n \in 1..k /\ n \in 0..k+1 /\ n - 1 \in 0..k+1 /\ n - 1 # k + 1
        BY <3>2
      <4> QED BY <2>1, <3>2, <4>1
    <3> QED BY <3>1, <3>2
  <2> HIDE DEF g
  <2>7. Is(g, k + 1)
    BY <2>4, <2>5, <2>6
  <2> QED BY <1>2, <2>7
<1> HIDE DEF T
<1>3. 0..m \subseteq T
  BY <1>1, <1>2, UpTo
<1>4. m \in T
  BY <1>3
<1> QED BY <1>4 DEF T, Recursive
=============================================================================
