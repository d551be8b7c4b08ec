--------------------------- MODULE NumberInduction ----------------------------
(* Induction over numbers as a fact about sets of numbers, which the       *)
(* provers can instantiate, and the sums that it gives a meaning to.       *)
EXTENDS Integers, Sequences, WellFoundedInduction, TLAPS

(* Every set of numbers has a smallest one. *)
LEMMA SmallestNumber ==
  ASSUME NEW T \in SUBSET Nat, T # {}
  PROVE  \E x \in T : \A y \in T : x <= y
  <1> DEFINE R == {p \in Nat \X Nat : p[1] < p[2]}
  <1>1. IsWellFoundedOn(R, Nat)
    <2>1. IsWellFoundedOn(OpToRel(<, Nat), Nat)
      BY NatLessThanWellFounded, Zenon
    <2>2. OpToRel(<, Nat) = R
      BY Zenon DEF OpToRel
    <2> QED BY <2>1, <2>2, Zenon
  <1>2. \A x, y \in Nat : ~ (<<y, x>> \in R) => x <= y
    OBVIOUS
  <1> HIDE DEF R
  <1>3. \E x \in T : \A y \in T : ~ (<<y, x>> \in R)
    BY <1>1, WFMin
  <1> QED BY <1>2, <1>3

(* What holds of 0 and passes from each number to the next up to n holds   *)
(* of n.                                                                   *)
LEMMA InductionUpTo ==
  ASSUME NEW n \in Nat, NEW T \in SUBSET Nat,
         0 \in T, \A k \in 0 .. n - 1 : k \in T => k + 1 \in T
  PROVE  n \in T
  <1> DEFINE U == {k \in 0 .. n : k \notin T}
  <1> SUFFICES ASSUME n \notin T PROVE FALSE
    OBVIOUS
  <1>1. U \in SUBSET Nat /\ U # {}
    OBVIOUS
  <1>2. PICK x \in U : \A y \in U : x <= y
    <2> HIDE DEF U
    <2> QED BY <1>1, SmallestNumber
  <1>3. x # 0 /\ x \in 0 .. n /\ x \notin T
    OBVIOUS
  <1>4. x - 1 \in 0 .. n - 1 /\ x - 1 \notin U
    BY <1>2, <1>3
  <1> QED BY <1>3, <1>4

(* Functions on 0 .. n that begin with c and take each value from the one  *)
(* before; f does so as long as its values are in A.                       *)
StepsOf(n, A) == [A \X (1 .. n) -> A]
Recurs(g, n, A, c, step) ==
  g \in [0 .. n -> A] /\ g[0] = c /\ \A i \in 1 .. n : g[i] = step[<<g[i - 1], i>>]
RecursWithin(f, n, A, c, step) ==
  f[0] = c /\ \A i \in 1 .. n : f[i - 1] \in A => f[i] = step[<<f[i - 1], i>>]
SameUpTo(f, g, n) == \A i \in 0 .. n : f[i] = g[i]

(* There is such a function. *)
LEMMA RecursionUpTo ==
  ASSUME NEW n, n \in Nat, NEW A, NEW c, c \in A, NEW step, step \in StepsOf(n, A)
  PROVE  \E g : Recurs(g, n, A, c, step)
  <1> DEFINE Upto(m, g) == g[0] = c /\ \A i \in 1 .. m : g[i] = step[<<g[i - 1], i>>]
             T == {m \in 0 .. n : \E g \in [0 .. n -> A] : Upto(m, g)}
  <1>0. step \in [A \X (1 .. n) -> A]
    BY DEF StepsOf
  <1>1. 0 \in T
    <2>1. [i \in 0 .. n |-> c] \in [0 .. n -> A] /\ Upto(0, [i \in 0 .. n |-> c])
      OBVIOUS
    <2> HIDE DEF Upto
    <2> QED BY <2>1
  <1>2. ASSUME NEW k \in 0 .. n - 1, k \in T PROVE k + 1 \in T
    <2>1. PICK g \in [0 .. n -> A] : Upto(k, g)
      BY <1>2
    <2> DEFINE h == [g EXCEPT ![k + 1] = step[<<g[k], k + 1>>]]
    <2>2. k \in Nat /\ k + 1 \in 1 .. n /\ k \in 0 .. n /\ k + 1 \in 0 .. n /\ (k + 1) - 1 = k
      OBVIOUS
    <2>3. g[k] \in A
      BY <2>2
    <2>4. step[<<g[k], k + 1>>] \in A
      BY <1>0, <2>2, <2>3
    <2>5. h \in [0 .. n -> A] /\ h[k + 1] = step[<<g[k], k + 1>>]
      BY <2>2, <2>4
    <2>6. \A i \in 0 .. k : h[i] = g[i]
      BY <2>2
    <2> HIDE DEF h
    <2>7. h[0] = c
      BY <2>1, <2>2, <2>6
    <2>8. ASSUME NEW i \in 1 .. k + 1 PROVE h[i] = step[<<h[i - 1], i>>]
      <3>1. CASE i = k + 1
        BY <2>2, <2>5, <2>6, <3>1
      <3>2. CASE i \in 1 .. k
        <4>1. g[i] = step[<<g[i - 1], i>>] /\ i \in 0 .. k /\ i - 1 \in 0 .. k
          BY <2>1, <2>2, <3>2
        <4> QED BY <2>6, <4>1
      <3> QED BY <2>2, <3>1, <3>2
    <2>9. Upto(k + 1, h)
      BY <2>7, <2>8
    <2> HIDE DEF Upto
    <2> QED BY <2>2, <2>5, <2>9
  <1>3. n \in T
    <2> HIDE DEF T
    <2>1. T \in SUBSET Nat
      BY DEF T
    <2> QED BY <1>1, <1>2, <2>1, InductionUpTo
  <1> QED
    BY <1>3 DEF Recurs

(* There is no other one. *)
LEMMA RecursionIsUnique ==
  ASSUME NEW n, n \in Nat, NEW A, NEW c, NEW step, NEW g, Recurs(g, n, A, c, step),
         NEW f, RecursWithin(f, n, A, c, step)
  PROVE  SameUpTo(f, g, n)
  <1> DEFINE U == {i \in 0 .. n : f[i] = g[i]}
  <1>0. g \in [0 .. n -> A] /\ g[0] = c /\ \A i \in 1 .. n : g[i] = step[<<g[i - 1], i>>]
    BY DEF Recurs
  <1>5. f[0] = c /\ \A i \in 1 .. n : f[i - 1] \in A => f[i] = step[<<f[i - 1], i>>]
    BY DEF RecursWithin
  <1>1. 0 \in U
    BY <1>0, <1>5
  <1>2. ASSUME NEW k \in 0 .. n - 1, k \in U PROVE k + 1 \in U
    <2>1. k + 1 \in 1 .. n /\ k + 1 \in 0 .. n /\ (k + 1) - 1 = k /\ k \in 0 .. n
      OBVIOUS
    <2>2. f[k] = g[k] /\ f[k] \in A
      BY <1>0, <1>2, <2>1
    <2>3. f[k + 1] = step[<<f[k], k + 1>>] /\ g[k + 1] = step[<<g[k], k + 1>>]
      BY <1>0, <1>5, <2>1, <2>2
    <2> QED BY <2>1, <2>2, <2>3
  <1>3. U \in SUBSET Nat
    OBVIOUS
  <1> HIDE DEF U
  <1>4. ASSUME NEW m \in 0 .. n PROVE m \in U
    <2>1. m \in Nat /\ \A k \in 0 .. m - 1 : k \in U => k + 1 \in U
      BY <1>2
    <2> QED BY <1>1, <1>3, <2>1, InductionUpTo
  <1> QED
    BY <1>4 DEF U, SameUpTo
=============================================================================
