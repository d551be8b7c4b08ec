-------------------------- MODULE TransportsProofs ---------------------------
(***************************************************************************)
(* Proofs about what carries a response over datagrams.  A page is cut     *)
(* into the chunks that were laid out, for every size of a chunk and of a  *)
(* page and every number of the first chunk: what both pieces of code      *)
(* compute is described by where each chunk starts and what of the page is *)
(* ahead of it.  Then, with what ClockProofs shows, the whole of module    *)
(* Transports.                                                             *)
(***************************************************************************)
EXTENDS Transports, SequencesExt, SequenceTheorems, ClockProofs

------------------------------------------------------------------------------
(* The lengths of numbers.                                                 *)

(* What is left of n after d digits were taken off, as in Digits. *)
LeftBody(n, f) == [d \in 0 .. n + 1 |-> IF d = 0 THEN n ELSE f[d - 1] \div 10]
Left(n) == CHOOSE f : f = LeftBody(n, f)

LEMMA LeftIs ==
  ASSUME NEW n, n \in Nat
  PROVE  /\ Left(n)[0] = n
         /\ \A d \in 1 .. n + 1 : Left(n)[d] = Left(n)[d - 1] \div 10
         /\ \A d \in 0 .. n + 1 : Left(n)[d] \in Nat
<1> DEFINE m == n + 1
           div == [x \in Nat \X (1 .. m) |-> x[1] \div 10]
           rest == Left(n)
<1>1. m \in Nat /\ m = n + 1
  OBVIOUS
<1>2. \A x \in Nat : x \div 10 \in Nat
  OBVIOUS
<1>3. div \in StepsOf(m, Nat)
  BY <1>2 DEF StepsOf
<1>4. \A x \in Nat, d \in 1 .. m : div[<<x, d>>] = x \div 10
  OBVIOUS
<1> HIDE DEF m, div
<1>5. PICK g : Recurs(g, m, Nat, n, div)
  BY <1>1, <1>3, RecursionUpTo
<1>6. g \in [0 .. m -> Nat] /\ g[0] = n /\ \A d \in 1 .. m : g[d] = div[<<g[d - 1], d>>]
  BY <1>5 DEF Recurs
<1>7. g = LeftBody(n, g)
  <2>1. \A d \in 1 .. m : g[d - 1] \in Nat
    BY <1>1, <1>6
  <2>2. \A d \in 1 .. m : g[d] = g[d - 1] \div 10
    BY <1>4, <1>6, <2>1
  <2>3. \A d \in 0 .. m : g[d] = LeftBody(n, g)[d]
    BY <1>1, <1>6, <2>2 DEF LeftBody
  <2>4. g = [d \in 0 .. m |-> g[d]]
    BY <1>6
  <2> QED BY <1>1, <2>3, <2>4 DEF LeftBody
<1>8. rest = LeftBody(n, rest)
  BY <1>7 DEF Left
<1> HIDE DEF rest
<1>9. rest[0] = n /\ \A d \in 1 .. m : rest[d] = rest[d - 1] \div 10
  BY <1>1, <1>8 DEF LeftBody
<1>10. SameUpTo(rest, g, m)
  <2>1. RecursWithin(rest, m, Nat, n, div)
    BY <1>4, <1>9 DEF RecursWithin
  <2> QED BY <1>1, <1>5, <2>1, RecursionIsUnique
<1>11. \A d \in 0 .. m : rest[d] \in Nat
  BY <1>6, <1>10 DEF SameUpTo
<1> QED BY <1>1, <1>9, <1>11 DEF rest

(* After d digits nothing is left, and after d - 1 something is. *)
LastDigit(n, d) == Left(n)[d] = 0 /\ (d > 1 => Left(n)[d - 1] # 0)

LEMMA LeftFalls ==
  ASSUME NEW n \in Nat, NEW d \in 0 .. n + 1
  PROVE  /\ Left(n)[d] = 0 \/ Left(n)[d] <= n - d
         /\ \A e \in d .. n + 1 : Left(n)[d] = 0 => Left(n)[e] = 0
<1>1. /\ Left(n)[0] = n
      /\ \A k \in 1 .. n + 1 : Left(n)[k] = Left(n)[k - 1] \div 10
      /\ \A k \in 0 .. n + 1 : Left(n)[k] \in Nat
  BY LeftIs
<1>2. ASSUME NEW k \in 0 .. n + 1 PROVE Left(n)[k] = 0 \/ Left(n)[k] <= n - k
  <2> DEFINE Good == {j \in Nat : j \in 0 .. n + 1 => Left(n)[j] = 0 \/ Left(n)[j] <= n - j}
  <2>1. 0 \in Good
    BY <1>1
  <2>2. ASSUME NEW j \in 0 .. k - 1, j \in Good PROVE j + 1 \in Good
    <3>1. j \in 0 .. n + 1 /\ j + 1 \in 1 .. n + 1 /\ (j + 1) - 1 = j /\ j \in Nat
      OBVIOUS
    <3>2. Left(n)[j + 1] = Left(n)[j] \div 10 /\ Left(n)[j] \in Nat /\ (Left(n)[j] = 0 \/ Left(n)[j] <= n - j)
      BY <1>1, <2>2, <3>1
    <3>3. \A x \in Nat : (x = 0 \/ x <= n - j) => x \div 10 = 0 \/ x \div 10 <= n - (j + 1)
      BY <3>1
    <3> QED BY <3>1, <3>2, <3>3
  <2>3. Good \in SUBSET Nat /\ k \in Nat
    OBVIOUS
  <2>4. k \in Good
    <3> HIDE DEF Good
    <3> QED BY <2>1, <2>2, <2>3, InductionUpTo
  <2> QED BY <2>4
<1>3. ASSUME NEW e \in d .. n + 1, Left(n)[d] = 0 PROVE Left(n)[e] = 0
  <2> DEFINE Good == {j \in Nat : d + j \in 0 .. n + 1 => Left(n)[d + j] = 0}
  <2>1. 0 \in Good
    BY <1>3
  <2>2. ASSUME NEW j \in 0 .. (e - d) - 1, j \in Good PROVE j + 1 \in Good
    <3>1. d + j \in 0 .. n + 1 /\ d + (j + 1) \in 1 .. n + 1 /\ (d + (j + 1)) - 1 = d + j /\ j + 1 \in Nat
      OBVIOUS
    <3>2. Left(n)[d + (j + 1)] = Left(n)[d + j] \div 10 /\ Left(n)[d + j] = 0
      BY <1>1, <2>2, <3>1
    <3> QED BY <3>1, <3>2
  <2>3. Good \in SUBSET Nat /\ e - d \in Nat /\ d + (e - d) = e /\ e \in 0 .. n + 1
    OBVIOUS
  <2>4. e - d \in Good
    <3> HIDE DEF Good
    <3> QED BY <2>1, <2>2, <2>3, InductionUpTo
  <2> QED BY <2>3, <2>4
<1> QED BY <1>2, <1>3

LEMMA DigitsAre ==
  ASSUME NEW n \in Nat
  PROVE  /\ C!Digits(n) \in 1 .. n + 1 /\ LastDigit(n, C!Digits(n))
         /\ \A d \in 1 .. n + 1 : LastDigit(n, d) => d = C!Digits(n)
<1>0. C!Digits(n) = CHOOSE d \in 1 .. n + 1 : LastDigit(n, d)
  BY DEF C!Digits, LastDigit, Left, LeftBody
<1> DEFINE Z == {d \in 1 .. n + 1 : Left(n)[d] = 0}
<1>1. n + 1 \in Z
  <2>1. n + 1 \in 0 .. n + 1 /\ n + 1 \in 1 .. n + 1
    OBVIOUS
  <2>2. Left(n)[n + 1] = 0 \/ Left(n)[n + 1] <= n - (n + 1)
    BY <2>1, LeftFalls
  <2>3. Left(n)[n + 1] \in Nat
    BY <2>1, LeftIs
  <2> QED BY <2>1, <2>2, <2>3
<1>2. Z \in SUBSET Nat /\ Z # {}
  BY <1>1
<1>3. PICK z \in Z : \A y \in Z : z <= y
  <2> HIDE DEF Z
  <2> QED BY <1>2, SmallestNumber
<1>4. z \in 1 .. n + 1 /\ LastDigit(n, z)
  <2>1. z > 1 => z - 1 \in 1 .. n + 1
    OBVIOUS
  <2>2. z > 1 => z - 1 \notin Z
    BY <1>3
  <2> QED BY <2>1, <2>2 DEF LastDigit
<1>5. C!Digits(n) \in 1 .. n + 1 /\ LastDigit(n, C!Digits(n))
  BY <1>0, <1>4
<1>6. ASSUME NEW d \in 1 .. n + 1, NEW e \in 1 .. n + 1, LastDigit(n, d), LastDigit(n, e) PROVE ~ (d < e)
  <2> SUFFICES ASSUME d < e PROVE FALSE
    OBVIOUS
  <2>1. d \in 0 .. n + 1 /\ e - 1 \in d .. n + 1 /\ e > 1
    OBVIOUS
  <2>2. Left(n)[e - 1] = 0
    BY <1>6, <2>1, LeftFalls DEF LastDigit
  <2> QED BY <1>6, <2>1, <2>2 DEF LastDigit
<1>7. ASSUME NEW d \in 1 .. n + 1, LastDigit(n, d) PROVE d = C!Digits(n)
  <2>1. ~ (d < C!Digits(n)) /\ ~ (C!Digits(n) < d)
    BY <1>5, <1>6, <1>7
  <2> QED BY <1>5, <2>1
<1> QED BY <1>5, <1>7

(* A digit more than without the last one. *)
LEMMA DigitsStep ==
  ASSUME NEW n \in Nat
  PROVE  /\ n < 10 => C!Digits(n) = 1
         /\ n >= 10 => n \div 10 \in Nat /\ C!Digits(n) = C!Digits(n \div 10) + 1
<1>1. CASE n < 10
  <2>1. 1 \in 1 .. n + 1 /\ 1 - 1 = 0 /\ n \div 10 = 0
    BY <1>1
  <2>2. LastDigit(n, 1)
    BY <2>1, LeftIs DEF LastDigit
  <2>3. 1 = C!Digits(n)
    BY <2>1, <2>2, DigitsAre
  <2> QED BY <1>1, <2>3
<1>2. CASE n >= 10
  <2> DEFINE q == n \div 10
             e == C!Digits(q)
  <2>1. q \in Nat /\ q # 0 /\ q + 1 <= n
    BY <1>2
  <2>2. q = n \div 10
    OBVIOUS
  <2> HIDE DEF q
  <2>3. ASSUME NEW k \in 0 .. q + 1 PROVE Left(q)[k] = Left(n)[k + 1]
    <3> DEFINE Good == {j \in Nat : j \in 0 .. q + 1 => Left(q)[j] = Left(n)[j + 1]}
    <3>1. 0 \in Good
      <4>1. 1 \in 1 .. n + 1 /\ 1 - 1 = 0 /\ 0 + 1 = 1
        OBVIOUS
      <4> QED BY <2>1, <2>2, <4>1, LeftIs
    <3>2. ASSUME NEW j \in 0 .. k - 1, j \in Good PROVE j + 1 \in Good
      <4>1. /\ j \in 0 .. q + 1 /\ j + 1 \in 1 .. q + 1 /\ (j + 1) - 1 = j /\ j + 1 \in Nat
            /\ (j + 1) + 1 \in 1 .. n + 1 /\ ((j + 1) + 1) - 1 = j + 1
        BY <2>1
      <4>2. Left(q)[j + 1] = Left(q)[j] \div 10
        BY <2>1, <4>1, LeftIs
      <4>3. Left(n)[(j + 1) + 1] = Left(n)[j + 1] \div 10
        BY <4>1, LeftIs
      <4> QED BY <3>2, <4>1, <4>2, <4>3
    <3>3. Good \in SUBSET Nat /\ k \in Nat
      OBVIOUS
    <3>4. k \in Good
      <4> HIDE DEF Good
      <4> QED BY <3>1, <3>2, <3>3, InductionUpTo
    <3> QED BY <3>4
  <2>4. e \in 1 .. q + 1 /\ LastDigit(q, e)
    BY <2>1, DigitsAre
  <2> HIDE DEF e
  <2>5. e \in 0 .. q + 1 /\ e - 1 \in 0 .. q + 1 /\ (e - 1) + 1 = e /\ e + 1 \in 1 .. n + 1 /\ e + 1 > 1 /\ (e + 1) - 1 = e
    BY <2>1, <2>4
  <2>6. Left(n)[e + 1] = 0
    BY <2>3, <2>4, <2>5 DEF LastDigit
  <2>7. Left(n)[e] # 0
    <3>1. CASE e > 1
      <4>1. Left(q)[e - 1] # 0
        BY <2>4, <3>1 DEF LastDigit
      <4> QED BY <2>3, <2>5, <4>1
    <3>2. CASE e = 1
      <4>1. 1 \in 1 .. n + 1 /\ 1 - 1 = 0
        OBVIOUS
      <4> QED BY <2>1, <2>2, <3>2, <4>1, LeftIs
    <3> QED BY <2>4, <3>1, <3>2
  <2>8. LastDigit(n, e + 1)
    BY <2>5, <2>6, <2>7 DEF LastDigit
  <2>9. e + 1 = C!Digits(n)
    BY <2>5, <2>8, DigitsAre
  <2> QED BY <1>2, <2>1, <2>2, <2>9 DEF e
<1> QED BY <1>1, <1>2

(* The loop of int_length: a turn of it, and its result. *)
Turn(a, x) == IF a >= x[2] THEN <<x[1] + 1, x[2] * 10>> ELSE x
LoopBody(a, f) == [turn \in 0 .. a \div 10 |-> IF turn = 0 THEN <<1, 10>> ELSE Turn(a, f[turn - 1])]
Loop(a) == CHOOSE f : f = LoopBody(a, f)

LEMMA LoopIs ==
  ASSUME NEW a, a \in Nat
  PROVE  /\ C!int_length(a) = Loop(a)[a \div 10][1]
         /\ Loop(a)[0] = <<1, 10>>
         /\ \A i \in 1 .. a \div 10 : Loop(a)[i] = Turn(a, Loop(a)[i - 1])
         /\ \A i \in 0 .. a \div 10 : Loop(a)[i] \in Nat \X Nat
<1> DEFINE m == a \div 10
           P == Nat \X Nat
           next == [x \in P \X (1 .. m) |-> Turn(a, x[1])]
           loop == Loop(a)
<1>0. C!int_length(a) = loop[m][1]
  BY DEF C!int_length, Loop, LoopBody, Turn
<1>1. m \in Nat /\ m = a \div 10 /\ <<1, 10>> \in P
  OBVIOUS
<1>2. \A x \in P : Turn(a, x) \in P
  BY DEF Turn
<1> HIDE DEF P
<1>3. next \in StepsOf(m, P)
  BY <1>2 DEF StepsOf
<1>4. \A x \in P, i \in 1 .. m : next[<<x, i>>] = Turn(a, x)
  OBVIOUS
<1> HIDE DEF m, next
<1>5. PICK g : Recurs(g, m, P, <<1, 10>>, next)
  BY <1>1, <1>3, RecursionUpTo
<1>6. g \in [0 .. m -> P] /\ g[0] = <<1, 10>> /\ \A i \in 1 .. m : g[i] = next[<<g[i - 1], i>>]
  BY <1>5 DEF Recurs
<1>7. g = LoopBody(a, g)
  <2>1. \A i \in 1 .. m : g[i - 1] \in P
    BY <1>1, <1>6
  <2>2. \A i \in 1 .. m : g[i] = Turn(a, g[i - 1])
    BY <1>4, <1>6, <2>1
  <2>3. \A i \in 0 .. m : g[i] = LoopBody(a, g)[i]
    BY <1>1, <1>6, <2>2 DEF LoopBody
  <2>4. g = [i \in 0 .. m |-> g[i]]
    BY <1>6
  <2> QED BY <1>1, <2>3, <2>4 DEF LoopBody
<1>8. loop = LoopBody(a, loop)
  BY <1>7 DEF Loop
<1> HIDE DEF loop
<1>9. loop[0] = <<1, 10>> /\ \A i \in 1 .. m : loop[i] = Turn(a, loop[i - 1])
  BY <1>1, <1>8 DEF LoopBody
<1>10. SameUpTo(loop, g, m)
  <2>1. RecursWithin(loop, m, P, <<1, 10>>, next)
    BY <1>4, <1>9 DEF RecursWithin
  <2> QED BY <1>1, <1>5, <2>1, RecursionIsUnique
<1>11. \A i \in 0 .. m : loop[i] \in P
  BY <1>6, <1>10 DEF SameUpTo
<1> QED BY <1>0, <1>1, <1>9, <1>11 DEF loop, P

(* Below the threshold are the numbers of at most that length. *)
Threshold(x) == x[2] >= 10 /\ x[1] >= 1 /\ \A n \in Nat : n < x[2] <=> C!Digits(n) <= x[1]

LEMMA ThresholdGrows ==
  ASSUME NEW x \in Nat \X Nat, Threshold(x)
  PROVE  Threshold(<<x[1] + 1, x[2] * 10>>)
<1> DEFINE l == x[1]
           t == x[2]
<1>1. l \in Nat /\ t \in Nat /\ t >= 10 /\ l >= 1 /\ \A n \in Nat : n < t <=> C!Digits(n) <= l
  BY DEF Threshold
<1> HIDE DEF l, t
<1>2. ASSUME NEW n \in Nat PROVE n < t * 10 <=> C!Digits(n) <= l + 1
  <2>1. CASE n < 10
    BY <1>1, <2>1, DigitsStep
  <2>2. CASE n >= 10
    <3>1. n \div 10 \in Nat /\ C!Digits(n) = C!Digits(n \div 10) + 1 /\ C!Digits(n \div 10) \in Nat
      BY <2>2, DigitsStep, DigitsAre
    <3>2. n \div 10 < t <=> C!Digits(n \div 10) <= l
      BY <1>1, <3>1
    <3>3. n < t * 10 <=> n \div 10 < t
      BY <1>1
    <3>4. C!Digits(n) <= l + 1 <=> C!Digits(n \div 10) <= l
      BY <1>1, <3>1
    <3> QED BY <3>2, <3>3, <3>4
  <2> QED BY <2>1, <2>2
<1>3. t * 10 >= 10 /\ l + 1 >= 1
  BY <1>1
<1> QED BY <1>2, <1>3 DEF Threshold, l, t

(* int_length is the length of a printed number. *)
LEMMA LengthIsDigits ==
  ASSUME NEW a \in Nat
  PROVE  /\ C!int_length(a) = C!Digits(a)
         /\ \E x \in Nat \X Nat : Threshold(x) /\ a < x[2] /\ x[1] = C!Digits(a)
<1> DEFINE m == a \div 10
           At(i) == Loop(a)[i]
           Fine(i) == /\ Threshold(At(i)) /\ (a < At(i)[2] \/ At(i)[2] >= 10 * (i + 1))
                      /\ At(i)[1] = 1 \/ C!Digits(a) >= At(i)[1]
           Good == {i \in Nat : i \in 0 .. m => Fine(i)}
<1>1. m \in Nat /\ m = a \div 10 /\ 10 * (m + 1) > a
  OBVIOUS
<1>2. /\ C!int_length(a) = At(m)[1] /\ At(0) = <<1, 10>>
      /\ \A i \in 1 .. m : At(i) = Turn(a, At(i - 1))
      /\ \A i \in 0 .. m : At(i) \in Nat \X Nat
  BY LoopIs
<1>3. C!Digits(a) \in Nat /\ C!Digits(a) >= 1
  BY DigitsAre
<1> HIDE DEF m, At
<1>4. 0 \in Good
  <2>1. ASSUME NEW n \in Nat PROVE n < 10 <=> C!Digits(n) <= 1
    <3>1. n >= 10 => n \div 10 \in Nat /\ C!Digits(n) = C!Digits(n \div 10) + 1
      BY DigitsStep
    <3>2. n >= 10 => C!Digits(n \div 10) >= 1 /\ C!Digits(n \div 10) \in Nat
      BY <3>1, DigitsAre
    <3>3. n < 10 => C!Digits(n) = 1
      BY DigitsStep
    <3> QED BY <3>1, <3>2, <3>3
  <2>2. At(0)[1] = 1 /\ At(0)[2] = 10
    BY <1>2
  <2>3. Threshold(At(0))
    BY <2>1, <2>2 DEF Threshold
  <2> QED BY <2>2, <2>3
<1>5. ASSUME NEW i \in 0 .. m - 1, i \in Good PROVE i + 1 \in Good
  <2>1. i \in 0 .. m /\ i \in Nat /\ i + 1 \in 1 .. m /\ (i + 1) - 1 = i /\ i + 1 \in Nat
    BY <1>1
  <2>2. Fine(i) /\ At(i) \in Nat \X Nat /\ At(i + 1) = Turn(a, At(i))
    BY <1>2, <1>5, <2>1
  <2>3. CASE a >= At(i)[2]
    <3>1. At(i + 1) = <<At(i)[1] + 1, At(i)[2] * 10>>
      BY <2>2, <2>3 DEF Turn
    <3>2. Threshold(At(i + 1))
      BY <2>2, <3>1, ThresholdGrows
    <3>3. At(i)[2] \in Nat /\ At(i)[1] \in Nat
      BY <2>2
    <3>4. At(i)[2] >= 10 * (i + 1)
      BY <2>1, <2>2, <2>3, <3>3
    <3>5. At(i)[2] * 10 >= 10 * ((i + 1) + 1)
      BY <2>1, <3>3, <3>4
    <3>6. C!Digits(a) >= At(i)[1] + 1
      <4>1. a < At(i)[2] <=> C!Digits(a) <= At(i)[1]
        BY <2>2 DEF Threshold
      <4> QED BY <1>3, <2>3, <3>3, <4>1
    <3>7. At(i + 1)[1] = At(i)[1] + 1 /\ At(i + 1)[2] = At(i)[2] * 10
      BY <3>1
    <3> QED BY <2>1, <3>2, <3>5, <3>6, <3>7
  <2>4. CASE ~ (a >= At(i)[2])
    <3>1. At(i + 1) = At(i)
      BY <2>2, <2>4 DEF Turn
    <3>2. a < At(i)[2]
      BY <2>2, <2>4
    <3> QED BY <2>1, <2>2, <3>1, <3>2
  <2> QED BY <2>3, <2>4
<1>6. m \in Good
  <2>1. Good \in SUBSET Nat
    OBVIOUS
  <2> HIDE DEF Good
  <2> QED BY <1>1, <1>4, <1>5, <2>1, InductionUpTo
<1>7. Fine(m) /\ At(m) \in Nat \X Nat
  BY <1>1, <1>2, <1>6
<1>8. a < At(m)[2]
  <2>1. At(m)[2] \in Nat
    BY <1>7
  <2> QED BY <1>1, <1>7, <2>1
<1>9. C!Digits(a) <= At(m)[1]
  BY <1>7, <1>8 DEF Threshold
<1>10. At(m)[1] \in Nat
  BY <1>7
<1>11. At(m)[1] = C!Digits(a)
  BY <1>3, <1>7, <1>9, <1>10
<1>12. Threshold(At(m)) /\ At(m) \in Nat \X Nat
  BY <1>7
<1> QED BY <1>2, <1>8, <1>11, <1>12

(* A larger number is not shorter. *)
LEMMA DigitsGrow ==
  ASSUME NEW a \in Nat, NEW b \in Nat, a <= b
  PROVE  C!Digits(a) <= C!Digits(b)
<1>1. PICK x \in Nat \X Nat : Threshold(x) /\ b < x[2] /\ x[1] = C!Digits(b)
  BY LengthIsDigits
<1>2. x[2] \in Nat
  BY <1>1
<1>3. a < x[2]
  BY <1>1, <1>2
<1>4. C!Digits(a) <= x[1]
  BY <1>1, <1>3 DEF Threshold
<1> QED BY <1>1, <1>4

------------------------------------------------------------------------------
(* The layout of a page in chunks, which are counted from 0.               *)

(* The length of the marker of chunk k; of those of the chunks before k.   *)
Extra(k) == C!Digits(first_chunk + k) + (IF k = 0 THEN 1 ELSE 2)
Sums(g) == /\ g \in [0 .. page + 2 -> Nat] /\ g[0] = 0
           /\ \A k \in 1 .. page + 2 : g[k] = g[k - 1] + Extra(k - 1)
Marks == CHOOSE g : Sums(g)

(* Where chunk k starts: all but the last two are full.  What of the page  *)
(* is in the chunks before it.                                             *)
Fill(k) == CHUNK_SIZE * k
Start(k) ==
  IF k <= chunk_number - 2 THEN Fill(k)
  ELSE IF k = chunk_number - 1 THEN Len(buffer) - Extra(k) ELSE Len(buffer)
Ahead(k) == Start(k) - Marks[k]

LEMMA FillIs ==
  ASSUME CHUNK_SIZE \in Nat, NEW k \in Nat
  PROVE  /\ Fill(k) \in Nat /\ Fill(0) = 0 /\ Fill(k + 1) = Fill(k) + CHUNK_SIZE
         /\ \A j \in 0 .. k : Fill(j) <= Fill(k)
<1>1. Fill(k) \in Nat /\ Fill(0) = 0 /\ Fill(k + 1) = Fill(k) + CHUNK_SIZE
  BY DEF Fill
<1>2. ASSUME NEW j \in 0 .. k PROVE Fill(j) <= Fill(k)
  <2>1. CHUNK_SIZE * (k - j) \in Nat
    OBVIOUS
  <2>2. CHUNK_SIZE * k = CHUNK_SIZE * j + CHUNK_SIZE * (k - j)
    OBVIOUS
  <2>3. CHUNK_SIZE * j \in Nat
    OBVIOUS
  <2> QED BY <2>1, <2>2, <2>3 DEF Fill
<1> QED BY <1>1, <1>2

Given == page \in Sizes /\ first_chunk \in Seqs

LEMMA FunctionIsSeq ==
  ASSUME NEW n \in Nat, NEW S, NEW f \in [1 .. n -> S]
  PROVE  f \in Seq(S) /\ Len(f) = n
OBVIOUS

(* A marker is as long as int_length says, and leaves room in its chunk. *)
LEMMA MarkerFits ==
  ASSUME C!ChunksAssumption, Given, NEW k \in 0 .. page
  PROVE  /\ Extra(k) \in 2 .. CHUNK_SIZE - 1
         /\ C!int_length(first_chunk + k) = C!Digits(first_chunk + k)
         /\ C!extra(first_chunk + k) \in Seq([marker : Nat, at : Nat]) /\ Len(C!extra(first_chunk + k)) = Extra(k)
         /\ \A i \in 1 .. Extra(k) : C!extra(first_chunk + k)[i] = [marker |-> first_chunk + k, at |-> i]
<1>1. /\ page \in Nat /\ first_chunk \in Nat /\ CHUNK_SIZE \in Nat
      /\ C!int_length(first_chunk + page) + 2 < CHUNK_SIZE
  BY DEF C!ChunksAssumption, Given
<1>2. first_chunk + k \in Nat /\ first_chunk + page \in Nat /\ first_chunk + k <= first_chunk + page
  BY <1>1
<1>3. C!int_length(first_chunk + page) = C!Digits(first_chunk + page)
  BY <1>2, LengthIsDigits
<1>4. C!int_length(first_chunk + k) = C!Digits(first_chunk + k)
  BY <1>2, LengthIsDigits
<1>5. /\ C!Digits(first_chunk + k) \in Nat /\ C!Digits(first_chunk + k) >= 1
      /\ C!Digits(first_chunk + page) \in Nat
  BY <1>2, DigitsAre
<1>6. C!Digits(first_chunk + k) <= C!Digits(first_chunk + page)
  BY <1>2, DigitsGrow
<1>7. Extra(k) \in 2 .. CHUNK_SIZE - 1
  BY <1>1, <1>3, <1>5, <1>6 DEF Extra
<1>8. first_chunk + k = first_chunk <=> k = 0
  BY <1>1
<1>9. C!extra(first_chunk + k) = [i \in 1 .. Extra(k) |-> [marker |-> first_chunk + k, at |-> i]]
  BY <1>8 DEF C!extra, Extra
<1>10. C!extra(first_chunk + k) \in Seq([marker : Nat, at : Nat]) /\ Len(C!extra(first_chunk + k)) = Extra(k)
  <2>1. \A i \in 1 .. Extra(k) : [marker |-> first_chunk + k, at |-> i] \in [marker : Nat, at : Nat]
    BY <1>2
  <2>2. C!extra(first_chunk + k) \in [1 .. Extra(k) -> [marker : Nat, at : Nat]]
    BY <1>9, <2>1
  <2>3. Extra(k) \in Nat
    BY <1>7
  <2> QED BY <2>2, <2>3, FunctionIsSeq
<1> QED BY <1>4, <1>7, <1>9, <1>10

(* There are such sums. *)
LEMMA MarksAre ==
  ASSUME C!ChunksAssumption, Given
  PROVE  Sums(Marks)
<1> DEFINE m == page + 2
           more == [x \in Nat \X (1 .. m) |-> x[1] + Extra(x[2] - 1)]
<1>1. m \in Nat /\ m = page + 2 /\ page \in Nat /\ first_chunk \in Nat
  BY DEF C!ChunksAssumption, Given
<1>2. \A k \in 1 .. m : Extra(k - 1) \in Nat
  <2> SUFFICES ASSUME NEW k \in 1 .. m PROVE Extra(k - 1) \in Nat
    OBVIOUS
  <2>1. first_chunk + (k - 1) \in Nat
    BY <1>1
  <2> QED BY <2>1, DigitsAre DEF Extra
<1> HIDE DEF m
<1>3. more \in StepsOf(m, Nat)
  <2>1. \A x \in Nat, k \in 1 .. m : x + Extra(k - 1) \in Nat
    BY <1>2
  <2> QED BY <2>1 DEF StepsOf
<1>4. \A x \in Nat, k \in 1 .. m : more[<<x, k>>] = x + Extra(k - 1)
  OBVIOUS
<1> HIDE DEF more
<1>5. PICK g : Recurs(g, m, Nat, 0, more)
  BY <1>1, <1>3, RecursionUpTo
<1>6. g \in [0 .. m -> Nat] /\ g[0] = 0 /\ \A k \in 1 .. m : g[k] = more[<<g[k - 1], k>>]
  BY <1>5 DEF Recurs
<1>7. \A k \in 1 .. m : g[k - 1] \in Nat
  BY <1>1, <1>6
<1>8. \A k \in 1 .. m : g[k] = g[k - 1] + Extra(k - 1)
  BY <1>4, <1>6, <1>7
<1>9. Sums(g)
  BY <1>1, <1>6, <1>8 DEF Sums
<1> QED BY <1>9 DEF Marks

LEMMA MarksStep ==
  ASSUME C!ChunksAssumption, Given, NEW k \in 0 .. page + 1
  PROVE  Marks[0] = 0 /\ Marks[k] \in Nat /\ Marks[k + 1] = Marks[k] + Extra(k) /\ Marks[k + 1] \in Nat
<1>1. page \in Nat
  BY DEF C!ChunksAssumption, Given
<1>2. k + 1 \in 1 .. page + 2 /\ (k + 1) - 1 = k /\ k \in 0 .. page + 2 /\ k + 1 \in 0 .. page + 2
  BY <1>1
<1> QED BY <1>2, MarksAre DEF Sums

(* What the first loop has measured: before its k-th turn all chunks were  *)
(* full, or the page is over.                                              *)
Turns == seq - first_chunk
Measured ==
  /\ Turns \in 0 .. payload_size /\ payload_size \in 0 .. page
  /\ total_size = payload_size + Marks[Turns]
  /\ payload_size < page => total_size = Fill(Turns)
  /\ Turns = 0 => payload_size = 0
  /\ payload_size = page => total_size \in Fill(Turns - 1) + 1 .. Fill(Turns)
  /\ chunk_total_sizes \in Seq(0 .. CHUNK_SIZE) /\ Len(chunk_total_sizes) = 2
  /\ Turns >= 1 =>
       /\ chunk_total_sizes[2] = total_size - Fill(Turns - 1)
       /\ Fill(Turns - 1) - Marks[Turns - 1] < page
  /\ Turns >= 2 => chunk_total_sizes[1] = CHUNK_SIZE
  /\ chunk_number = 0 /\ cut = <<>> /\ packets = <<>>
  /\ buffer = [i \in 1 .. page |-> C!Byte(i)]

(* What it leaves to the second loop: the last chunk is empty, the one     *)
(* before is not.                                                          *)
Cells == [text : Nat] \cup [marker : Nat, at : Nat]
Laid ==
  /\ chunk_number \in 2 .. page + 1
  /\ buffer \in Seq(Cells) /\ Len(buffer) = page + Marks[chunk_number]
  /\ Fill(chunk_number - 2) - Marks[chunk_number - 2] < page
  /\ Len(buffer) - Extra(chunk_number - 1) \in Fill(chunk_number - 2) + 1 .. Fill(chunk_number - 1)

(* Chunk k is at its place: its marker and its piece of the page. *)
Placed(k) ==
  /\ \A i \in 1 .. Extra(k) : buffer[Start(k) + i] = [marker |-> first_chunk + k, at |-> i]
  /\ \A i \in 1 .. Ahead(k + 1) - Ahead(k) : buffer[Start(k) + Extra(k) + i] = C!Byte(Ahead(k) + i)

(* The second loop: the chunks behind are placed, the page is in front.    *)
Inserting ==
  /\ Laid /\ Turns \in 0 .. chunk_number - 1
  /\ total_size = Start(Turns + 1) /\ payload_size = Ahead(Turns + 1)
  /\ chunk_total_sizes \in Seq(0 .. CHUNK_SIZE) /\ Len(chunk_total_sizes) = 2
  /\ chunk_total_sizes[2] = Start(Turns + 1) - Start(Turns)
  /\ Turns >= 1 => chunk_total_sizes[1] = Start(Turns) - Start(Turns - 1)
  /\ \A i \in 1 .. payload_size : buffer[i] = C!Byte(i)
  /\ \A k \in Turns + 1 .. chunk_number - 1 : Placed(k)
  /\ cut = <<>> /\ packets = <<>>

(* The sender: the packets are the first chunks, the rest is to be cut.    *)
Sending ==
  /\ Laid /\ Turns = 0 /\ total_size = 0 /\ payload_size = 0
  /\ chunk_total_sizes \in Seq(0 .. CHUNK_SIZE) /\ Len(chunk_total_sizes) = 2
  /\ \A k \in 0 .. chunk_number - 1 : Placed(k)
  /\ packets \in Seq(Seq(Cells)) /\ Len(packets) \in 0 .. chunk_number
  /\ \A k \in 1 .. Len(packets) : packets[k] = SubSeq(buffer, Start(k - 1) + 1, Start(k))
  /\ cut = SubSeq(buffer, Start(Len(packets)) + 1, Len(buffer))

CInv ==
  /\ Given /\ seq \in Int
  /\ \/ step = "measure" /\ Measured
     \/ step = "insert" /\ Inserting
     \/ step = "send" /\ Sending /\ Len(packets) < chunk_number
     \/ step = "done" /\ Sending /\ Len(packets) = chunk_number

LEMMA CutInit ==
  ASSUME C!ChunksAssumption, C!Init
  PROVE  CInv
<1>1. Given /\ page \in Nat /\ page > 0 /\ first_chunk \in Nat /\ CHUNK_SIZE \in Nat
  BY DEF C!Init, C!ChunksAssumption, Given
<1>2. Marks[0] = 0
  BY <1>1, MarksStep
<1>3. Turns = 0 /\ Fill(0) = 0 /\ seq \in Int
  BY <1>1, FillIs DEF C!Init, Turns
<1>4. chunk_total_sizes \in Seq(0 .. CHUNK_SIZE) /\ Len(chunk_total_sizes) = 2
  BY <1>1 DEF C!Init
<1>5. Measured
  BY <1>1, <1>2, <1>3, <1>4 DEF C!Init, Measured
<1> QED BY <1>1, <1>3, <1>5 DEF C!Init, CInv

(* Where nothing but what the measuring looks at changes. *)
LEMMA SameMarks ==
  ASSUME UNCHANGED <<page, first_chunk>>
  PROVE  Marks' = Marks /\ (\A k : Extra(k)' = Extra(k)) /\ Given' = Given
BY DEF Marks, Sums, Extra, Given

LEMMA PairOf ==
  ASSUME NEW S, NEW a \in S, NEW b \in S
  PROVE  <<a, b>> \in Seq(S) /\ Len(<<a, b>>) = 2
OBVIOUS

LEMMA MeasureStep ==
  ASSUME C!ChunksAssumption, CInv, C!Measure
  PROVE  CInv'
<1>k. PICK k : k = Turns
  OBVIOUS
<1> DEFINE extra == C!int_length(seq) + (IF total_size = 0 THEN 1 ELSE 2)
           room == CHUNK_SIZE - extra
           piece == IF page - payload_size < room THEN page - payload_size ELSE room
<1>1. Given /\ seq \in Int /\ Measured
  BY DEF CInv, C!Measure
<1>2. page \in Nat /\ page > 0 /\ first_chunk \in Nat /\ CHUNK_SIZE \in Nat
  BY <1>1 DEF C!ChunksAssumption, Given
<1>3. /\ k \in 0 .. page /\ k \in Nat /\ k \in 0 .. page + 1
      /\ seq = first_chunk + k /\ seq + 1 = first_chunk + (k + 1)
  BY <1>k, <1>1, <1>2 DEF Measured, Turns
<1>4. /\ k \in 0 .. payload_size /\ payload_size \in 0 .. page /\ total_size = payload_size + Marks[k]
      /\ (payload_size < page => total_size = Fill(k)) /\ (k = 0 => payload_size = 0)
      /\ (payload_size = page => total_size \in Fill(k - 1) + 1 .. Fill(k))
      /\ chunk_total_sizes \in Seq(0 .. CHUNK_SIZE) /\ Len(chunk_total_sizes) = 2
      /\ (k >= 1 => chunk_total_sizes[2] = total_size - Fill(k - 1) /\ Fill(k - 1) - Marks[k - 1] < page)
  BY <1>k, <1>1 DEF Measured
<1>5. /\ Marks[0] = 0 /\ Marks[k] \in Nat /\ Marks[k + 1] = Marks[k] + Extra(k) /\ Marks[k + 1] \in Nat
  BY <1>1, <1>3, MarksStep
<1>6. total_size \in Nat /\ (total_size = 0 <=> k = 0)
  BY <1>2, <1>4, <1>5
<1>7. extra = Extra(k) /\ Extra(k) \in 2 .. CHUNK_SIZE - 1
  BY <1>1, <1>3, <1>6, MarkerFits DEF Extra
<1>8. Fill(k) \in Nat /\ Fill(0) = 0 /\ Fill(k + 1) = Fill(k) + CHUNK_SIZE
  BY <1>2, <1>3, FillIs
<1>9. piece \in Nat /\ piece <= page - payload_size /\ Extra(k) + piece \in 1 .. CHUNK_SIZE
      /\ (piece = 0 <=> payload_size = page) /\ (piece < page - payload_size => piece = CHUNK_SIZE - Extra(k))
  BY <1>2, <1>4, <1>7
<1>10. /\ step = "measure"
       /\ chunk_total_sizes' = <<chunk_total_sizes[2], Extra(k) + piece>>
       /\ payload_size' = payload_size + piece
       /\ total_size' = total_size + (Extra(k) + piece)
       /\ UNCHANGED <<page, first_chunk, cut, packets>>
       /\ IF piece = 0
          THEN /\ step' = "insert" /\ chunk_number' = seq - first_chunk + 1 /\ seq' = seq
               /\ buffer' = buffer \o [i \in 1 .. total_size' - page |-> C!Unset]
          ELSE seq' = seq + 1 /\ UNCHANGED <<step, chunk_number, buffer>>
  BY <1>7 DEF C!Measure
<1> HIDE DEF piece, extra
<1>11. Given' /\ Marks' = Marks /\ (\A j : Extra(j)' = Extra(j)) /\ page' = page /\ first_chunk' = first_chunk
  BY <1>1, <1>10, SameMarks
<1>12. chunk_total_sizes[2] \in 0 .. CHUNK_SIZE
  <2>1. 2 \in 1 .. Len(chunk_total_sizes)
    BY <1>4
  <2> QED BY <1>4, <2>1, ElementOfSeq
<1>13. chunk_total_sizes' \in Seq(0 .. CHUNK_SIZE) /\ Len(chunk_total_sizes') = 2
  <2>1. Extra(k) + piece \in 0 .. CHUNK_SIZE
    BY <1>2, <1>9
  <2> QED BY <1>10, <1>12, <2>1, PairOf
<1>14. chunk_total_sizes'[1] = chunk_total_sizes[2] /\ chunk_total_sizes'[2] = Extra(k) + piece
  BY <1>10
<1>15. CASE piece # 0
  <2>1. seq' = seq + 1 /\ UNCHANGED <<step, chunk_number, buffer>> /\ Turns' = k + 1
    BY <1>2, <1>3, <1>10, <1>15 DEF Turns
  <2>2. payload_size < page /\ total_size = Fill(k)
    <3>1. payload_size # page
      BY <1>9, <1>15
    <3>2. payload_size < page
      BY <1>2, <1>4, <3>1
    <3> QED BY <1>4, <3>2
  <2>3. payload_size' \in 0 .. page /\ k + 1 \in 0 .. payload_size' /\ k + 1 # 0 /\ (k + 1) - 1 = k
    BY <1>2, <1>3, <1>4, <1>9, <1>10, <1>15
  <2>4. total_size' = payload_size' + Marks[k + 1]
    <3>1. /\ total_size \in Nat /\ payload_size \in Nat /\ piece \in Nat /\ Extra(k) \in Nat
          /\ Marks[k] \in Nat /\ total_size = payload_size + Marks[k] /\ Marks[k + 1] = Marks[k] + Extra(k)
          /\ payload_size' = payload_size + piece /\ total_size' = total_size + (Extra(k) + piece)
      BY <1>2, <1>4, <1>5, <1>6, <1>7, <1>9, <1>10
    <3> QED BY <3>1
  <2>5. payload_size' < page => total_size' = Fill(k + 1)
    BY <1>2, <1>4, <1>7, <1>8, <1>9, <1>10, <2>2
  <2>6. payload_size' = page => total_size' \in Fill(k) + 1 .. Fill(k + 1)
    <3>1. /\ Extra(k) + piece \in 1 .. CHUNK_SIZE /\ total_size' = Fill(k) + (Extra(k) + piece)
          /\ Fill(k) \in Nat /\ Fill(k + 1) = Fill(k) + CHUNK_SIZE
      BY <1>8, <1>9, <1>10, <2>2
    <3> QED BY <1>2, <3>1
  <2>7. chunk_total_sizes'[2] = total_size' - Fill(k)
    BY <1>7, <1>8, <1>9, <1>10, <1>14, <2>2
  <2>8. Fill(k) - Marks[k] < page
    BY <1>2, <1>4, <1>5, <2>2
  <2>9. k + 1 >= 2 => chunk_total_sizes'[1] = CHUNK_SIZE
    <3> SUFFICES ASSUME k >= 1 PROVE chunk_total_sizes[2] = CHUNK_SIZE
      BY <1>3, <1>14
    <3>1. Fill(k - 1) \in Nat /\ Fill((k - 1) + 1) = Fill(k - 1) + CHUNK_SIZE /\ (k - 1) + 1 = k
      BY <1>2, <1>3, FillIs
    <3> QED BY <1>2, <1>4, <2>2, <3>1
  <2>10. Measured'
    <3>1. \A j : Fill(j)' = Fill(j)
      BY DEF Fill
    <3>2. chunk_number' = 0 /\ cut' = <<>> /\ packets' = <<>> /\ buffer' = [i \in 1 .. page' |-> C!Byte(i)]
      BY <1>1, <1>10, <2>1 DEF Measured
    <3> QED BY <1>11, <1>13, <2>1, <2>3, <2>4, <2>5, <2>6, <2>7, <2>8, <2>9, <3>1, <3>2 DEF Measured
  <2>11. seq' \in Int
    BY <1>1, <2>1
  <2> QED BY <1>10, <1>11, <2>1, <2>10, <2>11 DEF CInv
<1>16. CASE piece = 0
  <2> DEFINE n == k + 1
  <2>1. /\ step' = "insert" /\ chunk_number' = n /\ seq' = seq /\ Turns' = k
        /\ buffer' = buffer \o [i \in 1 .. total_size' - page |-> C!Unset]
    <3>1. /\ step' = "insert" /\ chunk_number' = seq - first_chunk + 1 /\ seq' = seq
          /\ buffer' = buffer \o [i \in 1 .. total_size' - page |-> C!Unset] /\ first_chunk' = first_chunk
      BY <1>10, <1>16
    <3>2. seq - first_chunk + 1 = n /\ Turns' = k
      BY <1>2, <1>3, <3>1 DEF Turns
    <3> QED BY <3>1, <3>2
  <2>2. payload_size = page /\ payload_size' = page /\ total_size' = total_size + Extra(k)
    <3>1. payload_size = page
      BY <1>9, <1>16
    <3>2. payload_size' = payload_size + 0 /\ total_size' = total_size + (Extra(k) + 0)
      BY <1>10, <1>16
    <3>3. Extra(k) \in Nat /\ payload_size \in Nat
      BY <1>2, <1>4, <1>7
    <3> QED BY <3>1, <3>2, <3>3
  <2>3. k \in 1 .. page /\ n \in 2 .. page + 1 /\ n - 2 = k - 1 /\ n - 1 = k
    BY <1>2, <1>3, <1>4, <2>2
  <2>4. total_size' = page + Marks[n]
    BY <1>2, <1>4, <1>5, <1>7, <2>2
  <2>5. buffer' \in Seq(Cells) /\ Len(buffer') = page + Marks[n]
    <3>1. buffer = [i \in 1 .. page |-> C!Byte(i)]
      BY <1>1 DEF Measured
    <3>2. buffer \in [1 .. page -> Cells]
      BY <1>2, <3>1 DEF C!Byte, Cells
    <3>3. total_size' - page = Marks[n]
      BY <1>2, <1>5, <2>4
    <3>4. [i \in 1 .. Marks[n] |-> C!Unset] \in [1 .. Marks[n] -> Cells]
      BY DEF C!Unset, Cells
    <3>5. [i \in 1 .. Marks[n] |-> C!Unset] \in Seq(Cells) /\ Len([i \in 1 .. Marks[n] |-> C!Unset]) = Marks[n]
      BY <1>5, <3>4, FunctionIsSeq
    <3>6. buffer \in Seq(Cells) /\ Len(buffer) = page
      BY <1>2, <3>2, FunctionIsSeq
    <3>7. buffer' = buffer \o [i \in 1 .. Marks[n] |-> C!Unset]
      BY <2>1, <3>3
    <3>8. PICK unset : unset = [i \in 1 .. Marks[n] |-> C!Unset]
      OBVIOUS
    <3>9. unset \in Seq(Cells) /\ Len(unset) = Marks[n] /\ buffer' = buffer \o unset
      BY <3>5, <3>7, <3>8
    <3> HIDE DEF n
    <3>10. buffer \o unset \in Seq(Cells) /\ Len(buffer \o unset) = Len(buffer) + Len(unset)
      BY <3>6, <3>9, ConcatProperties
    <3> QED BY <3>6, <3>9, <3>10
  <2>6. \A i \in 1 .. page : buffer'[i] = C!Byte(i)
    <3>1. buffer = [i \in 1 .. page |-> C!Byte(i)]
      BY <1>1 DEF Measured
    <3>2. Len(buffer) = page /\ buffer \in Seq(Cells)
      <4>1. buffer \in [1 .. page -> Cells]
        BY <1>2, <3>1 DEF C!Byte, Cells
      <4> QED BY <1>2, <4>1, FunctionIsSeq
    <3>3. total_size' - page = Marks[n]
      BY <1>2, <1>5, <2>4
    <3>4. [i \in 1 .. Marks[n] |-> C!Unset] \in Seq(Cells)
      <4>1. [i \in 1 .. Marks[n] |-> C!Unset] \in [1 .. Marks[n] -> Cells]
        BY DEF C!Unset, Cells
      <4> QED BY <1>5, <4>1, FunctionIsSeq
    <3>5. buffer' = buffer \o [i \in 1 .. Marks[n] |-> C!Unset]
      BY <2>1, <3>3
    <3>6. \A i \in 1 .. page : buffer'[i] = buffer[i]
      BY <1>2, <3>2, <3>4, <3>5, ConcatProperties
    <3> QED BY <3>1, <3>6
  <2>7. Len(buffer') - Extra(k) = total_size /\ Len(buffer') \in Nat
    BY <1>2, <1>5, <1>6, <1>7, <2>2, <2>4, <2>5
  <2>8. \A j : Fill(j)' = Fill(j)
    BY DEF Fill
  <2>9. Laid'
    <3>1. Fill(k - 1) - Marks[k - 1] < page /\ total_size \in Fill(k - 1) + 1 .. Fill(k)
      BY <1>4, <2>2, <2>3
    <3>2. chunk_number' - 2 = k - 1 /\ chunk_number' - 1 = k
      BY <2>1, <2>3
    <3> QED BY <1>11, <2>1, <2>3, <2>5, <2>7, <2>8, <3>1, <3>2 DEF Laid
  <2>10. Start(k + 1)' = total_size' /\ Start(k)' = total_size /\ (k >= 1 => Start(k - 1)' = Fill(k - 1))
    <3>1. ~ (n <= n - 2) /\ n # n - 1 /\ ~ (k <= n - 2) /\ k = n - 1 /\ k - 1 <= n - 2
      BY <2>3
    <3> QED BY <1>11, <2>1, <2>4, <2>5, <2>7, <2>8, <3>1 DEF Start
  <2>11. Ahead(k + 1)' = page
    <3>1. Ahead(k + 1)' = total_size' - Marks[k + 1]
      BY <1>11, <2>10 DEF Ahead
    <3> QED BY <1>2, <1>5, <2>4, <3>1
  <2>12. Inserting'
    <3>1. Turns' \in 0 .. chunk_number' - 1 /\ Turns' + 1 = k + 1 /\ Turns' + 1 .. chunk_number' - 1 = {}
      BY <2>1, <2>3
    <3>2. chunk_total_sizes'[2] = total_size' - total_size
      BY <1>6, <1>7, <1>14, <1>16, <2>2
    <3>3. k >= 1 => chunk_total_sizes'[1] = total_size - Fill(k - 1)
      BY <1>4, <1>14
    <3>4. cut' = <<>> /\ packets' = <<>>
      BY <1>1, <1>10 DEF Measured
    <3> QED BY <1>13, <2>1, <2>2, <2>6, <2>9, <2>10, <2>11, <3>1, <3>2, <3>3, <3>4 DEF Inserting
  <2> QED BY <1>1, <1>11, <2>1, <2>12 DEF CInv
<1> QED BY <1>15, <1>16

------------------------------------------------------------------------------
(* The layout, once it is made.                                            *)

(* What grows from each chunk to the next grows from the first to the last. *)
LEMMA GrowsUpTo ==
  ASSUME NEW n \in Nat, NEW f, \A k \in 0 .. n : f[k] \in Int, \A k \in 0 .. n - 1 : f[k] <= f[k + 1],
         NEW i \in 0 .. n, NEW j \in i .. n
  PROVE  f[i] <= f[j]
<1> DEFINE Good == {d \in Nat : i + d \in 0 .. n => f[i] <= f[i + d]}
<1>1. 0 \in Good
  OBVIOUS
<1>2. ASSUME NEW d \in 0 .. (j - i) - 1, d \in Good PROVE d + 1 \in Good
  <2>1. i + d \in 0 .. n - 1 /\ i + d \in 0 .. n /\ i + (d + 1) = (i + d) + 1 /\ i + (d + 1) \in 0 .. n /\ d + 1 \in Nat
    OBVIOUS
  <2>2. f[i] <= f[i + d] /\ f[i + d] <= f[i + (d + 1)]
    BY <1>2, <2>1
  <2>3. f[i] \in Int /\ f[i + d] \in Int /\ f[i + (d + 1)] \in Int
    BY <2>1
  <2> QED BY <2>1, <2>2, <2>3
<1>3. Good \in SUBSET Nat /\ j - i \in Nat /\ i + (j - i) = j /\ j \in 0 .. n
  OBVIOUS
<1>4. j - i \in Good
  <2> HIDE DEF Good
  <2> QED BY <1>1, <1>2, <1>3, InductionUpTo
<1> QED BY <1>3, <1>4

(* Each chunk is its marker and its piece of the page, and has its size. *)
LEMMA ChunkIs ==
  ASSUME C!ChunksAssumption, Given, Laid, NEW k \in 0 .. chunk_number - 1
  PROVE  /\ Extra(k) \in 2 .. CHUNK_SIZE - 1 /\ Start(k) \in Int /\ Start(k + 1) \in Int
         /\ Ahead(k) \in Int /\ Ahead(k + 1) \in Int
         /\ Start(k + 1) - Start(k) \in Extra(k) .. CHUNK_SIZE
         /\ Ahead(k + 1) - Ahead(k) = (Start(k + 1) - Start(k)) - Extra(k)
         /\ k < chunk_number - 1 => Ahead(k) < Ahead(k + 1)
         /\ k <= chunk_number - 3 => Start(k + 1) - Start(k) = CHUNK_SIZE
<1> DEFINE n == chunk_number
<1>1. n \in 2 .. page + 1 /\ page \in Nat /\ CHUNK_SIZE \in Nat /\ Len(buffer) \in Nat
  BY DEF Laid, C!ChunksAssumption, Given
<1>2. k \in 0 .. page /\ k \in 0 .. page + 1 /\ k \in Nat
  BY <1>1
<1>3. Extra(k) \in 2 .. CHUNK_SIZE - 1
  BY <1>2, MarkerFits
<1>4. Marks[k] \in Nat /\ Marks[k + 1] = Marks[k] + Extra(k) /\ Marks[k + 1] \in Nat
  BY <1>2, MarksStep
<1>5. Fill(k) \in Nat /\ Fill(k + 1) = Fill(k) + CHUNK_SIZE
  BY <1>1, <1>2, FillIs
<1>6. CASE k <= n - 3
  <2>1. k <= n - 2 /\ k + 1 <= n - 2
    BY <1>1, <1>2, <1>6
  <2>2. Start(k) = Fill(k) /\ Start(k + 1) = Fill(k + 1)
    BY <2>1 DEF Start
  <2>3. Ahead(k) = Fill(k) - Marks[k] /\ Ahead(k + 1) = Fill(k + 1) - Marks[k + 1]
    BY <2>2 DEF Ahead
  <2>4. Ahead(k + 1) - Ahead(k) = CHUNK_SIZE - Extra(k) /\ Start(k + 1) - Start(k) = CHUNK_SIZE
    BY <1>1, <1>3, <1>4, <1>5, <2>2, <2>3
  <2>5. Start(k) \in Int /\ Start(k + 1) \in Int /\ Ahead(k) \in Int /\ Ahead(k + 1) \in Int
    BY <1>1, <1>4, <1>5, <2>2, <2>3
  <2>6. Ahead(k) < Ahead(k + 1) /\ CHUNK_SIZE \in Extra(k) .. CHUNK_SIZE
    BY <1>1, <1>3, <2>4, <2>5
  <2> QED BY <1>3, <2>4, <2>5, <2>6
<1>7. CASE k = n - 2
  <2>1. k <= n - 2 /\ ~ (k + 1 <= n - 2) /\ k + 1 = n - 1 /\ n - 1 = k + 1 /\ n = (k + 1) + 1
    BY <1>1, <1>2, <1>7
  <2>2. Start(k) = Fill(k) /\ Start(k + 1) = Len(buffer) - Extra(k + 1)
    BY <2>1 DEF Start
  <2>3. /\ Fill(k) - Marks[k] < page /\ Len(buffer) - Extra(k + 1) \in Fill(k) + 1 .. Fill(k + 1)
        /\ Len(buffer) = page + Marks[(k + 1) + 1]
    BY <1>7, <2>1 DEF Laid
  <2>4. Marks[(k + 1) + 1] = Marks[k + 1] + Extra(k + 1) /\ Extra(k + 1) \in Nat
    <3>1. k + 1 \in 0 .. page + 1 /\ k + 1 \in 0 .. page
      BY <1>1, <2>1
    <3>2. Extra(k + 1) \in Nat
      BY <1>1, <3>1, MarkerFits
    <3> QED BY <3>1, <3>2, MarksStep
  <2>5. Ahead(k) = Fill(k) - Marks[k] /\ Ahead(k + 1) = Start(k + 1) - Marks[k + 1]
    BY <2>2 DEF Ahead
  <2>6. Ahead(k + 1) = page
    BY <1>1, <1>4, <2>2, <2>3, <2>4, <2>5
  <2>7. Start(k + 1) \in Fill(k) + 1 .. Fill(k) + CHUNK_SIZE
    BY <1>5, <2>2, <2>3
  <2>8. Ahead(k) < Ahead(k + 1)
    BY <2>3, <2>5, <2>6
  <2>9. Start(k + 1) - Start(k) >= Extra(k)
    BY <1>1, <1>3, <1>4, <1>5, <2>2, <2>5, <2>7, <2>8
  <2>10. ~ (k <= n - 3)
    BY <1>1, <1>7
  <2> HIDE DEF n
  <2>11. Start(k + 1) - Start(k) \in Extra(k) .. CHUNK_SIZE
    BY <1>1, <1>3, <1>5, <2>2, <2>7, <2>9
  <2>12. Ahead(k + 1) - Ahead(k) = (Start(k + 1) - Start(k)) - Extra(k)
    BY <1>3, <1>4, <1>5, <2>2, <2>5, <2>7
  <2>13. Start(k) \in Int /\ Start(k + 1) \in Int /\ Ahead(k) \in Int /\ Ahead(k + 1) \in Int
    BY <1>1, <1>4, <1>5, <2>2, <2>5, <2>6, <2>7
  <2> QED BY <1>3, <2>8, <2>10, <2>11, <2>12, <2>13 DEF n
<1>8. CASE k = n - 1
  <2>1. ~ (k <= n - 2) /\ k = n - 1 /\ ~ (k + 1 <= n - 2) /\ k + 1 # n - 1 /\ k + 1 = n /\ ~ (k < n - 1) /\ ~ (k <= n - 3)
    BY <1>1, <1>2, <1>8
  <2>2. Start(k) = Len(buffer) - Extra(k) /\ Start(k + 1) = Len(buffer)
    BY <2>1 DEF Start
  <2>3. Ahead(k) = Start(k) - Marks[k] /\ Ahead(k + 1) = Start(k + 1) - Marks[k + 1]
    BY DEF Ahead
  <2>4. Start(k + 1) - Start(k) = Extra(k)
    BY <1>1, <1>3, <2>2
  <2>5. Extra(k) \in Extra(k) .. CHUNK_SIZE
    BY <1>1, <1>3
  <2>6. Start(k) \in Int /\ Start(k + 1) \in Int /\ Ahead(k) \in Int /\ Ahead(k + 1) \in Int
    BY <1>1, <1>3, <1>4, <2>2, <2>3
  <2>7. Ahead(k + 1) - Ahead(k) = (Start(k + 1) - Start(k)) - Extra(k)
    BY <1>1, <1>3, <1>4, <2>2, <2>3
  <2> QED BY <1>3, <2>1, <2>4, <2>5, <2>6, <2>7
<1> QED BY <1>1, <1>2, <1>6, <1>7, <1>8

LEMMA LayoutIs ==
  ASSUME C!ChunksAssumption, Given, Laid
  PROVE  /\ chunk_number \in Nat /\ chunk_number >= 2 /\ page \in Nat
         /\ Start(0) = 0 /\ Start(chunk_number) = Len(buffer)
         /\ Ahead(0) = 0 /\ Ahead(chunk_number - 1) = page /\ Ahead(chunk_number) = page
         /\ \A j \in 0 .. chunk_number : /\ Start(j) \in 0 .. Len(buffer) /\ Ahead(j) \in 0 .. page
                                         /\ Ahead(j) <= Start(j)
         /\ \A j \in 0 .. chunk_number : \A i \in 0 .. j : Start(i) <= Start(j) /\ Ahead(i) <= Ahead(j)
<1> DEFINE n == chunk_number
<1>1. /\ n \in 2 .. page + 1 /\ page \in Nat /\ CHUNK_SIZE \in Nat /\ Len(buffer) \in Nat
      /\ Len(buffer) = page + Marks[n]
  BY DEF Laid, C!ChunksAssumption, Given
<1>2. Marks[0] = 0 /\ Marks[n - 1] \in Nat /\ Marks[n] = Marks[n - 1] + Extra(n - 1) /\ Marks[n] \in Nat
  <2>1. n - 1 \in 0 .. page + 1 /\ (n - 1) + 1 = n
    BY <1>1
  <2> HIDE DEF n
  <2> QED BY <2>1, MarksStep
<1>3. Start(0) = 0 /\ Start(n) = Len(buffer) /\ Start(n - 1) = Len(buffer) - Extra(n - 1)
  <2>1. 0 <= n - 2 /\ ~ (n <= n - 2) /\ n # n - 1 /\ ~ (n - 1 <= n - 2)
    BY <1>1
  <2>2. Fill(0) = 0
    BY <1>1, FillIs
  <2> QED BY <2>1, <2>2 DEF Start
<1>4. Extra(n - 1) \in Nat
  <2>1. n - 1 \in 0 .. page
    BY <1>1
  <2> QED BY <1>1, <2>1, MarkerFits
<1>5. Ahead(0) = 0 /\ Ahead(n - 1) = page /\ Ahead(n) = page
  <2>1. Ahead(0) = Start(0) - Marks[0] /\ Ahead(n - 1) = Start(n - 1) - Marks[n - 1] /\ Ahead(n) = Start(n) - Marks[n]
    BY DEF Ahead
  <2> HIDE DEF n
  <2>2. /\ Start(0) - Marks[0] = 0 /\ Start(n - 1) - Marks[n - 1] = page /\ Start(n) - Marks[n] = page
    BY <1>1, <1>2, <1>3, <1>4
  <2> QED BY <2>1, <2>2
<1>6. ASSUME NEW k \in 0 .. n - 1
      PROVE  /\ Start(k) \in Int /\ Start(k + 1) \in Int /\ Start(k) <= Start(k + 1)
             /\ Ahead(k) \in Int /\ Ahead(k + 1) \in Int /\ Ahead(k) <= Ahead(k + 1)
  <2>1. /\ Extra(k) \in 2 .. CHUNK_SIZE - 1 /\ Start(k) \in Int /\ Start(k + 1) \in Int
        /\ Ahead(k) \in Int /\ Ahead(k + 1) \in Int
        /\ Start(k + 1) - Start(k) \in Extra(k) .. CHUNK_SIZE
        /\ Ahead(k + 1) - Ahead(k) = (Start(k + 1) - Start(k)) - Extra(k)
    BY ChunkIs
  <2> QED BY <1>1, <2>1
<1>7. ASSUME NEW k \in 0 .. n PROVE Start(k) \in Int /\ Ahead(k) \in Int
  <2>1. k \in 0 .. n - 1 \/ k = n
    BY <1>1
  <2> QED BY <1>1, <1>3, <1>5, <1>6, <2>1
<1> HIDE DEF n
<1>8. ASSUME NEW j \in 0 .. n, NEW i \in 0 .. j PROVE Start(i) <= Start(j) /\ Ahead(i) <= Ahead(j)
  <2> DEFINE f == [k \in 0 .. n |-> Start(k)]
             g == [k \in 0 .. n |-> Ahead(k)]
  <2>1. n \in Nat /\ i \in 0 .. n /\ j \in i .. n
    BY <1>1
  <2>2. \A k \in 0 .. n : f[k] = Start(k) /\ g[k] = Ahead(k)
    OBVIOUS
  <2> HIDE DEF f, g
  <2>3. \A k \in 0 .. n : f[k] \in Int /\ g[k] \in Int
    BY <1>7, <2>2
  <2>4. \A k \in 0 .. n - 1 : f[k] <= f[k + 1] /\ g[k] <= g[k + 1]
    <3> SUFFICES ASSUME NEW k \in 0 .. n - 1 PROVE f[k] <= f[k + 1] /\ g[k] <= g[k + 1]
      OBVIOUS
    <3>1. k \in 0 .. n /\ k + 1 \in 0 .. n
      BY <2>1
    <3> QED BY <1>6, <2>2, <3>1
  <2>5. f[i] <= f[j]
    BY <2>1, <2>3, <2>4, GrowsUpTo
  <2>6. g[i] <= g[j]
    BY <2>1, <2>3, <2>4, GrowsUpTo
  <2> QED BY <2>1, <2>2, <2>5, <2>6
<1>9. ASSUME NEW j \in 0 .. n PROVE Start(j) \in 0 .. Len(buffer) /\ Ahead(j) \in 0 .. page /\ Ahead(j) <= Start(j)
  <2>1. 0 \in 0 .. j /\ j \in 0 .. n /\ n \in 0 .. n
    BY <1>1
  <2>2. Start(0) <= Start(j) /\ Start(j) <= Start(n) /\ Ahead(0) <= Ahead(j) /\ Ahead(j) <= Ahead(n)
    BY <1>8, <2>1
  <2>3. Marks[j] \in Nat
    <3>1. j \in 0 .. page + 1
      BY <1>1
    <3> QED BY <3>1, MarksStep
  <2>4. Ahead(j) = Start(j) - Marks[j]
    BY DEF Ahead
  <2> QED BY <1>1, <1>3, <1>5, <1>7, <2>2, <2>3, <2>4
<1> QED BY <1>1, <1>3, <1>5, <1>8, <1>9 DEF n

(* Where the layout stays. *)
LEMMA SameLayout ==
  ASSUME UNCHANGED <<page, first_chunk, chunk_number>>, Len(buffer') = Len(buffer)
  PROVE  /\ Marks' = Marks /\ Given' = Given
         /\ \A k : Extra(k)' = Extra(k) /\ Start(k)' = Start(k) /\ Ahead(k)' = Ahead(k)
         /\ Laid /\ buffer' \in Seq(Cells) => Laid'
<1>1. Marks' = Marks /\ Given' = Given
  BY SameMarks
<1>2. \A k : Extra(k)' = Extra(k)
  BY SameMarks
<1>3. \A k : Fill(k)' = Fill(k)
  BY DEF Fill
<1>4. \A k : Start(k)' = Start(k)
  BY <1>2, <1>3 DEF Start
<1>5. \A k : Ahead(k)' = Ahead(k)
  BY <1>1, <1>4 DEF Ahead
<1>6. ASSUME Laid, buffer' \in Seq(Cells) PROVE Laid'
  BY <1>1, <1>2, <1>3, <1>6 DEF Laid
<1> QED BY <1>1, <1>2, <1>4, <1>5, <1>6
(* What moving n bytes and writing s in front of them leaves. *)
Moved(r, b, s, at, from, n) ==
  /\ Len(r) = Len(b)
  /\ \A i \in 1 .. at : r[i] = b[i]
  /\ \A i \in 1 .. Len(s) : r[at + i] = s[i]
  /\ \A i \in 1 .. n : r[at + Len(s) + i] = b[from + i]
  /\ \A i \in at + Len(s) + n + 1 .. Len(b) : r[i] = b[i]

LEMMA MovedIs ==
  ASSUME NEW S, NEW b \in Seq(S), NEW s \in Seq(S), NEW at \in Nat, NEW from \in Nat, NEW n \in Nat,
         at + Len(s) + n <= Len(b), from + n <= Len(b)
  PROVE  LET r == C!memcpy(C!memmove(b, at + Len(s), from, n), at, s)
         IN  r \in Seq(S) /\ Moved(r, b, s, at, from, n)
<1> DEFINE m == C!memmove(b, at + Len(s), from, n)
           r == C!memcpy(m, at, s)
<1>1. DOMAIN b = 1 .. Len(b) /\ Len(b) \in Nat /\ Len(s) \in Nat /\ \A i \in 1 .. Len(b) : b[i] \in S
  BY ElementOfSeq
<1>2. \A i \in 1 .. Len(s) : s[i] \in S
  BY ElementOfSeq
<1>3. DOMAIN m = 1 .. Len(b)
  BY <1>1 DEF C!memmove
<1>4. \A i \in 1 .. Len(b) :
        m[i] = IF i \in (at + Len(s)) + 1 .. (at + Len(s)) + n THEN b[i - (at + Len(s)) + from] ELSE b[i]
  BY <1>1 DEF C!memmove
<1>5. \A i \in 1 .. Len(b) : m[i] \in S
  <2> SUFFICES ASSUME NEW i \in 1 .. Len(b) PROVE m[i] \in S
    OBVIOUS
  <2>1. i \in (at + Len(s)) + 1 .. (at + Len(s)) + n => i - (at + Len(s)) + from \in 1 .. Len(b)
    BY <1>1
  <2> QED BY <1>1, <1>4, <2>1
<1> HIDE DEF m
<1>6. /\ DOMAIN r = 1 .. Len(b)
      /\ \A i \in 1 .. Len(b) : r[i] = IF i \in at + 1 .. at + Len(s) THEN s[i - at] ELSE m[i]
      /\ r = [i \in 1 .. Len(b) |-> IF i \in at + 1 .. at + Len(s) THEN s[i - at] ELSE m[i]]
  BY <1>3 DEF C!memcpy
<1> HIDE DEF r
<1>7. r \in Seq(S) /\ Len(r) = Len(b)
  <2>1. ASSUME NEW i \in 1 .. Len(b)
        PROVE  (IF i \in at + 1 .. at + Len(s) THEN s[i - at] ELSE m[i]) \in S
    <3>1. i \in at + 1 .. at + Len(s) => i - at \in 1 .. Len(s)
      BY <1>1
    <3> QED BY <1>2, <1>5, <3>1
  <2>2. r \in [1 .. Len(b) -> S]
    BY <1>6, <2>1
  <2> QED BY <1>1, <2>2, FunctionIsSeq
<1>8. ASSUME NEW i \in 1 .. at PROVE r[i] = b[i]
  <2>1. i \in 1 .. Len(b) /\ i \notin at + 1 .. at + Len(s) /\ i \notin (at + Len(s)) + 1 .. (at + Len(s)) + n
    BY <1>1
  <2> QED BY <1>4, <1>6, <2>1
<1>9. ASSUME NEW i \in 1 .. Len(s) PROVE r[at + i] = s[i]
  <2>1. at + i \in 1 .. Len(b) /\ at + i \in at + 1 .. at + Len(s) /\ (at + i) - at = i
    BY <1>1
  <2> QED BY <1>6, <2>1
<1>10. ASSUME NEW i \in 1 .. n PROVE r[at + Len(s) + i] = b[from + i]
  <2>1. /\ at + Len(s) + i \in 1 .. Len(b) /\ at + Len(s) + i \notin at + 1 .. at + Len(s)
        /\ at + Len(s) + i \in (at + Len(s)) + 1 .. (at + Len(s)) + n
        /\ (at + Len(s) + i) - (at + Len(s)) + from = from + i
    BY <1>1
  <2> QED BY <1>4, <1>6, <2>1
<1>11. ASSUME NEW i \in at + Len(s) + n + 1 .. Len(b) PROVE r[i] = b[i]
  <2>1. i \in 1 .. Len(b) /\ i \notin at + 1 .. at + Len(s) /\ i \notin (at + Len(s)) + 1 .. (at + Len(s)) + n
    BY <1>1
  <2> QED BY <1>4, <1>6, <2>1
<1> QED BY <1>7, <1>8, <1>9, <1>10, <1>11 DEF Moved, r, m

LEMMA InsertStep ==
  ASSUME C!ChunksAssumption, CInv, C!Insert
  PROVE  CInv'
<1>k. PICK k : k = Turns
  OBVIOUS
<1>n. PICK n : n = chunk_number
  OBVIOUS
<1> DEFINE piece == chunk_total_sizes[2] - Len(C!extra(seq))
<1>1. Given /\ seq \in Int /\ Inserting /\ Laid
  BY DEF CInv, C!Insert, Inserting
<1>2. /\ page \in Nat /\ first_chunk \in Nat /\ CHUNK_SIZE \in Nat /\ n \in 2 .. page + 1
      /\ buffer \in Seq(Cells) /\ Len(buffer) \in Nat
  BY <1>n, <1>1 DEF C!ChunksAssumption, Given, Laid
<1>3. /\ k \in 0 .. n - 1 /\ k \in 0 .. page /\ seq = first_chunk + k
      /\ k \in 0 .. n /\ k + 1 \in 0 .. n /\ k \in 0 .. k + 1
  <2>1. k \in 0 .. n - 1
    BY <1>k, <1>n, <1>1 DEF Inserting
  <2>2. k = seq - first_chunk
    BY <1>k DEF Turns
  <2>3. seq = first_chunk + k
    BY <1>1, <1>2, <2>1, <2>2
  <2>4. k \in 0 .. page /\ k \in 0 .. n /\ k + 1 \in 0 .. n /\ k \in 0 .. k + 1
    BY <1>2, <2>1
  <2> QED BY <2>1, <2>3, <2>4
<1>4. /\ total_size = Start(k + 1) /\ payload_size = Ahead(k + 1)
      /\ chunk_total_sizes \in Seq(0 .. CHUNK_SIZE) /\ Len(chunk_total_sizes) = 2
      /\ chunk_total_sizes[2] = Start(k + 1) - Start(k)
      /\ (k >= 1 => chunk_total_sizes[1] = Start(k) - Start(k - 1))
      /\ (\A i \in 1 .. payload_size : buffer[i] = C!Byte(i))
      /\ (\A j \in k + 1 .. n - 1 : Placed(j))
      /\ cut = <<>> /\ packets = <<>>
  BY <1>k, <1>n, <1>1 DEF Inserting
<1>5. /\ Extra(k) \in 2 .. CHUNK_SIZE - 1 /\ Start(k) \in Int /\ Start(k + 1) \in Int
      /\ Ahead(k) \in Int /\ Ahead(k + 1) \in Int
      /\ Start(k + 1) - Start(k) \in Extra(k) .. CHUNK_SIZE
      /\ Ahead(k + 1) - Ahead(k) = (Start(k + 1) - Start(k)) - Extra(k)
  BY <1>n, <1>1, <1>3, ChunkIs
<1>6. /\ Start(k) \in 0 .. Len(buffer) /\ Start(k + 1) \in 0 .. Len(buffer)
      /\ Ahead(k) \in 0 .. page /\ Ahead(k + 1) \in 0 .. page
      /\ Ahead(k) <= Start(k) /\ Ahead(k + 1) <= Start(k + 1) /\ Start(0) = 0 /\ Ahead(0) = 0
  BY <1>n, <1>1, <1>3, LayoutIs
<1>7. /\ C!extra(seq) \in Seq([marker : Nat, at : Nat]) /\ Len(C!extra(seq)) = Extra(k)
      /\ \A i \in 1 .. Extra(k) : C!extra(seq)[i] = [marker |-> first_chunk + k, at |-> i]
  BY <1>1, <1>3, MarkerFits
<1>8. piece = Ahead(k + 1) - Ahead(k) /\ piece \in Nat
  BY <1>4, <1>5, <1>7
<1>9. total_size' = Start(k) /\ payload_size' = Ahead(k) /\ chunk_total_sizes' = <<CHUNK_SIZE, chunk_total_sizes[1]>>
      /\ UNCHANGED <<page, first_chunk, chunk_number, packets>>
      /\ buffer' = C!memcpy(C!memmove(buffer, Start(k) + Len(C!extra(seq)), Ahead(k), piece), Start(k), C!extra(seq))
  <2>1. /\ total_size' = total_size - chunk_total_sizes[2] /\ payload_size' = payload_size - piece
        /\ chunk_total_sizes' = <<CHUNK_SIZE, chunk_total_sizes[1]>>
        /\ UNCHANGED <<page, first_chunk, chunk_number, packets>>
        /\ buffer' = C!memcpy(C!memmove(buffer, total_size' + Len(C!extra(seq)), payload_size', piece), total_size', C!extra(seq))
    BY DEF C!Insert
  <2>2. total_size' = Start(k)
    BY <1>4, <1>5, <2>1
  <2>3. payload_size' = Ahead(k)
    BY <1>4, <1>5, <1>8, <2>1
  <2> QED BY <2>1, <2>2, <2>3
<1>10. IF seq = first_chunk
       THEN step' = "send" /\ cut' = buffer' /\ seq' = seq
       ELSE step' = "insert" /\ cut' = cut /\ seq' = seq - 1
  BY DEF C!Insert
<1> HIDE DEF piece
<1>11. buffer' \in Seq(Cells) /\ Moved(buffer', buffer, C!extra(seq), Start(k), Ahead(k), piece)
  <2>1. C!extra(seq) \in Seq(Cells)
    BY <1>7 DEF Cells
  <2>2. Start(k) \in Nat /\ Ahead(k) \in Nat
    BY <1>6
  <2>3. Start(k) + Len(C!extra(seq)) + piece <= Len(buffer) /\ Ahead(k) + piece <= Len(buffer)
    <3>1. Extra(k) \in Nat /\ Len(C!extra(seq)) = Extra(k)
      BY <1>2, <1>5, <1>7
    <3>2. Start(k) + Extra(k) + piece = Start(k + 1)
      BY <1>5, <1>8, <3>1
    <3>3. Ahead(k) + piece = Ahead(k + 1)
      BY <1>5, <1>8
    <3>4. Ahead(k + 1) <= Len(buffer) /\ Start(k + 1) <= Len(buffer)
      BY <1>2, <1>5, <1>6
    <3> QED BY <3>1, <3>2, <3>3, <3>4
  <2> QED BY <1>2, <1>8, <1>9, <2>1, <2>2, <2>3, MovedIs
<1>12. /\ Len(buffer') = Len(buffer)
       /\ (\A i \in 1 .. Start(k) : buffer'[i] = buffer[i])
       /\ (\A i \in 1 .. Extra(k) : buffer'[Start(k) + i] = C!extra(seq)[i])
       /\ (\A i \in 1 .. piece : buffer'[Start(k) + Extra(k) + i] = buffer[Ahead(k) + i])
       /\ (\A i \in Start(k) + Extra(k) + piece + 1 .. Len(buffer) : buffer'[i] = buffer[i])
  BY <1>7, <1>11 DEF Moved
<1>13. /\ Given' /\ Laid' /\ \A j : Extra(j)' = Extra(j) /\ Start(j)' = Start(j) /\ Ahead(j)' = Ahead(j)
  BY <1>1, <1>9, <1>11, <1>12, SameLayout
<1>14. \A i \in 1 .. Ahead(k) : buffer'[i] = C!Byte(i)
  <2> SUFFICES ASSUME NEW i \in 1 .. Ahead(k) PROVE buffer'[i] = C!Byte(i)
    OBVIOUS
  <2>1. i \in 1 .. Start(k) /\ i \in 1 .. payload_size
    BY <1>4, <1>6, <1>8
  <2> QED BY <1>4, <1>12, <2>1
<1>15. /\ \A i \in 1 .. Extra(k) : buffer'[Start(k) + i] = [marker |-> first_chunk + k, at |-> i]
       /\ \A i \in 1 .. Ahead(k + 1) - Ahead(k) : buffer'[Start(k) + Extra(k) + i] = C!Byte(Ahead(k) + i)
  <2>1. ASSUME NEW i \in 1 .. Ahead(k + 1) - Ahead(k)
        PROVE  buffer'[Start(k) + Extra(k) + i] = C!Byte(Ahead(k) + i)
    <3>1. i \in 1 .. piece /\ Ahead(k) + i \in 1 .. payload_size
      BY <1>4, <1>6, <1>8
    <3> QED BY <1>4, <1>12, <3>1
  <2> QED BY <1>7, <1>12, <2>1
<1>16. ASSUME NEW j \in k + 1 .. n - 1
       PROVE  /\ \A i \in 1 .. Extra(j) : buffer'[Start(j) + i] = [marker |-> first_chunk + j, at |-> i]
              /\ \A i \in 1 .. Ahead(j + 1) - Ahead(j) : buffer'[Start(j) + Extra(j) + i] = C!Byte(Ahead(j) + i)
  <2>1. j \in 0 .. n - 1 /\ j \in 0 .. n /\ j + 1 \in 0 .. n /\ k + 1 \in 0 .. j
    BY <1>2, <1>3
  <2>2. /\ Extra(j) \in 2 .. CHUNK_SIZE - 1
        /\ Ahead(j + 1) - Ahead(j) = (Start(j + 1) - Start(j)) - Extra(j)
    BY <1>n, <1>1, <2>1, ChunkIs
  <2>3. Start(j) \in 0 .. Len(buffer) /\ Start(j + 1) \in 0 .. Len(buffer) /\ Start(k + 1) <= Start(j)
        /\ Ahead(j) \in 0 .. page /\ Ahead(j + 1) \in 0 .. page
    BY <1>n, <1>1, <2>1, LayoutIs
  <2>4. Start(k) + Extra(k) + piece = Start(k + 1)
    BY <1>5, <1>8
  <2>5. Placed(j)
    BY <1>4
  <2>6. ASSUME NEW i \in 1 .. Extra(j) PROVE buffer'[Start(j) + i] = [marker |-> first_chunk + j, at |-> i]
    <3>1. Extra(j) \in Nat
      BY <1>2, <2>2
    <3>2. Extra(j) <= Start(j + 1) - Start(j)
      BY <1>n, <1>1, <2>1, ChunkIs
    <3>3. Start(j) + i \in Start(k + 1) + 1 .. Len(buffer)
      BY <1>2, <1>6, <2>3, <3>1, <3>2
    <3> QED BY <1>12, <2>4, <2>5, <3>3 DEF Placed
  <2>7. ASSUME NEW i \in 1 .. Ahead(j + 1) - Ahead(j) PROVE buffer'[Start(j) + Extra(j) + i] = C!Byte(Ahead(j) + i)
    <3>1. Extra(j) \in Nat
      BY <1>2, <2>2
    <3>2. Start(j) + Extra(j) + i \in Start(k + 1) + 1 .. Len(buffer)
      <4>1. Extra(j) + (Ahead(j + 1) - Ahead(j)) = Start(j + 1) - Start(j)
        BY <2>2, <2>3, <3>1
      <4>2. i \in Nat /\ i >= 1 /\ i <= Ahead(j + 1) - Ahead(j)
        BY <2>3
      <4>3. Start(j) + Extra(j) + i <= Start(j + 1)
        BY <2>3, <3>1, <4>1, <4>2
      <4>4. Start(j) + Extra(j) + i \in Int /\ Start(j) + Extra(j) + i >= Start(k + 1) + 1
        BY <1>6, <2>3, <3>1, <4>2
      <4> QED BY <1>2, <1>6, <2>3, <4>3, <4>4
    <3> QED BY <1>12, <2>4, <2>5, <3>2 DEF Placed
  <2> QED BY <2>6, <2>7
<1>17. \A j \in k .. n - 1 : Placed(j)'
  <2> SUFFICES ASSUME NEW j \in k .. n - 1 PROVE Placed(j)'
    OBVIOUS
  <2>1. j = k \/ j \in k + 1 .. n - 1
    BY <1>2, <1>3
  <2>2. first_chunk' = first_chunk
    BY <1>9
  <2>3. /\ Extra(j)' = Extra(j) /\ Start(j)' = Start(j) /\ Ahead(j)' = Ahead(j)
        /\ Ahead(j + 1)' = Ahead(j + 1)
    BY <1>13
  <2> QED BY <1>15, <1>16, <2>1, <2>2, <2>3 DEF Placed
<1>18. chunk_total_sizes[1] \in 0 .. CHUNK_SIZE /\ CHUNK_SIZE \in 0 .. CHUNK_SIZE
  <2>1. 1 \in 1 .. Len(chunk_total_sizes)
    BY <1>4
  <2>2. chunk_total_sizes[1] \in 0 .. CHUNK_SIZE
    BY <1>4, <2>1, ElementOfSeq
  <2> QED BY <1>2, <2>2
<1>19. /\ chunk_total_sizes' \in Seq(0 .. CHUNK_SIZE) /\ Len(chunk_total_sizes') = 2
       /\ chunk_total_sizes'[1] = CHUNK_SIZE /\ chunk_total_sizes'[2] = chunk_total_sizes[1]
  BY <1>9, <1>18, PairOf
<1>20. CASE k = 0
  <2>1. step' = "send" /\ cut' = buffer' /\ seq' = seq /\ Turns' = 0
    <3>1. seq = first_chunk
      BY <1>2, <1>3, <1>20
    <3> QED BY <1>2, <1>9, <1>10, <3>1 DEF Turns
  <2>2. packets' = <<>> /\ Len(packets') = 0 /\ packets' \in Seq(Seq(Cells)) /\ chunk_number' = n
    BY <1>n, <1>4, <1>9
  <2>3. cut' = SubSeq(buffer', Start(Len(packets))' + 1, Len(buffer'))
    <3>1. Start(0)' = 0
      BY <1>6, <1>13
    <3>2. buffer' = SubSeq(buffer', 1, Len(buffer'))
      BY <1>11, SubSeqFull
    <3> QED BY <2>1, <2>2, <3>1, <3>2
  <2>4. total_size' = 0 /\ payload_size' = 0
    BY <1>6, <1>9, <1>20
  <2>5. \A j \in 0 .. n - 1 : Placed(j)'
    BY <1>17, <1>20
  <2>6. \A j \in 1 .. Len(packets') : packets'[j] = SubSeq(buffer', Start(j - 1)' + 1, Start(j)')
    BY <2>2
  <2>7. Sending'
    <3>1. Len(packets') \in 0 .. chunk_number'
      BY <1>2, <2>2
    <3>2. \A j \in 0 .. chunk_number' - 1 : Placed(j)'
      BY <2>2, <2>5
    <3> QED BY <1>13, <1>19, <2>1, <2>2, <2>3, <2>4, <2>6, <3>1, <3>2 DEF Sending
  <2>8. Len(packets') < chunk_number'
    BY <1>2, <2>2
  <2> QED BY <1>1, <1>13, <2>1, <2>7, <2>8 DEF CInv
<1>21. CASE k # 0
  <2>1. step' = "insert" /\ cut' = cut /\ seq' = seq - 1 /\ Turns' = k - 1
    <3>1. seq # first_chunk
      BY <1>2, <1>3, <1>21
    <3> QED BY <1>2, <1>3, <1>9, <1>10, <3>1 DEF Turns
  <2>2. k >= 1 /\ (k - 1) + 1 = k /\ k - 1 \in 0 .. n - 1
    BY <1>2, <1>3, <1>21
  <2>3. k - 1 >= 1 => chunk_total_sizes'[1] = Start(k - 1) - Start((k - 1) - 1)
    <3> SUFFICES ASSUME k - 1 >= 1 PROVE Start(k - 1) - Start((k - 1) - 1) = CHUNK_SIZE
      BY <1>19
    <3> DEFINE j == (k - 1) - 1
    <3>1. j \in 0 .. n - 1 /\ j <= n - 3 /\ j + 1 = k - 1
      BY <1>2, <1>3
    <3> HIDE DEF j
    <3>2. Start(j + 1) - Start(j) = CHUNK_SIZE
      BY <1>n, <1>1, <3>1, ChunkIs
    <3> QED BY <3>1, <3>2 DEF j
  <2>4. chunk_total_sizes'[2] = Start(k) - Start(k - 1)
    BY <1>4, <1>19, <2>2
  <2>5. chunk_number' = n /\ packets' = <<>> /\ cut' = <<>>
    BY <1>n, <1>4, <1>9, <2>1
  <2>6. Inserting'
    <3>1. Turns' + 1 = k
      BY <2>1, <2>2
    <3>2. \A i \in 1 .. payload_size' : buffer'[i] = C!Byte(i)
      BY <1>9, <1>14
    <3> QED BY <1>9, <1>13, <1>17, <1>19, <2>1, <2>2, <2>3, <2>4, <2>5, <3>1, <3>2 DEF Inserting
  <2>7. seq' \in Int
    BY <1>1, <2>1
  <2> QED BY <1>13, <2>1, <2>6, <2>7 DEF CInv
<1> QED BY <1>20, <1>21
------------------------------------------------------------------------------
(* Pieces of a sequence.                                                   *)

LEMMA SameSeq ==
  ASSUME NEW S, NEW s \in Seq(S), NEW t \in Seq(S), Len(s) = Len(t), \A i \in 1 .. Len(s) : s[i] = t[i]
  PROVE  s = t
OBVIOUS

LEMMA PieceIs ==
  ASSUME NEW S, NEW b \in Seq(S), NEW j \in 0 .. Len(b), NEW i \in 0 .. j
  PROVE  /\ SubSeq(b, i + 1, j) \in Seq(S) /\ Len(SubSeq(b, i + 1, j)) = j - i
         /\ \A x \in 1 .. j - i : SubSeq(b, i + 1, j)[x] = b[i + x]
<1>1. i \in Int /\ j \in Int /\ i + 1 \in Int /\ Len(b) \in Nat
  OBVIOUS
<1>2. \A x \in i + 1 .. j : b[x] \in S
  <2> SUFFICES ASSUME NEW x \in i + 1 .. j PROVE b[x] \in S
    OBVIOUS
  <2>1. x \in 1 .. Len(b)
    BY <1>1
  <2> QED BY <2>1, ElementOfSeq
<1>3. /\ SubSeq(b, i + 1, j) \in Seq(S)
      /\ Len(SubSeq(b, i + 1, j)) = IF i + 1 <= j THEN j - (i + 1) + 1 ELSE 0
      /\ \A x \in 1 .. j - (i + 1) + 1 : SubSeq(b, i + 1, j)[x] = b[(i + 1) + x - 1]
  BY <1>1, <1>2, SubSeqProperties
<1>4. Len(SubSeq(b, i + 1, j)) = j - i
  <2>1. (IF i + 1 <= j THEN j - (i + 1) + 1 ELSE 0) = j - i
    OBVIOUS
  <2> QED BY <1>3, <2>1
<1>5. ASSUME NEW x \in 1 .. j - i PROVE SubSeq(b, i + 1, j)[x] = b[i + x]
  <2>1. x \in 1 .. j - (i + 1) + 1 /\ (i + 1) + x - 1 = i + x
    BY <1>1
  <2> QED BY <1>3, <2>1
<1> QED BY <1>3, <1>4, <1>5

LEMMA PieceOfPiece ==
  ASSUME NEW S, NEW b \in Seq(S), NEW l \in 0 .. Len(b), NEW j \in 0 .. l, NEW i \in 0 .. j
  PROVE  /\ SubSeq(SubSeq(b, i + 1, l), 1, j - i) = SubSeq(b, i + 1, j)
         /\ SubSeq(SubSeq(b, i + 1, l), j - i + 1, l - i) = SubSeq(b, j + 1, l)
<1>1. PICK c : c = SubSeq(b, i + 1, l)
  OBVIOUS
<1>2. i \in 0 .. l /\ j \in 0 .. Len(b) /\ Len(b) \in Nat
  OBVIOUS
<1>3. c \in Seq(S) /\ Len(c) = l - i /\ \A x \in 1 .. l - i : c[x] = b[i + x]
  BY <1>1, <1>2, PieceIs
<1>4. PICK e : e = j - i
  OBVIOUS
<1>5. e \in 0 .. Len(c) /\ 0 \in 0 .. e /\ Len(c) \in 0 .. Len(c) /\ e \in 0 .. Len(c)
  BY <1>3, <1>4
<1>6. SubSeq(c, 1, e) = SubSeq(b, i + 1, j)
  <2>1. /\ SubSeq(c, 0 + 1, e) \in Seq(S) /\ Len(SubSeq(c, 0 + 1, e)) = e - 0
        /\ \A x \in 1 .. e - 0 : SubSeq(c, 0 + 1, e)[x] = c[0 + x]
    BY <1>3, <1>5, PieceIs
  <2>2. /\ SubSeq(b, i + 1, j) \in Seq(S) /\ Len(SubSeq(b, i + 1, j)) = j - i
        /\ \A x \in 1 .. j - i : SubSeq(b, i + 1, j)[x] = b[i + x]
    BY <1>2, PieceIs
  <2>3. 0 + 1 = 1 /\ e - 0 = e /\ e = j - i
    BY <1>4, <1>5
  <2>4. ASSUME NEW x \in 1 .. e PROVE SubSeq(c, 1, e)[x] = SubSeq(b, i + 1, j)[x]
    <3>1. x \in 1 .. l - i /\ 0 + x = x
      BY <1>2, <1>4
    <3> QED BY <1>3, <2>1, <2>2, <2>3, <3>1
  <2> QED BY <2>1, <2>2, <2>3, <2>4, SameSeq
<1>7. SubSeq(c, e + 1, l - i) = SubSeq(b, j + 1, l)
  <2>1. /\ SubSeq(c, e + 1, l - i) \in Seq(S) /\ Len(SubSeq(c, e + 1, l - i)) = (l - i) - e
        /\ \A x \in 1 .. (l - i) - e : SubSeq(c, e + 1, l - i)[x] = c[e + x]
    <3>1. l - i \in 0 .. Len(c) /\ e \in 0 .. l - i
      BY <1>2, <1>3, <1>4
    <3> HIDE <1>4
    <3> QED BY <1>3, <3>1, PieceIs
  <2>2. /\ SubSeq(b, j + 1, l) \in Seq(S) /\ Len(SubSeq(b, j + 1, l)) = l - j
        /\ \A x \in 1 .. l - j : SubSeq(b, j + 1, l)[x] = b[j + x]
    BY <1>2, PieceIs
  <2>3. (l - i) - e = l - j
    BY <1>4
  <2>4. ASSUME NEW x \in 1 .. l - j PROVE SubSeq(c, e + 1, l - i)[x] = SubSeq(b, j + 1, l)[x]
    <3>1. e + x \in 1 .. l - i /\ i + (e + x) = j + x
      BY <1>2, <1>4
    <3> QED BY <1>3, <2>1, <2>2, <2>3, <3>1
  <2> QED BY <2>1, <2>2, <2>3, <2>4, SameSeq
<1> QED BY <1>1, <1>4, <1>6, <1>7

(* Pieces that lie one behind the other, put together. *)
PiecesOf(seqs, b, at, n) ==
  /\ Len(seqs) = n /\ (n = 0 => seqs = <<>>)
  /\ at[0] = 0 /\ \A k \in 0 .. n : at[k] \in 0 .. Len(b)
  /\ \A k \in 1 .. n : at[k - 1] <= at[k] /\ seqs[k] = SubSeq(b, at[k - 1] + 1, at[k])
FlattenBody(seqs, f) == [i \in 1 .. Len(seqs) |-> IF i = 1 THEN seqs[i] ELSE f[i - 1] \o seqs[i]]
Flatten(seqs) == CHOOSE f : f = FlattenBody(seqs, f)

LEMMA FlattenPieces ==
  ASSUME NEW S, NEW b \in Seq(S), NEW n \in Nat, NEW at, NEW seqs, PiecesOf(seqs, b, at, n)
  PROVE  FlattenSeq(seqs) = SubSeq(b, 1, at[n])
<1>1. /\ Len(seqs) = n /\ (n = 0 => seqs = <<>>)
      /\ at[0] = 0 /\ \A k \in 0 .. n : at[k] \in 0 .. Len(b)
      /\ \A k \in 1 .. n : at[k - 1] <= at[k] /\ seqs[k] = SubSeq(b, at[k - 1] + 1, at[k])
  BY DEF PiecesOf
<1>2. CASE n = 0
  <2>1. FlattenSeq(seqs) = <<>>
    BY <1>1, <1>2 DEF FlattenSeq
  <2>2. SubSeq(b, 1, at[n]) = <<>>
    <3>1. at[n] = 0
      BY <1>1, <1>2
    <3> QED BY <3>1, SubSeqEmpty
  <2> QED BY <2>1, <2>2
<1>3. CASE n # 0
  <2> DEFINE w == [i \in 1 .. n |-> SubSeq(b, 1, at[i])]
             f == Flatten(seqs)
  <2>1. FlattenSeq(seqs) = f[n]
    <3>1. Len(seqs) = n /\ n # 0
      BY <1>1, <1>3
    <3> QED BY <3>1 DEF FlattenSeq, Flatten, FlattenBody
  <2>2. ASSUME NEW i \in 1 .. n, i # 1 PROVE SubSeq(b, 1, at[i - 1]) \o seqs[i] = SubSeq(b, 1, at[i])
    <3>1. at[i - 1] \in 0 .. Len(b) /\ at[i] \in at[i - 1] .. Len(b) /\ seqs[i] = SubSeq(b, at[i - 1] + 1, at[i])
      <4>1. i - 1 \in 0 .. n /\ i \in 0 .. n
        OBVIOUS
      <4> QED BY <1>1, <4>1
    <3>2. PICK x : x = at[i - 1]
      OBVIOUS
    <3>3. PICK y : y = at[i]
      OBVIOUS
    <3>4. x \in 0 .. Len(b) /\ y \in x .. Len(b) /\ seqs[i] = SubSeq(b, x + 1, y)
      BY <3>1, <3>2, <3>3
    <3>5. 1 \in 1 .. Len(b) + 1 /\ x \in 1 - 1 .. Len(b)
      BY <3>4
    <3>6. SubSeq(b, 1, x) \o SubSeq(b, x + 1, y) = SubSeq(b, 1, y)
      BY <3>4, <3>5, ConcatAdjacentSubSeq
    <3> QED BY <3>2, <3>3, <3>4, <3>6
  <2>3. seqs[1] = SubSeq(b, 1, at[1])
    <3>1. 1 \in 1 .. n /\ 1 - 1 = 0 /\ 0 + 1 = 1
      BY <1>3
    <3> QED BY <1>1, <3>1
  <2>4. w = FlattenBody(seqs, w)
    <3>1. ASSUME NEW i \in 1 .. n
          PROVE  w[i] = IF i = 1 THEN seqs[i] ELSE w[i - 1] \o seqs[i]
      <4>1. i # 1 => i - 1 \in 1 .. n
        OBVIOUS
      <4> QED BY <2>2, <2>3, <4>1
    <3>2. w = [i \in 1 .. n |-> w[i]]
      OBVIOUS
    <3> HIDE DEF w
    <3>3. [i \in 1 .. n |-> w[i]] = [i \in 1 .. n |-> IF i = 1 THEN seqs[i] ELSE w[i - 1] \o seqs[i]]
      BY <3>1
    <3> QED BY <1>1, <3>2, <3>3 DEF FlattenBody
  <2>5. f = FlattenBody(seqs, f)
    BY <2>4 DEF Flatten
  <2>6. \A i \in 1 .. n : w[i] = SubSeq(b, 1, at[i])
    OBVIOUS
  <2> HIDE DEF w, f
  <2>7. \A i \in 1 .. n : f[i] = IF i = 1 THEN seqs[i] ELSE f[i - 1] \o seqs[i]
    <3>1. \A i \in 1 .. n : FlattenBody(seqs, f)[i] = IF i = 1 THEN seqs[i] ELSE f[i - 1] \o seqs[i]
      BY <1>1 DEF FlattenBody
    <3> QED BY <2>5, <3>1
  <2> DEFINE Good == {k \in Nat : k \in 1 .. n => f[k] = SubSeq(b, 1, at[k])}
  <2>8. 0 \in Good
    OBVIOUS
  <2>9. ASSUME NEW k \in 0 .. n - 1, k \in Good PROVE k + 1 \in Good
    <3>1. k + 1 \in 1 .. n /\ k + 1 \in Nat /\ (k + 1) - 1 = k
      OBVIOUS
    <3>2. CASE k = 0
      BY <2>3, <2>7, <3>1, <3>2
    <3>3. CASE k # 0
      <4>1. k + 1 # 1 /\ f[k] = SubSeq(b, 1, at[k])
        BY <2>9, <3>3
      <4>2. f[k + 1] = f[k] \o seqs[k + 1]
        BY <2>7, <3>1, <4>1
      <4>3. SubSeq(b, 1, at[k]) \o seqs[k + 1] = SubSeq(b, 1, at[k + 1])
        BY <2>2, <3>1, <4>1
      <4> QED BY <3>1, <4>1, <4>2, <4>3
    <3> QED BY <3>2, <3>3
  <2>10. n \in Good
    <3>1. Good \in SUBSET Nat
      OBVIOUS
    <3> HIDE DEF Good
    <3> QED BY <2>8, <2>9, <3>1, InductionUpTo
  <2> QED BY <1>3, <2>1, <2>10
<1> QED BY <1>2, <1>3
------------------------------------------------------------------------------
(* The sender guesses the sizes that the chunks have. *)
LEMMA SizeIs ==
  ASSUME C!ChunksAssumption, Given, Laid, NEW j \in 0 .. chunk_number - 1
  PROVE  C!chunk_size(first_chunk + j) = Start(j + 1) - Start(j)
<1>n. PICK n : n = chunk_number
  OBVIOUS
<1>1. /\ n \in 2 .. page + 1 /\ page \in Nat /\ CHUNK_SIZE \in Nat /\ first_chunk \in Nat
      /\ Len(buffer) \in Nat /\ j \in 0 .. n - 1
  BY <1>n DEF Laid, C!ChunksAssumption, Given
<1>2. C!last_chunk = first_chunk + (n - 1)
  BY <1>n, <1>1 DEF C!last_chunk
<1>3. C!last_chunk_size = Extra(n - 1) /\ Extra(n - 1) \in Nat
  <2>1. n - 1 \in 0 .. page /\ n - 1 # 0
    BY <1>1
  <2>2. C!int_length(first_chunk + (n - 1)) = C!Digits(first_chunk + (n - 1))
    BY <2>1, MarkerFits
  <2>3. Extra(n - 1) \in 2 .. CHUNK_SIZE - 1
    BY <2>1, MarkerFits
  <2> QED BY <1>1, <1>2, <2>1, <2>2, <2>3 DEF C!last_chunk_size, Extra
<1>4. (first_chunk + j = C!last_chunk - 1 <=> j = n - 2) /\ (first_chunk + j = C!last_chunk <=> j = n - 1)
  BY <1>1, <1>2
<1>5. CASE j = n - 2
  <2>1. C!chunk_size(first_chunk + j) = C!second_last_chunk_size
    <3>1. first_chunk + j = C!last_chunk - 1
      BY <1>4, <1>5
    <3>2. first_chunk + j # C!last_chunk
      BY <1>1, <1>4, <1>5
    <3> QED BY <3>1, <3>2 DEF C!chunk_size
  <2>2. C!second_last_chunk_size = Len(buffer) - Extra(n - 1) - Fill(n - 2)
    BY <1>n, <1>3 DEF C!second_last_chunk_size, Fill
  <2>3. j + 1 = n - 1 /\ ~ (n - 1 <= n - 2) /\ n - 2 <= n - 2
    BY <1>1, <1>5
  <2>4. Start(j + 1) = Len(buffer) - Extra(n - 1) /\ Start(j) = Fill(n - 2)
    BY <1>n, <1>5, <2>3 DEF Start
  <2> QED BY <2>1, <2>2, <2>4
<1>6. CASE j = n - 1
  <2>1. C!chunk_size(first_chunk + j) = C!last_chunk_size
    <3>1. j # n - 2
      BY <1>1, <1>6
    <3> QED BY <1>4, <1>6, <3>1 DEF C!chunk_size
  <2>2. j + 1 = n /\ ~ (n - 1 <= n - 2) /\ ~ (n <= n - 2) /\ n # n - 1
    BY <1>1, <1>6
  <2>3. Start(j + 1) = Len(buffer) /\ Start(j) = Len(buffer) - Extra(n - 1)
    BY <1>n, <1>6, <2>2 DEF Start
  <2> QED BY <1>1, <1>3, <2>1, <2>3
<1>7. CASE j # n - 2 /\ j # n - 1
  <2>1. C!chunk_size(first_chunk + j) = CHUNK_SIZE
    BY <1>4, <1>7 DEF C!chunk_size
  <2>2. j <= n - 3
    BY <1>1, <1>7
  <2> QED BY <1>n, <2>1, <2>2, ChunkIs
<1> QED BY <1>5, <1>6, <1>7

LEMMA CutStep ==
  ASSUME C!ChunksAssumption, CInv, C!Cut
  PROVE  CInv'
<1>n. PICK n : n = chunk_number
  OBVIOUS
<1>j. PICK j : j = Len(packets)
  OBVIOUS
<1>1. Given /\ seq \in Int /\ Sending /\ Laid /\ Len(packets) < chunk_number
  BY DEF CInv, C!Cut, Sending
<1>2. /\ page \in Nat /\ n \in 2 .. page + 1 /\ buffer \in Seq(Cells) /\ Len(buffer) \in Nat
      /\ j \in 0 .. n - 1 /\ j \in 0 .. n /\ j + 1 \in 0 .. n /\ j \in 0 .. j + 1 /\ j \in Nat
  <2>1. page \in Nat /\ n \in 2 .. page + 1 /\ buffer \in Seq(Cells) /\ Len(buffer) \in Nat
    BY <1>n, <1>1 DEF Laid, C!ChunksAssumption, Given
  <2>2. j \in 0 .. n /\ j < n
    BY <1>n, <1>j, <1>1 DEF Sending
  <2> QED BY <2>1, <2>2
<1>3. /\ packets \in Seq(Seq(Cells)) /\ cut = SubSeq(buffer, Start(j) + 1, Len(buffer))
      /\ \A k \in 1 .. j : packets[k] = SubSeq(buffer, Start(k - 1) + 1, Start(k))
  BY <1>j, <1>1 DEF Sending
<1>4. Start(j) \in 0 .. Len(buffer) /\ Start(j + 1) \in 0 .. Len(buffer) /\ Start(j) <= Start(j + 1)
  BY <1>n, <1>1, <1>2, LayoutIs
<1>5. C!chunk_size(first_chunk + j) = Start(j + 1) - Start(j)
  BY <1>n, <1>1, <1>2, SizeIs
<1>6. PICK size : size = Start(j + 1) - Start(j)
  OBVIOUS
<1>7. /\ packets' = Append(packets, SubSeq(cut, 1, size))
      /\ cut' = SubSeq(cut, size + 1, Len(cut))
      /\ step' = IF Len(packets') = chunk_number THEN "done" ELSE "send"
      /\ UNCHANGED <<page, buffer, first_chunk, chunk_number, seq, chunk_total_sizes, total_size, payload_size>>
  BY <1>j, <1>5, <1>6 DEF C!Cut
<1>8. /\ SubSeq(cut, 1, size) = SubSeq(buffer, Start(j) + 1, Start(j + 1))
      /\ SubSeq(cut, size + 1, Len(cut)) = SubSeq(buffer, Start(j + 1) + 1, Len(buffer))
  <2>1. PICK x : x = Start(j)
    OBVIOUS
  <2>2. PICK y : y = Start(j + 1)
    OBVIOUS
  <2>3. Len(buffer) \in 0 .. Len(buffer) /\ y \in 0 .. Len(buffer) /\ x \in 0 .. y /\ x \in 0 .. Len(buffer)
    BY <1>2, <1>4, <2>1, <2>2
  <2>4. /\ SubSeq(SubSeq(buffer, x + 1, Len(buffer)), 1, y - x) = SubSeq(buffer, x + 1, y)
        /\ SubSeq(SubSeq(buffer, x + 1, Len(buffer)), y - x + 1, Len(buffer) - x) = SubSeq(buffer, y + 1, Len(buffer))
    BY <1>2, <2>3, PieceOfPiece
  <2>5. Len(SubSeq(buffer, x + 1, Len(buffer))) = Len(buffer) - x
    BY <1>2, <2>3, PieceIs
  <2> QED BY <1>3, <1>6, <2>1, <2>2, <2>4, <2>5
<1>9. PICK piece : piece = SubSeq(buffer, Start(j) + 1, Start(j + 1))
  OBVIOUS
<1>10. piece \in Seq(Cells)
  <2>1. Start(j) \in 0 .. Start(j + 1)
    BY <1>4
  <2> QED BY <1>2, <1>4, <1>9, <2>1, PieceIs
<1>11. packets' = Append(packets, piece) /\ cut' = SubSeq(buffer, Start(j + 1) + 1, Len(buffer))
  BY <1>7, <1>8, <1>9
<1>12. /\ packets' \in Seq(Seq(Cells)) /\ Len(packets') = j + 1
       /\ (\A k \in 1 .. j : packets'[k] = packets[k]) /\ packets'[j + 1] = piece
  BY <1>j, <1>3, <1>10, <1>11, AppendProperties
<1>13. \A k \in 1 .. j + 1 : packets'[k] = SubSeq(buffer, Start(k - 1) + 1, Start(k))
  <2> SUFFICES ASSUME NEW k \in 1 .. j + 1 PROVE packets'[k] = SubSeq(buffer, Start(k - 1) + 1, Start(k))
    OBVIOUS
  <2>1. k \in 1 .. j \/ (k = j + 1 /\ k - 1 = j)
    BY <1>2
  <2> QED BY <1>3, <1>9, <1>12, <2>1
<1>14. /\ Given' /\ Laid' /\ \A k : Extra(k)' = Extra(k) /\ Start(k)' = Start(k) /\ Ahead(k)' = Ahead(k)
  <2>1. buffer' = buffer
    BY <1>7
  <2> QED BY <1>1, <1>2, <1>7, <2>1, SameLayout
<1>15. Sending'
  <2>1. \A k \in 0 .. chunk_number' - 1 : Placed(k)'
    <3> SUFFICES ASSUME NEW k \in 0 .. chunk_number - 1 PROVE Placed(k)'
      BY <1>7
    <3>1. Placed(k)
      BY <1>1 DEF Sending
    <3>2. buffer' = buffer /\ first_chunk' = first_chunk
      BY <1>7
    <3>3. Start(k)' = Start(k) /\ Extra(k)' = Extra(k) /\ Ahead(k)' = Ahead(k) /\ Ahead(k + 1)' = Ahead(k + 1)
      BY <1>14
    <3> QED BY <3>1, <3>2, <3>3 DEF Placed
  <2>2. Turns' = 0 /\ total_size' = 0 /\ payload_size' = 0
    BY <1>1, <1>7 DEF Sending, Turns
  <2>3. chunk_total_sizes' \in Seq(0 .. CHUNK_SIZE) /\ Len(chunk_total_sizes') = 2
    BY <1>1, <1>7 DEF Sending
  <2>4. Len(packets') \in 0 .. chunk_number'
    BY <1>n, <1>2, <1>7, <1>12
  <2>5. \A k \in 1 .. Len(packets') : packets'[k] = SubSeq(buffer', Start(k - 1)' + 1, Start(k)')
    BY <1>7, <1>12, <1>13, <1>14
  <2>6. cut' = SubSeq(buffer', Start(Len(packets))' + 1, Len(buffer'))
    BY <1>7, <1>11, <1>12, <1>14
  <2> QED BY <1>12, <1>14, <2>1, <2>2, <2>3, <2>4, <2>5, <2>6 DEF Sending
<1>16. Len(packets') \in 0 .. chunk_number'
  BY <1>15 DEF Sending
<1>17. seq' \in Int
  BY <1>1, <1>7
<1>18. CASE Len(packets') = chunk_number
  <2>1. step' = "done" /\ Len(packets') = chunk_number'
    BY <1>7, <1>18
  <2> QED BY <1>14, <1>15, <1>17, <2>1 DEF CInv
<1>19. CASE Len(packets') # chunk_number
  <2>1. step' = "send" /\ Len(packets') < chunk_number'
    BY <1>n, <1>2, <1>7, <1>16, <1>19
  <2> QED BY <1>14, <1>15, <1>17, <2>1 DEF CInv
<1> QED BY <1>18, <1>19

LEMMA CutNext ==
  ASSUME C!ChunksAssumption, CInv, [C!Next]_C!vars
  PROVE  CInv'
<1>1. CASE C!Measure
  BY <1>1, MeasureStep
<1>2. CASE C!Insert
  BY <1>2, InsertStep
<1>3. CASE C!Cut
  BY <1>3, CutStep
<1>4. CASE UNCHANGED C!vars
  <2>1. UNCHANGED <<page, buffer, first_chunk, chunk_number, seq, chunk_total_sizes, total_size, payload_size, cut, packets, step>>
    BY <1>4 DEF C!vars
  <2>2. Marks' = Marks /\ (\A k : Extra(k)' = Extra(k)) /\ Given' = Given
    BY <2>1, SameMarks
  <2>3. (\A k : Fill(k)' = Fill(k))
    BY DEF Fill
  <2>4. (\A k : Start(k)' = Start(k))
    BY <2>1, <2>2, <2>3 DEF Start
  <2>5. (\A k : Ahead(k)' = Ahead(k))
    BY <2>2, <2>4 DEF Ahead
  <2>6. (\A k : Placed(k)' = Placed(k)) /\ Turns' = Turns
    BY <2>1, <2>2, <2>4, <2>5 DEF Placed, Turns
  <2>7. Laid' = Laid
    BY <2>1, <2>2, <2>3 DEF Laid
  <2>8. Measured' = Measured
    BY <2>1, <2>2, <2>3, <2>6 DEF Measured
  <2>9. Inserting' = Inserting
    BY <2>1, <2>4, <2>5, <2>6, <2>7 DEF Inserting
  <2>10. Sending' = Sending
    BY <2>1, <2>4, <2>6, <2>7 DEF Sending
  <2> QED BY <2>1, <2>2, <2>8, <2>9, <2>10 DEF CInv
<1> QED BY <1>1, <1>2, <1>3, <1>4 DEF C!Next, C!Terminating
------------------------------------------------------------------------------
(* What the invariant says of the packets.                                 *)

\* The helpers that Chunks has from SequencesExt.
LEMMA SameHelpers ==
  \A s, t : C!FlattenSeq(s) = FlattenSeq(s) /\ (C!IsPrefix(s, t) <=> IsPrefix(s, t))
BY DEF C!FlattenSeq, FlattenSeq, C!IsPrefix, IsPrefix

LEMMA PacketsLie ==
  ASSUME C!ChunksAssumption, Given, Sending
  PROVE  /\ FlattenSeq(packets) = SubSeq(buffer, 1, Start(Len(packets)))
         /\ Len(FlattenSeq(packets)) = Start(Len(packets))
         /\ Len(cut) = Len(buffer) - Start(Len(packets)) /\ Start(Len(packets)) \in 0 .. Len(buffer)
<1>n. PICK n : n = Len(packets)
  OBVIOUS
<1> DEFINE at == [k \in 0 .. n |-> Start(k)]
<1>1. /\ Laid /\ buffer \in Seq(Cells) /\ Len(buffer) \in Nat /\ n \in 0 .. chunk_number /\ n \in Nat
      /\ packets \in Seq(Seq(Cells))
      /\ (\A k \in 1 .. n : packets[k] = SubSeq(buffer, Start(k - 1) + 1, Start(k)))
      /\ cut = SubSeq(buffer, Start(n) + 1, Len(buffer))
  BY <1>n DEF Sending, Laid
<1>2. /\ chunk_number \in Nat /\ Start(0) = 0
      /\ \A j \in 0 .. chunk_number : Start(j) \in 0 .. Len(buffer)
      /\ \A j \in 0 .. chunk_number : \A i \in 0 .. j : Start(i) <= Start(j)
  BY <1>1, LayoutIs
<1>3. \A k \in 0 .. n : at[k] = Start(k)
  OBVIOUS
<1> HIDE DEF at
<1>4. PiecesOf(packets, buffer, at, n)
  <2>1. ASSUME NEW k \in 1 .. n
        PROVE  at[k - 1] <= at[k] /\ packets[k] = SubSeq(buffer, at[k - 1] + 1, at[k])
    <3>1. k - 1 \in 0 .. n /\ k \in 0 .. n /\ k \in 0 .. chunk_number /\ k - 1 \in 0 .. k
      BY <1>1, <1>2
    <3> QED BY <1>1, <1>2, <1>3, <3>1
  <2>2. \A k \in 0 .. n : at[k] \in 0 .. Len(buffer)
    <3> SUFFICES ASSUME NEW k \in 0 .. n PROVE at[k] \in 0 .. Len(buffer)
      OBVIOUS
    <3>1. k \in 0 .. chunk_number
      BY <1>1, <1>2
    <3> QED BY <1>2, <1>3, <3>1
  <2>3. at[0] = 0 /\ Len(packets) = n /\ (n = 0 => packets = <<>>)
    <3>1. 0 \in 0 .. n
      BY <1>1
    <3> QED BY <1>n, <1>1, <1>2, <1>3, <3>1, EmptySeq
  <2> QED BY <2>1, <2>2, <2>3 DEF PiecesOf
<1>5. FlattenSeq(packets) = SubSeq(buffer, 1, at[n]) /\ at[n] = Start(n)
  <2>1. n \in 0 .. n
    BY <1>1
  <2> QED BY <1>1, <1>3, <1>4, <2>1, FlattenPieces
<1>6. PICK x : x = Start(n)
  OBVIOUS
<1>7. x \in 0 .. Len(buffer) /\ 0 \in 0 .. x /\ Len(buffer) \in 0 .. Len(buffer)
  BY <1>1, <1>2, <1>6
<1>8. Len(SubSeq(buffer, 0 + 1, x)) = x - 0 /\ Len(SubSeq(buffer, x + 1, Len(buffer))) = Len(buffer) - x
  BY <1>1, <1>7, PieceIs
<1>9. 0 + 1 = 1 /\ x - 0 = x
  BY <1>7
<1> QED BY <1>n, <1>1, <1>5, <1>6, <1>7, <1>8, <1>9

LEMMA CutTypes ==
  ASSUME C!ChunksAssumption, CInv
  PROVE  C!TypeOK
<1>1. Given /\ seq \in Int /\ page \in Nat /\ first_chunk \in Nat /\ CHUNK_SIZE \in Nat
  BY DEF CInv, Given, C!ChunksAssumption
<1>k. PICK k : k = Turns
  OBVIOUS
<1>2. seq = first_chunk + k
  BY <1>k, <1>1 DEF Turns
<1>3. FlattenSeq(<<>>) = <<>>
  BY DEF FlattenSeq
<1>4. CASE step = "measure" /\ Measured
  <2>1. /\ k \in 0 .. payload_size /\ payload_size \in 0 .. page /\ total_size = payload_size + Marks[k]
        /\ chunk_total_sizes \in Seq(0 .. CHUNK_SIZE) /\ Len(chunk_total_sizes) = 2
        /\ cut = <<>> /\ packets = <<>> /\ buffer = [i \in 1 .. page |-> C!Byte(i)]
    BY <1>k, <1>4 DEF Measured
  <2>2. k \in 0 .. page + 1 /\ k \in 0 .. page
    BY <1>1, <2>1
  <2>3. Marks[k] \in Nat
    BY <1>1, <2>2, MarksStep
  <2>4. total_size \in Nat
    BY <1>1, <2>1, <2>3
  <2>5. \A i \in 1 .. 2 : chunk_total_sizes[i] \in 0 .. CHUNK_SIZE
    BY <2>1, ElementOfSeq
  <2>6. Len(buffer) = page
    BY <1>1, <2>1
  <2>7. Len(cut) + Len(FlattenSeq(packets)) <= Len(buffer)
    BY <1>1, <1>3, <2>1, <2>6
  <2>8. seq \in first_chunk .. (first_chunk + page + 1)
    BY <1>1, <1>2, <2>2
  <2> QED BY <1>4, <2>1, <2>4, <2>5, <2>7, <2>8, SameHelpers DEF C!TypeOK
<1>5. CASE step = "insert" /\ Inserting
  <2>1. /\ Laid /\ k \in 0 .. chunk_number - 1 /\ total_size = Start(k + 1) /\ payload_size = Ahead(k + 1)
        /\ chunk_total_sizes \in Seq(0 .. CHUNK_SIZE) /\ Len(chunk_total_sizes) = 2
        /\ cut = <<>> /\ packets = <<>>
    BY <1>k, <1>5 DEF Inserting
  <2>2. chunk_number \in 2 .. page + 1 /\ buffer \in Seq(Cells) /\ Len(buffer) \in Nat
    BY <2>1 DEF Laid
  <2>3. k \in 0 .. page /\ k + 1 \in 0 .. chunk_number
    BY <1>1, <2>1, <2>2
  <2>4. total_size \in Nat /\ payload_size \in 0 .. page
    <3>1. Start(k + 1) \in 0 .. Len(buffer) /\ Ahead(k + 1) \in 0 .. page
      BY <1>1, <2>1, <2>3, LayoutIs
    <3> QED BY <2>1, <3>1
  <2>5. \A i \in 1 .. 2 : chunk_total_sizes[i] \in 0 .. CHUNK_SIZE
    BY <2>1, ElementOfSeq
  <2>6. Len(cut) + Len(FlattenSeq(packets)) <= Len(buffer)
    BY <1>3, <2>1, <2>2
  <2>7. seq \in first_chunk .. (first_chunk + page + 1)
    BY <1>1, <1>2, <2>3
  <2> QED BY <1>5, <2>4, <2>5, <2>6, <2>7, SameHelpers DEF C!TypeOK
<1>6. CASE step \in {"send", "done"} /\ Sending
  <2>1. /\ k = 0 /\ total_size = 0 /\ payload_size = 0 /\ buffer \in Seq(Cells) /\ Len(buffer) \in Nat
        /\ chunk_total_sizes \in Seq(0 .. CHUNK_SIZE) /\ Len(chunk_total_sizes) = 2
    BY <1>k, <1>6 DEF Sending, Laid
  <2>2. Len(cut) + Len(FlattenSeq(packets)) <= Len(buffer)
    <3>1. PICK x : x = Start(Len(packets))
      OBVIOUS
    <3>2. x \in 0 .. Len(buffer) /\ Len(FlattenSeq(packets)) = x /\ Len(cut) = Len(buffer) - x
      BY <1>1, <1>6, <3>1, PacketsLie
    <3> QED BY <2>1, <3>2
  <2>3. \A i \in 1 .. 2 : chunk_total_sizes[i] \in 0 .. CHUNK_SIZE
    BY <2>1, ElementOfSeq
  <2>4. seq \in first_chunk .. (first_chunk + page + 1) /\ payload_size \in 0 .. page
    BY <1>1, <1>2, <2>1
  <2> QED BY <1>6, <2>1, <2>2, <2>3, <2>4, SameHelpers DEF C!TypeOK
<1> QED BY <1>4, <1>5, <1>6 DEF CInv

LEMMA FrontIsPage ==
  ASSUME C!ChunksAssumption, CInv
  PROVE  C!FrontUntouched
<1> SUFFICES ASSUME step = "insert"
             PROVE  SubSeq(buffer, 1, payload_size) = [i \in 1 .. payload_size |-> C!Byte(i)]
  BY DEF C!FrontUntouched
<1>k. PICK k : k = Turns
  OBVIOUS
<1>1. Given /\ Laid /\ k \in 0 .. chunk_number - 1 /\ payload_size = Ahead(k + 1)
      /\ (\A i \in 1 .. payload_size : buffer[i] = C!Byte(i))
  BY <1>k DEF CInv, Inserting
<1>2. chunk_number \in 2 .. page + 1 /\ buffer \in Seq(Cells) /\ Len(buffer) \in Nat /\ page \in Nat
  BY <1>1 DEF Laid, Given, C!ChunksAssumption
<1>3. k + 1 \in 0 .. chunk_number
  BY <1>1, <1>2
<1>4. Ahead(k + 1) \in 0 .. page /\ Ahead(k + 1) <= Start(k + 1) /\ Start(k + 1) \in 0 .. Len(buffer)
  BY <1>1, <1>3, LayoutIs
<1>5. payload_size \in 0 .. Len(buffer) /\ payload_size \in Nat /\ 0 \in 0 .. payload_size
  BY <1>1, <1>2, <1>4
<1>6. /\ SubSeq(buffer, 0 + 1, payload_size) \in Seq(Cells) /\ Len(SubSeq(buffer, 0 + 1, payload_size)) = payload_size - 0
      /\ \A x \in 1 .. payload_size - 0 : SubSeq(buffer, 0 + 1, payload_size)[x] = buffer[0 + x]
  BY <1>2, <1>5, PieceIs
<1>7. 0 + 1 = 1 /\ payload_size - 0 = payload_size /\ \A x \in 1 .. payload_size : 0 + x = x
  BY <1>5
<1>8. PICK front : front = [i \in 1 .. payload_size |-> C!Byte(i)]
  OBVIOUS
<1>9. front \in Seq(Cells) /\ Len(front) = payload_size
  <2>1. front \in [1 .. payload_size -> Cells]
    BY <1>8 DEF C!Byte, Cells
  <2> QED BY <1>5, <2>1, FunctionIsSeq
<1>10. \A x \in 1 .. payload_size : SubSeq(buffer, 1, payload_size)[x] = front[x]
  <2> SUFFICES ASSUME NEW x \in 1 .. payload_size PROVE SubSeq(buffer, 1, payload_size)[x] = front[x]
    OBVIOUS
  <2>1. SubSeq(buffer, 1, payload_size)[x] = buffer[x]
    BY <1>6, <1>7
  <2>2. buffer[x] = C!Byte(x)
    BY <1>1
  <2>3. front[x] = C!Byte(x)
    BY <1>8
  <2> QED BY <2>1, <2>2, <2>3
<1>11. SubSeq(buffer, 1, payload_size) = front
  BY <1>6, <1>7, <1>9, <1>10, SameSeq
<1> QED BY <1>8, <1>11

LEMMA PayloadIs ==
  ASSUME C!ChunksAssumption, Given, Sending, Len(packets) = chunk_number, NEW k \in 1 .. chunk_number
  PROVE  /\ Len(packets[k]) <= CHUNK_SIZE /\ IsPrefix(C!Marked(k), packets[k])
         /\ C!Payload(k) = SubSeq([i \in 1 .. page |-> C!Byte(i)], Ahead(k - 1) + 1, Ahead(k))
         /\ C!Payload(k) = <<>> <=> k = chunk_number
<1>j. PICK j : j = k - 1
  OBVIOUS
<1>p. PICK p : p = packets[k]
  OBVIOUS
<1>m. PICK m : m = C!extra(first_chunk + j)
  OBVIOUS
<1>b. PICK b : b = [i \in 1 .. page |-> C!Byte(i)]
  OBVIOUS
<1>1. /\ Laid /\ chunk_number \in 2 .. page + 1 /\ page \in Nat /\ CHUNK_SIZE \in Nat
      /\ buffer \in Seq(Cells) /\ Len(buffer) \in Nat /\ first_chunk \in Nat
  BY DEF Sending, Laid, Given, C!ChunksAssumption
<1>2. j \in 0 .. chunk_number - 1 /\ j + 1 = k /\ j \in 0 .. page /\ j \in 0 .. chunk_number /\ k \in 0 .. chunk_number
  BY <1>j, <1>1
<1>3. /\ Extra(j) \in 2 .. CHUNK_SIZE - 1 /\ Start(j) \in Int /\ Start(k) \in Int
      /\ Ahead(j) \in Int /\ Ahead(k) \in Int
      /\ Start(k) - Start(j) \in Extra(j) .. CHUNK_SIZE
      /\ Ahead(k) - Ahead(j) = (Start(k) - Start(j)) - Extra(j)
      /\ (j < chunk_number - 1 => Ahead(j) < Ahead(k))
  BY <1>1, <1>2, ChunkIs
<1>4. /\ Start(j) \in 0 .. Len(buffer) /\ Start(k) \in 0 .. Len(buffer) /\ Start(j) \in 0 .. Start(k)
      /\ Ahead(j) \in 0 .. page /\ Ahead(k) \in 0 .. page /\ Ahead(j) \in 0 .. Ahead(k)
      /\ Ahead(chunk_number - 1) = page /\ Ahead(chunk_number) = page
  <2>1. /\ Start(j) \in 0 .. Len(buffer) /\ Start(k) \in 0 .. Len(buffer)
        /\ Ahead(j) \in 0 .. page /\ Ahead(k) \in 0 .. page
        /\ Ahead(chunk_number - 1) = page /\ Ahead(chunk_number) = page
    BY <1>1, <1>2, LayoutIs
  <2>2. Ahead(j) \in 0 .. Ahead(k) /\ Start(j) \in 0 .. Start(k)
    BY <1>1, <1>3, <2>1
  <2> QED BY <2>1, <2>2
<1>5. Extra(j) \in Nat /\ Extra(j) \in 0 .. Start(k) - Start(j)
  BY <1>1, <1>3
<1>6. p = SubSeq(buffer, Start(j) + 1, Start(k))
  BY <1>j, <1>p DEF Sending
<1>7. /\ p \in Seq(Cells) /\ Len(p) = Start(k) - Start(j)
      /\ \A x \in 1 .. Start(k) - Start(j) : p[x] = buffer[Start(j) + x]
  BY <1>1, <1>4, <1>6, PieceIs
<1>8. Placed(j)
  BY <1>2 DEF Sending
<1>9. /\ m \in Seq(Cells) /\ Len(m) = Extra(j)
      /\ \A i \in 1 .. Extra(j) : m[i] = [marker |-> first_chunk + j, at |-> i]
  <2>1. /\ m \in Seq([marker : Nat, at : Nat]) /\ Len(m) = Extra(j)
        /\ \A i \in 1 .. Extra(j) : m[i] = [marker |-> first_chunk + j, at |-> i]
    BY <1>1, <1>2, <1>m, MarkerFits
  <2> QED BY <2>1 DEF Cells
<1>10. C!Marked(k) = m
  <2>1. first_chunk + k - 1 = first_chunk + j
    BY <1>1, <1>2
  <2> QED BY <1>m, <2>1 DEF C!Marked
<1>11. Len(p) \in 0 .. Len(p) /\ Extra(j) \in 0 .. Len(p) /\ Len(p) <= CHUNK_SIZE /\ 0 \in 0 .. Extra(j) /\ Len(p) \in Nat
  BY <1>1, <1>3, <1>5, <1>7
<1>12. SubSeq(p, 1, Extra(j)) = m
  <2>1. /\ SubSeq(p, 0 + 1, Extra(j)) \in Seq(Cells) /\ Len(SubSeq(p, 0 + 1, Extra(j))) = Extra(j) - 0
        /\ \A x \in 1 .. Extra(j) - 0 : SubSeq(p, 0 + 1, Extra(j))[x] = p[0 + x]
    BY <1>7, <1>11, PieceIs
  <2>2. 0 + 1 = 1 /\ Extra(j) - 0 = Extra(j)
    BY <1>5
  <2>3. ASSUME NEW x \in 1 .. Extra(j) PROVE SubSeq(p, 1, Extra(j))[x] = m[x]
    <3>1. 0 + x = x /\ x \in 1 .. Start(k) - Start(j)
      BY <1>3, <1>5
    <3>2. p[x] = [marker |-> first_chunk + j, at |-> x]
      BY <1>7, <1>8, <3>1 DEF Placed
    <3> QED BY <1>9, <2>1, <2>2, <3>1, <3>2
  <2> QED BY <1>9, <2>1, <2>2, <2>3, SameSeq
<1>13. IsPrefix(m, p)
  <2>1. SubSeq(m, 1, Len(m)) = m
    BY <1>9, SubSeqFull
  <2> QED BY <1>9, <1>11, <1>12, <2>1 DEF IsPrefix
<1>14. C!Payload(k) = SubSeq(p, Extra(j) + 1, Len(p))
  BY <1>p, <1>9, <1>10 DEF C!Payload
<1>15. /\ SubSeq(p, Extra(j) + 1, Len(p)) \in Seq(Cells) /\ Len(SubSeq(p, Extra(j) + 1, Len(p))) = Len(p) - Extra(j)
       /\ \A x \in 1 .. Len(p) - Extra(j) : SubSeq(p, Extra(j) + 1, Len(p))[x] = p[Extra(j) + x]
  BY <1>7, <1>11, PieceIs
<1>16. b \in Seq(Cells) /\ Len(b) = page /\ \A i \in 1 .. page : b[i] = C!Byte(i)
  <2>1. b \in [1 .. page -> Cells]
    BY <1>b DEF C!Byte, Cells
  <2> QED BY <1>1, <1>b, <2>1, FunctionIsSeq
<1>17. /\ SubSeq(b, Ahead(j) + 1, Ahead(k)) \in Seq(Cells) /\ Len(SubSeq(b, Ahead(j) + 1, Ahead(k))) = Ahead(k) - Ahead(j)
       /\ \A x \in 1 .. Ahead(k) - Ahead(j) : SubSeq(b, Ahead(j) + 1, Ahead(k))[x] = b[Ahead(j) + x]
  <2>1. PICK x : x = Ahead(j)
    OBVIOUS
  <2>2. PICK y : y = Ahead(k)
    OBVIOUS
  <2>3. y \in 0 .. Len(b) /\ x \in 0 .. y
    BY <1>4, <1>16, <2>1, <2>2
  <2> HIDE <1>16
  <2>4. b \in Seq(Cells)
    BY <1>16
  <2> QED BY <2>1, <2>2, <2>3, <2>4, PieceIs
<1>18. Len(p) - Extra(j) = Ahead(k) - Ahead(j)
  BY <1>3, <1>7
<1>19. SubSeq(p, Extra(j) + 1, Len(p)) = SubSeq(b, Ahead(j) + 1, Ahead(k))
  <2>1. ASSUME NEW x \in 1 .. Ahead(k) - Ahead(j) PROVE p[Extra(j) + x] = b[Ahead(j) + x]
    <3>1. Extra(j) + x \in 1 .. Start(k) - Start(j) /\ Start(j) + (Extra(j) + x) = Start(j) + Extra(j) + x
      BY <1>3, <1>5
    <3>2. Ahead(j) + x \in 1 .. page
      BY <1>1, <1>4
    <3>3. buffer[Start(j) + Extra(j) + x] = C!Byte(Ahead(j) + x)
      BY <1>2, <1>8 DEF Placed
    <3>4. p[Extra(j) + x] = buffer[Start(j) + (Extra(j) + x)]
      BY <1>7, <3>1
    <3>5. b[Ahead(j) + x] = C!Byte(Ahead(j) + x)
      BY <1>16, <3>2
    <3> QED BY <3>1, <3>3, <3>4, <3>5
  <2>2. PICK u : u = SubSeq(p, Extra(j) + 1, Len(p))
    OBVIOUS
  <2>3. PICK v : v = SubSeq(b, Ahead(j) + 1, Ahead(k))
    OBVIOUS
  <2>4. u \in Seq(Cells) /\ v \in Seq(Cells) /\ Len(u) = Len(v) /\ Len(u) = Ahead(k) - Ahead(j)
    BY <1>15, <1>17, <1>18, <2>2, <2>3
  <2>5. \A x \in 1 .. Ahead(k) - Ahead(j) : u[x] = p[Extra(j) + x] /\ v[x] = b[Ahead(j) + x]
    BY <1>15, <1>17, <1>18, <2>2, <2>3
  <2>6. \A x \in 1 .. Len(u) : u[x] = v[x]
    BY <2>1, <2>4, <2>5
  <2>7. u = v
    BY <2>4, <2>6, SameSeq
  <2> QED BY <2>2, <2>3, <2>7
<1>20. C!Payload(k) = SubSeq(b, Ahead(j) + 1, Ahead(k))
  BY <1>14, <1>19
<1>21. C!Payload(k) = <<>> <=> k = chunk_number
  <2>1. CASE k = chunk_number
    <3>1. Ahead(k) - Ahead(j) = 0
      BY <1>1, <1>j, <1>4, <2>1
    <3> QED BY <1>17, <1>20, <2>1, <3>1, EmptySeq
  <2>2. CASE k # chunk_number
    <3>1. j < chunk_number - 1
      BY <1>1, <1>2, <2>2
    <3>2. Ahead(k) - Ahead(j) # 0
      BY <1>3, <3>1
    <3>3. C!Payload(k) # <<>>
      <4>1. Len(C!Payload(k)) = Ahead(k) - Ahead(j)
        BY <1>17, <1>20
      <4> QED BY <3>2, <4>1
    <3> QED BY <2>2, <3>3
  <2> QED BY <2>1, <2>2
<1> QED BY <1>j, <1>p, <1>b, <1>10, <1>11, <1>13, <1>20, <1>21

LEMMA PageIsWhole ==
  ASSUME C!ChunksAssumption, CInv
  PROVE  C!Reassembled
<1> SUFFICES ASSUME step = "done"
             PROVE  /\ cut = <<>>
                    /\ \A k \in 1 .. chunk_number :
                         /\ Len(packets[k]) <= CHUNK_SIZE /\ IsPrefix(C!Marked(k), packets[k])
                         /\ C!Payload(k) = <<>> <=> k = chunk_number
                    /\ FlattenSeq([k \in 1 .. chunk_number |-> C!Payload(k)]) = [i \in 1 .. page |-> C!Byte(i)]
  BY SameHelpers DEF C!Reassembled
<1>n. PICK n : n = chunk_number
  OBVIOUS
<1>b. PICK b : b = [i \in 1 .. page |-> C!Byte(i)]
  OBVIOUS
<1>1. Given /\ Sending /\ Laid /\ Len(packets) = chunk_number
  BY DEF CInv, Sending
<1>2. n \in 2 .. page + 1 /\ page \in Nat /\ n \in Nat /\ Len(buffer) \in Nat
  BY <1>n, <1>1 DEF Laid, Given, C!ChunksAssumption
<1>3. cut = <<>>
  <2>1. Start(Len(packets)) = Len(buffer) /\ cut = SubSeq(buffer, Start(Len(packets)) + 1, Len(buffer))
    BY <1>1, LayoutIs DEF Sending
  <2> QED BY <1>2, <2>1, SubSeqEmpty
<1>4. /\ \A k \in 1 .. chunk_number :
            /\ Len(packets[k]) <= CHUNK_SIZE /\ IsPrefix(C!Marked(k), packets[k])
            /\ C!Payload(k) = SubSeq(b, Ahead(k - 1) + 1, Ahead(k))
            /\ C!Payload(k) = <<>> <=> k = chunk_number
  BY <1>b, <1>1, PayloadIs
<1>5. /\ Ahead(0) = 0 /\ Ahead(n) = page
      /\ \A j \in 0 .. n : Ahead(j) \in 0 .. page
      /\ \A j \in 0 .. n : \A i \in 0 .. j : Ahead(i) <= Ahead(j)
  BY <1>n, <1>1, LayoutIs
<1>6. b \in Seq(Cells) /\ Len(b) = page
  <2>1. b \in [1 .. page -> Cells]
    BY <1>b DEF C!Byte, Cells
  <2> QED BY <1>2, <2>1, FunctionIsSeq
<1> DEFINE at == [k \in 0 .. n |-> Ahead(k)]
           seqs == [k \in 1 .. n |-> C!Payload(k)]
<1>7. \A k \in 0 .. n : at[k] = Ahead(k)
  OBVIOUS
<1>8. \A k \in 1 .. n : seqs[k] = C!Payload(k)
  OBVIOUS
<1>9. Len(seqs) = n
  BY <1>2
<1> HIDE DEF at, seqs
<1>10. PiecesOf(seqs, b, at, n)
  <2>1. ASSUME NEW k \in 1 .. n
        PROVE  at[k - 1] <= at[k] /\ seqs[k] = SubSeq(b, at[k - 1] + 1, at[k])
    <3>1. k - 1 \in 0 .. n /\ k \in 0 .. n /\ k - 1 \in 0 .. k
      BY <1>2
    <3> QED BY <1>n, <1>4, <1>5, <1>7, <1>8, <3>1
  <2>2. at[0] = 0 /\ n # 0
    <3>1. 0 \in 0 .. n
      BY <1>2
    <3> QED BY <1>2, <1>5, <1>7, <3>1
  <2> QED BY <1>5, <1>6, <1>7, <1>9, <2>1, <2>2 DEF PiecesOf
<1>11. FlattenSeq(seqs) = b
  <2>1. FlattenSeq(seqs) = SubSeq(b, 1, at[n])
    BY <1>2, <1>6, <1>10, FlattenPieces
  <2>2. at[n] = Len(b)
    <3>1. n \in 0 .. n
      BY <1>2
    <3> QED BY <1>5, <1>6, <1>7, <3>1
  <2> QED BY <1>6, <2>1, <2>2, SubSeqFull
<1> QED BY <1>n, <1>b, <1>3, <1>4, <1>11 DEF seqs

LEMMA CutSafe ==
  ASSUME C!ChunksAssumption
  PROVE  C!Spec => [](C!TypeOK /\ C!Reassembled /\ C!FrontUntouched)
<1>1. C!Init => CInv
  BY CutInit
<1>2. CInv /\ [C!Next]_C!vars => CInv'
  BY CutNext
<1>3. CInv => C!TypeOK /\ C!Reassembled /\ C!FrontUntouched
  BY CutTypes, PageIsWhole, FrontIsPage
<1> QED BY <1>1, <1>2, <1>3, PTL DEF C!Spec

------------------------------------------------------------------------------
(* The whole of Transports: each behaviour keeps the invariant of the one  *)
(* machine that runs in it.                                                *)

AP == INSTANCE ClockProofs WITH
  CHUNK_SEND_SIMULTANEOUS <- Again.CHUNK_SEND_SIMULTANEOUS, ChunkNumbers <- Again.ChunkNumbers,
  MaxRequests <- Again.MaxRequests, MaxFaults <- Again.MaxFaults

(* What ClockProofs is about where peers ask again is what Transports runs. *)
LEMMA SameLibrary ==
  ASSUME NEW S
  PROVE  A!Min(S) = AP!Min(S) /\ A!Cardinality(S) = AP!Cardinality(S) /\ (A!IsFiniteSet(S) <=> AP!IsFiniteSet(S))
<1>1. A!Min(S) = AP!Min(S)
  BY Zenon DEF A!Min, AP!Min
<1>2. A!IsFiniteSet(S) <=> AP!IsFiniteSet(S)
  BY Zenon DEF A!IsFiniteSet, AP!IsFiniteSet
<1>3. A!Cardinality(S) = AP!Cardinality(S)
  BY Zenon DEF A!Cardinality, AP!Cardinality
<1> QED BY <1>1, <1>2, <1>3

LEMMA SameAssumption == A!GuppyAssumption => AP!GuppyAssumption
  BY SameLibrary, Zenon DEF A!GuppyAssumption, AP!GuppyAssumption

LEMMA SameInit == A!Init => AP!Init
  BY DEF A!Init, AP!Init, A!Transfers, AP!Transfers

LEMMA SameEvents == A!Events => AP!Events
<1>1. A!Seconds = AP!Seconds /\ A!Request = AP!Request /\ A!Transfers = AP!Transfers
  BY DEF A!Seconds, AP!Seconds, A!Request, AP!Request, A!Transfers, AP!Transfers
<1>2. ASSUME NEW d PROVE A!Elapsed(d) = AP!Elapsed(d)
  <2>1. A!Cap = AP!Cap
    BY Zenon DEF A!Cap, AP!Cap
  <2> DEFINE older(i) ==
               [clients[i] EXCEPT !.age = A!Min({@ + d, CHUNK_SEND_REPEAT_TIME}),
                                  !.since = IF \E k \in DOMAIN clients[i].chunks : clients[i].chunks[k] # 0
                                            THEN A!Min({@ + d, A!Cap}) ELSE 0]
             alike(i) ==
               [clients[i] EXCEPT !.age = AP!Min({@ + d, CHUNK_SEND_REPEAT_TIME}),
                                  !.since = IF \E k \in DOMAIN clients[i].chunks : clients[i].chunks[k] # 0
                                            THEN AP!Min({@ + d, AP!Cap}) ELSE 0]
  <2>2. ASSUME NEW i PROVE older(i) = alike(i)
    <3>1. /\ A!Min({clients[i].age + d, CHUNK_SEND_REPEAT_TIME}) = AP!Min({clients[i].age + d, CHUNK_SEND_REPEAT_TIME})
          /\ A!Min({clients[i].since + d, A!Cap}) = AP!Min({clients[i].since + d, AP!Cap})
      BY <2>1, SameLibrary, Zenon
    <3> QED BY <3>1, Zenon
  <2>3. A!Elapsed(d) = [i \in DOMAIN clients |-> older(i)] /\ AP!Elapsed(d) = [i \in DOMAIN clients |-> alike(i)]
    BY Zenon DEF A!Elapsed, AP!Elapsed
  <2> HIDE DEF older, alike
  <2> QED BY <2>2, <2>3
<1>3. ASSUME NEW d, A!Poll(d) PROVE AP!Poll(d)
  BY <1>2, <1>3, Zenon DEF A!Poll, AP!Poll, A!network, AP!network, A!bounds, AP!bounds
<1>4. A!Wake => AP!Wake
  BY <1>3, Zenon DEF A!Wake, AP!Wake
<1>5. ASSUME NEW p, NEW content, NEW refuse, NEW d, A!PollMessage(p, content, refuse, d)
      PROVE  AP!PollMessage(p, content, refuse, d)
  <2>1. ASSUME NEW t PROVE A!NewClient(t) = AP!NewClient(t)
    BY Zenon DEF A!NewClient, AP!NewClient
  <2>2. A!server_accept_message(p, content, refuse, d) <=> AP!server_accept_message(p, content, refuse, d)
    BY <1>1, <1>2, <2>1, SameLibrary, Zenon DEF A!server_accept_message, AP!server_accept_message
  <2> QED BY <1>1, <1>2, <1>5, <2>2, Zenon DEF A!PollMessage, AP!PollMessage, A!network, AP!network
<1>6. CASE \E d \in A!Seconds : A!Poll(d)
  BY <1>1, <1>3, <1>6, Zenon DEF AP!Events
<1>7. CASE \E p \in Peers, content \in acks \union {A!Request}, refuse \in BOOLEAN, d \in A!Seconds :
             A!PollMessage(p, content, refuse, d)
  <2>1. PICK p \in Peers, content \in acks \union {A!Request}, refuse \in BOOLEAN, d \in A!Seconds :
               A!PollMessage(p, content, refuse, d)
    BY <1>7, Zenon
  <2>2. AP!PollMessage(p, content, refuse, d) /\ d \in AP!Seconds /\ content \in acks \union {AP!Request}
    BY <1>1, <1>5, <2>1, Zenon
  <2> QED BY <2>1, <2>2, Zenon DEF AP!Events
<1> QED BY <1>4, <1>6, <1>7, Zenon DEF A!Events, AP!Events

LEMMA SameServer == A!Server => AP!Server
<1>1. /\ A!NextVisit = AP!NextVisit /\ A!client = AP!client /\ A!Unacknowledged = AP!Unacknowledged
      /\ A!network = AP!network /\ A!bounds = AP!bounds /\ A!Request = AP!Request
      /\ A!Real = AP!Real
  BY Zenon DEF A!NextVisit, AP!NextVisit, A!client, AP!client, A!Unacknowledged, AP!Unacknowledged, A!network,
               AP!network, A!bounds, AP!bounds, A!Request, AP!Request, A!Real, AP!Real
<1>2. ASSUME NEW how, NEW send, A!Failure(how, send) PROVE AP!Failure(how, send)
  BY <1>1, <1>2, Zenon DEF A!Failure, AP!Failure, A!Closed, AP!Closed
<1>3. ASSUME NEW i, A!Visit(i) PROVE AP!Visit(i)
  BY <1>1, <1>3, Zenon DEF A!Visit, AP!Visit, A!network, AP!network, A!bounds, AP!bounds
<1>4. A!TimedOut => AP!TimedOut
  BY <1>1, <1>2, Zenon DEF A!TimedOut, AP!TimedOut, A!network, AP!network, A!bounds, AP!bounds
<1>5. A!InTime => AP!InTime
  BY <1>1, Zenon DEF A!InTime, AP!InTime, A!network, AP!network, A!bounds, AP!bounds
<1>6. A!ValidAcknowledgement <=> AP!ValidAcknowledgement
  BY <1>1, Zenon DEF A!ValidAcknowledgement, AP!ValidAcknowledgement
<1>7. A!server_receive_data_guppy => AP!server_receive_data_guppy
  BY <1>1, <1>6, Zenon DEF A!server_receive_data_guppy, AP!server_receive_data_guppy, A!Taken, AP!Taken,
                           A!Acknowledged, AP!Acknowledged, A!network, AP!network, A!bounds, AP!bounds
<1>8. A!server_receive_invalid => AP!server_receive_invalid
  BY <1>1, <1>2, <1>6, Zenon DEF A!server_receive_invalid, AP!server_receive_invalid, A!network, AP!network, A!bounds, AP!bounds
<1>9. A!server_receive_failed => AP!server_receive_failed
  BY <1>1, <1>2, Zenon DEF A!server_receive_failed, AP!server_receive_failed, A!network, AP!network, A!bounds, AP!bounds
<1>10. A!MakesSenseToParse <=> AP!MakesSenseToParse
  BY <1>1, Zenon DEF A!MakesSenseToParse, AP!MakesSenseToParse
<1>11. ASSUME NEW n, A!server_process_traffic(n) PROVE AP!server_process_traffic(n)
  BY <1>1, <1>10, <1>11, Zenon DEF A!server_process_traffic, AP!server_process_traffic, A!network, AP!network, A!bounds, AP!bounds
<1>12. A!server_process_invalid => AP!server_process_invalid
  BY <1>1, <1>2, <1>10, Zenon DEF A!server_process_invalid, AP!server_process_invalid, A!network, AP!network, A!bounds, AP!bounds
<1>13. A!NotProcess => AP!NotProcess
  BY <1>1, <1>10, Zenon DEF A!NotProcess, AP!NotProcess, A!network, AP!network, A!bounds, AP!bounds
<1>14. ASSUME NEW i PROVE A!get_makes_sense_to_send(i) <=> AP!get_makes_sense_to_send(i)
  BY Zenon DEF A!get_makes_sense_to_send, AP!get_makes_sense_to_send
<1>15. A!MaySend <=> AP!MaySend
  BY <1>14, Zenon DEF A!MaySend, AP!MaySend
<1>16. A!Seen = AP!Seen
  <2>1. ASSUME NEW k PROVE A!Earlier(k) = AP!Earlier(k)
    BY <1>1, SameLibrary, Zenon DEF A!Earlier, AP!Earlier
  <2>2. ASSUME NEW k
        PROVE  A!Cardinality(A!Earlier(k)) < Again.CHUNK_SEND_SIMULTANEOUS
                 <=> AP!Cardinality(AP!Earlier(k)) < Again.CHUNK_SEND_SIMULTANEOUS
    BY <2>1, SameLibrary, Zenon
  <2> QED BY <2>2 DEF A!Seen, AP!Seen, A!client, AP!client, A!Real, AP!Real
<1>17. A!Exhausted = AP!Exhausted
  BY <1>1, <1>16, Zenon DEF A!Exhausted, AP!Exhausted
<1>18. A!Sent = AP!Sent
  BY <1>1, <1>16, <1>17, Zenon DEF A!Sent, AP!Sent
<1>19. ASSUME NEW arriving PROVE A!Transmit(arriving) <=> AP!Transmit(arriving)
  BY Zenon DEF A!Transmit, AP!Transmit, A!client, AP!client
<1>20. A!AllAcknowledged <=> AP!AllAcknowledged
  BY <1>1, Zenon DEF A!AllAcknowledged, AP!AllAcknowledged
<1>21. ASSUME NEW arriving, A!server_send_exhausted(arriving) PROVE AP!server_send_exhausted(arriving)
  BY <1>1, <1>2, <1>15, <1>17, <1>18, <1>19, <1>21, Zenon DEF A!server_send_exhausted, AP!server_send_exhausted, A!network, AP!network, A!bounds, AP!bounds
<1>22. ASSUME NEW arriving, A!server_send_some(arriving) PROVE AP!server_send_some(arriving)
  BY <1>1, <1>15, <1>17, <1>18, <1>19, <1>20, <1>22, Zenon DEF A!server_send_some, AP!server_send_some, A!network, AP!network, A!bounds, AP!bounds
<1>23. A!server_send_complete => AP!server_send_complete
  BY <1>1, <1>15, <1>17, <1>20, Zenon DEF A!server_send_complete, AP!server_send_complete, A!network, AP!network, A!bounds, AP!bounds
<1>24. A!NotSend => AP!NotSend
  BY <1>1, <1>15, Zenon DEF A!NotSend, AP!NotSend, A!network, AP!network, A!bounds, AP!bounds
<1>25. A!Leave => AP!Leave
  BY <1>1, <1>14, Zenon DEF A!Leave, AP!Leave, A!network, AP!network, A!bounds, AP!bounds
<1>26. A!clients_remove_finalized => AP!clients_remove_finalized
  <2>1. A!Alive = AP!Alive
    BY Zenon DEF A!Alive, AP!Alive
  <2>2. ASSUME NEW from PROVE A!Survivors(from) <=> AP!Survivors(from)
    BY <2>1, Zenon DEF A!Survivors, AP!Survivors
  <2> QED BY <1>1, <2>1, <2>2, Zenon DEF A!clients_remove_finalized, AP!clients_remove_finalized, A!network, AP!network, A!bounds, AP!bounds
<1> QED BY <1>3, <1>4, <1>5, <1>7, <1>8, <1>9, <1>11, <1>12, <1>13, <1>18, <1>21, <1>22, <1>23, <1>24, <1>25, <1>26, Zenon
        DEF A!Server, AP!Server

LEMMA SameTypes == AP!TypeOK => A!TypeOK
  BY Zenon DEF A!TypeOK, AP!TypeOK, A!Transfers, AP!Transfers

(* Where peers ask again, a step is one of Guppy with those constants. *)
LEMMA AgainSteps ==
  ASSUME [TransportNext]_transportVars, machine = "again"
  PROVE  [AP!Next]_AP!vars
<1>1. A!Orphaned => UNCHANGED vars
  BY DEF A!Orphaned, A!vars, vars, A!control, control, A!network, network, A!bounds, bounds
<1>2. A!Next \/ UNCHANGED vars
  BY DEF TransportNext, Datagrams, DatagramsAgain, Cutting, OnlyGuppy, transportVars
<1>3. UNCHANGED vars => UNCHANGED AP!vars
  BY DEF AP!vars, vars, AP!control, control, AP!network, network, AP!bounds, bounds
<1> QED BY <1>1, <1>2, <1>3, SameServer, SameEvents, Zenon DEF A!Next, AP!Next

TransportInv ==
  \/ machine = "guppy" /\ IInv
  \/ machine = "again" /\ AP!IInv
  \/ machine = "chunks" /\ CInv

LEMMA TransportInvInit ==
  ASSUME TransportsAssumption
  PROVE  TransportInit => TransportInv
<1>1. GuppyAssumption /\ AP!GuppyAssumption /\ C!ChunksAssumption
  BY SameAssumption DEF TransportsAssumption
<1>2. Init => IInv
  BY <1>1, InitInvariant
<1>3. A!Init => AP!IInv
  BY <1>1, SameInit, AP!InitInvariant
<1>4. C!Init => CInv
  BY <1>1, CutInit
<1> QED BY <1>2, <1>3, <1>4, Zenon DEF TransportInit, TransportInv

LEMMA TransportInvNext ==
  ASSUME TransportsAssumption
  PROVE  TransportInv /\ [TransportNext]_transportVars => TransportInv'
<1> SUFFICES ASSUME TransportInv, [TransportNext]_transportVars PROVE TransportInv'
  OBVIOUS
<1>1. GuppyAssumption /\ AP!GuppyAssumption /\ C!ChunksAssumption
  BY SameAssumption DEF TransportsAssumption
<1>2. machine' = machine
  BY DEF TransportNext, Datagrams, DatagramsAgain, Cutting, OnlyGuppy, transportVars
<1>3. CASE machine = "guppy" /\ IInv
  <2>1. [Next]_vars
    BY <1>3 DEF TransportNext, Datagrams, DatagramsAgain, Cutting, OnlyGuppy, transportVars
  <2>2. IInv'
    BY <1>1, <1>3, <2>1, NextInvariant
  <2> QED BY <1>2, <1>3, <2>2 DEF TransportInv
<1>4. CASE machine = "again" /\ AP!IInv
  <2>1. [AP!Next]_AP!vars
    BY <1>4, AgainSteps
  <2>2. AP!IInv'
    BY <1>1, <1>4, <2>1, AP!NextInvariant
  <2> QED BY <1>2, <1>4, <2>2 DEF TransportInv
<1>5. CASE machine = "chunks" /\ CInv
  <2>1. C!Next \/ UNCHANGED ofChunks
    BY <1>5 DEF TransportNext, Datagrams, DatagramsAgain, Cutting, OnlyGuppy, transportVars
  <2>2. UNCHANGED ofChunks => UNCHANGED C!vars
    BY DEF C!vars, ofChunks
  <2>3. CInv'
    BY <1>1, <1>5, <2>1, <2>2, CutNext
  <2> QED BY <1>2, <1>5, <2>3 DEF TransportInv
<1> QED BY <1>3, <1>4, <1>5 DEF TransportInv

LEMMA TransportInvariant ==
  ASSUME TransportsAssumption
  PROVE  TransportSpec => []TransportInv
<1>1. TransportInit => TransportInv
  BY TransportInvInit
<1>2. TransportInv /\ [TransportNext]_transportVars => TransportInv'
  BY TransportInvNext
<1> QED BY <1>1, <1>2, PTL DEF TransportSpec

(***************************************************************************)
(* For every number of peers, clients, chunks and repetitions, whether or  *)
(* not peers ask again, and for every size of a chunk and of a page: what  *)
(* Guppy and the cutting of a page keep stays in its range.                *)
(***************************************************************************)
THEOREM TransportTypesOK ==
  ASSUME TransportsAssumption
  PROVE  TransportSpec => []TypesOK
<1>1. TransportInv => TypesOK
  <2>1. IInv => TypeOK
    BY IInvImpliesTypeOK DEF TransportsAssumption
  <2>2. AP!IInv => A!TypeOK
    BY SameAssumption, SameTypes, AP!IInvImpliesTypeOK DEF TransportsAssumption
  <2>3. CInv => C!TypeOK
    BY CutTypes DEF TransportsAssumption
  <2>4. CASE machine = "guppy" /\ IInv
    <3>1. TypesOK = TypeOK
      BY <2>4 DEF TypesOK
    <3> QED BY <2>1, <2>4, <3>1, Zenon
  <2>5. CASE machine = "again" /\ AP!IInv
    <3>1. TypesOK = A!TypeOK
      BY <2>5 DEF TypesOK
    <3> QED BY <2>2, <2>5, <3>1, Zenon
  <2>6. CASE machine = "chunks" /\ CInv
    <3>1. TypesOK = C!TypeOK
      BY <2>6 DEF TypesOK
    <3> QED BY <2>3, <2>6, <3>1, Zenon
  <2> QED BY <2>4, <2>5, <2>6, Zenon DEF TransportInv
<1> QED BY <1>1, TransportInvariant, PTL

(***************************************************************************)
(* guppy_insert_markers and server_send_message agree on every page, for   *)
(* every size of a chunk and number of the first one: the packets are the  *)
(* chunks that were laid out, and together the page; moving the page apart *)
(* in place destroys nothing that is still to be moved.                    *)
(***************************************************************************)
THEOREM TransportReassembled ==
  ASSUME TransportsAssumption
  PROVE  TransportSpec => []Reassembled
<1>1. TransportInv => Reassembled
  <2>1. CInv => C!Reassembled /\ C!FrontUntouched
    BY PageIsWhole, FrontIsPage DEF TransportsAssumption
  <2> QED BY <2>1 DEF TransportInv, Reassembled
<1> QED BY <1>1, TransportInvariant, PTL

(***************************************************************************)
(* For every number of peers, requests, chunks, faults and every order of  *)
(* visits, whether or not peers ask again: as long as no client is closed  *)
(* whose message waits (the code then leaves the owner as it is), each     *)
(* message is taken by a client of the peer that sent it, in the cycle in  *)
(* which it came; and again from when a client takes one left behind.      *)
(***************************************************************************)
THEOREM TransportNoMessageLeft ==
  ASSUME TransportsAssumption
  PROVE  TransportSpec => []NoMessageLeft
<1> DEFINE Heard == (machine = "guppy" => Awaited) /\ (machine = "again" => AP!Awaited)
<1>1. GuppyAssumption /\ AP!GuppyAssumption
  BY SameAssumption DEF TransportsAssumption
<1>2. TransportInit => Heard
  <2>1. Init => Awaited
    BY <1>1, AwaitedInvariant
  <2>2. A!Init => AP!Awaited
    BY <1>1, SameInit, AP!AwaitedInvariant
  <2> QED BY <2>1, <2>2 DEF TransportInit
<1>3. TransportInv /\ Heard /\ [TransportNext]_transportVars => Heard'
  <2> SUFFICES ASSUME TransportInv, Heard, [TransportNext]_transportVars PROVE Heard'
    OBVIOUS
  <2>1. machine' = machine
    BY DEF TransportNext, Datagrams, DatagramsAgain, Cutting, OnlyGuppy, transportVars
  <2>2. CASE machine = "guppy"
    <3>1. [Next]_vars
      BY <2>2 DEF TransportNext, Datagrams, DatagramsAgain, Cutting, OnlyGuppy, transportVars
    <3>2. IInv /\ Awaited
      BY <2>2 DEF TransportInv
    <3>3. Awaited'
      BY <1>1, <3>1, <3>2, AwaitedInvariant
    <3> QED BY <2>1, <2>2, <3>3
  <2>3. CASE machine = "again"
    <3>1. AP!IInv /\ AP!Awaited
      BY <2>3 DEF TransportInv
    <3>2. [AP!Next]_AP!vars
      BY <2>3, AgainSteps
    <3>3. AP!Awaited'
      BY <1>1, <3>1, <3>2, AP!AwaitedInvariant
    <3> QED BY <2>1, <2>3, <3>3
  <2>4. CASE machine \notin {"guppy", "again"}
    BY <2>1, <2>4
  <2> QED BY <2>2, <2>3, <2>4
<1>4. TransportInv /\ Heard => NoMessageLeft
  <2>1. IInv /\ Awaited => MessageTaken
    BY <1>1, AwaitedInvariant
  <2>2. AP!IInv /\ AP!Awaited => A!MessageTaken
    <3>1. AP!MessageTaken => A!MessageTaken
      BY Zenon DEF AP!MessageTaken, A!MessageTaken
    <3> QED BY <1>1, <3>1, AP!AwaitedInvariant
  <2>3. CASE machine = "guppy" /\ IInv
    BY <2>1, <2>3 DEF NoMessageLeft
  <2>4. CASE machine = "again" /\ AP!IInv
    BY <2>2, <2>4 DEF NoMessageLeft
  <2>5. CASE machine = "chunks" /\ CInv
    BY <2>5 DEF NoMessageLeft
  <2> QED BY <2>3, <2>4, <2>5 DEF TransportInv
<1> HIDE DEF Heard
<1> QED BY <1>2, <1>3, <1>4, TransportInvariant, PTL DEF TransportSpec

(* A step of Transports is one of Guppy, of the one with the constants of  *)
(* Again, or it leaves Guppy alone.                                        *)
LEMMA GuppySteps ==
  ASSUME TransportsAssumption, TransportInv, [TransportNext]_transportVars
  PROVE  \/ IInv /\ [Next]_vars
         \/ AP!IInv /\ [AP!Next]_vars
         \/ UNCHANGED vars
<1>1. CASE machine = "guppy" /\ IInv
  BY <1>1 DEF TransportNext, Datagrams, DatagramsAgain, Cutting, OnlyGuppy, transportVars
<1>2. CASE machine = "again" /\ AP!IInv
  <2>1. A!Orphaned => UNCHANGED vars
    BY DEF A!Orphaned, A!vars, vars, A!control, control, A!network, network, A!bounds, bounds
  <2>2. A!Next \/ UNCHANGED vars
    BY <1>2 DEF TransportNext, Datagrams, DatagramsAgain, Cutting, OnlyGuppy, transportVars
  <2> QED BY <1>2, <2>1, <2>2, SameServer, SameEvents, Zenon DEF A!Next, AP!Next
<1>3. CASE machine = "chunks"
  BY <1>3 DEF TransportNext, Datagrams, DatagramsAgain, Cutting, OnlyGuppy, transportVars
<1> QED BY <1>1, <1>2, <1>3 DEF TransportInv

(***************************************************************************)
(* Whether or not peers ask again: a client is closed as served only when  *)
(* its peer has every chunk.                                               *)
(***************************************************************************)
THEOREM TransportDelivered ==
  ASSUME TransportsAssumption
  PROVE  TransportSpec => Delivered
<1>1. TransportInv /\ [TransportNext]_transportVars => [ServedWhole]_vars
  <2>1. IInv /\ [Next]_vars => [ServedWhole]_vars
    BY ServedOnly DEF TransportsAssumption
  <2>2. AP!IInv /\ [AP!Next]_vars => [ServedWhole]_vars
    <3>1. AP!GuppyAssumption
      BY SameAssumption DEF TransportsAssumption
    <3>2. AP!IInv /\ [AP!Next]_vars => AP!ServedWhole \/ UNCHANGED vars
      <4>1. [AP!Next]_vars => AP!Next \/ UNCHANGED AP!vars
        BY DEF AP!vars, vars, AP!control, control, AP!network, network, AP!bounds, bounds
      <4>2. UNCHANGED AP!vars => UNCHANGED vars
        BY DEF AP!vars, vars, AP!control, control, AP!network, network, AP!bounds, bounds
      <4> QED BY <3>1, <4>1, <4>2, AP!ServedOnly
    <3>3. AP!ServedWhole => ServedWhole
      BY Zenon DEF AP!ServedWhole, ServedWhole, AP!Open, Open
    <3> QED BY <3>2, <3>3
  <2> QED BY <2>1, <2>2, GuppySteps
<1> QED BY <1>1, TransportInvariant, PTL DEF TransportSpec, Delivered

(***************************************************************************)
(* Whether or not peers ask again: a peer is given up only after all       *)
(* repetitions and the time between them.                                  *)
(***************************************************************************)
THEOREM TransportPatient ==
  ASSUME TransportsAssumption
  PROVE  TransportSpec => Patient
<1>1. TransportInv /\ [TransportNext]_transportVars => [GivenUpLate]_vars
  <2>1. IInv /\ [Next]_vars => [GivenUpLate]_vars
    BY GivenUpOnly DEF TransportsAssumption
  <2>2. AP!IInv /\ [AP!Next]_vars => [GivenUpLate]_vars
    <3>1. AP!GuppyAssumption
      BY SameAssumption DEF TransportsAssumption
    <3>2. AP!IInv /\ [AP!Next]_vars => AP!GivenUpLate \/ UNCHANGED vars
      <4>1. [AP!Next]_vars => AP!Next \/ UNCHANGED AP!vars
        BY DEF AP!vars, vars, AP!control, control, AP!network, network, AP!bounds, bounds
      <4>2. UNCHANGED AP!vars => UNCHANGED vars
        BY DEF AP!vars, vars, AP!control, control, AP!network, network, AP!bounds, bounds
      <4> QED BY <3>1, <4>1, <4>2, AP!GivenUpOnly
    <3>3. AP!GivenUpLate => GivenUpLate
      BY Zenon DEF AP!GivenUpLate, GivenUpLate, AP!Open, Open, AP!Cap, Cap
    <3> QED BY <3>2, <3>3
  <2> QED BY <2>1, <2>2, GuppySteps
<1> QED BY <1>1, TransportInvariant, PTL DEF TransportSpec, Patient
=============================================================================
