---------------------------- MODULE ProcessProofs ----------------------------
(***************************************************************************)
(* What surrounds the visit of a client, for every value of the constants: *)
(* the order of the visits (module Shuffle), errors on their way (Errors), *)
(* the connections that are accepted (Accepting), the sockets the server   *)
(* listens at (Listening) and the log files (Output).  Then module         *)
(* Process, of which every behaviour is one of one of them or of the clock *)
(* (module Timeouts, proved in ClockProofs).                               *)
(***************************************************************************)
EXTENDS Process, FiniteSetTheorems, FunctionTheorems, SequenceTheorems, NumberInduction

-----------------------------------------------------------------------------
(* The order of the visits.                                                *)

\* The order is a permutation: no client has two turns and each has one.
Permutation ==
  /\ \A p, q \in S!Places : shuffle_index[p] = shuffle_index[q] => p = q
  /\ \A c \in S!Places : \E p \in S!Places : shuffle_index[p] = c

ShuffleTypes ==
  /\ size \in 0 .. MaxClients /\ turn \in 0 .. size /\ pc \in {"poll", "shuffle", "visit"}
  /\ shuffle_index \in [S!Places -> S!Places]
  /\ visits \in [S!Places -> {0, 1}]

\* Visited is who had a turn before i.
Turns ==
  /\ pc = "shuffle" => turn \in 1 .. size - 1 /\ \A c \in S!Places : visits[c] = 0
  /\ pc = "visit" => \A p \in S!Places : visits[shuffle_index[p]] = IF p < turn THEN 1 ELSE 0
  /\ pc = "poll" => \A c \in S!Places : visits[c] = 1

SInv == ShuffleTypes /\ Permutation /\ Turns

\* All that is needed of the constants.
LEMMA ShuffleBounds == S!ShuffleAssumption
  BY ProcessAssumption

LEMMA ClientLimit == MaxClients \in Nat \ {0}
  BY ShuffleBounds DEF S!ShuffleAssumption

\* The server starts without clients.
LEMMA ShuffleInit == S!Init => SInv
  BY ClientLimit DEF S!Init, SInv, ShuffleTypes, Permutation, Turns, S!Places

\* A new cycle begins with every client at its own place.
LEMMA ShufflePoll == SInv /\ S!poll => SInv'
<1> SUFFICES ASSUME SInv, S!poll PROVE SInv'
  OBVIOUS
<1>1. size' \in 0 .. MaxClients /\ size' \in Nat
  BY ClientLimit DEF S!poll
<1>10. (size' = 0 => turn' = 0) /\ (size' # 0 => turn' = size' - 1)
  BY DEF S!poll, S!FirstStep
<1>2. shuffle_index' = [p \in S!Places' |-> p] /\ visits' = [p \in S!Places' |-> 0]
  BY DEF S!poll, S!Places
<1>3. pc' = IF size' <= 1 THEN "visit" ELSE "shuffle"
  BY DEF S!poll
<1>4. ShuffleTypes'
  <2>1. turn' \in 0 .. size' /\ pc' \in {"poll", "shuffle", "visit"}
    BY <1>1, <1>10, <1>3
  <2>2. shuffle_index' \in [S!Places' -> S!Places'] /\ visits' \in [S!Places' -> {0, 1}]
    BY <1>2
  <2> QED
    BY <1>1, <2>1, <2>2 DEF ShuffleTypes
<1>5. Permutation'
  BY <1>2 DEF Permutation
<1>6. Turns'
  <2>1. \A c \in S!Places' : visits'[c] = 0 /\ shuffle_index'[c] = c
    BY <1>2
  <2>2. pc' = "shuffle" => turn' \in 1 .. size' - 1
    BY <1>1, <1>10, <1>3
  <2>3. pc' = "visit" => turn' = 0
    BY <1>1, <1>10, <1>3
  <2>4. \A p \in S!Places' : ~(p < 0)
    BY <1>1, ClientLimit DEF S!Places
  <2> QED
    BY <1>3, <2>1, <2>2, <2>3, <2>4 DEF Turns
<1> QED
  BY <1>4, <1>5, <1>6 DEF SInv

\* Exchanging two turns leaves a permutation.
LEMMA ShuffleSwap == SInv /\ S!clients_shuffle => SInv'
<1> SUFFICES ASSUME SInv, S!clients_shuffle PROVE SInv'
  OBVIOUS
<1> USE ClientLimit
<1>1. turn \in 1 .. size - 1 /\ size \in Nat /\ UNCHANGED <<size, visits>>
  BY DEF SInv, ShuffleTypes, Turns, S!clients_shuffle
<1>2. PICK j \in 0 .. turn : shuffle_index' = S!Swapped(turn, j)
  BY <1>1 DEF S!clients_shuffle, S!OutcomeNumber
<1>3. S!Places' = S!Places /\ turn \in S!Places /\ j \in S!Places
  BY <1>1 DEF S!Places
<1>4. /\ DOMAIN shuffle_index' = S!Places
      /\ \A p \in S!Places : shuffle_index'[p] = IF p = j THEN shuffle_index[turn]
                                               ELSE IF p = turn THEN shuffle_index[j] ELSE shuffle_index[p]
  BY <1>2, <1>3 DEF S!Swapped, SInv, ShuffleTypes
<1>5. turn' = turn - 1 /\ pc' = IF turn = 1 THEN "visit" ELSE "shuffle"
  BY DEF S!clients_shuffle
<1>6. shuffle_index' \in [S!Places -> S!Places]
  <2>1. shuffle_index' = [p \in S!Places |-> shuffle_index'[p]]
    BY <1>2, <1>3 DEF S!Swapped, SInv, ShuffleTypes
  <2> QED
    BY <2>1, <1>3, <1>4 DEF SInv, ShuffleTypes
<1>7. ShuffleTypes'
  BY <1>1, <1>3, <1>5, <1>6 DEF SInv, ShuffleTypes
<1>8. Permutation'
  <2>1. ASSUME NEW p \in S!Places, NEW q \in S!Places, shuffle_index'[p] = shuffle_index'[q]
        PROVE  p = q
    BY <2>1, <1>3, <1>4 DEF SInv, Permutation
  <2>2. ASSUME NEW c \in S!Places
        PROVE  \E p \in S!Places : shuffle_index'[p] = c
    <3>1. PICK p \in S!Places : shuffle_index[p] = c
      BY <2>2 DEF SInv, Permutation
    <3>2. CASE p = turn
      BY <3>1, <3>2, <1>3, <1>4
    <3>3. CASE p = j
      BY <3>1, <3>3, <1>3, <1>4
    <3>4. CASE p # turn /\ p # j
      BY <3>1, <3>4, <1>4
    <3> QED
      BY <3>2, <3>3, <3>4
  <2> QED
    BY <2>1, <2>2, <1>3 DEF Permutation
<1>9. Turns'
  <2>1. \A c \in S!Places : visits'[c] = 0
    BY <1>1 DEF SInv, Turns, S!clients_shuffle
  <2>2. \A p \in S!Places : visits'[shuffle_index'[p]] = 0 /\ ~(p < 0)
    BY <1>1, <1>6, <2>1 DEF S!Places
  <2>3. pc' = "shuffle" => turn' \in 1 .. size - 1
    BY <1>1, <1>5
  <2>4. pc' = "visit" => turn' = 0
    BY <1>1, <1>5
  <2> QED
    BY <1>1, <1>3, <1>5, <2>1, <2>2, <2>3, <2>4 DEF Turns
<1> QED
  BY <1>7, <1>8, <1>9 DEF SInv

\* The client whose turn it is was not visited before.
LEMMA ShuffleVisit == SInv /\ S!server_process_clients => SInv'
<1> SUFFICES ASSUME SInv, S!server_process_clients PROVE SInv'
  OBVIOUS
<1>1. /\ pc = "visit" /\ UNCHANGED <<size, shuffle_index>> /\ S!Places' = S!Places
      /\ size \in Nat /\ turn \in 0 .. size
  BY ClientLimit DEF SInv, ShuffleTypes, S!server_process_clients, S!Places
<1>2. Permutation'
  BY <1>1 DEF SInv, Permutation
<1>3. CASE turn = size
  <2>1. pc' = "poll" /\ UNCHANGED <<turn, visits>>
    BY <1>3 DEF S!server_process_clients, S!Finished
  <2>2. \A c \in S!Places : visits[c] = 1
    BY <1>1, <1>3 DEF SInv, Turns, Permutation, S!Places
  <2> QED
    BY <1>1, <1>2, <2>1, <2>2 DEF SInv, ShuffleTypes, Turns
<1>4. CASE turn # size
  <2>1. turn \in S!Places /\ turn' = turn + 1 /\ pc' = "visit"
        /\ visits' = [visits EXCEPT ![shuffle_index[turn]] = @ + 1]
    BY <1>1, <1>4 DEF S!server_process_clients, S!Finished, S!Places
  <2>2. shuffle_index[turn] \in S!Places /\ visits[shuffle_index[turn]] = 0
    BY <1>1, <2>1 DEF SInv, ShuffleTypes, Turns
  <2>3. visits' = [visits EXCEPT ![shuffle_index[turn]] = 1]
    BY <2>1, <2>2
  <2>4. ShuffleTypes'
    BY <1>1, <2>1, <2>2, <2>3 DEF SInv, ShuffleTypes, S!Places
  <2>5. ASSUME NEW p \in S!Places
        PROVE  visits'[shuffle_index[p]] = IF p < turn + 1 THEN 1 ELSE 0
    <3>1. shuffle_index[p] \in S!Places /\ visits[shuffle_index[p]] = IF p < turn THEN 1 ELSE 0
      BY <1>1 DEF SInv, ShuffleTypes, Turns
    <3>2. CASE p = turn
      BY <3>2, <2>2, <2>3, <1>1 DEF SInv, ShuffleTypes
    <3>3. CASE p # turn
      <4>1. shuffle_index[p] # shuffle_index[turn]
        BY <3>3, <2>1 DEF SInv, Permutation
      <4>2. visits'[shuffle_index[p]] = visits[shuffle_index[p]]
        BY <4>1, <3>1, <2>2, <2>3 DEF SInv, ShuffleTypes
      <4> QED
        BY <4>2, <3>1, <3>3, <1>1 DEF S!Places
    <3> QED
      BY <3>2, <3>3
  <2> QED
    BY <1>1, <1>2, <2>1, <2>4, <2>5 DEF SInv, Turns
<1> QED
  BY <1>3, <1>4

LEMMA ShuffleNext == SInv /\ [S!Next]_(S!vars) => SInv'
<1> SUFFICES ASSUME SInv, [S!Next]_(S!vars) PROVE SInv'
  OBVIOUS
<1>1. CASE S!poll
  BY <1>1, ShufflePoll
<1>2. CASE S!clients_shuffle
  BY <1>2, ShuffleSwap
<1>3. CASE S!server_process_clients
  BY <1>3, ShuffleVisit
<1>4. CASE UNCHANGED S!vars
  BY <1>4 DEF S!vars, SInv, ShuffleTypes, Permutation, Turns, S!Places
<1> QED
  BY <1>1, <1>2, <1>3, <1>4 DEF S!Next

\* SInv holds in every reachable state.
THEOREM ShuffleInvariant == S!Spec => []SInv
<1>1. SInv /\ [S!Next]_(S!vars) => SInv'
  BY ShuffleNext
<1> QED
  BY ShuffleInit, <1>1, PTL DEF S!Spec

LEMMA ShuffleTypeOKHolds == SInv => S!TypeOK
  BY ClientLimit DEF SInv, ShuffleTypes, Turns, S!TypeOK, S!Places

\* clients_shuffle and the loop of server_process_clients stay in the array.
THEOREM ShuffleTypeOK == S!Spec => []S!TypeOK
<1>1. SInv => S!TypeOK
  BY ShuffleTypeOKHolds
<1> QED
  BY <1>1, ShuffleInvariant, PTL

LEMMA ShuffleEveryOnceHolds == SInv => S!EveryOnce
  BY DEF SInv, Turns, S!EveryOnce

\* A cycle visits every client, and none of them twice.
THEOREM ShuffleEveryOnce == S!Spec => []S!EveryOnce
<1>1. SInv => S!EveryOnce
  BY ShuffleEveryOnceHolds
<1> QED
  BY <1>1, ShuffleInvariant, PTL

-----------------------------------------------------------------------------
\* Division with a remainder.
LEMMA DivMod ==
  ASSUME NEW n \in Nat \ {0}, NEW x \in Nat
  PROVE  x = n * (x \div n) + (x % n) /\ x % n \in 0 .. n - 1 /\ x \div n \in Nat
<1>1. x % n \in 0 .. n - 1
  BY SMT
<1>2. x \div n \in Nat
  BY SMT
<1>3. x = n * (x \div n) + (x % n)
  BY SMT
<1> QED
  BY <1>1, <1>2, <1>3

LEMMA Remainder ==
  ASSUME NEW n \in Nat \ {0}, NEW k \in Nat, NEW j \in 0 .. n - 1
  PROVE  (n * k + j) % n = j
  BY SMTT(30)

LEMMA Monotonic ==
  ASSUME NEW n \in Nat \ {0}, NEW k \in Int, NEW l \in Int, k < l
  PROVE  n * k + n <= n * l
  BY SMTT(30)

\* The numbers of rand() that are accepted are q times as many as outcomes.
LEMMA Accepted ==
  ASSUME NEW n \in 2 .. RAND_MAX + 1
  PROVE  \E q \in Nat \ {0} : n * q <= RAND_MAX + 1 /\ \A buffer \in Int : S!Accepts(buffer, n) <=> buffer < n * q
<1> DEFINE a == RAND_MAX \div n
           r == RAND_MAX % n
<1>1. RAND_MAX \in Nat /\ n \in Nat \ {0}
  BY ShuffleBounds DEF S!ShuffleAssumption
<1>2. RAND_MAX = n * a + r /\ r \in 0 .. n - 1 /\ a \in Nat
  BY <1>1, DivMod
<1>3. S!MaxBuffer(n) = RAND_MAX /\ S!RejectNumber(n) = IF r + 1 = n THEN 0 ELSE r + 1
  BY <1>1 DEF S!MaxBuffer, S!RejectNumber
<1> HIDE DEF a, r
<1>4. CASE r + 1 = n
  <2>1. a + 1 \in Nat \ {0} /\ n * (a + 1) = n * a + n
    BY <1>1, <1>2
  <2>2. RAND_MAX + 1 = n * (a + 1)
    BY <1>1, <1>2, <1>4, <2>1
  <2>3. ASSUME NEW buffer \in Int
        PROVE  S!Accepts(buffer, n) <=> buffer < n * (a + 1)
    BY <1>1, <1>3, <1>4, <2>2 DEF S!Accepts
  <2> QED
    BY <1>1, <2>1, <2>2, <2>3
<1>5. CASE r + 1 # n
  <2>1. n * a \in Nat /\ n * a + r + 1 = RAND_MAX + 1
    BY <1>1, <1>2
  <2>2. a # 0
    <3>1. a = 0 => n * a = 0
      BY <1>1
    <3> QED
      BY <1>1, <1>2, <1>5, <2>1, <3>1
  <2>3. ASSUME NEW buffer \in Int
        PROVE  S!Accepts(buffer, n) <=> buffer < n * a
    BY <1>1, <1>2, <1>3, <1>5, <2>1 DEF S!Accepts
  <2>4. a \in Nat \ {0} /\ n * a <= RAND_MAX + 1
    BY <1>1, <1>2, <2>1, <2>2
  <2> QED
    BY <2>3, <2>4
<1> QED
  BY <1>4, <1>5

\* Every outcome has as many numbers as any other one: one for each k below q.
\* The library is instantiated with Shuffle.
LEMMA SameCardinality == ASSUME NEW D PROVE S!Cardinality(D) = Cardinality(D)
  BY Zenon DEF S!Cardinality, Cardinality

LEMMA EquallyMany ==
  ASSUME NEW n \in 2 .. RAND_MAX + 1
  PROVE  \E q \in Nat \ {0} : \A j \in 0 .. n - 1 :
           S!Draws(n, j) # {} /\ S!Cardinality(S!Draws(n, j)) = q
<1>1. RAND_MAX \in Nat /\ n \in Nat \ {0} /\ n # 1
  BY ShuffleBounds DEF S!ShuffleAssumption
<1>2. PICK q \in Nat \ {0} :
        n * q <= RAND_MAX + 1 /\ \A buffer \in Int : S!Accepts(buffer, n) <=> buffer < n * q
  BY Accepted
<1> SUFFICES ASSUME NEW j \in 0 .. n - 1
             PROVE  S!Draws(n, j) # {} /\ S!Cardinality(S!Draws(n, j)) = q
  OBVIOUS
<1>3. ASSUME NEW k \in 0 .. q - 1
      PROVE  n * k + j \in S!Draws(n, j)
  <2>1. k \in Nat /\ k < q /\ q \in Int
    BY <1>2
  <2>2. n * k + n <= n * q
    BY <1>1, <2>1, Monotonic
  <2>3. n * k \in Nat /\ n * q \in Nat
    BY <1>1, <1>2, <2>1
  <2>4. n * k + j \in 0 .. RAND_MAX /\ n * k + j < n * q /\ n * k + j \in Int
    BY <1>1, <1>2, <2>2, <2>3
  <2>5. (n * k + j) % n = j
    BY <1>1, <2>1, Remainder
  <2>6. S!Accepts(n * k + j, n)
    BY <1>2, <2>4
  <2> QED
    BY <1>1, <2>4, <2>5, <2>6 DEF S!Draws, S!MaxBuffer
<1>4. ASSUME NEW b \in S!Draws(n, j)
      PROVE  b \div n \in 0 .. q - 1 /\ b = n * (b \div n) + j
  <2>1. b \in Nat /\ b % n = j /\ b < n * q
    BY <1>1, <1>2 DEF S!Draws, S!MaxBuffer
  <2>2. b = n * (b \div n) + j /\ b \div n \in Nat
    BY <1>1, <2>1, DivMod
  <2>3. PICK k \in Nat : k = b \div n
    BY <2>2
  <2>4. k < q
    <3> SUFFICES ASSUME ~ (k < q) PROVE FALSE
      OBVIOUS
    <3>1. CASE k = q
      BY <1>1, <1>2, <2>1, <2>2, <2>3, <3>1
    <3>2. CASE q < k
      <4>1. n * q + n <= n * k /\ n * q \in Nat /\ n * k \in Nat
        BY <1>1, <1>2, <3>2, Monotonic
      <4> QED
        BY <1>1, <2>1, <2>2, <2>3, <4>1
    <3> QED
      BY <1>2, <3>1, <3>2
  <2> QED
    BY <1>2, <2>2, <2>3, <2>4
<1> DEFINE f == [k \in 0 .. q - 1 |-> n * k + j]
<1>5. ASSUME NEW k \in 0 .. q - 1, NEW l \in 0 .. q - 1, n * k + j = n * l + j
      PROVE  k = l
  <2>1. n * k \in Nat /\ n * l \in Nat /\ k \in Int /\ l \in Int
    BY <1>1, <1>2
  <2>2. ~ (k < l)
    BY <1>1, <1>5, <2>1, Monotonic
  <2>3. ~ (l < k)
    BY <1>1, <1>5, <2>1, Monotonic
  <2> QED
    BY <2>1, <2>2, <2>3
<1>6. f \in Bijection(0 .. q - 1, S!Draws(n, j))
  <2>1. f \in [0 .. q - 1 -> S!Draws(n, j)]
    BY <1>3
  <2>2. \A k, l \in 0 .. q - 1 : f[k] = f[l] => k = l
    BY <1>5
  <2>3. ASSUME NEW b \in S!Draws(n, j)
        PROVE  \E k \in 0 .. q - 1 : f[k] = b
    BY <1>4
  <2> HIDE DEF f
  <2>4. f \in Injection(0 .. q - 1, S!Draws(n, j))
    BY <2>1, <2>2 DEF Injection, IsInjective
  <2>5. f \in Surjection(0 .. q - 1, S!Draws(n, j))
    BY <2>1, <2>3 DEF Surjection
  <2> QED
    BY <2>4, <2>5 DEF Bijection
<1>7. ExistsBijection(0 .. q - 1, S!Draws(n, j))
  <2> HIDE DEF f
  <2> QED
    BY <1>6 DEF ExistsBijection
<1>8. IsFiniteSet(0 .. q - 1) /\ Cardinality(0 .. q - 1) = q
  BY <1>2, FS_Interval
<1>9. S!Cardinality(S!Draws(n, j)) = q
  <2>1. Cardinality(S!Draws(n, j)) = q
    BY <1>7, <1>8, FS_Bijection
  <2> QED
    BY <2>1, SameCardinality
<1>10. 0 \in 0 .. q - 1
  BY <1>2
<1> QED
  BY <1>3, <1>9, <1>10

LEMMA ShuffleUnbiasedHolds == SInv => S!Unbiased
<1> SUFFICES ASSUME SInv PROVE S!Unbiased
  OBVIOUS
<1> DEFINE waiting == S!Places \ {shuffle_index[p] : p \in turn + 1 .. size - 1}
           Chances(c) ==
             UNION {S!Draws(S!OutcomeNumber, j) : j \in {k \in 0 .. S!OutcomeNumber - 1 : shuffle_index[k] = c}}
<1> SUFFICES ASSUME pc = "shuffle", NEW c \in waiting, NEW d \in waiting
             PROVE  Chances(c) # {} /\ S!Cardinality(Chances(c)) = S!Cardinality(Chances(d))
  BY DEF S!Unbiased
<1>1. turn \in 1 .. size - 1 /\ size \in 0 .. MaxClients /\ MaxClients \in 1 .. RAND_MAX + 1 /\ RAND_MAX \in Nat
  BY ShuffleBounds DEF S!ShuffleAssumption, SInv, ShuffleTypes, Turns
<1>2. S!OutcomeNumber \in 2 .. RAND_MAX + 1 /\ S!OutcomeNumber = turn + 1
  BY <1>1 DEF S!OutcomeNumber
<1>3. PICK q \in Nat \ {0} : \A j \in 0 .. S!OutcomeNumber - 1 :
        S!Draws(S!OutcomeNumber, j) # {} /\ S!Cardinality(S!Draws(S!OutcomeNumber, j)) = q
  BY <1>2, EquallyMany
<1>4. ASSUME NEW e \in waiting
      PROVE  Chances(e) # {} /\ S!Cardinality(Chances(e)) = q
  <2>1. PICK p \in S!Places : shuffle_index[p] = e
    BY DEF SInv, Permutation
  <2>2. p \in 0 .. S!OutcomeNumber - 1
    BY <1>2, <2>1 DEF S!Places
  <2>3. {k \in 0 .. S!OutcomeNumber - 1 : shuffle_index[k] = e} = {p}
    <3>1. \A k \in 0 .. S!OutcomeNumber - 1 : k \in S!Places
      BY <1>1, <1>2 DEF S!Places
    <3>2. \A k \in S!Places : shuffle_index[k] = e => k = p
      BY <2>1 DEF SInv, Permutation
    <3> QED
      BY <2>1, <2>2, <3>1, <3>2
  <2>4. Chances(e) = S!Draws(S!OutcomeNumber, p)
    BY <2>3
  <2> QED
    BY <1>3, <2>2, <2>4
<1> QED
  BY <1>4

\* random_rand gives every client that has no turn yet the same chance of the
\* next one: the numbers that it accepts are a multiple of the outcomes, and
\* the clients that wait are at different places of what is still unshuffled.
THEOREM ShuffleUnbiased == S!Spec => []S!Unbiased
<1>1. SInv => S!Unbiased
  BY ShuffleUnbiasedHolds
<1> QED
  BY <1>1, ShuffleInvariant, PTL

-----------------------------------------------------------------------------
(* Errors on their way.                                                    *)

\* The list and the allocated messages.
Chained ==
  /\ chain \in Seq(1 .. MaxFrames) /\ Len(chain) <= MaxFrames
  /\ pc \in {"run", "exit"} => live = {} /\ chain = <<>>
  /\ pc \notin {"run", "exit"} => live = {chain[k] : k \in 1 .. Len(chain)}
  /\ pc \in {"return", "die"} /\ cause # 0 => chain # <<>> /\ chain[Len(chain)] = cause

\* What is done follows from what was raised.
Handled ==
  /\ raised \in E!Raised \cup {[action |-> {}, fixed |-> {}]}
  /\ pc \in {"return", "die"} => raised \in E!Raised /\ flags = E!Flags(raised)
  /\ pc \in {"die", "exit"} => E!DIE \in raised.action
  /\ pc = "run" /\ done # E!Nothing => client.dead \/ done.effects = {E!SEND, E!SHUTDOWN, E!LOG}

ErrorTypes ==
  /\ pc \in {"run", "return", "die", "exit", "crash"} /\ end \in {"OK", "PANIC"}
  /\ flags \subseteq 0 .. 8 /\ client \in [ssl : BOOLEAN, dead : BOOLEAN]
  /\ done.effects \subseteq E!Actions /\ done.messages \subseteq E!FixedResponses

EInv == Chained /\ Handled /\ ErrorTypes

\* What the code raises: an error ends its client or the server, and only the
\* flag for it ends the server.
LEMMA RaisedFlags ==
  ASSUME NEW r \in E!Raised
  PROVE  /\ E!Flags(r) \subseteq 0 .. 8
         /\ E!SHUTDOWN \in E!Flags(r) \/ E!CLOSE \in E!Flags(r) \/ E!DIE \in E!Flags(r)
         /\ E!DIE \in E!Flags(r) => E!DIE \in r.action
<1> USE DEF E!SEND, E!SHUTDOWN, E!CLOSE, E!LOG, E!DIE
<1>1. CASE \E a \in {{E!SHUTDOWN, E!LOG}, {E!CLOSE, E!LOG}, {E!CLOSE, E!LOG, E!DIE}, {E!DIE}} :
             r = [action |-> a, fixed |-> {}]
  BY <1>1 DEF E!Flags
<1> DEFINE fixed == {{8, 1}, {8, 1, 0}, {8, 2}, {8, 2, 0}, {8, 2, 1}, {8, 2, 1, 0}}
<1>2. CASE \E f \in fixed : r = [action |-> {E!SEND, E!SHUTDOWN, E!LOG}, fixed |-> f]
  BY <1>2 DEF E!Flags
<1>3. CASE \E f \in fixed : r = [action |-> {E!SEND, E!CLOSE, E!LOG}, fixed |-> f]
  BY <1>3 DEF E!Flags
<1>4. \/ \E a \in {{E!SHUTDOWN, E!LOG}, {E!CLOSE, E!LOG}, {E!CLOSE, E!LOG, E!DIE}, {E!DIE}} :
           r = [action |-> a, fixed |-> {}]
      \/ \E f \in fixed : r = [action |-> {E!SEND, E!SHUTDOWN, E!LOG}, fixed |-> f]
      \/ \E f \in fixed : r = [action |-> {E!SEND, E!CLOSE, E!LOG}, fixed |-> f]
  BY DEF E!Raised, E!FR_UNKNOWN, E!FR_REQUEST_INVALID, E!FR_MAX_AVAILABLE_REQUEST_STREAM,
         E!FR_MAX_REQUEST_HEADER_SIZE, E!FR_MAX_REQUEST_CONTENT_SIZE, E!FR_MAX_INCOMPLETE_REQUEST_TIME
<1> QED
  BY <1>1, <1>2, <1>3, <1>4

\* What a list holds is of the set it is over.
LEMMA Elements ==
  ASSUME NEW D, NEW s \in Seq(D)
  PROVE  \A k \in 1 .. Len(s) : s[k] \in D
OBVIOUS

\* malloc() returns what is not in use.
LEMMA NewMessageIsNew ==
  ASSUME E!ErrorsAssumption, NEW s \in Seq(Int), Len(s) < MaxFrames, NEW used, used = {s[k] : k \in 1 .. Len(s)}
  PROVE  E!NewMessage(used) \in 1 .. MaxFrames /\ E!NewMessage(used) \notin used
<1>1. Len(s) \in Nat /\ IsFiniteSet(1 .. Len(s)) /\ Cardinality(1 .. Len(s)) = Len(s)
  <2>1. Len(s) \in Nat /\ Len(s) \in Int /\ 1 \in Int
    OBVIOUS
  <2>2. IsFiniteSet(1 .. Len(s)) /\ Cardinality(1 .. Len(s)) = IF 1 > Len(s) THEN 0 ELSE Len(s) - 1 + 1
    BY <2>1, FS_Interval, Zenon
  <2> QED BY <2>1, <2>2
<1>2. IsFiniteSet(used) /\ Cardinality(used) <= Len(s)
  <2> DEFINE f == [k \in 1 .. Len(s) |-> s[k]]
  <2>1. f \in Surjection(1 .. Len(s), used)
    BY DEF Surjection
  <2> HIDE DEF f
  <2> QED BY <1>1, <2>1, FS_Surjection
<1>3. \E m \in 1 .. MaxFrames : m \notin used
  <2> SUFFICES ASSUME 1 .. MaxFrames \subseteq used PROVE FALSE
    OBVIOUS
  <2>1. MaxFrames \in Nat /\ Cardinality(1 .. MaxFrames) = MaxFrames
    BY FS_Interval DEF E!ErrorsAssumption
  <2>2. Cardinality(1 .. MaxFrames) <= Cardinality(used)
    BY <1>2, FS_Subset
  <2>3. Cardinality(used) \in Nat
    BY <1>2, FS_CardinalityType
  <2> QED BY <1>1, <1>2, <2>1, <2>2, <2>3
<1> QED
  BY <1>3 DEF E!NewMessage

LEMMA ErrorsInit == E!ErrorsAssumption /\ E!Init => EInv
<1> SUFFICES ASSUME E!ErrorsAssumption, E!Init PROVE EInv
  OBVIOUS
<1>1. chain = <<>> /\ chain \in Seq(1 .. MaxFrames) /\ Len(chain) = 0 /\ live = {} /\ pc = "run"
  BY DEF E!Init
<1>2. Chained
  BY <1>1 DEF Chained, E!ErrorsAssumption
<1>3. Handled
  BY DEF Handled, E!Init
<1>4. ErrorTypes
  BY DEF ErrorTypes, E!Init, E!Nothing
<1> QED
  BY <1>2, <1>3, <1>4 DEF EInv

\* A first message, when nothing else is allocated.
LEMMA FirstMessage ==
  ASSUME E!ErrorsAssumption, EInv, NEW r \in E!Raised, E!exerror_internal_allocate(r, {}), UNCHANGED client
  PROVE  EInv'
<1> DEFINE m == E!NewMessage({})
<1>1. m \in 1 .. MaxFrames /\ MaxFrames \in Nat \ {0}
  <2>1. {} = {<<>>[k] : k \in 1 .. Len(<<>>)} /\ <<>> \in Seq(Int) /\ Len(<<>>) < MaxFrames
    BY DEF E!ErrorsAssumption
  <2>2. m \in 1 .. MaxFrames
    BY <2>1, NewMessageIsNew, Zenon
  <2> QED BY <2>2 DEF E!ErrorsAssumption
<1>2. /\ flags' = E!Flags(r) /\ raised' = r /\ pc' = "return" /\ done' = E!Nothing
      /\ \/ live' = {m} /\ chain' = <<m>> /\ end' = "OK" /\ cause' = m
         \/ live' = {} /\ chain' = <<>> /\ end' = "PANIC" /\ cause' = 0
  BY DEF E!exerror_internal_allocate
<1> HIDE DEF m
<1>3. Chained'
  <2>1. CASE live' = {m} /\ chain' = <<m>> /\ cause' = m
    <3>1. Len(chain') = 1 /\ chain'[1] = m /\ chain' \in Seq(1 .. MaxFrames) /\ chain' # <<>>
      BY <1>1, <2>1
    <3>2. live' = {chain'[k] : k \in 1 .. Len(chain')}
      BY <2>1, <3>1
    <3> QED BY <1>1, <1>2, <2>1, <3>1, <3>2 DEF Chained
  <2>2. CASE live' = {} /\ chain' = <<>> /\ cause' = 0
    <3>1. Len(chain') = 0 /\ chain' \in Seq(1 .. MaxFrames)
      BY <2>2
    <3> QED BY <1>1, <1>2, <2>2, <3>1 DEF Chained
  <2> QED BY <1>2, <2>1, <2>2
<1>4. Handled'
  BY <1>2 DEF Handled
<1>5. ErrorTypes'
  BY <1>2, RaisedFlags DEF EInv, ErrorTypes, E!Nothing
<1> QED
  BY <1>3, <1>4, <1>5 DEF EInv

\* Freeing the list frees all.
LEMMA AllOfTheList ==
  ASSUME EInv, pc = "return" \/ pc = "die"
  PROVE  live \ E!error_finalize = {}
<1>1. E!error_finalize = {chain[k] : k \in DOMAIN chain} /\ DOMAIN chain = 1 .. Len(chain)
  BY DEF E!error_finalize, E!Range, EInv, Chained
<1> QED
  BY <1>1 DEF EInv, Chained

LEMMA FailsStep ==
  ASSUME E!ErrorsAssumption, EInv, NEW r \in E!Raised, E!Fails(r)
  PROVE  EInv'
  BY FirstMessage DEF E!Fails, EInv, Chained

LEMMA RecoveryStep ==
  ASSUME E!ErrorsAssumption, EInv, E!server_process_client_round_recovery
  PROVE  EInv'
<1>1. live \ E!error_finalize = {} /\ UNCHANGED client
  BY AllOfTheList DEF E!server_process_client_round_recovery
<1>2. PICK a \in {{E!CLOSE, E!LOG}, {E!CLOSE, E!LOG, E!DIE}, {E!DIE}} :
        E!exerror_internal_allocate([action |-> a, fixed |-> {}], {})
  BY <1>1 DEF E!server_process_client_round_recovery
<1>3. [action |-> a, fixed |-> {}] \in E!Raised
  BY DEF E!Raised
<1> QED
  BY <1>1, <1>2, <1>3, FirstMessage

\* A message in front of the list, or another end.
LEMMA AppendStep ==
  ASSUME E!ErrorsAssumption, EInv, E!exerror_internal_allocate_append
  PROVE  EInv'
<1> DEFINE m == E!NewMessage(live)
<1>1. /\ pc \in {"return", "die"} /\ Len(chain) < MaxFrames /\ UNCHANGED <<pc, flags, cause, raised, client, done>>
      /\ \/ live' = live \cup {m} /\ chain' = <<m>> \o chain /\ UNCHANGED end
         \/ end' = "PANIC" /\ UNCHANGED <<live, chain>>
  BY DEF E!exerror_internal_allocate_append
<1>2. chain \in Seq(1 .. MaxFrames) /\ Len(chain) \in Nat /\ MaxFrames \in Nat /\ live = {chain[k] : k \in 1 .. Len(chain)}
  BY <1>1 DEF EInv, Chained, E!ErrorsAssumption
<1>3. m \in 1 .. MaxFrames
  <2>1. chain \in Seq(Int)
    BY <1>2
  <2> QED BY <1>1, <1>2, <2>1, NewMessageIsNew
<1> HIDE DEF m
<1>4. Handled' /\ ErrorTypes'
  BY <1>1 DEF EInv, Handled, ErrorTypes
<1>5. Chained'
  <2>1. CASE UNCHANGED <<live, chain>>
    BY <1>1, <2>1 DEF EInv, Chained
  <2>2. CASE live' = live \cup {m} /\ chain' = <<m>> \o chain
    <3>1. /\ chain' \in Seq(1 .. MaxFrames) /\ Len(chain') = Len(chain) + 1
          /\ chain'[1] = m /\ \A k \in 2 .. Len(chain) + 1 : chain'[k] = chain[k - 1]
      BY <1>2, <1>3, <2>2
    <3>2. {chain'[k] : k \in 1 .. Len(chain')} = live \cup {m}
      <4>1. ASSUME NEW k \in 1 .. Len(chain) PROVE chain[k] \in {chain'[j] : j \in 1 .. Len(chain')}
        <5>1. k + 1 \in 2 .. Len(chain) + 1 /\ k + 1 \in 1 .. Len(chain') /\ (k + 1) - 1 = k
          BY <1>2, <3>1
        <5>2. chain'[k + 1] = chain[k]
          BY <3>1, <5>1
        <5> QED BY <5>1, <5>2
      <4>2. ASSUME NEW k \in 1 .. Len(chain') PROVE chain'[k] \in live \cup {m}
        <5>1. CASE k = 1
          BY <3>1, <5>1
        <5>2. CASE k # 1
          <6>1. k \in 2 .. Len(chain) + 1 /\ k - 1 \in 1 .. Len(chain)
            BY <1>2, <3>1, <5>2
          <6>2. chain'[k] = chain[k - 1]
            BY <3>1, <6>1
          <6> QED BY <1>2, <6>1, <6>2
        <5> QED BY <5>1, <5>2
      <4>3. m \in {chain'[j] : j \in 1 .. Len(chain')}
        BY <1>2, <3>1
      <4> QED BY <1>2, <4>1, <4>2, <4>3
    <3>3. cause # 0 => chain'[Len(chain')] = cause
      <4> SUFFICES ASSUME cause # 0 PROVE chain'[Len(chain')] = cause
        OBVIOUS
      <4>1. Len(chain) >= 1 /\ chain[Len(chain)] = cause
        BY <1>1, <1>2 DEF EInv, Chained
      <4>2. Len(chain) + 1 \in 2 .. Len(chain) + 1 /\ (Len(chain) + 1) - 1 = Len(chain)
        BY <1>2, <4>1
      <4>3. chain'[Len(chain) + 1] = chain[Len(chain)]
        BY <3>1, <4>2
      <4> QED BY <3>1, <4>1, <4>3
    <3>4. chain' # <<>> /\ Len(chain') <= MaxFrames
      BY <1>1, <1>2, <3>1
    <3> QED BY <1>1, <2>2, <3>1, <3>2, <3>3, <3>4 DEF Chained
  <2> QED BY <1>1, <2>1, <2>2
<1> QED
  BY <1>4, <1>5 DEF EInv

\* The handlers: what they do, and that they free the list.
LEMMA HandledStep ==
  ASSUME E!ErrorsAssumption, EInv, pc \in {"return", "die"}, NEW p \in {"run", "exit"},
         pc' = p, live' = live \ E!error_finalize, chain' = <<>>, end' = "OK"
  PROVE  Chained'
<1>1. live' = {}
  BY AllOfTheList
<1>2. chain' \in Seq(1 .. MaxFrames) /\ Len(chain') = 0
  OBVIOUS
<1>3. Len(chain') <= MaxFrames
  BY <1>2 DEF E!ErrorsAssumption
<1> QED
  BY <1>1, <1>2, <1>3 DEF Chained

LEMMA FixedMessages ==
  ASSUME NEW effects \in SUBSET E!Actions
  PROVE  E!Done(effects).effects = effects /\ E!Done(effects).messages \subseteq E!FixedResponses
<1>1. E!processor_fixed_failsafe(E!FixedOf(flags)) \in E!FixedResponses
  BY DEF E!processor_fixed_failsafe, E!FixedResponses
<1> QED
  BY <1>1 DEF E!Done

LEMMA RoundStep ==
  ASSUME E!ErrorsAssumption, EInv, E!server_process_client_round
  PROVE  EInv'
<1> DEFINE effects == {E!SEND, E!SHUTDOWN, E!LOG}
<1>1. /\ pc = "return" /\ client' = [client EXCEPT !.ssl = FALSE] /\ done' = E!Done(effects)
      /\ live' = live \ E!error_finalize /\ chain' = <<>> /\ end' = "OK" /\ pc' = "run"
      /\ UNCHANGED <<flags, cause, raised>>
  BY DEF E!server_process_client_round
<1>2. effects \in SUBSET E!Actions
  BY DEF E!Actions
<1> HIDE DEF effects
<1>3. done'.effects = effects /\ done'.messages \subseteq E!FixedResponses
  BY <1>1, <1>2, FixedMessages
<1>4. Chained'
  BY <1>1, HandledStep
<1>5. Handled' /\ ErrorTypes'
  BY <1>1, <1>2, <1>3 DEF EInv, Handled, ErrorTypes, effects
<1> QED
  BY <1>4, <1>5 DEF EInv

LEMMA ClientStep ==
  ASSUME E!ErrorsAssumption, EInv, E!server_process_client
  PROVE  EInv'
<1> DEFINE effects == {f \in {E!SHUTDOWN, E!CLOSE, E!LOG, E!DIE} : E!Has(f)}
                      \cup (IF E!Sends THEN {E!SEND} ELSE {})
<1>1. /\ pc = "return" /\ client' = [client EXCEPT !.dead = E!Ends, !.ssl = @ /\ ~E!Ends]
      /\ done' = E!Done(effects)
      /\ IF E!Has(E!DIE) THEN pc' = "die" /\ UNCHANGED <<live, chain, end>>
         ELSE pc' = "run" /\ live' = live \ E!error_finalize /\ chain' = <<>> /\ end' = "OK"
      /\ UNCHANGED <<flags, cause, raised>>
  BY DEF E!server_process_client
<1>2. effects \in SUBSET E!Actions
  BY DEF E!Actions
<1> HIDE DEF effects
<1>3. done'.effects = effects /\ done'.messages \subseteq E!FixedResponses
  BY <1>1, <1>2, FixedMessages
<1>4. client'.dead = E!Ends /\ E!Ends \in BOOLEAN /\ client' \in [ssl : BOOLEAN, dead : BOOLEAN]
  BY <1>1 DEF EInv, ErrorTypes, E!Ends, E!Has
<1>5. raised \in E!Raised /\ flags = E!Flags(raised)
  BY <1>1 DEF EInv, Handled
<1>6. CASE E!Has(E!DIE)
  <2>1. /\ pc = "return" /\ pc' = "die" /\ UNCHANGED <<live, chain, end, flags, cause, raised>>
    BY <1>1, <1>6
  <2>2. Chained'
    BY <2>1 DEF EInv, Chained
  <2>3. E!DIE \in raised.action
    BY <1>5, <1>6, RaisedFlags DEF E!Has
  <2>4. Handled' /\ ErrorTypes'
    BY <1>2, <1>3, <1>4, <1>5, <2>1, <2>3 DEF EInv, Handled, ErrorTypes
  <2> QED BY <2>2, <2>4 DEF EInv
<1>7. CASE ~E!Has(E!DIE)
  <2>1. Chained'
    BY <1>1, <1>7, HandledStep
  <2>2. E!Ends
    BY <1>5, <1>7, RaisedFlags DEF E!Has, E!Ends
  <2>3. /\ pc' = "run" /\ client'.dead /\ end' = "OK" /\ UNCHANGED <<flags, cause, raised>>
    BY <1>1, <1>4, <1>7, <2>2
  <2>4. Handled' /\ ErrorTypes'
    BY <1>2, <1>3, <1>4, <1>5, <2>3 DEF EInv, Handled, ErrorTypes
  <2> QED BY <2>1, <2>4 DEF EInv
<1> QED
  BY <1>6, <1>7

LEMMA MainStep ==
  ASSUME E!ErrorsAssumption, EInv, E!common_main
  PROVE  EInv'
<1>1. /\ pc = "die" /\ pc' = "exit" /\ live' = live \ E!error_finalize /\ chain' = <<>> /\ end' = "OK"
      /\ UNCHANGED <<flags, cause, raised, client, done>>
  BY DEF E!common_main
<1>2. Chained'
  BY <1>1, HandledStep
<1>3. Handled' /\ ErrorTypes'
  BY <1>1 DEF EInv, Handled, ErrorTypes
<1> QED
  BY <1>2, <1>3 DEF EInv

LEMMA CrashStep ==
  ASSUME EInv, E!Crash
  PROVE  EInv'
  BY DEF E!Crash, EInv, Chained, Handled, ErrorTypes

LEMMA NextClientStep ==
  ASSUME EInv, E!NextClient
  PROVE  EInv'
<1>1. /\ pc = "run" /\ client' \in [ssl : BOOLEAN, dead : {FALSE}] /\ done' = E!Nothing
      /\ UNCHANGED <<pc, live, chain, end, flags, cause, raised>>
  BY DEF E!NextClient
<1>2. Chained' /\ Handled'
  BY <1>1 DEF EInv, Chained, Handled
<1>3. ErrorTypes'
  BY <1>1 DEF EInv, ErrorTypes, E!Nothing
<1> QED
  BY <1>2, <1>3 DEF EInv

LEMMA ErrorsNext ==
  ASSUME E!ErrorsAssumption
  PROVE  EInv /\ [E!Next]_E!vars => EInv'
<1> SUFFICES ASSUME EInv, [E!Next]_E!vars PROVE EInv'
  OBVIOUS
<1>1. CASE UNCHANGED E!vars
  BY <1>1 DEF E!vars, EInv, Chained, Handled, ErrorTypes
<1> QED
  BY <1>1, FailsStep, AppendStep, RoundStep, RecoveryStep, ClientStep, MainStep, CrashStep, NextClientStep
     DEF E!Next

LEMMA ErrorsInvariant == ASSUME E!ErrorsAssumption PROVE E!Spec => []EInv
<1>1. E!Init => EInv
  BY ErrorsInit
<1>2. EInv /\ [E!Next]_E!vars => EInv'
  BY ErrorsNext
<1> QED
  BY <1>1, <1>2, PTL DEF E!Spec

LEMMA ErrorsTypeOKHolds == ASSUME E!ErrorsAssumption PROVE EInv => E!TypeOK
<1> SUFFICES ASSUME EInv PROVE E!TypeOK
  OBVIOUS
<1>1. live \subseteq 1 .. MaxFrames
  <2>1. CASE pc \in {"run", "exit"}
    BY <2>1 DEF EInv, Chained
  <2>2. CASE pc \notin {"run", "exit"}
    <3>1. live = {chain[k] : k \in 1 .. Len(chain)}
      BY <2>2 DEF EInv, Chained
    <3>2. \A k \in 1 .. Len(chain) : chain[k] \in 1 .. MaxFrames
      BY Elements DEF EInv, Chained
    <3> QED BY <3>1, <3>2
  <2> QED BY <2>1, <2>2
<1> QED BY <1>1 DEF EInv, Chained, Handled, ErrorTypes, E!TypeOK

\* However many functions an error passes, the state of its list, its flags and
\* of what is done about it is what the C declarations allow.
THEOREM ErrorsTypeOK == ASSUME E!ErrorsAssumption PROVE E!Spec => []E!TypeOK
<1>1. EInv => E!TypeOK
  BY ErrorsTypeOKHolds
<1> QED
  BY <1>1, ErrorsInvariant, PTL

LEMMA ErrorsCauseKeptHolds == ASSUME E!ErrorsAssumption PROVE EInv => E!CauseKept
  BY DEF EInv, Chained, E!CauseKept, E!Last

\* However often memory runs out on its way, the first message of an error stays
\* the last of its list.
THEOREM ErrorsCauseKept == ASSUME E!ErrorsAssumption PROVE E!Spec => []E!CauseKept
<1>1. EInv => E!CauseKept
  BY ErrorsCauseKeptHolds
<1> QED
  BY <1>1, ErrorsInvariant, PTL

LEMMA ErrorsAllFreedHolds == ASSUME E!ErrorsAssumption PROVE EInv => E!AllFreed
<1> SUFFICES ASSUME EInv PROVE E!AllFreed
  OBVIOUS
<1>1. E!Range(chain) = {chain[k] : k \in 1 .. Len(chain)}
  BY DEF E!Range, EInv, Chained
<1> QED BY <1>1 DEF EInv, Chained, E!AllFreed

\* Every message is freed once, the one of an error whose recovery failed too.
THEOREM ErrorsAllFreed == ASSUME E!ErrorsAssumption PROVE E!Spec => []E!AllFreed
<1>1. EInv => E!AllFreed
  BY ErrorsAllFreedHolds
<1> QED
  BY <1>1, ErrorsInvariant, PTL

LEMMA ErrorsNeverIgnoredHolds == ASSUME E!ErrorsAssumption PROVE EInv => E!NeverIgnored
  BY DEF EInv, Handled, E!NeverIgnored

\* Whatever is raised, and though the fixed responses share bits with the
\* action: a client does not go on as it was, and only a fatal error is fatal.
THEOREM ErrorsNeverIgnored == ASSUME E!ErrorsAssumption PROVE E!Spec => []E!NeverIgnored
<1>1. EInv => E!NeverIgnored
  BY ErrorsNeverIgnoredHolds
<1> QED
  BY <1>1, ErrorsInvariant, PTL

-----------------------------------------------------------------------------
(* The inductive invariant of Accepting.                                    *)

States == {"absent", "live", "freed", "twice"}
Bios == {"read_bio", "write_bio"}
Steps == {"idle", "fcntl", "refuse", "read_bio", "write_bio", "ssl", "bind", "unmake", "polls", "clients", "failure"}

Is(state, c, kinds) == \A k \in kinds : heap[<<k, c>>] = state

Types ==
  /\ heap \in [A!Kinds \X Connections -> States]
  /\ polls \in Seq(Connections) /\ clients \in Seq(Connections)
  /\ tls \subseteq Connections /\ left \subseteq Connections /\ bound \subseteq Connections
  /\ ssls \subseteq Connections /\ refused \subseteq Connections
  /\ cur \in Connections \cup {A!None} /\ pc \in Steps

\* Who is where: a connection is still to come, at hand, listed or over.
Lists ==
  /\ cur = A!None <=> pc = "idle"
  /\ cur \notin left
  /\ \A i \in 1 .. Len(clients) : clients[i] \notin left /\ clients[i] # cur
  /\ \A i, j \in 1 .. Len(clients) : clients[i] = clients[j] => i = j
  /\ IF pc = "clients" THEN polls = Append(clients, cur)
     ELSE polls = clients \/ (pc = "failure" /\ polls = Append(clients, cur))

Registered(c) == \E i \in 1 .. Len(clients) : clients[i] = c
Over(c) == c \notin left /\ ~Registered(c) /\ c # cur

\* What there is of a connection that is to come, of a whole one, and of one
\* that is over.
Fresh(c) == Is("absent", c, A!Kinds) /\ c \notin bound /\ c \notin ssls
Bare(c) == Is("absent", c, A!Kinds \ {"fd"}) /\ c \notin bound /\ c \notin ssls
Secured(c) == Is("live", c, A!Kinds \ {"fd"}) /\ c \in bound /\ c \in ssls
Whole(c) == Is("live", c, {"fd"}) /\ (Secured(c) \/ (c \notin tls /\ Bare(c)))
Ended(c) ==
  /\ heap[<<"fd", c>>] # "twice" /\ heap[<<"ssl", c>>] # "twice"
  /\ c \notin refused => \A k \in A!Kinds : heap[<<k, c>>] # "live"

\* What there is of the connection at hand, by the next step.
Untied(c) == c \notin bound /\ c \notin ssls
AtHand(c) ==
  /\ pc \notin {"failure"} => Is("live", c, {"fd"})
  /\ pc \in {"fcntl", "refuse"} => Bare(c)
  /\ pc = "read_bio" => Is("absent", c, A!Kinds \ {"fd"}) /\ Untied(c)
  /\ pc = "write_bio" => Is("live", c, {"read_bio"}) /\ Is("absent", c, {"write_bio", "ssl"}) /\ Untied(c)
  /\ pc = "ssl" => Is("live", c, Bios) /\ Is("absent", c, {"ssl"}) /\ Untied(c)
  /\ pc = "bind" => Is("live", c, Bios \cup {"ssl"}) /\ Untied(c)
  /\ pc \in {"polls", "clients"} => Whole(c)
  /\ pc = "unmake" =>
       /\ c \notin ssls /\ heap[<<"ssl", c>>] \in {"absent", "live"}
       /\ \A k \in Bios : heap[<<k, c>>] \in {"absent", "live"}
  /\ pc = "failure" =>
       /\ heap[<<"fd", c>>] \in {"absent", "live"} /\ heap[<<"ssl", c>>] # "twice"
       /\ Secured(c) \/ (c \notin ssls /\ \A k \in A!Kinds \ {"fd"} : heap[<<k, c>>] # "live")

AInv ==
  /\ Types /\ Lists
  /\ \A c \in left : Fresh(c)
  /\ \A c \in Connections : Registered(c) => Whole(c)
  /\ \A c \in Connections : Over(c) => Ended(c)
  /\ cur # A!None => AtHand(cur)

-----------------------------------------------------------------------------
(* What the steps have in common.                                           *)

\* A step leaves the other connections alone.
Same(c) ==
  /\ \A k \in A!Kinds : heap'[<<k, c>>] = heap[<<k, c>>]
  /\ c \in bound' <=> c \in bound
  /\ c \in ssls' <=> c \in ssls
  /\ c \in tls' <=> c \in tls
  /\ c \in refused' <=> c \in refused

LEMMA Kept ==
  ASSUME NEW c \in Connections, Same(c)
  PROVE  (Fresh(c) => Fresh(c)') /\ (Whole(c) => Whole(c)') /\ (Ended(c) => Ended(c)')
<1>1. /\ heap'[<<"fd", c>>] = heap[<<"fd", c>>] /\ heap'[<<"ssl", c>>] = heap[<<"ssl", c>>]
  BY DEF Same, A!Kinds
<1>2. ASSUME NEW kinds \in SUBSET A!Kinds, NEW state
      PROVE  Is(state, c, kinds) => Is(state, c, kinds)'
  BY DEF Is, Same
<1>3. {"fd"} \in SUBSET A!Kinds /\ A!Kinds \ {"fd"} \in SUBSET A!Kinds /\ A!Kinds \in SUBSET A!Kinds
  BY DEF A!Kinds
<1>4. Fresh(c) => Fresh(c)'
  BY <1>2, <1>3 DEF Fresh, Same
<1>5. Whole(c) => Whole(c)'
  BY <1>2, <1>3 DEF Whole, Secured, Bare, Same
<1>6. Ended(c) => Ended(c)'
  BY <1>1 DEF Ended, Same
<1> QED
  BY <1>4, <1>5, <1>6

\* A step for the connection at hand that neither begins nor ends it.
LEMMA Onwards ==
  ASSUME AInv, cur # A!None, UNCHANGED <<polls, clients, tls, left, cur, refused>>,
         Types', pc # "failure", pc' \notin {"idle", "clients"}, pc = "clients" => pc' = "failure",
         \A c \in Connections \ {cur} : Same(c),
         AtHand(cur)'
  PROVE  AInv'
<1>1. Lists'
  BY DEF AInv, Lists, Steps
<1>2. \A c \in Connections : (Registered(c)' <=> Registered(c)) /\ (Over(c)' <=> Over(c))
  BY DEF Registered, Over
<1>3. ASSUME NEW c \in left' PROVE Fresh(c)'
  BY Kept DEF AInv, Types, Lists
<1>4. ASSUME NEW c \in Connections, Registered(c)' PROVE Whole(c)'
  BY <1>2, <1>4, Kept DEF AInv, Lists, Registered
<1>5. ASSUME NEW c \in Connections, Over(c)' PROVE Ended(c)'
  BY <1>2, <1>5, Kept DEF AInv, Over
<1> QED
  BY <1>1, <1>3, <1>4, <1>5 DEF AInv

\* What free() and SSL_free do to each object.
Heaps == [A!Kinds \X Connections -> States]
After(state) == IF state = "live" THEN "freed" ELSE "twice"

LEMMA Freed ==
  ASSUME NEW h \in Heaps, NEW objects
  PROVE  /\ A!Free(h, objects) \in Heaps
         /\ \A k \in A!Kinds, c \in Connections :
              A!Free(h, objects)[<<k, c>>] =
                IF <<k, c>> \in objects THEN After(h[<<k, c>>]) ELSE h[<<k, c>>]
<1>1. \A o \in A!Kinds \X Connections : h[o] \in States
  BY DEF Heaps
<1>2. DOMAIN h = A!Kinds \X Connections
  BY DEF Heaps
<1> QED
  BY <1>1, <1>2 DEF A!Free, Heaps, States, After

LEMMA SslFreed ==
  ASSUME NEW h \in Heaps, NEW c \in Connections
  PROVE  /\ A!SSL_free(h, c) \in Heaps
         /\ \A k \in A!Kinds, d \in Connections :
              A!SSL_free(h, c)[<<k, d>>] =
                IF d = c /\ (k = "ssl" \/ (k \in Bios /\ c \in bound)) THEN After(h[<<k, d>>]) ELSE h[<<k, d>>]
<1> DEFINE objects == {<<"ssl", c>>} \cup {<<k, c>> : k \in IF c \in bound THEN {"read_bio", "write_bio"} ELSE {}}
<1>1. A!SSL_free(h, c) = A!Free(h, objects)
  BY DEF A!SSL_free
<1>2. \A k \in A!Kinds, d \in Connections :
        <<k, d>> \in objects <=> d = c /\ (k = "ssl" \/ (k \in Bios /\ c \in bound))
  BY DEF Bios
<1> HIDE DEF objects
<1> QED
  BY <1>1, <1>2, Freed

\* poll_finalize and client_finalize of a connection: of all that is live
\* nothing stays so, and what was freed is left alone.
LEMMA FinalizedFrees ==
  ASSUME Types, NEW c \in Connections,
         heap[<<"fd", c>>] \in {"absent", "live"},
         Secured(c) \/ (c \notin ssls /\ \A k \in A!Kinds \ {"fd"} : heap[<<k, c>>] # "live"),
         heap[<<"ssl", c>>] # "twice"
  PROVE  /\ A!Finalized(c) \in Heaps
         /\ \A k \in A!Kinds : A!Finalized(c)[<<k, c>>] # "live"
         /\ A!Finalized(c)[<<"fd", c>>] # "twice" /\ A!Finalized(c)[<<"ssl", c>>] # "twice"
         /\ \A d \in Connections \ {c} : \A k \in A!Kinds : A!Finalized(c)[<<k, d>>] = heap[<<k, d>>]
<1> DEFINE closed == IF A!Owned("fd", c) THEN A!Free(heap, {<<"fd", c>>}) ELSE heap
<1>1. heap \in Heaps /\ A!Kinds = {"fd", "ssl"} \cup Bios /\ "fd" \notin Bios /\ "ssl" \notin Bios
  BY DEF Types, Heaps, A!Kinds, Bios
<1>2. /\ closed \in Heaps
      /\ \A k \in A!Kinds, d \in Connections :
           closed[<<k, d>>] = IF d = c /\ k = "fd" /\ heap[<<"fd", c>>] = "live" THEN "freed" ELSE heap[<<k, d>>]
  <2>1. CASE A!Owned("fd", c)
    <3>1. heap[<<"fd", c>>] = "live"
      BY <2>1 DEF A!Owned
    <3>2. \A k \in A!Kinds, d \in Connections : <<k, d>> \in {<<"fd", c>>} <=> k = "fd" /\ d = c
      OBVIOUS
    <3>3. closed = A!Free(heap, {<<"fd", c>>})
      BY <2>1
    <3> HIDE DEF closed
    <3> QED
      BY <1>1, <3>1, <3>2, <3>3, Freed DEF After
  <2>2. CASE ~A!Owned("fd", c)
    <3>1. heap[<<"fd", c>>] # "live" /\ closed = heap
      BY <2>2 DEF A!Owned
    <3> HIDE DEF closed
    <3> QED
      BY <1>1, <3>1
  <2> QED
    BY <2>1, <2>2
<1>3. A!Finalized(c) = IF c \in ssls THEN A!SSL_free(closed, c) ELSE closed
  BY DEF A!Finalized
<1> HIDE DEF closed
<1>4. CASE c \in ssls
  <2>1. c \in bound /\ \A k \in A!Kinds \ {"fd"} : heap[<<k, c>>] = "live"
    BY <1>4 DEF Secured, Is
  <2>2. A!Finalized(c) = A!SSL_free(closed, c)
    BY <1>3, <1>4
  <2>3. /\ A!Finalized(c) \in Heaps
        /\ \A k \in A!Kinds, d \in Connections : A!Finalized(c)[<<k, d>>] =
             IF d = c /\ (k = "ssl" \/ (k \in Bios /\ c \in bound)) THEN After(closed[<<k, d>>]) ELSE closed[<<k, d>>]
    BY <1>2, <2>2, SslFreed
  <2>4. /\ A!Finalized(c)[<<"fd", c>>] = closed[<<"fd", c>>]
        /\ \A k \in A!Kinds \ {"fd"} : A!Finalized(c)[<<k, c>>] = "freed"
    BY <1>1, <1>2, <2>1, <2>3 DEF After
  <2>5. closed[<<"fd", c>>] \notin {"live", "twice"}
    BY <1>1, <1>2
  <2>6. \A d \in Connections \ {c} : \A k \in A!Kinds : A!Finalized(c)[<<k, d>>] = heap[<<k, d>>]
    BY <1>2, <2>3
  <2> QED
    BY <1>1, <2>3, <2>4, <2>5, <2>6
<1>5. CASE c \notin ssls
  <2>1. A!Finalized(c) = closed /\ \A k \in A!Kinds \ {"fd"} : heap[<<k, c>>] # "live"
    BY <1>3, <1>5 DEF Secured
  <2> QED
    BY <1>1, <1>2, <2>1
<1> QED
  BY <1>4, <1>5

-----------------------------------------------------------------------------
(* The steps.                                                               *)

LEMMA AcceptingInit == ASSUME A!AcceptingAssumption PROVE A!Init => AInv
<1> SUFFICES ASSUME A!Init PROVE AInv
  OBVIOUS
<1>1. heap = [o \in A!Kinds \X Connections |-> "absent"] /\ left = Connections /\ cur = A!None /\ pc = "idle"
      /\ bound = {} /\ ssls = {} /\ refused = {} /\ polls = <<>> /\ clients = <<>> /\ tls \subseteq Connections
  BY DEF A!Init
<1>2. A!None \notin Connections
  BY DEF A!AcceptingAssumption
<1>3. \A k \in A!Kinds, c \in Connections : heap[<<k, c>>] = "absent"
  BY <1>1
<1>4. Types
  BY <1>1 DEF Types, States, Steps
<1>5. Lists
  BY <1>1, <1>2 DEF Lists
<1>6. \A c \in Connections : Fresh(c) /\ ~Registered(c) /\ ~Over(c)
  BY <1>1, <1>3 DEF Fresh, Is, Registered, Over
<1> QED
  BY <1>1, <1>4, <1>5, <1>6 DEF AInv

\* accept() and what there is to be made.
LEMMA AcceptStep == ASSUME A!AcceptingAssumption, AInv, NEW c \in left, A!Accept(c) PROVE AInv'
<1>1. /\ pc = "idle" /\ cur = A!None /\ left' = left \ {c} /\ cur' = c /\ c \in Connections
      /\ UNCHANGED <<polls, clients, tls, bound, ssls, refused>> /\ polls = clients
  BY DEF A!Accept, AInv, Lists, Types
<1>2. /\ pc' \in {"fcntl", "failure"}
      /\ heap' \in Heaps
      /\ pc' = "fcntl" => heap'[<<"fd", c>>] = "live"
      /\ pc' = "failure" => heap'[<<"fd", c>>] = "absent"
      /\ \A k \in A!Kinds, d \in Connections : d # c \/ k # "fd" => heap'[<<k, d>>] = heap[<<k, d>>]
  <2>1. Fresh(c) /\ heap \in Heaps /\ "fd" \in A!Kinds
    BY DEF AInv, Types, Heaps, A!Kinds
  <2>2. heap[<<"fd", c>>] = "absent"
    BY <2>1 DEF Fresh, Is
  <2>3. CASE heap' = [heap EXCEPT ![<<"fd", c>>] = "live"] /\ pc' = "fcntl"
    BY <1>1, <2>1, <2>3 DEF Heaps, States
  <2>4. CASE pc' = "failure" /\ UNCHANGED heap
    BY <2>1, <2>2, <2>4
  <2> QED
    BY <2>3, <2>4 DEF A!Accept
<1>3. \A d \in Connections \ {c} : Same(d)
  BY <1>1, <1>2 DEF Same
<1>4. Types'
  BY <1>1, <1>2 DEF AInv, Types, Heaps, Steps
<1>5. Lists'
  BY <1>1, <1>2 DEF AInv, Lists, Types, A!AcceptingAssumption
<1>6. \A d \in Connections : (Registered(d)' <=> Registered(d)) /\ (Over(d)' => Over(d) /\ d # c)
  BY <1>1 DEF Registered, Over, A!AcceptingAssumption
<1>7. ASSUME NEW d \in left' PROVE Fresh(d)'
  BY <1>1, <1>3, <1>4, Kept DEF AInv, Types
<1>8. ASSUME NEW d \in Connections, Registered(d)' PROVE Whole(d)'
  <2>1. Registered(d) /\ d # c
    BY <1>1, <1>6, <1>8 DEF AInv, Lists, Registered
  <2> QED
    BY <2>1, <1>3, Kept DEF AInv
<1>9. ASSUME NEW d \in Connections, Over(d)' PROVE Ended(d)'
  BY <1>3, <1>6, <1>9, Kept DEF AInv
<1>10. AtHand(cur)'
  <2>1. /\ \A k \in A!Kinds \ {"fd"} : heap[<<k, c>>] = "absent"
        /\ c \notin bound /\ c \notin ssls
    BY DEF AInv, Fresh, Is
  <2>2. /\ \A k \in A!Kinds \ {"fd"} : heap'[<<k, c>>] = "absent"
        /\ c \notin bound' /\ c \notin ssls' /\ "ssl" \in A!Kinds \ {"fd"}
    BY <1>1, <1>2, <2>1 DEF A!Kinds
  <2>3. CASE pc' = "fcntl"
    BY <1>1, <1>2, <2>2, <2>3 DEF AtHand, Is, Bare
  <2>4. CASE pc' = "failure"
    BY <1>1, <1>2, <2>2, <2>4 DEF AtHand, Is, Bare
  <2> QED
    BY <1>2, <2>3, <2>4
<1> QED
  BY <1>4, <1>5, <1>7, <1>8, <1>9, <1>10 DEF AInv

\* The facts of a step in the middle.
LEMMA Middle ==
  ASSUME AInv, pc # "idle"
  PROVE  cur # A!None /\ cur \in Connections /\ AtHand(cur) /\ heap \in Heaps
  BY DEF AInv, Lists, Types, Heaps

LEMMA Unmoved ==
  ASSUME UNCHANGED <<heap, bound, ssls, tls, refused>>
  PROVE  \A c \in Connections : Same(c)
  BY DEF Same

LEMMA FcntlStep == ASSUME AInv, A!Fcntl PROVE AInv'
<1>1. /\ pc = "fcntl" /\ pc' \in {"failure", "refuse", "read_bio", "polls"} /\ (pc' = "polls" => cur \notin tls)
      /\ UNCHANGED <<heap, polls, clients, tls, left, cur, bound, ssls, refused>>
  BY DEF A!Fcntl
<1>2. cur # A!None /\ cur \in Connections /\ AtHand(cur)
  BY <1>1, Middle
<1>3. Is("live", cur, {"fd"}) /\ Bare(cur) /\ heap[<<"fd", cur>>] = "live"
      /\ \A k \in A!Kinds \ {"fd"} : heap[<<k, cur>>] = "absent"
  BY <1>1, <1>2 DEF AtHand, Bare, Is
<1>4. heap[<<"ssl", cur>>] = "absent"
  BY <1>3 DEF A!Kinds
<1>5. AtHand(cur)'
  <2>1. Is("live", cur, {"fd"})' /\ Bare(cur)' /\ UNCHANGED <<heap, cur, bound, ssls, tls>>
    BY <1>1, <1>3 DEF Is, Bare
  <2> QED
    BY <1>1, <1>3, <1>4, <2>1 DEF AtHand, Bare, Untied, Whole
<1>6. Types'
  BY <1>1 DEF AInv, Types, Steps
<1> QED
  BY <1>1, <1>2, <1>5, <1>6, Unmoved, Onwards

\* Each of the three objects is made or not.
LEMMA Made ==
  ASSUME AInv, NEW k \in A!Kinds, NEW here, NEW next, NEW failure, A!Make(k, here, next, failure),
         pc # "idle", next \in Steps, failure \in Steps
  PROVE  /\ Types'
         /\ \A c \in Connections \ {cur} : Same(c)
         /\ UNCHANGED <<polls, clients, tls, left, cur, bound, ssls, refused>>
         /\ \/ /\ pc' = next /\ heap'[<<k, cur>>] = "live"
               /\ \A l \in A!Kinds \ {k} : heap'[<<l, cur>>] = heap[<<l, cur>>]
            \/ pc' = failure /\ heap' = heap
<1>1. cur \in Connections /\ heap \in Heaps
  BY Middle
<1>2. UNCHANGED <<polls, clients, tls, left, cur, bound, ssls, refused>>
  BY DEF A!Make
<1>3. CASE heap' = [heap EXCEPT ![<<k, cur>>] = "live"] /\ pc' = next
  <2>1. /\ heap' \in Heaps /\ heap'[<<k, cur>>] = "live"
        /\ \A l \in A!Kinds, c \in Connections : l # k \/ c # cur => heap'[<<l, c>>] = heap[<<l, c>>]
    BY <1>1, <1>3 DEF Heaps, States
  <2>2. Types'
    BY <1>2, <1>3, <2>1 DEF AInv, Types, Heaps
  <2> QED
    BY <1>1, <1>2, <1>3, <2>1, <2>2 DEF Same
<1>4. CASE pc' = failure /\ UNCHANGED heap
  <2>1. Types'
    BY <1>2, <1>4 DEF AInv, Types
  <2> QED
    BY <1>2, <1>4, <2>1 DEF Same
<1> QED
  BY <1>3, <1>4 DEF A!Make

\* What is made of a TLS connection, field by field.
LEMMA Objects == A!Kinds = {"fd", "read_bio", "write_bio", "ssl"} /\ Bios = {"read_bio", "write_bio"}
  BY DEF A!Kinds, Bios

LEMMA MakeReadBioStep == ASSUME AInv, A!MakeReadBio PROVE AInv'
<1>1. pc = "read_bio" /\ A!Make("read_bio", "read_bio", "write_bio", "unmake")
  BY DEF A!MakeReadBio, A!Make
<1>2. /\ Types' /\ \A c \in Connections \ {cur} : Same(c)
      /\ UNCHANGED <<polls, clients, tls, left, cur, bound, ssls, refused>>
      /\ \/ /\ pc' = "write_bio" /\ heap'[<<"read_bio", cur>>] = "live"
            /\ \A l \in A!Kinds \ {"read_bio"} : heap'[<<l, cur>>] = heap[<<l, cur>>]
         \/ pc' = "unmake" /\ heap' = heap
  BY <1>1, Made, Objects DEF Steps
<1>3. cur # A!None /\ AtHand(cur)
  BY <1>1, Middle
<1>4. /\ heap[<<"fd", cur>>] = "live" /\ heap[<<"read_bio", cur>>] = "absent"
      /\ heap[<<"write_bio", cur>>] = "absent" /\ heap[<<"ssl", cur>>] = "absent" /\ Untied(cur)
  BY <1>1, <1>3, Objects DEF AtHand, Is
<1>5. AtHand(cur)'
  BY <1>2, <1>4, Objects DEF AtHand, Is, Untied
<1> QED
  BY <1>1, <1>2, <1>3, <1>5, Onwards

LEMMA MakeWriteBioStep == ASSUME AInv, A!MakeWriteBio PROVE AInv'
<1>1. pc = "write_bio" /\ A!Make("write_bio", "write_bio", "ssl", "unmake")
  BY DEF A!MakeWriteBio, A!Make
<1>2. /\ Types' /\ \A c \in Connections \ {cur} : Same(c)
      /\ UNCHANGED <<polls, clients, tls, left, cur, bound, ssls, refused>>
      /\ \/ /\ pc' = "ssl" /\ heap'[<<"write_bio", cur>>] = "live"
            /\ \A l \in A!Kinds \ {"write_bio"} : heap'[<<l, cur>>] = heap[<<l, cur>>]
         \/ pc' = "unmake" /\ heap' = heap
  BY <1>1, Made, Objects DEF Steps
<1>3. cur # A!None /\ AtHand(cur)
  BY <1>1, Middle
<1>4. /\ heap[<<"fd", cur>>] = "live" /\ heap[<<"read_bio", cur>>] = "live"
      /\ heap[<<"write_bio", cur>>] = "absent" /\ heap[<<"ssl", cur>>] = "absent" /\ Untied(cur)
  BY <1>1, <1>3, Objects DEF AtHand, Is
<1>5. AtHand(cur)'
  BY <1>2, <1>4, Objects DEF AtHand, Is, Untied
<1> QED
  BY <1>1, <1>2, <1>3, <1>5, Onwards

LEMMA MakeSslStep == ASSUME AInv, A!MakeSsl PROVE AInv'
<1>1. pc = "ssl" /\ A!Make("ssl", "ssl", "bind", "unmake")
  BY DEF A!MakeSsl, A!Make
<1>2. /\ Types' /\ \A c \in Connections \ {cur} : Same(c)
      /\ UNCHANGED <<polls, clients, tls, left, cur, bound, ssls, refused>>
      /\ \/ /\ pc' = "bind" /\ heap'[<<"ssl", cur>>] = "live"
            /\ \A l \in A!Kinds \ {"ssl"} : heap'[<<l, cur>>] = heap[<<l, cur>>]
         \/ pc' = "unmake" /\ heap' = heap
  BY <1>1, Made, Objects DEF Steps
<1>3. cur # A!None /\ AtHand(cur)
  BY <1>1, Middle
<1>4. /\ heap[<<"fd", cur>>] = "live" /\ heap[<<"read_bio", cur>>] = "live"
      /\ heap[<<"write_bio", cur>>] = "live" /\ heap[<<"ssl", cur>>] = "absent" /\ Untied(cur)
  BY <1>1, <1>3, Objects DEF AtHand, Is
<1>5. AtHand(cur)'
  BY <1>2, <1>4, Objects DEF AtHand, Is, Untied
<1> QED
  BY <1>1, <1>2, <1>3, <1>5, Onwards

\* The SSL object takes the BIOs and the client takes the SSL object, or all
\* of it is to be unmade.
LEMMA BindStep == ASSUME AInv, A!Bind PROVE AInv'
<1>1. /\ pc = "bind" /\ bound' = bound \cup {cur} /\ UNCHANGED <<heap, polls, clients, tls, left, cur, refused>>
      /\ \/ pc' = "polls" /\ ssls' = ssls \cup {cur}
         \/ pc' = "unmake" /\ ssls' = ssls
  BY DEF A!Bind
<1>2. cur # A!None /\ cur \in Connections /\ AtHand(cur)
  BY <1>1, Middle
<1>3. /\ heap[<<"fd", cur>>] = "live" /\ heap[<<"read_bio", cur>>] = "live"
      /\ heap[<<"write_bio", cur>>] = "live" /\ heap[<<"ssl", cur>>] = "live" /\ Untied(cur)
  BY <1>1, <1>2, Objects DEF AtHand, Is
<1>4. Types'
  BY <1>1, <1>2 DEF AInv, Types, Steps
<1>5. \A c \in Connections \ {cur} : Same(c)
  BY <1>1 DEF Same
<1>6. AtHand(cur)'
  BY <1>1, <1>3, Objects DEF AtHand, Is, Untied, Whole, Secured
<1> QED
  BY <1>1, <1>2, <1>4, <1>5, <1>6, Onwards

\* The BIOs may be freed twice, by SSL_free and again; the SSL object and the
\* descriptor are not.
LEMMA UnmakeStep == ASSUME AInv, A!Unmake PROVE AInv'
<1> DEFINE freed == IF A!Owned("ssl", cur) THEN A!SSL_free(heap, cur) ELSE heap
           mine == {<<k, cur>> : k \in {b \in {"read_bio", "write_bio"} : A!Owned(b, cur)}}
<1>1. /\ pc = "unmake" /\ pc' = "failure" /\ UNCHANGED <<polls, clients, tls, left, cur, bound, ssls, refused>>
      /\ heap' = A!Free(freed, mine)
  BY DEF A!Unmake
<1>2. cur # A!None /\ cur \in Connections /\ AtHand(cur) /\ heap \in Heaps
  BY <1>1, Middle
<1>3. /\ heap[<<"fd", cur>>] = "live" /\ heap[<<"ssl", cur>>] \in {"absent", "live"} /\ cur \notin ssls
      /\ \A k \in Bios : heap[<<k, cur>>] \in {"absent", "live"}
  BY <1>1, <1>2, Objects DEF AtHand, Is
<1>4. /\ freed \in Heaps
      /\ freed[<<"fd", cur>>] = "live" /\ freed[<<"ssl", cur>>] \in {"absent", "freed"}
      /\ \A k \in Bios : heap[<<k, cur>>] = "absent" => freed[<<k, cur>>] # "live"
      /\ \A c \in Connections \ {cur} : \A k \in A!Kinds : freed[<<k, c>>] = heap[<<k, c>>]
  <2>1. CASE A!Owned("ssl", cur)
    <3>1. freed = A!SSL_free(heap, cur) /\ heap[<<"ssl", cur>>] = "live"
      BY <1>3, <2>1 DEF A!Owned
    <3> HIDE DEF freed
    <3>2. /\ freed \in Heaps
          /\ \A k \in A!Kinds, d \in Connections : freed[<<k, d>>] =
               IF d = cur /\ (k = "ssl" \/ (k \in Bios /\ cur \in bound)) THEN After(heap[<<k, d>>]) ELSE heap[<<k, d>>]
      BY <1>2, <3>1, SslFreed
    <3>3. freed[<<"fd", cur>>] = "live" /\ freed[<<"ssl", cur>>] = "freed"
      BY <1>2, <1>3, <3>1, <3>2, Objects DEF After
    <3>4. \A k \in Bios : heap[<<k, cur>>] = "absent" => freed[<<k, cur>>] # "live"
      BY <1>2, <3>2, Objects DEF After
    <3> QED
      BY <3>2, <3>3, <3>4
  <2>2. CASE ~A!Owned("ssl", cur)
    <3>1. freed = heap /\ heap[<<"ssl", cur>>] = "absent"
      BY <2>2 DEF A!Owned
    <3> HIDE DEF freed
    <3> QED
      BY <1>2, <1>3, <3>1
  <2> QED
    BY <2>1, <2>2
<1>5. \A k \in A!Kinds, d \in Connections :
        <<k, d>> \in mine <=> d = cur /\ k \in Bios /\ heap[<<k, cur>>] # "absent"
  BY DEF A!Owned, Bios
<1> HIDE DEF freed, mine
<1>6. /\ heap' \in Heaps
      /\ \A k \in A!Kinds, d \in Connections : heap'[<<k, d>>] =
           IF d = cur /\ k \in Bios /\ heap[<<k, cur>>] # "absent" THEN After(freed[<<k, d>>]) ELSE freed[<<k, d>>]
  BY <1>1, <1>4, <1>5, Freed
<1>7. /\ heap'[<<"fd", cur>>] = "live" /\ heap'[<<"ssl", cur>>] \in {"absent", "freed"}
      /\ \A k \in Bios : heap'[<<k, cur>>] # "live"
  BY <1>2, <1>4, <1>6, Objects DEF After
<1>8. \A c \in Connections \ {cur} : Same(c)
  BY <1>1, <1>4, <1>6 DEF Same
<1>9. Types'
  BY <1>1, <1>6 DEF AInv, Types, Steps, Heaps
<1>10. AtHand(cur)'
  BY <1>1, <1>3, <1>7, Objects DEF AtHand
<1> QED
  BY <1>1, <1>2, <1>8, <1>9, <1>10, Onwards

\* poll_t is appended before the client is.
LEMMA AppendPollStep == ASSUME AInv, A!AppendPoll PROVE AInv'
<1>1. /\ pc = "polls" /\ UNCHANGED <<heap, clients, tls, left, cur, bound, ssls, refused>>
      /\ \/ polls' = Append(polls, cur) /\ pc' = "clients"
         \/ pc' = "failure" /\ polls' = polls
  BY DEF A!AppendPoll
<1>2. cur # A!None /\ cur \in Connections /\ AtHand(cur) /\ heap \in Heaps
  BY <1>1, Middle
<1>3. Types'
  <2>1. polls \in Seq(Connections) /\ Append(polls, cur) \in Seq(Connections)
    BY <1>2 DEF AInv, Types
  <2>2. polls' \in Seq(Connections) /\ pc' \in Steps
    BY <1>1, <2>1 DEF Steps
  <2> QED
    BY <1>1, <2>2 DEF AInv, Types
<1>4. Lists'
  BY <1>1, <1>2 DEF AInv, Lists
<1>5. Whole(cur) /\ Is("live", cur, {"fd"}) /\ heap[<<"fd", cur>>] = "live"
  BY <1>1, <1>2 DEF AtHand, Is
<1>6. heap[<<"ssl", cur>>] \in {"absent", "live"}
  BY <1>5, Objects DEF Whole, Bare, Secured, Is
<1>7. AtHand(cur)'
  BY <1>1, <1>5, <1>6, Objects DEF AtHand, Whole, Secured, Bare, Is
<1>8. \A c \in Connections : Same(c)
  BY <1>1, Unmoved
<1>9. \A c \in Connections : (Registered(c)' <=> Registered(c)) /\ (Over(c)' <=> Over(c))
  BY <1>1 DEF Registered, Over
<1> QED
  BY <1>1, <1>3, <1>4, <1>7, <1>8, <1>9, Kept DEF AInv, Types

LEMMA AppendClientStep == ASSUME A!AcceptingAssumption, AInv, A!AppendClient PROVE AInv'
<1>1. /\ pc = "clients" /\ UNCHANGED <<heap, polls, tls, left, bound, ssls, refused>>
      /\ \/ clients' = Append(clients, cur) /\ pc' = "idle" /\ cur' = A!None
         \/ pc' = "failure" /\ UNCHANGED <<clients, cur>>
  BY DEF A!AppendClient
<1>2. cur # A!None /\ cur \in Connections /\ AtHand(cur) /\ heap \in Heaps /\ clients \in Seq(Connections)
  BY <1>1, Middle DEF AInv, Types
<1>3. Whole(cur) /\ Is("live", cur, {"fd"}) /\ heap[<<"fd", cur>>] = "live"
  BY <1>1, <1>2 DEF AtHand, Is
<1>4. \A c \in Connections : Same(c)
  BY <1>1, Unmoved
<1>5. CASE clients' = Append(clients, cur) /\ pc' = "idle" /\ cur' = A!None
  <2>1. /\ Len(clients') = Len(clients) + 1 /\ clients'[Len(clients) + 1] = cur
        /\ \A i \in 1 .. Len(clients) : clients'[i] = clients[i]
        /\ clients' \in Seq(Connections)
    BY <1>2, <1>5
  <2>2. Types'
    BY <1>1, <1>5, <2>1 DEF AInv, Types, Steps
  <2>3. Lists'
    <3>1. polls' = clients'
      BY <1>1, <1>5 DEF AInv, Lists
    <3>2. \A i \in 1 .. Len(clients') : clients'[i] \notin left' /\ clients'[i] # A!None
      BY <1>1, <1>2, <2>1 DEF AInv, Lists, A!AcceptingAssumption
    <3>3. \A i, j \in 1 .. Len(clients') : clients'[i] = clients'[j] => i = j
      BY <1>2, <2>1 DEF AInv, Lists
    <3>4. A!None \notin left'
      BY <1>1 DEF AInv, Types, A!AcceptingAssumption
    <3> QED
      BY <1>5, <3>1, <3>2, <3>3, <3>4 DEF Lists
  <2>4. \A c \in Connections : (Registered(c)' <=> Registered(c) \/ c = cur) /\ (Over(c)' => Over(c))
    BY <1>1, <1>2, <1>5, <2>1 DEF Registered, Over
  <2> QED
    BY <1>1, <1>2, <1>3, <1>4, <1>5, <2>2, <2>3, <2>4, Kept DEF AInv, Types
<1>6. CASE pc' = "failure" /\ UNCHANGED <<clients, cur>>
  <2>1. heap[<<"ssl", cur>>] \in {"absent", "live"}
    BY <1>3, Objects DEF Whole, Bare, Secured, Is
  <2>2. AtHand(cur)'
    BY <1>1, <1>3, <1>6, <2>1, Objects DEF AtHand, Whole, Secured, Bare, Is
  <2>3. Types'
    BY <1>1, <1>6 DEF AInv, Types, Steps
  <2> QED
    BY <1>1, <1>2, <1>4, <1>6, <2>2, <2>3, Onwards
<1> QED
  BY <1>1, <1>5, <1>6

\* A step that ends a connection.
LEMMA Ends ==
  ASSUME A!AcceptingAssumption, AInv, NEW c \in Connections, cur = c \/ cur = A!None, c \notin left,
         Types', Lists', left' = left, cur' = A!None,
         \A d \in Connections \ {c} : Same(d) /\ (Registered(d)' <=> Registered(d)),
         ~Registered(c)', Ended(c)'
  PROVE  AInv'
<1>1. ASSUME NEW d \in left' PROVE Fresh(d)'
  BY Kept DEF AInv, Types
<1>2. ASSUME NEW d \in Connections, Registered(d)' PROVE Whole(d)'
  BY <1>2, Kept DEF AInv
<1>3. ASSUME NEW d \in Connections, Over(d)' PROVE Ended(d)'
  <2>1. CASE d # c
    <3>1. Over(d) /\ Same(d)
      BY <1>3, <2>1 DEF Over, A!AcceptingAssumption
    <3> QED
      BY <3>1, Kept DEF AInv
  <2> QED
    BY <2>1
<1> QED
  BY <1>1, <1>2, <1>3 DEF AInv

\* The refused connection, over TLS or not.
LEMMA RefuseStep ==
  ASSUME A!AcceptingAssumption, AInv, A!server_send_low_resources_connection PROVE AInv'
<1>1. /\ pc = "refuse" /\ heap' = (IF cur \in tls THEN heap ELSE A!Free(heap, {<<"fd", cur>>}))
      /\ refused' = refused \cup {cur} /\ cur' = A!None /\ pc' = "idle"
      /\ UNCHANGED <<polls, clients, tls, left, bound, ssls>>
  BY DEF A!server_send_low_resources_connection
<1>2. cur # A!None /\ cur \in Connections /\ AtHand(cur) /\ heap \in Heaps
  BY <1>1, Middle
<1>3. heap[<<"fd", cur>>] = "live" /\ heap[<<"ssl", cur>>] = "absent"
  BY <1>1, <1>2, Objects DEF AtHand, Bare, Is
<1>4. /\ heap' \in Heaps /\ heap'[<<"fd", cur>>] \in {"live", "freed"} /\ heap'[<<"ssl", cur>>] = "absent"
      /\ \A d \in Connections \ {cur} : \A k \in A!Kinds : heap'[<<k, d>>] = heap[<<k, d>>]
  <2>1. \A k \in A!Kinds, d \in Connections : <<k, d>> \in {<<"fd", cur>>} <=> k = "fd" /\ d = cur
    OBVIOUS
  <2>2. CASE cur \in tls
    BY <1>1, <1>2, <1>3, <2>2
  <2>3. CASE cur \notin tls
    <3>1. heap' = A!Free(heap, {<<"fd", cur>>})
      BY <1>1, <2>3
    <3> QED
      BY <1>2, <1>3, <2>1, <3>1, Freed, Objects DEF After
  <2> QED
    BY <2>2, <2>3
<1>5. Types'
  BY <1>1, <1>2, <1>4 DEF AInv, Types, Heaps, Steps
<1>6. Lists'
  BY <1>1, <1>2 DEF AInv, Lists, Types, A!AcceptingAssumption
<1>7. \A d \in Connections \ {cur} : Same(d) /\ (Registered(d)' <=> Registered(d))
  BY <1>1, <1>4 DEF Same, Registered
<1>8. ~Registered(cur) /\ cur \notin left
  BY <1>2 DEF AInv, Lists, Registered
<1>9. \A c \in Connections : c = cur => ~Registered(c)' /\ Ended(c)'
  BY <1>1, <1>4, <1>8 DEF Registered, Ended
<1> QED
  BY <1>1, <1>2, <1>5, <1>6, <1>7, <1>8, <1>9, Ends

\* Popping the poll of a client that was not appended leaves the polls of the
\* listed ones.
LEMMA Popped ==
  ASSUME NEW D, NEW s \in Seq(D), NEW x \in D
  PROVE  SubSeq(Append(s, x), 1, Len(s)) = s /\ SubSeq(s, 1, Len(s)) = s
OBVIOUS

LEMMA FailureStep == ASSUME A!AcceptingAssumption, AInv, A!Failure PROVE AInv'
<1>1. /\ pc = "failure" /\ heap' = A!Finalized(cur) /\ polls' = SubSeq(polls, 1, Len(clients))
      /\ cur' = A!None /\ pc' = "idle" /\ UNCHANGED <<clients, tls, left, bound, ssls, refused>>
  BY DEF A!Failure
<1>2. cur # A!None /\ cur \in Connections /\ AtHand(cur) /\ clients \in Seq(Connections)
  BY <1>1, Middle DEF AInv, Types
<1>3. /\ heap' \in Heaps /\ \A k \in A!Kinds : heap'[<<k, cur>>] # "live"
      /\ heap'[<<"fd", cur>>] # "twice" /\ heap'[<<"ssl", cur>>] # "twice"
      /\ \A d \in Connections \ {cur} : \A k \in A!Kinds : heap'[<<k, d>>] = heap[<<k, d>>]
  <2>1. /\ heap[<<"fd", cur>>] \in {"absent", "live"} /\ heap[<<"ssl", cur>>] # "twice"
        /\ Secured(cur) \/ (cur \notin ssls /\ \A k \in A!Kinds \ {"fd"} : heap[<<k, cur>>] # "live")
    BY <1>1, <1>2 DEF AtHand
  <2>2. Types
    BY DEF AInv
  <2>3. /\ A!Finalized(cur) \in Heaps
        /\ \A k \in A!Kinds : A!Finalized(cur)[<<k, cur>>] # "live"
        /\ A!Finalized(cur)[<<"fd", cur>>] # "twice" /\ A!Finalized(cur)[<<"ssl", cur>>] # "twice"
        /\ \A d \in Connections \ {cur} : \A k \in A!Kinds : A!Finalized(cur)[<<k, d>>] = heap[<<k, d>>]
    BY <1>2, <2>1, <2>2, FinalizedFrees
  <2> QED
    BY <1>1, <2>3
<1>4. polls' = clients
  BY <1>1, <1>2, Popped DEF AInv, Lists
<1>5. Types'
  BY <1>1, <1>2, <1>3, <1>4 DEF AInv, Types, Heaps, Steps
<1>6. Lists'
  BY <1>1, <1>2, <1>4 DEF AInv, Lists, Types, A!AcceptingAssumption
<1>7. \A d \in Connections \ {cur} : Same(d) /\ (Registered(d)' <=> Registered(d))
  BY <1>1, <1>3 DEF Same, Registered
<1>8. ~Registered(cur) /\ cur \notin left
  BY <1>2 DEF AInv, Lists, Registered
<1>9. \A c \in Connections : c = cur => ~Registered(c)' /\ Ended(c)'
  BY <1>1, <1>3, <1>8 DEF Registered, Ended
<1> QED
  BY <1>1, <1>2, <1>5, <1>6, <1>7, <1>8, <1>9, Ends

\* An array without its element i.
LEMMA Removed ==
  ASSUME NEW D, NEW s \in Seq(D), NEW i \in 1 .. Len(s)
  PROVE  /\ RemoveAt(s, i) \in Seq(D) /\ Len(RemoveAt(s, i)) = Len(s) - 1
         /\ \A j \in 1 .. Len(s) - 1 : RemoveAt(s, i)[j] = IF j < i THEN s[j] ELSE s[j + 1]
<1>1. /\ SubSeq(s, 1, i - 1) \in Seq(D) /\ Len(SubSeq(s, 1, i - 1)) = i - 1
      /\ \A j \in 1 .. i - 1 : SubSeq(s, 1, i - 1)[j] = s[j]
  OBVIOUS
<1>2. /\ SubSeq(s, i + 1, Len(s)) \in Seq(D) /\ Len(SubSeq(s, i + 1, Len(s))) = Len(s) - i
      /\ \A j \in 1 .. Len(s) - i : SubSeq(s, i + 1, Len(s))[j] = s[i + j]
  OBVIOUS
<1>10. PICK a \in Seq(D) : a = SubSeq(s, 1, i - 1)
  BY <1>1
<1>11. PICK b \in Seq(D) : b = SubSeq(s, i + 1, Len(s))
  BY <1>2
<1>12. /\ Len(a) = i - 1 /\ \A j \in 1 .. i - 1 : a[j] = s[j]
       /\ Len(b) = Len(s) - i /\ \A j \in 1 .. Len(s) - i : b[j] = s[i + j]
       /\ Len(s) \in Nat
  BY <1>1, <1>2, <1>10, <1>11
<1>3. RemoveAt(s, i) = a \o b
  BY <1>10, <1>11 DEF RemoveAt
<1>4. a \o b \in Seq(D) /\ Len(a \o b) = Len(s) - 1
  <2>1. a \o b \in Seq(D) /\ Len(a \o b) = Len(a) + Len(b)
    OBVIOUS
  <2>2. Len(a) + Len(b) = Len(s) - 1
    BY <1>12
  <2> QED
    BY <2>1, <2>2
<1>5. ASSUME NEW j \in 1 .. Len(s) - 1
      PROVE  (a \o b)[j] = IF j < i THEN s[j] ELSE s[j + 1]
  <2>1. CASE j < i
    BY <1>12, <2>1
  <2>2. CASE ~(j < i)
    <3>1. (a \o b)[j] = b[j - (i - 1)] /\ j - (i - 1) \in 1 .. Len(s) - i /\ i + (j - (i - 1)) = j + 1
      BY <1>12, <2>2
    <3> QED
      BY <1>12, <2>2, <3>1
  <2> QED
    BY <2>1, <2>2
<1> QED
  BY <1>3, <1>4, <1>5

LEMMA RemoveFinalizedStep ==
  ASSUME A!AcceptingAssumption, AInv, NEW i \in DOMAIN clients, A!RemoveFinalized(i) PROVE AInv'
<1>1. /\ pc = "idle" /\ heap' = A!Finalized(clients[i])
      /\ clients' = RemoveAt(clients, i) /\ polls' = RemoveAt(polls, i)
      /\ UNCHANGED <<tls, left, cur, pc, bound, ssls, refused>>
  BY DEF A!RemoveFinalized, A!RemoveAt, RemoveAt
<1>2. PICK c \in Connections : c = clients[i]
  BY DEF AInv, Types
<1>3. /\ clients \in Seq(Connections) /\ i \in 1 .. Len(clients) /\ polls = clients /\ cur = A!None
      /\ Registered(c) /\ Whole(c) /\ c \notin left
  BY <1>1, <1>2 DEF AInv, Types, Lists, Registered
<1>4. /\ clients' \in Seq(Connections) /\ polls' = clients' /\ Len(clients') = Len(clients) - 1
      /\ \A j \in 1 .. Len(clients) - 1 : clients'[j] = IF j < i THEN clients[j] ELSE clients[j + 1]
  BY <1>1, <1>3, Removed
<1>5. /\ heap' \in Heaps /\ \A k \in A!Kinds : heap'[<<k, c>>] # "live"
      /\ heap'[<<"fd", c>>] # "twice" /\ heap'[<<"ssl", c>>] # "twice"
      /\ \A d \in Connections \ {c} : \A k \in A!Kinds : heap'[<<k, d>>] = heap[<<k, d>>]
  <2>1. /\ heap[<<"fd", c>>] = "live" /\ heap[<<"ssl", c>>] \in {"absent", "live"}
        /\ Secured(c) \/ (c \notin ssls /\ \A k \in A!Kinds \ {"fd"} : heap[<<k, c>>] # "live")
    BY <1>3, Objects DEF Whole, Bare, Secured, Is
  <2> QED
    BY <1>1, <1>2, <2>1, FinalizedFrees DEF AInv
<1>6. Types'
  BY <1>1, <1>4, <1>5 DEF AInv, Types, Heaps
<1>7. /\ \A j \in 1 .. Len(clients') : clients'[j] # c /\ Registered(clients'[j])
      /\ \A j, k \in 1 .. Len(clients') : clients'[j] = clients'[k] => j = k
      /\ \A d \in Connections \ {c} : Registered(d) => \E j \in 1 .. Len(clients') : clients'[j] = d
  <2>1. \A j, k \in 1 .. Len(clients) : clients[j] = clients[k] => j = k
    BY DEF AInv, Lists
  <2>2. \A j \in 1 .. Len(clients') : clients'[j] # c /\ Registered(clients'[j])
    BY <1>2, <1>3, <1>4, <2>1 DEF Registered
  <2>3. \A j, k \in 1 .. Len(clients') : clients'[j] = clients'[k] => j = k
    <3> DEFINE before(j) == IF j < i THEN j ELSE j + 1
    <3>1. i \in Nat /\ Len(clients) \in Nat /\ Len(clients') = Len(clients) - 1
      BY <1>3, <1>4
    <3>2. ASSUME NEW j \in 1 .. Len(clients')
          PROVE  before(j) \in 1 .. Len(clients) /\ clients'[j] = clients[before(j)]
      BY <1>4, <3>1
    <3>3. ASSUME NEW j \in 1 .. Len(clients'), NEW k \in 1 .. Len(clients'), before(j) = before(k) PROVE j = k
      BY <3>1, <3>3
    <3> HIDE DEF before
    <3> QED
      BY <2>1, <3>2, <3>3
  <2>4. ASSUME NEW d \in Connections \ {c}, Registered(d)
        PROVE  \E j \in 1 .. Len(clients') : clients'[j] = d
    <3>1. PICK k \in 1 .. Len(clients) : clients[k] = d
      BY <2>4 DEF Registered
    <3>2. CASE k < i
      <4>1. k \in 1 .. Len(clients') /\ clients'[k] = d
        BY <1>3, <1>4, <3>1, <3>2
      <4> QED
        BY <4>1
    <3>3. CASE i < k
      <4>1. k - 1 \in 1 .. Len(clients') /\ clients'[k - 1] = d
        BY <1>3, <1>4, <3>1, <3>3
      <4> QED
        BY <4>1
    <3> QED
      BY <1>2, <1>3, <2>4, <3>1, <3>2, <3>3
  <2> QED
    BY <2>2, <2>3, <2>4
<1>8. Lists'
  <2>1. \A j \in 1 .. Len(clients') : clients'[j] \notin left /\ clients'[j] # cur
    BY <1>7 DEF AInv, Lists, Registered
  <2> QED
    BY <1>1, <1>4, <1>7, <2>1 DEF AInv, Lists
<1>9. \A d \in Connections \ {c} : Same(d) /\ (Registered(d)' <=> Registered(d))
  BY <1>1, <1>5, <1>7 DEF Same, Registered
<1>10. ~Registered(c)' /\ Ended(c)'
  BY <1>5, <1>7 DEF Registered, Ended
<1> QED
  BY <1>1, <1>3, <1>6, <1>8, <1>9, <1>10, Ends

-----------------------------------------------------------------------------
(* The theorems about Accepting.                                            *)

LEMMA AcceptingNext ==
  ASSUME A!AcceptingAssumption
  PROVE  AInv /\ [A!Next]_A!vars => AInv'
<1> SUFFICES ASSUME AInv, [A!Next]_A!vars PROVE AInv'
  OBVIOUS
<1>1. CASE UNCHANGED A!vars
  BY <1>1 DEF A!vars, AInv, Types, Lists, Fresh, Whole, Secured, Bare, Ended, AtHand, Untied, Over, Registered, Is
<1>2. ASSUME NEW c \in left, A!Accept(c) PROVE AInv'
  BY <1>2, AcceptStep
<1>3. ASSUME NEW i \in DOMAIN clients, A!RemoveFinalized(i) PROVE AInv'
  BY <1>3, RemoveFinalizedStep
<1> QED
  BY <1>1, <1>2, <1>3, FcntlStep, RefuseStep, MakeReadBioStep, MakeWriteBioStep, MakeSslStep, BindStep,
     UnmakeStep, AppendPollStep, AppendClientStep, FailureStep DEF A!Next

\* AInv holds in every reachable state.
THEOREM AcceptingInvariant == ASSUME A!AcceptingAssumption PROVE A!Spec => []AInv
<1>1. A!Init => AInv
  BY AcceptingInit
<1>2. AInv /\ [A!Next]_A!vars => AInv'
  BY AcceptingNext
<1> QED
  BY <1>1, <1>2, PTL DEF A!Spec

LEMMA AcceptingTypeOKHolds == ASSUME A!AcceptingAssumption PROVE AInv => A!TypeOK
<1> SUFFICES ASSUME AInv PROVE A!TypeOK
  OBVIOUS
<1>1. ASSUME NEW c \in Connections
      PROVE  heap[<<"fd", c>>] # "twice" /\ heap[<<"ssl", c>>] # "twice"
  <2>1. CASE c \in left
    BY <2>1, Objects DEF AInv, Fresh, Is
  <2>2. CASE Registered(c)
    BY <2>2, Objects DEF AInv, Whole, Bare, Secured, Is
  <2>3. CASE c = cur
    <3>1. AtHand(c) /\ pc \in Steps /\ pc # "idle"
      BY <2>3 DEF AInv, Types, Lists, A!AcceptingAssumption
    <3>2. CASE pc = "failure"
      BY <3>1, <3>2 DEF AtHand
    <3>3. CASE pc # "failure"
      BY <3>1, <3>3, Objects DEF AtHand, Whole, Bare, Secured, Is, Steps
    <3> QED
      BY <3>2, <3>3
  <2>4. CASE Over(c)
    BY <2>4 DEF AInv, Ended
  <2> QED
    BY <2>1, <2>2, <2>3, <2>4 DEF Over
<1> QED
  BY <1>1 DEF AInv, Types, States, Steps, A!TypeOK

\* However many connections come and whichever call fails: no descriptor and
\* no SSL object is freed twice, and both arrays hold connections.
THEOREM AcceptingTypeOK == ASSUME A!AcceptingAssumption PROVE A!Spec => []A!TypeOK
<1>1. AInv => A!TypeOK
  BY AcceptingTypeOKHolds
<1> QED
  BY <1>1, AcceptingInvariant, PTL

LEMMA AcceptingNothingLeakedHolds == ASSUME A!AcceptingAssumption PROVE AInv => A!NothingLeaked
<1> SUFFICES ASSUME AInv, pc = "idle", NEW c \in Connections \ refused, NEW k \in A!Kinds, A!Live(k, c)
             PROVE  Registered(c)
  BY DEF A!NothingLeaked, A!Contains, Registered
<1>1. c \notin left
  BY DEF AInv, Fresh, Is, A!Live
<1>2. ~Over(c)
  BY DEF AInv, Ended, A!Live
<1> QED
  BY <1>1, <1>2 DEF AInv, Lists, Over, A!AcceptingAssumption

\* Whichever call of server_accept_connection fails, between two connections
\* what is held belongs to a listed client or to a refused connection.
THEOREM AcceptingNothingLeaked == ASSUME A!AcceptingAssumption PROVE A!Spec => []A!NothingLeaked
<1>1. AInv => A!NothingLeaked
  BY AcceptingNothingLeakedHolds
<1> QED
  BY <1>1, AcceptingInvariant, PTL

LEMMA AcceptingParallelHolds == ASSUME A!AcceptingAssumption PROVE AInv => A!Parallel
<1> SUFFICES ASSUME AInv, pc = "idle" PROVE A!Parallel
  BY DEF A!Parallel
<1>1. polls = clients
  BY DEF AInv, Lists
<1>2. ASSUME NEW i \in DOMAIN clients
      PROVE  heap[<<"fd", clients[i]>>] = "live" /\ (clients[i] \in tls => heap[<<"ssl", clients[i]>>] = "live")
  <2>1. clients[i] \in Connections /\ Registered(clients[i])
    BY DEF AInv, Types, Registered
  <2>2. Whole(clients[i])
    BY <2>1 DEF AInv
  <2> QED
    BY <2>2, Objects DEF Whole, Secured, Is
<1> QED
  BY <1>1, <1>2 DEF A!Parallel, A!Live

\* clients->p[i] is the client of polls->p[i + ACCEPTING_SOCKETS], and what a
\* listed client needs is open.
THEOREM AcceptingParallel == ASSUME A!AcceptingAssumption PROVE A!Spec => []A!Parallel
<1>1. AInv => A!Parallel
  BY AcceptingParallelHolds
<1> QED
  BY <1>1, AcceptingInvariant, PTL

-----------------------------------------------------------------------------
(* The inductive invariant of Listening.                                    *)

Places == 1 .. Len(polls)
Fds == L!Descriptors \cup {L!NoFd}

ListeningTypes ==
  /\ host \in [1 .. Ports -> SUBSET L!Kinds] /\ open \subseteq L!Descriptors
  /\ polls \in Seq(Fds) /\ port \in 1 .. Ports
  /\ pc \in {"ipv4", "ipv6", "append", "run", "failed", "exit"}
  /\ mode \in Seq(1 .. 5) /\ Len(mode) = port
  /\ ipv4_poll \in Fds /\ ipv6_poll \in Fds

\* Every open descriptor is known, at one place or as one of the two at hand.
InPolls(d) == \E i \in Places : polls[i] = d
Owned ==
  /\ \A d \in L!Descriptors : d \in open <=> InPolls(d) \/ d = ipv4_poll \/ d = ipv6_poll
  /\ \A i, j \in Places : polls[i] = polls[j] /\ polls[i] # L!NoFd => i = j
  /\ \A d \in {ipv4_poll, ipv6_poll} : d # L!NoFd => ~InPolls(d)
  /\ ipv4_poll # L!NoFd => ipv4_poll # ipv6_poll
  /\ misused = FALSE

\* The ports that have their pair, and that of the port at hand.
Paired == IF pc = "run" THEN port ELSE port - 1
Placed ==
  /\ Len(polls) = 2 * Paired
  /\ \A i \in Places : polls[i] # L!NoFd => polls[i][1] = (i + 1) \div 2
  /\ \A d \in {ipv4_poll, ipv6_poll} : d # L!NoFd => d[1] = port

\* The modes that did not work could not have.
RuledOut(p) == \A m \in 1 .. 4 : m < mode[p] => ~(L!Tries(m) \subseteq host[p])
Settled ==
  \A p \in 1 .. Paired :
    /\ mode[p] # 5 /\ RuledOut(p) /\ L!Tries(mode[p]) \subseteq host[p]
    /\ \A k \in L!Kinds : <<p, k>> \in open <=> k \in L!Tries(mode[p])

\* How far the mode at hand came.
Trying ==
  /\ mode[port] # 5 /\ RuledOut(port)
  /\ ipv4_poll = IF pc # "ipv4" /\ "ipv4" \in L!Tries(mode[port]) THEN <<port, "ipv4">> ELSE L!NoFd
  /\ IF pc = "append" /\ L!Ipv6Kind # {}
     THEN \E k \in L!Ipv6Kind : ipv6_poll = <<port, k>> /\ k \in host[port]
     ELSE ipv6_poll = L!NoFd
  /\ ipv4_poll # L!NoFd => "ipv4" \in host[port]

LInv ==
  /\ ListeningTypes /\ Owned
  /\ pc \in {"ipv4", "ipv6", "append", "run"} => Placed /\ Settled
  /\ pc \in {"ipv4", "ipv6", "append"} => Trying
  /\ pc \notin {"ipv6", "append"} => ipv4_poll = L!NoFd /\ ipv6_poll = L!NoFd
  /\ pc = "exit" => polls = <<>>
  /\ pc = "run" => port = Ports

\* The four modes, and the descriptors of a port.
LEMMA Modes ==
  /\ L!Kinds = {"ipv4", "ipv6_only", "ipv6"}
  /\ L!Tries(1) = {"ipv4", "ipv6_only"} /\ L!Tries(2) = {"ipv6"}
  /\ L!Tries(3) = {"ipv6_only"} /\ L!Tries(4) = {"ipv4"}
  BY DEF L!Kinds, L!Tries

LEMMA OfPort ==
  ASSUME NEW p \in 1 .. Ports, NEW k \in L!Kinds, Ports \in Nat \ {0}
  PROVE  <<p, k>> \in L!Descriptors /\ <<p, k>> # L!NoFd /\ <<p, k>>[1] = p /\ <<p, k>>[2] = k
  BY DEF L!Descriptors, L!NoFd

LEMMA NoFdIsNone == L!NoFd \notin L!Descriptors
  BY DEF L!Descriptors, L!NoFd

\* close() of open descriptors, each named once.
LEMMA Closed ==
  ASSUME NEW fds \in Seq(Fds), L!Close(fds), misused = FALSE, open \subseteq L!Descriptors,
         \A i \in 1 .. Len(fds) : fds[i] # L!NoFd => fds[i] \in open,
         \A i, j \in 1 .. Len(fds) : fds[i] = fds[j] /\ fds[i] # L!NoFd => i = j
  PROVE  /\ misused' = FALSE /\ open' \subseteq L!Descriptors
         /\ \A d \in L!Descriptors : d \in open' <=> d \in open /\ \A i \in 1 .. Len(fds) : fds[i] # d
<1> DEFINE real == {i \in DOMAIN fds : fds[i] # L!NoFd}
<1>1. /\ open' = open \ {fds[i] : i \in real}
      /\ misused' = (misused \/ \E i \in real : fds[i] \notin open \/ \E j \in real \ {i} : fds[j] = fds[i])
  BY DEF L!Close
<1>2. DOMAIN fds = 1 .. Len(fds)
  OBVIOUS
<1>3. ~ \E i \in real : fds[i] \notin open \/ \E j \in real \ {i} : fds[j] = fds[i]
  BY <1>2
<1>4. \A d \in L!Descriptors : d \in {fds[i] : i \in real} <=> \E i \in 1 .. Len(fds) : fds[i] = d
  BY <1>2, NoFdIsNone
<1> HIDE DEF real
<1> QED
  BY <1>1, <1>3, <1>4

\* The two descriptors at hand, one after the other.
LEMMA MadeIs ==
  L!Made = IF ipv4_poll = L!NoFd
           THEN IF ipv6_poll = L!NoFd THEN <<>> ELSE <<ipv6_poll>>
           ELSE IF ipv6_poll = L!NoFd THEN <<ipv4_poll>> ELSE <<ipv4_poll, ipv6_poll>>
<1>1. \A a, b : <<>> \o <<>> = <<>> /\ <<>> \o <<b>> = <<b>> /\ <<a>> \o <<>> = <<a>>
  OBVIOUS
<1>2. \A a, b : <<a>> \o <<b>> = <<a, b>>
  <2> SUFFICES ASSUME NEW a, NEW b PROVE <<a>> \o <<b>> = <<a, b>>
    OBVIOUS
  <2>1. <<a>> \in Seq({a, b}) /\ <<b>> \in Seq({a, b}) /\ <<a, b>> \in Seq({a, b})
    OBVIOUS
  <2>2. <<a>> \o <<b>> \in Seq({a, b}) /\ Len(<<a>> \o <<b>>) = 2
        /\ (<<a>> \o <<b>>)[1] = a /\ (<<a>> \o <<b>>)[2] = b
    BY <2>1, ConcatProperties
  <2>3. PICK s \in Seq({a, b}), t \in Seq({a, b}) : s = <<a>> \o <<b>> /\ t = <<a, b>>
    BY <2>1, <2>2
  <2>4. Len(s) = 2 /\ Len(t) = 2 /\ s[1] = t[1] /\ s[2] = t[2]
    BY <2>2, <2>3
  <2>5. \A i \in 1 .. Len(s) : s[i] = t[i]
    BY <2>4
  <2>6. s = t
    BY <2>4, <2>5, SeqEqual
  <2> QED
    BY <2>3, <2>6
<1> QED
  BY <1>1, <1>2 DEF L!Made, L!Real

LEMMA HeldClosed ==
  ASSUME ListeningTypes, Owned, L!Close(<<ipv4_poll, ipv6_poll>>) \/ L!Close(L!Made)
  PROVE  /\ misused' = FALSE /\ open' \subseteq L!Descriptors
         /\ \A d \in L!Descriptors : d \in open' <=> d \in open /\ d # ipv4_poll /\ d # ipv6_poll
<1>1. /\ misused = FALSE /\ open \subseteq L!Descriptors /\ ipv4_poll \in Fds /\ ipv6_poll \in Fds
      /\ ipv4_poll # L!NoFd => ipv4_poll \in open /\ ipv4_poll # ipv6_poll
      /\ ipv6_poll # L!NoFd => ipv6_poll \in open
  BY DEF ListeningTypes, Owned, Fds
<1>2. CASE L!Close(<<ipv4_poll, ipv6_poll>>)
  <2> DEFINE fds == <<ipv4_poll, ipv6_poll>>
  <2>1. /\ fds \in Seq(Fds) /\ Len(fds) = 2 /\ fds[1] = ipv4_poll /\ fds[2] = ipv6_poll
    BY <1>1
  <2>2. L!Close(fds)
    BY <1>2
  <2> HIDE DEF fds
  <2>3. /\ \A i \in 1 .. Len(fds) : fds[i] # L!NoFd => fds[i] \in open
        /\ \A i, j \in 1 .. Len(fds) : fds[i] = fds[j] /\ fds[i] # L!NoFd => i = j
    BY <1>1, <2>1
  <2>4. /\ misused' = FALSE /\ open' \subseteq L!Descriptors
        /\ \A d \in L!Descriptors : d \in open' <=> d \in open /\ \A i \in 1 .. Len(fds) : fds[i] # d
    BY <1>1, <2>1, <2>2, <2>3, Closed
  <2> QED
    BY <2>1, <2>4
<1>3. CASE L!Close(L!Made)
  <2>1. PICK fds \in Seq(Fds) : fds = L!Made
    <3>1. L!Made \in Seq(Fds)
      BY <1>1, MadeIs
    <3> QED
      BY <3>1
  <2>2. /\ Len(fds) \in 0 .. 2
        /\ \A d \in L!Descriptors : (\E i \in 1 .. Len(fds) : fds[i] = d) <=> d = ipv4_poll \/ d = ipv6_poll
        /\ \A i \in 1 .. Len(fds) : fds[i] = ipv4_poll \/ fds[i] = ipv6_poll
        /\ Len(fds) = 2 => fds[1] = ipv4_poll /\ fds[2] = ipv6_poll /\ ipv4_poll # L!NoFd
    <3>1. CASE ipv4_poll = L!NoFd /\ ipv6_poll = L!NoFd
      <4>1. fds = <<>>
        BY <2>1, <3>1, MadeIs
      <4> QED
        BY <3>1, <4>1, NoFdIsNone
    <3>2. CASE ipv4_poll = L!NoFd /\ ipv6_poll # L!NoFd
      <4>1. Len(fds) = 1 /\ fds[1] = ipv6_poll
        BY <2>1, <3>2, MadeIs
      <4> QED
        BY <3>2, <4>1, NoFdIsNone
    <3>3. CASE ipv4_poll # L!NoFd /\ ipv6_poll = L!NoFd
      <4>1. Len(fds) = 1 /\ fds[1] = ipv4_poll
        BY <2>1, <3>3, MadeIs
      <4> QED
        BY <3>3, <4>1, NoFdIsNone
    <3>4. CASE ipv4_poll # L!NoFd /\ ipv6_poll # L!NoFd
      <4>1. Len(fds) = 2 /\ fds[1] = ipv4_poll /\ fds[2] = ipv6_poll
        BY <2>1, <3>4, MadeIs
      <4> QED
        BY <3>4, <4>1
    <3> QED
      BY <3>1, <3>2, <3>3, <3>4
  <2>3. /\ \A i \in 1 .. Len(fds) : fds[i] # L!NoFd => fds[i] \in open
        /\ \A i, j \in 1 .. Len(fds) : fds[i] = fds[j] /\ fds[i] # L!NoFd => i = j
    BY <1>1, <2>2
  <2>4. /\ misused' = FALSE /\ open' \subseteq L!Descriptors
        /\ \A d \in L!Descriptors : d \in open' <=> d \in open /\ \A i \in 1 .. Len(fds) : fds[i] # d
    BY <1>1, <1>3, <2>1, <2>3, Closed
  <2> QED
    BY <2>2, <2>4
<1> QED
  BY <1>2, <1>3

\* A port that is at hand has no descriptor in polls.
LEMMA NotYet ==
  ASSUME ListeningTypes, Placed, pc # "run", L!ListeningAssumption
  PROVE  \A k \in L!Kinds : ~InPolls(<<port, k>>)
<1> SUFFICES ASSUME NEW k \in L!Kinds, NEW i \in Places, polls[i] = <<port, k>> PROVE FALSE
  BY DEF InPolls
<1>1. port \in Nat /\ i \in 1 .. 2 * (port - 1)
  BY DEF ListeningTypes, Placed, Paired, Places, L!ListeningAssumption
<1>2. polls[i][1] = (i + 1) \div 2
  <2>1. polls[i] # L!NoFd
    BY OfPort DEF ListeningTypes, L!ListeningAssumption
  <2> QED
    BY <2>1 DEF Placed
<1>3. polls[i][1] = port
  OBVIOUS
<1> QED
  BY <1>1, <1>2, <1>3

LEMMA ListeningInit == ASSUME L!ListeningAssumption PROVE L!Init => LInv
<1> SUFFICES ASSUME L!Init PROVE LInv
  OBVIOUS
<1>1. /\ host \in [1 .. Ports -> SUBSET L!Kinds] /\ open = {} /\ polls = <<>> /\ port = 1 /\ pc = "ipv4"
      /\ mode = <<1>> /\ ipv4_poll = L!NoFd /\ ipv6_poll = L!NoFd /\ misused = FALSE
  BY DEF L!Init
<1>2. Ports \in Nat \ {0} /\ Len(polls) = 0 /\ Len(mode) = 1 /\ mode[1] = 1
  BY <1>1 DEF L!ListeningAssumption
<1>3. ListeningTypes
  <2>1. polls \in Seq(Fds) /\ mode \in Seq(1 .. 5) /\ L!NoFd \in Fds
    BY <1>1 DEF Fds
  <2> QED
    BY <1>1, <1>2, <2>1 DEF ListeningTypes
<1>4. Owned
  BY <1>1, <1>2, NoFdIsNone DEF Owned, InPolls, Places
<1>5. Placed /\ Settled
  BY <1>1, <1>2 DEF Placed, Settled, Paired, Places
<1>6. Trying
  BY <1>1, <1>2 DEF Trying, RuledOut
<1> QED
  BY <1>1, <1>3, <1>4, <1>5, <1>6 DEF LInv

\* The mode at hand is abandoned: it could not have worked on this host.
LEMMA NextMode ==
  ASSUME L!ListeningAssumption, LInv, pc \in {"ipv4", "ipv6"}, L!TryNextMode,
         ~(L!Tries(mode[port]) \subseteq host[port]),
         ipv4_poll' = L!NoFd, ipv6_poll' = L!NoFd, UNCHANGED <<host, polls, port>>
  PROVE  LInv'
<1>1. /\ ListeningTypes /\ Owned /\ Placed /\ Settled /\ Trying
  BY DEF LInv
<1>2. /\ port \in 1 .. Ports /\ Ports \in Nat \ {0} /\ mode \in Seq(1 .. 5) /\ Len(mode) = port
      /\ mode[port] \in 1 .. 4
  BY <1>1 DEF ListeningTypes, Trying, L!ListeningAssumption
<1>3. /\ mode' = [mode EXCEPT ![port] = mode[port] + 1]
      /\ pc' = IF mode[port] = 4 THEN "failed" ELSE "ipv4"
  BY DEF L!TryNextMode
<1>4. /\ mode' \in Seq(1 .. 5) /\ Len(mode') = port /\ mode'[port] = mode[port] + 1
      /\ \A p \in 1 .. port - 1 : mode'[p] = mode[p]
  BY <1>2, <1>3
<1>5. /\ misused' = FALSE /\ open' \subseteq L!Descriptors
      /\ \A d \in L!Descriptors : d \in open' <=> d \in open /\ d # ipv4_poll /\ d # ipv6_poll
  BY <1>1, HeldClosed DEF L!TryNextMode
<1>6. ListeningTypes'
  BY <1>1, <1>3, <1>4, <1>5 DEF ListeningTypes, Fds
<1>7. Owned'
  <2>1. \A d \in L!Descriptors : d \in open' <=> InPolls(d)
    BY <1>1, <1>5, NoFdIsNone DEF Owned
  <2>2. \A d : InPolls(d)' <=> InPolls(d)
    BY DEF InPolls, Places
  <2> QED
    BY <1>1, <1>5, <2>1, <2>2, NoFdIsNone DEF Owned, Places
<1>8. CASE mode[port] = 4
  BY <1>3, <1>6, <1>7, <1>8 DEF LInv
<1>9. CASE mode[port] # 4
  <2>1. pc' = "ipv4" /\ Paired' = Paired /\ Paired = port - 1
    BY <1>3, <1>9 DEF Paired
  <2>2. Placed'
    BY <1>1, <2>1 DEF Placed, Places
  <2>3. Settled'
    <3> SUFFICES ASSUME NEW p \in 1 .. port - 1
                 PROVE  /\ mode'[p] # 5 /\ RuledOut(p)' /\ L!Tries(mode'[p]) \subseteq host'[p]
                        /\ \A k \in L!Kinds : <<p, k>> \in open' <=> k \in L!Tries(mode'[p])
      BY <2>1 DEF Settled
    <3>1. mode'[p] = mode[p] /\ p \in 1 .. Ports /\ p # port
      BY <1>2, <1>4
    <3>2. /\ mode[p] # 5 /\ RuledOut(p) /\ L!Tries(mode[p]) \subseteq host[p]
          /\ \A k \in L!Kinds : <<p, k>> \in open <=> k \in L!Tries(mode[p])
      BY <1>1, <2>1 DEF Settled
    <3>3. \A k \in L!Kinds : <<p, k>> \in L!Descriptors /\ <<p, k>> # ipv4_poll /\ <<p, k>> # ipv6_poll
      BY <1>1, <1>2, <3>1, OfPort DEF Placed
    <3> QED
      BY <1>5, <3>1, <3>2, <3>3 DEF RuledOut
  <2>4. Trying'
    <3>1. RuledOut(port)'
      BY <1>1, <1>2, <1>4 DEF Trying, RuledOut
    <3> QED
      BY <1>2, <1>4, <1>9, <2>1, <3>1 DEF Trying
  <2> QED
    BY <1>6, <1>7, <2>1, <2>2, <2>3, <2>4 DEF LInv
<1> QED
  BY <1>8, <1>9

\* A descriptor of the port at hand is opened: the ports before it are as
\* they were.
LEMMA Opened ==
  ASSUME L!ListeningAssumption, LInv, pc \in {"ipv4", "ipv6"}, pc' \in {"ipv6", "append"},
         NEW k \in L!Kinds, <<port, k>> \notin {ipv4_poll, ipv6_poll},
         open' = open \cup {<<port, k>>},
         \/ ipv4_poll' = <<port, k>> /\ ipv4_poll = L!NoFd /\ ipv6_poll' = ipv6_poll
         \/ ipv6_poll' = <<port, k>> /\ ipv6_poll = L!NoFd /\ ipv4_poll' = ipv4_poll,
         UNCHANGED <<host, polls, port, mode, misused>>
  PROVE  ListeningTypes' /\ Owned' /\ Placed' /\ Settled'
<1>1. /\ ListeningTypes /\ Owned /\ Placed /\ Settled /\ port \in 1 .. Ports /\ Ports \in Nat \ {0}
  BY DEF LInv, ListeningTypes, L!ListeningAssumption
<1>2. PICK d \in L!Descriptors : d = <<port, k>> /\ d # L!NoFd /\ d[1] = port
  BY <1>1, OfPort
<1>3. ~InPolls(d) /\ d # ipv4_poll /\ d # ipv6_poll
  BY <1>1, <1>2, NotYet
<1>4. ListeningTypes'
  BY <1>1, <1>2 DEF ListeningTypes, Fds
<1>5. \A e : InPolls(e)' <=> InPolls(e)
  BY DEF InPolls, Places
<1>6. Owned'
  BY <1>1, <1>2, <1>3, <1>5, NoFdIsNone DEF Owned, Places
<1>7. Paired' = Paired /\ Paired = port - 1
  BY DEF Paired
<1>8. Placed'
  BY <1>1, <1>2, <1>7 DEF Placed, Places
<1>9. Settled'
  <2> SUFFICES ASSUME NEW p \in 1 .. port - 1
               PROVE  /\ mode[p] # 5 /\ RuledOut(p)' /\ L!Tries(mode[p]) \subseteq host'[p]
                      /\ \A l \in L!Kinds : <<p, l>> \in open' <=> l \in L!Tries(mode[p])
    BY <1>7 DEF Settled
  <2>1. /\ mode[p] # 5 /\ RuledOut(p) /\ L!Tries(mode[p]) \subseteq host[p]
        /\ \A l \in L!Kinds : <<p, l>> \in open <=> l \in L!Tries(mode[p])
    BY <1>1, <1>7 DEF Settled
  <2>2. \A l \in L!Kinds : <<p, l>> # d
    BY <1>1, <1>2
  <2> QED
    BY <1>2, <2>1, <2>2 DEF RuledOut
<1> QED
  BY <1>4, <1>6, <1>8, <1>9

LEMMA CreateIpv4Step == ASSUME L!ListeningAssumption, LInv, L!CreateIpv4 PROVE LInv'
<1>1. /\ pc = "ipv4" /\ UNCHANGED <<host, polls, port, ipv6_poll>>
      /\ ListeningTypes /\ Owned /\ Placed /\ Settled /\ Trying
      /\ ipv4_poll = L!NoFd /\ ipv6_poll = L!NoFd
      /\ port \in 1 .. Ports /\ Ports \in Nat \ {0}
  BY DEF L!CreateIpv4, LInv, ListeningTypes, L!ListeningAssumption
<1>2. mode[port] \in 1 .. 4
  BY <1>1 DEF ListeningTypes, Trying
<1>3. CASE "ipv4" \notin L!Tries(mode[port])
  <2>1. pc' = "ipv6" /\ UNCHANGED <<open, mode, ipv4_poll, misused>>
    BY <1>3 DEF L!CreateIpv4
  <2>2. ListeningTypes' /\ Owned' /\ Placed' /\ Settled'
    BY <1>1, <2>1 DEF ListeningTypes, Owned, Placed, Settled, InPolls, Places, Paired, RuledOut
  <2>3. Trying'
    BY <1>1, <1>3, <2>1 DEF Trying, RuledOut
  <2> QED
    BY <2>1, <2>2, <2>3 DEF LInv
<1>4. CASE "ipv4" \in L!Tries(mode[port]) /\ L!Bindable("ipv4")
  <2>1. /\ ipv4_poll' = <<port, "ipv4">> /\ open' = open \cup {<<port, "ipv4">>}
        /\ pc' = "ipv6" /\ UNCHANGED <<mode, misused>> /\ "ipv4" \in host[port]
    BY <1>4 DEF L!CreateIpv4, L!Bindable
  <2>2. "ipv4" \in L!Kinds /\ <<port, "ipv4">> \notin {ipv4_poll, ipv6_poll}
    BY <1>1, OfPort, Modes
  <2>3. ListeningTypes' /\ Owned' /\ Placed' /\ Settled'
    BY <1>1, <2>1, <2>2, Opened
  <2>4. Trying'
    BY <1>1, <1>4, <2>1 DEF Trying, RuledOut
  <2> QED
    BY <2>1, <2>3, <2>4 DEF LInv
<1>5. CASE "ipv4" \in L!Tries(mode[port]) /\ ~L!Bindable("ipv4")
  <2>1. L!TryNextMode /\ ipv4_poll' = L!NoFd
    BY <1>5 DEF L!CreateIpv4
  <2>2. \A d \in open : d[1] # port
    <3> SUFFICES ASSUME NEW d \in open, d[1] = port PROVE FALSE
      OBVIOUS
    <3>1. d \in L!Descriptors /\ InPolls(d)
      BY <1>1, NoFdIsNone DEF ListeningTypes, Owned
    <3>2. PICK p \in 1 .. Ports, k \in L!Kinds : d = <<p, k>>
      BY <3>1 DEF L!Descriptors
    <3>3. p = port
      BY <3>2
    <3> QED
      BY <1>1, <3>1, <3>2, <3>3, NotYet
  <2>3. "ipv4" \notin host[port]
    BY <1>5, <2>2 DEF L!Bindable
  <2> QED
    BY <1>1, <1>5, <2>1, <2>3, NextMode
<1> QED
  BY <1>3, <1>4, <1>5

\* The kind of the IPv6 socket is told by the mode.
LEMMA Ipv6Kinds ==
  ASSUME mode[port] \in 1 .. 4
  PROVE  /\ L!Ipv6Kind \subseteq L!Kinds /\ L!Ipv6Kind = L!Tries(mode[port]) \ {"ipv4"}
         /\ \A k \in L!Ipv6Kind : /\ L!Ipv6Kind = {k} /\ k # "ipv4" /\ k \in L!Tries(mode[port])
                                  /\ ("ipv4" \in L!Tries(mode[port]) => k = "ipv6_only")
  BY Modes DEF L!Ipv6Kind

LEMMA CreateIpv6Step == ASSUME L!ListeningAssumption, LInv, L!CreateIpv6 PROVE LInv'
<1>1. /\ pc = "ipv6" /\ UNCHANGED <<host, polls, port>>
      /\ ListeningTypes /\ Owned /\ Placed /\ Settled /\ Trying
      /\ ipv6_poll = L!NoFd
      /\ port \in 1 .. Ports /\ Ports \in Nat \ {0}
  BY DEF L!CreateIpv6, LInv, ListeningTypes, Trying, L!ListeningAssumption
<1>2. /\ mode[port] \in 1 .. 4
      /\ ipv4_poll = IF "ipv4" \in L!Tries(mode[port]) THEN <<port, "ipv4">> ELSE L!NoFd
  BY <1>1 DEF ListeningTypes, Trying
<1>3. CASE L!Ipv6Kind = {}
  <2>1. pc' = "append" /\ UNCHANGED <<open, mode, ipv4_poll, ipv6_poll, misused>> /\ L!Ipv6Kind' = {}
    BY <1>1, <1>3 DEF L!CreateIpv6, L!Ipv6Kind
  <2>2. ListeningTypes' /\ Owned' /\ Placed' /\ Settled'
    BY <1>1, <2>1 DEF ListeningTypes, Owned, Placed, Settled, InPolls, Places, Paired, RuledOut
  <2>3. Trying'
    BY <1>1, <1>3, <2>1 DEF Trying, RuledOut
  <2> QED
    BY <2>1, <2>2, <2>3 DEF LInv
<1>4. CASE L!Ipv6Kind # {}
  <2>1. PICK kind \in L!Ipv6Kind :
          IF L!Bindable(kind)
          THEN /\ ipv6_poll' = <<port, kind>> /\ open' = open \cup {ipv6_poll'}
               /\ pc' = "append" /\ UNCHANGED <<mode, ipv4_poll, misused>>
          ELSE L!TryNextMode /\ ipv4_poll' = L!NoFd /\ ipv6_poll' = L!NoFd
    BY <1>4 DEF L!CreateIpv6
  <2>2. /\ kind \in L!Kinds /\ kind # "ipv4" /\ kind \in L!Tries(mode[port])
        /\ "ipv4" \in L!Tries(mode[port]) => kind = "ipv6_only"
    BY <1>2, Ipv6Kinds
  <2>3. CASE L!Bindable(kind)
    <3>1. /\ ipv6_poll' = <<port, kind>> /\ open' = open \cup {<<port, kind>>}
          /\ pc' = "append" /\ UNCHANGED <<mode, ipv4_poll, misused>> /\ kind \in host[port]
      BY <2>1, <2>3 DEF L!Bindable
    <3>2. <<port, kind>> \notin {ipv4_poll, ipv6_poll}
      BY <1>1, <1>2, <2>2, OfPort
    <3>3. ListeningTypes' /\ Owned' /\ Placed' /\ Settled'
      BY <1>1, <2>2, <3>1, <3>2, Opened
    <3>4. L!Ipv6Kind' = L!Ipv6Kind
      BY <1>1, <3>1 DEF L!Ipv6Kind
    <3>5. Trying'
      BY <1>1, <3>1, <3>4 DEF Trying, RuledOut
    <3> QED
      BY <3>1, <3>3, <3>5 DEF LInv
  <2>4. CASE ~L!Bindable(kind)
    <3>1. L!TryNextMode /\ ipv4_poll' = L!NoFd /\ ipv6_poll' = L!NoFd
      BY <2>1, <2>4
    <3>2. \A d \in open : d[1] = port => d = ipv4_poll
      <4> SUFFICES ASSUME NEW d \in open, d[1] = port, d # ipv4_poll PROVE FALSE
        OBVIOUS
      <4>1. d \in L!Descriptors /\ InPolls(d)
        BY <1>1, NoFdIsNone DEF ListeningTypes, Owned
      <4>2. PICK p \in 1 .. Ports, k \in L!Kinds : d = <<p, k>>
        BY <4>1 DEF L!Descriptors
      <4>3. p = port
        BY <4>2
      <4> QED
        BY <1>1, <4>1, <4>2, <4>3, NotYet
    <3>3. \A d \in open : d[1] = port => d[2] = "ipv4" /\ kind = "ipv6_only"
      BY <1>1, <1>2, <2>2, <3>2, OfPort, NoFdIsNone, Modes DEF ListeningTypes
    <3>4. L!Families("ipv4") \cap L!Families("ipv6_only") = {}
      BY DEF L!Families
    <3>5. kind \notin host[port]
      BY <2>4, <3>3, <3>4 DEF L!Bindable
    <3> QED
      BY <1>1, <2>2, <3>1, <3>5, NextMode
  <2> QED
    BY <2>3, <2>4
<1> QED
  BY <1>3, <1>4

\* The two places of a port.
First == IF ipv4_poll = L!NoFd THEN ipv6_poll ELSE ipv4_poll
Second == IF ipv4_poll = L!NoFd THEN L!NoFd ELSE ipv6_poll

LEMMA PairAppended ==
  ASSUME ListeningTypes, L!ListeningAssumption, Len(polls) = 2 * (port - 1)
  PROVE  /\ L!Filled(polls \o L!Made) \in Seq(Fds)
         /\ Len(L!Filled(polls \o L!Made)) = 2 * port
         /\ \A i \in 1 .. 2 * (port - 1) : L!Filled(polls \o L!Made)[i] = polls[i]
         /\ L!Filled(polls \o L!Made)[2 * port - 1] = First
         /\ L!Filled(polls \o L!Made)[2 * port] = Second
<1>1. /\ port \in Nat \ {0} /\ polls \in Seq(Fds) /\ ipv4_poll \in Fds /\ ipv6_poll \in Fds /\ L!NoFd \in Fds
  BY DEF ListeningTypes, L!ListeningAssumption, Fds
<1>2. /\ L!Made \in Seq(Fds) /\ Len(L!Made) \in 0 .. 2
      /\ First = IF Len(L!Made) = 0 THEN L!NoFd ELSE L!Made[1]
      /\ Second = IF Len(L!Made) < 2 THEN L!NoFd ELSE L!Made[2]
  <2>1. CASE ipv4_poll = L!NoFd /\ ipv6_poll = L!NoFd
    BY <1>1, <2>1, MadeIs DEF First, Second
  <2>2. CASE ipv4_poll = L!NoFd /\ ipv6_poll # L!NoFd
    BY <1>1, <2>2, MadeIs DEF First, Second
  <2>3. CASE ipv4_poll # L!NoFd /\ ipv6_poll = L!NoFd
    BY <1>1, <2>3, MadeIs DEF First, Second
  <2>4. CASE ipv4_poll # L!NoFd /\ ipv6_poll # L!NoFd
    BY <1>1, <2>4, MadeIs DEF First, Second
  <2> QED
    BY <2>1, <2>2, <2>3, <2>4
<1>3. PICK made \in Seq(Fds) : made = L!Made
  BY <1>2
<1>4. PICK n \in 0 .. 2 : n = Len(made)
  BY <1>2, <1>3
<1>5. /\ polls \o made \in Seq(Fds) /\ Len(polls \o made) = 2 * (port - 1) + n
      /\ \A i \in 1 .. 2 * (port - 1) : (polls \o made)[i] = polls[i]
      /\ \A i \in 1 .. n : (polls \o made)[2 * (port - 1) + i] = made[i]
  <2>1. /\ polls \o made \in Seq(Fds) /\ Len(polls \o made) = Len(polls) + Len(made)
        /\ \A i \in 1 .. Len(polls) + Len(made) :
             (polls \o made)[i] = IF i <= Len(polls) THEN polls[i] ELSE made[i - Len(polls)]
    BY <1>1, ConcatProperties
  <2> QED
    BY <1>1, <1>4, <2>1
<1>6. PICK s \in Seq(Fds) : s = polls \o made
  BY <1>5
<1>7. /\ Len(s) = 2 * (port - 1) + n
      /\ \A i \in 1 .. 2 * (port - 1) : s[i] = polls[i]
      /\ \A i \in 1 .. n : s[2 * (port - 1) + i] = made[i]
  BY <1>5, <1>6
<1>8. [i \in 1 .. 2 * port - Len(s) |-> L!NoFd] \in Seq(Fds)
  BY <1>1, <1>7
<1>9. PICK fill \in Seq(Fds) : fill = [i \in 1 .. 2 * port - Len(s) |-> L!NoFd]
  BY <1>8
<1>10. Len(fill) = 2 - n /\ \A i \in 1 .. 2 - n : fill[i] = L!NoFd
  BY <1>1, <1>7, <1>9
<1>11. /\ s \o fill \in Seq(Fds) /\ Len(s \o fill) = 2 * port
       /\ \A i \in 1 .. 2 * (port - 1) + n : (s \o fill)[i] = s[i]
       /\ \A i \in 2 * (port - 1) + n + 1 .. 2 * port : (s \o fill)[i] = L!NoFd
  <2>1. /\ s \o fill \in Seq(Fds) /\ Len(s \o fill) = Len(s) + Len(fill)
        /\ \A i \in 1 .. Len(s) + Len(fill) :
             (s \o fill)[i] = IF i <= Len(s) THEN s[i] ELSE fill[i - Len(s)]
    BY ConcatProperties
  <2>2. Len(s) + Len(fill) = 2 * port
    BY <1>1, <1>7, <1>10
  <2>3. ASSUME NEW i \in 1 .. 2 * (port - 1) + n PROVE (s \o fill)[i] = s[i]
    BY <1>1, <1>7, <2>1, <2>2
  <2>4. ASSUME NEW i \in 2 * (port - 1) + n + 1 .. 2 * port PROVE (s \o fill)[i] = L!NoFd
    <3>2. port \in Nat /\ port > 0 /\ n \in 0 .. 2 /\ Len(s) = 2 * (port - 1) + n
      BY <1>1, <1>7
    <3>1. i \in 1 .. Len(s) + Len(fill) /\ ~(i <= Len(s)) /\ i - Len(s) \in 1 .. 2 - n
      BY <2>2, <3>2
    <3> QED
      BY <1>10, <2>1, <3>1
  <2> QED
    BY <2>1, <2>2, <2>3, <2>4
<1>12. L!Filled(polls \o L!Made) = s \o fill
  BY <1>3, <1>6, <1>9 DEF L!Filled
<1>13. (s \o fill)[2 * port - 1] = First
  <2>1. CASE n = 0
    <3>1. 2 * port - 1 \in 2 * (port - 1) + n + 1 .. 2 * port
      BY <1>1, <2>1
    <3>2. First = L!NoFd
      BY <1>2, <1>3, <1>4, <2>1
    <3> QED
      BY <1>11, <3>1, <3>2
  <2>2. CASE n # 0
    <3>1. s[2 * (port - 1) + 1] = made[1] /\ (s \o fill)[2 * (port - 1) + 1] = s[2 * (port - 1) + 1]
      BY <1>1, <1>7, <1>11, <2>2
    <3>2. 2 * (port - 1) + 1 = 2 * port - 1 /\ First = made[1]
      BY <1>1, <1>2, <1>3, <1>4, <2>2
    <3> QED
      BY <3>1, <3>2
  <2> QED
    BY <2>1, <2>2
<1>14. (s \o fill)[2 * port] = Second
  <2>1. CASE n < 2
    BY <1>1, <1>2, <1>3, <1>4, <1>11, <2>1
  <2>2. CASE n = 2
    <3>1. s[2 * (port - 1) + 2] = made[2] /\ (s \o fill)[2 * (port - 1) + 2] = s[2 * (port - 1) + 2]
      BY <1>1, <1>7, <1>11, <2>2
    <3>2. 2 * (port - 1) + 2 = 2 * port /\ Second = made[2]
      BY <1>1, <1>2, <1>3, <1>4, <2>2
    <3> QED
      BY <3>1, <3>2
  <2>3. n < 2 \/ n = 2
    OBVIOUS
  <2> QED
    BY <2>1, <2>2, <2>3, Zenon
<1>15. \A i \in 1 .. 2 * (port - 1) : (s \o fill)[i] = polls[i]
  BY <1>1, <1>7, <1>11
<1> QED
  BY <1>11, <1>12, <1>13, <1>14, <1>15

\* The port at hand is open as its mode has it.
LEMMA HandOpen ==
  ASSUME L!ListeningAssumption, LInv, pc = "append"
  PROVE  /\ \A k \in L!Kinds : <<port, k>> \in open <=> k \in L!Tries(mode[port])
         /\ L!Tries(mode[port]) \subseteq host[port]
<1>1. /\ ListeningTypes /\ Owned /\ Placed /\ Trying /\ port \in 1 .. Ports /\ Ports \in Nat \ {0}
      /\ mode[port] \in 1 .. 4
  BY DEF LInv, ListeningTypes, Trying, L!ListeningAssumption
<1>2. ASSUME NEW k \in L!Kinds
      PROVE  <<port, k>> \in open <=> <<port, k>> = ipv4_poll \/ <<port, k>> = ipv6_poll
  <2>1. <<port, k>> \in L!Descriptors /\ ~InPolls(<<port, k>>)
    BY <1>1, OfPort, NotYet
  <2> QED
    BY <1>1, <2>1 DEF Owned
<1>3. \A k \in L!Kinds : <<port, k>> = ipv4_poll <=> k = "ipv4" /\ k \in L!Tries(mode[port])
  BY <1>1, OfPort DEF Trying
<1>4. \A k \in L!Kinds : <<port, k>> = ipv6_poll <=> k \in L!Ipv6Kind
  <2>1. CASE L!Ipv6Kind = {}
    BY <1>1, <2>1, OfPort DEF Trying
  <2>2. CASE L!Ipv6Kind # {}
    <3>1. PICK l \in L!Ipv6Kind : ipv6_poll = <<port, l>>
      BY <1>1, <2>2 DEF Trying
    <3>2. L!Ipv6Kind = {l}
      BY <1>1, Ipv6Kinds
    <3> QED
      BY <3>1, <3>2
  <2> QED
    BY <2>1, <2>2
<1>5. L!Ipv6Kind = L!Tries(mode[port]) \ {"ipv4"}
  BY <1>1, Ipv6Kinds
<1>6. L!Tries(mode[port]) \subseteq host[port]
  <2> SUFFICES ASSUME NEW k \in L!Tries(mode[port]) PROVE k \in host[port]
    OBVIOUS
  <2>1. CASE k = "ipv4"
    BY <1>1, <2>1, OfPort, Modes DEF Trying
  <2>2. CASE k # "ipv4"
    <3>1. k \in L!Ipv6Kind
      BY <1>5, <2>2
    <3>2. PICK l \in L!Ipv6Kind : l \in host[port]
      BY <1>1, <3>1 DEF Trying
    <3>3. k = l
      BY <1>1, <3>1, Ipv6Kinds
    <3> QED
      BY <3>2, <3>3
  <2> QED
    BY <2>1, <2>2
<1> QED
  BY <1>2, <1>3, <1>4, <1>5, <1>6

LEMMA AppendPairStep == ASSUME L!ListeningAssumption, LInv, L!AppendPair PROVE LInv'
<1>1. /\ pc = "append" /\ polls' = L!Filled(polls \o L!Made)
      /\ ipv4_poll' = L!NoFd /\ ipv6_poll' = L!NoFd /\ UNCHANGED <<host, open, misused>>
      /\ ListeningTypes /\ Owned /\ Placed /\ Settled /\ Trying
      /\ port \in 1 .. Ports /\ Ports \in Nat \ {0} /\ Len(polls) = 2 * (port - 1)
      /\ mode \in Seq(1 .. 5) /\ Len(mode) = port
  BY DEF L!AppendPair, LInv, ListeningTypes, Placed, Paired, L!ListeningAssumption
<1>2. /\ polls' \in Seq(Fds) /\ Len(polls') = 2 * port
      /\ \A i \in 1 .. 2 * (port - 1) : polls'[i] = polls[i]
      /\ polls'[2 * port - 1] = First /\ polls'[2 * port] = Second
  BY <1>1, PairAppended
<1>3. \/ pc' = "run" /\ port' = port /\ port = Ports /\ mode' = mode
      \/ pc' = "ipv4" /\ port' = port + 1 /\ port # Ports /\ mode' = mode \o <<1>>
  BY DEF L!AppendPair
<1>4. /\ mode' \in Seq(1 .. 5) /\ Len(mode') = port' /\ port' \in 1 .. Ports
      /\ \A p \in 1 .. port : mode'[p] = mode[p]
      /\ pc' = "ipv4" => mode'[port'] = 1
  <2>1. CASE pc' = "run" /\ port' = port /\ mode' = mode
    BY <1>1, <2>1
  <2>2. CASE pc' = "ipv4" /\ port' = port + 1 /\ port # Ports /\ mode' = mode \o <<1>>
    <3>1. <<1>> \in Seq(1 .. 5) /\ Len(<<1>>) = 1 /\ <<1>>[1] = 1
      OBVIOUS
    <3>2. PICK one \in Seq(1 .. 5) : one = <<1>> /\ Len(one) = 1 /\ one[1] = 1
      BY <3>1
    <3>3. /\ mode \o one \in Seq(1 .. 5) /\ Len(mode \o one) = Len(mode) + Len(one)
          /\ \A i \in 1 .. Len(mode) + Len(one) :
               (mode \o one)[i] = IF i <= Len(mode) THEN mode[i] ELSE one[i - Len(mode)]
      BY <1>1, ConcatProperties
    <3>4. /\ mode' \in Seq(1 .. 5) /\ Len(mode') = port + 1
          /\ \A i \in 1 .. port + 1 : mode'[i] = IF i <= port THEN mode[i] ELSE one[i - port]
      BY <1>1, <2>2, <3>2, <3>3
    <3>5. mode'[port + 1] = 1 /\ \A p \in 1 .. port : mode'[p] = mode[p]
      BY <1>1, <3>2, <3>4
    <3> QED
      BY <1>1, <2>2, <3>4, <3>5
  <2> QED
    BY <1>3, <2>1, <2>2
<1>5. ListeningTypes'
  BY <1>1, <1>2, <1>3, <1>4 DEF ListeningTypes, Fds
<1>6. /\ Places' = 1 .. 2 * port /\ Places = 1 .. 2 * (port - 1) /\ Paired' = port
      /\ \A i \in 1 .. 2 * port : i \in 1 .. 2 * (port - 1) \/ i = 2 * port - 1 \/ i = 2 * port
      /\ 2 * port - 1 \in 1 .. 2 * port /\ 2 * port \in 1 .. 2 * port /\ 2 * port - 1 # 2 * port
  BY <1>1, <1>2, <1>3 DEF Places, Paired
<1>7. /\ First # L!NoFd => First = ipv4_poll \/ First = ipv6_poll
      /\ Second # L!NoFd => Second = ipv6_poll /\ First # Second
      /\ \A d \in L!Descriptors : d = First \/ d = Second <=> d = ipv4_poll \/ d = ipv6_poll
  BY <1>1, NoFdIsNone DEF First, Second, Owned
<1>8. \A d \in L!Descriptors : InPolls(d)' <=> InPolls(d) \/ d = ipv4_poll \/ d = ipv6_poll
  <2> SUFFICES ASSUME NEW d \in L!Descriptors
               PROVE  InPolls(d)' <=> InPolls(d) \/ d = First \/ d = Second
    BY <1>7
  <2>1. ASSUME InPolls(d)' PROVE InPolls(d) \/ d = First \/ d = Second
    BY <1>2, <1>6, <2>1 DEF InPolls
  <2>2. ASSUME InPolls(d) PROVE InPolls(d)'
    <3>1. PICK i \in 1 .. 2 * (port - 1) : polls[i] = d
      BY <1>6, <2>2 DEF InPolls
    <3>2. i \in 1 .. 2 * port
      BY <1>1
    <3> QED
      BY <1>2, <1>6, <3>1, <3>2 DEF InPolls
  <2>3. ASSUME d = First \/ d = Second PROVE InPolls(d)'
    <3>1. polls'[2 * port - 1] = d \/ polls'[2 * port] = d
      BY <1>2, <2>3
    <3>2. 2 * port - 1 \in Places' /\ 2 * port \in Places'
      BY <1>6
    <3>3. \E i \in Places' : polls'[i] = d
      BY <3>1, <3>2, Zenon
    <3> QED
      BY <3>3 DEF InPolls
  <2> QED
    BY <2>1, <2>2, <2>3
<1>9. Owned'
  <2>1. \A d \in L!Descriptors : d \in open' <=> InPolls(d)'
    BY <1>1, <1>8 DEF Owned
  <2>2. ASSUME NEW i \in 1 .. 2 * port, NEW j \in 1 .. 2 * port, polls'[i] = polls'[j], polls'[i] # L!NoFd
        PROVE  i = j
    <3>1. \A k \in 1 .. 2 * (port - 1) : polls'[k] # L!NoFd => polls'[k] # First /\ polls'[k] # Second
      BY <1>1, <1>2, <1>6, <1>7 DEF Owned, InPolls
    <3>2. CASE i \in 1 .. 2 * (port - 1) /\ j \in 1 .. 2 * (port - 1)
      BY <1>1, <1>2, <1>6, <2>2, <3>2 DEF Owned
    <3>3. CASE i \in {2 * port - 1, 2 * port} /\ j \in {2 * port - 1, 2 * port}
      BY <1>2, <1>7, <2>2, <3>3
    <3> QED
      BY <1>2, <1>6, <2>2, <3>1, <3>2, <3>3
  <2> QED
    BY <1>1, <1>6, <2>1, <2>2, NoFdIsNone DEF Owned
<1>10. Placed'
  <2>1. ASSUME NEW i \in 1 .. 2 * port, polls'[i] # L!NoFd
        PROVE  polls'[i][1] = (i + 1) \div 2
    <3>1. CASE i \in 1 .. 2 * (port - 1)
      BY <1>1, <1>2, <1>6, <2>1, <3>1 DEF Placed
    <3>2. CASE i = 2 * port - 1 \/ i = 2 * port
      <4>1. polls'[i][1] = port
        BY <1>1, <1>2, <1>7, <2>1, <3>2 DEF Placed
      <4>2. (i + 1) \div 2 = port
        BY <1>1, <3>2
      <4> QED
        BY <4>1, <4>2
    <3> QED
      BY <1>6, <3>1, <3>2
  <2> QED
    BY <1>1, <1>2, <1>6, <2>1 DEF Placed
<1>11. Settled'
  <2> SUFFICES ASSUME NEW p \in 1 .. port
               PROVE  /\ mode'[p] # 5 /\ RuledOut(p)' /\ L!Tries(mode'[p]) \subseteq host'[p]
                      /\ \A k \in L!Kinds : <<p, k>> \in open' <=> k \in L!Tries(mode'[p])
    BY <1>6 DEF Settled
  <2>1. mode'[p] = mode[p]
    BY <1>4
  <2>2. CASE p = port
    BY <1>1, <1>4, <2>1, <2>2, HandOpen DEF Trying, RuledOut
  <2>3. CASE p # port
    <3>1. p \in 1 .. Paired
      BY <1>1, <2>3 DEF Paired
    <3> QED
      BY <1>1, <2>1, <3>1 DEF Settled, RuledOut
  <2> QED
    BY <2>2, <2>3
<1>12. pc' = "ipv4" => Trying'
  BY <1>1, <1>4 DEF Trying, RuledOut
<1> QED
  BY <1>1, <1>3, <1>5, <1>9, <1>10, <1>11, <1>12 DEF LInv

LEMMA AppendFailedStep == ASSUME L!ListeningAssumption, LInv, L!AppendFailed PROVE LInv'
<1>1. /\ pc = "append" /\ pc' = "failed" /\ ipv4_poll' = L!NoFd /\ ipv6_poll' = L!NoFd
      /\ UNCHANGED <<host, polls, port, mode>> /\ L!Close(L!Made)
      /\ ListeningTypes /\ Owned
  BY DEF L!AppendFailed, LInv
<1>2. /\ misused' = FALSE /\ open' \subseteq L!Descriptors
      /\ \A d \in L!Descriptors : d \in open' <=> d \in open /\ d # ipv4_poll /\ d # ipv6_poll
  BY <1>1, HeldClosed
<1>3. ListeningTypes'
  BY <1>1, <1>2 DEF ListeningTypes, Fds
<1>4. Owned'
  <2>1. \A d \in L!Descriptors : d \in open' <=> InPolls(d)
    BY <1>1, <1>2, NoFdIsNone DEF Owned
  <2>2. \A d : InPolls(d)' <=> InPolls(d)
    BY <1>1 DEF InPolls, Places
  <2> QED
    BY <1>1, <1>2, <2>1, <2>2, NoFdIsNone DEF Owned, Places
<1> QED
  BY <1>1, <1>3, <1>4 DEF LInv

LEMMA FillFailedStep == ASSUME L!ListeningAssumption, LInv, L!FillFailed PROVE LInv'
<1>1. /\ pc = "append" /\ pc' = "failed" /\ ipv4_poll' = L!NoFd /\ ipv6_poll' = L!NoFd
      /\ Len(L!Made) = 1 /\ polls' = polls \o L!Made
      /\ UNCHANGED <<host, open, port, mode, misused>>
      /\ ListeningTypes /\ Owned
  BY DEF L!FillFailed, LInv
<1>2. PICK d \in L!Descriptors : L!Made = <<d>> /\ {d} = {ipv4_poll, ipv6_poll} \ {L!NoFd}
  <2>1. ipv4_poll \in Fds /\ ipv6_poll \in Fds
    BY <1>1 DEF ListeningTypes
  <2>2. CASE ipv4_poll = L!NoFd
    <3>1. ipv6_poll # L!NoFd /\ L!Made = <<ipv6_poll>>
      BY <1>1, <2>2, MadeIs
    <3> QED
      BY <2>1, <2>2, <3>1 DEF Fds
  <2>3. CASE ipv4_poll # L!NoFd
    <3>1. ipv6_poll = L!NoFd /\ L!Made = <<ipv4_poll>>
      BY <1>1, <2>3, MadeIs
    <3> QED
      BY <2>1, <2>3, <3>1 DEF Fds
  <2> QED
    BY <2>2, <2>3
<1>3. PICK n \in Nat : n = Len(polls)
  BY <1>1 DEF ListeningTypes
<1>4. /\ polls' \in Seq(Fds) /\ Len(polls') = n + 1 /\ polls'[n + 1] = d
      /\ \A i \in 1 .. n : polls'[i] = polls[i]
  <2>1. PICK one \in Seq(Fds) : one = <<d>> /\ Len(one) = 1 /\ one[1] = d
    <3>1. <<d>> \in Seq(Fds) /\ Len(<<d>>) = 1 /\ <<d>>[1] = d
      BY DEF Fds
    <3> QED
      BY <3>1
  <2>2. polls \in Seq(Fds)
    BY <1>1 DEF ListeningTypes
  <2>3. /\ polls \o one \in Seq(Fds) /\ Len(polls \o one) = Len(polls) + Len(one)
        /\ \A i \in 1 .. Len(polls) + Len(one) :
             (polls \o one)[i] = IF i <= Len(polls) THEN polls[i] ELSE one[i - Len(polls)]
    BY <2>2, ConcatProperties
  <2> QED
    BY <1>1, <1>2, <1>3, <2>1, <2>3
<1>5. ListeningTypes'
  BY <1>1, <1>4 DEF ListeningTypes, Fds
<1>6. Owned'
  <2>1. /\ d # L!NoFd /\ ~InPolls(d)
        /\ \A e \in L!Descriptors : e = d <=> e = ipv4_poll \/ e = ipv6_poll
    BY <1>1, <1>2, NoFdIsNone DEF Owned
  <2>2. Places' = 1 .. n + 1 /\ Places = 1 .. n
    BY <1>3, <1>4 DEF Places
  <2>3. \A e : InPolls(e)' <=> InPolls(e) \/ e = d
    BY <1>4, <2>2 DEF InPolls
  <2>4. \A i, j \in 1 .. n + 1 : polls'[i] = polls'[j] /\ polls'[i] # L!NoFd => i = j
    <3>1. \A i, j \in 1 .. n : polls[i] = polls[j] /\ polls[i] # L!NoFd => i = j
      BY <1>1, <2>2 DEF Owned
    <3>2. \A i \in 1 .. n : polls[i] # d
      BY <2>1, <2>2 DEF InPolls
    <3> QED
      BY <1>4, <3>1, <3>2
  <2> QED
    BY <1>1, <2>1, <2>2, <2>3, <2>4, NoFdIsNone DEF Owned
<1> QED
  BY <1>1, <1>5, <1>6 DEF LInv

LEMMA ServerMainStep == ASSUME L!ListeningAssumption, LInv, L!server_main PROVE LInv'
<1>1. /\ pc \in {"failed", "run"} /\ pc' = "exit" /\ polls' = <<>> /\ L!Close(polls)
      /\ UNCHANGED <<host, port, mode, ipv4_poll, ipv6_poll>>
      /\ ListeningTypes /\ Owned /\ ipv4_poll = L!NoFd /\ ipv6_poll = L!NoFd
  BY DEF L!server_main, L!server_finalize, LInv
<1>2. /\ misused' = FALSE /\ open' \subseteq L!Descriptors
      /\ \A d \in L!Descriptors : d \in open' <=> d \in open /\ \A i \in 1 .. Len(polls) : polls[i] # d
  <2>1. \A i \in 1 .. Len(polls) : polls[i] # L!NoFd => polls[i] \in open
    <3> SUFFICES ASSUME NEW i \in 1 .. Len(polls), polls[i] # L!NoFd PROVE polls[i] \in open
      OBVIOUS
    <3>1. PICK d \in L!Descriptors : d = polls[i]
      BY <1>1 DEF ListeningTypes, Fds
    <3> QED
      BY <1>1, <3>1 DEF Owned, InPolls, Places
  <2> QED
    BY <1>1, <2>1, Closed DEF ListeningTypes, Owned, Places
<1>3. open' = {}
  BY <1>1, <1>2, NoFdIsNone DEF ListeningTypes, Owned, InPolls, Places
<1>4. ListeningTypes'
  BY <1>1, <1>3 DEF ListeningTypes, Fds
<1>5. Owned'
  <2>1. Places' = {}
    BY <1>1 DEF Places
  <2> QED
    BY <1>1, <1>2, <1>3, <2>1, NoFdIsNone DEF Owned, InPolls
<1> QED
  BY <1>1, <1>4, <1>5 DEF LInv

-----------------------------------------------------------------------------
(* The theorems about Listening.                                            *)

LEMMA ListeningNext ==
  ASSUME L!ListeningAssumption
  PROVE  LInv /\ [L!Next]_L!vars => LInv'
<1> SUFFICES ASSUME LInv, [L!Next]_L!vars PROVE LInv'
  OBVIOUS
<1>1. CASE UNCHANGED L!vars
  <2>1. UNCHANGED <<host, polls, open, pc, port, mode, ipv4_poll, ipv6_poll, misused>>
    BY <1>1 DEF L!vars
  <2>5. ListeningTypes' /\ (Trying <=> Trying')
    BY <2>1 DEF LInv, ListeningTypes, Trying, RuledOut, L!Ipv6Kind
  <2>2. Placed <=> Placed'
    BY <2>1 DEF Placed, Paired, Places
  <2>3. Owned'
    BY <2>1 DEF LInv, Owned, InPolls, Places
  <2>4. Settled <=> Settled'
    BY <2>1 DEF Settled, Paired, RuledOut
  <2> QED
    BY <2>1, <2>2, <2>3, <2>4, <2>5 DEF LInv
<1> QED
  BY <1>1, CreateIpv4Step, CreateIpv6Step, AppendPairStep, AppendFailedStep, FillFailedStep, ServerMainStep
     DEF L!Next

\* LInv holds in every reachable state.
THEOREM ListeningInvariant == ASSUME L!ListeningAssumption PROVE L!Spec => []LInv
<1>1. L!Init => LInv
  BY ListeningInit
<1>2. LInv /\ [L!Next]_L!vars => LInv'
  BY ListeningNext
<1> QED
  BY <1>1, <1>2, PTL DEF L!Spec

LEMMA ListeningTypeOKHolds == ASSUME L!ListeningAssumption PROVE LInv => L!TypeOK
<1> SUFFICES ASSUME LInv PROVE L!TypeOK
  OBVIOUS
<1>1. ListeningTypes /\ misused = FALSE /\ (mode[port] = 5 => pc \in {"failed", "exit"})
  <2>1. pc = "run" => port \in 1 .. Paired
    BY DEF LInv, ListeningTypes, Paired, L!ListeningAssumption
  <2> QED
    BY <2>1 DEF LInv, ListeningTypes, Owned, Trying, Settled
<1> QED
  BY <1>1 DEF ListeningTypes, Fds, L!TypeOK

\* However many ports there are, the state of the start is what the C
\* declarations allow, and no mode behind the last is tried.
THEOREM ListeningTypeOK == ASSUME L!ListeningAssumption PROVE L!Spec => []L!TypeOK
<1>1. LInv => L!TypeOK
  BY ListeningTypeOKHolds
<1> QED
  BY <1>1, ListeningInvariant, PTL

LEMMA ListeningPairsInPlaceHolds == ASSUME L!ListeningAssumption PROVE LInv => L!PairsInPlace
<1> SUFFICES ASSUME LInv, pc = "run" PROVE L!PairsInPlace
  BY DEF L!PairsInPlace
<1>1. /\ ListeningTypes /\ Owned /\ Placed /\ port = Ports
      /\ ipv4_poll = L!NoFd /\ ipv6_poll = L!NoFd /\ DOMAIN polls = Places
  BY DEF LInv, ListeningTypes, Places
<1>2. Len(polls) = 2 * Ports /\ \A i \in DOMAIN polls : polls[i] # L!NoFd => polls[i][1] = (i + 1) \div 2
  BY <1>1 DEF Placed, Paired
<1>3. \A d \in L!Descriptors : d \in open <=> InPolls(d)
  BY <1>1, NoFdIsNone DEF Owned
<1>4. open = L!Range(polls) \ {L!NoFd}
  <2>1. \A i \in Places : polls[i] \in Fds
    BY <1>1 DEF ListeningTypes, Places
  <2> QED
    BY <1>1, <1>3, <2>1, NoFdIsNone DEF ListeningTypes, Fds, InPolls, L!Range
<1>5. ASSUME NEW d \in open
      PROVE  \E i \in DOMAIN polls : {j \in DOMAIN polls : polls[j] = d} = {i}
  <2>1. PICK i \in Places : polls[i] = d /\ d # L!NoFd
    BY <1>1, <1>3, NoFdIsNone DEF ListeningTypes, InPolls
  <2>2. {j \in DOMAIN polls : polls[j] = d} = {i}
    BY <1>1, <2>1 DEF Owned
  <2> QED
    BY <1>1, <2>2
<1> QED
  BY <1>2, <1>4, <1>5 DEF L!PairsInPlace

\* Once the server runs every socket is at a place of its own port, at one
\* only, and the clients begin behind all of them.
THEOREM ListeningPairsInPlace == ASSUME L!ListeningAssumption PROVE L!Spec => []L!PairsInPlace
<1>1. LInv => L!PairsInPlace
  BY ListeningPairsInPlaceHolds
<1> QED
  BY <1>1, ListeningInvariant, PTL

LEMMA ListeningBestModeHolds == ASSUME L!ListeningAssumption PROVE LInv => L!BestMode
<1> SUFFICES ASSUME LInv, pc = "run", NEW p \in 1 .. Ports, NEW m \in 1 .. 4, L!Tries(m) \subseteq host[p],
                    NEW f \in UNION {L!Families(k) : k \in L!Tries(m)}
             PROVE  f \in UNION {L!Families(d[2]) : d \in {e \in open : e[1] = p}}
  BY DEF L!BestMode
<1>1. /\ ListeningTypes /\ mode[p] \in 1 .. 4 /\ RuledOut(p) /\ L!Tries(mode[p]) \subseteq host[p] /\ Ports \in Nat \ {0}
      /\ \A k \in L!Kinds : <<p, k>> \in open <=> k \in L!Tries(mode[p])
  BY DEF LInv, ListeningTypes, Settled, Paired, L!ListeningAssumption
<1>2. ~ (m < mode[p])
  BY <1>1 DEF RuledOut
<1>3. \E k \in L!Tries(mode[p]) : f \in L!Families(k)
  <2>1. /\ L!Families("ipv4") = {4} /\ L!Families("ipv6_only") = {6} /\ L!Families("ipv6") = {4, 6}
    BY DEF L!Families
  <2>2. PICK k \in L!Tries(m) : f \in L!Families(k)
    OBVIOUS
  <2>3. CASE mode[p] \in {1, 2}
    BY <2>1, <2>2, <2>3, Modes
  <2>4. CASE mode[p] = 3
    <3>1. m # 4
      BY <1>1, <2>4, Modes DEF RuledOut
    <3> QED
      BY <1>2, <2>1, <2>2, <2>4, <3>1, Modes
  <2>5. CASE mode[p] = 4
    BY <1>1, <1>2, <2>1, <2>2, <2>5, Modes
  <2> QED
    BY <1>1, <2>3, <2>4, <2>5
<1>4. PICK k \in L!Tries(mode[p]) : f \in L!Families(k)
  BY <1>3
<1>5. k \in L!Kinds
  BY <1>1, <1>4, Modes
<1>6. <<p, k>> \in open /\ <<p, k>>[1] = p /\ <<p, k>>[2] = k
  BY <1>1, <1>5
<1> QED
  BY <1>4, <1>6

\* A port serves every address family that one of the modes could have served
\* on this host, whichever modes were abandoned half-way.
THEOREM ListeningBestMode == ASSUME L!ListeningAssumption PROVE L!Spec => []L!BestMode
<1>1. LInv => L!BestMode
  BY ListeningBestModeHolds
<1> QED
  BY <1>1, ListeningInvariant, PTL

LEMMA ListeningClosedOnceHolds == ASSUME L!ListeningAssumption PROVE LInv => L!ClosedOnce
<1> SUFFICES ASSUME LInv PROVE misused = FALSE /\ (pc = "exit" => open = {})
  BY DEF L!ClosedOnce
<1>1. misused = FALSE
  BY DEF LInv, Owned
<1>2. ASSUME pc = "exit" PROVE open = {}
  <2>1. /\ Places = {} /\ ipv4_poll = L!NoFd /\ ipv6_poll = L!NoFd /\ open \subseteq L!Descriptors
    BY <1>2 DEF LInv, Places, ListeningTypes
  <2> QED
    BY <2>1, NoFdIsNone DEF LInv, Owned, InPolls
<1> QED
  BY <1>1, <1>2

\* Whatever fails, each descriptor is closed once and in the end all are.
THEOREM ListeningClosedOnce == ASSUME L!ListeningAssumption PROVE L!Spec => []L!ClosedOnce
<1>1. LInv => L!ClosedOnce
  BY ListeningClosedOnceHolds
<1> QED
  BY <1>1, ListeningInvariant, PTL

-----------------------------------------------------------------------------
(* Sums of sizes.                                                          *)

Log == {log \in [global_start : 0 .. MaxTime, number : Nat, size : Nat] : Name(log) \in Names}

\* The first n logs have the size e[n] together.
Sums(e, logs) ==
  /\ e \in [0 .. Len(logs) -> Nat] /\ e[0] = 0
  /\ \A n \in 1 .. Len(logs) : e[n] = e[n - 1] + logs[n].size

\* The sizes can be summed from the first log on: e[n] is what n of them hold.
LEMMA SumsExist ==
  ASSUME NEW logs \in Seq(Log)
  PROVE  \E e : Sums(e, logs)
<1> DEFINE Upto(n, e) ==
             /\ e \in [0 .. n -> Nat] /\ e[0] = 0
             /\ \A m \in 1 .. n : e[m] = e[m - 1] + logs[m].size
           U == {n \in 0 .. Len(logs) : \E e : Upto(n, e)}
<1>1. Len(logs) \in Nat /\ \A n \in 1 .. Len(logs) : logs[n].size \in Nat
  BY DEF Log
<1>2. 0 \in U
  <2>1. Upto(0, [n \in 0 .. 0 |-> 0])
    OBVIOUS
  <2> HIDE DEF Upto
  <2> QED BY <1>1, <2>1
<1>3. ASSUME NEW k \in 0 .. Len(logs) - 1, k \in U PROVE k + 1 \in U
  <2>1. PICK e : Upto(k, e)
    BY <1>3
  <2> DEFINE f == [n \in 0 .. k + 1 |-> IF n <= k THEN e[n] ELSE e[k] + logs[k + 1].size]
  <2>2. k \in Nat /\ k + 1 \in 1 .. Len(logs) /\ logs[k + 1].size \in Nat
    BY <1>1
  <2>3. e[k] \in Nat /\ \A n \in 0 .. k : e[n] \in Nat
    BY <2>1, <2>2
  <2>4. f \in [0 .. k + 1 -> Nat] /\ f[0] = 0
    BY <2>1, <2>2, <2>3
  <2>5. ASSUME NEW m \in 1 .. k + 1 PROVE f[m] = f[m - 1] + logs[m].size
    <3>1. m <= k \/ m = k + 1
      BY <2>2
    <3> QED BY <3>1, <2>1, <2>2
  <2>6. Upto(k + 1, f)
    BY <2>4, <2>5
  <2> HIDE DEF f, Upto
  <2> QED BY <1>1, <2>2, <2>6
<1>4. Len(logs) \in U
  <2> HIDE DEF U
  <2>1. U \in SUBSET Nat
    BY <1>1 DEF U
  <2> QED BY <1>1, <1>2, <1>3, <2>1, InductionUpTo
<1> QED
  BY <1>4 DEF Sums

\* Such sums only grow.
LEMMA SumsGrow ==
  ASSUME NEW logs \in Seq(Log), NEW e, Sums(e, logs), NEW n \in 0 .. Len(logs), NEW m \in 0 .. n
  PROVE  e[m] <= e[n] /\ e[m] \in Nat /\ e[n] \in Nat
<1> DEFINE U == {k \in 0 .. n : e[n - k] <= e[n]}
<1>1. Len(logs) \in Nat /\ \A k \in 1 .. Len(logs) : logs[k].size \in Nat
  BY DEF Log
<1>2. (\A k \in 0 .. Len(logs) : e[k] \in Nat) /\ \A k \in 1 .. Len(logs) : e[k] = e[k - 1] + logs[k].size
  BY DEF Sums
<1>3. 0 \in U
  BY <1>1, <1>2
<1>4. ASSUME NEW k \in 0 .. n - 1, k \in U PROVE k + 1 \in U
  <2>1. n - k \in 1 .. Len(logs) /\ n - k \in 0 .. Len(logs) /\ n \in 0 .. Len(logs) /\ n - (k + 1) = (n - k) - 1 /\ n - (k + 1) \in 0 .. Len(logs)
    BY <1>1
  <2>2. e[n - k] = e[n - (k + 1)] + logs[n - k].size
    BY <1>2, <2>1
  <2>3. logs[n - k].size \in Nat
    BY <1>1, <2>1
  <2>6. e[n - k] \in Nat /\ e[n - (k + 1)] \in Nat /\ e[n] \in Nat
    BY <1>1, <1>2, <2>1
  <2>4. e[n - k] <= e[n]
    BY <1>4
  <2>5. e[n - (k + 1)] <= e[n]
    BY <2>2, <2>3, <2>4, <2>6
  <2> QED BY <1>1, <2>5
<1>5. n - m \in U
  <2>1. U \in SUBSET Nat /\ n - m \in Nat /\ n - m <= n
    BY <1>1
  <2>2. \A k \in 0 .. (n - m) - 1 : k \in U => k + 1 \in U
    BY <1>4
  <2> HIDE DEF U
  <2> QED BY <1>3, <2>1, <2>2, InductionUpTo
<1> QED
  BY <1>1, <1>2, <1>5

\* SizeOf is the last of such sums.
LEMMA SizeOfIsSum ==
  ASSUME NEW logs \in Seq(Log), NEW e, Sums(e, logs)
  PROVE  SizeOf(logs) = e[Len(logs)]
<1> DEFINE rec(f) == [n \in 0 .. Len(logs) |-> IF n = 0 THEN 0 ELSE f[n - 1] + logs[n].size]
           sum == CHOOSE f : f = rec(f)
           U == {n \in 0 .. Len(logs) : sum[n] = e[n]}
<1>1. Len(logs) \in Nat
  OBVIOUS
<1>2. e = rec(e)
  <2>1. DOMAIN e = 0 .. Len(logs) /\ e[0] = 0 /\ \A n \in 1 .. Len(logs) : e[n] = e[n - 1] + logs[n].size
    BY DEF Sums
  <2>2. \A n \in 0 .. Len(logs) : e[n] = rec(e)[n]
    BY <1>1, <2>1
  <2>3. e = [n \in 0 .. Len(logs) |-> e[n]]
    BY <2>1 DEF Sums
  <2> QED BY <2>2, <2>3
<1>3. sum = rec(sum)
  <2> HIDE DEF rec
  <2> QED BY <1>2
<1>4. sum[0] = 0 /\ \A n \in 1 .. Len(logs) : sum[n] = sum[n - 1] + logs[n].size
  <2> HIDE DEF sum
  <2> QED BY <1>1, <1>3
<1> HIDE DEF sum
<1>5. 0 \in U
  BY <1>1, <1>4 DEF Sums
<1>6. \A k \in 0 .. Len(logs) - 1 : k \in U => k + 1 \in U
  BY <1>1, <1>4 DEF Sums
<1>7. Len(logs) \in U
  <2> HIDE DEF U
  <2>1. U \in SUBSET Nat
    BY <1>1 DEF U
  <2> QED BY <1>1, <1>5, <1>6, <2>1, InductionUpTo
<1>8. SizeOf(logs) = sum[Len(logs)]
  BY DEF SizeOf, sum
<1> QED
  BY <1>7, <1>8

\* A list of logs, cut at n.
LEMMA SizeOfCut ==
  ASSUME NEW logs \in Seq(Log), NEW n \in 0 .. Len(logs)
  PROVE  /\ SubSeq(logs, 1, n) \in Seq(Log) /\ SubSeq(logs, n + 1, Len(logs)) \in Seq(Log)
         /\ SizeOf(SubSeq(logs, 1, n)) \in Nat /\ SizeOf(logs) \in Nat
         /\ SizeOf(SubSeq(logs, n + 1, Len(logs))) \in Nat
         /\ SizeOf(SubSeq(logs, n + 1, Len(logs))) = SizeOf(logs) - SizeOf(SubSeq(logs, 1, n))
<1>1. PICK e : Sums(e, logs)
  BY SumsExist
<1> DEFINE front == SubSeq(logs, 1, n)
           back == SubSeq(logs, n + 1, Len(logs))
           f == [m \in 0 .. n |-> e[m]]
           g == [m \in 0 .. Len(logs) - n |-> e[m + n] - e[n]]
<1>2. Len(logs) \in Nat /\ \A m \in 0 .. Len(logs) : e[m] \in Nat
  BY <1>1 DEF Sums
<1>3. /\ e[0] = 0
      /\ \A m \in 1 .. Len(logs) : e[m] = e[m - 1] + logs[m].size
  BY <1>1 DEF Sums
<1>4. /\ front \in Seq(Log) /\ Len(front) = n
      /\ \A m \in 1 .. n : front[m] = logs[m]
  BY <1>2
<1>5. /\ back \in Seq(Log) /\ Len(back) = Len(logs) - n
      /\ \A m \in 1 .. Len(logs) - n : back[m] = logs[m + n]
  BY <1>2
<1> HIDE DEF front, back
<1>6. Sums(f, front)
  <2>1. f \in [0 .. n -> Nat] /\ f[0] = 0
    BY <1>2, <1>3
  <2>2. ASSUME NEW m \in 1 .. n PROVE f[m] = f[m - 1] + front[m].size
    <3>1. m \in 1 .. Len(logs) /\ m \in 0 .. n /\ m - 1 \in 0 .. n
      BY <1>2
    <3>2. f[m] = e[m] /\ f[m - 1] = e[m - 1]
      BY <3>1
    <3> HIDE DEF f
    <3> QED BY <1>3, <1>4, <3>1, <3>2
  <2> HIDE DEF f
  <2> QED BY <1>4, <2>1, <2>2 DEF Sums
<1>7. Sums(g, back)
  <2>1. \A m \in 0 .. Len(logs) - n : e[m + n] - e[n] \in Nat
    <3> TAKE m \in 0 .. Len(logs) - n
    <3>1. m + n \in 0 .. Len(logs) /\ n \in 0 .. m + n
      BY <1>2
    <3>2. e[n] <= e[m + n] /\ e[n] \in Nat /\ e[m + n] \in Nat
      BY <1>1, <3>1, SumsGrow
    <3> QED BY <3>2
  <2>2. g \in [0 .. Len(logs) - n -> Nat] /\ g[0] = 0
    <3>1. 0 \in 0 .. Len(logs) - n /\ 0 + n = n /\ e[n] - e[n] = 0
      BY <1>2
    <3> QED BY <2>1, <3>1
  <2>3. ASSUME NEW m \in 1 .. Len(logs) - n PROVE g[m] = g[m - 1] + back[m].size
    <3>1. m + n \in 1 .. Len(logs) /\ m + n - 1 = (m - 1) + n /\ m - 1 \in 0 .. Len(logs) - n
      BY <1>2
    <3>2. e[m + n] = e[(m - 1) + n] + back[m].size
      BY <1>3, <1>5, <3>1
    <3>3. e[m + n] \in Nat /\ e[(m - 1) + n] \in Nat /\ e[n] \in Nat
      BY <1>2, <3>1
    <3>4. g[m] = e[m + n] - e[n] /\ g[m - 1] = e[(m - 1) + n] - e[n]
      BY <3>1
    <3>6. back[m] \in Log
      BY <1>5
    <3>5. back[m].size \in Nat
      BY <3>6 DEF Log
    <3> HIDE DEF g
    <3> QED BY <3>2, <3>3, <3>4, <3>5
  <2> HIDE DEF g
  <2> QED BY <1>5, <2>2, <2>3 DEF Sums
<1>8. SizeOf(front) = e[n] /\ SizeOf(back) = e[Len(logs)] - e[n] /\ SizeOf(logs) = e[Len(logs)]
  <2>1. SizeOf(front) = f[Len(front)] /\ SizeOf(back) = g[Len(back)] /\ SizeOf(logs) = e[Len(logs)]
    <3> HIDE DEF f, g
    <3> QED BY <1>1, <1>4, <1>5, <1>6, <1>7, SizeOfIsSum
  <2> QED BY <2>1, <1>2, <1>4, <1>5
<1>9. e[n] <= e[Len(logs)] /\ e[n] \in Nat /\ e[Len(logs)] \in Nat
  BY <1>1, <1>2, SumsGrow
<1> QED
  BY <1>4, <1>5, <1>8, <1>9 DEF front, back

\* Another log before the i-th.
HasLogAt(more, logs, i, log) ==
  /\ more \in Seq(Log) /\ Len(more) = Len(logs) + 1
  /\ \A m \in 1 .. i - 1 : more[m] = logs[m]
  /\ more[i] = log
  /\ \A m \in i + 1 .. Len(logs) + 1 : more[m] = logs[m - 1]
  /\ SizeOf(more) = SizeOf(logs) + log.size

\* A log more, at the place i: SizeOf grows by its size.
LEMMA SizeOfInsert ==
  ASSUME NEW logs \in Seq(Log), NEW i \in 1 .. Len(logs) + 1, NEW log \in Log
  PROVE  HasLogAt(InsertAt(logs, i, log), logs, i, log)
<1>1. PICK e : Sums(e, logs)
  BY SumsExist
<1> DEFINE more == InsertAt(logs, i, log)
           f == [m \in 0 .. Len(logs) + 1 |-> IF m < i THEN e[m] ELSE e[m - 1] + log.size]
<1>2. Len(logs) \in Nat /\ log.size \in Nat /\ \A m \in 0 .. Len(logs) : e[m] \in Nat
  <2>1. Len(logs) \in Nat
    OBVIOUS
  <2>2. log.size \in Nat
    BY DEF Log
  <2>3. e \in [0 .. Len(logs) -> Nat]
    BY <1>1 DEF Sums
  <2> QED
    BY <2>1, <2>2, <2>3
<1>3. /\ e[0] = 0
      /\ \A m \in 1 .. Len(logs) : e[m] = e[m - 1] + logs[m].size
  BY <1>1 DEF Sums
<1>4. /\ more \in Seq(Log) /\ Len(more) = Len(logs) + 1
      /\ \A m \in 1 .. i - 1 : more[m] = logs[m]
      /\ more[i] = log
      /\ \A m \in i + 1 .. Len(logs) + 1 : more[m] = logs[m - 1]
  <2> DEFINE a == SubSeq(logs, 1, i - 1)
             b == SubSeq(logs, i, Len(logs))
  <2>1. a \in Seq(Log) /\ Len(a) = i - 1 /\ \A m \in 1 .. i - 1 : a[m] = logs[m]
    BY <1>2
  <2>2. b \in Seq(Log) /\ Len(b) = Len(logs) - i + 1 /\ \A m \in 1 .. Len(logs) - i + 1 : b[m] = logs[m + i - 1]
    BY <1>2
  <2>3. more = a \o <<log>> \o b
    BY DEF InsertAt
  <2> HIDE DEF a, b, more
  <2> DEFINE c == a \o <<log>>
  <2>4. /\ c \in Seq(Log) /\ Len(c) = i
        /\ \A m \in 1 .. i - 1 : c[m] = a[m]
        /\ c[i] = log
    BY <1>2, <2>1
  <2>5. more = c \o b
    BY <2>3
  <2> HIDE DEF c
  <2>6. more \in Seq(Log) /\ Len(more) = Len(logs) + 1
    <3>1. c \o b \in Seq(Log) /\ Len(c \o b) = Len(c) + Len(b)
      <4>1. c \in Seq(Log) /\ b \in Seq(Log)
        BY <2>2, <2>4
      <4> QED
        BY <4>1, ConcatProperties, Zenon
    <3>2. Len(c) + Len(b) = Len(logs) + 1
      BY <1>2, <2>2, <2>4
    <3> QED
      BY <2>5, <3>1, <3>2
  <2>7. /\ \A m \in 1 .. i : more[m] = c[m]
        /\ \A m \in i + 1 .. Len(logs) + 1 : more[m] = b[m - i]
    BY <1>2, <2>2, <2>4, <2>5
  <2>8. \A m \in i + 1 .. Len(logs) + 1 : more[m] = logs[m - 1]
    <3> TAKE m \in i + 1 .. Len(logs) + 1
    <3>1. m - i \in 1 .. Len(logs) - i + 1 /\ (m - i) + i - 1 = m - 1
      BY <1>2
    <3> QED BY <2>2, <2>7, <3>1
  <2> QED BY <1>2, <2>1, <2>4, <2>6, <2>7, <2>8
<1> HIDE DEF more
<1>5. Sums(f, more)
  <2>1. f \in [0 .. Len(logs) + 1 -> Nat] /\ f[0] = 0
    <3>1. \A m \in 0 .. Len(logs) + 1 : (IF m < i THEN e[m] ELSE e[m - 1] + log.size) \in Nat
      <4> TAKE m \in 0 .. Len(logs) + 1
      <4>1. CASE m < i
        BY <1>2, <4>1
      <4>2. CASE ~(m < i)
        <5>1. m - 1 \in 0 .. Len(logs)
          BY <1>2, <4>2
        <5> QED BY <1>2, <4>2, <5>1
      <4> QED BY <4>1, <4>2
    <3>2. 0 \in 0 .. Len(logs) + 1 /\ 0 < i
      BY <1>2
    <3> QED BY <1>3, <3>1, <3>2
  <2>2. ASSUME NEW m \in 1 .. Len(logs) + 1 PROVE f[m] = f[m - 1] + more[m].size
    <3>1. CASE m < i
      <4>1. m \in 1 .. Len(logs) /\ f[m] = e[m] /\ f[m - 1] = e[m - 1] /\ more[m] = logs[m]
        BY <1>2, <1>4, <3>1
      <4> QED BY <1>3, <4>1
    <3>2. CASE m = i
      <4>1. f[m] = e[m - 1] + log.size /\ f[m - 1] = e[m - 1] /\ more[m] = log
        BY <1>2, <1>4, <3>2
      <4> QED BY <4>1
    <3>3. CASE m > i
      <4>1. /\ m - 1 \in 1 .. Len(logs) /\ m - 2 \in 0 .. Len(logs) /\ (m - 1) - 1 = m - 2
            /\ f[m] = e[m - 1] + log.size /\ f[m - 1] = e[m - 2] + log.size /\ more[m] = logs[m - 1]
        BY <1>2, <1>4, <3>3
      <4>3. logs[m - 1] \in Log
        BY <4>1
      <4>2. e[m - 1] = e[m - 2] + logs[m - 1].size /\ logs[m - 1].size \in Nat /\ e[m - 2] \in Nat
        BY <1>2, <1>3, <4>1, <4>3 DEF Log
      <4> HIDE DEF f
      <4> QED BY <1>2, <4>1, <4>2
    <3> QED BY <3>1, <3>2, <3>3
  <2> HIDE DEF f
  <2> QED BY <1>2, <1>4, <2>1, <2>2 DEF Sums
<1>6. SizeOf(more) = f[Len(logs) + 1] /\ SizeOf(logs) = e[Len(logs)]
  <2> HIDE DEF f
  <2> QED BY <1>1, <1>4, <1>5, SizeOfIsSum
<1>7. f[Len(logs) + 1] = e[Len(logs)] + log.size
  BY <1>2
<1>8. SizeOf(more) = SizeOf(logs) + log.size
  BY <1>6, <1>7
<1>9. HasLogAt(more, logs, i, log)
  BY <1>4, <1>8 DEF HasLogAt
<1> QED
  BY <1>9 DEF more

\* The last log grows.
LEMMA SizeOfGrown ==
  ASSUME NEW logs \in Seq(Log), logs # <<>>, NEW n \in Nat, NEW more,
         more = [logs EXCEPT ![Len(logs)].size = @ + n]
  PROVE  /\ more \in Seq(Log) /\ Len(more) = Len(logs)
         /\ \A i \in 1 .. Len(logs) : Name(more[i]) = Name(logs[i])
         /\ SizeOf(more) = SizeOf(logs) + n
<1>1. PICK e : Sums(e, logs)
  BY SumsExist
<1> DEFINE l == Len(logs)
           f == [e EXCEPT ![l] = @ + n]
<1>2. l \in Nat \ {0} /\ DOMAIN e = 0 .. l /\ \A m \in 0 .. l : e[m] \in Nat
  BY <1>1 DEF Sums
<1>3. /\ e[0] = 0
      /\ \A m \in 1 .. l : e[m] = e[m - 1] + logs[m].size
  BY <1>1 DEF Sums
<1>9. /\ logs[l] \in Log /\ logs[l].size \in Nat
      /\ [logs[l] EXCEPT !.size = @ + n] \in Log
      /\ [logs[l] EXCEPT !.size = @ + n].size = logs[l].size + n
      /\ Name([logs[l] EXCEPT !.size = @ + n]) = Name(logs[l])
  <2>1. logs[l] \in Log
    BY <1>2
  <2> QED BY <2>1 DEF Log, Name
<1>4. /\ more \in Seq(Log) /\ Len(more) = l
      /\ \A i \in 1 .. l : i # l => more[i] = logs[i]
      /\ more[l] = [logs[l] EXCEPT !.size = @ + n]
  BY <1>2, <1>9
<1>10. f[l] = e[l] + n
  BY <1>2
<1>5. \A i \in 1 .. l : Name(more[i]) = Name(logs[i])
  BY <1>4, <1>9
<1>6. Sums(f, more)
  <2>1. f \in [0 .. l -> Nat] /\ f[0] = 0
    BY <1>1, <1>2, <1>3 DEF Sums
  <2>2. ASSUME NEW m \in 1 .. l PROVE f[m] = f[m - 1] + more[m].size
    <3>1. m - 1 \in 0 .. l /\ m - 1 # l /\ m \in 0 .. l
      BY <1>2
    <3>2. f[m - 1] = e[m - 1] /\ f[m] = IF m = l THEN e[l] + n ELSE e[m]
      BY <1>2, <3>1
    <3>3. more[m].size = IF m = l THEN logs[l].size + n ELSE logs[m].size
      BY <1>4, <1>9
    <3>5. logs[m] \in Log
      BY <1>2
    <3>4. e[m] = e[m - 1] + logs[m].size /\ e[m - 1] \in Nat /\ logs[m].size \in Nat
      BY <1>2, <1>3, <3>1, <3>5 DEF Log
    <3> HIDE DEF f
    <3> QED BY <3>2, <3>3, <3>4
  <2> HIDE DEF f
  <2> QED BY <1>4, <2>1, <2>2 DEF Sums
<1>7. SizeOf(more) = f[l] /\ SizeOf(logs) = e[l]
  <2> HIDE DEF f
  <2> QED BY <1>1, <1>4, <1>6, SizeOfIsSum
<1>11. SizeOf(more) = SizeOf(logs) + n
  BY <1>7, <1>10, Zenon
<1>12. more \in Seq(Log) /\ Len(more) = Len(logs)
  BY <1>4
<1> HIDE DEF l
<1>13. \A i \in 1 .. Len(logs) : Name(more[i]) = Name(logs[i])
  BY <1>5, Zenon DEF l
<1> QED
  BY <1>11, <1>12, <1>13, Zenon

-----------------------------------------------------------------------------
(* The list operations.                                                    *)

Good(s) ==
  /\ s = [logs |-> s.logs, total |-> s.total, disk |-> s.disk]
  /\ s.logs \in Seq(Log) /\ s.total = SizeOf(s.logs)

NamesOf(logs) == {Name(logs[i]) : i \in 1 .. Len(logs)}

\* Files go only with their logs or because they are refused.
Follows(s, d, names) ==
  /\ NamesOf(d.logs) \subseteq names
  /\ DOMAIN d.disk \subseteq DOMAIN s.disk /\ DOMAIN s.disk \ DOMAIN d.disk \subseteq names
  /\ DOMAIN d.disk \cap names \subseteq NamesOf(d.logs)
  /\ \A f \in DOMAIN d.disk : d.disk[f] = s.disk[f]

\* delete(n): the list, its sum and the files lose the same logs.
LEMMA Deleted ==
  ASSUME NEW s, Good(s), NEW n \in 0 .. Len(s.logs)
  PROVE  /\ Good(delete(s, n)) /\ Follows(s, delete(s, n), NamesOf(s.logs))
         /\ Len(delete(s, n).logs) = Len(s.logs) - n
         /\ delete(s, n).total = s.total - SizeOf(SubSeq(s.logs, 1, n))
         /\ delete(s, n).total \in Nat /\ SizeOf(SubSeq(s.logs, 1, n)) \in Nat /\ s.total \in Nat
<1> DEFINE d == delete(s, n)
           names == {Name(s.logs[i]) : i \in 1 .. n}
<1>1. s.logs \in Seq(Log) /\ Len(s.logs) \in Nat /\ s.total = SizeOf(s.logs)
  BY DEF Good
<1>2. /\ d.logs = SubSeq(s.logs, n + 1, Len(s.logs))
      /\ d.total = s.total - SizeOf(SubSeq(s.logs, 1, n))
      /\ d.disk = [f \in DOMAIN s.disk \ names |-> s.disk[f]]
      /\ d = [logs |-> d.logs, total |-> d.total, disk |-> d.disk]
  BY DEF delete, Unlink
<1>3. /\ SizeOf(SubSeq(s.logs, 1, n)) \in Nat /\ SizeOf(s.logs) \in Nat
      /\ d.logs \in Seq(Log) /\ SizeOf(d.logs) = SizeOf(s.logs) - SizeOf(SubSeq(s.logs, 1, n))
      /\ SizeOf(d.logs) \in Nat
  BY <1>1, <1>2, SizeOfCut
<1>4. Len(d.logs) = Len(s.logs) - n /\ \A i \in 1 .. Len(s.logs) - n : d.logs[i] = s.logs[i + n]
  <2> DEFINE l == s.logs
             back == SubSeq(l, n + 1, Len(l))
  <2>1. l \in Seq(Log) /\ Len(l) \in Nat /\ n \in 0 .. Len(l)
    BY <1>1
  <2> HIDE DEF l
  <2>2. Len(back) = Len(l) - n
    BY <2>1
  <2>3. \A i \in 1 .. Len(l) - n : back[i] = l[i + n]
    BY <2>1
  <2>4. d.logs = back
    BY <1>2 DEF l
  <2> HIDE DEF back, d
  <2> QED BY <2>2, <2>3, <2>4 DEF l
<1> HIDE DEF d
<1>5. Good(d)
  BY <1>1, <1>2, <1>3 DEF Good
<1>6. NamesOf(d.logs) \subseteq NamesOf(s.logs)
  <2> SUFFICES ASSUME NEW i \in 1 .. Len(d.logs) PROVE Name(d.logs[i]) \in NamesOf(s.logs)
    BY DEF NamesOf
  <2>1. i + n \in 1 .. Len(s.logs) /\ d.logs[i] = s.logs[i + n]
    BY <1>1, <1>4
  <2> QED BY <2>1 DEF NamesOf
<1>7. NamesOf(s.logs) \subseteq names \cup NamesOf(d.logs)
  <2> SUFFICES ASSUME NEW i \in 1 .. Len(s.logs), i \notin 1 .. n PROVE Name(s.logs[i]) \in NamesOf(d.logs)
    BY <1>1 DEF NamesOf
  <2>1. i - n \in 1 .. Len(d.logs) /\ d.logs[i - n] = s.logs[i]
    <3>1. i - n \in 1 .. Len(s.logs) - n /\ (i - n) + n = i
      BY <1>1
    <3> QED BY <1>4, <3>1
  <2>2. Name(s.logs[i]) = Name(d.logs[i - n])
    BY <2>1
  <2> QED BY <2>1, <2>2 DEF NamesOf
<1>8. names \subseteq NamesOf(s.logs)
  BY <1>1 DEF NamesOf
<1> HIDE DEF names
<1>9. Follows(s, d, NamesOf(s.logs))
  BY <1>2, <1>6, <1>7, <1>8 DEF Follows
<1> QED
  BY <1>1, <1>2, <1>3, <1>4, <1>5, <1>9 DEF d

\* What cleanup chooses.
LEMMA CleanedUp ==
  ASSUME OutputAssumption, NEW s, Good(s), NEW t
  PROVE  /\ \E n \in 0 .. Len(s.logs) :
              /\ cleanup(s, t) = delete(s, n)
              /\ \A i \in 1 .. n : ShouldDelete(s, i, t)
         /\ cleanup(s, t).total <= MAX_TOTAL_LOG_SIZE
<1> DEFINE Stops(k) == k < Len(s.logs) => ~ShouldDelete(s, k + 1, t)
           U == {k \in 0 .. Len(s.logs) : Stops(k)}
           Right(k) ==
             /\ \A i \in 1 .. k : ShouldDelete(s, i, t)
             /\ k < Len(s.logs) => ~ShouldDelete(s, k + 1, t)
<1>1. s.logs \in Seq(Log) /\ Len(s.logs) \in Nat /\ s.total = SizeOf(s.logs)
  BY DEF Good
<1>2. U \in SUBSET Nat /\ Len(s.logs) \in U
  BY <1>1
<1>3. PICK k \in U : \A m \in U : k <= m
  <2> HIDE DEF U
  <2> QED BY <1>2, SmallestNumber
<1>4. k \in 0 .. Len(s.logs) /\ Stops(k)
  OBVIOUS
<1>5. ASSUME NEW i \in 1 .. k PROVE ShouldDelete(s, i, t)
  <2>1. i - 1 \in 0 .. Len(s.logs) /\ i - 1 < k /\ i - 1 < Len(s.logs) /\ (i - 1) + 1 = i
    BY <1>1, <1>4
  <2>2. i - 1 \notin U
    <3> HIDE DEF U
    <3> QED BY <1>3, <1>4, <2>1
  <2>3. ShouldDelete(s, (i - 1) + 1, t)
    BY <2>1, <2>2
  <2> QED BY <2>1, <2>3
<1>6. Right(k)
  BY <1>4, <1>5
<1> DEFINE n == CHOOSE m \in 0 .. Len(s.logs) : Right(m)
<1>7. n \in 0 .. Len(s.logs) /\ Right(n)
  <2> HIDE DEF Right
  <2> QED BY <1>4, <1>6
<1>8. cleanup(s, t) = delete(s, n)
  BY DEF cleanup
<1> HIDE DEF n
<1>9. delete(s, n).total <= MAX_TOTAL_LOG_SIZE
  <2>1. CASE n < Len(s.logs)
    <3>1. (n + 1) - 1 = n
      BY <1>7
    <3>2. ~(s.total - SizeOf(SubSeq(s.logs, 1, n)) > MAX_TOTAL_LOG_SIZE)
      BY <1>7, <2>1, <3>1 DEF ShouldDelete
    <3> QED BY <3>2, <1>7, Deleted DEF OutputAssumption
  <2>2. CASE n = Len(s.logs)
    <3>1. SubSeq(s.logs, 1, n) = s.logs
      BY <1>1, <2>2, SubSeqFull
    <3>2. delete(s, n).total = s.total - SizeOf(SubSeq(s.logs, 1, n)) /\ s.total \in Nat
      BY <1>7, Deleted
    <3>3. SizeOf(SubSeq(s.logs, 1, n)) = s.total
      BY <1>1, <3>1, Zenon
    <3> QED BY <3>2, <3>3 DEF OutputAssumption
  <2> QED BY <1>1, <1>7, <2>1, <2>2
<1> QED
  BY <1>7, <1>8, <1>9

\* The place of a new log.
LEMMA PlaceInList ==
  ASSUME NEW logs \in Seq(Log), NEW log
  PROVE  Place(logs, log) \in 0 .. Len(logs)
<1> DEFINE Behind(k) == \A i \in k + 1 .. Len(logs) : Newer(log, logs[i])
           U == {k \in 0 .. Len(logs) : Behind(k)}
           Right(k) == Behind(k) /\ (k > 0 => ~Newer(log, logs[k]))
<1>1. Len(logs) \in Nat /\ U \in SUBSET Nat /\ Len(logs) \in U
  OBVIOUS
<1>2. PICK k \in U : \A m \in U : k <= m
  <2> HIDE DEF U
  <2> QED BY <1>1, SmallestNumber
<1>3. ASSUME k > 0, Newer(log, logs[k]) PROVE FALSE
  <2>1. k - 1 \in 0 .. Len(logs) /\ k - 1 \in Nat
    BY <1>1, <1>3
  <2>2. Behind(k - 1)
    <3> SUFFICES ASSUME NEW i \in (k - 1) + 1 .. Len(logs) PROVE Newer(log, logs[i])
      OBVIOUS
    <3>1. i = k \/ i \in k + 1 .. Len(logs)
      BY <1>1
    <3> QED BY <1>3, <3>1
  <2>3. k - 1 \in U
    BY <2>1, <2>2
  <2> HIDE DEF U
  <2> QED BY <1>1, <1>2, <2>1, <2>3
<1>4. k \in 0 .. Len(logs) /\ Right(k)
  BY <1>3
<1> HIDE DEF Right
<1>5. (CHOOSE m \in 0 .. Len(logs) : Right(m)) \in 0 .. Len(logs)
  BY <1>4
<1> QED
  BY <1>5 DEF Place, Right

\* What insert does to a list.
LEMMA Inserted ==
  ASSUME OutputAssumption, NEW s, Good(s), Len(s.logs) <= MAX_TOTAL_LOG_NUMBER,
         NEW log \in Log, NEW t \in Int
  PROVE  LET r == insert(s, log, t)
         IN /\ Good(r) /\ Len(r.logs) <= MAX_TOTAL_LOG_NUMBER
            /\ s.total <= MAX_TOTAL_LOG_SIZE => r.total <= MAX_TOTAL_LOG_SIZE
            /\ Follows(s, r, NamesOf(s.logs) \cup {Name(log)})
            /\ log.size = 0 /\ s.total <= MAX_TOTAL_LOG_SIZE /\ t - log.global_start <= MAX_LOG_AGE
                 => r.logs # <<>>
<1> DEFINE place == Place(s.logs, log)
           full == Len(s.logs) = MAX_TOTAL_LOG_NUMBER
           room == IF full THEN delete(s, 1) ELSE s
           i == IF full THEN place ELSE place + 1
           r == insert(s, log, t)
           q == [room EXCEPT !.logs = InsertAt(@, i, log), !.total = @ + log.size]
           names == NamesOf(s.logs) \cup {Name(log)}
<1>1. s.logs \in Seq(Log) /\ Len(s.logs) \in Nat /\ s.total = SizeOf(s.logs)
  BY DEF Good
<1>2. place \in 0 .. Len(s.logs)
  BY <1>1, PlaceInList
<1>3. MAX_TOTAL_LOG_NUMBER \in Nat /\ MAX_TOTAL_LOG_NUMBER >= 2 /\ log.size \in Nat
  BY DEF OutputAssumption, Log
<1>4. CASE full /\ place = 0
  <2>1. r = [s EXCEPT !.disk = Unlink(@, {Name(log)})]
    BY <1>4 DEF insert
  <2>2. r.logs = s.logs /\ r.total = s.total /\ r.disk = Unlink(s.disk, {Name(log)}) /\ Good(r)
    BY <2>1 DEF Good
  <2> HIDE DEF r
  <2>3. Follows(s, r, names)
    BY <2>2 DEF Follows, Unlink
  <2>4. r.logs # <<>>
    BY <1>1, <1>3, <1>4, <2>2
  <2> QED BY <2>2, <2>3, <2>4 DEF r
<1>5. CASE ~(full /\ place = 0)
  <2> HIDE DEF place
  <2>1. r = cleanup(q, t)
    BY <1>5 DEF insert, place
  <2>2. /\ Good(room) /\ Follows(s, room, NamesOf(s.logs)) /\ room.total \in Nat /\ s.total \in Nat
        /\ room.total <= s.total
        /\ Len(room.logs) = IF full THEN Len(s.logs) - 1 ELSE Len(s.logs)
    <3>1. CASE full
      <4>1. 1 \in 0 .. Len(s.logs)
        BY <1>1, <1>3, <3>1
      <4>2. room = delete(s, 1)
        BY <3>1
      <4> HIDE DEF room
      <4> QED BY <3>1, <4>1, <4>2, Deleted
    <3>2. CASE ~full
      <4>1. room = s
        BY <3>2
      <4>2. s.total \in Nat
        <5>1. 0 \in 0 .. Len(s.logs)
          BY <1>1
        <5> QED BY <5>1, Deleted
      <4> QED BY <3>2, <4>1, <4>2 DEF Follows
    <3> QED BY <3>1, <3>2
  <2>3. room.logs \in Seq(Log) /\ room.total = SizeOf(room.logs)
    BY <2>2 DEF Good
  <2>14. PICK l, sum, d : room = [logs |-> l, total |-> sum, disk |-> d]
    BY <2>2 DEF Good
  <2> HIDE DEF room
  <2>4. i \in 1 .. Len(room.logs) + 1
    BY <1>1, <1>2, <1>3, <1>5, <2>2
  <2> HIDE DEF i
  <2>5. q.logs = InsertAt(room.logs, i, log) /\ q.total = room.total + log.size /\ q.disk = room.disk
        /\ q = [logs |-> q.logs, total |-> q.total, disk |-> q.disk]
    <3>1. room.logs = l /\ room.total = sum /\ room.disk = d
      BY <2>14
    <3> DEFINE more == InsertAt(l, i, log)
               grown == sum + log.size
    <3>2. q = [logs |-> more, total |-> grown, disk |-> d]
      <4>1. q = [room EXCEPT !.logs = more, !.total = grown]
        BY <3>1
      <4> HIDE DEF q, more, grown
      <4> QED BY <2>14, <4>1
    <3> HIDE DEF q
    <3> QED BY <3>1, <3>2
  <2> HIDE DEF q
  <2>6. /\ q.logs \in Seq(Log) /\ Len(q.logs) = Len(room.logs) + 1
        /\ \A m \in 1 .. i - 1 : q.logs[m] = room.logs[m]
        /\ q.logs[i] = log
        /\ \A m \in i + 1 .. Len(room.logs) + 1 : q.logs[m] = room.logs[m - 1]
        /\ SizeOf(q.logs) = SizeOf(room.logs) + log.size
    <3>1. room.logs \in Seq(Log) /\ i \in 1 .. Len(room.logs) + 1 /\ log \in Log
      BY <2>3, <2>4
    <3>2. HasLogAt(InsertAt(room.logs, i, log), room.logs, i, log)
      BY <3>1, SizeOfInsert, Zenon
    <3>3. HasLogAt(q.logs, room.logs, i, log)
      BY <2>5, <3>2, Zenon
    <3> QED BY <3>3 DEF HasLogAt
  <2>7. Good(q)
    BY <2>3, <2>5, <2>6 DEF Good
  <2>8. NamesOf(q.logs) = NamesOf(room.logs) \cup {Name(log)}
    <3>0. Len(room.logs) \in Nat /\ Len(q.logs) \in Nat
      BY <2>3, <2>6
    <3>1. ASSUME NEW m \in 1 .. Len(q.logs) PROVE Name(q.logs[m]) \in NamesOf(room.logs) \cup {Name(log)}
      <4>1. CASE m < i
        <5>1. m \in 1 .. Len(room.logs) /\ q.logs[m] = room.logs[m]
          BY <2>4, <2>6, <4>1, <3>0
        <5> QED BY <5>1 DEF NamesOf
      <4>2. CASE m = i
        BY <2>6, <4>2
      <4>3. CASE m > i
        <5>1. m - 1 \in 1 .. Len(room.logs) /\ q.logs[m] = room.logs[m - 1]
          BY <2>4, <2>6, <4>3, <3>0
        <5> QED BY <5>1 DEF NamesOf
      <4> QED BY <2>4, <4>1, <4>2, <4>3
    <3>2. ASSUME NEW m \in 1 .. Len(room.logs) PROVE Name(room.logs[m]) \in NamesOf(q.logs)
      <4>1. CASE m < i
        <5>1. m \in 1 .. Len(q.logs) /\ q.logs[m] = room.logs[m]
          BY <2>4, <2>6, <4>1, <3>0
        <5>2. Name(room.logs[m]) = Name(q.logs[m])
          BY <5>1
        <5> QED BY <5>1, <5>2 DEF NamesOf
      <4>2. CASE m >= i
        <5>1. m + 1 \in 1 .. Len(q.logs) /\ m + 1 \in i + 1 .. Len(room.logs) + 1 /\ (m + 1) - 1 = m
          BY <2>4, <2>6, <4>2, <3>0
        <5>2. Name(room.logs[m]) = Name(q.logs[m + 1])
          BY <2>6, <5>1
        <5> QED BY <5>1, <5>2 DEF NamesOf
      <4> QED BY <2>4, <4>1, <4>2
    <3>3. Name(log) \in NamesOf(q.logs)
      <4>1. i \in 1 .. Len(q.logs) /\ Name(log) = Name(q.logs[i])
        BY <2>4, <2>6
      <4> QED BY <4>1 DEF NamesOf
    <3>4. NamesOf(q.logs) \subseteq NamesOf(room.logs) \cup {Name(log)}
      BY <3>1 DEF NamesOf
    <3>5. NamesOf(room.logs) \subseteq NamesOf(q.logs)
      BY <3>2 DEF NamesOf
    <3> QED BY <3>3, <3>4, <3>5
  <2>9. PICK n \in 0 .. Len(q.logs) : cleanup(q, t) = delete(q, n) /\ \A m \in 1 .. n : ShouldDelete(q, m, t)
    BY <2>7, CleanedUp
  <2>10. /\ Good(r) /\ Follows(q, r, NamesOf(q.logs)) /\ Len(r.logs) = Len(q.logs) - n
         /\ r.total <= MAX_TOTAL_LOG_SIZE
    <3>1. r = delete(q, n)
      BY <2>1, <2>9
    <3> HIDE DEF r
    <3>2. cleanup(q, t).total <= MAX_TOTAL_LOG_SIZE
      BY <2>7, CleanedUp
    <3> QED BY <2>1, <2>7, <2>9, <3>1, <3>2, Deleted
  <2>11. Follows(s, r, names)
    BY <2>2, <2>5, <2>8, <2>10 DEF Follows
  <2>12. Len(q.logs) \in Nat /\ Len(r.logs) <= MAX_TOTAL_LOG_NUMBER
    BY <1>1, <1>3, <2>2, <2>6, <2>10
  <2>13. ASSUME log.size = 0, s.total <= MAX_TOTAL_LOG_SIZE, t - log.global_start <= MAX_LOG_AGE
         PROVE  r.logs # <<>>
    <3>1. ~ShouldDelete(q, i, t)
      <4>1. i - 1 \in 0 .. Len(q.logs)
        BY <2>4, <2>6, <2>12
      <4>2. SizeOf(SubSeq(q.logs, 1, i - 1)) \in Nat
        BY <2>7, <4>1, Deleted
      <4>3. q.total <= MAX_TOTAL_LOG_SIZE /\ q.total \in Nat
        BY <2>2, <2>5, <2>13 DEF OutputAssumption
      <4>4. ~(q.total - SizeOf(SubSeq(q.logs, 1, i - 1)) > MAX_TOTAL_LOG_SIZE)
        BY <4>2, <4>3 DEF OutputAssumption
      <4>5. ~(t - q.logs[i].global_start > MAX_LOG_AGE)
        <5>1. log.global_start \in Int
          BY DEF Log
        <5> QED BY <2>6, <2>13, <5>1 DEF OutputAssumption
      <4> QED BY <4>4, <4>5 DEF ShouldDelete
    <3>2. i \notin 1 .. n
      BY <2>9, <3>1
    <3>3. Len(r.logs) >= 1
      BY <2>4, <2>6, <2>9, <2>10, <2>12, <3>2
    <3> QED BY <3>3
  <2> QED BY <2>10, <2>11, <2>12, <2>13 DEF r
<1> QED
  BY <1>4, <1>5

-----------------------------------------------------------------------------
(* Days.                                                                   *)

\* What / and % of C give, for natural numbers.
LEMMA Division ==
  ASSUME NEW m \in Nat \ {0}, NEW n \in Nat
  PROVE  n \div m \in Nat /\ n % m \in 0 .. m - 1 /\ n = m * (n \div m) + (n % m)
<1> DEFINE q == n \div m
           r == n % m
<1>1. m \in Nat /\ m > 0
  OBVIOUS
<1>2. q \in Nat /\ r \in 0 .. m - 1 /\ n = m * q + r
  BY <1>1
<1> QED
  BY <1>2

\* A multiple leaves no remainder.
LEMMA Multiple ==
  ASSUME NEW m \in Nat \ {0}, NEW q \in Nat
  PROVE  (m * q) % m = 0 /\ m * q \in Nat
<1> DEFINE n == m * q
           p == n \div m
           r == n % m
<1>1. n \in Nat
  OBVIOUS
<1>2. p \in Nat /\ r \in 0 .. m - 1 /\ n = m * p + r
  <2> HIDE DEF n
  <2> QED BY <1>1, Division
<1>3. m * q = m * p + r
  BY <1>2
<1> HIDE DEF n, p, r
<1>4. p >= q + 1 => m * p >= m * (q + 1) /\ m * (q + 1) = m * q + m
  BY <1>2
<1>5. q >= p + 1 => m * q >= m * (p + 1) /\ m * (p + 1) = m * p + m
  BY <1>2
<1>6. m * p \in Nat /\ m * q \in Nat
  BY <1>2
<1>7. p = q
  BY <1>2, <1>3, <1>4, <1>5, <1>6
<1>8. r = 0
  BY <1>2, <1>3, <1>6, <1>7
<1> QED
  BY <1>6, <1>8 DEF r, n

\* start() rounds down to a day, the latest that has begun.
LEMMA StartOfDay ==
  ASSUME OutputAssumption, NEW t \in Nat
  PROVE  /\ start(t) \in 0 .. t /\ start(t) % DAY = 0 /\ t - start(t) < DAY
         /\ \A d \in Nat : d % DAY = 0 /\ d <= t => d <= start(t)
<1> DEFINE q == t \div DAY
           r == t % DAY
<1>1. DAY \in Nat /\ DAY > 0
  BY DEF OutputAssumption
<1>2. q \in Nat /\ r \in 0 .. DAY - 1 /\ t = DAY * q + r
  BY <1>1
<1>3. start(t) = DAY * q
  BY <1>1, <1>2 DEF start
<1>4. (DAY * q) % DAY = 0
  <2> HIDE DEF q
  <2> QED BY <1>1, <1>2, Multiple
<1>5. ASSUME NEW d \in Nat, d % DAY = 0, d <= t PROVE d <= DAY * q
  <2> DEFINE p == d \div DAY
  <2>1. p \in Nat /\ d = DAY * p + (d % DAY)
    <3> HIDE DEF q, r
    <3> QED BY <1>1, Division
  <2>2. d = DAY * p
    BY <1>1, <1>5, <2>1
  <2> HIDE DEF p, q, r
  <2>3. p <= q \/ p >= q + 1
    BY <1>2, <2>1
  <2>4. p <= q => DAY * p <= DAY * q
    BY <1>1, <1>2, <2>1
  <2>5. p >= q + 1 => DAY * p >= DAY * (q + 1) /\ DAY * (q + 1) = DAY * q + DAY
    BY <1>1, <1>2, <2>1
  <2> QED BY <1>1, <1>2, <1>5, <2>1, <2>2, <2>3, <2>4, <2>5
<1>6. DAY * q \in Nat
  BY <1>1, <1>2
<1> HIDE DEF q, r
<1> QED
  BY <1>1, <1>2, <1>3, <1>4, <1>5, <1>6

\* The log of today, whatever its number.
LEMMA Today ==
  ASSUME OutputAssumption, now \in 0 .. MaxTime, NEW n \in Nat
  PROVE  LET log == [global_start |-> start(now), number |-> n, size |-> 0]
         IN /\ log \in Log /\ log.size = 0 /\ now - log.global_start <= MAX_LOG_AGE
            /\ Name(log) = <<start(now), n>> /\ start(now) <= now
<1> DEFINE log == [global_start |-> start(now), number |-> n, size |-> 0]
<1>1. now \in Nat /\ MaxTime \in Nat /\ MAX_LOG_AGE \in Nat /\ DAY \in Nat /\ MAX_LOG_AGE >= DAY
  BY DEF OutputAssumption
<1>2. start(now) \in 0 .. now /\ start(now) % DAY = 0 /\ now - start(now) < DAY
  BY <1>1, StartOfDay
<1>3. start(now) \in 0 .. MaxTime
  BY <1>1, <1>2
<1>4. Name(log) = <<start(now), n>> /\ <<start(now), n>> \in Names
  BY <1>2, <1>3 DEF Name, Names
<1> QED
  BY <1>1, <1>2, <1>3, <1>4 DEF Log

-----------------------------------------------------------------------------
(* The inductive invariant.                                                *)

OutputTypes ==
  /\ now \in 0 .. MaxTime
  /\ DOMAIN disk \subseteq Names /\ \A f \in DOMAIN disk : disk[f] \in Nat
  /\ pc \in {"down", "reading", "up"} /\ entries \subseteq DOMAIN disk
  /\ g_catastrophic \in BOOLEAN /\ g_file \in Names \cup {None} /\ buffered \in Nat

\* The list: its sum and limits.
List ==
  /\ g_logs \in Seq(Log) /\ g_logs_total_size = SizeOf(g_logs)
  /\ Len(g_logs) <= MAX_TOTAL_LOG_NUMBER
  /\ g_file = None => g_logs_total_size <= MAX_TOTAL_LOG_SIZE

\* No log is of a day to come.
NotAhead == \A f \in DOMAIN disk \cup NamesOf(g_logs) : f[1] <= now

\* A file is open only while messages are printed, and is the last log's.
OpenLast ==
  /\ pc = "down" => g_logs = <<>>
  /\ pc # "up" => g_file = None /\ ~g_catastrophic
  /\ g_file # None => g_logs # <<>> /\ g_file = Name(g_logs[Len(g_logs)])

\* What readdir has returned is listed or gone, and nothing else.
Noted ==
  /\ pc # "reading" => entries = {}
  /\ entries \cap NamesOf(g_logs) = {}
  /\ pc # "down" /\ ~g_catastrophic =>
       \A f \in DOMAIN disk \ entries : f[2] = 0 => f \in NamesOf(g_logs)

OInv == OutputTypes /\ List /\ NotAhead /\ OpenLast /\ Noted

\* A name is not the absence of one.
LEMMA NameIsSome == \A f \in Names : f # None
  BY DEF Names, None

\* A listed log has the name of a file.
LEMMA LogName ==
  ASSUME NEW logs \in Seq(Log), NEW i \in 1 .. Len(logs)
  PROVE  Name(logs[i]) \in NamesOf(logs) /\ Name(logs[i]) \in Names
  BY DEF NamesOf, Log

\* The list before output_module_initialize.
LEMMA NoNames == NamesOf(<<>>) = {} /\ <<>> \in Seq(Log) /\ SizeOf(<<>>) = 0
<1>1. Len(<<>>) = 0 /\ <<>> \in Seq(Log)
  OBVIOUS
<1>2. Sums([n \in 0 .. 0 |-> 0], <<>>)
  BY <1>1 DEF Sums
<1>3. SizeOf(<<>>) = 0
  <2> DEFINE e == [n \in 0 .. 0 |-> 0]
  <2>1. e[0] = 0
    OBVIOUS
  <2> HIDE DEF e
  <2>2. Sums(e, <<>>)
    BY <1>2 DEF e
  <2>3. SizeOf(<<>>) = e[Len(<<>>)]
    BY <1>1, <2>2, SizeOfIsSum
  <2> QED BY <1>1, <2>1, <2>3
<1> QED
  BY <1>1, <1>3 DEF NamesOf

\* The program starts with a directory that others left.
LEMMA InitOInv ==
  ASSUME OutputAssumption, Init
  PROVE  OInv
<1>1. OutputTypes
  BY DEF Init, OutputTypes, OutputAssumption
<1>2. List
  BY NoNames DEF Init, List, OutputAssumption
<1>3. NotAhead /\ OpenLast /\ Noted
  BY NoNames DEF Init, NotAhead, OpenLast, Noted
<1> QED
  BY <1>1, <1>2, <1>3 DEF OInv

\* The list is as insert, cleanup and delete want it.
LEMMA ListedGood ==
  ASSUME OInv
  PROVE  /\ Good(Listed) /\ Listed.logs = g_logs /\ Listed.total = g_logs_total_size
         /\ Listed.disk = disk
  BY DEF OInv, List, Listed, Good

\* A list operation keeps the parts that do not speak of the file.
LEMMA Followed ==
  ASSUME OInv, NEW r, NEW names, NEW seen \in SUBSET entries,
         Good(r), Len(r.logs) <= MAX_TOTAL_LOG_NUMBER, r.total <= MAX_TOTAL_LOG_SIZE,
         Follows(Listed, r, names),
         NamesOf(g_logs) \subseteq names, \A f \in names : f \in Names /\ f[1] <= now,
         names \cap (entries \ seen) = {},
         \A f \in seen : f \in names \/ f[2] > 0
  PROVE  /\ r.logs \in Seq(Log) /\ r.total = SizeOf(r.logs)
         /\ DOMAIN r.disk \subseteq Names /\ \A f \in DOMAIN r.disk : r.disk[f] \in Nat
         /\ entries \ seen \subseteq DOMAIN r.disk
         /\ \A f \in DOMAIN r.disk \cup NamesOf(r.logs) : f[1] <= now
         /\ (entries \ seen) \cap NamesOf(r.logs) = {}
         /\ pc # "down" /\ ~g_catastrophic =>
              \A f \in DOMAIN r.disk \ (entries \ seen) : f[2] = 0 => f \in NamesOf(r.logs)
<1>1. Listed.disk = disk /\ Listed.logs = g_logs
  BY ListedGood
<1>2. /\ NamesOf(r.logs) \subseteq names
      /\ DOMAIN r.disk \subseteq DOMAIN disk /\ DOMAIN disk \ DOMAIN r.disk \subseteq names
      /\ DOMAIN r.disk \cap names \subseteq NamesOf(r.logs)
      /\ \A f \in DOMAIN r.disk : r.disk[f] = disk[f]
  BY <1>1 DEF Follows
<1>3. r.logs \in Seq(Log) /\ r.total = SizeOf(r.logs)
  BY DEF Good
<1>4. /\ DOMAIN r.disk \subseteq Names /\ \A f \in DOMAIN r.disk : r.disk[f] \in Nat
      /\ entries \ seen \subseteq DOMAIN r.disk
  BY <1>2 DEF OInv, OutputTypes
<1>5. \A f \in DOMAIN r.disk \cup NamesOf(r.logs) : f[1] <= now
  BY <1>2 DEF OInv, NotAhead
<1>6. ASSUME pc # "down", ~g_catastrophic, NEW f \in DOMAIN r.disk \ (entries \ seen), f[2] = 0
      PROVE  f \in NamesOf(r.logs)
  <2>1. CASE f \in seen
    BY <1>2, <1>6, <2>1
  <2>2. CASE f \notin seen
    BY <1>2, <1>6, <2>2 DEF OInv, Noted
  <2> QED BY <2>1, <2>2
<1> QED
  BY <1>2, <1>3, <1>4, <1>5, <1>6

-----------------------------------------------------------------------------
(* The steps.                                                              *)

\* The names of the list, in the invariant.
LEMMA LogNames ==
  ASSUME OInv, NEW f \in NamesOf(g_logs)
  PROVE  f \in Names /\ f[1] <= now
<1>1. PICK i \in 1 .. Len(g_logs) : f = Name(g_logs[i])
  BY DEF NamesOf
<1> QED
  BY <1>1, LogName DEF OInv, List, NotAhead

\* output_module_initialize opens the directory.
LEMMA StartStep ==
  ASSUME OutputAssumption, OInv, Start
  PROVE  OInv'
<1>1. /\ pc = "down" /\ g_logs = <<>> /\ pc' \in {"reading", "up"}
      /\ UNCHANGED <<now, disk, g_logs, g_logs_total_size, g_file, buffered>>
      /\ entries' \subseteq DOMAIN disk /\ g_catastrophic' \in BOOLEAN
      /\ pc' = "reading" => entries' = DOMAIN disk /\ ~g_catastrophic'
      /\ pc' = "up" => entries' = {} /\ g_catastrophic'
      /\ g_file = None
  BY DEF Start, OInv, OpenLast
<1>2. NamesOf(g_logs) = {} /\ NamesOf(g_logs)' = {}
  BY <1>1, NoNames
<1>3. OutputTypes' /\ List' /\ OpenLast'
  BY <1>1 DEF OInv, OutputTypes, List, OpenLast
<1>4. NotAhead'
  BY <1>1, <1>2 DEF OInv, NotAhead
<1>5. Noted'
  BY <1>1, <1>2 DEF OInv, Noted
<1> QED
  BY <1>3, <1>4, <1>5 DEF OInv

\* One entry of the directory, skipped or listed.
LEMMA ReadEntryStep ==
  ASSUME OutputAssumption, OInv, NEW f \in entries, ReadEntry(f)
  PROVE  OInv'
<1>1. /\ pc = "reading" /\ entries' = entries \ {f} /\ g_file = None /\ ~g_catastrophic
      /\ UNCHANGED <<now, pc, g_catastrophic, g_file, buffered>>
      /\ f \in DOMAIN disk /\ f \in Names /\ f[1] <= now /\ disk[f] \in Nat /\ now \in 0 .. MaxTime
  BY DEF ReadEntry, OInv, OpenLast, OutputTypes, NotAhead
<1>2. f[1] \in Nat /\ f[1] \in 0 .. MaxTime /\ f[2] \in Nat /\ f = <<f[1], f[2]>> /\ f[1] % DAY = 0
  BY <1>1 DEF Names
<1>3. f[1] <= start(now)
  <2>1. now \in Nat
    BY <1>1
  <2> QED BY <1>1, <1>2, <2>1, StartOfDay
<1>4. CASE Skipped(f)
  <2>1. f[2] > 0 /\ UNCHANGED <<disk, g_logs, g_logs_total_size>>
    <3>1. start(now) \in Int
      BY <1>1, StartOfDay
    <3> QED BY <1>2, <1>3, <1>4, <3>1 DEF Skipped, ReadEntry
  <2>2. OutputTypes' /\ List' /\ NotAhead' /\ OpenLast'
    BY <1>1, <2>1 DEF OInv, OutputTypes, List, NotAhead, NamesOf, OpenLast
  <2>3. Noted'
    BY <1>1, <1>2, <2>1 DEF OInv, Noted, NamesOf
  <2> QED BY <2>2, <2>3 DEF OInv
<1>5. CASE ~Skipped(f)
  <2> DEFINE log == [global_start |-> f[1], number |-> 0, size |-> disk[f]]
             r == insert(Listed, log, now)
             names == NamesOf(g_logs) \cup {Name(log)}
  <2>1. f[2] = 0 /\ Name(log) = f
    BY <1>2, <1>5 DEF Skipped, Name
  <2>2. log \in Log
    BY <1>1, <1>2, <2>1 DEF Log
  <2>3. g_logs' = r.logs /\ g_logs_total_size' = r.total /\ disk' = r.disk
    BY <1>5 DEF ReadEntry, Become
  <2> HIDE DEF log
  <2>4. Listed.logs = g_logs /\ Listed.total = g_logs_total_size /\ Good(Listed)
    BY ListedGood
  <2>5. /\ Good(r) /\ Len(r.logs) <= MAX_TOTAL_LOG_NUMBER
        /\ r.total <= MAX_TOTAL_LOG_SIZE
        /\ Follows(Listed, r, names)
    <3>1. Len(Listed.logs) <= MAX_TOTAL_LOG_NUMBER /\ Listed.total <= MAX_TOTAL_LOG_SIZE /\ now \in Int
      BY <1>1, <2>4 DEF OInv, List
    <3> QED BY <2>2, <2>4, <3>1, Inserted
  <2> HIDE DEF r
  <2>6. /\ \A g \in names : g \in Names /\ g[1] <= now
        /\ names \cap (entries \ {f}) = {}
        /\ \A g \in {f} : g \in names \/ g[2] > 0
        /\ {f} \in SUBSET entries
    BY <1>1, <2>1, LogNames DEF OInv, Noted
  <2> HIDE DEF names
  <2>7. NamesOf(g_logs) \subseteq names
    BY DEF names
  <2>8. /\ r.logs \in Seq(Log) /\ r.total = SizeOf(r.logs)
        /\ DOMAIN r.disk \subseteq Names /\ \A g \in DOMAIN r.disk : r.disk[g] \in Nat
        /\ entries \ {f} \subseteq DOMAIN r.disk
        /\ \A g \in DOMAIN r.disk \cup NamesOf(r.logs) : g[1] <= now
        /\ (entries \ {f}) \cap NamesOf(r.logs) = {}
        /\ pc # "down" /\ ~g_catastrophic =>
             \A g \in DOMAIN r.disk \ (entries \ {f}) : g[2] = 0 => g \in NamesOf(r.logs)
    BY <2>5, <2>6, <2>7, Followed
  <2>9. NamesOf(g_logs)' = NamesOf(r.logs)
    BY <2>3 DEF NamesOf
  <2>10. OutputTypes'
    BY <1>1, <2>3, <2>8 DEF OInv, OutputTypes
  <2>11. List'
    BY <1>1, <2>3, <2>5, <2>8 DEF OInv, List
  <2>12. NotAhead' /\ Noted'
    BY <1>1, <2>3, <2>8, <2>9 DEF NotAhead, Noted
  <2>13. OpenLast'
    BY <1>1 DEF OInv, OpenLast
  <2> QED BY <2>10, <2>11, <2>12, <2>13 DEF OInv
<1> QED
  BY <1>4, <1>5

\* An entry whose file cannot be used is removed.
LEMMA ReadRemovedStep ==
  ASSUME OInv, NEW f \in entries, ReadRemoved(f)
  PROVE  OInv'
<1>1. /\ entries' = entries \ {f} /\ disk' = [g \in DOMAIN disk \ {f} |-> disk[g]]
      /\ pc = "reading" /\ UNCHANGED <<now, pc, g_logs, g_logs_total_size, g_catastrophic, g_file, buffered>>
  BY DEF ReadRemoved, memory, Unlink
<1>2. NamesOf(g_logs)' = NamesOf(g_logs)
  BY <1>1
<1>3. OutputTypes' /\ List' /\ OpenLast'
  BY <1>1 DEF OInv, OutputTypes, List, OpenLast
<1>4. NotAhead' /\ Noted'
  BY <1>1, <1>2 DEF OInv, NotAhead, Noted
<1> QED
  BY <1>3, <1>4 DEF OInv

\* The directory ends, or memory does.
LEMMA ReadOverStep ==
  ASSUME OInv, ReadFails \/ ReadEnds
  PROVE  OInv'
<1>1. /\ pc = "reading" /\ pc' = "up" /\ entries' = {}
      /\ g_catastrophic' \in BOOLEAN
      /\ ~g_catastrophic' => entries = {} /\ ~g_catastrophic
      /\ UNCHANGED <<now, disk, g_logs, g_logs_total_size, g_file, buffered>>
  BY DEF OInv, OutputTypes, ReadFails, ReadEnds, memory
<1>2. NamesOf(g_logs)' = NamesOf(g_logs)
  BY <1>1
<1>3. OutputTypes' /\ List' /\ OpenLast'
  BY <1>1 DEF OInv, OutputTypes, List, OpenLast
<1>4. NotAhead' /\ Noted'
  BY <1>1, <1>2 DEF OInv, NotAhead, Noted
<1> QED
  BY <1>3, <1>4 DEF OInv

\* What the files hold grows, and no file comes or goes.
LEMMA WrittenFiles ==
  ASSUME OInv, NEW n \in Nat
  PROVE  DOMAIN Written(n) = DOMAIN disk /\ \A f \in DOMAIN disk : Written(n)[f] \in Nat
  BY DEF Written, OInv, OutputTypes

\* The process ends, with what was buffered or without.
LEMMA ExitStep ==
  ASSUME OutputAssumption, OInv, output_module_finalize \/ Crash
  PROVE  OInv'
<1>1. PICK n \in Nat : Exit(n)
  BY DEF output_module_finalize, Crash, OInv, OutputTypes
<1>2. DOMAIN disk' = DOMAIN disk /\ \A f \in DOMAIN disk' : disk'[f] \in Nat
  BY <1>1, WrittenFiles DEF Exit
<1>3. /\ pc' = "down" /\ entries' = {} /\ g_logs' = <<>> /\ g_logs_total_size' = 0 /\ g_catastrophic' = FALSE
      /\ g_file' = None /\ buffered' = 0 /\ now' = now
  BY <1>1 DEF Exit
<1>4. OutputTypes'
  BY <1>2, <1>3 DEF OInv, OutputTypes
<1>5. List'
  BY <1>3, NoNames DEF List, OutputAssumption
<1>6. NotAhead' /\ Noted' /\ OpenLast'
  <2>1. NamesOf(g_logs)' = {}
    BY <1>3, NoNames
  <2> QED BY <1>2, <1>3, <2>1 DEF OInv, NotAhead, Noted, OpenLast
<1> QED
  BY <1>4, <1>5, <1>6 DEF OInv

\* The list from which output_open takes the last log.
LEMMA OpenedListGood ==
  ASSUME OutputAssumption, OInv, Usable, g_file = None
  PROVE  LET s == OpenedList
         IN /\ s.logs \in Seq(Log) /\ s.total = SizeOf(s.logs) /\ s.logs # <<>>
            /\ Len(s.logs) <= MAX_TOTAL_LOG_NUMBER /\ s.total <= MAX_TOTAL_LOG_SIZE
            /\ DOMAIN s.disk \subseteq Names /\ \A f \in DOMAIN s.disk : s.disk[f] \in Nat
            /\ \A f \in DOMAIN s.disk \cup NamesOf(s.logs) : f[1] <= now
            /\ \A f \in DOMAIN s.disk : f[2] = 0 => f \in NamesOf(s.logs)
<1>1. /\ pc = "up" /\ ~g_catastrophic /\ entries = {} /\ now \in 0 .. MaxTime
      /\ g_logs \in Seq(Log) /\ g_logs_total_size = SizeOf(g_logs)
      /\ Len(g_logs) <= MAX_TOTAL_LOG_NUMBER /\ g_logs_total_size <= MAX_TOTAL_LOG_SIZE
  BY DEF Usable, OInv, OutputTypes, List, Noted
<1>2. Listed.logs = g_logs /\ Listed.total = g_logs_total_size /\ Listed.disk = disk /\ Good(Listed)
  BY ListedGood
<1>3. CASE NewNumber = -1
  <2>1. OpenedList = Listed /\ g_logs # <<>>
    BY <1>3 DEF OpenedList, NewNumber
  <2> QED BY <1>1, <1>2, <2>1 DEF OInv, OutputTypes, NotAhead, Noted
<1>4. CASE NewNumber # -1
  <2> DEFINE log == [global_start |-> start(now), number |-> NewNumber, size |-> 0]
             r == insert(Listed, log, now)
             names == NamesOf(g_logs) \cup {Name(log)}
  <2>1. NewNumber \in Nat
    <3>1. CASE g_logs = <<>>
      BY <3>1 DEF NewNumber
    <3>2. CASE g_logs # <<>>
      <4>1. Last(g_logs) \in Log
        BY <1>1, <3>2 DEF Last
      <4> QED BY <1>4, <3>2, <4>1 DEF NewNumber, Log
    <3> QED BY <3>1, <3>2
  <2>2. /\ log \in Log /\ log.size = 0 /\ now - log.global_start <= MAX_LOG_AGE
        /\ Name(log) = <<start(now), NewNumber>> /\ start(now) <= now
    BY <1>1, <2>1, Today
  <2>3. OpenedList = r
    BY <1>4 DEF OpenedList
  <2> HIDE DEF log
  <2>4. /\ Good(r) /\ Len(r.logs) <= MAX_TOTAL_LOG_NUMBER /\ r.total <= MAX_TOTAL_LOG_SIZE
        /\ Follows(Listed, r, names) /\ r.logs # <<>>
    <3>1. now \in Int /\ Len(Listed.logs) <= MAX_TOTAL_LOG_NUMBER /\ Listed.total <= MAX_TOTAL_LOG_SIZE
      BY <1>1, <1>2
    <3> QED BY <1>2, <2>2, <3>1, Inserted
  <2> HIDE DEF r
  <2>5. Name(log) \in Names /\ Name(log)[1] <= now
    BY <2>2 DEF Log
  <2>6. \A f \in names : f \in Names /\ f[1] <= now
    BY <2>5, LogNames
  <2>7. NamesOf(g_logs) \subseteq names
    OBVIOUS
  <2> HIDE DEF names
  <2>8. /\ r.logs \in Seq(Log) /\ r.total = SizeOf(r.logs)
        /\ DOMAIN r.disk \subseteq Names /\ \A f \in DOMAIN r.disk : r.disk[f] \in Nat
        /\ \A f \in DOMAIN r.disk \cup NamesOf(r.logs) : f[1] <= now
        /\ pc # "down" /\ ~g_catastrophic =>
             \A f \in DOMAIN r.disk \ (entries \ {}) : f[2] = 0 => f \in NamesOf(r.logs)
    <3>1. /\ {} \in SUBSET entries /\ names \cap (entries \ {}) = {}
          /\ \A f \in {} : f \in names \/ f[2] > 0
      BY <1>1
    <3> HIDE DEF names
    <3> QED BY <2>4, <2>6, <2>7, <3>1, Followed
  <2> QED BY <1>1, <2>3, <2>4, <2>8
<1> QED
  BY <1>3, <1>4

LEMMA OpenStep ==
  ASSUME OutputAssumption, OInv, output_open
  PROVE  OInv'
<1> DEFINE s == OpenedList
           last == Name(s.logs[Len(s.logs)])
<1>1. /\ pc = "up" /\ ~g_catastrophic /\ g_file = None /\ entries = {} /\ Usable
      /\ UNCHANGED <<now, pc, entries, buffered>>
  BY DEF output_open, Usable, OInv, Noted
<1>2. /\ s.logs \in Seq(Log) /\ s.total = SizeOf(s.logs) /\ s.logs # <<>>
      /\ Len(s.logs) <= MAX_TOTAL_LOG_NUMBER /\ s.total <= MAX_TOTAL_LOG_SIZE
      /\ DOMAIN s.disk \subseteq Names /\ \A f \in DOMAIN s.disk : s.disk[f] \in Nat
      /\ \A f \in DOMAIN s.disk \cup NamesOf(s.logs) : f[1] <= now
      /\ \A f \in DOMAIN s.disk : f[2] = 0 => f \in NamesOf(s.logs)
  BY <1>1, OpenedListGood
<1>3. /\ g_logs' = s.logs /\ g_logs_total_size' = s.total
      /\ \/ /\ g_file' = last /\ UNCHANGED g_catastrophic
            /\ disk' = IF last \in DOMAIN s.disk \cup {Wild} THEN s.disk
                       ELSE [f \in DOMAIN s.disk \cup {last} |-> IF f = last THEN 0 ELSE s.disk[f]]
         \/ g_catastrophic' = TRUE /\ disk' = s.disk /\ UNCHANGED g_file
  BY <1>2 DEF output_open, Last
<1> HIDE DEF s
<1>4. last \in Names /\ last \in NamesOf(s.logs) /\ last # None
  <2>1. Len(s.logs) \in 1 .. Len(s.logs)
    BY <1>2
  <2> QED BY <1>2, <2>1, LogName, NameIsSome
<1> HIDE DEF last
<1>5. /\ DOMAIN s.disk \subseteq DOMAIN disk' /\ DOMAIN disk' \subseteq DOMAIN s.disk \cup {last}
      /\ \A f \in DOMAIN disk' : disk'[f] \in Nat
  BY <1>2, <1>3
<1>6. g_file' = None => g_catastrophic'
  BY <1>3, <1>4
<1>7. g_file' \in {None, last} /\ g_catastrophic' \in BOOLEAN
  BY <1>1, <1>3 DEF OInv, OutputTypes
<1>8. NamesOf(g_logs)' = NamesOf(s.logs)
  BY <1>3 DEF NamesOf
<1>9. OutputTypes'
  BY <1>1, <1>2, <1>4, <1>5, <1>7 DEF OInv, OutputTypes
<1>10. List'
  BY <1>2, <1>3 DEF List
<1>11. NotAhead' /\ Noted'
  BY <1>1, <1>2, <1>4, <1>5, <1>8 DEF NotAhead, Noted
<1>12. OpenLast'
  BY <1>1, <1>2, <1>3, <1>7 DEF OpenLast, last
<1> QED
  BY <1>9, <1>10, <1>11, <1>12 DEF OInv

\* Failures: nothing is printed to a file any more.
LEMMA FailStep ==
  ASSUME OInv, output_open_fails \/ output_vprint_fails
  PROVE  OInv'
<1>1. /\ pc = "up" /\ g_catastrophic' = TRUE
      /\ UNCHANGED <<now, disk, pc, entries, g_logs, g_logs_total_size, g_file, buffered>>
  BY DEF output_open_fails, output_vprint_fails, Usable
<1>2. NamesOf(g_logs)' = NamesOf(g_logs)
  BY <1>1
<1>3. OutputTypes' /\ List' /\ OpenLast'
  BY <1>1 DEF OInv, OutputTypes, List, OpenLast
<1>4. NotAhead' /\ Noted'
  BY <1>1, <1>2 DEF OInv, NotAhead, Noted
<1> QED
  BY <1>3, <1>4 DEF OInv

LEMMA PrintStep ==
  ASSUME OutputAssumption, OInv, NEW n \in Lengths, output_vprint(n)
  PROVE  OInv'
<1>1. /\ pc = "up" /\ ~g_catastrophic /\ g_file # None /\ n \in Nat
      /\ buffered' = buffered + n /\ g_logs' = [g_logs EXCEPT ![Len(g_logs)].size = @ + n]
      /\ g_logs_total_size' = g_logs_total_size + n
      /\ UNCHANGED <<now, disk, pc, entries, g_catastrophic, g_file>>
  BY DEF output_vprint, Usable, OutputAssumption
<1>2. g_logs \in Seq(Log) /\ g_logs # <<>> /\ g_logs_total_size = SizeOf(g_logs)
  BY <1>1 DEF OInv, List, OpenLast
<1>3. /\ g_logs' \in Seq(Log) /\ Len(g_logs') = Len(g_logs)
      /\ \A i \in 1 .. Len(g_logs) : Name(g_logs'[i]) = Name(g_logs[i])
      /\ SizeOf(g_logs') = SizeOf(g_logs) + n
  <2>1. \E more : more = g_logs' /\ more = [g_logs EXCEPT ![Len(g_logs)].size = @ + n]
    BY <1>1, Zenon
  <2>2. n \in Nat /\ g_logs \in Seq(Log) /\ g_logs # <<>>
    BY <1>1, <1>2
  <2> QED BY <2>1, <2>2, SizeOfGrown, Zenon
<1>4. NamesOf(g_logs)' = NamesOf(g_logs)
  BY <1>3 DEF NamesOf
<1>5. g_logs' # <<>> /\ Len(g_logs) \in 1 .. Len(g_logs)
  BY <1>2, <1>3
<1>6. OutputTypes'
  BY <1>1 DEF OInv, OutputTypes
<1>7. List'
  BY <1>1, <1>2, <1>3 DEF OInv, List
<1>8. NotAhead' /\ Noted'
  BY <1>1, <1>4 DEF OInv, NotAhead, Noted
<1>9. OpenLast'
  BY <1>1, <1>3, <1>5 DEF OInv, OpenLast
<1> QED
  BY <1>6, <1>7, <1>8, <1>9 DEF OInv

LEMMA CloseStep ==
  ASSUME OutputAssumption, OInv, output_close
  PROVE  OInv'
<1> DEFINE s == [Listed EXCEPT !.disk = Written(buffered)]
           r == cleanup(s, now)
<1>1. /\ pc = "up" /\ ~g_catastrophic /\ entries = {} /\ g_logs' = r.logs /\ g_logs_total_size' = r.total /\ disk' = r.disk
      /\ g_file' = None /\ buffered' = 0 /\ UNCHANGED <<now, pc, entries, g_catastrophic>>
  BY DEF output_close, Usable, Become, OInv, Noted
<1>2. /\ Good(s) /\ s.logs = g_logs /\ s.disk = Written(buffered)
  BY DEF OInv, List, Listed, Good
<1> HIDE DEF s
<1>3. r.total <= MAX_TOTAL_LOG_SIZE /\ \E n \in 0 .. Len(s.logs) : r = delete(s, n)
  BY <1>2, CleanedUp
<1> HIDE DEF r
<1>4. PICK n \in 0 .. Len(s.logs) : r = delete(s, n)
  BY <1>3
<1>5. Good(r) /\ Follows(s, r, NamesOf(s.logs)) /\ Len(r.logs) = Len(s.logs) - n
  BY <1>2, <1>4, Deleted
<1>6. DOMAIN s.disk = DOMAIN disk /\ \A f \in DOMAIN disk : s.disk[f] \in Nat
  BY <1>2, WrittenFiles DEF OInv, OutputTypes
<1>7. /\ NamesOf(r.logs) \subseteq NamesOf(g_logs)
      /\ DOMAIN r.disk \subseteq DOMAIN disk
      /\ DOMAIN r.disk \cap NamesOf(g_logs) \subseteq NamesOf(r.logs)
      /\ \A f \in DOMAIN r.disk : r.disk[f] \in Nat
  BY <1>2, <1>5, <1>6 DEF Follows
<1>8. NamesOf(g_logs)' = NamesOf(r.logs)
  BY <1>1 DEF NamesOf
<1>9. OutputTypes'
  BY <1>1, <1>7 DEF OInv, OutputTypes
<1>10. List'
  <2>1. Len(g_logs) \in Nat /\ Len(g_logs) <= MAX_TOTAL_LOG_NUMBER /\ MAX_TOTAL_LOG_NUMBER \in Nat
    BY DEF OInv, List, OutputAssumption
  <2>2. Len(r.logs) <= MAX_TOTAL_LOG_NUMBER
    BY <1>2, <1>5, <2>1
  <2> QED BY <1>1, <1>3, <1>5, <2>2 DEF List, Good
<1>11. NotAhead'
  BY <1>1, <1>7, <1>8 DEF OInv, NotAhead
<1>12. Noted'
  BY <1>1, <1>7, <1>8 DEF OInv, Noted
<1>13. OpenLast'
  BY <1>1 DEF OpenLast
<1> QED
  BY <1>9, <1>10, <1>11, <1>12, <1>13 DEF OInv

LEMMA TickStep ==
  ASSUME OutputAssumption, OInv, Tick
  PROVE  OInv'
<1>1. now \in 0 .. MaxTime /\ MaxTime \in Nat
  BY DEF OInv, OutputTypes, OutputAssumption
<1>2. /\ now' \in 0 .. MaxTime /\ now' = now + 1
      /\ UNCHANGED <<disk, pc, entries, g_logs, g_logs_total_size, g_catastrophic, g_file, buffered>>
  BY <1>1 DEF Tick, memory
<1>3. NamesOf(g_logs)' = NamesOf(g_logs)
  BY <1>2
<1>4. OutputTypes' /\ List' /\ OpenLast' /\ Noted'
  BY <1>2, <1>3 DEF OInv, OutputTypes, List, OpenLast, Noted
<1>5. NotAhead'
  <2> SUFFICES ASSUME NEW f \in DOMAIN disk \cup NamesOf(g_logs) PROVE f[1] <= now + 1
    BY <1>2, <1>3 DEF NotAhead
  <2>1. f[1] <= now /\ f \in Names
    BY LogNames DEF OInv, NotAhead, OutputTypes
  <2> QED BY <1>1, <2>1 DEF Names
<1> QED
  BY <1>4, <1>5 DEF OInv

LEMMA StepOInv ==
  ASSUME OutputAssumption, OInv, [Next]_vars
  PROVE  OInv'
<1>1. CASE Start
  BY <1>1, StartStep
<1>2. CASE ReadFails \/ ReadEnds
  BY <1>2, ReadOverStep
<1>3. CASE output_module_finalize \/ Crash
  BY <1>3, ExitStep
<1>4. ASSUME NEW f \in entries, ReadEntry(f) \/ ReadRemoved(f) PROVE OInv'
  BY <1>4, ReadEntryStep, ReadRemovedStep
<1>5. CASE output_open
  BY <1>5, OpenStep
<1>6. CASE output_open_fails \/ output_vprint_fails
  BY <1>6, FailStep
<1>7. CASE output_close
  BY <1>7, CloseStep
<1>8. ASSUME NEW n \in Lengths, output_vprint(n) PROVE OInv'
  BY <1>8, PrintStep
<1>9. CASE Tick
  BY <1>9, TickStep
<1>10. CASE UNCHANGED vars
  <2>1. UNCHANGED <<now, disk, pc, entries, g_logs, g_logs_total_size, g_catastrophic, g_file, buffered>>
    BY <1>10 DEF vars, memory
  <2>2. NamesOf(g_logs)' = NamesOf(g_logs)
    BY <2>1
  <2> QED BY <2>1, <2>2 DEF OInv, OutputTypes, List, NotAhead, OpenLast, Noted
<1> QED
  BY <1>1, <1>2, <1>3, <1>4, <1>5, <1>6, <1>7, <1>8, <1>9, <1>10 DEF Next

LEMMA OutputNext ==
  ASSUME OutputAssumption
  PROVE  OInv /\ [Next]_vars => OInv'
  BY StepOInv

LEMMA OutputInvariant ==
  ASSUME OutputAssumption
  PROVE  Spec => []OInv
<1>1. Init => OInv
  BY InitOInv
<1>2. OInv /\ [Next]_vars => OInv'
  BY OutputNext
<1> QED
  BY <1>1, <1>2, PTL DEF Spec

-----------------------------------------------------------------------------
LEMMA OutputTypeOKHolds == ASSUME OutputAssumption PROVE OInv => TypeOK
<1> SUFFICES ASSUME OInv PROVE TypeOK
  OBVIOUS
<1>1. g_logs \in Seq([global_start : 0 .. MaxTime, number : Nat, size : Nat])
  <2> DEFINE Records == [global_start : 0 .. MaxTime, number : Nat, size : Nat]
  <2>1. g_logs \in Seq(Log) /\ Log \subseteq Records
    BY DEF OInv, List, Log
  <2> HIDE DEF Records
  <2>2. g_logs \in Seq(Records)
    <3>1. \A i \in 1 .. Len(g_logs) : g_logs[i] \in Records
      BY <2>1
    <3> QED BY <2>1, <3>1
  <2> QED BY <2>2 DEF Records
<1>2. g_logs_total_size \in Nat
  <2>1. 0 \in 0 .. Len(g_logs)
    BY DEF OInv, List
  <2> QED BY <2>1, SizeOfCut DEF OInv, List
<1> QED BY <1>1, <1>2 DEF OInv, OutputTypes, TypeOK

\* Whatever the directory holds and the messages are, the state of output.c is
\* what its declarations allow, and every file has a name that the
\* program can read.
THEOREM OutputTypeOK ==
  ASSUME OutputAssumption
  PROVE  Spec => []TypeOK
<1>1. OInv => TypeOK
  BY OutputTypeOKHolds
<1> QED
  BY <1>1, OutputInvariant, PTL

LEMMA OutputTotalIsSumHolds == ASSUME OutputAssumption PROVE OInv => TotalIsSum
  BY DEF OInv, List, TotalIsSum

\* For every directory, every limit and every message: g_logs_total_size, which
\* insert, delete and output_close change by what they think a log
\* holds, is what the listed logs hold together.
THEOREM OutputTotalIsSum ==
  ASSUME OutputAssumption
  PROVE  Spec => []TotalIsSum
<1>1. OInv => TotalIsSum
  BY OutputTotalIsSumHolds
<1> QED
  BY <1>1, OutputInvariant, PTL

LEMMA OutputWithinLimitsHolds == ASSUME OutputAssumption PROVE OInv => WithinLimits
  BY DEF OInv, List, WithinLimits

\* For every directory and every limit: cleanup leaves a list within
\* MAX_TOTAL_LOG_NUMBER and MAX_TOTAL_LOG_SIZE whenever no file is open.
THEOREM OutputWithinLimits ==
  ASSUME OutputAssumption
  PROVE  Spec => []WithinLimits
<1>1. OInv => WithinLimits
  BY OutputWithinLimitsHolds
<1> QED
  BY <1>1, OutputInvariant, PTL

LEMMA OutputOpenIsLastHolds == ASSUME OutputAssumption PROVE OInv => OpenIsLast
<1> SUFFICES ASSUME OInv, g_file # None PROVE g_logs # <<>> /\ g_file = Name(Last(g_logs))
  BY DEF OpenIsLast
<1> QED BY DEF OInv, OpenLast, Last

\* For every directory and every limit: the list is not empty when output_open
\* opens its last log, though the cleanup that ends an insertion may delete
\* logs, and the file is the last log's until output_close counts what was
\* printed.
THEOREM OutputOpenIsLast ==
  ASSUME OutputAssumption
  PROVE  Spec => []OpenIsLast
<1>1. OInv => OpenIsLast
  BY OutputOpenIsLastHolds
<1> QED
  BY <1>1, OutputInvariant, PTL

LEMMA OutputNothingOrphanedHolds == ASSUME OutputAssumption PROVE OInv => NothingOrphaned
<1> SUFFICES ASSUME OInv, Usable, NEW f \in DOMAIN disk, f[2] = 0
             PROVE  \E i \in DOMAIN g_logs : Name(g_logs[i]) = f
  BY DEF NothingOrphaned
<1>1. f \in NamesOf(g_logs)
  BY DEF OInv, Noted, Usable
<1>2. DOMAIN g_logs = 1 .. Len(g_logs)
  BY DEF OInv, List
<1> QED BY <1>1, <1>2 DEF NamesOf

\* For every directory: a log that output_module_initialize can read is listed or
\* removed, and none of the program's own leaves the list but by its removal.
THEOREM OutputNothingOrphaned ==
  ASSUME OutputAssumption
  PROVE  Spec => []NothingOrphaned
<1>1. OInv => NothingOrphaned
  BY OutputNothingOrphanedHolds
<1> QED
  BY <1>1, OutputInvariant, PTL

-----------------------------------------------------------------------------
(* The whole of Process.  ClockProofs is instantiated with the clock of    *)
(* each of the two sets of clients, and without Guppy.                     *)

TP == INSTANCE ClockProofs WITH
  clock <- client, Clients <- One.Clients,
  MAX_INCOMPLETE_REQUEST_TIME <- One.MAX_INCOMPLETE_REQUEST_TIME,
  MAX_EMPTY_REQUEST_STREAM_TIME <- One.MAX_EMPTY_REQUEST_STREAM_TIME,
  MAX_FULL_RESPONSE_STREAM_TIME <- One.MAX_FULL_RESPONSE_STREAM_TIME,
  MAX_INCOMPLETE_RESPONSE_TIME <- One.MAX_INCOMPLETE_RESPONSE_TIME,
  MAX_RESPONSE_STREAM_SIZE <- One.MAX_RESPONSE_STREAM_SIZE,
  MaxResponse <- One.MaxResponse,
  MaxWaiting <- One.MaxWaiting,
  MAX_CLIENTS <- Off, CHUNK_SEND_REPEATS <- Off, CHUNK_SEND_SIMULTANEOUS <- Off,
  CHUNK_SEND_REPEAT_TIME <- Off, Peers <- Off, ChunkNumbers <- Off, MaxRequests <- Off,
  MaxReceived <- Off, MaxFaults <- Off, message <- Off, message_owner <- Off, pollin <- Off,
  armed <- Off, acks <- Off, got <- Off, answered <- Off, outcome <- Off, left <- Off, requests <- Off,
  received <- Off, faults <- Off

PP == INSTANCE ClockProofs WITH
  clock <- client, Clients <- Other.Clients,
  MAX_INCOMPLETE_REQUEST_TIME <- Other.MAX_INCOMPLETE_REQUEST_TIME,
  MAX_EMPTY_REQUEST_STREAM_TIME <- Other.MAX_EMPTY_REQUEST_STREAM_TIME,
  MAX_FULL_RESPONSE_STREAM_TIME <- Other.MAX_FULL_RESPONSE_STREAM_TIME,
  MAX_INCOMPLETE_RESPONSE_TIME <- Other.MAX_INCOMPLETE_RESPONSE_TIME,
  MAX_RESPONSE_STREAM_SIZE <- Other.MAX_RESPONSE_STREAM_SIZE,
  MaxResponse <- Other.MaxResponse,
  MaxWaiting <- Other.MaxWaiting,
  MAX_CLIENTS <- Off, CHUNK_SEND_REPEATS <- Off, CHUNK_SEND_SIMULTANEOUS <- Off,
  CHUNK_SEND_REPEAT_TIME <- Off, Peers <- Off, ChunkNumbers <- Off, MaxRequests <- Off,
  MaxReceived <- Off, MaxFaults <- Off, message <- Off, message_owner <- Off, pollin <- Off,
  armed <- Off, acks <- Off, got <- Off, answered <- Off, outcome <- Off, left <- Off, requests <- Off,
  received <- Off, faults <- Off

(* What ClockProofs is about is what Process runs. *)
LEMMA TSameTerms ==
  /\ T!None = TP!T!None /\ T!Limit = TP!T!Limit /\ T!Stamps = TP!T!Stamps /\ T!Longest = TP!T!Longest /\ T!Never = TP!T!Never
  /\ T!NewClient = TP!T!NewClient
<1>1. T!None = TP!T!None /\ T!Limit = TP!T!Limit
  BY Zenon DEF T!None, TP!T!None, T!Limit, TP!T!Limit
<1>2. T!Stamps = TP!T!Stamps
  BY <1>1, Zenon DEF T!Stamps, TP!T!Stamps
<1>3. ASSUME NEW D PROVE T!Max(D) = TP!T!Max(D)
  BY Zenon DEF T!Max, TP!T!Max
<1>4. T!Longest = TP!T!Longest
  BY <1>1, <1>2, <1>3, Zenon DEF T!Longest, TP!T!Longest
<1>5. T!Never = TP!T!Never
  BY <1>4, Zenon DEF T!Never, TP!T!Never
<1>6. T!NewClient = TP!T!NewClient
  BY <1>1, <1>2, Zenon DEF T!NewClient, TP!T!NewClient
<1> QED
  BY <1>1, <1>2, <1>4, <1>5, <1>6, Zenon

LEMMA TSameOfClient ==
  ASSUME NEW c
  PROVE  /\ T!client_response_stream_size(c) = TP!T!client_response_stream_size(c)
         /\ T!HasInput(c) <=> TP!T!HasInput(c)
         /\ T!Guarded(c) = TP!T!Guarded(c) /\ T!Expired(c) = TP!T!Expired(c) /\ T!Arm(c) = TP!T!Arm(c)
         /\ \A s : T!Now(c, s) = TP!T!Now(c, s)
<1>1. ASSUME NEW o PROVE T!Size(o) = TP!T!Size(o)
  BY Zenon DEF T!Size, TP!T!Size
<1>2. T!client_response_stream_size(c) = TP!T!client_response_stream_size(c)
  BY <1>1, Zenon DEF T!client_response_stream_size, TP!T!client_response_stream_size
<1>3. T!HasInput(c) <=> TP!T!HasInput(c)
  BY Zenon DEF T!HasInput, TP!T!HasInput
<1>4. T!Guarded(c) = TP!T!Guarded(c)
  BY <1>1, <1>2, <1>3, TSameTerms, Zenon DEF T!Guarded, TP!T!Guarded
<1>5. T!Expired(c) = TP!T!Expired(c)
  BY <1>4, TSameTerms, Zenon DEF T!Expired, TP!T!Expired
<1>6. ASSUME NEW D PROVE T!Min(D) = TP!T!Min(D)
  BY Zenon DEF T!Min, TP!T!Min
<1>7. T!Arm(c) = TP!T!Arm(c)
  BY <1>4, <1>6, TSameTerms, Zenon DEF T!Arm, TP!T!Arm
<1>8. ASSUME NEW s PROVE T!Now(c, s) = TP!T!Now(c, s)
  BY Zenon DEF T!Now, TP!T!Now
<1> QED
  BY <1>2, <1>3, <1>4, <1>5, <1>7, <1>8, Zenon

LEMMA TSameAssumption == T!TimeoutsAssumption => TP!T!TimeoutsAssumption
<1>1. ASSUME NEW D PROVE T!IsFiniteSet(D) <=> TP!T!IsFiniteSet(D)
  BY Zenon DEF T!IsFiniteSet, TP!T!IsFiniteSet
<1> QED
  BY <1>1, TSameTerms, Zenon DEF T!TimeoutsAssumption, TP!T!TimeoutsAssumption

LEMMA TSameInit == T!Init => TP!T!Init
  BY TSameTerms, Zenon DEF T!Init, TP!T!Init

LEMMA TSameVars == UNCHANGED T!vars => UNCHANGED TP!T!vars
  BY DEF T!vars, T!control, TP!T!vars, TP!T!control

LEMMA TSameTick == T!Tick => TP!T!Tick
<1>1. ASSUME NEW n, NEW most PROVE T!Older(n, most) = TP!T!Older(n, most)
  BY Zenon DEF T!Older, TP!T!Older
<1> DEFINE here(c) ==
             IF ~client[c].open THEN client[c] ELSE
             [client[c] EXCEPT
                !.age = [s \in T!Stamps |-> T!Older(@[s], T!Limit[s] + 1)],
                !.empty = IF T!HasInput(c) THEN 0 ELSE T!Older(@, T!Longest + 1),
                !.pending = IF T!client_response_stream_size(c) > 0 THEN T!Older(@, T!Longest + 1) ELSE 0]
           there(c) ==
             IF ~client[c].open THEN client[c] ELSE
             [client[c] EXCEPT
                !.age = [s \in TP!T!Stamps |-> TP!T!Older(@[s], TP!T!Limit[s] + 1)],
                !.empty = IF TP!T!HasInput(c) THEN 0 ELSE TP!T!Older(@, TP!T!Longest + 1),
                !.pending = IF TP!T!client_response_stream_size(c) > 0 THEN TP!T!Older(@, TP!T!Longest + 1) ELSE 0]
<1>2. ASSUME NEW c PROVE here(c) = there(c)
  <2>1. [s \in T!Stamps |-> T!Older(client[c].age[s], T!Limit[s] + 1)]
          = [s \in TP!T!Stamps |-> TP!T!Older(client[c].age[s], TP!T!Limit[s] + 1)]
    BY <1>1, TSameTerms, Zenon
  <2>2. (IF T!HasInput(c) THEN 0 ELSE T!Older(client[c].empty, T!Longest + 1))
          = (IF TP!T!HasInput(c) THEN 0 ELSE TP!T!Older(client[c].empty, TP!T!Longest + 1))
    BY <1>1, TSameTerms, TSameOfClient, Zenon
  <2>3. (IF T!client_response_stream_size(c) > 0 THEN T!Older(client[c].pending, T!Longest + 1) ELSE 0)
          = (IF TP!T!client_response_stream_size(c) > 0 THEN TP!T!Older(client[c].pending, TP!T!Longest + 1) ELSE 0)
    <3>1. T!client_response_stream_size(c) = TP!T!client_response_stream_size(c)
      BY TSameOfClient, Zenon
    <3>2. T!Older(client[c].pending, T!Longest + 1) = TP!T!Older(client[c].pending, TP!T!Longest + 1)
      BY <1>1, TSameTerms, Zenon
    <3> QED
      BY <3>1, <3>2
  <2> QED
    BY <2>1, <2>2, <2>3, Zenon
<1>3. T!Tick => client' = [c \in One.Clients |-> here(c)]
  BY Zenon DEF T!Tick
<1>4. client' = [c \in One.Clients |-> there(c)] /\ T!Tick => TP!T!Tick
  BY <1>1, TSameTerms, Zenon DEF T!Tick, TP!T!Tick, T!control, TP!T!control
<1> HIDE DEF here, there
<1>5. [c \in One.Clients |-> here(c)] = [c \in One.Clients |-> there(c)]
  BY <1>2, Zenon
<1> QED
  BY <1>3, <1>4, <1>5, Zenon

LEMMA TSameVisits == T!Visits => TP!T!Visits
<1>1. T!NextVisit = TP!T!NextVisit /\ (T!MakesSenseToParse <=> TP!T!MakesSenseToParse)
      /\ (T!MakesSenseToSend <=> TP!T!MakesSenseToSend)
  BY TSameOfClient, Zenon DEF T!NextVisit, TP!T!NextVisit, T!MakesSenseToParse, TP!T!MakesSenseToParse,
     T!MakesSenseToSend, TP!T!MakesSenseToSend
<1>2. ASSUME NEW o PROVE T!Size(o) = TP!T!Size(o)
  BY Zenon DEF T!Size, TP!T!Size
<1>3. ASSUME NEW c, NEW s, T!VisitExpired(c, s) PROVE TP!T!VisitExpired(c, s)
  BY <1>1, <1>3, TSameOfClient, Zenon DEF T!VisitExpired, TP!T!VisitExpired, T!Close, TP!T!Close
<1>4. ASSUME NEW c, NEW blocked, T!Visit(c, blocked) PROVE TP!T!Visit(c, blocked)
  BY <1>4, TSameOfClient, Zenon DEF T!Visit, TP!T!Visit
<1>5. ASSUME NEW n, NEW part, T!Receive(n, part) PROVE TP!T!Receive(n, part)
  BY <1>5, TSameOfClient, Zenon DEF T!Receive, TP!T!Receive
<1>6. T!NotReceive => TP!T!NotReceive
  BY Zenon DEF T!NotReceive, TP!T!NotReceive
<1>7. ASSUME NEW r, T!Process(r) PROVE TP!T!Process(r)
  <2> DEFINE here == [client EXCEPT ![cur].whole = @ - 1, ![cur].age = T!Now(cur, "last_request_complete"),
                                    ![cur].output = Append(@, T!Size(@) + r)]
             there == [client EXCEPT ![cur].whole = @ - 1, ![cur].age = TP!T!Now(cur, "last_request_complete"),
                                     ![cur].output = Append(@, TP!T!Size(@) + r)]
  <2>1. here = there
    <3>1. T!Now(cur, "last_request_complete") = TP!T!Now(cur, "last_request_complete")
      BY TSameOfClient, Zenon
    <3> QED
      BY <1>2, <3>1
  <2>2. /\ pc = "process" /\ T!MakesSenseToParse /\ client' = here /\ pc' = "send"
        /\ owner' = IF T!client_response_stream_size(cur) = 0 THEN cur ELSE T!None
        /\ UNCHANGED <<todo, cur, saturated, remaining, waited>>
    BY <1>7, Zenon DEF T!Process
  <2>3. T!client_response_stream_size(cur) = TP!T!client_response_stream_size(cur)
    BY TSameOfClient, Zenon
  <2> HIDE DEF here
  <2> QED
    BY <1>1, <2>1, <2>2, <2>3, TSameTerms, Zenon DEF TP!T!Process
<1>8. T!NotProcess => TP!T!NotProcess
  BY <1>1, Zenon DEF T!NotProcess, TP!T!NotProcess
<1>9. ASSUME NEW k, T!Send(k) PROVE TP!T!Send(k)
  <2>1. ASSUME NEW o, NEW j PROVE T!Rest(o, j) = TP!T!Rest(o, j)
    <3>1. ASSUME NEW D PROVE T!Max(D) = TP!T!Max(D)
      BY Zenon DEF T!Max, TP!T!Max
    <3> QED
      BY <3>1, Zenon DEF T!Rest, TP!T!Rest
  <2> QED
    BY <1>1, <1>2, <1>9, <2>1, TSameTerms, TSameOfClient, Zenon DEF T!Send, TP!T!Send
<1>10. T!NotSend => TP!T!NotSend
  BY <1>1, Zenon DEF T!NotSend, TP!T!NotSend
<1>11. T!Leave => TP!T!Leave
  BY TSameOfClient, Zenon DEF T!Leave, TP!T!Leave
<1> QED
  BY <1>3, <1>4, <1>5, <1>6, <1>7, <1>8, <1>9, <1>10, <1>11, TSameTerms, TSameOfClient, Zenon
     DEF T!Visits, TP!T!Visits

LEMMA TSameNext == T!Next => TP!T!Next
<1>1. T!StartVisits => TP!T!StartVisits
  <2>1. T!NextVisit = TP!T!NextVisit
    BY Zenon DEF T!NextVisit, TP!T!NextVisit
  <2> QED
    BY <2>1, TSameTerms, Zenon DEF T!StartVisits, TP!T!StartVisits
<1> QED
  BY <1>1, TSameTick, TSameVisits, TSameTerms, Zenon
     DEF T!Next, TP!T!Next, T!PollEvent, TP!T!PollEvent, T!PollTimeout, TP!T!PollTimeout

LEMMA TSameProperties ==
  /\ TP!T!TypeOK => T!TypeOK
  /\ TP!T!WakesInTime /\ TP!T!EmptyClosedLate => T!WakesInTime /\ T!EmptyClosedLate
<1>1. TP!T!TypeOK => T!TypeOK
  BY TSameTerms, TSameOfClient, Zenon DEF T!TypeOK, TP!T!TypeOK
<1>2. TP!T!WakesInTime => T!WakesInTime
  BY TSameTerms, TSameOfClient, Zenon DEF T!WakesInTime, TP!T!WakesInTime
<1>3. TP!T!EmptyClosedLate => T!EmptyClosedLate
  BY Zenon DEF T!EmptyClosedLate, TP!T!EmptyClosedLate
<1> QED
  BY <1>1, <1>2, <1>3

LEMMA PSameTerms ==
  /\ P!None = PP!T!None /\ P!Limit = PP!T!Limit /\ P!Stamps = PP!T!Stamps /\ P!Longest = PP!T!Longest /\ P!Never = PP!T!Never
  /\ P!NewClient = PP!T!NewClient
<1>1. P!None = PP!T!None /\ P!Limit = PP!T!Limit
  BY Zenon DEF P!None, PP!T!None, P!Limit, PP!T!Limit
<1>2. P!Stamps = PP!T!Stamps
  BY <1>1, Zenon DEF P!Stamps, PP!T!Stamps
<1>3. ASSUME NEW D PROVE P!Max(D) = PP!T!Max(D)
  BY Zenon DEF P!Max, PP!T!Max
<1>4. P!Longest = PP!T!Longest
  BY <1>1, <1>2, <1>3, Zenon DEF P!Longest, PP!T!Longest
<1>5. P!Never = PP!T!Never
  BY <1>4, Zenon DEF P!Never, PP!T!Never
<1>6. P!NewClient = PP!T!NewClient
  BY <1>1, <1>2, Zenon DEF P!NewClient, PP!T!NewClient
<1> QED
  BY <1>1, <1>2, <1>4, <1>5, <1>6, Zenon

LEMMA PSameOfClient ==
  ASSUME NEW c
  PROVE  /\ P!client_response_stream_size(c) = PP!T!client_response_stream_size(c)
         /\ P!HasInput(c) <=> PP!T!HasInput(c)
         /\ P!Guarded(c) = PP!T!Guarded(c) /\ P!Expired(c) = PP!T!Expired(c) /\ P!Arm(c) = PP!T!Arm(c)
         /\ \A s : P!Now(c, s) = PP!T!Now(c, s)
<1>1. ASSUME NEW o PROVE P!Size(o) = PP!T!Size(o)
  BY Zenon DEF P!Size, PP!T!Size
<1>2. P!client_response_stream_size(c) = PP!T!client_response_stream_size(c)
  BY <1>1, Zenon DEF P!client_response_stream_size, PP!T!client_response_stream_size
<1>3. P!HasInput(c) <=> PP!T!HasInput(c)
  BY Zenon DEF P!HasInput, PP!T!HasInput
<1>4. P!Guarded(c) = PP!T!Guarded(c)
  BY <1>1, <1>2, <1>3, PSameTerms, Zenon DEF P!Guarded, PP!T!Guarded
<1>5. P!Expired(c) = PP!T!Expired(c)
  BY <1>4, PSameTerms, Zenon DEF P!Expired, PP!T!Expired
<1>6. ASSUME NEW D PROVE P!Min(D) = PP!T!Min(D)
  BY Zenon DEF P!Min, PP!T!Min
<1>7. P!Arm(c) = PP!T!Arm(c)
  BY <1>4, <1>6, PSameTerms, Zenon DEF P!Arm, PP!T!Arm
<1>8. ASSUME NEW s PROVE P!Now(c, s) = PP!T!Now(c, s)
  BY Zenon DEF P!Now, PP!T!Now
<1> QED
  BY <1>2, <1>3, <1>4, <1>5, <1>7, <1>8, Zenon

LEMMA PSameAssumption == P!TimeoutsAssumption => PP!T!TimeoutsAssumption
<1>1. ASSUME NEW D PROVE P!IsFiniteSet(D) <=> PP!T!IsFiniteSet(D)
  BY Zenon DEF P!IsFiniteSet, PP!T!IsFiniteSet
<1> QED
  BY <1>1, PSameTerms, Zenon DEF P!TimeoutsAssumption, PP!T!TimeoutsAssumption

LEMMA PSameInit == P!Init => PP!T!Init
  BY PSameTerms, Zenon DEF P!Init, PP!T!Init

LEMMA PSameVars == UNCHANGED P!vars => UNCHANGED PP!T!vars
  BY DEF P!vars, P!control, PP!T!vars, PP!T!control

LEMMA PSameTick == P!Tick => PP!T!Tick
<1>1. ASSUME NEW n, NEW most PROVE P!Older(n, most) = PP!T!Older(n, most)
  BY Zenon DEF P!Older, PP!T!Older
<1> DEFINE here(c) ==
             IF ~client[c].open THEN client[c] ELSE
             [client[c] EXCEPT
                !.age = [s \in P!Stamps |-> P!Older(@[s], P!Limit[s] + 1)],
                !.empty = IF P!HasInput(c) THEN 0 ELSE P!Older(@, P!Longest + 1),
                !.pending = IF P!client_response_stream_size(c) > 0 THEN P!Older(@, P!Longest + 1) ELSE 0]
           there(c) ==
             IF ~client[c].open THEN client[c] ELSE
             [client[c] EXCEPT
                !.age = [s \in PP!T!Stamps |-> PP!T!Older(@[s], PP!T!Limit[s] + 1)],
                !.empty = IF PP!T!HasInput(c) THEN 0 ELSE PP!T!Older(@, PP!T!Longest + 1),
                !.pending = IF PP!T!client_response_stream_size(c) > 0 THEN PP!T!Older(@, PP!T!Longest + 1) ELSE 0]
<1>2. ASSUME NEW c PROVE here(c) = there(c)
  <2>1. [s \in P!Stamps |-> P!Older(client[c].age[s], P!Limit[s] + 1)]
          = [s \in PP!T!Stamps |-> PP!T!Older(client[c].age[s], PP!T!Limit[s] + 1)]
    BY <1>1, PSameTerms, Zenon
  <2>2. (IF P!HasInput(c) THEN 0 ELSE P!Older(client[c].empty, P!Longest + 1))
          = (IF PP!T!HasInput(c) THEN 0 ELSE PP!T!Older(client[c].empty, PP!T!Longest + 1))
    BY <1>1, PSameTerms, PSameOfClient, Zenon
  <2>3. (IF P!client_response_stream_size(c) > 0 THEN P!Older(client[c].pending, P!Longest + 1) ELSE 0)
          = (IF PP!T!client_response_stream_size(c) > 0 THEN PP!T!Older(client[c].pending, PP!T!Longest + 1) ELSE 0)
    <3>1. P!client_response_stream_size(c) = PP!T!client_response_stream_size(c)
      BY PSameOfClient, Zenon
    <3>2. P!Older(client[c].pending, P!Longest + 1) = PP!T!Older(client[c].pending, PP!T!Longest + 1)
      BY <1>1, PSameTerms, Zenon
    <3> QED
      BY <3>1, <3>2
  <2> QED
    BY <2>1, <2>2, <2>3, Zenon
<1>3. P!Tick => client' = [c \in Other.Clients |-> here(c)]
  BY Zenon DEF P!Tick
<1>4. client' = [c \in Other.Clients |-> there(c)] /\ P!Tick => PP!T!Tick
  BY <1>1, PSameTerms, Zenon DEF P!Tick, PP!T!Tick, P!control, PP!T!control
<1> HIDE DEF here, there
<1>5. [c \in Other.Clients |-> here(c)] = [c \in Other.Clients |-> there(c)]
  BY <1>2, Zenon
<1> QED
  BY <1>3, <1>4, <1>5, Zenon

LEMMA PSameVisits == P!Visits => PP!T!Visits
<1>1. P!NextVisit = PP!T!NextVisit /\ (P!MakesSenseToParse <=> PP!T!MakesSenseToParse)
      /\ (P!MakesSenseToSend <=> PP!T!MakesSenseToSend)
  BY PSameOfClient, Zenon DEF P!NextVisit, PP!T!NextVisit, P!MakesSenseToParse, PP!T!MakesSenseToParse,
     P!MakesSenseToSend, PP!T!MakesSenseToSend
<1>2. ASSUME NEW o PROVE P!Size(o) = PP!T!Size(o)
  BY Zenon DEF P!Size, PP!T!Size
<1>3. ASSUME NEW c, NEW s, P!VisitExpired(c, s) PROVE PP!T!VisitExpired(c, s)
  BY <1>1, <1>3, PSameOfClient, Zenon DEF P!VisitExpired, PP!T!VisitExpired, P!Close, PP!T!Close
<1>4. ASSUME NEW c, NEW blocked, P!Visit(c, blocked) PROVE PP!T!Visit(c, blocked)
  BY <1>4, PSameOfClient, Zenon DEF P!Visit, PP!T!Visit
<1>5. ASSUME NEW n, NEW part, P!Receive(n, part) PROVE PP!T!Receive(n, part)
  BY <1>5, PSameOfClient, Zenon DEF P!Receive, PP!T!Receive
<1>6. P!NotReceive => PP!T!NotReceive
  BY Zenon DEF P!NotReceive, PP!T!NotReceive
<1>7. ASSUME NEW r, P!Process(r) PROVE PP!T!Process(r)
  <2> DEFINE here == [client EXCEPT ![cur].whole = @ - 1, ![cur].age = P!Now(cur, "last_request_complete"),
                                    ![cur].output = Append(@, P!Size(@) + r)]
             there == [client EXCEPT ![cur].whole = @ - 1, ![cur].age = PP!T!Now(cur, "last_request_complete"),
                                     ![cur].output = Append(@, PP!T!Size(@) + r)]
  <2>1. here = there
    <3>1. P!Now(cur, "last_request_complete") = PP!T!Now(cur, "last_request_complete")
      BY PSameOfClient, Zenon
    <3> QED
      BY <1>2, <3>1
  <2>2. /\ pc = "process" /\ P!MakesSenseToParse /\ client' = here /\ pc' = "send"
        /\ owner' = IF P!client_response_stream_size(cur) = 0 THEN cur ELSE P!None
        /\ UNCHANGED <<todo, cur, saturated, remaining, waited>>
    BY <1>7, Zenon DEF P!Process
  <2>3. P!client_response_stream_size(cur) = PP!T!client_response_stream_size(cur)
    BY PSameOfClient, Zenon
  <2> HIDE DEF here
  <2> QED
    BY <1>1, <2>1, <2>2, <2>3, PSameTerms, Zenon DEF PP!T!Process
<1>8. P!NotProcess => PP!T!NotProcess
  BY <1>1, Zenon DEF P!NotProcess, PP!T!NotProcess
<1>9. ASSUME NEW k, P!Send(k) PROVE PP!T!Send(k)
  <2>1. ASSUME NEW o, NEW j PROVE P!Rest(o, j) = PP!T!Rest(o, j)
    <3>1. ASSUME NEW D PROVE P!Max(D) = PP!T!Max(D)
      BY Zenon DEF P!Max, PP!T!Max
    <3> QED
      BY <3>1, Zenon DEF P!Rest, PP!T!Rest
  <2> QED
    BY <1>1, <1>2, <1>9, <2>1, PSameTerms, PSameOfClient, Zenon DEF P!Send, PP!T!Send
<1>10. P!NotSend => PP!T!NotSend
  BY <1>1, Zenon DEF P!NotSend, PP!T!NotSend
<1>11. P!Leave => PP!T!Leave
  BY PSameOfClient, Zenon DEF P!Leave, PP!T!Leave
<1> QED
  BY <1>3, <1>4, <1>5, <1>6, <1>7, <1>8, <1>9, <1>10, <1>11, PSameTerms, PSameOfClient, Zenon
     DEF P!Visits, PP!T!Visits

LEMMA PSameNext == P!Next => PP!T!Next
<1>1. P!StartVisits => PP!T!StartVisits
  <2>1. P!NextVisit = PP!T!NextVisit
    BY Zenon DEF P!NextVisit, PP!T!NextVisit
  <2> QED
    BY <2>1, PSameTerms, Zenon DEF P!StartVisits, PP!T!StartVisits
<1> QED
  BY <1>1, PSameTick, PSameVisits, PSameTerms, Zenon
     DEF P!Next, PP!T!Next, P!PollEvent, PP!T!PollEvent, P!PollTimeout, PP!T!PollTimeout

LEMMA PSameProperties ==
  /\ PP!T!TypeOK => P!TypeOK
  /\ PP!T!WakesInTime /\ PP!T!EmptyClosedLate => P!WakesInTime /\ P!EmptyClosedLate
<1>1. PP!T!TypeOK => P!TypeOK
  BY PSameTerms, PSameOfClient, Zenon DEF P!TypeOK, PP!T!TypeOK
<1>2. PP!T!WakesInTime => P!WakesInTime
  BY PSameTerms, PSameOfClient, Zenon DEF P!WakesInTime, PP!T!WakesInTime
<1>3. PP!T!EmptyClosedLate => P!EmptyClosedLate
  BY Zenon DEF P!EmptyClosedLate, PP!T!EmptyClosedLate
<1> QED
  BY <1>1, <1>2, <1>3

-----------------------------------------------------------------------------
(* Each behaviour keeps the invariant of the component that it is of.      *)

ProcessInv ==
  \/ machine = "shuffle" /\ SInv
  \/ machine = "listening" /\ LInv
  \/ machine = "accepting" /\ AInv
  \/ machine = "clock" /\ TP!ClockInv /\ TP!Overdue
  \/ machine = "clocks" /\ PP!ClockInv /\ PP!Overdue
  \/ machine = "errors" /\ EInv
  \/ machine = "output" /\ OInv

LEMMA Assumptions ==
  /\ L!ListeningAssumption /\ A!AcceptingAssumption /\ E!ErrorsAssumption /\ OutputAssumption
  /\ TP!T!TimeoutsAssumption /\ PP!T!TimeoutsAssumption
  BY ProcessAssumption, TSameAssumption, PSameAssumption, Zenon

LEMMA ProcessInitInv == ProcessInit => ProcessInv
<1>1. CASE machine = "shuffle" /\ S!Init
  BY <1>1, ShuffleInit, Zenon DEF ProcessInv
<1>2. CASE machine = "listening" /\ L!Init
  BY <1>2, Assumptions, ListeningInit, Zenon DEF ProcessInv
<1>3. CASE machine = "accepting" /\ A!Init
  BY <1>3, Assumptions, AcceptingInit, Zenon DEF ProcessInv
<1>4. CASE machine = "clock" /\ T!Init
  <2>1. TP!ClockInv /\ TP!Overdue
    BY <1>4, Assumptions, TSameInit, TP!ClockInit, TP!OverdueInit, Zenon
  <2> QED
    BY <1>4, <2>1, Zenon DEF ProcessInv
<1>5. CASE machine = "clocks" /\ P!Init
  <2>1. PP!ClockInv /\ PP!Overdue
    BY <1>5, Assumptions, PSameInit, PP!ClockInit, PP!OverdueInit, Zenon
  <2> QED
    BY <1>5, <2>1, Zenon DEF ProcessInv
<1>6. CASE machine = "errors" /\ E!Init
  BY <1>6, Assumptions, ErrorsInit, Zenon DEF ProcessInv
<1>7. CASE machine = "output" /\ Init
  BY <1>7, Assumptions, InitOInv, Zenon DEF ProcessInv
<1> QED
  BY <1>1, <1>2, <1>3, <1>4, <1>5, <1>6, <1>7, Zenon DEF ProcessInit

\* A step of one component is none of the others'.
LEMMA OneMachine ==
  ASSUME ProcessInv
  PROVE  /\ machine = "shuffle" => SInv
         /\ machine = "listening" => LInv
         /\ machine = "accepting" => AInv
         /\ machine = "clock" => TP!ClockInv /\ TP!Overdue
         /\ machine = "clocks" => PP!ClockInv /\ PP!Overdue
         /\ machine = "errors" => EInv
         /\ machine = "output" => OInv
  BY Zenon DEF ProcessInv

LEMMA ProcessStutters == ASSUME ProcessInv, UNCHANGED processVars PROVE ProcessInv'
<1>1. /\ machine' = machine
      /\ UNCHANGED S!vars /\ UNCHANGED L!vars /\ UNCHANGED A!vars /\ UNCHANGED T!vars
      /\ UNCHANGED P!vars /\ UNCHANGED E!vars /\ UNCHANGED vars
  <2>1. /\ machine' = machine /\ pc' = pc /\ polls' = polls /\ cur' = cur /\ client' = client
        /\ UNCHANGED ofShuffle /\ UNCHANGED ofListening /\ UNCHANGED ofAccepting
        /\ UNCHANGED ofTimeouts /\ UNCHANGED ofErrors /\ UNCHANGED ofOutput
    BY DEF processVars
  <2>2. UNCHANGED S!vars
    BY <2>1 DEF ofShuffle, S!vars
  <2>3. UNCHANGED L!vars
    BY <2>1 DEF ofListening, L!vars
  <2>4. UNCHANGED A!vars
    BY <2>1 DEF ofAccepting, A!vars
  <2>5. UNCHANGED T!vars
    BY <2>1 DEF ofTimeouts, T!vars, T!control
  <2>6. UNCHANGED P!vars
    BY <2>1 DEF ofTimeouts, P!vars, P!control
  <2>7. UNCHANGED E!vars
    BY <2>1 DEF ofErrors, E!vars
  <2>8. UNCHANGED vars
    BY <2>1 DEF ofOutput, vars
  <2> QED
    BY <2>1, <2>2, <2>3, <2>4, <2>5, <2>6, <2>7, <2>8
<1>2. CASE machine = "shuffle"
  BY <1>1, <1>2, OneMachine, ShuffleNext, Zenon DEF ProcessInv
<1>3. CASE machine = "listening"
  BY <1>1, <1>3, OneMachine, Assumptions, ListeningNext, Zenon DEF ProcessInv
<1>4. CASE machine = "accepting"
  BY <1>1, <1>4, OneMachine, Assumptions, AcceptingNext, Zenon DEF ProcessInv
<1>5. CASE machine = "clock"
  BY <1>1, <1>5, OneMachine, TSameVars, TP!ClockStutters, TP!OverdueStutters, Zenon DEF ProcessInv
<1>6. CASE machine = "clocks"
  BY <1>1, <1>6, OneMachine, PSameVars, PP!ClockStutters, PP!OverdueStutters, Zenon DEF ProcessInv
<1>7. CASE machine = "errors"
  BY <1>1, <1>7, OneMachine, Assumptions, ErrorsNext, Zenon DEF ProcessInv
<1>8. CASE machine = "output"
  BY <1>1, <1>8, OneMachine, Assumptions, StepOInv, Zenon DEF ProcessInv
<1> QED
  BY <1>2, <1>3, <1>4, <1>5, <1>6, <1>7, <1>8, Zenon DEF ProcessInv

LEMMA ProcessNextInv == ASSUME ProcessInv, ProcessNext PROVE ProcessInv'
<1>1. CASE Cycle
  <2>1. machine = "shuffle" /\ machine' = machine /\ S!Next
    BY <1>1, Zenon DEF Cycle, Only
  <2> QED
    BY <2>1, OneMachine, ShuffleNext, Zenon DEF ProcessInv
<1>2. CASE Listen
  <2>1. machine = "listening" /\ machine' = machine /\ L!Next
    BY <1>2, Zenon DEF Listen, Only
  <2> QED
    BY <2>1, OneMachine, Assumptions, ListeningNext, Zenon DEF ProcessInv
<1>3. CASE Accept
  <2>1. machine = "accepting" /\ machine' = machine /\ A!Next
    BY <1>3, Zenon DEF Accept, Only
  <2> QED
    BY <2>1, OneMachine, Assumptions, AcceptingNext, Zenon DEF ProcessInv
<1>4. CASE Clock
  <2>1. machine = "clock" /\ machine' = machine /\ T!Next
    BY <1>4, Zenon DEF Clock, Timed, Only
  <2>2. TP!ClockInv' /\ TP!Overdue'
    BY <2>1, OneMachine, Assumptions, TSameNext, TP!ClockNext, TP!OverdueNext, Zenon
  <2> QED
    BY <2>1, <2>2, Zenon DEF ProcessInv
<1>5. CASE Clocks
  <2>1. machine = "clocks" /\ machine' = machine /\ P!Next
    BY <1>5, Zenon DEF Clocks, Timed, Only
  <2>2. PP!ClockInv' /\ PP!Overdue'
    BY <2>1, OneMachine, Assumptions, PSameNext, PP!ClockNext, PP!OverdueNext, Zenon
  <2> QED
    BY <2>1, <2>2, Zenon DEF ProcessInv
<1>6. CASE Raise
  <2>1. machine = "errors" /\ machine' = machine /\ E!Next
    BY <1>6, Zenon DEF Raise, Only
  <2> QED
    BY <2>1, OneMachine, Assumptions, ErrorsNext, Zenon DEF ProcessInv
<1>7. CASE Write
  <2>1. machine = "output" /\ machine' = machine /\ Next
    BY <1>7, Zenon DEF Write, Only
  <2> QED
    BY <2>1, OneMachine, Assumptions, StepOInv, Zenon DEF ProcessInv
<1>8. CASE Rest
  BY <1>8, ProcessStutters DEF Rest
<1> QED
  BY <1>1, <1>2, <1>3, <1>4, <1>5, <1>6, <1>7, <1>8, Zenon DEF ProcessNext

LEMMA ProcessInvariant == ProcessSpec => []ProcessInv
<1>1. ProcessInv /\ [ProcessNext]_processVars => ProcessInv'
  BY ProcessNextInv, ProcessStutters
<1> QED
  BY <1>1, ProcessInitInv, PTL DEF ProcessSpec

-----------------------------------------------------------------------------
(* The theorems about Process.                                             *)

(* Whatever a component does, its state is what the C declarations allow:  *)
(* clients_shuffle stays in its array, server_create_socket_pair behind no *)
(* mode but the last, client_finalize frees nothing twice.                 *)
THEOREM ProcessTypesOK == ProcessSpec => []TypesOK
<1>1. ProcessInv => TypesOK
  <2> SUFFICES ASSUME ProcessInv PROVE TypesOK
    OBVIOUS
  <2>1. CASE machine = "shuffle"
    <3>1. TypesOK = S!TypeOK
      BY <2>1 DEF TypesOK
    <3> QED
      BY <2>1, <3>1, OneMachine, ShuffleTypeOKHolds, Zenon
  <2>2. CASE machine = "listening"
    <3>1. TypesOK = L!TypeOK
      BY <2>2 DEF TypesOK
    <3> QED
      BY <2>2, <3>1, OneMachine, Assumptions, ListeningTypeOKHolds, Zenon
  <2>3. CASE machine = "accepting"
    <3>1. TypesOK = A!TypeOK
      BY <2>3 DEF TypesOK
    <3> QED
      BY <2>3, <3>1, OneMachine, Assumptions, AcceptingTypeOKHolds, Zenon
  <2>4. CASE machine = "clock"
    <3>1. TypesOK = T!TypeOK
      BY <2>4 DEF TypesOK
    <3> QED
      BY <2>4, <3>1, OneMachine, Assumptions, TP!ClockInvImpliesTypeOK, TSameProperties, Zenon
  <2>5. CASE machine = "clocks"
    <3>1. TypesOK = P!TypeOK
      BY <2>5 DEF TypesOK
    <3> QED
      BY <2>5, <3>1, OneMachine, Assumptions, PP!ClockInvImpliesTypeOK, PSameProperties, Zenon
  <2>6. CASE machine = "errors"
    <3>1. TypesOK = E!TypeOK
      BY <2>6 DEF TypesOK
    <3> QED
      BY <2>6, <3>1, OneMachine, Assumptions, ErrorsTypeOKHolds, Zenon
  <2>7. CASE machine = "output"
    <3>1. TypesOK = TypeOK
      BY <2>7 DEF TypesOK
    <3> QED
      BY <2>7, <3>1, OneMachine, Assumptions, OutputTypeOKHolds, Zenon
  <2> QED
    BY <2>1, <2>2, <2>3, <2>4, <2>5, <2>6, <2>7, Zenon DEF ProcessInv
<1> QED
  BY <1>1, ProcessInvariant, PTL

(* server_process_clients visits every client of the cycle exactly once.   *)
THEOREM ProcessEveryOnce == ProcessSpec => []EveryOnce
<1>1. ProcessInv => EveryOnce
  BY OneMachine, ShuffleEveryOnceHolds, Zenon DEF EveryOnce
<1> QED
  BY <1>1, ProcessInvariant, PTL

(* random_rand gives every client that waits for its turn the next one by  *)
(* equally many of the numbers of rand(), whatever RAND_MAX is.            *)
THEOREM ProcessUnbiased == ProcessSpec => []Unbiased
<1>1. ProcessInv => Unbiased
  BY OneMachine, ShuffleUnbiasedHolds, Zenon DEF Unbiased
<1> QED
  BY <1>1, ProcessInvariant, PTL

(* server_create_socket_pair serves a port in the best way the host allows, *)
(* at the places from which the protocol is told, and closes what it opens *)
(* once.                                                                   *)
THEOREM ProcessSocketsInPlace == ProcessSpec => []SocketsInPlace
<1>1. ProcessInv => SocketsInPlace
  BY OneMachine, Assumptions, ListeningPairsInPlaceHolds, ListeningBestModeHolds, ListeningClosedOnceHolds, Zenon
     DEF SocketsInPlace
<1> QED
  BY <1>1, ProcessInvariant, PTL

(* Whichever call of server_accept_connection fails, what is held belongs  *)
(* to a listed client or to a refused connection, and clients and polls    *)
(* stay parallel.                                                          *)
THEOREM ProcessNothingLeaked == ProcessSpec => []NothingLeaked
<1>1. ProcessInv => NothingLeaked
  BY OneMachine, Assumptions, AcceptingNothingLeakedHolds, AcceptingParallelHolds, Zenon DEF NothingLeaked
<1> QED
  BY <1>1, ProcessInvariant, PTL

(* poll() never sleeps past the limit of an open client, except when the   *)
(* limit of some client was over at the end of its visit: check_timeouts   *)
(* then leaves a negative time, and poll() waits for an event.  A client   *)
(* is closed for an empty input too early by at most MaxWaiting - 1 times  *)
(* MAX_FULL_RESPONSE_STREAM_TIME, the time for which its last requests may *)
(* have waited for room in the output while nothing was read.              *)
THEOREM ProcessTimeoutsInTime == ProcessSpec => []TimeoutsInTime
<1>1. ASSUME ProcessInv, machine = "clock" PROVE T!WakesInTime /\ T!EmptyClosedLate
  BY <1>1, OneMachine, Assumptions, TP!ClockInvImpliesInTime, TSameProperties, Zenon
<1>2. ASSUME ProcessInv, machine = "clocks" PROVE P!WakesInTime /\ P!EmptyClosedLate
  BY <1>2, OneMachine, Assumptions, PP!ClockInvImpliesInTime, PSameProperties, Zenon
<1>3. ProcessInv => TimeoutsInTime
  BY <1>1, <1>2, Zenon DEF TimeoutsInTime
<1> QED
  BY <1>3, ProcessInvariant, PTL

(* An error keeps its first message, its list is freed, and what it raised *)
(* is done, however many functions it passes and whatever fails meanwhile. *)
THEOREM ProcessErrorsHandled == ProcessSpec => []ErrorsHandled
<1>1. ProcessInv => ErrorsHandled
  BY OneMachine, Assumptions, ErrorsCauseKeptHolds, ErrorsAllFreedHolds, ErrorsNeverIgnoredHolds, Zenon
     DEF ErrorsHandled
<1> QED
  BY <1>1, ProcessInvariant, PTL

(* g_logs_total_size is the sum of the listed sizes, the list keeps its    *)
(* limits, the open file is its last, and no readable log is left out.     *)
THEOREM ProcessLogsKept == ProcessSpec => []LogsKept
<1>1. ProcessInv => LogsKept
  BY OneMachine, Assumptions, OutputTotalIsSumHolds, OutputWithinLimitsHolds, OutputOpenIsLastHolds,
     OutputNothingOrphanedHolds, Zenon DEF LogsKept
<1> QED
  BY <1>1, ProcessInvariant, PTL
=============================================================================
