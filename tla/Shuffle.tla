------------------------------ MODULE Shuffle -------------------------------
(***************************************************************************)
(* The order in which a cycle visits its clients: clients_shuffle          *)
(* (source/client.c) draws it with random_rand (source/random.c), which    *)
(* rejects the numbers that would favour some outcomes, and                *)
(* server_process_clients (source/server/high_level.c) follows it.         *)
(*                                                                         *)
(* Places of the array are counted from 0, as in the code.                 *)
(***************************************************************************)
EXTENDS Integers, FiniteSets

CONSTANTS
  RAND_MAX,          \* of rand(), which returns any number up to it
  MaxClients         \* bound: the clients

VARIABLES
  size,              \* of the array
  shuffle_index,     \* by place
  i,                 \* the counter of the loop at hand
  pc,
  visits             \* history: how often each place was visited

vars == <<size, shuffle_index, i, pc, visits>>

\* RAND_MAX + 1 is a power of two, as random_rand makes sure at compile time.
ShuffleAssumption ==
  /\ RAND_MAX \in Nat /\ \E k \in 0 .. RAND_MAX : RAND_MAX + 1 = 2 ^ k
  /\ MaxClients \in 1 .. RAND_MAX + 1

Places == 0 .. size - 1

Init ==
  /\ size = 0 /\ shuffle_index = [p \in {} |-> 0] /\ i = 0
  /\ pc = "poll" /\ visits = [p \in {} |-> 0]

-----------------------------------------------------------------------------
(* random_rand.  Both of its loops step by max_bits: one call of rand(), or *)
(* none for a single outcome, is enough for as many outcomes as there are   *)
(* places here.                                                             *)

MaxBuffer(outcome_number) == IF outcome_number = 1 THEN 0 ELSE RAND_MAX

RejectNumber(outcome_number) ==
  LET rest == (MaxBuffer(outcome_number) % outcome_number) + 1
  IN IF rest = outcome_number THEN 0 ELSE rest

Accepts(buffer, outcome_number) ==
  buffer <= MaxBuffer(outcome_number) - RejectNumber(outcome_number)

\* One without rejection.
Draws_all(outcome_number, outcome) ==
  {buffer \in 0 .. MaxBuffer(outcome_number) : buffer % outcome_number = outcome}
\* The numbers of rand() that give an outcome.
Draws(outcome_number, outcome) ==
  {buffer \in 0 .. MaxBuffer(outcome_number) :
     Accepts(buffer, outcome_number) /\ buffer % outcome_number = outcome}

-----------------------------------------------------------------------------
\* One that begins behind the array.
FirstStep_behind(n) == n
FirstStep(n) == IF n = 0 THEN 0 ELSE n - 1

\* Clients came and went; the shuffle begins.
poll ==
  /\ pc = "poll"
  /\ size' \in 0 .. MaxClients
  /\ shuffle_index' = [p \in 0 .. size' - 1 |-> p]
  /\ visits' = [p \in 0 .. size' - 1 |-> 0]
  /\ i' = FirstStep(size')
  /\ pc' = IF size' <= 1 THEN "visit" ELSE "shuffle"

Swapped(a, b) == [shuffle_index EXCEPT ![a] = shuffle_index[b], ![b] = shuffle_index[a]]

OutcomeNumber == i + 1

\* A rejected number of rand() changes nothing: another one is drawn.
clients_shuffle ==
  /\ pc = "shuffle"
  /\ \E j \in 0 .. OutcomeNumber - 1 : Draws(OutcomeNumber, j) # {} /\ shuffle_index' = Swapped(i, j)
  /\ i' = i - 1
  /\ pc' = IF i = 1 THEN "visit" ELSE "shuffle"
  /\ UNCHANGED <<size, visits>>

\* One that forgets the last.
Finished_early == i + 1 >= size
Finished == i = size

\* The loop over the clients, from the first place on.
server_process_clients ==
  /\ pc = "visit"
  /\ IF Finished THEN pc' = "poll" /\ UNCHANGED <<i, visits>>
     ELSE visits' = [visits EXCEPT ![shuffle_index[i]] = @ + 1] /\ i' = i + 1 /\ pc' = "visit"
  /\ UNCHANGED <<size, shuffle_index>>

Next == poll \/ clients_shuffle \/ server_process_clients

Spec == Init /\ [][Next]_vars

-----------------------------------------------------------------------------
\* The state is what the C declarations allow.
TypeOK ==
  /\ size \in 0 .. MaxClients /\ i \in 0 .. size /\ pc \in {"poll", "shuffle", "visit"}
  /\ shuffle_index \in [Places -> Places] /\ (pc = "shuffle" => i \in Places)
  /\ visits \in [Places -> 0 .. MaxClients]

\* When a cycle ends every client was visited, and none was twice.
EveryOnce == pc = "poll" => \A p \in Places : visits[p] = 1

\* At each step of the shuffle, every client that has no turn yet gets this one
\* by equally many of the numbers that rand() returns: all orders are equally
\* likely, and none is impossible.
Unbiased ==
  pc = "shuffle" =>
    LET waiting == Places \ {shuffle_index[p] : p \in i + 1 .. size - 1}
        Chances(c) == UNION {Draws(OutcomeNumber, j) : j \in {k \in 0 .. OutcomeNumber - 1 : shuffle_index[k] = c}}
    IN \A c, d \in waiting :
         Chances(c) # {} /\ Cardinality(Chances(c)) = Cardinality(Chances(d))
=============================================================================
