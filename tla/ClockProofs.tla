----------------------------- MODULE ClockProofs ------------------------------
(***************************************************************************)
(* Proofs about what the event loop does with time.                        *)
(*                                                                         *)
(* Guppy, for every number of peers, clients, chunks and repetitions, and  *)
(* for every loss, delay and repetition of datagrams: a page is served     *)
(* when it has arrived and given up late.                                  *)
(*                                                                         *)
(* Timeouts, for every number of clients, every limit and every traffic:   *)
(* the server wakes in time and closes no client for an empty input too    *)
(* early.  Its clients are here the values of clock.                       *)
(***************************************************************************)
EXTENDS Guppy, NumberInduction, FiniteSetTheorems, FunctionTheorems, SequenceTheorems

CONSTANTS
  Clients, MAX_INCOMPLETE_REQUEST_TIME, MAX_EMPTY_REQUEST_STREAM_TIME,
  MAX_FULL_RESPONSE_STREAM_TIME, MAX_INCOMPLETE_RESPONSE_TIME, MAX_RESPONSE_STREAM_SIZE,
  MaxResponse, MaxWaiting

VARIABLES clock, remaining, waited

T == INSTANCE Timeouts WITH client <- clock

------------------------------------------------------------------------------
(* The inductive invariant.                                                *)

Client == [transfer : Transfers, dead : BOOLEAN, rest : BOOLEAN, end : BOOLEAN, stream : BOOLEAN,
           chunks : Seq(Int), age : Int, since : Int]

Outcomes == {"new", "open", "served", "failed", "invalid", "timeout", "gave up"}

(* The variables have their types, and the array its limit. *)
Typed ==
  /\ clients \in Seq(Client) /\ Len(clients) <= MAX_CLIENTS
  /\ owner \in 0 .. MAX_CLIENTS /\ message_owner \in 0 .. MAX_CLIENTS
  /\ got \in [Transfers -> SUBSET Int] /\ outcome \in [Transfers -> Outcomes]
  /\ requests \in [Peers -> 0 .. MaxRequests]

VisitPcs == {"timeouts", "receive", "process", "send", "leave"}

(* The loop visits places of the array. *)
Visits ==
  /\ pc \in {"poll", "visit", "remove", "orphaned"} \cup VisitPcs
  /\ todo \subseteq DOMAIN clients
  /\ pc \in {"poll", "remove"} => todo = {}
  /\ pc \in VisitPcs => cur \in DOMAIN clients

(* The transfers of a peer that have begun are its first ones, and no more *)
(* than it has asked for.                                                  *)
Begun(m, p) == \A n \in 1 .. MaxRequests : outcome[<<p, n>>] # "new" <=> n <= m
Numbered == \A p \in Peers : \E m \in 0 .. requests[p] : Begun(m, p)

(* Each client has a transfer of its own. *)
Distinct ==
  /\ \A i \in DOMAIN clients : outcome[clients[i].transfer] # "new"
  /\ \A i, j \in DOMAIN clients : clients[i].transfer = clients[j].transfer => i = j

(* What is acknowledged has arrived, and only chunks of the page have: of  *)
(* the acknowledgements on their way, of the one that waits in the shared  *)
(* message and of those a client has noted.                                *)
Arrived ==
  /\ \A t \in Transfers : outcome[t] = "new" => got[t] = {}
  /\ \A a \in acks : a[1] \in Transfers /\ a[2] \in got[a[1]]
  /\ message_owner # 0 => message[2] \in acks \cup {Request}
  /\ \A i \in DOMAIN clients :
       /\ got[clients[i].transfer] \subseteq DOMAIN clients[i].chunks
       /\ \A k \in DOMAIN clients[i].chunks : clients[i].chunks[k] < 0 => k \in got[clients[i].transfer]
       /\ ~clients[i].end => clients[i].chunks = <<>>

(* A chunk that was sent s times was sent the first time s - 1 periods     *)
(* before the last time, and since then the age has passed.                *)
Late(c) ==
  /\ c.age \in 0 .. CHUNK_SEND_REPEAT_TIME /\ c.since \in 0 .. Cap
  /\ \A k \in DOMAIN c.chunks :
       /\ c.chunks[k] \in -1 .. CHUNK_SEND_REPEATS
       /\ c.chunks[k] >= 1 =>
            c.since = Cap \/ c.since >= (c.chunks[k] - 1) * CHUNK_SEND_REPEAT_TIME + c.age
Timed == \A i \in DOMAIN clients : Late(clients[i])

IInv == Typed /\ Visits /\ Numbered /\ Distinct /\ Arrived /\ Timed

(* The constants of the code are positive, those of the model natural. *)
LEMMA Constants ==
  ASSUME GuppyAssumption
  PROVE  /\ MAX_CLIENTS \in Nat \ {0} /\ CHUNK_SEND_REPEATS \in Nat \ {0}
         /\ CHUNK_SEND_SIMULTANEOUS \in Nat \ {0} /\ CHUNK_SEND_REPEAT_TIME \in Nat \ {0}
         /\ MaxRequests \in Nat /\ ChunkNumbers \subseteq Nat /\ Cap \in Nat
  <1>1. /\ MAX_CLIENTS \in Nat \ {0} /\ CHUNK_SEND_REPEATS \in Nat \ {0}
        /\ CHUNK_SEND_SIMULTANEOUS \in Nat \ {0} /\ CHUNK_SEND_REPEAT_TIME \in Nat \ {0}
        /\ MaxRequests \in Nat /\ ChunkNumbers \subseteq Nat
    BY DEF GuppyAssumption
  <1> QED BY <1>1 DEF Cap

(* The fields of a client. *)
LEMMA Fields ==
  ASSUME NEW c \in Client
  PROVE  /\ c.transfer \in Transfers /\ c.dead \in BOOLEAN /\ c.rest \in BOOLEAN
         /\ c.end \in BOOLEAN /\ c.stream \in BOOLEAN
         /\ c.chunks \in Seq(Int) /\ c.age \in Int /\ c.since \in Int
  BY DEF Client

LEMMA ClientType ==
  ASSUME GuppyAssumption, IInv, NEW i \in DOMAIN clients
  PROVE  clients[i] \in Client /\ i \in 1 .. Len(clients) /\ i \in 1 .. MAX_CLIENTS /\ Late(clients[i])
  <1>1. clients[i] \in Client /\ i \in 1 .. Len(clients) /\ Len(clients) \in Nat
    BY DEF IInv, Typed
  <1>2. i \in 1 .. MAX_CLIENTS
    BY <1>1, Constants DEF IInv, Typed
  <1> QED BY <1>1, <1>2 DEF IInv, Timed

LEMMA IInvImpliesTypeOK ==
  ASSUME GuppyAssumption, IInv
  PROVE  TypeOK
  <1>1. \A i \in DOMAIN clients : clients[i].transfer \in Transfers
    BY ClientType, Fields
  <1> QED BY <1>1 DEF IInv, Typed, Visits, VisitPcs, Timed, Late, TypeOK

LEMMA InitInvariant ==
  ASSUME GuppyAssumption, Init
  PROVE  IInv
  <1>1. Typed /\ Visits
    BY DEF GuppyAssumption, Init, Typed, Visits, VisitPcs, Transfers, Outcomes
  <1>2. Numbered
    <2> SUFFICES ASSUME NEW p \in Peers PROVE \E m \in 0 .. requests[p] : Begun(m, p)
      BY DEF Numbered
    <2>1. Begun(0, p)
      BY DEF GuppyAssumption, Init, Begun, Transfers
    <2>2. 0 \in 0 .. requests[p]
      BY DEF Init
    <2> QED BY <2>1, <2>2
  <1>3. Distinct /\ Arrived /\ Timed
    BY DEF Init, Distinct, Arrived, Timed
  <1> QED BY <1>1, <1>2, <1>3 DEF IInv

------------------------------------------------------------------------------
(* Steps that keep the clients and their transfers. *)
LEMMA KeptTransfers ==
  ASSUME GuppyAssumption, IInv, Typed', Visits', Arrived', Timed',
         DOMAIN clients' = DOMAIN clients,
         \A i \in DOMAIN clients : clients'[i].transfer = clients[i].transfer,
         \A t \in Transfers : outcome'[t] = "new" <=> outcome[t] = "new",
         \A p \in Peers : requests'[p] >= requests[p]
  PROVE  IInv'
  <1>0. \A i \in DOMAIN clients : clients[i].transfer \in Transfers
    BY ClientType, Fields
  <1>1. Numbered'
    <2> SUFFICES ASSUME NEW p \in Peers PROVE \E m \in 0 .. requests'[p] : Begun(m, p)'
      BY DEF Numbered
    <2>1. PICK m \in 0 .. requests[p] : Begun(m, p)
      BY DEF IInv, Numbered
    <2>2. m \in 0 .. requests'[p]
      BY DEF IInv, Typed
    <2>3. \A n \in 1 .. MaxRequests : <<p, n>> \in Transfers
      BY DEF Transfers
    <2>4. Begun(m, p)'
      BY <2>1, <2>3 DEF Begun
    <2> QED BY <2>2, <2>4
  <1>2. Distinct'
    BY <1>0 DEF IInv, Distinct
  <1> QED BY <1>1, <1>2 DEF IInv

(* Steps that change the place in the code only. *)
LEMMA ControlStep ==
  ASSUME GuppyAssumption, IInv, Visits', UNCHANGED <<clients, message, message_owner, owner, network, outcome, bounds>>
  PROVE  IInv'
  <1>1. Typed' /\ Arrived' /\ Timed'
    BY DEF IInv, Typed, Arrived, Timed, network, bounds
  <1> QED BY <1>1, KeptTransfers DEF network, bounds, IInv, Typed

(* Of two numbers, the smaller. *)
LEMMA MinOfTwo ==
  ASSUME NEW a \in Int, NEW b \in Int
  PROVE  Min({a, b}) = IF a <= b THEN a ELSE b
  BY DEF Min

(* Time passes: what it does to one client. *)
Aged(c, d) ==
  [c EXCEPT !.age = Min({@ + d, CHUNK_SEND_REPEAT_TIME}),
            !.since = IF \E k \in DOMAIN c.chunks : c.chunks[k] # 0 THEN Min({@ + d, Cap}) ELSE 0]

(* Two clients at the same place of the array and in their transfer. *)
Alike(c, e) == e.transfer = c.transfer /\ e.chunks = c.chunks /\ e.end = c.end

LEMMA OlderClient ==
  ASSUME GuppyAssumption, NEW c \in Client, Late(c), NEW d \in Seconds
  PROVE  Aged(c, d) \in Client /\ Late(Aged(c, d)) /\ Alike(c, Aged(c, d))
  <1>a. PICK age : age = Min({c.age + d, CHUNK_SEND_REPEAT_TIME})
    OBVIOUS
  <1>b. PICK since : since = IF \E k \in DOMAIN c.chunks : c.chunks[k] # 0 THEN Min({c.since + d, Cap}) ELSE 0
    OBVIOUS
  <1>c. PICK e : e = Aged(c, d)
    OBVIOUS
  <1>d. e = [c EXCEPT !.age = age, !.since = since]
    BY <1>a, <1>b, <1>c, Zenon DEF Aged
  <1>0. /\ d \in Nat /\ c.age \in Nat /\ c.since \in 0 .. Cap
        /\ Cap \in Nat /\ CHUNK_SEND_REPEAT_TIME \in Nat
    BY Constants DEF Late, Seconds
  <1>1. age \in 0 .. CHUNK_SEND_REPEAT_TIME /\ age <= c.age + d
    <2>1. age = IF c.age + d <= CHUNK_SEND_REPEAT_TIME THEN c.age + d ELSE CHUNK_SEND_REPEAT_TIME
      BY <1>a, <1>0, MinOfTwo
    <2> QED BY <1>0, <2>1
  <1>2. since \in 0 .. Cap
    <2>1. Min({c.since + d, Cap}) = IF c.since + d <= Cap THEN c.since + d ELSE Cap
      BY <1>0, MinOfTwo
    <2> QED BY <1>b, <1>0, <2>1
  <1>3. e \in Client
    <2>1. age \in Int /\ since \in Int
      BY <1>0, <1>1, <1>2
    <2> QED BY <1>d, <2>1 DEF Client
  <1>4. e.age = age /\ e.since = since /\ Alike(c, e)
    BY <1>d DEF Client, Alike
  <1>5. ASSUME NEW k \in DOMAIN c.chunks, c.chunks[k] >= 1
        PROVE  since = Cap \/ since >= (c.chunks[k] - 1) * CHUNK_SEND_REPEAT_TIME + age
    <2>1. since = Min({c.since + d, Cap})
      BY <1>b, <1>5, Fields
    <2>2. PICK least : least = (c.chunks[k] - 1) * CHUNK_SEND_REPEAT_TIME
      OBVIOUS
    <2>3. least \in Int /\ (c.since = Cap \/ c.since >= least + c.age) /\ c.since \in 0 .. Cap
      BY <1>0, <1>5, <2>2, Fields DEF Late
    <2>4. since = Cap \/ since = c.since + d
      BY <1>0, <2>1, MinOfTwo
    <2>5. since = Cap \/ since >= least + age
      BY <1>0, <1>1, <1>2, <2>3, <2>4
    <2> QED BY <2>2, <2>5
  <1>6. Late(e)
    BY <1>1, <1>2, <1>4, <1>5 DEF Late, Alike
  <1> QED BY <1>c, <1>3, <1>4, <1>6

(* Time passes: what it does to the clients. *)
LEMMA OlderClients ==
  ASSUME GuppyAssumption, IInv, NEW d \in Seconds
  PROVE  /\ Elapsed(d) \in Seq(Client) /\ DOMAIN Elapsed(d) = DOMAIN clients /\ Len(Elapsed(d)) = Len(clients)
         /\ \A i \in DOMAIN clients : Late(Elapsed(d)[i]) /\ Alike(clients[i], Elapsed(d)[i])
  <1>0. clients \in Seq(Client)
    BY DEF IInv, Typed
  <1>1. ASSUME NEW i \in DOMAIN clients
        PROVE  Elapsed(d)[i] \in Client /\ Late(Elapsed(d)[i]) /\ Alike(clients[i], Elapsed(d)[i])
    <2>1. Elapsed(d)[i] = Aged(clients[i], d)
      BY Zenon DEF Elapsed, Aged
    <2> QED BY <2>1, ClientType, OlderClient
  <1>2. DOMAIN Elapsed(d) = DOMAIN clients
    BY DEF Elapsed
  <1>3. Elapsed(d) = [i \in 1 .. Len(clients) |-> Elapsed(d)[i]]
    BY <1>0, <1>2 DEF Elapsed
  <1>4. Elapsed(d) \in Seq(Client) /\ Len(Elapsed(d)) = Len(clients)
    <2>1. \A i \in 1 .. Len(clients) : Elapsed(d)[i] \in Client
      BY <1>0, <1>1
    <2>2. PICK f : f = Elapsed(d)
      OBVIOUS
    <2>3. f \in [1 .. Len(clients) -> Client] /\ Len(clients) \in Nat
      BY <1>0, <1>3, <2>1, <2>2
    <2> QED BY <2>2, <2>3
  <1> QED BY <1>1, <1>2, <1>4

(* Steps after which the clients are in their transfers as before. *)
LEMMA AlikeStep ==
  ASSUME GuppyAssumption, IInv, Typed', Visits',
         DOMAIN clients' = DOMAIN clients,
         \A i \in DOMAIN clients : Late(clients'[i]) /\ Alike(clients[i], clients'[i]),
         UNCHANGED <<acks, got>>,
         \A t \in Transfers : outcome'[t] = "new" <=> outcome[t] = "new",
         \A p \in Peers : requests'[p] >= requests[p],
         message_owner' # 0 => message'[2] \in acks \cup {Request}
  PROVE  IInv'
  <1>1. Arrived'
    BY DEF IInv, Arrived, Alike
  <1>2. Timed'
    BY DEF Timed
  <1> QED BY <1>1, <1>2, KeptTransfers DEF Alike

LEMMA PollStep ==
  ASSUME GuppyAssumption, IInv, NEW d \in Seconds, Poll(d)
  PROVE  IInv'
  <1>1. /\ clients' = Elapsed(d) /\ todo' = DOMAIN clients /\ (pc' = IF clients = <<>> THEN "poll" ELSE "visit")
        /\ UNCHANGED <<message, message_owner, owner, acks, got, outcome, requests>>
    BY DEF Poll, network, bounds
  <1>2. /\ clients' \in Seq(Client) /\ DOMAIN clients' = DOMAIN clients /\ Len(clients') = Len(clients)
        /\ \A i \in DOMAIN clients : Late(clients'[i]) /\ Alike(clients[i], clients'[i])
    BY <1>1, OlderClients
  <1>3. Typed'
    BY <1>1, <1>2 DEF IInv, Typed
  <1>4. Visits'
    BY <1>1, <1>2 DEF Visits, VisitPcs
  <1>5. \A p \in Peers : requests'[p] >= requests[p]
    BY <1>1 DEF IInv, Typed
  <1>6. message_owner' # 0 => message'[2] \in acks \cup {Request}
    BY <1>1 DEF IInv, Arrived
  <1> QED BY <1>1, <1>2, <1>3, <1>4, <1>5, <1>6, AlikeStep

(* A new client: its number is the next one of its peer. *)
LEMMA NextTransfer ==
  ASSUME GuppyAssumption, IInv, NEW p \in Peers, requests[p] < MaxRequests,
         NEW m, m = Cardinality({n \in 1 .. MaxRequests : outcome[<<p, n>>] # "new"})
  PROVE  m \in 0 .. requests[p] /\ Begun(m, p) /\ <<p, m + 1>> \in Transfers /\ outcome[<<p, m + 1>>] = "new"
  <1>1. PICK k \in 0 .. requests[p] : Begun(k, p)
    BY DEF IInv, Numbered
  <1>2. requests[p] \in Nat /\ MaxRequests \in Nat /\ k \in 0 .. MaxRequests
    BY Constants DEF IInv, Typed
  <1>3. {n \in 1 .. MaxRequests : outcome[<<p, n>>] # "new"} = 1 .. k
    BY <1>1, <1>2 DEF Begun
  <1>4. m = k
    <2>1. Cardinality(1 .. k) = k
      BY <1>2, FS_Interval
    <2> QED BY <1>3, <2>1
  <1>5. m + 1 \in 1 .. MaxRequests /\ ~(m + 1 <= m)
    BY <1>1, <1>2, <1>4
  <1>6. <<p, m + 1>> \in Transfers
    BY <1>5 DEF Transfers
  <1>7. outcome[<<p, m + 1>>] = "new"
    BY <1>1, <1>4, <1>5 DEF Begun
  <1> QED BY <1>1, <1>4, <1>6, <1>7

(* The client of a peer that has one. *)
LEMMA KnownPlace ==
  ASSUME GuppyAssumption, IInv, NEW known \in SUBSET DOMAIN clients, known # {}
  PROVE  Min(known) \in known
  <1>1. known \in SUBSET Nat
    BY ClientType
  <1>2. \E x \in known : \A y \in known : x <= y
    BY <1>1, SmallestNumber
  <1> QED BY <1>2 DEF Min

(* A client is made for the next transfer of its peer. *)
LEMMA AcceptStep ==
  ASSUME GuppyAssumption, IInv, NEW p \in Peers, NEW d \in Seconds, NEW m, NEW t, t = <<p, m + 1>>,
         m = Cardinality({n \in 1 .. MaxRequests : outcome[<<p, n>>] # "new"}),
         requests[p] < MaxRequests, Len(clients) < MAX_CLIENTS,
         clients' = Append(Elapsed(d), NewClient(t)),
         message'[2] = Request, message_owner' = Len(clients'),
         outcome' = [outcome EXCEPT ![t] = "open"],
         requests' = [requests EXCEPT ![p] = @ + 1],
         todo' = DOMAIN clients', pc' = "visit", UNCHANGED <<owner, acks, got>>
  PROVE  IInv'
  <1>1. m \in 0 .. requests[p] /\ Begun(m, p) /\ t \in Transfers /\ outcome[t] = "new"
    BY NextTransfer
  <1>2. Len(clients) \in Nat /\ clients \in Seq(Client) /\ DOMAIN clients = 1 .. Len(clients)
    BY DEF IInv, Typed
  <1>3. /\ Elapsed(d) \in Seq(Client) /\ DOMAIN Elapsed(d) = DOMAIN clients /\ Len(Elapsed(d)) = Len(clients)
        /\ \A i \in DOMAIN clients : Late(Elapsed(d)[i]) /\ Alike(clients[i], Elapsed(d)[i])
    BY OlderClients
  <1>4. PICK new : new = NewClient(t)
    OBVIOUS
  <1>5. new \in Client
    BY <1>1, <1>4, Constants DEF NewClient, Client
  <1>6. new.transfer = t /\ new.chunks = <<>> /\ ~new.end /\ new.age = CHUNK_SEND_REPEAT_TIME /\ new.since = 0
    BY <1>4 DEF NewClient
  <1>7. /\ clients' \in Seq(Client) /\ Len(clients') = Len(clients) + 1
        /\ DOMAIN clients' = 1 .. Len(clients) + 1 /\ clients'[Len(clients) + 1] = new
        /\ \A i \in DOMAIN clients : clients'[i] = Elapsed(d)[i]
    BY <1>2, <1>3, <1>4, <1>5
  <1>8. \A i \in DOMAIN clients : clients[i].transfer \in Transfers /\ clients[i].transfer # t
    BY <1>1, ClientType, Fields DEF IInv, Distinct
  <1>9. outcome \in [Transfers -> Outcomes] /\ requests \in [Peers -> 0 .. MaxRequests] /\ MaxRequests \in Nat
    BY Constants DEF IInv, Typed
  <1>10. Typed'
    <2>1. outcome' \in [Transfers -> Outcomes]
      BY <1>1, <1>9 DEF Outcomes
    <2>2. requests' \in [Peers -> 0 .. MaxRequests]
      BY <1>9
    <2>3. Len(clients') <= MAX_CLIENTS /\ message_owner' \in 0 .. MAX_CLIENTS
      BY <1>2, <1>7, Constants
    <2> QED BY <1>7, <2>1, <2>2, <2>3 DEF IInv, Typed
  <1>11. Visits'
    BY DEF Visits, VisitPcs
  <1>12. Numbered'
    <2> SUFFICES ASSUME NEW q \in Peers PROVE \E k \in 0 .. requests'[q] : Begun(k, q)'
      BY DEF Numbered
    <2>1. CASE q = p
      <3>1. m + 1 \in 0 .. requests'[p]
        BY <1>1, <1>9
      <3>2. ASSUME NEW n \in 1 .. MaxRequests PROVE outcome'[<<p, n>>] # "new" <=> n <= m + 1
        <4>1. <<p, n>> \in Transfers
          BY DEF Transfers
        <4>2. CASE n = m + 1
          BY <1>1, <1>9, <4>2
        <4>3. CASE n # m + 1
          <5>1. outcome'[<<p, n>>] = outcome[<<p, n>>]
            BY <1>9, <4>1, <4>3
          <5>2. n <= m <=> n <= m + 1
            BY <1>1, <1>9, <4>3
          <5> QED BY <1>1, <5>1, <5>2 DEF Begun
        <4> QED BY <4>2, <4>3
      <3>3. Begun(m + 1, p)'
        BY <3>2 DEF Begun
      <3> QED BY <2>1, <3>1, <3>3
    <2>2. CASE q # p
      <3>1. PICK k \in 0 .. requests[q] : Begun(k, q)
        BY DEF IInv, Numbered
      <3>2. \A n \in 1 .. MaxRequests : <<q, n>> \in Transfers /\ <<q, n>> # t
        BY <2>2 DEF Transfers
      <3>3. Begun(k, q)'
        BY <1>9, <3>1, <3>2 DEF Begun
      <3>4. requests'[q] = requests[q]
        BY <1>9, <2>2
      <3> QED BY <3>1, <3>3, <3>4
    <2> QED BY <2>1, <2>2
  <1>13. \A i \in DOMAIN clients' : i \in DOMAIN clients \/ i = Len(clients) + 1
    BY <1>2, <1>7
  <1>14. /\ \A i \in DOMAIN clients : clients'[i].transfer = clients[i].transfer
         /\ clients'[Len(clients) + 1].transfer = t
    BY <1>3, <1>6, <1>7 DEF Alike
  <1>15. \A s \in Transfers : outcome'[s] = IF s = t THEN "open" ELSE outcome[s]
    BY <1>9
  <1>16. Distinct'
    <2>1. ASSUME NEW i \in DOMAIN clients' PROVE outcome'[clients'[i].transfer] # "new"
      <3>1. CASE i \in DOMAIN clients
        <4>1. outcome[clients[i].transfer] # "new"
          BY <3>1 DEF IInv, Distinct
        <4> QED BY <1>8, <1>14, <1>15, <3>1, <4>1
      <3>2. CASE i = Len(clients) + 1
        <4>1. clients'[i].transfer = t
          BY <1>14, <3>2, Zenon
        <4>2. outcome'[t] = "open"
          BY <1>1, <1>15
        <4> QED BY <4>1, <4>2
      <3> QED BY <1>13, <3>1, <3>2
    <2>2. ASSUME NEW i \in DOMAIN clients', NEW j \in DOMAIN clients', clients'[i].transfer = clients'[j].transfer
          PROVE  i = j
      BY ZenonT(30), <1>8, <1>13, <1>14, <2>2 DEF IInv, Distinct
    <2> QED BY <2>1, <2>2 DEF Distinct
  <1>17. Arrived'
    <2>1. \A s \in Transfers : outcome'[s] = "new" => got'[s] = {}
      BY <1>15 DEF IInv, Arrived
    <2>2. \A a \in acks' : a[1] \in Transfers /\ a[2] \in got'[a[1]]
      BY DEF IInv, Arrived
    <2>3. ASSUME NEW i \in DOMAIN clients'
          PROVE  /\ got'[clients'[i].transfer] \subseteq DOMAIN clients'[i].chunks
                 /\ \A k \in DOMAIN clients'[i].chunks :
                      clients'[i].chunks[k] < 0 => k \in got'[clients'[i].transfer]
                 /\ ~clients'[i].end => clients'[i].chunks = <<>>
      <3>1. CASE i \in DOMAIN clients
        BY <1>3, <1>7, <3>1 DEF IInv, Arrived, Alike
      <3>2. CASE i = Len(clients) + 1
        <4>1. got'[t] = {}
          BY <1>1 DEF IInv, Arrived
        <4>2. clients'[i] = new
          BY <1>7, <3>2
        <4>3. clients'[i].transfer = t /\ clients'[i].chunks = <<>>
          BY <1>6, <4>2
        <4>4. got'[clients'[i].transfer] = {}
          BY <4>1, <4>3, Zenon
        <4>5. DOMAIN clients'[i].chunks = {}
          <5>1. DOMAIN << >> = {}
            OBVIOUS
          <5> QED BY <4>3, <5>1, Zenon
        <4> QED BY <4>3, <4>4, <4>5, Zenon
      <3> QED BY <1>13, <3>1, <3>2
    <2> QED BY <2>1, <2>2, <2>3 DEF Arrived
  <1>18. Timed'
    <2>1. Late(new)
      BY <1>6, Constants DEF Late
    <2> QED BY <1>3, <1>7, <1>13, <2>1 DEF Timed
  <1> QED BY <1>10, <1>11, <1>12, <1>16, <1>17, <1>18 DEF IInv

LEMMA PollMessageStep ==
  ASSUME GuppyAssumption, IInv, NEW p \in Peers, NEW content \in acks \cup {Request},
         NEW refuse \in BOOLEAN, NEW d \in Seconds, PollMessage(p, content, refuse, d)
  PROVE  IInv'
  <1>0. requests \in [Peers -> 0 .. MaxRequests] /\ MaxRequests \in Nat
    BY Constants DEF IInv, Typed
  <1>1. /\ todo' = DOMAIN clients' /\ (pc' = IF clients' = <<>> THEN "poll" ELSE "visit")
        /\ UNCHANGED <<owner, acks, got>>
    BY DEF PollMessage, network
  <1>2. /\ requests' \in [Peers -> 0 .. MaxRequests]
        /\ \A q \in Peers : requests'[q] >= requests[q]
    <2>1. CASE content = Request
      <3>1. requests[p] < MaxRequests /\ requests' = [requests EXCEPT ![p] = @ + 1]
        BY <2>1 DEF PollMessage
      <3> QED BY <1>0, <3>1
    <2>2. CASE content # Request
      <3>1. requests' = requests
        BY <2>2 DEF PollMessage
      <3> QED BY <1>0, <3>1
    <2> QED BY <2>1, <2>2
  <1>3. /\ Elapsed(d) \in Seq(Client) /\ DOMAIN Elapsed(d) = DOMAIN clients /\ Len(Elapsed(d)) = Len(clients)
        /\ \A i \in DOMAIN clients : Late(Elapsed(d)[i]) /\ Alike(clients[i], Elapsed(d)[i])
    BY OlderClients
  <1>4. ASSUME clients' = Elapsed(d), outcome' = outcome, message_owner' \in 0 .. MAX_CLIENTS,
               message_owner' # 0 => message'[2] \in acks \cup {Request}
        PROVE  IInv'
    <2>1. Typed'
      BY <1>1, <1>2, <1>3, <1>4 DEF IInv, Typed
    <2>2. Visits'
      BY <1>1, <1>3, <1>4 DEF Visits, VisitPcs
    <2> QED BY <1>1, <1>2, <1>3, <1>4, <2>1, <2>2, AlikeStep
  <1>5. CASE message_owner # 0
    <2>1. clients' = Elapsed(d) /\ UNCHANGED <<message, message_owner, outcome>>
      BY <1>5 DEF PollMessage
    <2> QED BY <1>4, <2>1 DEF IInv, Typed, Arrived
  <1>6. CASE message_owner = 0
    <2> DEFINE known == {i \in DOMAIN clients : clients[i].transfer[1] = p}
               m == Cardinality({n \in 1 .. MaxRequests : outcome[<<p, n>>] # "new"})
               refused == content # Request \/ refuse \/ Len(clients) >= MAX_CLIENTS
    <2>1. server_accept_message(p, content, refuse, d) /\ message' = <<p, content>>
      BY <1>6 DEF PollMessage, server_accept_message
    <2>2. CASE known # {}
      <3>1. message_owner' = Min(known) /\ clients' = Elapsed(d) /\ outcome' = outcome
        BY <2>1, <2>2 DEF server_accept_message
      <3>2. Min(known) \in DOMAIN clients
        BY <2>2, KnownPlace
      <3>3. message_owner' \in 0 .. MAX_CLIENTS
        BY <3>1, <3>2, ClientType
      <3> QED BY <1>4, <2>1, <3>1, <3>3
    <2>3. CASE known = {} /\ refused
      <3>1. clients' = Elapsed(d) /\ UNCHANGED <<message_owner, outcome>>
        BY <2>1, <2>3 DEF server_accept_message
      <3> QED BY <1>4, <1>6, <3>1 DEF IInv, Typed
    <2>4. CASE known = {} /\ ~refused
      <3>1. /\ clients' = Append(Elapsed(d), NewClient(<<p, m + 1>>))
            /\ message_owner' = Len(clients')
            /\ outcome' = [outcome EXCEPT ![<<p, m + 1>>] = "open"]
        BY <2>1, <2>4 DEF server_accept_message
      <3>2. content = Request /\ Len(clients) < MAX_CLIENTS
        BY <2>4, Constants DEF IInv, Typed
      <3>3. requests[p] < MaxRequests /\ requests' = [requests EXCEPT ![p] = @ + 1]
        BY <3>2 DEF PollMessage
      <3>4. pc' = "visit" /\ message'[2] = Request
        BY <1>1, <1>3, <2>1, <3>1, <3>2
      <3> QED BY <1>1, <3>1, <3>2, <3>3, <3>4, AcceptStep
    <2> QED BY <2>2, <2>3, <2>4
  <1> QED BY <1>5, <1>6

------------------------------------------------------------------------------
(* The visit of a client.                                                  *)

LEMMA Visited ==
  ASSUME GuppyAssumption, IInv, pc \in VisitPcs
  PROVE  /\ cur \in DOMAIN clients /\ cur \in 1 .. MAX_CLIENTS /\ client \in Client /\ Late(client)
         /\ client = clients[cur]
         /\ client.transfer \in Transfers /\ client.chunks \in Seq(Int)
         /\ got[client.transfer] \subseteq DOMAIN client.chunks
         /\ \A k \in DOMAIN client.chunks : client.chunks[k] < 0 => k \in got[client.transfer]
         /\ ~client.end => client.chunks = <<>>
         /\ outcome[client.transfer] # "new"
  <1>1. cur \in DOMAIN clients
    BY DEF IInv, Visits
  <1>2. clients[cur] \in Client /\ cur \in 1 .. MAX_CLIENTS /\ Late(clients[cur])
    BY <1>1, ClientType
  <1>3. clients[cur].transfer \in Transfers /\ clients[cur].chunks \in Seq(Int)
    BY <1>2, Fields
  <1> QED BY <1>1, <1>2, <1>3 DEF client, IInv, Arrived, Distinct

(* The visited client becomes x, and chunks in arriving reach its peer. *)
LEMMA VisitedStep ==
  ASSUME GuppyAssumption, IInv, pc \in VisitPcs, NEW x, NEW arriving \in SUBSET Int,
         Typed', Visits', DOMAIN clients' = DOMAIN clients, clients'[cur] = x,
         \A i \in DOMAIN clients : i # cur => Late(clients'[i]) /\ Alike(clients[i], clients'[i]),
         x.transfer = client.transfer, Late(x),
         got[client.transfer] \cup arriving \subseteq DOMAIN x.chunks,
         \A k \in DOMAIN x.chunks : x.chunks[k] < 0 => k \in got[client.transfer],
         ~x.end => x.chunks = <<>>,
         got' = [got EXCEPT ![client.transfer] = @ \cup arriving],
         acks' = acks \cup {<<client.transfer, k>> : k \in arriving},
         \A t \in Transfers : outcome'[t] = "new" <=> outcome[t] = "new",
         requests' = requests, message' = message, message_owner' \in {0, message_owner}
  PROVE  IInv'
  <1>a. PICK v : v = cur
    OBVIOUS
  <1>b. PICK s : s = client.transfer
    OBVIOUS
  <1>1. /\ v = cur /\ v \in DOMAIN clients /\ s \in Transfers /\ clients[v].transfer = s
        /\ clients'[v] = x /\ x.transfer = s /\ outcome[s] # "new"
    BY <1>a, <1>b, Visited
  <1>2. got \in [Transfers -> SUBSET Int]
    BY DEF IInv, Typed
  <1>3. got'[s] = got[s] \cup arriving /\ \A t \in Transfers : t # s => got'[t] = got[t]
    BY <1>b, <1>1, <1>2
  <1>4. \A i \in DOMAIN clients : clients[i].transfer \in Transfers /\ (i # v => clients[i].transfer # s)
    BY <1>1, ClientType, Fields DEF IInv, Distinct
  <1>5. Timed'
    BY <1>a DEF Timed
  <1>6. Arrived'
    <2>1. \A t \in Transfers : outcome'[t] = "new" => got'[t] = {}
      BY <1>1, <1>3 DEF IInv, Arrived
    <2>2. ASSUME NEW a \in acks' PROVE a[1] \in Transfers /\ a[2] \in got'[a[1]]
      <3>1. CASE a \in acks
        <4>1. a[1] \in Transfers /\ a[2] \in got[a[1]]
          BY <3>1 DEF IInv, Arrived
        <4> QED BY <1>1, <1>3, <4>1
      <3>2. ASSUME NEW k \in arriving, a = <<s, k>> PROVE a[1] \in Transfers /\ a[2] \in got'[a[1]]
        BY <1>1, <1>3, <3>2
      <3> QED BY <1>b, <3>1, <3>2
    <2>3. message_owner' # 0 => message'[2] \in acks' \cup {Request}
      BY DEF IInv, Arrived
    <2>4. ASSUME NEW i \in DOMAIN clients'
          PROVE  /\ got'[clients'[i].transfer] \subseteq DOMAIN clients'[i].chunks
                 /\ \A k \in DOMAIN clients'[i].chunks :
                      clients'[i].chunks[k] < 0 => k \in got'[clients'[i].transfer]
                 /\ ~clients'[i].end => clients'[i].chunks = <<>>
      <3>1. CASE i = v
        BY <1>b, <1>1, <1>3, <3>1
      <3>2. CASE i # v
        <4>1. got'[clients[i].transfer] = got[clients[i].transfer]
          BY <1>3, <1>4, <3>2
        <4>2. Alike(clients[i], clients'[i])
          BY <1>a, <3>2
        <4> QED BY <4>1, <4>2 DEF IInv, Arrived, Alike
      <3> QED BY <3>1, <3>2
    <2> QED BY <2>1, <2>2, <2>3, <2>4 DEF Arrived
  <1>7. \A i \in DOMAIN clients : clients'[i].transfer = clients[i].transfer
    BY <1>1 DEF Alike
  <1>8. \A p \in Peers : requests'[p] >= requests[p]
    BY DEF IInv, Typed
  <1> QED BY <1>5, <1>6, <1>7, <1>8, KeptTransfers

(* Nothing reaches a peer. *)
LEMMA NothingArrives ==
  ASSUME GuppyAssumption, IInv, pc \in VisitPcs, UNCHANGED <<acks, got>>
  PROVE  /\ got' = [got EXCEPT ![client.transfer] = @ \cup {}]
         /\ acks' = acks \cup {<<client.transfer, k>> : k \in {}}
  BY Visited DEF IInv, Typed

LEMMA VisitedQuiet ==
  ASSUME GuppyAssumption, IInv, pc \in VisitPcs, NEW x,
         Typed', Visits', DOMAIN clients' = DOMAIN clients, clients'[cur] = x,
         \A i \in DOMAIN clients : i # cur => Late(clients'[i]) /\ Alike(clients[i], clients'[i]),
         x.transfer = client.transfer, Late(x), got[client.transfer] \subseteq DOMAIN x.chunks,
         \A k \in DOMAIN x.chunks : x.chunks[k] < 0 => k \in got[client.transfer],
         ~x.end => x.chunks = <<>>,
         UNCHANGED <<acks, got, outcome, requests, message>>, message_owner' \in {0, message_owner}
  PROVE  IInv'
  <1>1. PICK none : none = {}
    OBVIOUS
  <1>2. /\ got' = [got EXCEPT ![client.transfer] = @ \cup none]
        /\ acks' = acks \cup {<<client.transfer, k>> : k \in none}
    BY <1>1, NothingArrives
  <1>3. none \in SUBSET Int /\ got[client.transfer] \cup none \subseteq DOMAIN x.chunks
    BY <1>1
  <1> QED BY <1>2, <1>3, VisitedStep

(* After a visit comes the next, or the array is compacted. *)
LEMMA NextVisitOK ==
  ASSUME IInv, DOMAIN clients' = DOMAIN clients, todo' = todo, pc' \in {"orphaned", NextVisit}
  PROVE  Visits'
  BY DEF IInv, Visits, VisitPcs, NextVisit

(* The client is closed. *)
LEMMA CloseStep ==
  ASSUME GuppyAssumption, IInv, pc \in VisitPcs, NEW how \in Outcomes \ {"new"}, NEW arriving \in SUBSET DOMAIN client.chunks,
         clients' = [clients EXCEPT ![cur] = [@ EXCEPT !.dead = TRUE, !.stream = FALSE, !.rest = FALSE]],
         outcome' = [outcome EXCEPT ![client.transfer] = how],
         owner' \in {0, owner}, pc' \in {"orphaned", NextVisit},
         got' = [got EXCEPT ![client.transfer] = @ \cup arriving],
         acks' = acks \cup {<<client.transfer, k>> : k \in arriving},
         UNCHANGED <<message, message_owner, todo, requests>>
  PROVE  IInv'
  <1>1. PICK x : x = [client EXCEPT !.dead = TRUE, !.stream = FALSE, !.rest = FALSE]
    OBVIOUS
  <1>2. x \in Client /\ Alike(client, x) /\ x.age = client.age /\ x.since = client.since
    BY <1>1, Visited DEF Client, Alike
  <1>3. Late(x)
    BY <1>2, Visited DEF Late, Alike
  <1>4. clients' = [clients EXCEPT ![cur] = x] /\ clients \in Seq(Client) /\ cur \in DOMAIN clients
    BY <1>1, Visited DEF client, IInv, Typed
  <1>5. /\ clients' \in Seq(Client) /\ DOMAIN clients' = DOMAIN clients /\ Len(clients') = Len(clients)
        /\ clients'[cur] = x /\ \A i \in DOMAIN clients : i # cur => clients'[i] = clients[i]
    BY <1>2, <1>4
  <1>6. Typed'
    <2>1. arriving \subseteq Int
      BY Visited
    <2>2. got' \in [Transfers -> SUBSET Int]
      BY <2>1, Visited DEF IInv, Typed
    <2>3. outcome' \in [Transfers -> Outcomes] /\ owner' \in 0 .. MAX_CLIENTS
      BY Visited, Constants DEF IInv, Typed
    <2> QED BY <1>5, <2>2, <2>3 DEF IInv, Typed
  <1>7. Visits'
    BY <1>5, NextVisitOK
  <1>8. \A i \in DOMAIN clients : i # cur => Late(clients'[i]) /\ Alike(clients[i], clients'[i])
    BY <1>5, ClientType DEF Alike
  <1>9. \A t \in Transfers : outcome'[t] = "new" <=> outcome[t] = "new"
    BY Visited DEF IInv, Typed
  <1>10. /\ got[client.transfer] \cup arriving \subseteq DOMAIN x.chunks /\ x.transfer = client.transfer
         /\ \A k \in DOMAIN x.chunks : x.chunks[k] < 0 => k \in got[client.transfer]
         /\ ~x.end => x.chunks = <<>>
    BY <1>2, Visited DEF Alike
  <1>11. arriving \in SUBSET Int
    BY Visited
  <1> QED BY <1>3, <1>5, <1>6, <1>7, <1>8, <1>9, <1>10, <1>11, VisitedStep

LEMMA FailureStep ==
  ASSUME GuppyAssumption, IInv, pc \in VisitPcs, NEW how \in Outcomes \ {"new"}, NEW send \in BOOLEAN,
         Failure(how, send), NEW arriving \in SUBSET DOMAIN client.chunks,
         got' = [got EXCEPT ![client.transfer] = @ \cup arriving],
         acks' = acks \cup {<<client.transfer, k>> : k \in arriving}
  PROVE  IInv'
  <1>1. /\ clients' = [clients EXCEPT ![cur] = [@ EXCEPT !.dead = TRUE, !.stream = FALSE, !.rest = FALSE]]
        /\ outcome' = [outcome EXCEPT ![client.transfer] = how]
        /\ UNCHANGED <<message, message_owner, todo, requests>>
    BY DEF Failure, Closed
  <1>2. owner' \in {0, owner} /\ pc' \in {"orphaned", NextVisit}
    BY DEF Failure, Closed
  <1> QED BY <1>1, <1>2, CloseStep

LEMMA FaultsStep ==
  ASSUME GuppyAssumption, IInv,
         TimedOut \/ server_receive_invalid \/ server_receive_failed \/ server_process_invalid
  PROVE  IInv'
  <1>1. pc \in VisitPcs /\ UNCHANGED <<acks, got>>
    BY DEF TimedOut, server_receive_invalid, server_receive_failed, server_process_invalid, VisitPcs
  <1>2. \E how \in Outcomes \ {"new"}, send \in BOOLEAN : Failure(how, send)
    BY DEF TimedOut, server_receive_invalid, server_receive_failed, server_process_invalid, Outcomes
  <1> QED BY <1>1, <1>2, NothingArrives, FailureStep

LEMMA ControlSteps ==
  ASSUME GuppyAssumption, IInv, (\E i \in todo : Visit(i)) \/ InTime \/ NotProcess \/ NotSend \/ Leave
  PROVE  IInv'
  <1>1. UNCHANGED <<clients, message, message_owner, owner, network, outcome, bounds>>
    BY DEF Visit, InTime, NotProcess, NotSend, Leave
  <1>2. Visits'
    <2>1. CASE \E i \in todo : Visit(i)
      BY <1>1, <2>1 DEF Visit, IInv, Visits, VisitPcs
    <2>2. CASE InTime \/ NotProcess \/ NotSend
      BY <1>1, <2>2 DEF InTime, NotProcess, NotSend, IInv, Visits, VisitPcs
    <2>3. CASE Leave
      BY <1>1, <2>3, NextVisitOK DEF Leave
    <2> QED BY <2>1, <2>2, <2>3
  <1> QED BY <1>1, <1>2, ControlStep

(* The visited client becomes x, and nothing reaches a peer. *)
LEMMA QuietStep ==
  ASSUME GuppyAssumption, IInv, pc \in VisitPcs, NEW x \in Client, pc' \in VisitPcs,
         clients' = [clients EXCEPT ![cur] = x],
         x.transfer = client.transfer, Late(x), DOMAIN x.chunks = DOMAIN client.chunks,
         \A k \in DOMAIN x.chunks : x.chunks[k] < 0 => k \in got[client.transfer],
         ~x.end => x.chunks = <<>>,
         UNCHANGED <<acks, got, outcome, requests, message, owner, todo, cur>>, message_owner' \in {0, message_owner}
  PROVE  IInv'
  <1>4. clients \in Seq(Client) /\ cur \in DOMAIN clients
    BY Visited DEF IInv, Typed
  <1>5. /\ clients' \in Seq(Client) /\ DOMAIN clients' = DOMAIN clients /\ Len(clients') = Len(clients)
        /\ clients'[cur] = x /\ \A i \in DOMAIN clients : i # cur => clients'[i] = clients[i]
    BY <1>4
  <1>6. Typed'
    BY <1>5, Constants DEF IInv, Typed
  <1>7. Visits'
    BY <1>4, <1>5 DEF IInv, Visits, VisitPcs
  <1>8. \A i \in DOMAIN clients : i # cur => Late(clients'[i]) /\ Alike(clients[i], clients'[i])
    BY <1>5, ClientType DEF Alike
  <1>9. got[client.transfer] \subseteq DOMAIN x.chunks
    BY Visited
  <1> QED BY <1>5, <1>6, <1>7, <1>8, <1>9, VisitedQuiet

LEMMA ReceiveStep ==
  ASSUME GuppyAssumption, IInv, server_receive_data_guppy
  PROVE  IInv'
  <1>1. /\ pc = "receive" /\ pc' = "process" /\ pc \in VisitPcs /\ pc' \in VisitPcs
        /\ UNCHANGED <<message, owner, todo, cur, acks, got, outcome, requests>>
        /\ UNCHANGED <<network, bounds>>
    BY DEF server_receive_data_guppy, VisitPcs, network, bounds
  <1>2. CASE UNCHANGED <<clients, message_owner>>
    BY <1>1, <1>2, ControlStep DEF IInv, Visits, VisitPcs
  <1>3. CASE pollin /\ message_owner = cur /\ message[2] = Request /\ message_owner' = 0
             /\ clients' = [clients EXCEPT ![cur].rest = TRUE]
    <2>1. PICK x : x = [client EXCEPT !.rest = TRUE]
      OBVIOUS
    <2>2. x \in Client /\ Alike(client, x) /\ x.age = client.age /\ x.since = client.since
      BY <1>1, <2>1, Visited DEF Client, Alike
    <2>3. clients' = [clients EXCEPT ![cur] = x]
      BY <1>3, <2>1 DEF client
    <2>4. Late(x)
      BY <1>1, <2>2, Visited DEF Late, Alike
    <2>5. /\ x.transfer = client.transfer /\ DOMAIN x.chunks = DOMAIN client.chunks
          /\ \A k \in DOMAIN x.chunks : x.chunks[k] < 0 => k \in got[client.transfer]
          /\ ~x.end => x.chunks = <<>>
      BY <1>1, <2>2, Visited DEF Alike
    <2> QED BY <1>1, <1>3, <2>2, <2>3, <2>4, <2>5, QuietStep
  <1>4. CASE message_owner = cur /\ message[2] # Request /\ ValidAcknowledgement /\ message_owner' = 0
             /\ clients' = Acknowledged
    <2>1. PICK k : k = message[2][2]
      OBVIOUS
    <2>2. k \in DOMAIN client.chunks /\ message[2][1] = client.transfer
      BY <1>4, <2>1 DEF ValidAcknowledgement
    <2>3. k \in got[client.transfer]
      <3>1. cur # 0
        BY <1>1, Visited
      <3>2. message[2] \in acks
        BY <1>4, <3>1 DEF IInv, Arrived
      <3> QED BY <2>1, <2>2, <3>2 DEF IInv, Arrived
    <2>4. PICK marked : marked = [client.chunks EXCEPT ![k] = -1]
      OBVIOUS
    <2>5. PICK x : x = [client EXCEPT !.chunks = marked]
      OBVIOUS
    <2>6. clients' = [clients EXCEPT ![cur] = x]
      BY <1>4, <2>1, <2>4, <2>5, Zenon DEF client, Acknowledged
    <2>7. /\ marked \in Seq(Int) /\ DOMAIN marked = DOMAIN client.chunks
          /\ marked[k] = -1 /\ \A j \in DOMAIN client.chunks : j # k => marked[j] = client.chunks[j]
      BY <1>1, <2>2, <2>4, Visited
    <2>8. /\ x \in Client /\ x.transfer = client.transfer /\ x.chunks = marked
          /\ x.age = client.age /\ x.since = client.since /\ x.end = client.end
      BY <1>1, <2>5, <2>7, Visited DEF Client
    <2>9. Late(x)
      <3>1. \A j \in DOMAIN marked : j = k \/ marked[j] = client.chunks[j]
        BY <2>7
      <3>2. -1 \in -1 .. CHUNK_SEND_REPEATS /\ ~(-1 >= 1)
        BY Constants
      <3> QED BY <1>1, <2>7, <2>8, <3>1, <3>2, Visited DEF Late
    <2>10. \A j \in DOMAIN x.chunks : x.chunks[j] < 0 => j \in got[client.transfer]
      BY <1>1, <2>3, <2>7, <2>8, Visited
    <2>11. ~x.end => x.chunks = <<>>
      BY <1>1, <2>2, <2>8, Visited
    <2> QED BY <1>1, <1>4, <2>6, <2>7, <2>8, <2>9, <2>10, <2>11, QuietStep
  <1> QED BY <1>2, <1>3, <1>4 DEF server_receive_data_guppy, Taken

LEMMA ProcessStep ==
  ASSUME GuppyAssumption, IInv, NEW n \in ChunkNumbers, server_process_traffic(n)
  PROVE  IInv'
  <1>1. /\ pc = "process" /\ pc' = "send" /\ pc \in VisitPcs /\ pc' \in VisitPcs /\ owner' = cur
        /\ UNCHANGED <<message, message_owner, todo, cur, acks, got, outcome, requests>>
        /\ ~client.end /\ n \in Nat
    BY Constants DEF server_process_traffic, MakesSenseToParse, VisitPcs, network, bounds
  <1>2. PICK zeros : zeros = [k \in 1 .. n |-> 0]
    OBVIOUS
  <1>3. PICK x : x = [client EXCEPT !.end = TRUE, !.rest = FALSE, !.chunks = zeros]
    OBVIOUS
  <1>4. zeros \in Seq(Int) /\ DOMAIN zeros = 1 .. n /\ \A k \in DOMAIN zeros : zeros[k] = 0
    BY <1>1, <1>2
  <1>5. /\ x \in Client /\ x.transfer = client.transfer /\ x.end /\ x.chunks = zeros
        /\ x.age = client.age /\ x.since = client.since
    BY <1>1, <1>3, <1>4, Visited DEF Client
  <1>6. Late(x)
    BY <1>1, <1>4, <1>5, Visited, Constants DEF Late
  <1>7. clients \in Seq(Client) /\ cur \in DOMAIN clients
    BY <1>1, Visited DEF IInv, Typed
  <1>8. DOMAIN clients' = DOMAIN clients /\ clients'[cur] = x
    BY <1>1, <1>2, <1>3, <1>7 DEF server_process_traffic
  <1>9. ASSUME NEW i \in DOMAIN clients, i # cur
        PROVE  clients'[i] \in Client /\ Late(clients'[i]) /\ Alike(clients[i], clients'[i])
    <2>1. clients[i] \in Client /\ Late(clients[i])
      BY ClientType
    <2>2. CASE clients'[i] = clients[i]
      BY <2>1, <2>2 DEF Alike
    <2>3. CASE clients'[i] = [clients[i] EXCEPT !.stream = TRUE]
      <3>1. PICK e : e = clients'[i]
        OBVIOUS
      <3>2. e \in Client /\ Alike(clients[i], e) /\ e.age = clients[i].age /\ e.since = clients[i].since
        BY <2>1, <2>3, <3>1 DEF Client, Alike
      <3> QED BY <2>1, <3>1, <3>2 DEF Late, Alike
    <2>4. clients'[i] = clients[i] \/ clients'[i] = [clients[i] EXCEPT !.stream = TRUE]
      BY <1>9 DEF server_process_traffic
    <2> QED BY <2>2, <2>3, <2>4
  <1>10. clients' \in Seq(Client) /\ Len(clients') = Len(clients)
    <2>1. clients' = [i \in DOMAIN clients |-> clients'[i]]
      BY DEF server_process_traffic
    <2>2. \A i \in DOMAIN clients : clients'[i] \in Client
      BY <1>5, <1>8, <1>9
    <2>3. PICK f : f = clients'
      OBVIOUS
    <2>4. f \in [1 .. Len(clients) -> Client] /\ Len(clients) \in Nat
      BY <1>7, <2>1, <2>2, <2>3
    <2> QED BY <2>3, <2>4
  <1>11. Typed'
    <2>1. cur \in 0 .. MAX_CLIENTS
      BY <1>1, Visited
    <2> QED BY <1>1, <1>10, <2>1 DEF IInv, Typed
  <1>12. Visits'
    BY <1>1, <1>7, <1>8 DEF IInv, Visits, VisitPcs
  <1>13. got[client.transfer] \subseteq DOMAIN x.chunks
    <2>1. client.chunks = <<>> /\ got[client.transfer] \subseteq DOMAIN client.chunks
      BY <1>1, Visited
    <2> QED BY <2>1
  <1>14. \A k \in DOMAIN x.chunks : x.chunks[k] < 0 => k \in got[client.transfer]
    BY <1>4, <1>5
  <1> QED BY <1>1, <1>5, <1>6, <1>8, <1>9, <1>11, <1>12, <1>13, <1>14, VisitedQuiet

(* Only chunks that are not acknowledged are sent, and none too often. *)
LEMMA SentChunks ==
  Sent \subseteq DOMAIN client.chunks /\ \A k \in Sent : client.chunks[k] >= 0 /\ Real
  BY DEF Sent, Seen, Unacknowledged

LEMMA ExhaustedStep ==
  ASSUME GuppyAssumption, IInv, NEW arriving \in SUBSET Sent, server_send_exhausted(arriving)
  PROVE  IInv'
  <1>1. /\ pc \in VisitPcs /\ Failure("gave up", FALSE)
        /\ got' = [got EXCEPT ![client.transfer] = @ \cup arriving]
        /\ acks' = acks \cup {<<client.transfer, k>> : k \in arriving}
    BY DEF server_send_exhausted, MaySend, VisitPcs, Transmit
  <1>2. arriving \in SUBSET DOMAIN client.chunks /\ "gave up" \in Outcomes \ {"new"} /\ FALSE \in BOOLEAN
    BY SentChunks DEF Outcomes
  <1> QED BY <1>1, <1>2, FailureStep

(* A repetition comes no sooner than CHUNK_SEND_REPEAT_TIME after the last *)
(* one: what is known of the time since the first sending still is.        *)
LEMMA SentLate ==
  ASSUME GuppyAssumption, IInv, pc \in VisitPcs, Exhausted = {}, NEW x \in Client,
         x.since = client.since, x.age = (IF Real THEN 0 ELSE client.age),
         DOMAIN x.chunks = DOMAIN client.chunks,
         \A k \in DOMAIN client.chunks :
           x.chunks[k] = IF k \in Sent THEN client.chunks[k] + 1 ELSE client.chunks[k]
  PROVE  Late(x)
  <1>0. /\ CHUNK_SEND_REPEAT_TIME \in Nat /\ CHUNK_SEND_REPEATS \in Nat /\ Cap \in Nat
        /\ client.age \in 0 .. CHUNK_SEND_REPEAT_TIME /\ client.since \in 0 .. Cap
    BY Constants, Visited DEF Late
  <1>1. x.age \in 0 .. CHUNK_SEND_REPEAT_TIME /\ x.age <= client.age
    BY <1>0
  <1>2. ASSUME NEW k \in DOMAIN client.chunks
        PROVE  /\ x.chunks[k] \in -1 .. CHUNK_SEND_REPEATS
               /\ x.chunks[k] >= 1 =>
                    x.since = Cap \/ x.since >= (x.chunks[k] - 1) * CHUNK_SEND_REPEAT_TIME + x.age
    <2>1. PICK s : s = client.chunks[k]
      OBVIOUS
    <2>2. /\ s \in -1 .. CHUNK_SEND_REPEATS
          /\ s >= 1 => client.since = Cap \/ client.since >= (s - 1) * CHUNK_SEND_REPEAT_TIME + client.age
      BY <2>1, Visited DEF Late
    <2>3. PICK least : least = (s - 1) * CHUNK_SEND_REPEAT_TIME
      OBVIOUS
    <2>4. least \in Int /\ s * CHUNK_SEND_REPEAT_TIME = least + CHUNK_SEND_REPEAT_TIME
      BY <1>0, <2>2, <2>3
    <2>5. CASE k \in Sent
      <3>1. Real /\ s >= 0 /\ x.chunks[k] = s + 1 /\ x.age = 0 /\ client.age = CHUNK_SEND_REPEAT_TIME
        BY <1>0, <2>1, <2>5, SentChunks DEF Real
      <3>2. s < CHUNK_SEND_REPEATS
        BY <1>0, <2>1, <2>2, <2>5 DEF Exhausted, Sent
      <3>3. s + 1 - 1 = s
        BY <2>2
      <3>4. CASE s = 0
        BY <1>0, <3>1, <3>2, <3>4
      <3>5. CASE s >= 1
        <4>1. client.since = Cap \/ client.since >= s * CHUNK_SEND_REPEAT_TIME
          BY <1>0, <2>2, <2>3, <2>4, <3>1, <3>5
        <4>2. x.chunks[k] - 1 = s
          BY <1>0, <2>2, <3>1
        <4>3. s * CHUNK_SEND_REPEAT_TIME + 0 = s * CHUNK_SEND_REPEAT_TIME
          BY <2>4, <1>0
        <4>4. x.since = Cap \/ x.since >= (x.chunks[k] - 1) * CHUNK_SEND_REPEAT_TIME + x.age
          BY <3>1, <4>1, <4>2, <4>3
        <4> QED BY <1>0, <2>2, <3>1, <3>2, <4>4
      <3> QED BY <2>2, <3>1, <3>4, <3>5
    <2>6. CASE k \notin Sent
      <3>1. x.chunks[k] = s
        BY <2>1, <2>6
      <3>2. s >= 1 => x.since = Cap \/ x.since >= least + x.age
        BY <1>0, <1>1, <2>2, <2>3, <2>4
      <3> QED BY <2>2, <2>3, <3>1, <3>2
    <2> QED BY <2>5, <2>6
  <1> QED BY <1>0, <1>1, <1>2 DEF Late

LEMMA SendSomeStep ==
  ASSUME GuppyAssumption, IInv, NEW arriving \in SUBSET Sent, server_send_some(arriving)
  PROVE  IInv'
  <1>1. /\ pc = "send" /\ pc' = "leave" /\ pc \in VisitPcs /\ pc' \in VisitPcs /\ Exhausted = {}
        /\ got' = [got EXCEPT ![client.transfer] = @ \cup arriving]
        /\ acks' = acks \cup {<<client.transfer, k>> : k \in arriving}
        /\ UNCHANGED <<message, message_owner, owner, todo, cur, outcome, requests>>
    BY DEF server_send_some, MaySend, VisitPcs, Transmit, bounds
  <1>2. PICK counted : counted = [k \in DOMAIN client.chunks |->
                                    IF k \in Sent THEN client.chunks[k] + 1 ELSE client.chunks[k]]
    OBVIOUS
  <1>3. PICK age : age = IF Real THEN 0 ELSE client.age
    OBVIOUS
  <1>4. PICK x : x = [client EXCEPT !.chunks = counted, !.age = age]
    OBVIOUS
  <1>5. clients' = [clients EXCEPT ![cur] = x]
    BY <1>2, <1>3, <1>4, Zenon DEF server_send_some
  <1>6. counted \in Seq(Int) /\ DOMAIN counted = DOMAIN client.chunks
    <2>1. client.chunks \in Seq(Int) /\ Len(client.chunks) \in Nat
      BY <1>1, Visited
    <2>2. counted \in [1 .. Len(client.chunks) -> Int]
      BY <1>2, <2>1
    <2> QED BY <2>1, <2>2
  <1>7. age \in Int
    BY <1>1, <1>3, Visited, Fields
  <1>8. /\ x \in Client /\ x.transfer = client.transfer /\ x.chunks = counted
        /\ x.age = age /\ x.since = client.since /\ x.end = client.end
    BY <1>1, <1>4, <1>6, <1>7, Visited DEF Client
  <1>9. Late(x)
    BY <1>1, <1>2, <1>3, <1>6, <1>8, SentLate
  <1>10. clients \in Seq(Client) /\ cur \in DOMAIN clients
    BY <1>1, Visited DEF IInv, Typed
  <1>11. /\ clients' \in Seq(Client) /\ DOMAIN clients' = DOMAIN clients /\ Len(clients') = Len(clients)
         /\ clients'[cur] = x /\ \A i \in DOMAIN clients : i # cur => clients'[i] = clients[i]
    BY <1>5, <1>8, <1>10
  <1>12. arriving \in SUBSET DOMAIN client.chunks /\ arriving \in SUBSET Int
    <2>1. arriving \in SUBSET DOMAIN client.chunks
      BY SentChunks
    <2> QED BY <1>1, <2>1, Visited
  <1>13. Typed'
    <2>1. got' \in [Transfers -> SUBSET Int]
      BY <1>1, <1>12, Visited DEF IInv, Typed
    <2> QED BY <1>1, <1>11, <2>1, Constants DEF IInv, Typed
  <1>14. Visits'
    BY <1>1, <1>10, <1>11 DEF IInv, Visits, VisitPcs
  <1>15. \A i \in DOMAIN clients : i # cur => Late(clients'[i]) /\ Alike(clients[i], clients'[i])
    BY <1>11, ClientType DEF Alike
  <1>16. got[client.transfer] \cup arriving \subseteq DOMAIN x.chunks
    BY <1>1, <1>6, <1>8, <1>12, Visited
  <1>17. \A k \in DOMAIN x.chunks : x.chunks[k] < 0 => k \in got[client.transfer]
    <2>1. ASSUME NEW k \in DOMAIN client.chunks, counted[k] < 0 PROVE k \in got[client.transfer]
      <3>1. client.chunks[k] \in Int /\ (k \in Sent => client.chunks[k] >= 0)
        BY <1>1, SentChunks, Visited
      <3>2. counted[k] = IF k \in Sent THEN client.chunks[k] + 1 ELSE client.chunks[k]
        BY <1>2
      <3>3. client.chunks[k] < 0
        BY <2>1, <3>1, <3>2
      <3> QED BY <1>1, <3>3, Visited
    <2> QED BY <1>6, <1>8, <2>1
  <1>18. ~x.end => x.chunks = <<>>
    <2>1. ASSUME ~client.end PROVE counted = <<>>
      <3>1. client.chunks = <<>>
        BY <1>1, <2>1, Visited
      <3> QED BY <1>2, <1>6, <3>1
    <2> QED BY <1>8, <2>1
  <1>19. \A t \in Transfers : outcome'[t] = "new" <=> outcome[t] = "new"
    BY <1>1
  <1> QED BY <1>1, <1>8, <1>9, <1>11, <1>12, <1>13, <1>14, <1>15, <1>16, <1>17, <1>18, <1>19, VisitedStep

LEMMA CompleteStep ==
  ASSUME GuppyAssumption, IInv, server_send_complete
  PROVE  IInv'
  <1>1. /\ pc \in VisitPcs /\ UNCHANGED <<acks, got, message, message_owner, todo, requests>>
        /\ owner' \in {0, owner} /\ pc' = NextVisit
        /\ clients' = [clients EXCEPT ![cur] = [@ EXCEPT !.dead = TRUE, !.stream = FALSE, !.rest = FALSE]]
    BY DEF server_send_complete, MaySend, VisitPcs, network, bounds
  <1>2. PICK how : how = IF client.rest THEN "failed" ELSE "served"
    OBVIOUS
  <1>3. how \in Outcomes \ {"new"} /\ outcome' = [outcome EXCEPT ![client.transfer] = how]
    BY <1>2 DEF server_send_complete, Outcomes
  <1>4. PICK none : none = {}
    OBVIOUS
  <1>5. /\ got' = [got EXCEPT ![client.transfer] = @ \cup none]
        /\ acks' = acks \cup {<<client.transfer, k>> : k \in none}
    BY <1>1, <1>4, NothingArrives
  <1>6. none \in SUBSET DOMAIN client.chunks
    BY <1>4
  <1> QED BY <1>1, <1>3, <1>5, <1>6, CloseStep

LEMMA RemoveStep ==
  ASSUME GuppyAssumption, IInv, clients_remove_finalized
  PROVE  IInv'
  <1>1. PICK n \in 0 .. Len(clients) : \E from \in [1 .. n -> DOMAIN clients] :
          /\ Survivors(from) /\ clients' = [j \in 1 .. n |-> clients[from[j]]]
          /\ owner' = owner \/ owner' \in 1 .. n
    BY DEF clients_remove_finalized
  <1>2. PICK from \in [1 .. n -> DOMAIN clients] :
          /\ Survivors(from) /\ clients' = [j \in 1 .. n |-> clients[from[j]]]
          /\ owner' = owner \/ owner' \in 1 .. n
    BY <1>1
  <1>3. /\ pc = "remove" /\ pc' = "poll"
        /\ UNCHANGED <<message, message_owner, todo, acks, got, outcome, requests>>
    BY DEF clients_remove_finalized, network, bounds
  <1>4. clients \in Seq(Client) /\ Len(clients) \in Nat /\ Len(clients) <= MAX_CLIENTS /\ MAX_CLIENTS \in Nat
    BY Constants DEF IInv, Typed
  <1>5. /\ \A j \in 1 .. n : from[j] \in DOMAIN clients /\ clients'[j] = clients[from[j]]
        /\ DOMAIN clients' = 1 .. n
    BY <1>2
  <1>6. \A j, k \in 1 .. n : from[j] = from[k] => j = k
    <2>1. \A j, k \in 1 .. n : j < k => from[j] < from[k]
      BY <1>2 DEF Survivors
    <2>2. \A j \in 1 .. n : from[j] \in Int
      BY <1>4, <1>5
    <2> QED BY <2>1, <2>2
  <1>7. clients' \in Seq(Client) /\ Len(clients') = n
    <2>1. PICK f : f = clients'
      OBVIOUS
    <2>2. f \in [1 .. n -> Client] /\ n \in Nat
      BY <1>2, <1>4, <1>5, <2>1
    <2> QED BY <2>1, <2>2
  <1>8. Typed'
    <2>1. n <= MAX_CLIENTS /\ owner' \in 0 .. MAX_CLIENTS
      BY <1>2, <1>4 DEF IInv, Typed
    <2> QED BY <1>3, <1>7, <2>1 DEF IInv, Typed
  <1>9. Visits'
    BY <1>3 DEF IInv, Visits, VisitPcs
  <1>10. Numbered' /\ Arrived'
    BY <1>3, <1>5 DEF IInv, Numbered, Begun, Arrived
  <1>11. Distinct'
    BY <1>3, <1>5, <1>6 DEF IInv, Distinct
  <1>12. Timed'
    BY <1>5 DEF IInv, Timed
  <1> QED BY <1>8, <1>9, <1>10, <1>11, <1>12 DEF IInv

LEMMA NextInvariant ==
  ASSUME GuppyAssumption, IInv, [Next]_vars
  PROVE  IInv'
  <1>1. CASE Server
    <2>1. CASE \E n \in ChunkNumbers : server_process_traffic(n)
      BY <2>1, ProcessStep
    <2>2. CASE pc = "send" /\ \E arriving \in SUBSET Sent : server_send_exhausted(arriving) \/ server_send_some(arriving)
      BY <2>2, ExhaustedStep, SendSomeStep
    <2> QED BY <1>1, <2>1, <2>2, ControlSteps, FaultsStep, ReceiveStep, CompleteStep, RemoveStep DEF Server
  <1>2. CASE Events
    <2>1. CHUNK_SEND_REPEAT_TIME \in Seconds
      BY Constants DEF Seconds
    <2> QED BY <1>2, <2>1, PollStep, PollMessageStep DEF Events, Wake
  <1>3. CASE UNCHANGED vars
    <2>1. Visits'
      BY <1>3 DEF vars, control, IInv, Visits
    <2> QED BY <1>3, <2>1, ControlStep DEF vars
  <1> QED BY <1>1, <1>2, <1>3 DEF Next, Orphaned

------------------------------------------------------------------------------
(* A step changes the outcome of one client's transfer, if of any.         *)

LEMMA EndOfTransfer ==
  ASSUME GuppyAssumption, IInv, Next, NEW i \in DOMAIN clients,
         outcome[clients[i].transfer] = "open", outcome'[clients[i].transfer] \in {"served", "gave up"}
  PROVE  /\ i = cur
         /\ \/ outcome'[clients[i].transfer] = "served" /\ server_send_complete
            \/ outcome'[clients[i].transfer] = "gave up" /\ \E arriving : server_send_exhausted(arriving)
  <1>1. clients[i].transfer \in Transfers /\ outcome \in [Transfers -> Outcomes]
    BY ClientType, Fields DEF IInv, Typed
  <1>2. ASSUME pc \in VisitPcs, NEW how, outcome' = [outcome EXCEPT ![client.transfer] = how]
        PROVE  i = cur /\ outcome'[clients[i].transfer] = how
    <2>1. client.transfer = clients[i].transfer
      BY <1>1, <1>2, Visited
    <2> QED BY <1>1, <1>2, <2>1, Visited DEF IInv, Distinct
  <1>3. CASE outcome' = outcome
    BY <1>3
  <1>4. CASE TimedOut \/ server_receive_invalid \/ server_receive_failed \/ server_process_invalid
    <2>1. pc \in VisitPcs
      BY <1>4 DEF TimedOut, server_receive_invalid, server_receive_failed, server_process_invalid, VisitPcs
    <2>2. \E how \in {"timeout", "invalid", "failed"} : outcome' = [outcome EXCEPT ![client.transfer] = how]
      BY <1>4 DEF TimedOut, server_receive_invalid, server_receive_failed, server_process_invalid, Failure, Closed
    <2> QED BY <1>2, <2>1, <2>2
  <1>5. CASE server_send_complete
    <2>1. pc \in VisitPcs
      BY <1>5 DEF server_send_complete, MaySend, VisitPcs
    <2>2. \E how \in {"failed", "served"} : outcome' = [outcome EXCEPT ![client.transfer] = how]
      BY <1>5 DEF server_send_complete
    <2> QED BY <1>2, <1>5, <2>1, <2>2
  <1>6. ASSUME NEW arriving, server_send_exhausted(arriving)
        PROVE  i = cur /\ outcome'[clients[i].transfer] = "gave up"
    <2>1. pc \in VisitPcs
      BY <1>6 DEF server_send_exhausted, MaySend, VisitPcs
    <2>2. outcome' = [outcome EXCEPT ![client.transfer] = "gave up"]
      BY <1>6 DEF server_send_exhausted, Failure, Closed
    <2> QED BY <1>2, <2>1, <2>2
  <1>7. ASSUME NEW p \in Peers, NEW content, NEW refuse, NEW d, PollMessage(p, content, refuse, d)
        PROVE  outcome' = outcome
    <2>1. \/ outcome' = outcome
          \/ \E t : outcome' = [outcome EXCEPT ![t] = "open"]
      BY <1>7 DEF PollMessage, server_accept_message
    <2> QED BY <1>1, <2>1
  <1>8. CASE Server
    <2>1. CASE \/ (\E j \in todo : Visit(j)) \/ InTime \/ server_receive_data_guppy
               \/ (\E n \in ChunkNumbers : server_process_traffic(n)) \/ NotProcess \/ NotSend \/ Leave
               \/ clients_remove_finalized
      BY <1>3, <2>1 DEF Visit, InTime, server_receive_data_guppy, server_process_traffic, NotProcess, NotSend,
                        Leave, clients_remove_finalized
    <2>2. CASE pc = "send" /\ \E arriving \in SUBSET Sent : server_send_exhausted(arriving) \/ server_send_some(arriving)
      BY <1>3, <1>6, <2>2 DEF server_send_some
    <2> QED BY <1>4, <1>5, <1>8, <2>1, <2>2 DEF Server
  <1>9. CASE Events
    BY <1>3, <1>7, <1>9 DEF Events, Wake, Poll
  <1> QED BY <1>3, <1>8, <1>9 DEF Next, Orphaned, vars

LEMMA ServedOnly ==
  ASSUME GuppyAssumption, IInv, [Next]_vars
  PROVE  [ServedWhole]_vars
  <1> SUFFICES ASSUME Next, NEW i \in DOMAIN clients, Open(i), outcome'[clients[i].transfer] = "served"
               PROVE  got[clients[i].transfer] = DOMAIN clients[i].chunks
    BY DEF ServedWhole
  <1>1. i = cur /\ server_send_complete
    BY EndOfTransfer DEF Open
  <1>2. pc \in VisitPcs /\ AllAcknowledged
    BY <1>1 DEF server_send_complete, MaySend, VisitPcs
  <1>3. \A k \in DOMAIN client.chunks : client.chunks[k] \in Int /\ ~(client.chunks[k] >= 0)
    BY <1>2, Visited DEF AllAcknowledged, Unacknowledged
  <1>4. \A k \in DOMAIN client.chunks : k \in got[client.transfer]
    BY <1>2, <1>3, Visited
  <1> QED BY <1>1, <1>2, <1>4, Visited

LEMMA ExhaustedLate ==
  ASSUME GuppyAssumption, IInv, pc \in VisitPcs, Exhausted # {}
  PROVE  client.since >= Cap
  <1>1. PICK k \in DOMAIN client.chunks : client.chunks[k] >= CHUNK_SEND_REPEATS
    BY DEF Exhausted, Seen
  <1>2. PICK s : s = client.chunks[k]
    OBVIOUS
  <1>3. /\ CHUNK_SEND_REPEATS \in Nat \ {0} /\ CHUNK_SEND_REPEAT_TIME \in Nat /\ Cap \in Nat
        /\ client.age \in 0 .. CHUNK_SEND_REPEAT_TIME /\ client.since \in 0 .. Cap
        /\ s \in -1 .. CHUNK_SEND_REPEATS
        /\ s >= 1 => client.since = Cap \/ client.since >= (s - 1) * CHUNK_SEND_REPEAT_TIME + client.age
    BY <1>1, <1>2, Visited, Constants DEF Late
  <1>4. s = CHUNK_SEND_REPEATS /\ s >= 1
    <2>1. s >= CHUNK_SEND_REPEATS /\ s <= CHUNK_SEND_REPEATS /\ s \in Int /\ CHUNK_SEND_REPEATS \in Nat \ {0}
      BY <1>1, <1>2, <1>3
    <2> QED BY <2>1
  <1>5. client.since = Cap \/ client.since >= Cap + client.age
    BY <1>3, <1>4 DEF Cap
  <1> QED BY <1>3, <1>5

LEMMA GivenUpOnly ==
  ASSUME GuppyAssumption, IInv, [Next]_vars
  PROVE  [GivenUpLate]_vars
  <1> SUFFICES ASSUME Next, NEW i \in DOMAIN clients, Open(i), outcome'[clients[i].transfer] = "gave up"
               PROVE  clients[i].since >= Cap
    BY DEF GivenUpLate
  <1>1. i = cur /\ \E arriving : server_send_exhausted(arriving)
    BY EndOfTransfer DEF Open
  <1>2. pc \in VisitPcs /\ Exhausted # {}
    BY <1>1 DEF server_send_exhausted, MaySend, VisitPcs
  <1> QED BY <1>1, <1>2, ExhaustedLate, Visited

------------------------------------------------------------------------------
(* The message that waits in the shared buffer.  As long as no client was  *)
(* closed whose message waited, it came with this cycle of the loop, from  *)
(* the peer of a client that is still to be visited, or has not yet        *)
(* received in its visit.                                                  *)
Expected ==
  /\ pollin /\ message_owner \in DOMAIN clients
  /\ message_owner \in todo \/ (pc \in {"timeouts", "receive"} /\ cur = message_owner)
  /\ clients[message_owner].transfer[1] = message[1]
Awaited == ~left => (message_owner # 0 => Expected)

(* Between the cycles, none waits. *)
LEMMA NoneWaits ==
  ASSUME IInv, Awaited, ~left, pc \in {"poll", "remove"}
  PROVE  message_owner = 0
  BY DEF IInv, Visits, Awaited, Expected

(* A step after which the same message waits, or none, for the same peer,  *)
(* and the client that it waits for is still to be visited.                *)
LEMMA StillAwaited ==
  ASSUME Awaited, ~left' => ~left, message' = message, message_owner' \in {0, message_owner},
         message_owner' # 0 => pollin' = pollin,
         DOMAIN clients' = DOMAIN clients,
         \A i \in DOMAIN clients : clients'[i].transfer = clients[i].transfer,
         ~left /\ message_owner' # 0 =>
           message_owner \in todo' \/ (pc' \in {"timeouts", "receive"} /\ cur' = message_owner)
  PROVE  Awaited'
  BY DEF Awaited, Expected

(* A message waits only for a client that is not yet visited, unless the   *)
(* visit has just begun.                                                   *)
LEMMA WaitsElsewhere ==
  ASSUME Awaited, ~left, message_owner # 0, pc \notin {"timeouts", "receive"} \/ cur # message_owner
  PROVE  message_owner \in todo
  BY DEF Awaited, Expected

LEMMA ClosedAwaited ==
  ASSUME GuppyAssumption, IInv, Awaited, pc \in VisitPcs, pc \notin {"timeouts", "receive"} \/ cur # message_owner,
         clients' = [clients EXCEPT ![cur] = [@ EXCEPT !.dead = TRUE, !.stream = FALSE, !.rest = FALSE]],
         UNCHANGED <<message, message_owner, todo, pollin>>, ~left' => ~left
  PROVE  Awaited'
  <1>1. clients \in Seq(Client) /\ cur \in DOMAIN clients /\ clients[cur] \in Client
    BY Visited DEF IInv, Typed
  <1>2. /\ DOMAIN clients' = DOMAIN clients
        /\ \A i \in DOMAIN clients : clients'[i].transfer = clients[i].transfer
    <2>1. PICK x : x = [clients[cur] EXCEPT !.dead = TRUE, !.stream = FALSE, !.rest = FALSE]
      OBVIOUS
    <2>2. x.transfer = clients[cur].transfer
      BY <1>1, <2>1 DEF Client
    <2>3. clients' = [clients EXCEPT ![cur] = x]
      BY <2>1
    <2> QED BY <1>1, <2>2, <2>3
  <1>3. ~left /\ message_owner # 0 => message_owner \in todo
    BY WaitsElsewhere
  <1> QED BY <1>2, <1>3, StillAwaited

LEMMA PollAwaited ==
  ASSUME GuppyAssumption, IInv, Awaited, NEW d \in Seconds, Poll(d)
  PROVE  Awaited'
  <1>1. left' = left /\ message_owner' = message_owner
    BY DEF Poll
  <1>2. ~left => message_owner = 0
    BY NoneWaits DEF Poll
  <1> QED BY <1>1, <1>2 DEF Awaited

LEMMA PollMessageAwaited ==
  ASSUME GuppyAssumption, IInv, Awaited, NEW p \in Peers, NEW content \in acks \cup {Request},
         NEW refuse \in BOOLEAN, NEW d \in Seconds, PollMessage(p, content, refuse, d)
  PROVE  Awaited'
  <1> DEFINE known == {i \in DOMAIN clients : clients[i].transfer[1] = p}
             m == Cardinality({n \in 1 .. MaxRequests : outcome[<<p, n>>] # "new"})
             t == <<p, m + 1>>
             refused == content # Request \/ refuse \/ Len(clients) >= MAX_CLIENTS
  <1> SUFFICES ASSUME ~left PROVE Awaited'
    BY DEF PollMessage, Awaited
  <1>1. message_owner = 0
    BY NoneWaits DEF PollMessage
  <1>2. /\ server_accept_message(p, content, refuse, d)
        /\ pollin' = TRUE /\ todo' = DOMAIN clients'
        /\ pc' = IF clients' = <<>> THEN "poll" ELSE "visit"
    BY <1>1 DEF PollMessage
  <1>3. message' = <<p, content>>
    BY <1>2 DEF server_accept_message
  <1>5. message'[1] = p
    BY <1>3
  <1>6. /\ Elapsed(d) \in Seq(Client) /\ DOMAIN Elapsed(d) = DOMAIN clients
        /\ \A i \in DOMAIN clients : Alike(clients[i], Elapsed(d)[i])
    BY OlderClients
  <1>7. CASE known # {}
    <2>1. message_owner' = Min(known) /\ clients' = Elapsed(d)
      BY <1>2, <1>7 DEF server_accept_message
    <2>2. Min(known) \in known
      BY <1>7, KnownPlace
    <2>3. PICK i : i = Min(known)
      OBVIOUS
    <2>4. i \in DOMAIN clients /\ clients[i].transfer[1] = p
      BY <2>2, <2>3
    <2>5. i \in DOMAIN clients' /\ clients'[i].transfer[1] = p
      BY <1>6, <2>1, <2>4 DEF Alike
    <2> QED BY <1>2, <1>5, <2>1, <2>3, <2>5 DEF Awaited, Expected
  <1>8. CASE known = {} /\ refused
    <2>1. message_owner' = message_owner
      BY <1>2, <1>8 DEF server_accept_message
    <2> QED BY <1>1, <1>2, <2>1 DEF Awaited
  <1>9. CASE known = {} /\ ~refused
    <2>1. clients' = Append(Elapsed(d), NewClient(t)) /\ message_owner' = Len(clients')
      BY <1>2, <1>9 DEF server_accept_message
    <2>2. PICK new : new = NewClient(t)
      OBVIOUS
    <2>3. new.transfer[1] = p
      BY <2>2 DEF NewClient
    <2>4. PICK older : older = Elapsed(d)
      OBVIOUS
    <2>5. older \in Seq(Client) /\ clients' = Append(older, new)
      BY <1>6, <2>1, <2>2, <2>4
    <2>6. Len(clients') \in DOMAIN clients' /\ clients'[Len(clients')] = new
      BY <2>5
    <2>7. clients'[message_owner'].transfer[1] = p /\ message_owner' \in DOMAIN clients'
      BY <2>1, <2>3, <2>6
    <2> QED BY <1>2, <1>5, <2>7 DEF Awaited, Expected
  <1> QED BY <1>7, <1>8, <1>9

LEMMA ControlAwaited ==
  ASSUME GuppyAssumption, IInv, Awaited,
         (\E i \in todo : Visit(i)) \/ InTime \/ NotProcess \/ NotSend \/ Leave
  PROVE  Awaited'
  <1>1. UNCHANGED <<clients, message, message_owner, pollin, left>>
    BY DEF Visit, InTime, NotProcess, NotSend, Leave
  <1>2. CASE message_owner = 0 \/ left
    BY <1>1, <1>2 DEF Awaited
  <1>3. CASE message_owner # 0 /\ ~left
    <2>2. CASE \E i \in todo : Visit(i)
      <3>1. PICK i \in todo : Visit(i)
        BY <2>2
      <3>2. message_owner \in todo
        BY <1>3, <3>1, WaitsElsewhere DEF Visit
      <3>3. message_owner \in todo' \/ (pc' \in {"timeouts", "receive"} /\ cur' = message_owner)
        BY <3>1, <3>2 DEF Visit
      <3> QED BY <1>1, <3>3, StillAwaited
    <2>3. CASE InTime
      <3>1. message_owner \in todo' \/ (pc' \in {"timeouts", "receive"} /\ cur' = message_owner)
        BY <1>3, <2>3 DEF InTime, Awaited, Expected
      <3> QED BY <1>1, <3>1, StillAwaited
    <2>4. CASE NotProcess \/ NotSend \/ Leave
      <3>1. message_owner \in todo /\ todo' = todo
        BY <1>3, <2>4, WaitsElsewhere DEF NotProcess, NotSend, Leave
      <3> QED BY <1>1, <3>1, StillAwaited
    <2> QED BY <2>2, <2>3, <2>4
  <1> QED BY <1>2, <1>3

LEMMA FailureAwaited ==
  ASSUME GuppyAssumption, IInv, Awaited,
         TimedOut \/ server_receive_invalid \/ server_receive_failed \/ server_process_invalid
  PROVE  Awaited'
  <1>1. pc \in VisitPcs
    BY DEF TimedOut, server_receive_invalid, server_receive_failed, server_process_invalid, VisitPcs
  <1>2. /\ clients' = [clients EXCEPT ![cur] = [@ EXCEPT !.dead = TRUE, !.stream = FALSE, !.rest = FALSE]]
        /\ left' = (left \/ message_owner = cur)
        /\ UNCHANGED <<message, message_owner, todo, pollin>>
    BY DEF TimedOut, server_receive_invalid, server_receive_failed, server_process_invalid, Failure, Closed
  <1>3. CASE message_owner = cur
    BY <1>2, <1>3 DEF Awaited
  <1>4. CASE message_owner # cur
    <2>1. ~left' => ~left
      BY <1>2
    <2> QED BY <1>1, <1>2, <1>4, <2>1, ClosedAwaited
  <1> QED BY <1>3, <1>4

LEMMA ReceiveAwaited ==
  ASSUME GuppyAssumption, IInv, Awaited, server_receive_data_guppy
  PROVE  Awaited'
  <1>1. /\ pc = "receive" /\ pc' = "process" /\ UNCHANGED <<message, todo, cur, pollin>>
    BY DEF server_receive_data_guppy
  <1>2. CASE message_owner' = 0
    BY <1>1, <1>2 DEF Awaited
  <1>3. CASE (~pollin \/ message_owner # cur) /\ UNCHANGED <<clients, message_owner, left>>
    <2>1. ~left /\ message_owner # 0 => message_owner # cur
      BY <1>1, <1>3 DEF Awaited, Expected
    <2>2. ~left /\ message_owner # 0 => message_owner \in todo
      BY <1>1, <1>3, <2>1, WaitsElsewhere
    <2> QED BY <1>1, <1>3, <2>2, StillAwaited
  <1> QED BY <1>2, <1>3 DEF server_receive_data_guppy, Taken

LEMMA ProcessAwaited ==
  ASSUME GuppyAssumption, IInv, Awaited, NEW n \in ChunkNumbers, server_process_traffic(n)
  PROVE  Awaited'
  <1>1. pc = "process" /\ pc' = "send" /\ UNCHANGED <<message, message_owner, todo, pollin, left>>
    BY DEF server_process_traffic
  <1>2. cur \in DOMAIN clients /\ client = clients[cur] /\ client \in Client
    BY <1>1, Visited DEF VisitPcs
  <1>3. /\ DOMAIN clients' = DOMAIN clients
        /\ \A i \in DOMAIN clients : clients'[i].transfer = clients[i].transfer
    <2>1. ASSUME NEW i \in DOMAIN clients PROVE clients'[i].transfer = clients[i].transfer
      <3>1. clients[i] \in Client
        BY ClientType
      <3>2. \/ clients'[i] = clients[i] \/ clients'[i] = [clients[i] EXCEPT !.stream = TRUE]
            \/ i = cur /\ clients'[i] = [client EXCEPT !.end = TRUE, !.rest = FALSE, !.chunks = [k \in 1 .. n |-> 0]]
        BY DEF server_process_traffic
      <3> QED BY <1>2, <3>1, <3>2 DEF Client
    <2> QED BY <2>1 DEF server_process_traffic
  <1>4. ~left /\ message_owner # 0 => message_owner \in todo
    BY <1>1, WaitsElsewhere
  <1> QED BY <1>1, <1>3, <1>4, StillAwaited

LEMMA SendAwaited ==
  ASSUME GuppyAssumption, IInv, Awaited, NEW arriving,
         server_send_exhausted(arriving) \/ server_send_some(arriving) \/ server_send_complete
  PROVE  Awaited'
  <1>1. pc = "send" /\ pc \in VisitPcs
    <2>1. MaySend
      BY Zenon DEF server_send_exhausted, server_send_some, server_send_complete
    <2> QED BY <2>1 DEF MaySend, VisitPcs
  <1>2. CASE server_send_exhausted(arriving) \/ server_send_complete
    <2>1. clients' = [clients EXCEPT ![cur] = [@ EXCEPT !.dead = TRUE, !.stream = FALSE, !.rest = FALSE]]
      BY <1>2, Zenon DEF server_send_exhausted, server_send_complete, Failure, Closed
    <2>2. UNCHANGED <<message, message_owner, todo, pollin>>
      BY <1>2, Zenon DEF server_send_exhausted, server_send_complete, Failure
    <2>3. ~left' => ~left
      BY <1>2, Zenon DEF server_send_exhausted, server_send_complete, Failure, Closed
    <2> QED BY <1>1, <2>1, <2>2, <2>3, ClosedAwaited
  <1>3. CASE server_send_some(arriving)
    <2>1. pc' = "leave" /\ UNCHANGED <<message, message_owner, todo, pollin, left>>
      BY <1>3 DEF server_send_some
    <2>2. cur \in DOMAIN clients /\ client = clients[cur] /\ client \in Client
      BY <1>1, Visited
    <2>3. PICK chunks, age : clients' = [clients EXCEPT ![cur] = [client EXCEPT !.chunks = chunks, !.age = age]]
      BY <1>3, Zenon DEF server_send_some
    <2>4. PICK x : x = [client EXCEPT !.chunks = chunks, !.age = age]
      OBVIOUS
    <2>5. x.transfer = client.transfer
      BY <2>2, <2>4 DEF Client
    <2>6. /\ DOMAIN clients' = DOMAIN clients
          /\ \A i \in DOMAIN clients : clients'[i].transfer = clients[i].transfer
      BY <2>2, <2>3, <2>4, <2>5
    <2>7. ~left /\ message_owner # 0 => message_owner \in todo
      BY <1>1, WaitsElsewhere
    <2> QED BY <1>1, <2>1, <2>6, <2>7, StillAwaited
  <1> QED BY <1>2, <1>3

LEMMA AwaitedInvariant ==
  ASSUME GuppyAssumption
  PROVE  /\ Init => Awaited
         /\ IInv /\ Awaited /\ [Next]_vars => Awaited'
         /\ IInv /\ Awaited => MessageTaken
  <1>1. ASSUME IInv, Awaited, Server PROVE Awaited'
    <2>1. CASE \E n \in ChunkNumbers : server_process_traffic(n)
      BY <1>1, <2>1, ProcessAwaited
    <2>2. CASE pc = "send" /\ \E arriving \in SUBSET Sent : server_send_exhausted(arriving) \/ server_send_some(arriving)
      BY <1>1, <2>2, SendAwaited
    <2>3. CASE server_send_complete
      BY <1>1, <2>3, SendAwaited
    <2>4. CASE clients_remove_finalized
      <3>1. ~left => message_owner = 0
        BY <1>1, <2>4, NoneWaits DEF clients_remove_finalized
      <3>2. message_owner' = message_owner /\ left' = left
        BY <2>4 DEF clients_remove_finalized
      <3> QED BY <3>1, <3>2 DEF Awaited
    <2> QED BY <1>1, <2>1, <2>2, <2>3, <2>4, ControlAwaited, FailureAwaited, ReceiveAwaited DEF Server
  <1>2. ASSUME IInv, Awaited, Events PROVE Awaited'
    <2>1. CHUNK_SEND_REPEAT_TIME \in Seconds
      BY Constants DEF Seconds
    <2> QED BY <1>2, <2>1, PollAwaited, PollMessageAwaited DEF Events, Wake
  <1>3. ASSUME Awaited, UNCHANGED vars PROVE Awaited'
    BY <1>3 DEF vars, control, Awaited, Expected
  <1>4. Init => Awaited
    BY DEF Init, Awaited
  <1>5. IInv /\ Awaited => MessageTaken
    BY NoneWaits DEF MessageTaken, Awaited, Expected
  <1> QED BY <1>1, <1>2, <1>3, <1>4, <1>5 DEF Next, Orphaned

------------------------------------------------------------------------------
(***************************************************************************)
(* The indices, the repetitions and the ages stay in their ranges, and the *)
(* clients within MAX_CLIENTS (accept.c, low_level.c).                     *)
(***************************************************************************)
THEOREM GuppyTypeOK ==
  ASSUME GuppyAssumption
  PROVE  Spec => []TypeOK
  <1>1. Init => IInv
    BY InitInvariant
  <1>2. IInv /\ [Next]_vars => IInv'
    BY NextInvariant
  <1>3. IInv => TypeOK
    BY IInvImpliesTypeOK
  <1> QED BY <1>1, <1>2, <1>3, PTL DEF Spec

(***************************************************************************)
(* server_send_message closes a client as served only when its peer has    *)
(* every chunk, whatever is lost, repeated, delayed or left from an        *)
(* earlier transfer.                                                       *)
(***************************************************************************)
THEOREM GuppyDelivered ==
  ASSUME GuppyAssumption
  PROVE  Spec => Delivered
  <1>1. Init => IInv
    BY InitInvariant
  <1>2. IInv /\ [Next]_vars => IInv'
    BY NextInvariant
  <1>3. IInv /\ [Next]_vars => [ServedWhole]_vars
    BY ServedOnly
  <1> QED BY <1>1, <1>2, <1>3, PTL DEF Spec, Delivered

(***************************************************************************)
(* server_send_message gives a peer up only after all repetitions and the  *)
(* time between them, however often other events wake the server.          *)
(***************************************************************************)
THEOREM GuppyPatient ==
  ASSUME GuppyAssumption
  PROVE  Spec => Patient
  <1>1. Init => IInv
    BY InitInvariant
  <1>2. IInv /\ [Next]_vars => IInv'
    BY NextInvariant
  <1>3. IInv /\ [Next]_vars => [GivenUpLate]_vars
    BY GivenUpOnly
  <1> QED BY <1>1, <1>2, <1>3, PTL DEF Spec, Patient

------------------------------------------------------------------------------
(* The inductive invariant of the clock.                                   *)

\* The four stamps, by name.
RequestStamp == "last_request_complete"
InputStamp == "last_request_stream_not_empty"
RoomStamp == "last_response_stream_not_full"
ResponseStamp == "last_response_complete"

Ends == Nat \ {0}
Records ==
  [open : BOOLEAN, whole : 0 .. MaxWaiting, part : BOOLEAN, output : Seq(Ends),
   age : [T!Stamps -> Nat], empty : Nat, pending : Nat, reason : T!Stamps \cup {T!None}]

InVisit == {"receive", "process", "send", "leave"}
Visiting(c) == pc \in InVisit /\ c = cur

ClockTypes ==
  /\ clock \in [Clients -> Records]
  /\ \A c \in Clients, s \in T!Stamps : clock[c].age[s] <= T!Limit[s] + 1
  /\ \A c \in Clients : T!client_response_stream_size(c) < MAX_RESPONSE_STREAM_SIZE + MaxResponse
  /\ owner \in Clients \cup {T!None} /\ todo \subseteq Clients /\ cur \in Clients \cup {T!None}
  /\ remaining \in -1 .. T!Never /\ waited \in 0 .. T!Never
  /\ pc \in InVisit \cup {"poll", "visit"}

\* poll() has waited only when no visit is under way, and the clients to visit are open.
Rounds ==
  /\ pc = "poll" => todo = {}
  /\ pc # "poll" => waited = 0
  /\ \A c \in todo : clock[c].open
  /\ pc \in InVisit => cur \in Clients /\ clock[cur].open /\ cur \notin todo
  /\ pc = "leave" => clock[cur].whole = 0 \/ T!client_response_stream_size(cur) >= MAX_RESPONSE_STREAM_SIZE

\* What a stamp has left of its limit; -1 when it is over.
LeftOf(c, s) == T!Limit[s] - clock[c].age[s]

\* poll() ends in time for c.
Armed(c) ==
  /\ remaining \in 0 .. T!Longest => \A s \in T!Guarded(c) : remaining - waited <= LeftOf(c, s)
  /\ remaining = T!Never => T!Guarded(c) = {}

\* The owner of the shared buffer has one response.  The time of its request does not
\* count yet, and is over no sooner than the time of the response, which does.
Owning(c) == Len(clock[c].output) = 1 /\ LeftOf(c, ResponseStamp) <= LeftOf(c, RequestStamp)

\* n times the output was full.
Waits(n) == n * MAX_FULL_RESPONSE_STREAM_TIME

\* The requests of c wait since its output is full; all before them waited in turn.
Waiting(c) == clock[c].age[InputStamp] <= clock[c].age[RoomStamp] + Waits(MaxWaiting - 1 - clock[c].whole)
Full(c) == T!client_response_stream_size(c) >= MAX_RESPONSE_STREAM_SIZE /\ clock[c].whole < MaxWaiting
InTurn(c) ==
  IF Visiting(c)
  THEN /\ clock[c].age[InputStamp] <= Waits(MaxWaiting - clock[c].whole)
       /\ T!client_response_stream_size(c) >= MAX_RESPONSE_STREAM_SIZE => Full(c) /\ Waiting(c)
  ELSE Full(c) /\ (clock[c].age[RoomStamp] > MAX_FULL_RESPONSE_STREAM_TIME \/ Waiting(c))

Kept(c) ==
  /\ clock[c].reason = T!None
  /\ c \notin todo /\ ~Visiting(c) => Armed(c)
  /\ owner = c => Owning(c)
  /\ ~T!HasInput(c) => clock[c].age[InputStamp] <= clock[c].empty + Waits(MaxWaiting - 1)
  /\ clock[c].whole > 0 => InTurn(c)

ClosedLate(c) ==
  clock[c].reason = InputStamp => clock[c].empty + Waits(MaxWaiting - 1) > MAX_EMPTY_REQUEST_STREAM_TIME

ClockInv ==
  /\ ClockTypes /\ Rounds
  /\ \A c \in Clients : ClosedLate(c) /\ (clock[c].open => Kept(c))

LEMMA LargestNumber ==
  ASSUME NEW S \in SUBSET Int, S # {}, NEW b \in Int, \A x \in S : x <= b
  PROVE  T!Max(S) \in S /\ \A x \in S : T!Max(S) >= x
<1>1. {b - x : x \in S} \in SUBSET Nat /\ {b - x : x \in S} # {}
  <2>1. \A x \in S : b - x \in Nat
    OBVIOUS
  <2> QED
    BY <2>1
<1>2. PICK d \in {b - x : x \in S} : \A e \in {b - x : x \in S} : d <= e
  BY <1>1, SmallestNumber
<1>3. PICK m \in S : d = b - m
  BY <1>2
<1>4. \A x \in S : m >= x
  BY <1>2, <1>3
<1> QED
  BY <1>3, <1>4 DEF T!Max

LEMMA LeastNumber ==
  ASSUME NEW S \in SUBSET Int, S # {}, NEW b \in Int, \A x \in S : b <= x
  PROVE  T!Min(S) \in S /\ \A x \in S : T!Min(S) <= x
<1>1. {x - b : x \in S} \in SUBSET Nat /\ {x - b : x \in S} # {}
  <2>1. \A x \in S : x - b \in Nat
    OBVIOUS
  <2> QED
    BY <2>1
<1>2. PICK d \in {x - b : x \in S} : \A e \in {x - b : x \in S} : d <= e
  BY <1>1, SmallestNumber
<1>3. PICK m \in S : d = m - b
  BY <1>2
<1>4. ASSUME NEW x \in S PROVE m <= x
  <2>1. x - b \in {y - b : y \in S}
    OBVIOUS
  <2>2. m - b <= x - b
    BY <1>2, <1>3, <2>1
  <2> QED
    BY <2>2
<1> QED
  BY <1>3, <1>4 DEF T!Min

LEMMA StampLimits ==
  ASSUME T!TimeoutsAssumption
  PROVE  /\ T!Stamps = {RequestStamp, InputStamp, RoomStamp, ResponseStamp}
         /\ T!Limit[RequestStamp] = MAX_INCOMPLETE_REQUEST_TIME /\ T!Limit[InputStamp] = MAX_EMPTY_REQUEST_STREAM_TIME
         /\ T!Limit[RoomStamp] = MAX_FULL_RESPONSE_STREAM_TIME /\ T!Limit[ResponseStamp] = MAX_INCOMPLETE_RESPONSE_TIME
         /\ \A s \in T!Stamps : T!Limit[s] \in Nat \ {0} /\ T!Limit[s] <= T!Longest
         /\ T!Longest \in Nat /\ T!Never = T!Longest + 1 /\ T!Longest \in {T!Limit[s] : s \in T!Stamps}
<1>1. T!Stamps = {RequestStamp, InputStamp, RoomStamp, ResponseStamp}
  BY DEF T!Stamps, T!Limit, RequestStamp, InputStamp, RoomStamp, ResponseStamp
<1>2. /\ T!Limit[RequestStamp] = MAX_INCOMPLETE_REQUEST_TIME /\ T!Limit[InputStamp] = MAX_EMPTY_REQUEST_STREAM_TIME
      /\ T!Limit[RoomStamp] = MAX_FULL_RESPONSE_STREAM_TIME /\ T!Limit[ResponseStamp] = MAX_INCOMPLETE_RESPONSE_TIME
  BY DEF T!Limit, RequestStamp, InputStamp, RoomStamp, ResponseStamp
<1>3. \A s \in T!Stamps : T!Limit[s] \in Nat \ {0}
  BY DEF T!TimeoutsAssumption
<1> DEFINE S == {T!Limit[s] : s \in T!Stamps}
           b == T!Limit[RequestStamp] + T!Limit[InputStamp] + T!Limit[RoomStamp] + T!Limit[ResponseStamp]
<1>4. S \in SUBSET Int /\ S # {} /\ b \in Int /\ \A x \in S : x <= b
  BY <1>1, <1>3
<1>5. T!Longest = T!Max(S)
  BY DEF T!Longest
<1>6. T!Longest \in S /\ \A x \in S : T!Longest >= x
  <2> HIDE DEF S, b
  <2> QED
    BY <1>4, <1>5, LargestNumber
<1>7. T!Never = T!Longest + 1
  BY DEF T!Never
<1> QED
  BY <1>1, <1>2, <1>3, <1>6, <1>7

LEMMA WaitsGrow ==
  ASSUME T!TimeoutsAssumption
  PROVE  /\ Waits(0) = 0
         /\ \A n \in Nat : Waits(n) \in Nat /\ Waits(n + 1) = Waits(n) + MAX_FULL_RESPONSE_STREAM_TIME
<1>1. MAX_FULL_RESPONSE_STREAM_TIME \in Nat
  BY StampLimits
<1> QED
  BY <1>1 DEF Waits

\* Sending k bytes takes them from the end of the output.
LEMMA OutputSent ==
  ASSUME NEW o \in Seq(Ends), NEW k \in 0 .. T!Size(o)
  PROVE  /\ T!Rest(o, k) \in Seq(Ends) /\ Len(T!Rest(o, k)) <= Len(o)
         /\ T!Size(T!Rest(o, k)) = T!Size(o) - k
<1> DEFINE S == {0} \cup {j \in DOMAIN o : o[j] <= k}
<1>1. S \in SUBSET Int /\ S # {} /\ Len(o) \in Int /\ \A x \in S : x <= Len(o)
  OBVIOUS
<1>2. PICK m \in Int : m = T!Max(S) /\ m \in S /\ \A x \in S : m >= x
  <2> HIDE DEF S
  <2>1. T!Max(S) \in S /\ \A x \in S : T!Max(S) >= x
    BY <1>1, LargestNumber
  <2> QED
    BY <1>1, <2>1
<1>3. k \in Nat /\ \A j \in 1 .. Len(o) : o[j] \in Ends
  BY DEF T!Size, Ends
<1>4. m \in 0 .. Len(o) /\ (m = 0 \/ o[m] <= k) /\ \A j \in m + 1 .. Len(o) : o[j] > k
  <2>1. m \in 0 .. Len(o) /\ (m = 0 \/ o[m] <= k)
    BY <1>2
  <2>2. ASSUME NEW j \in m + 1 .. Len(o) PROVE o[j] > k
    <3>1. j \in 1 .. Len(o) /\ j \notin S
      BY <1>2, <2>1
    <3> QED
      BY <1>3, <3>1 DEF Ends
  <2> QED
    BY <2>1, <2>2
<1>5. T!Rest(o, k) = [j \in 1 .. Len(o) - m |-> o[m + j] - k]
  BY <1>2 DEF T!Rest
<1>6. \A j \in 1 .. Len(o) - m : o[m + j] - k \in Ends
  BY <1>4, <1>3 DEF Ends
<1>7. T!Rest(o, k) \in Seq(Ends) /\ Len(T!Rest(o, k)) = Len(o) - m
  BY <1>4, <1>5, <1>6
<1>8. CASE m = Len(o)
  BY <1>4, <1>3, <1>7, <1>8 DEF T!Size, Ends
<1>9. CASE m < Len(o)
  <2>1. T!Rest(o, k)[Len(o) - m] = o[Len(o)] - k
    BY <1>4, <1>5, <1>9
  <2>2. o # <<>> /\ T!Rest(o, k) # <<>>
    BY <1>4, <1>7, <1>9
  <2> QED
    BY <1>4, <1>7, <2>1, <2>2 DEF T!Size
<1> QED
  BY <1>4, <1>7, <1>8, <1>9

\* The stamps that count, one by one.
Counts(s, bytes, owned, input) ==
  \/ s = RequestStamp /\ bytes > 0 /\ ~owned
  \/ s = InputStamp /\ ~input
  \/ s = RoomStamp /\ bytes >= MAX_RESPONSE_STREAM_SIZE
  \/ s = ResponseStamp /\ bytes > 0

LEMMA GuardedAre ==
  ASSUME T!TimeoutsAssumption, NEW c
  PROVE  T!Guarded(c) = {s \in T!Stamps :
           Counts(s, T!client_response_stream_size(c), owner = c, T!HasInput(c))}
<1>1. T!Stamps = {RequestStamp, InputStamp, RoomStamp, ResponseStamp}
  BY StampLimits
<1> QED
  BY <1>1 DEF T!Guarded, Counts, T!client_response_stream_size, RequestStamp, InputStamp, RoomStamp, ResponseStamp

LEMMA GuardedBecome ==
  ASSUME T!TimeoutsAssumption, NEW c
  PROVE  T!Guarded(c)' = {s \in T!Stamps :
           Counts(s, T!client_response_stream_size(c)', (owner = c)', T!HasInput(c)')}
<1>1. T!Stamps = {RequestStamp, InputStamp, RoomStamp, ResponseStamp}
  BY StampLimits
<1> QED
  BY <1>1 DEF T!Guarded, Counts, T!client_response_stream_size, RequestStamp, InputStamp, RoomStamp, ResponseStamp

\* What the fields of a client are.
LEMMA StampFields ==
  ASSUME T!TimeoutsAssumption, ClockTypes, NEW c \in Clients
  PROVE  /\ clock[c] \in Records /\ clock[c].open \in BOOLEAN /\ clock[c].part \in BOOLEAN
         /\ clock[c].whole \in 0 .. MaxWaiting /\ clock[c].output \in Seq(Ends)
         /\ clock[c].age \in [T!Stamps -> Nat]
         /\ \A s \in T!Stamps : clock[c].age[s] \in Nat /\ LeftOf(c, s) \in -1 .. T!Limit[s]
         /\ clock[c].empty \in Nat /\ clock[c].pending \in Nat
         /\ clock[c].reason \in T!Stamps \cup {T!None}
         /\ T!client_response_stream_size(c) \in Nat
<1>1. clock[c] \in Records
  BY DEF ClockTypes
<1>2. /\ clock[c].open \in BOOLEAN /\ clock[c].part \in BOOLEAN
      /\ clock[c].whole \in 0 .. MaxWaiting /\ clock[c].output \in Seq(Ends)
      /\ clock[c].age \in [T!Stamps -> Nat]
      /\ clock[c].empty \in Nat /\ clock[c].pending \in Nat
      /\ clock[c].reason \in T!Stamps \cup {T!None}
  BY <1>1 DEF Records
<1>3. ASSUME NEW s \in T!Stamps
      PROVE  clock[c].age[s] \in Nat /\ LeftOf(c, s) \in -1 .. T!Limit[s]
  <2>1. clock[c].age[s] \in Nat /\ clock[c].age[s] <= T!Limit[s] + 1 /\ T!Limit[s] \in Nat
    BY <1>2, StampLimits DEF ClockTypes
  <2> QED
    BY <2>1 DEF LeftOf
<1>4. T!client_response_stream_size(c) \in Nat
  <2>1. PICK o \in Seq(Ends) : o = clock[c].output
    BY <1>2
  <2>2. T!Size(o) \in Nat
    BY DEF T!Size, Ends
  <2> QED
    BY <2>1, <2>2 DEF T!client_response_stream_size
<1> QED
  BY <1>1, <1>2, <1>3, <1>4

LEMMA ArmIs ==
  ASSUME T!TimeoutsAssumption, ClockTypes, NEW c \in Clients
  PROVE  /\ T!Arm(c) \in -1 .. T!Never /\ T!Arm(c) <= remaining
         /\ \A s \in T!Guarded(c) : T!Arm(c) <= LeftOf(c, s)
         /\ T!Arm(c) = remaining \/ \E s \in T!Guarded(c) : T!Arm(c) = LeftOf(c, s)
<1> DEFINE S == {remaining} \cup {T!Limit[s] - clock[c].age[s] : s \in T!Guarded(c)}
<1>1. /\ T!Longest \in Nat /\ T!Never = T!Longest + 1
      /\ \A s \in T!Stamps : T!Limit[s] \in Nat /\ T!Limit[s] <= T!Longest
  BY StampLimits
<1>2. T!Guarded(c) \subseteq T!Stamps
  BY GuardedAre
<1>3. ASSUME NEW s \in T!Guarded(c)
      PROVE  T!Limit[s] - clock[c].age[s] \in -1 .. T!Never /\ LeftOf(c, s) = T!Limit[s] - clock[c].age[s]
  BY <1>1, <1>2, StampFields DEF LeftOf
<1>4. S \in SUBSET Int /\ S # {} /\ \A x \in S : -1 <= x /\ x \in -1 .. T!Never
  BY <1>1, <1>3 DEF ClockTypes
<1>5. T!Arm(c) = T!Min(S)
  BY DEF T!Arm
<1>6. T!Arm(c) \in S /\ \A x \in S : T!Arm(c) <= x
  <2> HIDE DEF S
  <2> QED
    BY <1>4, <1>5, LeastNumber
<1>7. \A s \in T!Guarded(c) : T!Arm(c) <= LeftOf(c, s)
  BY <1>3, <1>6
<1>8. T!Arm(c) = remaining \/ \E s \in T!Guarded(c) : T!Arm(c) = LeftOf(c, s)
  BY <1>3, <1>6
<1> QED
  BY <1>4, <1>6, <1>7, <1>8

LEMMA ClockInit == ASSUME T!TimeoutsAssumption, T!Init PROVE ClockInv
<1>1. /\ T!Longest \in Nat /\ T!Never = T!Longest + 1
      /\ T!Stamps = {RequestStamp, InputStamp, RoomStamp, ResponseStamp}
      /\ \A s \in T!Stamps : T!Limit[s] \in Nat \ {0} /\ T!Limit[s] <= T!Longest
      /\ T!Limit[InputStamp] = MAX_EMPTY_REQUEST_STREAM_TIME
  BY StampLimits
<1>2. MAX_RESPONSE_STREAM_SIZE \in Nat \ {0} /\ MaxResponse \in Nat \ {0} /\ MaxWaiting \in Nat \ {0}
  BY DEF T!TimeoutsAssumption
<1>3. /\ clock = [c \in Clients |-> T!NewClient] /\ owner = T!None /\ pc = "poll" /\ todo = {}
      /\ cur = T!None /\ saturated = FALSE /\ remaining = MAX_EMPTY_REQUEST_STREAM_TIME /\ waited = 0
  BY DEF T!Init
<1>4. ASSUME NEW c \in Clients
      PROVE  /\ clock[c] = T!NewClient /\ clock[c].open = TRUE
             /\ clock[c].whole = 0 /\ clock[c].part = FALSE /\ clock[c].output = <<>>
             /\ clock[c].empty = 0 /\ clock[c].pending = 0 /\ clock[c].reason = T!None
             /\ clock[c].age = [s \in T!Stamps |-> 0]
  BY <1>3 DEF T!NewClient
<1>5. ASSUME NEW c \in Clients
      PROVE  /\ clock[c] \in Records /\ \A s \in T!Stamps : clock[c].age[s] = 0
             /\ T!client_response_stream_size(c) = 0 /\ ~T!HasInput(c)
  <2>1. clock[c] = [open |-> TRUE, whole |-> 0, part |-> FALSE, output |-> <<>>,
                     age |-> [s \in T!Stamps |-> 0], empty |-> 0, pending |-> 0, reason |-> T!None]
    BY <1>4 DEF T!NewClient
  <2>2. [s \in T!Stamps |-> 0] \in [T!Stamps -> Nat] /\ <<>> \in Seq(Ends) /\ 0 \in 0 .. MaxWaiting
    BY <1>2
  <2>3. clock[c] \in Records
    BY <2>1, <2>2 DEF Records
  <2>4. T!client_response_stream_size(c) = 0
    BY <1>4 DEF T!client_response_stream_size, T!Size
  <2>5. ~T!HasInput(c)
    <3>1. clock[c].whole = 0 /\ clock[c].part = FALSE
      BY <1>4, Zenon
    <3> QED
      BY <3>1 DEF T!HasInput
  <2>6. \A s \in T!Stamps : clock[c].age[s] = 0
    <3>1. clock[c].age = [s \in T!Stamps |-> 0]
      BY <1>4, Zenon
    <3> QED
      BY <3>1
  <2> QED
    BY <2>3, <2>4, <2>5, <2>6
<1>6. clock \in [Clients -> Records]
  BY <1>3, <1>5
<1>7. ClockTypes
  <2>1. remaining \in -1 .. T!Never /\ waited \in 0 .. T!Never
    BY <1>1, <1>3
  <2>2. \A c \in Clients : T!client_response_stream_size(c) < MAX_RESPONSE_STREAM_SIZE + MaxResponse
    BY <1>2, <1>5
  <2>3. \A c \in Clients, s \in T!Stamps : clock[c].age[s] <= T!Limit[s] + 1
    BY <1>1, <1>5
  <2> QED
    BY <1>3, <1>6, <2>1, <2>2, <2>3 DEF ClockTypes
<1>8. Rounds
  BY <1>3 DEF Rounds, InVisit
<1>9. ASSUME NEW c \in Clients PROVE ClosedLate(c) /\ (clock[c].open => Kept(c))
  <2>1. Waits(MaxWaiting - 1) \in Nat
    BY <1>2, WaitsGrow
  <2>2. T!None \notin T!Stamps
    BY <1>1 DEF T!None, RequestStamp, InputStamp, RoomStamp, ResponseStamp
  <2>3. ClosedLate(c)
    BY <1>1, <1>4, <2>2 DEF ClosedLate
  <2>4. T!Guarded(c) = {InputStamp}
    BY <1>1, <1>2, <1>5, GuardedAre DEF Counts, RequestStamp, InputStamp, RoomStamp, ResponseStamp
  <2>5. Armed(c)
    <3>1. remaining - waited <= LeftOf(c, InputStamp) /\ remaining # T!Never
      BY <1>1, <1>3, <1>5 DEF LeftOf
    <3> QED
      BY <2>4, <3>1 DEF Armed
  <2>6. owner # c
    BY <1>3 DEF T!TimeoutsAssumption
  <2>7. clock[c].age[InputStamp] <= clock[c].empty + Waits(MaxWaiting - 1)
    <3>1. clock[c].age[InputStamp] = 0 /\ clock[c].empty = 0
      BY <1>1, <1>4, <1>5, Zenon
    <3> QED
      BY <2>1, <3>1
  <2>8. ~(clock[c].whole > 0)
    <3>1. clock[c].whole = 0
      BY <1>4, Zenon
    <3> QED
      BY <3>1
  <2> QED
    BY <1>4, <2>3, <2>5, <2>6, <2>7, <2>8 DEF Kept
<1> QED
  BY <1>7, <1>8, <1>9 DEF ClockInv

\* A client that is not visited stays as it was, although the shared buffer be taken
\* from it and another one arm poll().
LEMMA Unvisited ==
  ASSUME T!TimeoutsAssumption, ClockInv, NEW c \in Clients,
         clock'[c] = clock[c], ~Visiting(c), ~Visiting(c)', c \in todo' <=> c \in todo,
         owner' = owner \/ owner' # c, remaining' \in -1 .. remaining, waited = 0, waited' = 0
  PROVE  ClosedLate(c)' /\ (clock[c].open => Kept(c))'
<1>1. ClockTypes /\ ClosedLate(c) /\ (clock[c].open => Kept(c))
  BY DEF ClockInv
<1>2. /\ T!client_response_stream_size(c)' = T!client_response_stream_size(c)
      /\ T!HasInput(c)' <=> T!HasInput(c)
      /\ \A s \in T!Stamps : LeftOf(c, s)' = LeftOf(c, s)
  BY DEF T!client_response_stream_size, T!HasInput, LeftOf
<1>3. ClosedLate(c)'
  BY <1>1 DEF ClosedLate, Waits
<1>4. ASSUME clock[c].open, c \notin todo PROVE Armed(c)'
  <2>1. Armed(c) /\ (owner = c => Owning(c))
    BY <1>1, <1>4 DEF Kept
  <2>2. /\ T!Longest \in Nat /\ T!Never = T!Longest + 1
        /\ T!Stamps = {RequestStamp, InputStamp, RoomStamp, ResponseStamp}
        /\ remaining \in -1 .. T!Never
    BY <1>1, StampLimits DEF ClockTypes
  <2>3. ASSUME NEW s \in T!Guarded(c)'
        PROVE  \E q \in T!Guarded(c) : LeftOf(c, q) <= LeftOf(c, s)' /\ s \in T!Stamps
    <3>1. s \in T!Stamps /\ Counts(s, T!client_response_stream_size(c), (owner = c)', T!HasInput(c))
      BY <1>2, GuardedBecome DEF Counts
    <3>2. LeftOf(c, s)' = LeftOf(c, s) /\ LeftOf(c, s) \in Int
      BY <1>1, <1>2, <3>1, StampFields
    <3>3. CASE s \in T!Guarded(c)
      BY <3>1, <3>2, <3>3
    <3>4. CASE s \notin T!Guarded(c)
      <4>1. s = RequestStamp /\ owner = c /\ T!client_response_stream_size(c) > 0
        BY <3>1, <3>4, GuardedAre DEF Counts
      <4>2. ResponseStamp \in T!Guarded(c)
        BY <2>2, <4>1, GuardedAre DEF Counts
      <4> QED
        BY <2>1, <3>1, <3>2, <4>1, <4>2 DEF Owning
    <3> QED
      BY <3>3, <3>4
  <2>4. CASE remaining = T!Never
    BY <2>1, <2>2, <2>3, <2>4 DEF Armed
  <2>5. CASE remaining \in 0 .. T!Longest
    <3>1. remaining' # T!Never
      BY <2>2, <2>5
    <3>2. ASSUME NEW s \in T!Guarded(c)' PROVE remaining' - waited' <= LeftOf(c, s)'
      <4>1. PICK q \in T!Guarded(c) : LeftOf(c, q) <= LeftOf(c, s)' /\ s \in T!Stamps
        BY <2>3
      <4>2. q \in T!Stamps /\ LeftOf(c, q) \in Int /\ LeftOf(c, s)' \in Int
        BY <1>1, <1>2, <4>1, StampFields, GuardedAre
      <4>3. remaining - waited <= LeftOf(c, q)
        BY <2>1, <2>5 DEF Armed
      <4> QED
        BY <2>5, <4>1, <4>2, <4>3
    <3> QED
      BY <3>1, <3>2 DEF Armed
  <2>6. CASE remaining = -1
    BY <2>2, <2>6 DEF Armed
  <2> QED
    BY <2>2, <2>4, <2>5, <2>6
<1>5. ASSUME clock[c].open PROVE Kept(c)'
  <2>1. Kept(c)
    BY <1>1, <1>5
  <2>2. (owner = c => Owning(c))'
    BY <1>2, <2>1, StampLimits DEF Kept, Owning
  <2>3. (clock[c].whole > 0 => InTurn(c))'
    BY <1>2, <2>1 DEF Kept, InTurn, Full, Waiting, Waits
  <2>4. (~T!HasInput(c) => clock[c].age[InputStamp] <= clock[c].empty + Waits(MaxWaiting - 1))'
    BY <1>2, <2>1 DEF Kept, Waits
  <2> QED
    BY <1>4, <1>5, <2>1, <2>2, <2>3, <2>4 DEF Kept
<1> QED
  BY <1>3, <1>5

\* One client changes to what its fields may be.
LEMMA OneChanged ==
  ASSUME ClockTypes, NEW x \in Clients, clock'[x] \in Records,
         clock' = [clock EXCEPT ![x] = clock'[x]],
         \A s \in T!Stamps : clock'[x].age[s] <= T!Limit[s] + 1,
         T!client_response_stream_size(x)' < MAX_RESPONSE_STREAM_SIZE + MaxResponse,
         owner' \in Clients \cup {T!None}, todo' \subseteq Clients, cur' \in Clients \cup {T!None},
         remaining' \in -1 .. T!Never, waited' \in 0 .. T!Never,
         pc' \in InVisit \cup {"poll", "visit"}
  PROVE  ClockTypes'
<1>1. \A c \in Clients \ {x} : clock'[c] = clock[c]
  BY DEF ClockTypes
<1>2. clock' \in [Clients -> Records]
  BY DEF ClockTypes
<1>3. \A c \in Clients \ {x} : T!client_response_stream_size(c)' = T!client_response_stream_size(c)
  BY <1>1 DEF T!client_response_stream_size
<1>4. \A c \in Clients, s \in T!Stamps : clock'[c].age[s] <= T!Limit[s] + 1
  BY <1>1 DEF ClockTypes
<1>5. \A c \in Clients : T!client_response_stream_size(c)' < MAX_RESPONSE_STREAM_SIZE + MaxResponse
  BY <1>3 DEF ClockTypes
<1> QED
  BY <1>2, <1>4, <1>5 DEF ClockTypes

LEMMA ClockTick == ASSUME T!TimeoutsAssumption, ClockInv, T!Tick PROVE ClockInv'
<1>1. /\ pc = "poll" /\ (remaining \in 0 .. T!Longest => waited <= remaining)
      /\ waited' = T!Older(waited, T!Never)
      /\ clock' = [c \in Clients |-> IF ~clock[c].open THEN clock[c] ELSE
           [clock[c] EXCEPT
              !.age = [s \in T!Stamps |-> T!Older(@[s], T!Limit[s] + 1)],
              !.empty = IF T!HasInput(c) THEN 0 ELSE T!Older(@, T!Longest + 1),
              !.pending = IF T!client_response_stream_size(c) > 0 THEN T!Older(@, T!Longest + 1) ELSE 0]]
      /\ UNCHANGED <<owner, pc, todo, cur, saturated, remaining>>
  BY DEF T!Tick, T!control
<1>2. ClockTypes /\ Rounds /\ \A c \in Clients : ClosedLate(c) /\ (clock[c].open => Kept(c))
  BY DEF ClockInv
<1>3. /\ T!Longest \in Nat /\ T!Never = T!Longest + 1
      /\ T!Stamps = {RequestStamp, InputStamp, RoomStamp, ResponseStamp}
      /\ \A s \in T!Stamps : T!Limit[s] \in Nat \ {0} /\ T!Limit[s] <= T!Longest
      /\ T!Limit[InputStamp] = MAX_EMPTY_REQUEST_STREAM_TIME /\ T!Limit[RoomStamp] = MAX_FULL_RESPONSE_STREAM_TIME
  BY StampLimits
<1>4. ASSUME NEW c \in Clients, ~clock[c].open PROVE clock'[c] = clock[c]
  BY <1>1, <1>4
<1>5. ASSUME NEW c \in Clients, clock[c].open
      PROVE  /\ clock'[c] \in Records /\ clock'[c].open = clock[c].open
             /\ clock'[c].whole = clock[c].whole /\ clock'[c].part = clock[c].part
             /\ clock'[c].output = clock[c].output /\ clock'[c].reason = clock[c].reason
             /\ clock'[c].age = [s \in T!Stamps |-> T!Older(clock[c].age[s], T!Limit[s] + 1)]
             /\ clock'[c].empty = IF T!HasInput(c) THEN 0 ELSE T!Older(clock[c].empty, T!Longest + 1)
  <2>1. PICK age \in [T!Stamps -> Nat] : age = [s \in T!Stamps |-> T!Older(clock[c].age[s], T!Limit[s] + 1)]
    <3>1. \A s \in T!Stamps : clock[c].age[s] \in Nat
      BY <1>2, StampFields
    <3>2. ASSUME NEW s \in T!Stamps PROVE T!Older(clock[c].age[s], T!Limit[s] + 1) \in Nat
      BY <3>1 DEF T!Older
    <3> QED
      BY <3>2
  <2>2. PICK e \in Nat : e = IF T!HasInput(c) THEN 0 ELSE T!Older(clock[c].empty, T!Longest + 1)
    <3>1. clock[c].empty \in Nat
      BY <1>2, StampFields
    <3> QED
      BY <3>1 DEF T!Older
  <2>3. PICK p \in Nat : p = IF T!client_response_stream_size(c) > 0
                             THEN T!Older(clock[c].pending, T!Longest + 1) ELSE 0
    <3>1. clock[c].pending \in Nat
      BY <1>2, StampFields
    <3> QED
      BY <3>1 DEF T!Older
  <2>4. clock'[c] = [clock[c] EXCEPT !.age = age, !.empty = e, !.pending = p]
    BY <1>1, <1>5, <2>1, <2>2, <2>3, Zenon
  <2>5. PICK r \in Records : r = clock[c]
    BY <1>2, StampFields
  <2> QED
    BY <2>1, <2>2, <2>4, <2>5 DEF Records
<1>6. ASSUME NEW c \in Clients
      PROVE  /\ clock'[c] \in Records /\ clock'[c].open = clock[c].open
             /\ T!client_response_stream_size(c)' = T!client_response_stream_size(c)
             /\ T!HasInput(c)' <=> T!HasInput(c)
             /\ T!Guarded(c)' = T!Guarded(c)
  <2>1. /\ clock'[c] \in Records /\ clock'[c].open = clock[c].open
        /\ clock'[c].whole = clock[c].whole /\ clock'[c].part = clock[c].part
        /\ clock'[c].output = clock[c].output
    BY <1>2, <1>4, <1>5, StampFields
  <2>2. /\ T!client_response_stream_size(c)' = T!client_response_stream_size(c)
        /\ T!HasInput(c)' <=> T!HasInput(c)
    BY <2>1 DEF T!client_response_stream_size, T!HasInput
  <2>3. T!Guarded(c)' = T!Guarded(c)
    <3>1. ASSUME NEW s
          PROVE  Counts(s, T!client_response_stream_size(c)', (owner = c)', T!HasInput(c)') <=>
                 Counts(s, T!client_response_stream_size(c), owner = c, T!HasInput(c))
      BY <1>1, <2>2 DEF Counts
    <3> QED
      BY <3>1, GuardedAre, GuardedBecome
  <2> QED
    BY <2>1, <2>2, <2>3
<1>7. ASSUME NEW c \in Clients, clock[c].open, NEW s \in T!Stamps
      PROVE  /\ clock'[c].age[s] = IF clock[c].age[s] < T!Limit[s] + 1 THEN clock[c].age[s] + 1 ELSE clock[c].age[s]
             /\ clock[c].age[s] \in Nat /\ clock[c].age[s] <= T!Limit[s] + 1 /\ T!Limit[s] \in Nat
  <2>1. clock'[c].age[s] = T!Older(clock[c].age[s], T!Limit[s] + 1)
    BY <1>5, <1>7
  <2>2. clock[c].age[s] \in Nat /\ clock[c].age[s] <= T!Limit[s] + 1 /\ T!Limit[s] \in Nat
    BY <1>2, <1>3, StampFields DEF ClockTypes
  <2> QED
    BY <2>1, <2>2 DEF T!Older
<1>8. ClockTypes'
  <2>1. clock' \in [Clients -> Records]
    BY <1>1, <1>6
  <2>2. ASSUME NEW c \in Clients, NEW s \in T!Stamps PROVE clock'[c].age[s] <= T!Limit[s] + 1
    <3>1. CASE clock[c].open
      BY <1>7, <3>1
    <3>2. CASE ~clock[c].open
      BY <1>2, <1>4, <3>2 DEF ClockTypes
    <3> QED
      BY <3>1, <3>2
  <2>3. \A c \in Clients : T!client_response_stream_size(c)' < MAX_RESPONSE_STREAM_SIZE + MaxResponse
    BY <1>2, <1>6 DEF ClockTypes
  <2>4. waited' \in 0 .. T!Never
    <3>1. waited' = IF waited < T!Never THEN waited + 1 ELSE waited
      BY <1>1, Zenon DEF T!Older
    <3>2. waited \in 0 .. T!Never
      BY <1>2 DEF ClockTypes
    <3> QED
      BY <1>3, <3>1, <3>2
  <2> QED
    BY <1>1, <1>2, <2>1, <2>2, <2>3, <2>4 DEF ClockTypes
<1>9. Rounds'
  BY <1>1, <1>2 DEF Rounds, InVisit
<1>10. ASSUME NEW c \in Clients PROVE ClosedLate(c)'
  <2>1. CASE clock[c].open
    BY <1>2, <1>3, <1>5, <2>1 DEF ClosedLate, Kept, T!None, InputStamp
  <2>2. CASE ~clock[c].open
    BY <1>2, <1>4, <2>2 DEF ClosedLate, Waits
  <2> QED
    BY <2>1, <2>2
<1>11. ASSUME NEW c \in Clients, clock[c].open PROVE Kept(c)'
  <2>1. Kept(c) /\ c \notin todo /\ ~Visiting(c) /\ ~Visiting(c)' /\ c \notin todo'
    BY <1>1, <1>2, <1>11 DEF Rounds, Visiting, InVisit
  <2>2. ASSUME NEW s \in T!Stamps
        PROVE  LeftOf(c, s)' = (IF LeftOf(c, s) > -1 THEN LeftOf(c, s) - 1 ELSE -1) /\ LeftOf(c, s) \in -1 .. T!Limit[s]
    BY <1>7, <1>11 DEF LeftOf
  <2>3. Armed(c)'
    <3>1. Armed(c) /\ T!Guarded(c) \subseteq T!Stamps
      BY <2>1, GuardedAre DEF Kept
    <3>2. ASSUME remaining \in 0 .. T!Longest, NEW s \in T!Guarded(c)
          PROVE  remaining - waited' <= LeftOf(c, s)'
      <4>1. waited \in Nat /\ waited <= remaining /\ waited' = waited + 1
        <5>1. waited' = IF waited < T!Never THEN waited + 1 ELSE waited
          BY <1>1, Zenon DEF T!Older
        <5>2. waited \in 0 .. T!Never /\ waited <= remaining
          BY <1>1, <1>2, <3>2 DEF ClockTypes
        <5> QED
          BY <1>3, <3>2, <5>1, <5>2
      <4>2. remaining - waited <= LeftOf(c, s) /\ s \in T!Stamps
        BY <3>1, <3>2 DEF Armed
      <4> QED
        BY <1>3, <2>2, <3>2, <4>1, <4>2
    <3> QED
      BY <1>1, <1>6, <3>1, <3>2 DEF Armed
  <2>4. (owner = c => Owning(c))'
    <3>1. ASSUME owner = c PROVE Owning(c)'
      <4>1. Owning(c) /\ LeftOf(c, ResponseStamp) <= LeftOf(c, RequestStamp)
        BY <2>1, <3>1 DEF Kept, Owning
      <4>2. LeftOf(c, ResponseStamp)' <= LeftOf(c, RequestStamp)'
        BY <1>3, <2>2, <4>1
      <4> QED
        BY <1>5, <1>11, <4>1, <4>2 DEF Owning
    <3> QED
      BY <1>1, <3>1
  <2>5. Waits(MaxWaiting - 1) \in Nat /\ clock[c].whole \in 0 .. MaxWaiting
    <3>1. MaxWaiting - 1 \in Nat /\ clock[c].whole \in 0 .. MaxWaiting
      BY <1>2, StampFields DEF T!TimeoutsAssumption
    <3> QED
      BY <3>1, WaitsGrow
  <2>6. (~T!HasInput(c) => clock[c].age[InputStamp] <= clock[c].empty + Waits(MaxWaiting - 1))'
    <3>1. ASSUME ~T!HasInput(c)
          PROVE  clock'[c].age[InputStamp] <= clock'[c].empty + Waits(MaxWaiting - 1)
      <4>1. clock[c].age[InputStamp] <= clock[c].empty + Waits(MaxWaiting - 1) /\ clock[c].empty \in Nat
        BY <1>2, <2>1, <3>1, StampFields DEF Kept
      <4>2. clock'[c].empty = IF clock[c].empty < T!Longest + 1 THEN clock[c].empty + 1 ELSE clock[c].empty
        BY <1>5, <1>11, <3>1 DEF T!Older
      <4>3. MAX_EMPTY_REQUEST_STREAM_TIME <= T!Longest
        BY <1>3
      <4> QED
        BY <1>3, <1>7, <1>11, <2>5, <4>1, <4>2, <4>3
    <3> QED
      BY <1>6, <3>1 DEF Waits
  <2>7. (clock[c].whole > 0 => InTurn(c))'
    <3>1. ASSUME clock[c].whole > 0 PROVE InTurn(c)'
      <4>1. Full(c) /\ (clock[c].age[RoomStamp] > MAX_FULL_RESPONSE_STREAM_TIME \/ Waiting(c))
        BY <2>1, <3>1 DEF Kept, InTurn
      <4>2. Full(c)'
        BY <1>5, <1>6, <1>11, <4>1 DEF Full
      <4>3. Waits(MaxWaiting - 1 - clock[c].whole) \in Nat
        BY <2>5, <4>1, WaitsGrow DEF Full, T!TimeoutsAssumption
      <4>4. /\ clock'[c].age[RoomStamp] = IF clock[c].age[RoomStamp] < MAX_FULL_RESPONSE_STREAM_TIME + 1
                                     THEN clock[c].age[RoomStamp] + 1 ELSE clock[c].age[RoomStamp]
            /\ clock[c].age[RoomStamp] \in Nat /\ MAX_FULL_RESPONSE_STREAM_TIME \in Nat
            /\ clock'[c].age[InputStamp] <= clock[c].age[InputStamp] + 1 /\ clock'[c].age[InputStamp] \in Nat
        BY <1>3, <1>7, <1>11
      <4>5. clock'[c].age[RoomStamp] > MAX_FULL_RESPONSE_STREAM_TIME \/ Waiting(c)'
        <5>1. CASE clock[c].age[RoomStamp] >= MAX_FULL_RESPONSE_STREAM_TIME
          BY <4>4, <5>1
        <5>2. CASE clock[c].age[RoomStamp] < MAX_FULL_RESPONSE_STREAM_TIME /\ Waiting(c)
          <6>1. clock'[c].age[InputStamp] <= clock'[c].age[RoomStamp] + Waits(MaxWaiting - 1 - clock[c].whole)
            BY <1>3, <1>7, <1>11, <4>3, <4>4, <5>2 DEF Waiting
          <6> QED
            BY <1>5, <1>11, <6>1 DEF Waiting, Waits
        <5> QED
          BY <4>1, <4>4, <5>1, <5>2
      <4> QED
        BY <2>1, <4>2, <4>5 DEF InTurn
    <3> QED
      BY <1>5, <1>11, <3>1
  <2>8. clock'[c].reason = T!None
    BY <1>5, <1>11, <2>1 DEF Kept
  <2> QED
    BY <2>1, <2>3, <2>4, <2>6, <2>7, <2>8 DEF Kept
<1> QED
  BY <1>6, <1>8, <1>9, <1>10, <1>11 DEF ClockInv

LEMMA ClockStart ==
  ASSUME T!TimeoutsAssumption, ClockInv, pc = "poll", T!StartVisits PROVE ClockInv'
<1>1. /\ todo' = {c \in Clients : clock[c].open} /\ pc' = (IF todo' = {} THEN "poll" ELSE "visit")
      /\ remaining' = T!Never /\ waited' = 0 /\ UNCHANGED <<clock, owner, cur>>
  BY DEF T!StartVisits, T!NextVisit
<1>2. ClockTypes /\ \A c \in Clients : ClosedLate(c) /\ (clock[c].open => Kept(c))
  BY DEF ClockInv
<1>3. T!Longest \in Nat /\ T!Never = T!Longest + 1
  BY StampLimits
<1>4. \A c \in Clients : T!client_response_stream_size(c)' = T!client_response_stream_size(c)
  BY <1>1 DEF T!client_response_stream_size
<1>5. ClockTypes'
  BY <1>1, <1>2, <1>3, <1>4 DEF ClockTypes
<1>6. Rounds'
  BY <1>1 DEF Rounds, InVisit
<1>7. ASSUME NEW c \in Clients PROVE ClosedLate(c)' /\ (clock[c].open => Kept(c))'
  <2>1. /\ ~Visiting(c) /\ ~Visiting(c)' /\ (T!HasInput(c)' <=> T!HasInput(c))
        /\ \A s : LeftOf(c, s)' = LeftOf(c, s)
    BY <1>1 DEF Visiting, InVisit, T!HasInput, LeftOf
  <2>2. ClosedLate(c)'
    BY <1>1, <1>2 DEF ClosedLate, Waits
  <2>3. ASSUME clock[c].open PROVE Kept(c)'
    <3>1. Kept(c) /\ c \in todo'
      BY <1>1, <1>2, <2>3
    <3>2. (owner = c => Owning(c))'
      BY <1>1, <2>1, <3>1 DEF Kept, Owning
    <3>3. (clock[c].whole > 0 => InTurn(c))'
      BY <1>1, <1>4, <2>1, <3>1 DEF Kept, InTurn, Full, Waiting, Waits
    <3>4. (~T!HasInput(c) => clock[c].age[InputStamp] <= clock[c].empty + Waits(MaxWaiting - 1))'
      BY <1>1, <2>1, <3>1 DEF Kept, Waits
    <3> QED
      BY <1>1, <3>1, <3>2, <3>3, <3>4 DEF Kept
  <2> QED
    BY <1>1, <2>2, <2>3
<1> QED
  BY <1>5, <1>6, <1>7 DEF ClockInv

LEMMA ClockExpired ==
  ASSUME T!TimeoutsAssumption, ClockInv, NEW x \in todo, NEW s \in T!Stamps, T!VisitExpired(x, s)
  PROVE  ClockInv'
<1>1. /\ pc = "visit" /\ s \in T!Expired(x) /\ todo' = todo \ {x}
      /\ pc' = (IF todo' = {} THEN "poll" ELSE "visit")
      /\ clock' = [clock EXCEPT ![x].open = FALSE, ![x].reason = s, ![x].output = <<>>,
                                  ![x].whole = 0, ![x].part = FALSE]
      /\ UNCHANGED <<owner, cur, saturated, remaining, waited>>
  BY DEF T!VisitExpired, T!Close, T!NextVisit
<1>2. /\ ClockTypes /\ Rounds /\ \A c \in Clients : ClosedLate(c) /\ (clock[c].open => Kept(c))
      /\ x \in Clients /\ waited = 0 /\ clock[x].open
  BY <1>1 DEF ClockInv, ClockTypes, Rounds
<1>3. 0 \in 0 .. MaxWaiting /\ MAX_RESPONSE_STREAM_SIZE + MaxResponse \in Nat \ {0}
  BY DEF T!TimeoutsAssumption
<1>4. PICK r \in Records : r = clock[x]
  BY <1>2, StampFields
<1>5. /\ clock' = [clock EXCEPT ![x] = clock'[x]]
      /\ clock'[x] = [r EXCEPT !.open = FALSE, !.reason = s, !.output = <<>>, !.whole = 0, !.part = FALSE]
  BY <1>1, <1>2, <1>4 DEF ClockTypes
<1>6. /\ clock'[x] \in Records /\ clock'[x].open = FALSE /\ clock'[x].reason = s
      /\ clock'[x].output = <<>> /\ clock'[x].age = clock[x].age /\ clock'[x].empty = clock[x].empty
  <2>1. PICK o \in Seq(Ends) : o = <<>>
    <3>1. <<>> \in Seq(Ends)
      OBVIOUS
    <3> QED
      BY <3>1, Zenon
  <2>2. clock'[x] = [r EXCEPT !.open = FALSE, !.reason = s, !.output = o, !.whole = 0, !.part = FALSE]
    BY <1>5, <2>1, Zenon
  <2>3. s \in T!Stamps \cup {T!None}
    OBVIOUS
  <2> QED
    BY <1>3, <1>4, <2>1, <2>2, <2>3 DEF Records
<1>7. ClockTypes'
  <2>1. T!client_response_stream_size(x)' = 0
    BY <1>6 DEF T!client_response_stream_size, T!Size
  <2>2. \A q \in T!Stamps : clock'[x].age[q] <= T!Limit[q] + 1
    BY <1>2, <1>6 DEF ClockTypes
  <2>3. 0 < MAX_RESPONSE_STREAM_SIZE + MaxResponse
    BY <1>3
  <2>4. /\ owner' \in Clients \cup {T!None} /\ todo' \subseteq Clients /\ cur' \in Clients \cup {T!None}
        /\ remaining' \in -1 .. T!Never /\ waited' \in 0 .. T!Never
        /\ pc' \in InVisit \cup {"poll", "visit"}
    BY <1>1, <1>2 DEF ClockTypes
  <2> QED
    BY <1>2, <1>5, <1>6, <2>1, <2>2, <2>3, <2>4, OneChanged
<1>8. \A c \in Clients \ {x} : clock'[c] = clock[c]
  BY <1>1, <1>2 DEF ClockTypes
<1>9. Rounds'
  BY <1>1, <1>2, <1>8 DEF Rounds, InVisit, ClockTypes
<1>10. ASSUME NEW c \in Clients \ {x} PROVE ClosedLate(c)' /\ (clock[c].open => Kept(c))'
  <2>1. ~Visiting(c) /\ ~Visiting(c)' /\ (c \in todo' <=> c \in todo) /\ clock'[c] = clock[c]
    BY <1>1, <1>8 DEF Visiting, InVisit
  <2>2. remaining' \in -1 .. remaining /\ waited' = 0 /\ owner' = owner
    BY <1>1, <1>2 DEF ClockTypes
  <2> QED
    BY <1>2, <2>1, <2>2, Unvisited
<1>11. ClosedLate(x)'
  <2>1. ASSUME s = InputStamp PROVE clock[x].empty + Waits(MaxWaiting - 1) > MAX_EMPTY_REQUEST_STREAM_TIME
    <3>1. s \in T!Guarded(x) /\ clock[x].age[s] > T!Limit[s]
      BY <1>1 DEF T!Expired
    <3>2. ~T!HasInput(x)
      BY <2>1, <3>1, GuardedAre DEF Counts, RequestStamp, InputStamp, RoomStamp, ResponseStamp
    <3>3. clock[x].age[InputStamp] <= clock[x].empty + Waits(MaxWaiting - 1)
      BY <1>2, <3>2 DEF Kept
    <3>4. Waits(MaxWaiting - 1) \in Nat
      BY WaitsGrow DEF T!TimeoutsAssumption
    <3>5. clock[x].age[s] \in Nat /\ clock[x].empty \in Nat
      BY <1>2, StampFields
    <3>6. T!Limit[s] = MAX_EMPTY_REQUEST_STREAM_TIME /\ T!Limit[s] \in Nat
      BY <2>1, StampLimits
    <3> QED
      BY <2>1, <3>1, <3>3, <3>4, <3>5, <3>6
  <2> QED
    BY <1>6, <2>1 DEF ClosedLate, Waits
<1> QED
  BY <1>6, <1>7, <1>9, <1>10, <1>11 DEF ClockInv

LEMMA ClockVisited ==
  ASSUME T!TimeoutsAssumption, ClockInv, NEW x \in todo, NEW blocked \in BOOLEAN, T!Visit(x, blocked)
  PROVE  ClockInv'
<1>1. /\ pc = "visit" /\ T!Expired(x) = {} /\ todo' = todo \ {x} /\ cur' = x /\ pc' = "receive"
      /\ UNCHANGED <<clock, owner, remaining, waited>>
  BY DEF T!Visit
<1>2. /\ ClockTypes /\ Rounds /\ \A c \in Clients : ClosedLate(c) /\ (clock[c].open => Kept(c))
      /\ x \in Clients /\ waited = 0 /\ clock[x].open
  BY <1>1 DEF ClockInv, ClockTypes, Rounds
<1>3. \A c \in Clients : T!client_response_stream_size(c)' = T!client_response_stream_size(c)
  BY <1>1 DEF T!client_response_stream_size
<1>4. ClockTypes'
  BY <1>1, <1>2, <1>3 DEF ClockTypes, InVisit
<1>5. Rounds'
  BY <1>1, <1>2 DEF Rounds, InVisit
<1>6. ASSUME NEW c \in Clients \ {x} PROVE ClosedLate(c)' /\ (clock[c].open => Kept(c))'
  <2>1. ~Visiting(c) /\ ~Visiting(c)' /\ (c \in todo' <=> c \in todo) /\ clock'[c] = clock[c]
    BY <1>1 DEF Visiting, InVisit
  <2>2. remaining' \in -1 .. remaining /\ waited' = 0 /\ owner' = owner
    BY <1>1, <1>2 DEF ClockTypes
  <2> QED
    BY <1>2, <2>1, <2>2, Unvisited
<1>7. ClosedLate(x)'
  BY <1>1, <1>2 DEF ClosedLate, Waits
<1>8. Kept(x)'
  <2>1. Kept(x) /\ ~Visiting(x) /\ Visiting(x)'
    BY <1>1, <1>2 DEF Visiting, InVisit
  <2>2. /\ T!HasInput(x)' <=> T!HasInput(x)
        /\ \A s \in T!Stamps : LeftOf(x, s)' = LeftOf(x, s)
    BY <1>1 DEF T!HasInput, LeftOf
  <2>3. (owner = x => Owning(x))'
    BY <1>1, <2>1, <2>2, StampLimits DEF Kept, Owning
  <2>4. (~T!HasInput(x) => clock[x].age[InputStamp] <= clock[x].empty + Waits(MaxWaiting - 1))'
    BY <1>1, <2>1, <2>2 DEF Kept, Waits
  <2>5. ASSUME clock[x].whole > 0 PROVE InTurn(x)'
    <3>1. Full(x) /\ (clock[x].age[RoomStamp] > MAX_FULL_RESPONSE_STREAM_TIME \/ Waiting(x))
      BY <2>1, <2>5 DEF Kept, InTurn
    <3>2. ~(clock[x].age[RoomStamp] > MAX_FULL_RESPONSE_STREAM_TIME)
      <4>1. RoomStamp \in T!Guarded(x) /\ T!Limit[RoomStamp] = MAX_FULL_RESPONSE_STREAM_TIME
        BY <3>1, GuardedAre, StampLimits DEF Counts, Full
      <4> QED
        BY <1>1, <4>1 DEF T!Expired
    <3>3. /\ Waits(MaxWaiting - 1 - clock[x].whole) \in Nat
          /\ Waits(MaxWaiting - clock[x].whole)
               = Waits(MaxWaiting - 1 - clock[x].whole) + MAX_FULL_RESPONSE_STREAM_TIME
      <4>1. MaxWaiting - 1 - clock[x].whole \in Nat
        BY <1>2, <3>1, StampFields DEF Full, T!TimeoutsAssumption
      <4>2. (MaxWaiting - 1 - clock[x].whole) + 1 = MaxWaiting - clock[x].whole
        BY <1>2, StampFields DEF T!TimeoutsAssumption
      <4> QED
        BY <4>1, <4>2, WaitsGrow
    <3>4. clock[x].age[InputStamp] \in Nat /\ clock[x].age[RoomStamp] \in Nat /\ MAX_FULL_RESPONSE_STREAM_TIME \in Nat
      BY <1>2, StampFields, StampLimits
    <3>5. clock[x].age[InputStamp] <= Waits(MaxWaiting - clock[x].whole) /\ Waiting(x)
      BY <3>1, <3>2, <3>3, <3>4 DEF Waiting
    <3> QED
      BY <1>1, <1>3, <2>1, <3>1, <3>5 DEF InTurn, Full, Waiting, Waits
  <2> QED
    BY <1>1, <2>1, <2>3, <2>4, <2>5 DEF Kept
<1> QED
  BY <1>4, <1>5, <1>6, <1>7, <1>8 DEF ClockInv

LEMMA ClockReceive ==
  ASSUME T!TimeoutsAssumption, ClockInv, NEW n \in 0 .. MaxWaiting, NEW part \in BOOLEAN, T!Receive(n, part)
  PROVE  ClockInv'
<1> DEFINE some == clock[cur].whole + n > 0 \/ part
<1>1. /\ pc = "receive" /\ T!client_response_stream_size(cur) < MAX_RESPONSE_STREAM_SIZE
      /\ clock[cur].whole + n <= MaxWaiting /\ (n = 0 /\ clock[cur].part => part)
      /\ clock' = [clock EXCEPT ![cur].whole = @ + n, ![cur].part = part,
                                  ![cur].age = IF some THEN T!Now(cur, InputStamp) ELSE @,
                                  ![cur].empty = IF some THEN 0 ELSE @]
      /\ pc' = "process" /\ UNCHANGED <<owner, todo, cur, saturated, remaining, waited>>
  BY DEF T!Receive, InputStamp
<1>2. PICK x \in Clients : x = cur
  BY <1>1 DEF ClockInv, Rounds, InVisit
<1>3. /\ ClockTypes /\ Rounds /\ \A c \in Clients : ClosedLate(c) /\ (clock[c].open => Kept(c))
      /\ waited = 0 /\ clock[x].open /\ x \notin todo /\ Visiting(x)
  BY <1>1, <1>2 DEF ClockInv, Rounds, InVisit, Visiting
<1>4. PICK r \in Records : r = clock[x]
  BY <1>3, StampFields
<1>5. PICK whole \in 0 .. MaxWaiting : whole = clock[x].whole + n
  BY <1>1, <1>2, <1>3, StampFields DEF T!TimeoutsAssumption
<1>6. PICK age \in [T!Stamps -> Nat] :
        age = IF whole > 0 \/ part THEN [clock[x].age EXCEPT ![InputStamp] = 0] ELSE clock[x].age
  BY <1>3, StampFields
<1>7. PICK empty \in Nat : empty = IF whole > 0 \/ part THEN 0 ELSE clock[x].empty
  BY <1>3, StampFields
<1>8. /\ clock' = [clock EXCEPT ![x] = clock'[x]]
      /\ clock'[x] = [r EXCEPT !.whole = whole, !.part = part, !.age = age, !.empty = empty]
  <2>1. T!Now(cur, InputStamp) = [clock[x].age EXCEPT ![InputStamp] = 0]
    BY <1>2 DEF T!Now
  <2> QED
    BY <1>1, <1>2, <1>3, <1>4, <1>5, <1>6, <1>7, <2>1 DEF ClockTypes
<1>9. /\ clock'[x] \in Records /\ clock'[x].open /\ clock'[x].reason = clock[x].reason
      /\ clock'[x].whole = whole /\ clock'[x].part = part /\ clock'[x].output = clock[x].output
      /\ clock'[x].age = age /\ clock'[x].empty = empty
  <2>1. r.open
    BY <1>3, <1>4
  <2>2. clock'[x] \in Records
    BY <1>8 DEF Records
  <2> QED
    BY <1>4, <1>8, <2>1, <2>2 DEF Records
<1>10. \A c \in Clients \ {x} : clock'[c] = clock[c]
  BY <1>3, <1>8 DEF ClockTypes
<1>11. /\ T!client_response_stream_size(x)' = T!client_response_stream_size(x)
       /\ (T!HasInput(x)' <=> whole > 0 \/ part)
  BY <1>9 DEF T!client_response_stream_size, T!HasInput
<1>12. /\ T!Stamps = {RequestStamp, InputStamp, RoomStamp, ResponseStamp} /\ InputStamp \notin {RequestStamp, ResponseStamp}
       /\ \A s \in T!Stamps : age[s] = IF s = InputStamp /\ (whole > 0 \/ part) THEN 0 ELSE clock[x].age[s]
  <2>1. T!Stamps = {RequestStamp, InputStamp, RoomStamp, ResponseStamp}
    BY StampLimits
  <2> QED
    BY <1>3, <1>6, <2>1, StampFields DEF RequestStamp, InputStamp, RoomStamp, ResponseStamp
<1>13. ClockTypes'
  <2>1. \A s \in T!Stamps : clock'[x].age[s] <= T!Limit[s] + 1
    BY <1>3, <1>9, <1>12, StampLimits DEF ClockTypes
  <2>2. T!client_response_stream_size(x)' < MAX_RESPONSE_STREAM_SIZE + MaxResponse
    BY <1>3, <1>11 DEF ClockTypes
  <2>3. /\ owner' \in Clients \cup {T!None} /\ todo' \subseteq Clients /\ cur' \in Clients \cup {T!None}
        /\ remaining' \in -1 .. T!Never /\ waited' \in 0 .. T!Never
        /\ pc' \in InVisit \cup {"poll", "visit"}
    BY <1>1, <1>3 DEF ClockTypes, InVisit
  <2> QED
    BY <1>3, <1>8, <1>9, <2>1, <2>2, <2>3, OneChanged
<1>14. Rounds'
  BY <1>1, <1>2, <1>3, <1>9, <1>10 DEF Rounds, InVisit, ClockTypes
<1>15. ASSUME NEW c \in Clients \ {x} PROVE ClosedLate(c)' /\ (clock[c].open => Kept(c))'
  <2>1. ~Visiting(c) /\ ~Visiting(c)' /\ (c \in todo' <=> c \in todo) /\ clock'[c] = clock[c]
    BY <1>1, <1>2, <1>10 DEF Visiting
  <2>2. remaining' \in -1 .. remaining /\ waited' = 0 /\ owner' = owner
    BY <1>1, <1>3 DEF ClockTypes
  <2> QED
    BY <1>3, <2>1, <2>2, Unvisited
<1>16. Kept(x) /\ Visiting(x)'
  BY <1>1, <1>2, <1>3 DEF Visiting, InVisit
<1>17. ClosedLate(x)'
  BY <1>9, <1>16, StampLimits DEF ClosedLate, Kept, InputStamp, T!None
<1>18. Kept(x)'
  <2>1. (owner = x => Owning(x))'
    <3>1. LeftOf(x, RequestStamp)' = LeftOf(x, RequestStamp) /\ LeftOf(x, ResponseStamp)' = LeftOf(x, ResponseStamp)
      BY <1>9, <1>12 DEF LeftOf
    <3> QED
      BY <1>1, <1>9, <1>16, <3>1 DEF Kept, Owning
  <2>2. (~T!HasInput(x) => clock[x].age[InputStamp] <= clock[x].empty + Waits(MaxWaiting - 1))'
    <3>1. ASSUME ~(whole > 0 \/ part)
          PROVE  clock'[x].age[InputStamp] <= clock'[x].empty + Waits(MaxWaiting - 1)
      <4>1. ~T!HasInput(x)
        BY <1>1, <1>2, <1>3, <1>5, <3>1, StampFields DEF T!HasInput
      <4>2. clock'[x].age[InputStamp] = clock[x].age[InputStamp] /\ clock'[x].empty = clock[x].empty
        BY <1>7, <1>9, <1>12, <3>1
      <4> QED
        BY <1>16, <4>1, <4>2 DEF Kept
    <3> QED
      BY <1>11, <3>1 DEF Waits
  <2>3. (clock[x].whole > 0 => InTurn(x))'
    <3>1. ASSUME whole > 0 PROVE clock'[x].age[InputStamp] <= Waits(MaxWaiting - whole)
      <4>1. Waits(MaxWaiting - whole) \in Nat
        <5>1. MaxWaiting - whole \in Nat
          BY DEF T!TimeoutsAssumption
        <5> QED
          BY <5>1, WaitsGrow
      <4> QED
        BY <1>9, <1>12, <3>1, <4>1
    <3>2. ~(T!client_response_stream_size(x)' >= MAX_RESPONSE_STREAM_SIZE)
      BY <1>1, <1>2, <1>3, <1>11, StampFields DEF T!TimeoutsAssumption
    <3> QED
      BY <1>9, <1>16, <3>1, <3>2 DEF InTurn, Waits
  <2> QED
    BY <1>9, <1>16, <2>1, <2>2, <2>3 DEF Kept
<1> QED
  BY <1>13, <1>14, <1>15, <1>17, <1>18 DEF ClockInv

\* The steps of a visit that only go on.
LEMMA MovesOn ==
  ASSUME T!TimeoutsAssumption, ClockInv, pc \in InVisit, pc' \in InVisit,
         UNCHANGED <<clock, owner, todo, cur, remaining, waited>>,
         pc' = "leave" => clock[cur].whole = 0 \/ T!client_response_stream_size(cur) >= MAX_RESPONSE_STREAM_SIZE
  PROVE  ClockInv'
<1>1. ClockTypes /\ Rounds /\ \A c \in Clients : ClosedLate(c) /\ (clock[c].open => Kept(c))
  BY DEF ClockInv
<1>2. \A c : T!client_response_stream_size(c)' = T!client_response_stream_size(c)
  BY DEF T!client_response_stream_size
<1>3. ClockTypes'
  BY <1>1, <1>2 DEF ClockTypes
<1>4. Rounds'
  BY <1>1, <1>2 DEF Rounds, InVisit
<1>5. ASSUME NEW c \in Clients PROVE ClosedLate(c)' /\ (clock[c].open => Kept(c))'
  <2>1. Visiting(c)' <=> Visiting(c)
    BY DEF Visiting
  <2>2. CASE ~Visiting(c)
    <3>1. remaining' \in -1 .. remaining /\ waited = 0 /\ waited' = 0
      BY <1>1 DEF ClockTypes, Rounds, InVisit
    <3> QED
      BY <2>1, <2>2, <3>1, Unvisited
  <2>3. CASE Visiting(c)
    <3>1. /\ T!HasInput(c)' <=> T!HasInput(c)
          /\ \A s : LeftOf(c, s)' = LeftOf(c, s)
      BY DEF T!HasInput, LeftOf
    <3>2. ClosedLate(c)'
      BY <1>1 DEF ClosedLate, Waits
    <3>3. ASSUME clock[c].open PROVE Kept(c)'
      <4>1. Kept(c)
        BY <1>1, <3>3
      <4>2. (owner = c => Owning(c))'
        BY <3>1, <4>1 DEF Kept, Owning
      <4>3. (clock[c].whole > 0 => InTurn(c))'
        BY <1>2, <2>1, <4>1 DEF Kept, InTurn, Full, Waiting, Waits
      <4>4. (~T!HasInput(c) => clock[c].age[InputStamp] <= clock[c].empty + Waits(MaxWaiting - 1))'
        BY <3>1, <4>1 DEF Kept, Waits
      <4> QED
        BY <2>1, <2>3, <4>1, <4>2, <4>3, <4>4 DEF Kept
    <3> QED
      BY <3>2, <3>3
  <2> QED
    BY <2>2, <2>3
<1> QED
  BY <1>3, <1>4, <1>5 DEF ClockInv

\* The requests that wait are fewer by one, and their time longer by one.
LEMMA OneLess ==
  ASSUME T!TimeoutsAssumption, NEW w \in 1 .. MaxWaiting
  PROVE  /\ Waits(MaxWaiting - w) \in Nat /\ w - 1 \in 0 .. MaxWaiting /\ w - 1 < MaxWaiting
         /\ Waits(MaxWaiting - (w - 1)) = Waits(MaxWaiting - w) + MAX_FULL_RESPONSE_STREAM_TIME
         /\ MaxWaiting - 1 - (w - 1) = MaxWaiting - w
         /\ MAX_FULL_RESPONSE_STREAM_TIME \in Nat
<1>1. MaxWaiting - w \in Nat /\ (MaxWaiting - w) + 1 = MaxWaiting - (w - 1)
  BY DEF T!TimeoutsAssumption
<1>2. MAX_FULL_RESPONSE_STREAM_TIME \in Nat
  BY StampLimits
<1> QED
  BY <1>1, <1>2, WaitsGrow DEF T!TimeoutsAssumption

LEMMA ClockProcess ==
  ASSUME T!TimeoutsAssumption, ClockInv, NEW n \in 1 .. MaxResponse, T!Process(n)
  PROVE  ClockInv'
<1>1. /\ pc = "process" /\ clock[cur].whole > 0
      /\ T!client_response_stream_size(cur) < MAX_RESPONSE_STREAM_SIZE
      /\ clock' = [clock EXCEPT ![cur].whole = @ - 1, ![cur].age = T!Now(cur, RequestStamp),
                                  ![cur].output = Append(@, T!Size(@) + n)]
      /\ owner' = IF T!client_response_stream_size(cur) = 0 THEN cur ELSE T!None
      /\ pc' = "send" /\ UNCHANGED <<todo, cur, saturated, remaining, waited>>
  BY DEF T!Process, T!MakesSenseToParse, RequestStamp
<1>2. PICK x \in Clients : x = cur
  BY <1>1 DEF ClockInv, Rounds, InVisit
<1>3. /\ ClockTypes /\ Rounds /\ \A c \in Clients : ClosedLate(c) /\ (clock[c].open => Kept(c))
      /\ waited = 0 /\ clock[x].open /\ x \notin todo /\ Visiting(x)
  BY <1>1, <1>2 DEF ClockInv, Rounds, InVisit, Visiting
<1>4. PICK r \in Records : r = clock[x]
  BY <1>3, StampFields
<1>5. PICK w \in 1 .. MaxWaiting : w = clock[x].whole
  BY <1>1, <1>2, <1>3, StampFields DEF T!TimeoutsAssumption
<1>6. PICK age \in [T!Stamps -> Nat] : age = [clock[x].age EXCEPT ![RequestStamp] = 0]
  BY <1>3, StampFields
<1>7. PICK o \in Seq(Ends) : o = clock[x].output
  BY <1>3, StampFields
<1>8. PICK bytes \in Nat : bytes = T!client_response_stream_size(x) /\ bytes = T!Size(o)
  BY <1>3, <1>7, StampFields DEF T!client_response_stream_size
<1>9. PICK out \in Seq(Ends) : out = Append(o, bytes + n)
  <2>1. bytes + n \in Ends
    BY DEF Ends
  <2>2. Append(o, bytes + n) \in Seq(Ends)
    BY <2>1
  <2> QED
    BY <2>2, Zenon
<1>10. /\ clock' = [clock EXCEPT ![x] = clock'[x]]
       /\ clock'[x] = [r EXCEPT !.whole = w - 1, !.age = age, !.output = out]
  <2>1. T!Now(cur, RequestStamp) = [clock[x].age EXCEPT ![RequestStamp] = 0]
    BY <1>2 DEF T!Now
  <2> QED
    BY <1>1, <1>2, <1>3, <1>4, <1>5, <1>6, <1>7, <1>8, <1>9, <2>1 DEF ClockTypes
<1>11. w - 1 \in 0 .. MaxWaiting
  BY DEF T!TimeoutsAssumption
<1>12. /\ clock'[x] \in Records /\ clock'[x].open /\ clock'[x].reason = clock[x].reason
       /\ clock'[x].whole = w - 1 /\ clock'[x].part = clock[x].part /\ clock'[x].output = out
       /\ clock'[x].age = age /\ clock'[x].empty = clock[x].empty
  <2>1. r.open
    BY <1>3, <1>4
  <2>2. clock'[x] \in Records
    BY <1>10, <1>11 DEF Records
  <2>3. /\ clock'[x].open = r.open /\ clock'[x].reason = r.reason /\ clock'[x].part = r.part
        /\ clock'[x].empty = r.empty
    BY <1>10 DEF Records
  <2>4. clock'[x].whole = w - 1 /\ clock'[x].output = out /\ clock'[x].age = age
    BY <1>10 DEF Records
  <2> QED
    BY <1>4, <2>1, <2>2, <2>3, <2>4
<1>13. \A c \in Clients \ {x} : clock'[c] = clock[c]
  BY <1>3, <1>10 DEF ClockTypes
<1>14. T!client_response_stream_size(x)' = bytes + n
  BY <1>9, <1>12 DEF T!client_response_stream_size, T!Size
<1>15. /\ T!Stamps = {RequestStamp, InputStamp, RoomStamp, ResponseStamp} /\ RequestStamp \notin {InputStamp, RoomStamp, ResponseStamp}
       /\ \A s \in T!Stamps : age[s] = IF s = RequestStamp THEN 0 ELSE clock[x].age[s]
  <2>1. T!Stamps = {RequestStamp, InputStamp, RoomStamp, ResponseStamp}
    BY StampLimits
  <2> QED
    BY <1>3, <1>6, <2>1, StampFields DEF RequestStamp, InputStamp, RoomStamp, ResponseStamp
<1>16. ClockTypes'
  <2>1. \A s \in T!Stamps : clock'[x].age[s] <= T!Limit[s] + 1
    <3>1. \A s \in T!Stamps : clock[x].age[s] <= T!Limit[s] + 1 /\ 0 <= T!Limit[s] + 1
      BY <1>3, StampLimits DEF ClockTypes
    <3> QED
      BY <1>12, <1>15, <3>1
  <2>2. T!client_response_stream_size(x)' < MAX_RESPONSE_STREAM_SIZE + MaxResponse
    BY <1>1, <1>2, <1>8, <1>14 DEF T!TimeoutsAssumption
  <2>3. /\ owner' \in Clients \cup {T!None} /\ todo' \subseteq Clients /\ cur' \in Clients \cup {T!None}
        /\ remaining' \in -1 .. T!Never /\ waited' \in 0 .. T!Never
        /\ pc' \in InVisit \cup {"poll", "visit"}
    BY <1>1, <1>3 DEF ClockTypes, InVisit
  <2> QED
    BY <1>3, <1>10, <1>12, <2>1, <2>2, <2>3, OneChanged
<1>17. Rounds'
  BY <1>1, <1>2, <1>3, <1>12, <1>13 DEF Rounds, InVisit, ClockTypes
<1>18. ASSUME NEW c \in Clients \ {x} PROVE ClosedLate(c)' /\ (clock[c].open => Kept(c))'
  <2>1. ~Visiting(c) /\ ~Visiting(c)' /\ (c \in todo' <=> c \in todo) /\ clock'[c] = clock[c]
    BY <1>1, <1>2, <1>13 DEF Visiting
  <2>2. remaining' \in -1 .. remaining /\ waited' = 0 /\ owner' # c
    BY <1>1, <1>2, <1>3 DEF ClockTypes, T!TimeoutsAssumption
  <2> QED
    BY <1>3, <2>1, <2>2, Unvisited
<1>19. Kept(x) /\ Visiting(x)'
  BY <1>1, <1>2, <1>3 DEF Visiting, InVisit
<1>20. ClosedLate(x)'
  BY <1>12, <1>19, StampLimits DEF ClosedLate, Kept, InputStamp, T!None
<1>21. clock[x].age[InputStamp] <= Waits(MaxWaiting - w) /\ clock'[x].age[InputStamp] = clock[x].age[InputStamp]
  BY <1>3, <1>5, <1>12, <1>15, <1>19 DEF Kept, InTurn
<1>22. Kept(x)'
  <2>1. ASSUME owner' = x PROVE Owning(x)'
    <3>1. bytes = 0
      BY <1>1, <1>2, <1>8, <2>1 DEF T!TimeoutsAssumption
    <3>2. Len(out) = 1
      BY <1>8, <1>9, <3>1 DEF T!Size, Ends
    <3>3. LeftOf(x, ResponseStamp)' <= LeftOf(x, RequestStamp)'
      <4>1. LeftOf(x, ResponseStamp)' = LeftOf(x, ResponseStamp) /\ LeftOf(x, RequestStamp)' = T!Limit[RequestStamp] - 0
        BY <1>12, <1>15 DEF LeftOf
      <4>2. LeftOf(x, ResponseStamp) <= T!Limit[ResponseStamp] /\ LeftOf(x, ResponseStamp) \in Int
        BY <1>3, <1>15, StampFields, StampLimits
      <4>3. T!Limit[ResponseStamp] <= T!Limit[RequestStamp] /\ T!Limit[ResponseStamp] \in Nat /\ T!Limit[RequestStamp] \in Nat
        BY <1>15, StampLimits DEF T!TimeoutsAssumption
      <4> QED
        BY <4>1, <4>2, <4>3
    <3> QED
      BY <1>12, <3>2, <3>3 DEF Owning
  <2>2. (~T!HasInput(x) => clock[x].age[InputStamp] <= clock[x].empty + Waits(MaxWaiting - 1))'
    <3>1. ASSUME w = 1 PROVE clock'[x].age[InputStamp] <= clock'[x].empty + Waits(MaxWaiting - 1)
      <4>1. clock'[x].empty \in Nat /\ clock'[x].age[InputStamp] \in Nat /\ Waits(MaxWaiting - 1) \in Nat
        BY <1>3, <1>12, <1>15, <1>21, <3>1, StampFields, OneLess
      <4> QED
        BY <1>21, <3>1, <4>1
    <3>2. T!HasInput(x)' \/ w = 1
      BY <1>12 DEF T!HasInput
    <3> QED
      BY <3>1, <3>2 DEF Waits
  <2>3. ASSUME w - 1 > 0 PROVE InTurn(x)'
    <3>1. clock[x].age[InputStamp] \in Nat /\ clock[x].age[RoomStamp] \in Nat /\ clock'[x].age[RoomStamp] = clock[x].age[RoomStamp]
      BY <1>3, <1>12, <1>15, StampFields
    <3>2. /\ Waits(MaxWaiting - w) \in Nat /\ w - 1 < MaxWaiting
          /\ Waits(MaxWaiting - (w - 1)) = Waits(MaxWaiting - w) + MAX_FULL_RESPONSE_STREAM_TIME
          /\ Waits(MaxWaiting - 1 - (w - 1)) = Waits(MaxWaiting - w) /\ MAX_FULL_RESPONSE_STREAM_TIME \in Nat
      BY OneLess
    <3>3. /\ clock'[x].age[InputStamp] <= Waits(MaxWaiting - (w - 1))
          /\ clock'[x].age[InputStamp] <= clock'[x].age[RoomStamp] + Waits(MaxWaiting - 1 - (w - 1))
      BY <1>21, <3>1, <3>2
    <3> QED
      BY <1>12, <1>19, <3>2, <3>3 DEF InTurn, Full, Waiting, Waits
  <2> QED
    BY <1>12, <1>19, <2>1, <2>2, <2>3 DEF Kept
<1> QED
  BY <1>16, <1>17, <1>18, <1>20, <1>22 DEF ClockInv

LEMMA ClockSend ==
  ASSUME T!TimeoutsAssumption, ClockInv, NEW k \in 0 .. T!client_response_stream_size(cur), T!Send(k)
  PROVE  ClockInv'
<1> DEFINE rest == T!Rest(clock[cur].output, k)
           popped == Len(rest) < Len(clock[cur].output)
           set == (IF popped THEN {ResponseStamp} ELSE {})
                  \cup (IF T!Size(rest) < MAX_RESPONSE_STREAM_SIZE THEN {RoomStamp} ELSE {})
<1>1. /\ pc = "send"
      /\ clock' = [clock EXCEPT ![cur].output = rest,
                                  ![cur].age = [s \in T!Stamps |-> IF s \in set THEN 0 ELSE @[s]],
                                  ![cur].pending = IF popped THEN 0 ELSE @]
      /\ owner' = (IF rest = <<>> /\ owner = cur THEN T!None ELSE owner)
      /\ pc' = "process" /\ UNCHANGED <<todo, cur, remaining, waited>>
  BY DEF T!Send, ResponseStamp, RoomStamp
<1>2. PICK x \in Clients : x = cur
  BY <1>1 DEF ClockInv, Rounds, InVisit
<1>3. /\ ClockTypes /\ Rounds /\ \A c \in Clients : ClosedLate(c) /\ (clock[c].open => Kept(c))
      /\ waited = 0 /\ clock[x].open /\ x \notin todo /\ Visiting(x)
  BY <1>1, <1>2 DEF ClockInv, Rounds, InVisit, Visiting
<1>4. PICK r \in Records : r = clock[x]
  BY <1>3, StampFields
<1>5. PICK o \in Seq(Ends) : o = clock[x].output
  BY <1>3, StampFields
<1>6. T!Size(o) = T!client_response_stream_size(x) /\ T!Size(o) \in Nat /\ k \in 0 .. T!Size(o)
  BY <1>2, <1>3, <1>5, StampFields DEF T!client_response_stream_size
<1>7. PICK out \in Seq(Ends) : out = rest /\ Len(out) <= Len(o) /\ T!Size(out) = T!Size(o) - k
  BY <1>2, <1>5, <1>6, OutputSent
<1>8. PICK age \in [T!Stamps -> Nat] : age = [s \in T!Stamps |-> IF s \in set THEN 0 ELSE clock[x].age[s]]
  <2>1. \A s \in T!Stamps : clock[x].age[s] \in Nat
    BY <1>3, StampFields
  <2> HIDE DEF set
  <2>2. [s \in T!Stamps |-> IF s \in set THEN 0 ELSE clock[x].age[s]] \in [T!Stamps -> Nat]
    BY <2>1
  <2> QED
    BY <2>2, Zenon
<1>9. PICK pending \in Nat : pending = IF popped THEN 0 ELSE clock[x].pending
  <2>1. clock[x].pending \in Nat
    BY <1>3, StampFields
  <2> HIDE DEF popped
  <2> QED
    BY <2>1
<1>10. /\ clock' = [clock EXCEPT ![x] = clock'[x]]
       /\ clock'[x] = [r EXCEPT !.output = out, !.age = age, !.pending = pending]
  <2> HIDE DEF popped, set, rest
  <2> QED
    BY <1>1, <1>2, <1>3, <1>4, <1>7, <1>8, <1>9 DEF ClockTypes
<1>11. /\ clock'[x] \in Records /\ clock'[x].open /\ clock'[x].reason = clock[x].reason
       /\ clock'[x].whole = clock[x].whole /\ clock'[x].part = clock[x].part
       /\ clock'[x].output = out /\ clock'[x].age = age /\ clock'[x].empty = clock[x].empty
  <2>1. r.open
    BY <1>3, <1>4
  <2>2. clock'[x] \in Records
    BY <1>10 DEF Records
  <2>3. /\ clock'[x].open = r.open /\ clock'[x].reason = r.reason
        /\ clock'[x].whole = r.whole /\ clock'[x].part = r.part /\ clock'[x].empty = r.empty
    BY <1>10 DEF Records
  <2>4. clock'[x].output = out /\ clock'[x].age = age
    BY <1>10 DEF Records
  <2> QED
    BY <1>4, <2>1, <2>2, <2>3, <2>4
<1>12. \A c \in Clients \ {x} : clock'[c] = clock[c]
  BY <1>3, <1>10 DEF ClockTypes
<1>13. /\ T!client_response_stream_size(x)' = T!Size(out)
       /\ T!HasInput(x)' <=> T!HasInput(x)
  BY <1>11 DEF T!client_response_stream_size, T!HasInput
<1>14. /\ T!Stamps = {RequestStamp, InputStamp, RoomStamp, ResponseStamp}
       /\ \A s \in T!Stamps : age[s] = 0 \/ age[s] = clock[x].age[s]
       /\ age[InputStamp] = clock[x].age[InputStamp] /\ age[RequestStamp] = clock[x].age[RequestStamp]
       /\ Len(out) >= Len(o) => age[ResponseStamp] = clock[x].age[ResponseStamp]
       /\ T!Size(out) >= MAX_RESPONSE_STREAM_SIZE => age[RoomStamp] = clock[x].age[RoomStamp]
  <2>1. T!Stamps = {RequestStamp, InputStamp, RoomStamp, ResponseStamp}
    BY StampLimits
  <2>2. InputStamp \notin set /\ RequestStamp \notin set
    BY DEF RequestStamp, InputStamp, RoomStamp, ResponseStamp
  <2>3. Len(out) >= Len(o) => ResponseStamp \notin set
    BY <1>2, <1>5, <1>7 DEF RoomStamp, ResponseStamp
  <2>4. T!Size(out) >= MAX_RESPONSE_STREAM_SIZE => RoomStamp \notin set
    BY <1>6, <1>7 DEF RoomStamp, ResponseStamp, T!TimeoutsAssumption
  <2>5. \A s \in T!Stamps : age[s] = IF s \in set THEN 0 ELSE clock[x].age[s]
    <3> HIDE DEF set
    <3> QED
      BY <1>8
  <2> HIDE DEF set
  <2> QED
    BY <2>1, <2>2, <2>3, <2>4, <2>5
<1>15. ClockTypes'
  <2>1. \A s \in T!Stamps : clock'[x].age[s] <= T!Limit[s] + 1
    <3>1. \A s \in T!Stamps : clock[x].age[s] <= T!Limit[s] + 1 /\ 0 <= T!Limit[s] + 1
      BY <1>3, StampLimits DEF ClockTypes
    <3> QED
      BY <1>11, <1>14, <3>1
  <2>2. T!client_response_stream_size(x)' < MAX_RESPONSE_STREAM_SIZE + MaxResponse
    <3>1. T!client_response_stream_size(x) < MAX_RESPONSE_STREAM_SIZE + MaxResponse
      BY <1>3 DEF ClockTypes
    <3> QED
      BY <1>6, <1>7, <1>13, <3>1 DEF T!TimeoutsAssumption
  <2>3. owner' \in Clients \cup {T!None}
    BY <1>1, <1>3 DEF ClockTypes
  <2>4. /\ todo' \subseteq Clients /\ cur' \in Clients \cup {T!None}
        /\ remaining' \in -1 .. T!Never /\ waited' \in 0 .. T!Never
        /\ pc' \in InVisit \cup {"poll", "visit"}
    BY <1>1, <1>3 DEF ClockTypes, InVisit
  <2> QED
    BY <1>3, <1>10, <1>11, <2>1, <2>2, <2>3, <2>4, OneChanged
<1>16. Rounds'
  BY <1>1, <1>2, <1>3, <1>11, <1>12 DEF Rounds, InVisit, ClockTypes
<1>17. ASSUME NEW c \in Clients \ {x} PROVE ClosedLate(c)' /\ (clock[c].open => Kept(c))'
  <2>1. ~Visiting(c) /\ ~Visiting(c)' /\ (c \in todo' <=> c \in todo) /\ clock'[c] = clock[c]
    BY <1>1, <1>2, <1>12 DEF Visiting
  <2>2. remaining' \in -1 .. remaining /\ waited' = 0 /\ (owner' = owner \/ owner' # c)
    <3>1. owner' = owner \/ owner' = T!None
      BY <1>1
    <3>2. remaining' = remaining /\ waited' = 0 /\ remaining \in -1 .. T!Never
      BY <1>1, <1>3 DEF ClockTypes
    <3>3. c # T!None
      BY DEF T!TimeoutsAssumption
    <3> QED
      BY <3>1, <3>2, <3>3
  <2> QED
    BY <1>3, <2>1, <2>2, Unvisited
<1>18. Kept(x) /\ Visiting(x)'
  BY <1>1, <1>2, <1>3 DEF Visiting, InVisit
<1>19. ClosedLate(x)'
  BY <1>11, <1>18, StampLimits DEF ClosedLate, Kept, InputStamp, T!None
<1>20. Kept(x)'
  <2>1. ASSUME owner' = x PROVE Owning(x)'
    <3>1. owner = x /\ out # <<>>
      BY <1>1, <1>2, <1>7, <2>1 DEF T!TimeoutsAssumption
    <3>2. Owning(x) /\ Len(o) = 1
      BY <1>5, <1>18, <3>1 DEF Kept, Owning
    <3>3. Len(out) = 1
      BY <1>7, <3>1, <3>2
    <3>4. LeftOf(x, ResponseStamp)' = LeftOf(x, ResponseStamp) /\ LeftOf(x, RequestStamp)' = LeftOf(x, RequestStamp)
      BY <1>11, <1>14, <3>2, <3>3 DEF LeftOf
    <3> QED
      BY <1>11, <3>2, <3>3, <3>4 DEF Owning
  <2>2. (~T!HasInput(x) => clock[x].age[InputStamp] <= clock[x].empty + Waits(MaxWaiting - 1))'
    BY <1>11, <1>13, <1>14, <1>18 DEF Kept, Waits
  <2>3. ASSUME clock[x].whole > 0 PROVE InTurn(x)'
    <3>1. InTurn(x) /\ clock[x].age[InputStamp] <= Waits(MaxWaiting - clock[x].whole)
      BY <1>3, <1>18, <2>3 DEF Kept, InTurn
    <3>2. ASSUME T!Size(out) >= MAX_RESPONSE_STREAM_SIZE PROVE Full(x)' /\ Waiting(x)'
      <4>1. T!client_response_stream_size(x) >= MAX_RESPONSE_STREAM_SIZE
        BY <1>6, <1>7, <3>2 DEF T!TimeoutsAssumption
      <4>2. Full(x) /\ Waiting(x)
        BY <1>3, <3>1, <4>1 DEF InTurn
      <4> QED
        BY <1>11, <1>13, <1>14, <3>2, <4>2 DEF Full, Waiting, Waits
    <3> QED
      BY <1>11, <1>13, <1>14, <1>18, <3>1, <3>2 DEF InTurn, Waits
  <2> QED
    BY <1>11, <1>18, <2>1, <2>2, <2>3 DEF Kept
<1> QED
  BY <1>15, <1>16, <1>17, <1>19, <1>20 DEF ClockInv

LEMMA ClockLeave == ASSUME T!TimeoutsAssumption, ClockInv, T!Leave PROVE ClockInv'
<1>1. /\ pc = "leave" /\ remaining' = T!Arm(cur) /\ pc' = (IF todo = {} THEN "poll" ELSE "visit")
      /\ UNCHANGED <<clock, owner, todo, cur, waited>>
  BY DEF T!Leave
<1>2. PICK x \in Clients : x = cur
  BY <1>1 DEF ClockInv, Rounds, InVisit
<1>3. /\ ClockTypes /\ Rounds /\ \A c \in Clients : ClosedLate(c) /\ (clock[c].open => Kept(c))
      /\ waited = 0 /\ clock[x].open /\ x \notin todo /\ Visiting(x)
  BY <1>1, <1>2 DEF ClockInv, Rounds, InVisit, Visiting
<1>4. /\ remaining' = T!Arm(x) /\ remaining' \in -1 .. T!Never /\ remaining' <= remaining
      /\ \A s \in T!Guarded(x) : T!Arm(x) <= LeftOf(x, s)
  BY <1>1, <1>2, <1>3, ArmIs
<1>5. \A c : T!client_response_stream_size(c)' = T!client_response_stream_size(c)
  BY <1>1 DEF T!client_response_stream_size
<1>6. ClockTypes'
  BY <1>1, <1>3, <1>4, <1>5 DEF ClockTypes
<1>7. Rounds'
  BY <1>1, <1>3 DEF Rounds, InVisit
<1>8. ASSUME NEW c \in Clients \ {x} PROVE ClosedLate(c)' /\ (clock[c].open => Kept(c))'
  <2>1. ~Visiting(c) /\ ~Visiting(c)' /\ (c \in todo' <=> c \in todo) /\ clock'[c] = clock[c]
    BY <1>1, <1>2 DEF Visiting, InVisit
  <2>2. remaining' \in -1 .. remaining /\ waited' = 0 /\ owner' = owner
    BY <1>1, <1>3, <1>4 DEF ClockTypes
  <2> QED
    BY <1>3, <2>1, <2>2, Unvisited
<1>9. ClosedLate(x)'
  BY <1>1, <1>3 DEF ClosedLate, Waits
<1>10. Kept(x)'
  <2>1. Kept(x) /\ ~Visiting(x)'
    BY <1>1, <1>3 DEF Visiting, InVisit
  <2>2. /\ T!HasInput(x)' <=> T!HasInput(x)
        /\ \A s : LeftOf(x, s)' = LeftOf(x, s)
    BY <1>1 DEF T!HasInput, LeftOf
  <2>3. T!Guarded(x)' = T!Guarded(x)
    <3>1. ASSUME NEW s
          PROVE  Counts(s, T!client_response_stream_size(x)', (owner = x)', T!HasInput(x)') <=>
                 Counts(s, T!client_response_stream_size(x), owner = x, T!HasInput(x))
      BY <1>1, <1>5, <2>2 DEF Counts
    <3> QED
      BY <3>1, GuardedAre, GuardedBecome
  <2>4. Armed(x)'
    <3>1. ASSUME NEW s \in T!Guarded(x)
          PROVE  remaining' - waited' <= LeftOf(x, s)' /\ remaining' # T!Never
      <4>1. s \in T!Stamps
        BY GuardedAre
      <4>2. LeftOf(x, s) \in -1 .. T!Limit[s]
        BY <1>3, <4>1, StampFields
      <4>3. T!Limit[s] \in Nat /\ T!Limit[s] <= T!Longest /\ T!Longest \in Nat /\ T!Never = T!Longest + 1
        BY <4>1, StampLimits
      <4>4. remaining' <= LeftOf(x, s)
        BY <1>4
      <4> QED
        BY <1>1, <1>3, <1>4, <2>2, <4>2, <4>3, <4>4
    <3> QED
      BY <2>3, <3>1 DEF Armed
  <2>5. (owner = x => Owning(x))'
    BY <1>1, <2>1, <2>2 DEF Kept, Owning
  <2>6. (~T!HasInput(x) => clock[x].age[InputStamp] <= clock[x].empty + Waits(MaxWaiting - 1))'
    BY <1>1, <2>1, <2>2 DEF Kept, Waits
  <2>7. ASSUME clock[x].whole > 0 PROVE InTurn(x)'
    <3>1. T!client_response_stream_size(x) >= MAX_RESPONSE_STREAM_SIZE
      <4>1. clock[x].whole # 0
        BY <1>3, <2>7, StampFields
      <4> QED
        BY <1>1, <1>2, <1>3, <4>1 DEF Rounds
    <3>2. Full(x) /\ Waiting(x)
      BY <1>3, <2>1, <2>7, <3>1 DEF Kept, InTurn
    <3> QED
      BY <1>1, <1>5, <2>1, <3>2 DEF InTurn, Full, Waiting, Waits
  <2> QED
    BY <1>1, <2>1, <2>4, <2>5, <2>6, <2>7 DEF Kept
<1> QED
  BY <1>1, <1>6, <1>7, <1>8, <1>9, <1>10 DEF ClockInv

LEMMA ClockNext == ASSUME T!TimeoutsAssumption, ClockInv, T!Next PROVE ClockInv'
<1>1. CASE T!Tick
  BY <1>1, ClockTick
<1>2. CASE T!PollEvent
  BY <1>2, ClockStart DEF T!PollEvent
<1>3. CASE T!PollTimeout
  BY <1>3, ClockStart DEF T!PollTimeout
<1>4. ASSUME NEW c \in todo, NEW s \in T!Stamps, T!VisitExpired(c, s) PROVE ClockInv'
  BY <1>4, ClockExpired
<1>5. ASSUME NEW c \in todo, NEW blocked \in BOOLEAN, T!Visit(c, blocked) PROVE ClockInv'
  BY <1>5, ClockVisited
<1>6. ASSUME NEW n \in 0 .. MaxWaiting, NEW part \in BOOLEAN, T!Receive(n, part) PROVE ClockInv'
  BY <1>6, ClockReceive
<1>7. CASE T!NotReceive
  BY <1>7, MovesOn DEF T!NotReceive, InVisit
<1>8. ASSUME NEW r \in 1 .. MaxResponse, T!Process(r) PROVE ClockInv'
  BY <1>8, ClockProcess
<1>9. CASE T!NotProcess
  <2>1. /\ pc = "process" /\ ~T!MakesSenseToParse /\ pc' \in InVisit
        /\ UNCHANGED <<clock, owner, todo, cur, remaining, waited>>
    BY <1>9 DEF T!NotProcess, InVisit
  <2>2. cur \in Clients /\ ClockTypes
    BY <2>1 DEF ClockInv, Rounds, InVisit
  <2>3. clock[cur].whole = 0 \/ T!client_response_stream_size(cur) >= MAX_RESPONSE_STREAM_SIZE
    BY <2>1, <2>2, StampFields DEF T!MakesSenseToParse, T!TimeoutsAssumption
  <2> QED
    BY <2>1, <2>3, MovesOn DEF InVisit
<1>10. ASSUME NEW k \in 0 .. T!client_response_stream_size(cur), T!Send(k) PROVE ClockInv'
  BY <1>10, ClockSend
<1>11. CASE T!NotSend
  BY <1>11, MovesOn DEF T!NotSend, InVisit
<1>12. CASE T!Leave
  BY <1>12, ClockLeave
<1> QED
  BY <1>1, <1>2, <1>3, <1>4, <1>5, <1>6, <1>7, <1>8, <1>9, <1>10, <1>11, <1>12 DEF T!Next, T!Visits

LEMMA ClockStutters == ASSUME ClockInv, UNCHANGED T!vars PROVE ClockInv'
<1>1. /\ clock' = clock /\ owner' = owner /\ pc' = pc /\ todo' = todo /\ cur' = cur
      /\ saturated' = saturated /\ remaining' = remaining /\ waited' = waited
  BY DEF T!vars, T!control
<1>2. /\ \A c : T!client_response_stream_size(c)' = T!client_response_stream_size(c)
      /\ \A c : T!HasInput(c)' <=> T!HasInput(c)
      /\ \A c : T!Guarded(c)' = T!Guarded(c)
      /\ \A c, s : LeftOf(c, s)' = LeftOf(c, s)
  BY <1>1 DEF T!client_response_stream_size, T!HasInput, T!Guarded, LeftOf
<1>3. ClockTypes' /\ Rounds'
  BY <1>1, <1>2 DEF ClockInv, ClockTypes, Rounds
<1>4. ASSUME NEW c \in Clients PROVE ClosedLate(c)' /\ (clock[c].open => Kept(c))'
  BY <1>1, <1>2 DEF ClockInv, ClosedLate, Kept, Armed, Owning, InTurn, Full, Waiting, Waits, Visiting
<1> QED
  BY <1>3, <1>4 DEF ClockInv

------------------------------------------------------------------------------
(* When the time for poll() is negative.                                   *)

\* A client whose visit is done, or not begun, has a time that counts and is over.
Overran(c) ==
  /\ clock[c].open /\ c \notin todo /\ ~Visiting(c)
  /\ \E s \in T!Guarded(c) : LeftOf(c, s) = -1
Overdue == remaining = -1 => \E c \in Clients : Overran(c)

\* A step that keeps the clients whose visit is done, and takes the buffer at most away.
LEMMA StillOverdue ==
  ASSUME T!TimeoutsAssumption, ClockInv, Overdue, remaining' = remaining \/ remaining' = T!Never,
         \A c \in Clients \ todo : clock[c].open /\ ~Visiting(c) =>
           clock'[c] = clock[c] /\ c \notin todo' /\ ~Visiting(c)' /\ (owner' = owner \/ owner' # c)
  PROVE  Overdue'
<1> SUFFICES ASSUME remaining' = -1 PROVE \E c \in Clients : Overran(c)'
  BY DEF Overdue
<1>1. remaining = -1
  BY StampLimits
<1>2. PICK c \in Clients : Overran(c)
  BY <1>1 DEF Overdue
<1>3. clock'[c] = clock[c] /\ c \notin todo' /\ ~Visiting(c)' /\ (owner' = owner \/ owner' # c)
  BY <1>2 DEF Overran
<1>4. PICK s \in T!Guarded(c) : LeftOf(c, s) = -1
  BY <1>2 DEF Overran
<1>5. /\ T!client_response_stream_size(c)' = T!client_response_stream_size(c)
      /\ T!HasInput(c)' <=> T!HasInput(c)
      /\ LeftOf(c, s)' = LeftOf(c, s)
  BY <1>3 DEF T!client_response_stream_size, T!HasInput, LeftOf
<1>6. s \in T!Guarded(c)'
  <2>1. s \in T!Stamps /\ Counts(s, T!client_response_stream_size(c), owner = c, T!HasInput(c))
    BY GuardedAre
  <2>2. Counts(s, T!client_response_stream_size(c)', (owner = c)', T!HasInput(c)')
    BY <1>3, <1>5, <2>1 DEF Counts
  <2> QED
    BY <2>1, <2>2, GuardedBecome
<1>7. Overran(c)'
  BY <1>2, <1>3, <1>4, <1>5, <1>6 DEF Overran
<1> QED
  BY <1>7

LEMMA TickOverdue == ASSUME T!TimeoutsAssumption, ClockInv, Overdue, T!Tick PROVE Overdue'
<1> SUFFICES ASSUME remaining' = -1 PROVE \E c \in Clients : Overran(c)'
  BY DEF Overdue
<1>1. pc = "poll" /\ UNCHANGED <<owner, pc, todo, cur, remaining>>
  BY DEF T!Tick, T!control
<1>2. PICK c \in Clients : Overran(c)
  BY <1>1 DEF Overdue
<1>3. PICK s \in T!Guarded(c) : LeftOf(c, s) = -1
  BY <1>2 DEF Overran
<1>4. s \in T!Stamps /\ clock[c] \in Records /\ clock[c].age \in [T!Stamps -> Nat]
      /\ clock[c].age[s] \in Nat /\ T!Limit[s] \in Nat
  <2>1. s \in T!Stamps
    BY GuardedAre
  <2> QED
    BY <2>1, StampFields, StampLimits DEF ClockInv
<1>5. clock[c].age[s] = T!Limit[s] + 1
  BY <1>3, <1>4 DEF LeftOf
<1>6. PICK age, e, p :
        /\ clock'[c] = [clock[c] EXCEPT !.age = age, !.empty = e, !.pending = p]
        /\ age = [q \in T!Stamps |-> T!Older(clock[c].age[q], T!Limit[q] + 1)]
  BY <1>2, Zenon DEF T!Tick, Overran
<1>7. /\ clock'[c].open = clock[c].open /\ clock'[c].whole = clock[c].whole /\ clock'[c].part = clock[c].part
      /\ clock'[c].output = clock[c].output /\ clock'[c].age = age
  BY <1>4, <1>6 DEF Records
<1>8. clock'[c].age[s] = clock[c].age[s]
  BY <1>4, <1>5, <1>6, <1>7 DEF T!Older
<1>9. LeftOf(c, s)' = -1
  BY <1>3, <1>8 DEF LeftOf
<1>10. /\ T!client_response_stream_size(c)' = T!client_response_stream_size(c)
       /\ T!HasInput(c)' <=> T!HasInput(c)
  BY <1>7 DEF T!client_response_stream_size, T!HasInput
<1>11. s \in T!Guarded(c)'
  <2>1. Counts(s, T!client_response_stream_size(c), owner = c, T!HasInput(c))
    BY GuardedAre
  <2>2. Counts(s, T!client_response_stream_size(c)', (owner = c)', T!HasInput(c)')
    BY <1>1, <1>10, <2>1 DEF Counts
  <2> QED
    BY <1>4, <2>2, GuardedBecome
<1>12. Overran(c)'
  BY <1>1, <1>2, <1>7, <1>9, <1>11 DEF Overran, Visiting
<1> QED
  BY <1>12

LEMMA LeaveOverdue == ASSUME T!TimeoutsAssumption, ClockInv, Overdue, T!Leave PROVE Overdue'
<1>1. /\ pc = "leave" /\ remaining' = T!Arm(cur) /\ pc' = (IF todo = {} THEN "poll" ELSE "visit")
      /\ UNCHANGED <<clock, owner, todo, cur, waited>>
  BY DEF T!Leave
<1>2. /\ ClockTypes /\ cur \in Clients /\ clock[cur].open /\ cur \notin todo
  BY <1>1 DEF ClockInv, Rounds, InVisit
<1>3. \A c : ~Visiting(c)'
  BY <1>1 DEF Visiting, InVisit
<1>4. \A c, s : LeftOf(c, s)' = LeftOf(c, s)
  BY <1>1 DEF LeftOf
<1>5. \A c : T!Guarded(c)' = T!Guarded(c)
  BY <1>1 DEF T!Guarded, T!client_response_stream_size, T!HasInput
<1>6. CASE T!Arm(cur) = remaining
  <2>1. \A c : Overran(c) => Overran(c)'
    BY <1>1, <1>3, <1>4, <1>5 DEF Overran
  <2> QED
    BY <1>1, <1>6, <2>1 DEF Overdue
<1>7. CASE \E s \in T!Guarded(cur) : T!Arm(cur) = LeftOf(cur, s)
  <2> SUFFICES ASSUME remaining' = -1 PROVE Overran(cur)'
    BY <1>1, <1>2 DEF Overdue
  <2>1. PICK s \in T!Guarded(cur) : LeftOf(cur, s) = -1
    BY <1>1, <1>7
  <2> QED
    BY <1>1, <1>2, <1>3, <1>4, <1>5, <2>1 DEF Overran
<1> QED
  BY <1>2, <1>6, <1>7, ArmIs

LEMMA OverdueNext == ASSUME T!TimeoutsAssumption, ClockInv, Overdue, T!Next PROVE Overdue'
<1>1. CASE T!Tick
  BY <1>1, TickOverdue
<1>2. CASE T!PollEvent \/ T!PollTimeout
  <2>1. remaining' = T!Never
    BY <1>2 DEF T!PollEvent, T!PollTimeout, T!StartVisits
  <2> QED
    BY <2>1, StampLimits DEF Overdue
<1>3. ASSUME NEW x \in todo, NEW s \in T!Stamps, T!VisitExpired(x, s) PROVE Overdue'
  <2>1. /\ pc' \in {"poll", "visit"} /\ todo' = todo \ {x} /\ UNCHANGED <<owner, cur, remaining>>
        /\ clock' = [clock EXCEPT ![x].open = FALSE, ![x].reason = s, ![x].output = <<>>,
                                  ![x].whole = 0, ![x].part = FALSE]
    BY <1>3 DEF T!VisitExpired, T!Close, T!NextVisit
  <2>2. \A c \in Clients \ todo : clock'[c] = clock[c]
    BY <2>1 DEF ClockInv, ClockTypes
  <2>3. \A c : ~Visiting(c)'
    BY <2>1 DEF Visiting, InVisit
  <2> QED
    BY <2>1, <2>2, <2>3, StillOverdue
<1>4. ASSUME NEW x \in todo, NEW blocked \in BOOLEAN, T!Visit(x, blocked) PROVE Overdue'
  <2>1. cur' = x /\ todo' = todo \ {x} /\ UNCHANGED <<clock, owner, remaining>>
    BY <1>4 DEF T!Visit
  <2>2. \A c \in Clients \ todo : ~Visiting(c)'
    BY <2>1 DEF Visiting
  <2> QED
    BY <2>1, <2>2, StillOverdue
<1>5. ASSUME pc \in InVisit, pc' \in InVisit, UNCHANGED <<todo, cur, remaining>>,
             \A c \in Clients \ {cur} : clock'[c] = clock[c], owner' \in {owner, cur, T!None}
      PROVE  Overdue'
  <2>1. T!None \notin Clients
    BY DEF T!TimeoutsAssumption
  <2>2. ASSUME NEW c \in Clients \ todo, clock[c].open, ~Visiting(c)
        PROVE  clock'[c] = clock[c] /\ c \notin todo' /\ ~Visiting(c)' /\ (owner' = owner \/ owner' # c)
    BY <1>5, <2>1, <2>2 DEF Visiting
  <2> QED
    BY <1>5, <2>2, StillOverdue
<1>6. clock \in [Clients -> Records]
  BY DEF ClockInv, ClockTypes
<1>7. ASSUME NEW n \in 0 .. MaxWaiting, NEW part \in BOOLEAN, T!Receive(n, part) PROVE Overdue'
  <2>1. \A c \in Clients \ {cur} : clock'[c] = clock[c]
    BY <1>6, <1>7, Zenon DEF T!Receive
  <2> QED
    BY <1>5, <1>7, <2>1 DEF T!Receive, InVisit
<1>8. CASE T!NotReceive
  BY <1>5, <1>8 DEF T!NotReceive, InVisit
<1>9. ASSUME NEW n \in 1 .. MaxResponse, T!Process(n) PROVE Overdue'
  <2>1. \A c \in Clients \ {cur} : clock'[c] = clock[c]
    BY <1>6, <1>9, Zenon DEF T!Process
  <2> QED
    BY <1>5, <1>9, <2>1 DEF T!Process, InVisit
<1>10. CASE T!NotProcess
  BY <1>5, <1>10 DEF T!NotProcess, InVisit
<1>11. ASSUME NEW k \in 0 .. T!client_response_stream_size(cur), T!Send(k) PROVE Overdue'
  <2>1. \A c \in Clients \ {cur} : clock'[c] = clock[c]
    BY <1>6, <1>11, Zenon DEF T!Send
  <2>2. /\ pc = "send" /\ pc' = "process" /\ UNCHANGED <<todo, cur, remaining>> /\ owner' \in {owner, T!None}
    BY <1>11 DEF T!Send
  <2> QED
    BY <1>5, <2>1, <2>2 DEF InVisit
<1>12. CASE T!NotSend
  BY <1>5, <1>12 DEF T!NotSend, InVisit
<1>13. CASE T!Leave
  BY <1>13, LeaveOverdue
<1> QED
  BY <1>1, <1>2, <1>3, <1>4, <1>7, <1>8, <1>9, <1>10, <1>11, <1>12, <1>13 DEF T!Next, T!Visits

LEMMA OverdueInit == ASSUME T!TimeoutsAssumption, T!Init PROVE Overdue
<1>1. remaining = T!Limit[InputStamp]
  BY StampLimits DEF T!Init
<1>2. T!Limit[InputStamp] \in Nat
  BY StampLimits
<1> QED
  BY <1>1, <1>2 DEF Overdue

LEMMA OverdueStutters == ASSUME Overdue, UNCHANGED T!vars PROVE Overdue'
  BY DEF T!vars, T!control, Overdue, Overran, Visiting, LeftOf, T!Guarded, T!client_response_stream_size, T!HasInput

------------------------------------------------------------------------------
(* The theorems about the clock.                                           *)

LEMMA ClockInvImpliesTypeOK == ASSUME T!TimeoutsAssumption, ClockInv PROVE T!TypeOK
<1>1. ClockTypes
  BY DEF ClockInv
<1>2. ASSUME NEW c \in Clients
      PROVE  /\ \A s \in T!Stamps : clock[c].age[s] \in 0 .. T!Limit[s] + 1
             /\ clock[c].whole \in 0 .. MaxWaiting
  BY <1>1, StampFields, StampLimits DEF ClockTypes
<1> QED
  BY <1>1, <1>2 DEF ClockTypes, T!TypeOK

LEMMA ClockInvImpliesInTime ==
  ASSUME T!TimeoutsAssumption, ClockInv, Overdue
  PROVE  T!WakesInTime /\ T!EmptyClosedLate
<1>1. ASSUME pc = "poll", ~(remaining < 0), NEW c \in Clients, clock[c].open, NEW s \in T!Guarded(c)
      PROVE  remaining # T!Never /\ remaining - waited <= T!Limit[s] - clock[c].age[s]
  <2>1. Armed(c)
    BY <1>1 DEF ClockInv, Rounds, Kept, Visiting, InVisit
  <2>2. remaining # T!Never
    BY <1>1, <2>1 DEF Armed
  <2>3. remaining \in 0 .. T!Longest
    BY <1>1, <2>2, StampLimits DEF ClockInv, ClockTypes
  <2> QED
    BY <2>1, <2>2, <2>3, <1>1 DEF Armed, LeftOf
<1>2. ASSUME remaining < 0 PROVE \E c \in Clients : clock[c].open /\ T!Expired(c) # {}
  <2>1. remaining = -1
    BY <1>2, StampLimits DEF ClockInv, ClockTypes
  <2>2. PICK c \in Clients : Overran(c)
    BY <2>1 DEF Overdue
  <2>3. PICK s \in T!Guarded(c) : LeftOf(c, s) = -1
    BY <2>2 DEF Overran
  <2>4. clock[c].age[s] > T!Limit[s]
    <3>1. s \in T!Stamps
      BY GuardedAre
    <3>2. clock[c].age[s] \in Nat /\ T!Limit[s] \in Nat
      BY <3>1, StampFields, StampLimits DEF ClockInv
    <3> QED
      BY <2>3, <3>2 DEF LeftOf
  <2> QED
    BY <2>2, <2>4 DEF Overran, T!Expired
<1>3. T!WakesInTime
  BY <1>1, <1>2 DEF T!WakesInTime
<1>4. T!EmptyClosedLate
  BY DEF ClockInv, ClosedLate, Waits, InputStamp, T!EmptyClosedLate
<1> QED
  BY <1>3, <1>4

(* The invariant of the clock holds after every step of the event loop.    *)
THEOREM ClockInvariant == ASSUME T!TimeoutsAssumption PROVE T!Spec => [](ClockInv /\ Overdue)
<1>1. T!Init => ClockInv /\ Overdue
  BY ClockInit, OverdueInit
<1>2. ClockInv /\ Overdue /\ [T!Next]_T!vars => ClockInv' /\ Overdue'
  BY ClockNext, ClockStutters, OverdueNext, OverdueStutters
<1> QED
  BY <1>1, <1>2, PTL DEF T!Spec

(* The stamps, the time that poll() waits and the sizes of the streams stay *)
(* in their ranges after every visit.                                      *)
THEOREM TimeoutsTypeOK == ASSUME T!TimeoutsAssumption PROVE T!Spec => []T!TypeOK
<1>1. ClockInv => T!TypeOK
  BY ClockInvImpliesTypeOK
<1> QED
  BY <1>1, ClockInvariant, PTL

(* poll() ends before or with the first limit of any open client: what      *)
(* check_timeouts computed at the end of a visit covers the limits of all  *)
(* clients, although later visits of the same cycle take the shared buffer *)
(* from its owner and make one more stamp of it count.  Only if it came    *)
(* out negative poll() waits for an event, and then a limit of some open   *)
(* client is over already.                                                 *)
THEOREM TimeoutsWakesInTime == ASSUME T!TimeoutsAssumption PROVE T!Spec => []T!WakesInTime
<1>1. ClockInv /\ Overdue => T!WakesInTime
  BY ClockInvImpliesInTime
<1> QED
  BY <1>1, ClockInvariant, PTL

(* server_process_client closes a client for an empty input only if the     *)
(* input was empty for longer than MAX_EMPTY_REQUEST_STREAM_TIME, less the  *)
(* time that its requests waited for room in the output.                   *)
THEOREM TimeoutsEmptyClosedLate == ASSUME T!TimeoutsAssumption PROVE T!Spec => []T!EmptyClosedLate
<1>1. ClockInv /\ Overdue => T!EmptyClosedLate
  BY ClockInvImpliesInTime
<1> QED
  BY <1>1, ClockInvariant, PTL
=============================================================================
