----------------------------- MODULE ServerProofs -----------------------------
(***************************************************************************)
(* Proofs about Server for every limit and every amount of traffic: its    *)
(* types and the bound on its clients; then what each connection is sent,  *)
(* what a closed one can still meet, and that the server never sleeps on   *)
(* work it could do.                                                       *)
(***************************************************************************)
EXTENDS Server, SequenceTheorems, FiniteSetTheorems, NumberInduction

------------------------------------------------------------------------------
(* Replacing one element keeps a sequence's type and length. *)
LEMMA ReplaceOne ==
  ASSUME NEW S, NEW s \in Seq(S), NEW i \in DOMAIN s, NEW x \in S
  PROVE  /\ [s EXCEPT ![i] = x] \in Seq(S)
         /\ Len([s EXCEPT ![i] = x]) = Len(s)
         /\ DOMAIN [s EXCEPT ![i] = x] = DOMAIN s
  OBVIOUS

(* The bytes of one response are messages. *)
LEMMA UnitsType ==
  ASSUME NEW c \in Conns, NEW m \in Nat, NEW n \in Nat
  PROVE  Units(c, m, m + n) \in Seq(Message)
  <1>1. \A i \in 1 .. n : Unit(c, m + i) \in Message
    BY ServerAssumption DEF Unit, Message, Conns
  <1> QED BY <1>1 DEF Units

(* The fields of a client. *)
LEMMA Fields ==
  ASSUME NEW c \in Client
  PROVE  /\ c.conn \in Conns /\ c.dead \in BOOLEAN /\ c.events \subseteq {"in", "out"}
         /\ c.request_stream \in Seq(Bytes) /\ c.request_size \in Nat
         /\ c.parser \in {"begin", "wait", "end"}
         /\ c.response_stream \in Seq(Message) /\ c.response \in Responses
         /\ c.response_queue \in Seq(Responses) /\ c.response_count \in Int
  BY DEF Client

(* Replacing a field by a value of its type. *)
LEMMA UpdateType ==
  ASSUME NEW c \in Client
  PROVE  /\ [c EXCEPT !.dead = TRUE] \in Client
         /\ \A v \in SUBSET {"in", "out"} : [c EXCEPT !.events = v] \in Client
         /\ \A v \in Seq(Bytes) : [c EXCEPT !.request_stream = v] \in Client
         /\ \A v \in Nat : [c EXCEPT !.request_size = v] \in Client
         /\ \A v \in {"begin", "wait", "end"} : [c EXCEPT !.parser = v] \in Client
         /\ \A v \in Seq(Message) : [c EXCEPT !.response_stream = v] \in Client
         /\ \A v \in Responses : [c EXCEPT !.response = v] \in Client
         /\ \A v \in Seq(Responses) : [c EXCEPT !.response_queue = v] \in Client
         /\ \A v \in Int : [c EXCEPT !.response_count = v] \in Client
  <1>1. [c EXCEPT !.dead = TRUE] \in Client  BY DEF Client
  <1>2. \A v \in SUBSET {"in", "out"} : [c EXCEPT !.events = v] \in Client  BY DEF Client
  <1>3. \A v \in Seq(Bytes) : [c EXCEPT !.request_stream = v] \in Client  BY DEF Client
  <1>4. \A v \in Nat : [c EXCEPT !.request_size = v] \in Client  BY DEF Client
  <1>5. \A v \in {"begin", "wait", "end"} : [c EXCEPT !.parser = v] \in Client  BY DEF Client
  <1>6. \A v \in Seq(Message) : [c EXCEPT !.response_stream = v] \in Client  BY DEF Client
  <1>7. \A v \in Responses : [c EXCEPT !.response = v] \in Client  BY DEF Client
  <1>8. \A v \in Seq(Responses) : [c EXCEPT !.response_queue = v] \in Client  BY DEF Client
  <1>9. \A v \in Int : [c EXCEPT !.response_count = v] \in Client  BY DEF Client
  <1> QED BY <1>1, <1>2, <1>3, <1>4, <1>5, <1>6, <1>7, <1>8, <1>9

(* client_finalize returns a client. *)
LEMMA FinalizeType ==
  ASSUME NEW c \in Client
  PROVE  client_finalize(c) \in Client
  <1> DEFINE c1 == [c EXCEPT !.dead = TRUE]
             c2 == [c1 EXCEPT !.request_stream = <<>>]
             c3 == [c2 EXCEPT !.response_queue = <<>>]
             c4 == [c3 EXCEPT !.response_stream = <<>>]
  <1>0. <<>> \in Seq(Bytes) /\ <<>> \in Seq(Message) /\ <<>> \in Seq(Responses)
    OBVIOUS
  <1>5. client_finalize(c) = c4
    BY Zenon DEF client_finalize
  <1>1. c1 \in Client
    BY UpdateType
  <1> HIDE DEF c1
  <1>2. c2 \in Client
    BY <1>0, <1>1, UpdateType
  <1> HIDE DEF c2
  <1>3. c3 \in Client
    BY <1>0, <1>2, UpdateType
  <1> HIDE DEF c3
  <1>4. c4 \in Client
    BY <1>0, <1>3, UpdateType
  <1> QED BY <1>4, <1>5

(* What is left behind the first k elements of a sequence. *)
LEMMA SubSeqType ==
  ASSUME NEW S, NEW s \in Seq(S), NEW k \in Nat
  PROVE  SubSeq(s, k + 1, Len(s)) \in Seq(S)
  OBVIOUS

(* The first k elements of a sequence. *)
LEMMA TakenType ==
  ASSUME NEW S, NEW s \in Seq(S), NEW k \in 0 .. Len(s)
  PROVE  Taken(s, k) \in Seq(S)
  BY DEF Taken

------------------------------------------------------------------------------
(***************************************************************************)
(* The inductive invariant: during a visit cur is a place of the array,    *)
(* otherwise it is 0; and while connections are accepted, the clients are  *)
(* as many as at the test of the limit plus the sockets served since.      *)
(***************************************************************************)
VisitPcs == {"first", "receive", "process", "send", "pop_short", "long",
             "pop_long", "sent", "wait"}

Places ==
  /\ pc \in VisitPcs => cur \in DOMAIN clients
  /\ pc \notin VisitPcs => cur = 0

Admission ==
  /\ Len(clients) < MAX_CLIENTS + ACCEPTING_SOCKETS
  /\ pc = "accept" /\ ~refuse => Len(clients) < MAX_CLIENTS + index
  /\ pc \notin {"accept", "failed"} => index = 0

IInv == TypeOK /\ Places /\ Admission

(* The part of TypeOK about the history. *)
HistoryOK ==
  /\ wire \in [Conns -> Seq(Message)]
  /\ received \in [Conns -> Nat]
  /\ issued \in [Conns -> Nat]
  /\ closing \in [Conns -> BOOLEAN]
  /\ outcome \in [Conns -> {"new", "open", "served", "failed"}]
  /\ orphaned \in BOOLEAN

(* A visit's step keeps the invariant if it keeps the types and the places *)
(* of the array.                                                           *)
LEMMA VisitStep ==
  ASSUME IInv, pc \in VisitPcs,
         clients' \in Seq(Client), Len(clients') = Len(clients),
         g_short' \in Seq(Message), owner' \in Nat, HistoryOK',
         index' = index, todo' = todo, refuse' = refuse,
         flags' \subseteq {"exhausted", "closed", "saturated"},
         done' \in BOOLEAN, sent' \in Nat,
         \/ pc' \in VisitPcs /\ cur' = cur
         \/ pc' \in {"next", "panic"} /\ cur' = 0
  PROVE  IInv'
  <1>1. DOMAIN clients' = DOMAIN clients
    BY DEF IInv, TypeOK
  <1>2. index = 0 /\ cur \in DOMAIN clients
    BY DEF IInv, Places, Admission, VisitPcs
  <1>3. TypeOK'
    BY <1>1, <1>2 DEF IInv, TypeOK, HistoryOK, Pcs, VisitPcs
  <1>4. Places'
    BY <1>1, <1>2 DEF Places, VisitPcs
  <1>5. Admission'
    BY <1>2 DEF IInv, TypeOK, Admission, VisitPcs
  <1> QED BY <1>3, <1>4, <1>5 DEF IInv

(* A visit that ends in an error keeps it too. *)
LEMMA FailureStep ==
  ASSUME IInv, pc \in VisitPcs,
         NEW cs \in Seq(Client), Len(cs) = Len(clients), NEW o \in Nat,
         NEW w \in [Conns -> Seq(Message)], NEW send \in BOOLEAN,
         NEW place \in {"next", "panic"},
         Failure(cs, o, w, send, place), g_short' \in Seq(Message),
         received' \in [Conns -> Nat], issued' \in [Conns -> Nat],
         closing' \in [Conns -> BOOLEAN]
  PROVE  IInv'
  <1>1. /\ cur \in DOMAIN clients /\ clients \in Seq(Client)
        /\ cur \in DOMAIN cs /\ cs[cur] \in Client
        /\ client \in Client
    BY DEF IInv, TypeOK, Places, client
  <1>2. client.conn \in Conns
    BY <1>1, Fields
  <1>3. clients' \in Seq(Client) /\ Len(clients') = Len(clients)
    BY <1>1, ReplaceOne, FinalizeType DEF Failure
  <1>4. wire' \in [Conns -> Seq(Message)]
    <2>1. FixedResponse \in Message
      BY ServerAssumption DEF FixedResponse, Message
    <2>2. Append(w[client.conn], FixedResponse) \in Seq(Message)
      BY <1>2, <2>1
    <2> QED BY <1>2, <2>2 DEF Failure
  <1>5. outcome' \in [Conns -> {"new", "open", "served", "failed"}]
    BY <1>2 DEF Failure, IInv, TypeOK
  <1>6. orphaned' \in BOOLEAN
    BY DEF Failure, IInv, TypeOK
  <1>7. HistoryOK'
    BY <1>4, <1>5, <1>6 DEF HistoryOK
  <1> QED BY <1>3, <1>7, VisitStep DEF Failure, Leave

(* So does one that has changed nothing before the error. *)
LEMMA FailHereStep ==
  ASSUME IInv, pc \in VisitPcs, NEW send \in BOOLEAN, FailHere(send)
  PROVE  IInv'
  BY FailureStep DEF FailHere, IInv, TypeOK

------------------------------------------------------------------------------
(* Receiving keeps the array and its length. *)
LEMMA ReceivedType ==
  ASSUME IInv, cur \in DOMAIN clients, NEW bytes \in Seq(Bytes)
  PROVE  Received(bytes) \in Seq(Client) /\ Len(Received(bytes)) = Len(clients)
  <1>1. clients \in Seq(Client) /\ clients[cur] \in Client
    BY DEF IInv, TypeOK
  <1>2. clients[cur].request_stream \o bytes \in Seq(Bytes)
    BY <1>1, Fields
  <1>3. [clients[cur] EXCEPT !.request_stream = @ \o bytes] \in Client
    BY <1>1, <1>2, UpdateType
  <1> QED BY <1>1, <1>3, ReplaceOne DEF Received

(* Flushing the short buffer keeps the array and its length. *)
LEMMA FlushedType ==
  ASSUME IInv
  PROVE  Flushed \in Seq(Client) /\ Len(Flushed) = Len(clients)
  <1>1. clients \in Seq(Client) /\ g_short \in Seq(Message)
    BY DEF IInv, TypeOK
  <1>2. CASE owner \in DOMAIN clients
    <2>1. clients[owner] \in Client
      BY <1>1, <1>2
    <2>2. clients[owner].response_stream \o g_short \in Seq(Message)
      BY <1>1, <2>1, Fields
    <2>3. [clients[owner] EXCEPT !.response_stream = @ \o g_short] \in Client
      BY <2>1, <2>2, UpdateType
    <2> QED BY <1>1, <1>2, <2>3, ReplaceOne DEF Flushed
  <1>3. CASE owner \notin DOMAIN clients
    BY <1>1, <1>3 DEF Flushed
  <1> QED BY <1>2, <1>3

(* A processed request leaves a client. *)
LEMMA ProcessedType ==
  ASSUME NEW c \in Client, NEW n \in Nat, NEW r \in Responses
  PROVE  Processed(c, n, r) \in Client
  <1> DEFINE head == IF c.response_count = 0 THEN r ELSE c.response
             size == IF head.keep_alive THEN 0 ELSE n
             parser == IF head.keep_alive THEN "begin" ELSE "end"
             c1 == [c EXCEPT !.request_stream = SubSeq(@, n + 1, Len(@))]
             c2 == [c1 EXCEPT !.request_size = size]
             c3 == [c2 EXCEPT !.parser = parser]
             c4 == [c3 EXCEPT !.response = head]
             c5 == [c4 EXCEPT !.response_queue = Append(@, r)]
             c6 == [c5 EXCEPT !.response_count = @ + 1]
  <1>0. Processed(c, n, r) = c6
    BY Zenon DEF Processed
  <1>a. head \in Responses /\ size \in Nat /\ parser \in {"begin", "wait", "end"}
    BY Fields
  <1>b. SubSeq(c.request_stream, n + 1, Len(c.request_stream)) \in Seq(Bytes)
    BY Fields, SubSeqType
  <1> HIDE DEF head, size, parser
  <1>1. c1 \in Client
    BY <1>b, UpdateType
  <1> HIDE DEF c1
  <1>2. c2 \in Client
    BY <1>a, <1>1, UpdateType
  <1> HIDE DEF c2
  <1>3. c3 \in Client
    BY <1>a, <1>2, UpdateType
  <1> HIDE DEF c3
  <1>4. c4 \in Client
    BY <1>a, <1>3, UpdateType
  <1> HIDE DEF c4
  <1>5. c5 \in Client
    <2>1. Append(c4.response_queue, r) \in Seq(Responses)
      BY <1>4, Fields
    <2> QED BY <1>4, <2>1, UpdateType
  <1> HIDE DEF c5
  <1>6. c6 \in Client
    <2>1. c5.response_count + 1 \in Int
      BY <1>5, Fields
    <2> QED BY <1>5, <2>1, UpdateType
  <1> QED BY <1>0, <1>6

(* Popping a response from a queue that has one leaves a client. *)
LEMMA PoppedType ==
  ASSUME NEW c \in Client, c.response_queue # <<>>
  PROVE  Popped(c) \in Client
  <1> DEFINE queue == Tail(c.response_queue)
             head == IF queue # <<>> THEN Head(queue)
                     ELSE [c.response EXCEPT !.stream_size = 0]
             c1 == [c EXCEPT !.response_queue = queue]
             c2 == [c1 EXCEPT !.response_count = @ - 1]
             c3 == [c2 EXCEPT !.response = head]
  <1>1. queue \in Seq(Responses)
    BY Fields
  <1>2. head \in Responses
    <2>1. [c.response EXCEPT !.stream_size = 0] \in Responses
      BY Fields DEF Responses
    <2>2. queue # <<>> => Head(queue) \in Responses
      BY <1>1
    <2> QED BY <2>1, <2>2
  <1>3. c1 \in Client
    BY <1>1, UpdateType
  <1>4. c2 \in Client
    <2>1. c1.response_count - 1 \in Int
      BY <1>3, Fields
    <2> HIDE DEF c1
    <2> QED BY <1>3, <2>1, UpdateType
  <1>5. c3 \in Client
    <2> HIDE DEF c2, head
    <2> QED BY <1>2, <1>4, UpdateType
  <1>6. c2.response = c.response
    BY Fields DEF Client
  <1>7. Popped(c) = [c2 EXCEPT !.response = IF queue # <<>> THEN Head(queue)
                                            ELSE [@ EXCEPT !.stream_size = 0]]
    BY Zenon DEF Popped
  <1>8. Popped(c) = c3
    BY <1>6, <1>7, Zenon
  <1> QED BY <1>5, <1>8

------------------------------------------------------------------------------
(* One lemma per part of the loop. *)

(* Outside of a visit: poll, accept, shuffle, begin of a visit, compaction. *)
LEMMA LoopStep ==
  ASSUME IInv,
         \/ \E low \in BOOLEAN : poll(low)
         \/ server_accept_traffic
         \/ clients_shuffle
         \/ \E i \in todo : server_process_client(i)
         \/ clients_remove_finalized
  PROVE  IInv'
  <1> USE ServerAssumption
  <1>0. clients \in Seq(Client) /\ Len(clients) \in Nat /\ DOMAIN clients = 1 .. Len(clients)
    BY DEF IInv, TypeOK
  <1>1. CASE \E low \in BOOLEAN : poll(low)
    <2> PICK low \in BOOLEAN : poll(low)
      BY <1>1
    <2>1. cur = 0 /\ index = 0
      BY DEF poll, IInv, Places, Admission, VisitPcs
    <2>2. TypeOK'
      BY DEF poll, IInv, TypeOK, history, Pcs
    <2>3. Places'
      BY <2>1 DEF poll, Places, VisitPcs
    <2>4. pc' = "accept" /\ ~refuse' => Len(clients) < MAX_CLIENTS
      <3>1. pc' = "accept" /\ ~refuse' => ~(Len(clients) >= MAX_CLIENTS)
        BY Zenon DEF poll
      <3> QED BY <1>0, <3>1
    <2>5. clients' = clients /\ index' = 0 /\ pc' \in {"accept", "failed"}
      BY <2>1 DEF poll
    <2>6. Admission'
      BY <1>0, <2>4, <2>5 DEF IInv, Admission
    <2> QED BY <2>2, <2>3, <2>6 DEF IInv
  <1>2. CASE server_accept_traffic
    <2>1. cur = 0
      BY <1>2 DEF server_accept_traffic, IInv, Places, VisitPcs
    <2>2. CASE server_accept_connection /\ index' = index + 1 /\ UNCHANGED pc
      <3>1. Accepted \in Nat /\ Accepted + 1 \in Conns
        <4>1. IsFiniteSet(Conns)
          BY FS_Interval DEF Conns
        <4>2. Accepted \in Nat
          BY <4>1, FS_Subset, FS_CardinalityType DEF Accepted
        <4> QED BY <2>2, <4>2 DEF server_accept_connection, Conns
      <3>2. NewClient(Accepted + 1) \in Client
        <4>1. Response(0, FALSE) \in Responses
          BY DEF Response, Responses
        <4>2. /\ <<>> \in Seq(Bytes) /\ <<>> \in Seq(Message) /\ <<>> \in Seq(Responses)
              /\ 0 \in Nat /\ 0 \in Int /\ FALSE \in BOOLEAN
              /\ "begin" \in {"begin", "wait", "end"} /\ {} \in SUBSET {"in", "out"}
          OBVIOUS
        <4> HIDE ServerAssumption
        <4> QED BY <3>1, <4>1, <4>2, Zenon DEF NewClient, Client
      <3>3. /\ clients' \in Seq(Client) /\ Len(clients') = Len(clients) + 1
            /\ DOMAIN clients' = 1 .. (Len(clients) + 1)
        BY <1>0, <2>2, <3>2 DEF server_accept_connection
      <3>4. outcome' \in [Conns -> {"new", "open", "served", "failed"}]
        BY <2>2, <3>1 DEF server_accept_connection, IInv, TypeOK
      <3>5. TypeOK'
        BY SMTT(30), <1>0, <1>2, <2>1, <2>2, <3>3, <3>4
        DEF server_accept_traffic, server_accept_connection, IInv, TypeOK
      <3>6. Places'
        BY <1>2, <2>1, <2>2 DEF server_accept_traffic, Places, VisitPcs
      <3>7. Admission'
        BY <1>0, <1>2, <2>2, <3>3
        DEF server_accept_traffic, server_accept_connection, IInv, TypeOK, Admission
      <3> QED BY <3>5, <3>6, <3>7 DEF IInv
    <2>3. CASE NotAccepted /\ index' = index + 1 /\ UNCHANGED pc
      <3>1. TypeOK'
        BY <1>2, <2>3 DEF server_accept_traffic, NotAccepted, IInv, TypeOK, history
      <3>2. Places'
        BY <1>2, <2>1, <2>3 DEF server_accept_traffic, NotAccepted, Places, VisitPcs
      <3>3. Admission'
        BY <1>0, <1>2, <2>3 DEF server_accept_traffic, NotAccepted, IInv, TypeOK, Admission
      <3> QED BY <3>1, <3>2, <3>3 DEF IInv
    <2>4. CASE pc' = "failed" /\ UNCHANGED <<clients, index, history>>
      <3>1. TypeOK'
        BY <1>2, <2>4 DEF server_accept_traffic, IInv, TypeOK, history, Pcs
      <3>2. Places'
        BY <1>2, <2>1, <2>4 DEF server_accept_traffic, Places, VisitPcs
      <3>3. Admission'
        BY <1>2, <2>4 DEF server_accept_traffic, IInv, Admission
      <3> QED BY <3>1, <3>2, <3>3 DEF IInv
    <2> QED BY <1>2, <2>2, <2>3, <2>4 DEF server_accept_traffic
  <1>3. CASE clients_shuffle
    <2>0. refuse' \in BOOLEAN
      BY <1>3, Zenon DEF clients_shuffle
    <2>1. TypeOK'
      BY <1>3, <2>0 DEF clients_shuffle, IInv, TypeOK, history, Pcs
    <2>2. Places'
      BY <1>3 DEF clients_shuffle, IInv, Places, VisitPcs
    <2>3. Admission'
      BY <1>3 DEF clients_shuffle, IInv, Admission
    <2> QED BY <2>1, <2>2, <2>3 DEF IInv
  <1>4. CASE \E i \in todo : server_process_client(i)
    <2> PICK i \in todo : server_process_client(i)
      BY <1>4
    <2>1. i \in DOMAIN clients
      BY DEF IInv, TypeOK
    <2>2. flags' \subseteq {"exhausted", "saturated"}
      BY DEF server_process_client, InitialFlags
    <2>3. TypeOK'
      BY <2>1, <2>2 DEF server_process_client, IInv, TypeOK, history, Pcs
    <2>4. Places'
      BY <2>1 DEF server_process_client, Places, VisitPcs
    <2>5. Admission'
      BY DEF server_process_client, IInv, Admission
    <2> QED BY <2>3, <2>4, <2>5 DEF IInv
  <1>5. CASE clients_remove_finalized
    <2>1. cur = 0 /\ index = 0 /\ todo = {}
      BY <1>5 DEF clients_remove_finalized, IInv, Places, Admission, VisitPcs
    <2>2. PICK n \in 0 .. Len(clients) : \E from \in [1 .. n -> DOMAIN clients] :
            /\ clients' = [j \in 1 .. n |-> clients[from[j]]]
            /\ owner' = owner \/ \E j \in 1 .. n : owner' = j
      BY <1>5 DEF clients_remove_finalized
    <2>3. PICK from \in [1 .. n -> DOMAIN clients] :
            /\ clients' = [j \in 1 .. n |-> clients[from[j]]]
            /\ owner' = owner \/ \E j \in 1 .. n : owner' = j
      BY <2>2
    <2>4. \A j \in 1 .. n : clients[from[j]] \in Client
      BY <1>0
    <2>5. clients' \in Seq(Client) /\ Len(clients') = n
      BY <1>0, <2>3, <2>4
    <2>6. owner' \in Nat
      BY <1>0, <2>3 DEF IInv, TypeOK
    <2>7. TypeOK'
      BY <1>5, <2>1, <2>5, <2>6 DEF clients_remove_finalized, IInv, TypeOK, history, Pcs
    <2>8. Places'
      BY <1>5, <2>1 DEF clients_remove_finalized, Places, VisitPcs
    <2>9. Admission'
      BY <1>0, <1>5, <2>1, <2>5 DEF clients_remove_finalized, IInv, Admission
    <2> QED BY <2>7, <2>8, <2>9 DEF IInv
  <1> QED BY <1>1, <1>2, <1>3, <1>4, <1>5

(* The client being visited and its connection have their types. *)
LEMMA Visited ==
  ASSUME IInv, pc \in VisitPcs
  PROVE  /\ cur \in DOMAIN clients /\ clients \in Seq(Client)
         /\ client \in Client /\ client.conn \in Conns
         /\ g_short \in Seq(Message) /\ owner \in Nat /\ HistoryOK
         /\ flags \subseteq {"exhausted", "closed", "saturated"}
         /\ done \in BOOLEAN /\ sent \in Nat
  <1>1. cur \in DOMAIN clients /\ clients \in Seq(Client) /\ client \in Client
    BY DEF IInv, TypeOK, Places, client
  <1> QED BY <1>1, Fields DEF IInv, TypeOK, HistoryOK

(* CloseServed keeps the types of what it changes. *)
LEMMA CloseServedStep ==
  ASSUME IInv, pc \in VisitPcs, NEW cs \in Seq(Client), Len(cs) = Len(clients),
         CloseServed(cs), UNCHANGED <<owner, wire, sent, g_short, issued, closing>>,
         received' \in [Conns -> Nat],
         flags' \subseteq {"exhausted", "closed", "saturated"}
  PROVE  IInv'
  <1>1. cur \in DOMAIN cs /\ cs[cur] \in Client
    BY Visited
  <1>2. clients' \in Seq(Client) /\ Len(clients') = Len(clients)
    BY <1>1, ReplaceOne, FinalizeType DEF CloseServed
  <1>3. outcome' \in [Conns -> {"new", "open", "served", "failed"}]
    BY Visited DEF CloseServed, HistoryOK
  <1>4. orphaned' \in BOOLEAN /\ done' \in BOOLEAN
    BY Visited DEF CloseServed, HistoryOK
  <1>5. HistoryOK'
    BY <1>3, <1>4, Visited DEF HistoryOK
  <1>6. pc' \in VisitPcs /\ cur' = cur /\ index' = index /\ todo' = todo /\ refuse' = refuse
    BY DEF CloseServed, Goto, VisitPcs
  <1> QED BY <1>2, <1>4, <1>5, <1>6, Visited, VisitStep

(* A step that only moves the place in the code, and perhaps done. *)
LEMMA GotoStep ==
  ASSUME IInv, pc \in VisitPcs, NEW place \in VisitPcs, Goto(place),
         UNCHANGED <<clients, g_short, owner, flags, sent, history>>, done' \in BOOLEAN
  PROVE  IInv'
  <1>1. HistoryOK'
    BY Visited DEF HistoryOK, history
  <1>2. clients' \in Seq(Client) /\ Len(clients') = Len(clients)
    BY Visited
  <1> QED BY <1>1, <1>2, Visited, VisitStep DEF Goto

(* Receive. *)
LEMMA ReceiveStep ==
  ASSUME IInv,
         \/ FirstRound
         \/ \E n \in 0 .. MaxTraffic : \E bytes \in [1 .. n -> Bytes] :
              server_receive_traffic(bytes) \/ server_receive_closed(bytes)
         \/ server_receive_failed
         \/ NotReceive
  PROVE  IInv'
  <1>1. CASE FirstRound
    <2>0. pc \in VisitPcs
      BY <1>1 DEF FirstRound, VisitPcs
    <2>1. CASE \E send \in BOOLEAN : FailHere(send)
      BY <2>0, <2>1, FailHereStep
    <2>2. CASE Goto("receive") /\ UNCHANGED <<clients, g_short, owner, flags, done, sent, history>>
      <3>1. "receive" \in VisitPcs
        BY DEF VisitPcs
      <3> QED BY <2>0, <2>2, <3>1, Visited, GotoStep
    <2> QED BY <1>1, <2>1, <2>2 DEF FirstRound
  <1>2. ASSUME NEW n \in 0 .. MaxTraffic, NEW bytes \in [1 .. n -> Bytes],
               server_receive_traffic(bytes)
        PROVE  IInv'
    <2>0. pc \in VisitPcs /\ bytes \in Seq(Bytes)
      BY <1>2, ServerAssumption DEF server_receive_traffic, MayReceive, VisitPcs
    <2>1. clients' \in Seq(Client) /\ Len(clients') = Len(clients)
      BY <1>2, <2>0, Visited, ReceivedType DEF server_receive_traffic
    <2>2. received' \in [Conns -> Nat]
      BY <1>2, <2>0, Visited DEF server_receive_traffic, Incoming, HistoryOK
    <2>3. HistoryOK'
      BY <1>2, <2>0, <2>2, Visited DEF server_receive_traffic, HistoryOK
    <2>4. flags' \subseteq {"exhausted", "closed", "saturated"} /\ done' \in BOOLEAN
      BY <1>2, <2>0, Visited DEF server_receive_traffic
    <2>5. pc' \in VisitPcs /\ cur' = cur /\ index' = index /\ todo' = todo /\ refuse' = refuse
      BY <1>2 DEF server_receive_traffic, Goto, VisitPcs
    <2>6. g_short' = g_short /\ owner' = owner /\ sent' = sent
      BY <1>2 DEF server_receive_traffic
    <2> QED BY <2>0, <2>1, <2>3, <2>4, <2>5, <2>6, Visited, VisitStep
  <1>3. ASSUME NEW n \in 0 .. MaxTraffic, NEW bytes \in [1 .. n -> Bytes],
               server_receive_closed(bytes)
        PROVE  IInv'
    <2>0. pc \in VisitPcs /\ bytes \in Seq(Bytes)
      BY <1>3, ServerAssumption DEF server_receive_closed, MayReceive, VisitPcs
    <2>1. Received(bytes) \in Seq(Client) /\ Len(Received(bytes)) = Len(clients)
      BY <2>0, Visited, ReceivedType
    <2>2. received' \in [Conns -> Nat]
      BY <1>3, <2>0, Visited DEF server_receive_closed, Incoming, HistoryOK
    <2>3. g_short' = g_short /\ issued' = issued /\ closing' = closing
      BY <1>3 DEF server_receive_closed
    <2>4. CASE /\ CloseServed(Received(bytes)) /\ flags' = flags \cup {"closed"}
               /\ UNCHANGED <<owner, wire, sent>>
      <3>1. flags' \subseteq {"exhausted", "closed", "saturated"}
        BY <2>0, <2>4, Visited
      <3> QED BY <2>0, <2>1, <2>2, <2>3, <2>4, <3>1, CloseServedStep
    <2>5. CASE Failure(Received(bytes), owner, wire, FALSE, "next")
      BY <2>0, <2>1, <2>2, <2>3, <2>5, Visited, FailureStep DEF HistoryOK
    <2> QED BY <1>3, <2>4, <2>5 DEF server_receive_closed
  <1>4. CASE server_receive_failed
    BY <1>4, FailHereStep DEF server_receive_failed, MayReceive, VisitPcs
  <1>5. CASE NotReceive
    <2>1. pc \in VisitPcs /\ "process" \in VisitPcs
      BY <1>5 DEF NotReceive, VisitPcs
    <2> QED BY <1>5, <2>1, Visited, GotoStep DEF NotReceive
  <1> QED BY <1>1, <1>2, <1>3, <1>4, <1>5

(* Parse and process. *)
LEMMA ProcessStep ==
  ASSUME IInv,
         \/ server_process_invalid
         \/ server_process_incomplete
         \/ \E size \in 1 .. MaxResponse, keep_alive \in BOOLEAN :
              server_process_traffic(size, keep_alive)
         \/ server_process_flush_failed
         \/ server_process_failed
         \/ NotProcess
  PROVE  IInv'
  <1>0. pc = "process" /\ pc \in VisitPcs
    BY DEF server_process_invalid, server_process_incomplete, server_process_traffic,
           server_process_flush_failed, server_process_failed, NotProcess, MayProcess, VisitPcs
  <1>1. CASE server_process_invalid \/ server_process_flush_failed
    BY <1>0, <1>1, FailHereStep DEF server_process_invalid, server_process_flush_failed
  <1>2. CASE server_process_incomplete
    <2> DEFINE c1 == [client EXCEPT !.request_size = Len(client.request_stream)]
               c2 == [c1 EXCEPT !.parser = "wait"]
    <2>1. client \in Client /\ Len(client.request_stream) \in Nat
      BY <1>0, Visited, Fields
    <2>2. c1 \in Client
      BY <2>1, UpdateType
    <2>3. c2 \in Client
      <3> HIDE DEF c1
      <3> QED BY <2>2, UpdateType
    <2>4. clients' = [clients EXCEPT ![cur] = c2]
      BY <1>2, <1>0, Visited, Zenon DEF server_process_incomplete, client
    <2> HIDE DEF c2
    <2>5. clients' \in Seq(Client) /\ Len(clients') = Len(clients)
      BY <1>0, <2>3, <2>4, Visited, ReplaceOne
    <2>6. HistoryOK' /\ done' \in BOOLEAN
      BY <1>0, <1>2, Visited DEF server_process_incomplete, HistoryOK, history
    <2>7. pc' \in VisitPcs /\ cur' = cur /\ index' = index /\ todo' = todo /\ refuse' = refuse
      BY <1>2 DEF server_process_incomplete, Goto, VisitPcs
    <2>8. g_short' = g_short /\ owner' = owner /\ flags' = flags /\ sent' = sent
      BY <1>2 DEF server_process_incomplete
    <2> QED BY <1>0, <2>5, <2>6, <2>7, <2>8, Visited, VisitStep
  <1>3. ASSUME NEW size \in 1 .. MaxResponse, NEW keep_alive \in BOOLEAN,
               server_process_traffic(size, keep_alive)
        PROVE  IInv'
    <2> DEFINE conn == client.conn
               data == Units(conn, issued[conn], issued[conn] + size)
               c(n) == Processed(Flushed[cur], n, Response(size, keep_alive))
    <2>0. size \in Nat
      BY ServerAssumption
    <2>1. PICK n \in Complete :
            /\ issued' = [issued EXCEPT ![conn] = @ + size]
            /\ closing' = [closing EXCEPT ![conn] = @ \/ ~keep_alive]
            /\ IF Flushed[cur].response_stream # <<>>
                 THEN /\ clients' = [Flushed EXCEPT ![cur] =
                            [c(n) EXCEPT !.response_stream = @ \o data]]
                      /\ g_short' = <<>>
                      /\ owner' = 0
                 ELSE /\ clients' = [Flushed EXCEPT ![cur] = c(n)]
                      /\ g_short' = data
                      /\ owner' = cur
      BY <1>3, Zenon DEF server_process_traffic
    <2>2. n \in Nat
      <3>1. n \in DOMAIN client.request_stream /\ client.request_stream \in Seq(Bytes)
        BY <1>0, Visited, Fields DEF Complete, Stops, NotParsed
      <3> QED BY <3>1
    <2>3. Response(size, keep_alive) \in Responses
      BY <2>0 DEF Response, Responses
    <2>4. cur \in DOMAIN Flushed /\ Flushed[cur] \in Client
      BY <1>0, Visited, FlushedType
    <2>5. c(n) \in Client
      BY <2>2, <2>3, <2>4, ProcessedType
    <2>6. conn \in Conns /\ issued[conn] \in Nat
      BY <1>0, Visited DEF HistoryOK
    <2>7. data \in Seq(Message)
      BY <2>0, <2>6, UnitsType
    <2> HIDE DEF c, data, conn
    <2>8. [c(n) EXCEPT !.response_stream = @ \o data] \in Client
      <3>1. c(n).response_stream \o data \in Seq(Message)
        BY <2>5, <2>7, Fields
      <3> QED BY <2>5, <3>1, UpdateType
    <2>9. /\ clients' \in Seq(Client) /\ Len(clients') = Len(clients)
          /\ g_short' \in Seq(Message) /\ owner' \in Nat
      <3>1. CASE Flushed[cur].response_stream # <<>>
        <4> DEFINE x == [c(n) EXCEPT !.response_stream = @ \o data]
        <4>1. clients' = [Flushed EXCEPT ![cur] = x] /\ g_short' = <<>> /\ owner' = 0
          BY <2>1, <3>1, Zenon
        <4>2. x \in Client
          BY <2>8
        <4> HIDE DEF x
        <4> QED BY <2>4, <4>1, <4>2, FlushedType, ReplaceOne
      <3>2. CASE Flushed[cur].response_stream = <<>>
        <4>1. clients' = [Flushed EXCEPT ![cur] = c(n)] /\ g_short' = data /\ owner' = cur
          BY <2>1, <3>2, Zenon
        <4>2. cur \in Nat
          BY <1>0, Visited
        <4> QED BY <2>4, <2>5, <2>7, <4>1, <4>2, FlushedType, ReplaceOne
      <3> QED BY <3>1, <3>2
    <2>10. issued' \in [Conns -> Nat]
      BY <1>0, <2>0, <2>1, <2>6, Visited DEF HistoryOK
    <2>11. closing' \in [Conns -> BOOLEAN]
      BY <1>0, <2>1, <2>6, Visited DEF HistoryOK
    <2>12. HistoryOK' /\ done' \in BOOLEAN
      BY <1>0, <1>3, <2>10, <2>11, Visited DEF server_process_traffic, HistoryOK
    <2>13. pc' \in VisitPcs /\ cur' = cur /\ index' = index /\ todo' = todo /\ refuse' = refuse
      BY <1>3 DEF server_process_traffic, Goto, VisitPcs
    <2>14. flags' = flags /\ sent' = sent
      BY <1>3 DEF server_process_traffic
    <2> QED BY <1>0, <2>9, <2>12, <2>13, <2>14, Visited, VisitStep
  <1>4. CASE server_process_failed
    <2>1. g_short' \in Seq(Message) /\ received' = received /\ issued' = issued /\ closing' = closing
      BY <1>4 DEF server_process_failed
    <2>2. PICK send \in BOOLEAN : Failure(Flushed, 0, wire, send, "next")
      BY <1>4 DEF server_process_failed
    <2> QED BY <1>0, <2>1, <2>2, Visited, FlushedType, FailureStep DEF HistoryOK
  <1>5. CASE NotProcess
    <2>1. "send" \in VisitPcs
      BY DEF VisitPcs
    <2> QED BY <1>0, <1>5, <2>1, Visited, GotoStep DEF NotProcess
  <1> QED BY <1>1, <1>2, <1>3, <1>4, <1>5

(* Send, pop, and the end of a round. *)
LEMMA SendStep ==
  ASSUME IInv,
         \/ \E k \in 0 .. Len(g_short) :
              server_send_short_response_stream(k) \/ server_send_short_failed(k)
         \/ \E k \in 0 .. (MaxTraffic * MaxResponse) :
              server_send_long_output_buffer(k) \/ server_send_long_failed(k)
         \/ NotSendLong \/ PoppedAll \/ NotSend \/ Again
         \/ server_pop_responses
         \/ AfterSend
         \/ PrepareToWait
  PROVE  IInv'
  <1>0. pc \in VisitPcs
    BY DEF server_send_short_response_stream, server_send_short_failed,
           server_send_long_output_buffer, server_send_long_failed, MaySendLong, MaySend,
           NotSendLong, PoppedAll, NotSend, Again, server_pop_responses, AfterSend,
           PrepareToWait, VisitPcs
  <1>2. ASSUME NEW k \in Nat, NEW s \in Seq(Message), k <= Len(s)
        PROVE  /\ ToWire(Taken(s, k)) \in [Conns -> Seq(Message)]
               /\ Rest(s, k) \in Seq(Message)
    <2>1. Taken(s, k) \in Seq(Message) /\ wire[client.conn] \in Seq(Message)
      BY <1>0, <1>2, Visited, TakenType DEF HistoryOK
    <2>2. wire[client.conn] \o Taken(s, k) \in Seq(Message)
      BY <2>1
    <2>3. Rest(s, k) \in Seq(Message)
      BY <1>2, SubSeqType DEF Rest
    <2> QED BY <1>0, <2>2, <2>3, Visited DEF ToWire, HistoryOK
  <1>3. ASSUME NEW k \in 0 .. Len(g_short), server_send_short_response_stream(k)
        PROVE  IInv'
    <2>1. k \in Nat /\ k <= Len(g_short) /\ g_short \in Seq(Message)
      BY <1>0, Visited
    <2>2. g_short' \in Seq(Message) /\ wire' \in [Conns -> Seq(Message)]
      BY <1>2, <1>3, <2>1 DEF server_send_short_response_stream
    <2>3. HistoryOK' /\ owner' \in Nat /\ done' \in BOOLEAN /\ sent' \in Nat
      BY <1>0, <1>3, <2>1, <2>2, Visited DEF server_send_short_response_stream, HistoryOK
    <2>4. flags' \subseteq {"exhausted", "closed", "saturated"}
      BY <1>0, <1>3, Visited DEF server_send_short_response_stream, AfterSending
    <2>5. clients' = clients
      BY <1>3 DEF server_send_short_response_stream
    <2>6. pc' \in VisitPcs /\ cur' = cur /\ index' = index /\ todo' = todo /\ refuse' = refuse
      BY <1>3 DEF server_send_short_response_stream, Goto, VisitPcs
    <2> QED BY <1>0, <2>2, <2>3, <2>4, <2>5, <2>6, Visited, VisitStep
  <1>4. ASSUME NEW k \in 0 .. Len(g_short), server_send_short_failed(k)
        PROVE  IInv'
    <2>1. k \in Nat /\ k <= Len(g_short) /\ g_short \in Seq(Message)
      BY <1>0, Visited
    <2>2. /\ g_short' \in Seq(Message)
          /\ ToWire(Taken(g_short, k)) \in [Conns -> Seq(Message)]
      BY <1>2, <1>4, <2>1 DEF server_send_short_failed
    <2>3. Failure(clients, owner, ToWire(Taken(g_short, k)), FALSE, "next")
      BY <1>4 DEF server_send_short_failed
    <2>4. received' = received /\ issued' = issued /\ closing' = closing
      BY <1>4 DEF server_send_short_failed
    <2> QED BY <1>0, <2>2, <2>3, <2>4, Visited, FailureStep DEF HistoryOK
  <1>5. ASSUME NEW k \in 0 .. (MaxTraffic * MaxResponse), server_send_long_output_buffer(k)
        PROVE  IInv'
    <2> DEFINE s == client.response_stream
    <2>1. k \in Nat /\ k <= Len(s) /\ s \in Seq(Message)
      BY <1>0, <1>5, Visited, Fields DEF server_send_long_output_buffer
    <2>2. Rest(s, k) \in Seq(Message) /\ wire' \in [Conns -> Seq(Message)]
      BY <1>2, <1>5, <2>1 DEF server_send_long_output_buffer
    <2>3. [client EXCEPT !.response_stream = Rest(s, k)] \in Client
      BY <1>0, <2>2, Visited, UpdateType
    <2>4. clients' = [clients EXCEPT ![cur] = [client EXCEPT !.response_stream = Rest(s, k)]]
      BY <1>5, Zenon DEF server_send_long_output_buffer, client
    <2>5. clients' \in Seq(Client) /\ Len(clients') = Len(clients)
      BY <1>0, <2>3, <2>4, Visited, ReplaceOne
    <2>6. HistoryOK' /\ done' \in BOOLEAN /\ sent' \in Nat
      BY <1>0, <1>5, <2>1, <2>2, Visited DEF server_send_long_output_buffer, HistoryOK
    <2>7. flags' \subseteq {"exhausted", "closed", "saturated"}
      BY <1>0, <1>5, Visited DEF server_send_long_output_buffer, AfterSending
    <2>8. g_short' = g_short /\ owner' = owner
      BY <1>5 DEF server_send_long_output_buffer
    <2>9. pc' \in VisitPcs /\ cur' = cur /\ index' = index /\ todo' = todo /\ refuse' = refuse
      BY <1>5 DEF server_send_long_output_buffer, Goto, VisitPcs
    <2> QED BY <1>0, <2>5, <2>6, <2>7, <2>8, <2>9, Visited, VisitStep
  <1>6. ASSUME NEW k \in 0 .. (MaxTraffic * MaxResponse), server_send_long_failed(k)
        PROVE  IInv'
    <2> DEFINE s == client.response_stream
    <2>1. k \in Nat /\ k <= Len(s) /\ s \in Seq(Message)
      <3>1. s \in Seq(Message) /\ k < Len(s)
        BY <1>0, <1>6, Visited, Fields DEF server_send_long_failed
      <3> QED BY <3>1
    <2>2. ToWire(Taken(s, k)) \in [Conns -> Seq(Message)]
      BY <1>2, <2>1
    <2>3. Failure(clients, owner, ToWire(Taken(s, k)), FALSE, "next")
      BY <1>6 DEF server_send_long_failed
    <2>4. g_short' = g_short /\ received' = received /\ issued' = issued /\ closing' = closing
      BY <1>6 DEF server_send_long_failed
    <2> QED BY <1>0, <2>2, <2>3, <2>4, Visited, FailureStep DEF HistoryOK
  <1>7. CASE NotSendLong \/ PoppedAll \/ NotSend \/ Again
    <2>1. PICK place \in VisitPcs : Goto(place)
      BY <1>7 DEF NotSendLong, PoppedAll, NotSend, Again, VisitPcs
    <2>2. UNCHANGED <<clients, g_short, owner, flags, sent, history>>
      BY <1>7 DEF NotSendLong, PoppedAll, NotSend, Again
    <2>3. done' \in BOOLEAN
      BY <1>0, <1>7, Visited DEF NotSendLong, PoppedAll, NotSend, Again
    <2> QED BY <1>0, <2>1, <2>2, <2>3, GotoStep
  <1>8. CASE server_pop_responses
    <2>0. g_short' = g_short /\ client.response \in Responses /\ client.response.stream_size \in Nat
      BY <1>0, <1>8, Visited, Fields DEF server_pop_responses, Responses
    <2>1. CASE Failure(clients, owner, wire, FALSE, "panic") /\ UNCHANGED <<received, issued, closing>>
      BY <1>0, <2>0, <2>1, Visited, FailureStep DEF HistoryOK
    <2>2. ASSUME NEW x \in Client, clients' = [clients EXCEPT ![cur] = x], sent' \in Nat,
                 UNCHANGED <<owner, pc, index, refuse, todo, cur, flags, done, history>>
          PROVE  IInv'
      <3>1. clients' \in Seq(Client) /\ Len(clients') = Len(clients)
        BY <1>0, <2>2, Visited, ReplaceOne
      <3>2. HistoryOK'
        BY <1>0, <2>2, Visited DEF HistoryOK, history
      <3> QED BY <1>0, <2>0, <2>2, <3>1, <3>2, Visited, VisitStep
    <2>3. CASE /\ sent >= client.response.stream_size
               /\ client.response_queue # <<>>
               /\ clients' = [clients EXCEPT ![cur] = Popped(@)]
               /\ sent' = sent - client.response.stream_size
               /\ UNCHANGED <<owner, pc, index, refuse, todo, cur, flags, done, history>>
      <3>1. Popped(client) \in Client
        BY <1>0, <2>3, Visited, PoppedType
      <3>2. sent' \in Nat
        BY <1>0, <2>0, <2>3, Visited
      <3> QED BY <2>2, <2>3, <3>1, <3>2 DEF client
    <2>4. CASE /\ sent < client.response.stream_size
               /\ clients' = [clients EXCEPT ![cur].response.stream_size = @ - sent]
               /\ sent' = 0
               /\ UNCHANGED <<owner, pc, index, refuse, todo, cur, flags, done, history>>
      <3> DEFINE r == [client.response EXCEPT !.stream_size = @ - sent]
      <3>1. client.response.stream_size - sent \in Nat
        BY <1>0, <2>0, <2>4, Visited
      <3>2. r \in Responses
        BY <2>0, <3>1 DEF Responses
      <3>3. clients' = [clients EXCEPT ![cur] = [client EXCEPT !.response = r]]
        BY <2>4, Zenon DEF client
      <3> HIDE DEF r
      <3>4. [client EXCEPT !.response = r] \in Client
        BY <1>0, <3>2, Visited, UpdateType
      <3> QED BY <2>2, <2>4, <3>3, <3>4
    <2> QED BY <1>8, <2>1, <2>3, <2>4 DEF server_pop_responses
  <1>9. CASE AfterSend
    <2>0. g_short' = g_short
      BY <1>9 DEF AfterSend
    <2>1. CASE Goto("wait") /\ UNCHANGED <<clients, owner, flags, done, sent, history>>
      <3>1. "wait" \in VisitPcs
        BY DEF VisitPcs
      <3> QED BY <1>0, <2>0, <2>1, <3>1, Visited, GotoStep
    <2>2. CASE CloseServed(clients) /\ UNCHANGED <<owner, flags, sent, wire, received, issued, closing>>
      BY <1>0, <2>0, <2>2, Visited, CloseServedStep DEF HistoryOK
    <2>3. CASE Failure(clients, owner, wire, FALSE, "next") /\ UNCHANGED <<received, issued, closing>>
      BY <1>0, <2>0, <2>3, Visited, FailureStep DEF HistoryOK
    <2> QED BY <1>9, <2>1, <2>2, <2>3 DEF AfterSend
  <1>10. CASE PrepareToWait
    <2> DEFINE e == (IF get_makes_sense_to_receive(cur) THEN {"in"} ELSE {})
                    \cup (IF get_makes_sense_to_send(cur) THEN {"out"} ELSE {})
    <2>1. e \in SUBSET {"in", "out"}
      OBVIOUS
    <2>2. clients' = [clients EXCEPT ![cur] = [client EXCEPT !.events = e]]
      BY <1>10, Zenon DEF PrepareToWait, client
    <2> HIDE DEF e
    <2>3. [client EXCEPT !.events = e] \in Client
      BY <1>0, <2>1, Visited, UpdateType
    <2>4. clients' \in Seq(Client) /\ Len(clients') = Len(clients)
      BY <1>0, <2>2, <2>3, Visited, ReplaceOne
    <2>5. HistoryOK'
      BY <1>0, <1>10, Visited DEF PrepareToWait, HistoryOK, history
    <2> QED BY <1>0, <1>10, <2>4, <2>5, Visited, VisitStep DEF PrepareToWait, Leave
  <1> QED BY <1>3, <1>4, <1>5, <1>6, <1>7, <1>8, <1>9, <1>10

------------------------------------------------------------------------------
(* The invariant is inductive. *)
LEMMA Inductive == Spec => []IInv
  <1>1. Init => IInv
    <2> SUFFICES ASSUME Init PROVE IInv
      OBVIOUS
    <2> USE ServerAssumption
    <2>1. clients = <<>> /\ clients \in Seq(Client) /\ Len(clients) = 0 /\ DOMAIN clients = {}
      BY DEF Init
    <2>2. g_short \in Seq(Message) /\ wire \in [Conns -> Seq(Message)]
      BY DEF Init
    <2>a. /\ refuse \in BOOLEAN /\ done \in BOOLEAN /\ orphaned \in BOOLEAN
          /\ closing \in [Conns -> BOOLEAN]
      BY Zenon DEF Init
    <2>b. /\ received \in [Conns -> Nat] /\ issued \in [Conns -> Nat]
          /\ outcome \in [Conns -> {"new", "open", "served", "failed"}]
      BY DEF Init
    <2>c. /\ index \in 0 .. ACCEPTING_SOCKETS /\ owner \in Nat /\ sent \in Nat
          /\ todo \subseteq DOMAIN clients /\ cur \in {0} \cup DOMAIN clients
          /\ flags \subseteq {"exhausted", "closed", "saturated"} /\ pc \in Pcs
      BY <2>1 DEF Init, Pcs
    <2>3. TypeOK
      BY <2>1, <2>2, <2>a, <2>b, <2>c DEF TypeOK
    <2>4. Places /\ Admission
      BY <2>1 DEF Init, Places, Admission, VisitPcs
    <2> QED BY <2>3, <2>4 DEF IInv
  <1>2. IInv /\ [Next]_vars => IInv'
    <2>1. IInv /\ Next => IInv'
      <3> SUFFICES ASSUME IInv, Next PROVE IInv'
        OBVIOUS
      <3>1. CASE Stopped
        BY <3>1 DEF Stopped, vars, control, history, IInv, TypeOK, Places, Admission
      <3> QED BY <3>1, LoopStep, ReceiveStep, ProcessStep, SendStep DEF Next
    <2>2. IInv /\ UNCHANGED vars => IInv'
      BY DEF vars, control, history, IInv, TypeOK, Places, Admission
    <2> QED BY <2>1, <2>2
  <1> QED BY <1>1, <1>2, PTL DEF Spec

(***************************************************************************)
(* Whatever the network and the allocator do, the event loop's state keeps *)
(* its types, and the client being visited is a place of the array even    *)
(* when visits finalize clients (server_process_clients, high_level.c).    *)
(***************************************************************************)
THEOREM ServerTypeOK == Spec => []TypeOK
  BY Inductive, PTL DEF IInv

(***************************************************************************)
(* For every number of listening sockets, the limit of clients tested once *)
(* per cycle (server_accept_traffic, accept.c) is exceeded by less than    *)
(* that number.                                                            *)
(***************************************************************************)
THEOREM ServerClientsBounded == Spec => []ClientsBounded
  <1>1. IInv => ClientsBounded
    BY DEF IInv, Admission, ClientsBounded
  <1> QED BY <1>1, Inductive, PTL

------------------------------------------------------------------------------
(* The inductive invariant.                                                *)

(* The bytes of s are those of connection c behind number m. *)
Numbered(s, c, m) == \A n \in DOMAIN s : s[n] = Unit(c, m + n)

(* Each client has a connection of its own, open as long as the client     *)
(* lives, and the connections were taken in their order.                   *)
Connections ==
  /\ \A i, j \in DOMAIN clients : clients[i].conn = clients[j].conn => i = j
  /\ \A i \in DOMAIN clients :
       outcome[clients[i].conn] \in IF clients[i].dead THEN {"served", "failed"} ELSE {"open"}
  /\ \E a \in 0 .. MaxConns : \A c \in Conns : outcome[c] # "new" <=> c <= a
  /\ \A c \in Conns : outcome[c] = "new" => wire[c] = <<>> /\ issued[c] = 0
  /\ \A c \in Conns : outcome[c] = "open" => \E i \in Alive : clients[i].conn = c

(* A client that was closed in its visit: what the further round finds.    *)
Closed(i) ==
  /\ clients[i].request_stream = <<>> /\ client_response_stream_size(i) = 0
  /\ "closed" \in flags \/ clients[i].parser = "end"

(* All are visited and the dead are gone before the next cycle, and nobody *)
(* is visited twice.                                                       *)
Cycle ==
  /\ pc \in {"poll", "accept"} => Alive = DOMAIN clients /\ todo = {}
  /\ todo \subseteq Alive /\ cur \notin todo

(* Where in the code a visited client may be dead and bytes be popped, and *)
(* that a round that did nothing had nothing to parse.                     *)
Round ==
  /\ cur # 0 /\ cur \notin Alive => pc \in {"receive", "process", "send", "wait"} /\ Closed(cur)
  /\ pc \notin {"pop_short", "pop_long"} => sent = 0
  /\ pc \in {"pop_short", "long", "pop_long", "sent"} => done
  /\ pc \in {"send", "wait"} /\ ~done => ~get_makes_sense_to_parse(cur)

(* The input of a living client. *)
InputOK(i) ==
  /\ Len(clients[i].request_stream) <= MAX_REQUEST_STREAM_SIZE
  /\ clients[i].parser # "end" => clients[i].request_size <= Len(clients[i].request_stream)

(* The short buffer has an owner exactly if it is not empty; then all that *)
(* the owner has to be sent is in it.                                      *)
OwnerOK ==
  \/ owner = 0 /\ g_short = <<>>
  \/ owner \in Alive /\ g_short # <<>> /\ clients[owner].response_stream = <<>>

(* The output of a living client: wire and Pending are the bytes issued.   *)
OutputOK(i) ==
  LET c == clients[i].conn
  IN  /\ Numbered(wire[c], c, 0)
      /\ Numbered(Pending(i), c, Len(wire[c]))
      /\ Len(wire[c]) + Len(Pending(i)) = issued[c]
      /\ Len(Pending(i)) < MAX_RESPONSE_STREAM_SIZE + MaxResponse

(* e says where the responses of client c end within total bytes. *)
LaidOut(e, c, total) ==
  /\ e[0] = 0 /\ e[Len(c.response_queue)] = total
  /\ c.response_queue # <<>> => e[1] = c.response.stream_size
  /\ \A j \in 2 .. Len(c.response_queue) : e[j] = e[j - 1] + c.response_queue[j].stream_size

(* The metadata of client c describes total bytes. *)
Described(c, total) ==
  /\ c.response_count = Len(c.response_queue)
  /\ \A j \in DOMAIN c.response_queue : c.response_queue[j].stream_size >= 1
  /\ IF c.response_queue = <<>>
       THEN c.response.stream_size = 0
       ELSE /\ c.response.stream_size \in 1 .. c.response_queue[1].stream_size
            /\ c.response.keep_alive = c.response_queue[1].keep_alive
  /\ \E e \in [0 .. Len(c.response_queue) -> Int] : LaidOut(e, c, total)

MetadataOK(i) == Described(clients[i], Len(Pending(i)) + (IF i = cur THEN sent ELSE 0))

(* A connection that is not kept alive has something to be sent, or is     *)
(* about to be closed.                                                     *)
EndOK(i) ==
  clients[i].parser = "end" =>
    Pending(i) # <<>> \/ (i = cur /\ pc \in {"pop_short", "long", "pop_long", "sent"})

(* Client i can be left alone until poll() reports something. *)
Settled(i) ==
  LET c == clients[i]
  IN  IF Pending(i) # <<>> THEN "out" \in c.events
      ELSE "in" \in c.events /\ c.request_size = Len(c.request_stream)

(* The clients that the cycle has left alone. *)
SettledOK ==
  pc \in {"poll", "next"} \cup VisitPcs =>
    \A i \in Alive \ (todo \cup {cur}) : Settled(i)

(* What a closed connection was sent. *)
WireOK(c) ==
  /\ outcome[c] = "failed" =>
       \E k \in 0 .. issued[c] : wire[c] \in {Units(c, 0, k), Append(Units(c, 0, k), FixedResponse)}
  /\ outcome[c] = "served" => wire[c] = Units(c, 0, issued[c])

Streams ==
  /\ OwnerOK
  /\ \A i \in Alive : OutputOK(i) /\ MetadataOK(i) /\ EndOK(i)
  /\ SettledOK
  /\ \A c \in Conns : WireOK(c)
  /\ pc # "panic"

FlowInv ==
  /\ Connections
  /\ Cycle /\ Round
  /\ \A i \in Alive : InputOK(i)
  /\ ~orphaned => Streams

------------------------------------------------------------------------------
(* Numbered bytes.                                                         *)

(* Two pieces are numbered if the second continues the first. *)
LEMMA NumberedConcat ==
  ASSUME NEW a \in Seq(Message), NEW b \in Seq(Message), NEW c, NEW m \in Nat
  PROVE  Numbered(a \o b, c, m) <=> Numbered(a, c, m) /\ Numbered(b, c, m + Len(a))
  <1>1. ASSUME Numbered(a \o b, c, m) PROVE Numbered(a, c, m) /\ Numbered(b, c, m + Len(a))
    <2>1. ASSUME NEW n \in DOMAIN a PROVE a[n] = Unit(c, m + n)
      <3>1. n \in DOMAIN (a \o b) /\ (a \o b)[n] = a[n]
        OBVIOUS
      <3> QED BY <1>1, <3>1 DEF Numbered
    <2>2. ASSUME NEW n \in DOMAIN b PROVE b[n] = Unit(c, m + Len(a) + n)
      <3>1. Len(a) + n \in DOMAIN (a \o b) /\ (a \o b)[Len(a) + n] = b[n]
        OBVIOUS
      <3>2. m + (Len(a) + n) = m + Len(a) + n
        OBVIOUS
      <3> QED BY <1>1, <3>1, <3>2 DEF Numbered
    <2> QED BY <2>1, <2>2 DEF Numbered
  <1>2. ASSUME Numbered(a, c, m), Numbered(b, c, m + Len(a)) PROVE Numbered(a \o b, c, m)
    <2> SUFFICES ASSUME NEW n \in DOMAIN (a \o b) PROVE (a \o b)[n] = Unit(c, m + n)
      BY DEF Numbered
    <2>1. CASE n <= Len(a)
      <3>1. n \in DOMAIN a /\ (a \o b)[n] = a[n]
        BY <2>1
      <3> QED BY <1>2, <3>1 DEF Numbered
    <2>2. CASE n > Len(a)
      <3>1. n - Len(a) \in DOMAIN b /\ (a \o b)[n] = b[n - Len(a)]
        BY <2>2
      <3>2. m + Len(a) + (n - Len(a)) = m + n
        OBVIOUS
      <3> QED BY <1>2, <3>1, <3>2 DEF Numbered
    <2> QED BY <2>1, <2>2
  <1> QED BY <1>1, <1>2

(* What is taken and what is left are the two pieces of a sequence. *)
LEMMA TakenRest ==
  ASSUME NEW s \in Seq(Message), NEW k \in 0 .. Len(s)
  PROVE  /\ Taken(s, k) \in Seq(Message) /\ Rest(s, k) \in Seq(Message)
         /\ Len(Taken(s, k)) = k /\ Len(Rest(s, k)) = Len(s) - k
         /\ Taken(s, k) \o Rest(s, k) = s
  <1>1. /\ Taken(s, k) \in Seq(Message) /\ Len(Taken(s, k)) = k
        /\ \A n \in 1 .. k : Taken(s, k)[n] = s[n]
    BY DEF Taken
  <1>2. /\ Rest(s, k) \in Seq(Message) /\ Len(Rest(s, k)) = Len(s) - k
        /\ \A n \in 1 .. Len(s) - k : Rest(s, k)[n] = s[k + n]
    BY DEF Rest
  <1> DEFINE t == Taken(s, k) \o Rest(s, k)
  <1>3. t \in Seq(Message) /\ Len(t) = Len(s)
    BY <1>1, <1>2
  <1>4. ASSUME NEW n \in 1 .. Len(s) PROVE t[n] = s[n]
    <2>1. CASE n <= k
      BY <1>1, <1>2, <2>1
    <2>2. CASE ~(n <= k)
      <3>1. n - k \in 1 .. Len(s) - k /\ k + (n - k) = n
        BY <2>2
      <3>2. t[n] = Rest(s, k)[n - k]
        BY <1>1, <1>2, <2>2
      <3> QED BY <1>2, <3>1, <3>2
    <2> QED BY <2>1, <2>2
  <1>5. t = s
    <2> HIDE DEF t
    <2> QED BY <1>3, <1>4
  <1> QED BY <1>1, <1>2, <1>5

(* The bytes of a response are numbered. *)
LEMMA UnitsNumbered ==
  ASSUME NEW c \in Conns, NEW m \in Nat, NEW n \in Nat
  PROVE  /\ Units(c, m, m + n) \in Seq(Message) /\ Len(Units(c, m, m + n)) = n
         /\ Numbered(Units(c, m, m + n), c, m)
  <1>1. Units(c, m, m + n) = [i \in 1 .. n |-> Unit(c, m + i)]
    BY DEF Units
  <1>2. Units(c, m, m + n) \in Seq(Message)
    BY UnitsType
  <1>3. Len(Units(c, m, m + n)) = n /\ DOMAIN Units(c, m, m + n) = 1 .. n
    BY <1>1
  <1>4. Numbered(Units(c, m, m + n), c, m)
    BY <1>1, <1>3 DEF Numbered
  <1> QED BY <1>2, <1>3, <1>4

(* Bytes numbered from the beginning are the first ones of the connection. *)
LEMMA NumberedIsUnits ==
  ASSUME NEW c \in Conns, NEW s \in Seq(Message), Numbered(s, c, 0)
  PROVE  s = Units(c, 0, Len(s))
  <1>1. Units(c, 0, Len(s)) = [i \in 1 .. Len(s) |-> Unit(c, 0 + i)]
    BY DEF Units
  <1> QED BY <1>1 DEF Numbered

------------------------------------------------------------------------------
(* Clients and their output.                                               *)

(* client_finalize keeps what identifies the client. *)
LEMMA FinalizeFields ==
  ASSUME NEW c \in Client
  PROVE  /\ client_finalize(c).conn = c.conn /\ client_finalize(c).dead = TRUE
         /\ client_finalize(c).parser = c.parser
         /\ client_finalize(c).request_stream = <<>>
         /\ client_finalize(c).response_stream = <<>>
  BY DEF client_finalize, Client

(* The output has its type, and client_response_stream_size measures it. *)
LEMMA PendingType ==
  ASSUME IInv, NEW i \in DOMAIN clients
  PROVE  /\ clients[i] \in Client /\ Pending(i) \in Seq(Message)
         /\ client_response_stream_size(i) = Len(Pending(i))
         /\ Pending(i) = <<>> <=> client_response_stream_size(i) = 0
         /\ i # owner => Pending(i) = clients[i].response_stream
  <1>1. clients[i] \in Client /\ g_short \in Seq(Message)
    BY DEF IInv, TypeOK
  <1>2. clients[i].response_stream \in Seq(Message)
    BY <1>1, Fields
  <1>3. CASE i = owner
    BY <1>1, <1>2, <1>3 DEF Pending, client_response_stream_size
  <1>4. CASE i # owner
    <2>1. Pending(i) = clients[i].response_stream
      BY <1>2, <1>4 DEF Pending
    <2> QED BY <1>1, <1>2, <1>4, <2>1 DEF client_response_stream_size
  <1> QED BY <1>3, <1>4

------------------------------------------------------------------------------
(* What a step of a visit does not touch.                                  *)

(* Everything but the output of two clients is the same. *)
SameBut(c, d) ==
  /\ c.conn = d.conn /\ c.dead = d.dead /\ c.events = d.events
  /\ c.request_stream = d.request_stream /\ c.request_size = d.request_size
  /\ c.parser = d.parser /\ c.response = d.response
  /\ c.response_queue = d.response_queue /\ c.response_count = d.response_count

(* The other clients keep what they are to be sent, wherever it is, and    *)
(* the other connections keep their history.                               *)
Frame ==
  /\ DOMAIN clients' = DOMAIN clients
  /\ \A i \in DOMAIN clients \ {cur} :
       SameBut(clients'[i], clients[i]) /\ (~orphaned' => Pending(i)' = Pending(i))
  /\ clients'[cur].conn = client.conn
  /\ \A c \in Conns \ {client.conn} :
       wire'[c] = wire[c] /\ issued'[c] = issued[c] /\ outcome'[c] = outcome[c]
  /\ todo' = todo
  /\ \/ pc' \in VisitPcs /\ cur' = cur
     \/ pc' \in {"next", "panic"} /\ cur' = 0
  /\ orphaned => orphaned'

(* A step within the frame keeps the invariant if it keeps it for the      *)
(* client v being visited, whose connection is k.                          *)
LEMMA FlowStep ==
  ASSUME IInv, FlowInv, IInv', pc \in VisitPcs, Frame, Round',
         NEW v, v = cur, NEW k, k = client.conn,
         outcome'[k] \in IF clients'[v].dead THEN {"served", "failed"} ELSE {"open"},
         ~clients'[v].dead => InputOK(v)',
         ~orphaned' => OwnerOK' /\ pc' # "panic" /\ WireOK(k)',
         ~orphaned' /\ ~clients'[v].dead =>
           OutputOK(v)' /\ MetadataOK(v)' /\ EndOK(v)' /\ (pc' = "next" => Settled(v)')
  PROVE  FlowInv'
  <1>0. /\ v \in DOMAIN clients /\ v # 0 /\ clients[v].conn = k /\ k \in Conns
        /\ clients'[v].conn = k /\ DOMAIN clients' = DOMAIN clients
        /\ 0 \notin DOMAIN clients
    <2>1. cur \in DOMAIN clients /\ clients \in Seq(Client) /\ client.conn \in Conns
      BY Visited
    <2> QED BY <2>1 DEF Frame, client
  <1>1. ASSUME NEW i \in DOMAIN clients, i # v
        PROVE  /\ SameBut(clients'[i], clients[i])
               /\ ~orphaned' => Pending(i)' = Pending(i)
               /\ clients[i].conn # k /\ clients[i].conn \in Conns
               /\ wire'[clients[i].conn] = wire[clients[i].conn]
               /\ issued'[clients[i].conn] = issued[clients[i].conn]
               /\ outcome'[clients[i].conn] = outcome[clients[i].conn]
    <2>1. clients[i].conn # k
      BY <1>0, <1>1 DEF FlowInv, Connections
    <2>2. clients[i].conn \in Conns
      BY PendingType, Fields
    <2> QED BY <1>0, <1>1, <2>1, <2>2 DEF Frame, client
  <1>2. Connections'
    <2>1. \A i, j \in DOMAIN clients' : clients'[i].conn = clients'[j].conn => i = j
      BY <1>0, <1>1 DEF FlowInv, Connections, SameBut
    <2>2. ASSUME NEW i \in DOMAIN clients'
          PROVE  outcome'[clients'[i].conn] \in
                   IF clients'[i].dead THEN {"served", "failed"} ELSE {"open"}
      BY <1>0, <1>1 DEF FlowInv, Connections, SameBut
    <2>3. outcome[k] # "new" /\ outcome'[k] # "new"
      BY <1>0 DEF FlowInv, Connections
    <2>4. \A c \in Conns : outcome'[c] # "new" <=> outcome[c] # "new"
      BY <1>0, <2>3 DEF Frame, client
    <2>5. \A c \in Conns : outcome'[c] = "new" => wire'[c] = <<>> /\ issued'[c] = 0
      BY <1>0, <2>3 DEF Frame, client, FlowInv, Connections
    <2>6. \E a \in 0 .. MaxConns : \A c \in Conns : outcome'[c] # "new" <=> c <= a
      BY <2>4 DEF FlowInv, Connections
    <2>7. Conns' = Conns
      BY DEF Conns
    <2>8. ASSUME NEW c \in Conns, outcome'[c] = "open"
          PROVE  \E i \in Alive' : clients'[i].conn = c
      <3>1. CASE c = k
        BY <1>0, <2>8, <3>1 DEF Alive
      <3>2. CASE c # k
        <4>1. outcome[c] = "open"
          BY <2>8, <3>2 DEF Frame
        <4>2. PICK i \in Alive : clients[i].conn = c
          BY <4>1 DEF FlowInv, Connections
        <4>3. i \in DOMAIN clients /\ i # v /\ ~clients[i].dead
          BY <1>0, <3>2, <4>2 DEF Alive
        <4>4. SameBut(clients'[i], clients[i])
          BY <1>1, <4>3
        <4> QED BY <1>0, <4>2, <4>3, <4>4 DEF Alive, SameBut
      <3> QED BY <3>1, <3>2
    <2> QED BY <2>1, <2>2, <2>5, <2>6, <2>7, <2>8 DEF Connections
  <1>3. Cycle'
    <2>1. pc' \notin {"poll", "accept"}
      BY DEF Frame, VisitPcs
    <2>2. cur' \notin todo'
      BY <1>0 DEF Frame, FlowInv, Cycle, Alive
    <2>3. \A i \in todo : i \in DOMAIN clients /\ i # v /\ ~clients[i].dead
      BY DEF FlowInv, Cycle, Alive
    <2>4. todo' \subseteq Alive'
      BY <1>0, <1>1, <2>3 DEF Frame, Alive, SameBut
    <2> QED BY <2>1, <2>2, <2>4 DEF Cycle
  <1>4. ASSUME NEW i \in Alive' PROVE InputOK(i)'
    <2>1. i \in DOMAIN clients /\ ~clients'[i].dead
      BY <1>0 DEF Alive
    <2>2. CASE i = v
      BY <2>1, <2>2
    <2>3. CASE i # v
      <3>1. i \in Alive /\ SameBut(clients'[i], clients[i])
        BY <1>1, <2>1, <2>3 DEF Alive, SameBut
      <3>2. InputOK(i)
        BY <3>1 DEF FlowInv
      <3> QED BY <3>1, <3>2 DEF InputOK, SameBut
    <2> QED BY <2>2, <2>3
  <1>5. ASSUME ~orphaned' PROVE Streams'
    <2>0. Streams
      BY <1>5 DEF FlowInv, Frame
    <2>1. ASSUME NEW i \in Alive', i # v
          PROVE  /\ i \in Alive /\ SameBut(clients'[i], clients[i])
                 /\ Pending(i)' = Pending(i) /\ i # cur /\ i # cur'
                 /\ OutputOK(i) /\ MetadataOK(i) /\ EndOK(i)
      <3>1. i \in DOMAIN clients /\ ~clients'[i].dead
        BY <1>0 DEF Alive
      <3>2. i \in Alive /\ SameBut(clients'[i], clients[i]) /\ Pending(i)' = Pending(i)
        BY <1>1, <1>5, <2>1, <3>1 DEF Alive, SameBut
      <3>3. i # cur /\ i # cur'
        BY <1>0, <2>1, <3>1 DEF Frame
      <3> QED BY <2>0, <3>2, <3>3 DEF Streams
    <2>2. ASSUME NEW i \in Alive'
          PROVE  OutputOK(i)' /\ MetadataOK(i)' /\ EndOK(i)'
      <3>1. CASE i = v
        BY <1>5, <3>1 DEF Alive
      <3>2. CASE i # v
        <4>1. OutputOK(i)'
          <5>1. i \in DOMAIN clients /\ clients'[i].conn = clients[i].conn
            BY <1>0, <2>1, <3>2 DEF Alive, SameBut
          <5>2. /\ wire'[clients[i].conn] = wire[clients[i].conn]
                /\ issued'[clients[i].conn] = issued[clients[i].conn]
            BY <1>1, <3>2, <5>1
          <5>3. OutputOK(i) /\ Pending(i)' = Pending(i)
            BY <2>1, <3>2
          <5> QED BY <5>1, <5>2, <5>3 DEF OutputOK, Numbered, Unit
        <4>2. MetadataOK(i)'
          <5>1. /\ clients'[i].response = clients[i].response
                /\ clients'[i].response_queue = clients[i].response_queue
                /\ clients'[i].response_count = clients[i].response_count
            BY <2>1, <3>2 DEF SameBut
          <5>2. Described(clients[i], Len(Pending(i)) + 0) /\ i # cur' /\ Pending(i)' = Pending(i)
            BY <2>1, <3>2 DEF MetadataOK
          <5>3. Described(clients'[i], Len(Pending(i)) + 0)
            BY <5>1, <5>2 DEF Described, LaidOut
          <5> QED BY <5>2, <5>3 DEF MetadataOK, Described, LaidOut
        <4>3. EndOK(i)'
          BY <2>1, <3>2 DEF EndOK, SameBut
        <4> QED BY <4>1, <4>2, <4>3
      <3> QED BY <3>1, <3>2
    <2>3. SettledOK'
      <3> SUFFICES ASSUME pc' \in {"poll", "next"} \cup VisitPcs,
                          NEW i \in Alive', i \notin todo', i # cur'
                   PROVE  Settled(i)'
        BY DEF SettledOK
      <3>1. CASE i = v
        <4>1. pc' = "next"
          BY <3>1, <1>5 DEF Frame
        <4> QED BY <1>5, <3>1, <4>1 DEF Alive
      <3>2. CASE i # v
        <4>1. i \in Alive /\ i \notin todo /\ i # cur
          BY <2>1, <3>2 DEF Frame
        <4>2. Settled(i)
          BY <2>0, <4>1 DEF Streams, SettledOK
        <4> QED BY <2>1, <3>2, <4>2 DEF Settled, SameBut
      <3> QED BY <3>1, <3>2
    <2>4. ASSUME NEW c \in Conns PROVE WireOK(c)'
      <3>1. CASE c = k
        BY <1>5, <3>1
      <3>2. CASE c # k
        <4>1. /\ wire'[c] = wire[c] /\ issued'[c] = issued[c] /\ outcome'[c] = outcome[c]
          BY <3>2 DEF Frame
        <4>2. WireOK(c)
          BY <2>0 DEF Streams
        <4> QED BY <4>1, <4>2 DEF WireOK, Units, Unit, FixedResponse
      <3> QED BY <3>1, <3>2
    <2>5. Conns' = Conns
      BY DEF Conns
    <2> QED BY <1>5, <2>2, <2>3, <2>4, <2>5 DEF Streams
  <1> QED BY <1>2, <1>3, <1>4, <1>5 DEF FlowInv

(* What holds of the client being visited. *)
LEMMA VisitedFlow ==
  ASSUME IInv, FlowInv, pc \in VisitPcs
  PROVE  /\ Round /\ cur # 0
         /\ client.dead \in BOOLEAN /\ (cur \in Alive <=> ~client.dead)
         /\ outcome[client.conn] \in IF client.dead THEN {"served", "failed"} ELSE {"open"}
         /\ ~client.dead => InputOK(cur)
         /\ ~orphaned => OwnerOK /\ pc # "panic" /\ WireOK(client.conn)
         /\ ~orphaned /\ ~client.dead => OutputOK(cur) /\ MetadataOK(cur) /\ EndOK(cur)
  <1>1. /\ cur \in DOMAIN clients /\ clients \in Seq(Client) /\ client \in Client
        /\ client.conn \in Conns /\ client.dead \in BOOLEAN
    BY Visited, Fields
  <1>2. cur # 0
    BY <1>1
  <1>3. cur \in Alive <=> ~client.dead
    BY <1>1 DEF Alive, client
  <1>4. outcome[client.conn] \in IF client.dead THEN {"served", "failed"} ELSE {"open"}
    BY <1>1 DEF FlowInv, Connections, client
  <1>5. Round /\ (~client.dead => InputOK(cur))
    BY <1>3 DEF FlowInv
  <1>6. ~orphaned => Streams
    BY DEF FlowInv
  <1>7. ~orphaned => OwnerOK /\ pc # "panic" /\ WireOK(client.conn)
    BY <1>1, <1>6 DEF Streams
  <1>8. ~orphaned /\ ~client.dead => OutputOK(cur) /\ MetadataOK(cur) /\ EndOK(cur)
    BY <1>3, <1>6 DEF Streams
  <1> QED BY <1>1, <1>2, <1>3, <1>4, <1>5, <1>7, <1>8

(* A step that only moves the place in the code. *)
LEMMA StillStep ==
  ASSUME IInv, FlowInv, IInv', pc \in VisitPcs, pc' \in VisitPcs, Round',
         UNCHANGED <<clients, g_short, owner, todo, cur, sent, history>>,
         ~orphaned /\ ~client.dead => EndOK(cur)'
  PROVE  FlowInv'
  <1>0. UNCHANGED <<wire, issued, outcome, orphaned>> /\ Conns' = Conns
    BY DEF history, Conns
  <1>a. PICK v : v = cur
    OBVIOUS
  <1>b. PICK k : k = client.conn
    OBVIOUS
  <1>1. v = cur /\ k = client.conn /\ clients'[v].dead = client.dead
    BY <1>a, <1>b DEF client
  <1>2. \A i : Pending(i)' = Pending(i)
    BY DEF Pending
  <1>3. Frame
    BY <1>0, <1>2 DEF Frame, SameBut, client
  <1>4. outcome'[k] \in IF clients'[v].dead THEN {"served", "failed"} ELSE {"open"}
    BY <1>0, <1>1, VisitedFlow
  <1>5. ~clients'[v].dead => InputOK(v)'
    BY <1>1, VisitedFlow DEF InputOK
  <1>6. ~orphaned' => OwnerOK' /\ pc' # "panic" /\ WireOK(k)'
    <2>1. pc' # "panic"
      BY DEF VisitPcs
    <2>2. ~orphaned' => OwnerOK'
      BY <1>0, VisitedFlow DEF OwnerOK, Alive
    <2>3. ~orphaned' => WireOK(k)'
      BY <1>0, <1>1, VisitedFlow DEF WireOK, Units, Unit, FixedResponse
    <2> QED BY <2>1, <2>2, <2>3
  <1>7. ~orphaned' /\ ~clients'[v].dead =>
           OutputOK(v)' /\ MetadataOK(v)' /\ EndOK(v)' /\ (pc' = "next" => Settled(v)')
    <2> SUFFICES ASSUME ~orphaned', ~clients'[v].dead
                 PROVE  OutputOK(v)' /\ MetadataOK(v)' /\ EndOK(v)' /\ pc' # "next"
      OBVIOUS
    <2>1. OutputOK(v) /\ MetadataOK(v) /\ EndOK(v)'
      BY <1>0, <1>1, VisitedFlow
    <2>2. OutputOK(v)'
      BY <1>0, <1>2, <2>1 DEF OutputOK, Numbered, Unit
    <2>3. MetadataOK(v)'
      BY <1>2, <2>1 DEF MetadataOK, Described, LaidOut
    <2>4. pc' # "next"
      BY DEF VisitPcs
    <2> QED BY <2>1, <2>2, <2>3, <2>4
  <1> QED BY <1>1, <1>3, <1>4, <1>5, <1>6, <1>7, FlowStep

(* A visit that ends in an error. *)
LEMMA FailureFlow ==
  ASSUME IInv, FlowInv, IInv', pc \in VisitPcs,
         NEW cs, NEW o, NEW w \in [Conns -> Seq(Message)], NEW send \in BOOLEAN,
         NEW place \in {"next", "panic"}, Failure(cs, o, w, send, place), issued' = issued,
         DOMAIN cs = DOMAIN clients, cs[cur] \in Client, cs[cur].conn = client.conn,
         \A i \in DOMAIN clients \ {cur} :
           /\ SameBut(cs[i], clients[i])
           /\ ~orphaned' =>
                (IF i = o THEN g_short' ELSE <<>>) \o cs[i].response_stream = Pending(i),
         \A c \in Conns \ {client.conn} : w[c] = wire[c],
         ~orphaned' =>
           /\ place = "next"
           /\ Numbered(w[client.conn], client.conn, 0)
           /\ Len(w[client.conn]) <= issued[client.conn]
           /\ \/ o = 0 /\ g_short' = <<>>
              \/ o \in Alive /\ g_short' # <<>> /\ cs[o].response_stream = <<>>
  PROVE  FlowInv'
  <1>a. PICK v : v = cur
    OBVIOUS
  <1>b. PICK k : k = client.conn
    OBVIOUS
  <1>0. /\ v = cur /\ k = client.conn /\ k \in Conns /\ v \in DOMAIN clients
        /\ outcome \in [Conns -> {"new", "open", "served", "failed"}]
        /\ issued \in [Conns -> Nat]
    BY <1>a, <1>b, Visited DEF HistoryOK
  <1>1. /\ clients' = [cs EXCEPT ![v] = client_finalize(@)]
        /\ owner' = o /\ pc' = place /\ cur' = 0 /\ sent' = 0 /\ todo' = todo
        /\ outcome' = [outcome EXCEPT ![k] = "failed"]
        /\ orphaned' = (orphaned \/ o = v)
    BY <1>0 DEF Failure, Leave
  <1>2. wire' = [w EXCEPT ![k] = IF send THEN Append(@, FixedResponse) ELSE @]
    BY <1>0 DEF Failure
  <1>3. /\ DOMAIN clients' = DOMAIN clients /\ clients'[v] = client_finalize(cs[v])
        /\ \A i \in DOMAIN clients : i # v => clients'[i] = cs[i]
    BY <1>0, <1>1
  <1>4. clients'[v].conn = k /\ clients'[v].dead = TRUE
    BY <1>0, <1>3, FinalizeFields
  <1>5. \A c \in Conns \ {k} : wire'[c] = wire[c] /\ issued'[c] = issued[c] /\ outcome'[c] = outcome[c]
    BY <1>0, <1>1, <1>2
  <1>6. ASSUME NEW i \in DOMAIN clients \ {v}
        PROVE  SameBut(clients'[i], clients[i]) /\ (~orphaned' => Pending(i)' = Pending(i))
    <2>1. clients'[i] = cs[i] /\ owner' = o
      BY <1>1, <1>3
    <2> QED BY <1>0, <2>1 DEF Pending
  <1>7. Frame
    <2>1. /\ pc' \in {"next", "panic"} /\ cur' = 0 /\ todo' = todo
          /\ orphaned => orphaned'
      BY <1>1
    <2> QED BY <1>0, <1>3, <1>4, <1>5, <1>6, <2>1 DEF Frame
  <1>8. Round'
    BY <1>1 DEF Round
  <1>9. outcome'[k] = "failed"
    BY <1>0, <1>1
  <1>10. ASSUME ~orphaned' PROVE OwnerOK' /\ pc' # "panic" /\ WireOK(k)'
    <2>1. pc' # "panic"
      BY <1>1, <1>10
    <2>2. OwnerOK'
      <3>1. CASE o = 0 /\ g_short' = <<>>
        BY <1>1, <3>1 DEF OwnerOK
      <3>2. CASE o \in Alive /\ g_short' # <<>> /\ cs[o].response_stream = <<>>
        <4>1. o # v /\ o \in DOMAIN clients /\ ~clients[o].dead
          BY <1>1, <1>10, <3>2 DEF Alive
        <4>2. clients'[o] = cs[o] /\ cs[o].dead = clients[o].dead
          BY <1>0, <1>3, <4>1 DEF SameBut
        <4>3. o \in Alive'
          BY <1>3, <4>1, <4>2 DEF Alive
        <4> QED BY <1>1, <3>2, <4>2, <4>3 DEF OwnerOK
      <3> QED BY <1>10, <3>1, <3>2
    <2>3. WireOK(k)'
      <3> DEFINE n == Len(w[k])
      <3>1. w[k] = Units(k, 0, n) /\ n \in 0 .. issued[k]
        <4>1. Numbered(w[k], k, 0) /\ n <= issued[k]
          BY <1>0, <1>10
        <4>2. w[k] \in Seq(Message) /\ n \in Nat /\ issued[k] \in Nat
          BY <1>0
        <4> QED BY <1>0, <4>1, <4>2, NumberedIsUnits
      <3>2. wire'[k] \in {w[k], Append(w[k], FixedResponse)}
        BY <1>0, <1>2
      <3>3. wire'[k] \in {Units(k, 0, n), Append(Units(k, 0, n), FixedResponse)} /\ n \in 0 .. issued'[k]
        BY <3>1, <3>2
      <3> HIDE DEF n
      <3>4. \E m \in 0 .. issued'[k] : wire'[k] \in {Units(k, 0, m), Append(Units(k, 0, m), FixedResponse)}
        BY <3>3
      <3> QED BY <1>9, <3>4 DEF WireOK, Units, Unit, FixedResponse
    <2> QED BY <2>1, <2>2, <2>3
  <1> QED BY <1>0, <1>4, <1>7, <1>8, <1>9, <1>10, FlowStep

(* A connection that is closed as agreed. *)
LEMMA CloseServedFlow ==
  ASSUME IInv, FlowInv, IInv', pc \in VisitPcs, cur \in Alive,
         NEW cs, CloseServed(cs), UNCHANGED <<g_short, owner, wire, issued, sent>>,
         DOMAIN cs = DOMAIN clients, \A i \in DOMAIN clients \ {cur} : cs[i] = clients[i],
         cs[cur] \in Client, cs[cur].conn = client.conn, cs[cur].parser = client.parser,
         sent = 0, client_response_stream_size(cur) = 0,
         "closed" \in flags' \/ client.parser = "end"
  PROVE  FlowInv'
  <1>a. PICK v : v = cur
    OBVIOUS
  <1>b. PICK k : k = client.conn
    OBVIOUS
  <1>0. /\ v = cur /\ k = client.conn /\ k \in Conns /\ v \in DOMAIN clients
        /\ outcome \in [Conns -> {"new", "open", "served", "failed"}]
        /\ wire \in [Conns -> Seq(Message)] /\ issued \in [Conns -> Nat]
    BY <1>a, <1>b, Visited DEF HistoryOK
  <1>1. /\ clients' = [cs EXCEPT ![v] = client_finalize(@)]
        /\ outcome' = [outcome EXCEPT ![k] = "served"]
        /\ orphaned' = (orphaned \/ owner = v)
        /\ done' = TRUE /\ pc' = "wait" /\ todo' = todo /\ cur' = cur
    BY <1>0 DEF CloseServed, Goto
  <1>3. /\ DOMAIN clients' = DOMAIN clients /\ clients'[v] = client_finalize(cs[v])
        /\ \A i \in DOMAIN clients : i # v => clients'[i] = clients[i]
    BY <1>0, <1>1
  <1>4. /\ clients'[v].conn = k /\ clients'[v].dead = TRUE /\ clients'[v].parser = client.parser
        /\ clients'[v].request_stream = <<>> /\ clients'[v].response_stream = <<>>
    BY <1>0, <1>3, FinalizeFields
  <1>5. \A c \in Conns \ {k} : wire'[c] = wire[c] /\ issued'[c] = issued[c] /\ outcome'[c] = outcome[c]
    BY <1>0, <1>1
  <1>6. Frame
    <2>1. \A i \in DOMAIN clients \ {v} : SameBut(clients'[i], clients[i]) /\ Pending(i)' = Pending(i)
      BY <1>3 DEF SameBut, Pending
    <2>2. pc' \in VisitPcs /\ cur' = cur /\ todo' = todo /\ (orphaned => orphaned')
      BY <1>1 DEF VisitPcs
    <2> QED BY <1>0, <1>3, <1>4, <1>5, <2>1, <2>2 DEF Frame
  <1>7. Pending(v) = <<>>
    BY <1>0, PendingType
  <1>8. Round'
    <2>1. client_response_stream_size(v)' = 0
      <3>1. g_short \in Seq(Message) /\ client.response_stream \in Seq(Message)
        BY Visited, Fields
      <3>2. v = owner => Len(g_short) = 0
        BY <1>0, <3>1 DEF client_response_stream_size, client
      <3>3. Len(clients'[v].response_stream) = 0
        BY <1>4
      <3> QED BY <3>2, <3>3 DEF client_response_stream_size
    <2>2. Closed(v)'
      BY <1>4, <2>1 DEF Closed
    <2> QED BY <1>0, <1>1, <2>2 DEF Round
  <1>9. outcome'[k] = "served"
    BY <1>0, <1>1
  <1>10. ASSUME ~orphaned' PROVE OwnerOK' /\ pc' # "panic" /\ WireOK(k)'
    <2>0. ~orphaned /\ owner # v /\ ~client.dead
      BY <1>0, <1>1, <1>10, VisitedFlow
    <2>1. pc' # "panic"
      BY <1>1
    <2>2. OwnerOK'
      <3>1. OwnerOK
        BY <2>0, VisitedFlow
      <3>2. owner \in Alive => owner \in Alive' /\ clients'[owner] = clients[owner]
        BY <1>3, <2>0 DEF Alive
      <3> QED BY <3>1, <3>2 DEF OwnerOK
    <2>3. WireOK(k)'
      <3>1. OutputOK(v) /\ wire[k] \in Seq(Message) /\ issued[k] \in Nat
        BY <1>0, <2>0, VisitedFlow
      <3>2. Numbered(wire[k], k, 0) /\ Len(wire[k]) = issued[k]
        BY <1>0, <1>7, <3>1 DEF OutputOK, client
      <3>3. wire[k] = Units(k, 0, issued[k])
        BY <1>0, <3>1, <3>2, NumberedIsUnits
      <3> QED BY <1>9, <3>3 DEF WireOK, Units, Unit
    <2> QED BY <2>1, <2>2, <2>3
  <1> QED BY <1>0, <1>4, <1>6, <1>8, <1>9, <1>10, FlowStep

------------------------------------------------------------------------------
(* The steps of a visit.                                                   *)

(* Nothing is done on a dead client. *)
LEMMA OnlyTheLiving ==
  ASSUME IInv, FlowInv, pc \in VisitPcs,
         \/ MayReceive \/ MayProcess \/ MaySend \/ MaySendLong
         \/ pc \notin {"receive", "process", "send", "wait"}
  PROVE  cur \in Alive
  <1> SUFFICES ASSUME cur \notin Alive PROVE FALSE
    OBVIOUS
  <1>1. pc \in {"receive", "process", "send", "wait"} /\ Closed(cur)
    BY VisitedFlow DEF Round
  <1>2. /\ clients[cur].request_stream = <<>> /\ client_response_stream_size(cur) = 0
        /\ "closed" \in flags \/ clients[cur].parser = "end"
    BY <1>1 DEF Closed
  <1>3. ~MaySend /\ ~MaySendLong
    BY <1>1, <1>2 DEF MaySend, MaySendLong, get_makes_sense_to_send
  <1>4. ~MayReceive
    BY <1>2 DEF MayReceive, get_makes_sense_to_receive
  <1>5. ~MayProcess
    <2>1. clients[cur].request_size \in Nat
      BY Visited, Fields DEF client
    <2> QED BY <1>2, <2>1 DEF MayProcess, get_makes_sense_to_parse
  <1> QED BY <1>1, <1>3, <1>4, <1>5

(* The steps that find nothing to do. *)
LEMMA IdleFlow ==
  ASSUME IInv, FlowInv, IInv',
         \/ NotReceive \/ NotProcess \/ NotSend \/ Again \/ NotSendLong \/ PoppedAll
         \/ /\ pc = "first" /\ Goto("receive")
            /\ UNCHANGED <<clients, g_short, owner, flags, done, sent, history>>
         \/ /\ pc = "sent" /\ ~AllSent /\ Goto("wait")
            /\ UNCHANGED <<clients, g_short, owner, flags, done, sent, history>>
  PROVE  FlowInv'
  <1>1. /\ pc \in VisitPcs /\ pc' \in VisitPcs
        /\ UNCHANGED <<clients, g_short, owner, todo, cur, sent, flags, history>>
    BY DEF NotReceive, NotProcess, NotSend, Again, NotSendLong, PoppedAll, Goto, VisitPcs
  <1>2. /\ Round /\ Closed(cur)' = Closed(cur) /\ Alive' = Alive
        /\ get_makes_sense_to_parse(cur)' = get_makes_sense_to_parse(cur)
        /\ Pending(cur)' = Pending(cur)
    BY <1>1, VisitedFlow
    DEF Closed, client_response_stream_size, Alive, get_makes_sense_to_parse, Pending
  <1>3. /\ pc \in {"receive", "process", "send", "wait"} =>
             pc' \in {"receive", "process", "send", "wait"}
        /\ pc \notin {"receive", "process", "send", "wait"} => cur \in Alive
    <2>1. pc \notin {"receive", "process", "send", "wait"} => cur \in Alive
      BY <1>1, OnlyTheLiving
    <2>2. pc \in {"receive", "process", "send", "wait"} =>
             pc' \in {"receive", "process", "send", "wait"}
      BY DEF NotReceive, NotProcess, NotSend, Again, NotSendLong, PoppedAll, Goto
    <2> QED BY <2>1, <2>2
  <1>4. Round'
    <2>1. sent = 0
      BY <1>1, <1>2 DEF Round, PoppedAll, NotReceive, NotProcess, NotSend, Again, NotSendLong
    <2>2. pc' \in {"pop_short", "long", "pop_long", "sent"} => done'
      BY <1>2 DEF Round, PoppedAll, NotReceive, NotProcess, NotSend, Again, NotSendLong, Goto
    <2>3. pc' \in {"send", "wait"} /\ ~done' => ~get_makes_sense_to_parse(cur)'
      BY <1>2 DEF Round, PoppedAll, NotReceive, NotProcess, NotSend, Again, NotSendLong, Goto,
                  MayProcess
    <2> QED BY <1>1, <1>2, <1>3, <2>1, <2>2, <2>3 DEF Round
  <1>5. ASSUME ~orphaned, ~client.dead PROVE EndOK(cur)'
    <2>1. EndOK(cur)
      BY <1>1, <1>5, VisitedFlow
    <2>2. CASE pc' \in {"long", "sent"}
      BY <1>1, <2>2 DEF EndOK
    <2>3. CASE pc = "sent"
      <3>1. ~AllSent /\ cur \in DOMAIN clients
        BY <1>1, <2>3, Visited
        DEF PoppedAll, NotReceive, NotProcess, NotSend, Again, NotSendLong
      <3>2. clients[cur].parser # "end" \/ Pending(cur) # <<>>
        BY <3>1, PendingType DEF AllSent, client
      <3> QED BY <1>1, <1>2, <3>2 DEF EndOK
    <2>4. CASE pc' \notin {"long", "sent"} /\ pc # "sent"
      <3>1. pc \notin {"pop_short", "long", "pop_long", "sent"}
        BY <2>4 DEF NotReceive, NotProcess, NotSend, Again, NotSendLong, PoppedAll, Goto
      <3> QED BY <1>1, <1>2, <2>1, <3>1 DEF EndOK
    <2> QED BY <2>2, <2>3, <2>4
  <1> QED BY <1>1, <1>4, <1>5, StillStep

(* An error that has changed nothing yet. *)
LEMMA FailHereFlow ==
  ASSUME IInv, FlowInv, IInv', pc \in VisitPcs, cur \in Alive,
         NEW send \in BOOLEAN, FailHere(send)
  PROVE  FlowInv'
  <1>1. /\ Failure(clients, owner, wire, send, "next") /\ g_short' = g_short /\ issued' = issued
        /\ wire \in [Conns -> Seq(Message)] /\ clients[cur] \in Client
        /\ clients[cur].conn = client.conn
    BY Visited DEF FailHere, HistoryOK, client
  <1>2. \A i \in DOMAIN clients \ {cur} :
          /\ SameBut(clients[i], clients[i])
          /\ (IF i = owner THEN g_short' ELSE <<>>) \o clients[i].response_stream = Pending(i)
    BY <1>1 DEF SameBut, Pending
  <1>3. ASSUME ~orphaned'
        PROVE  /\ Numbered(wire[client.conn], client.conn, 0)
               /\ Len(wire[client.conn]) <= issued[client.conn]
               /\ \/ owner = 0 /\ g_short' = <<>>
                  \/ owner \in Alive /\ g_short' # <<>> /\ clients[owner].response_stream = <<>>
    <2>1. ~orphaned /\ ~client.dead
      BY <1>1, <1>3, VisitedFlow DEF Failure
    <2>2. OutputOK(cur) /\ OwnerOK
      BY <2>1, VisitedFlow
    <2>3. Pending(cur) \in Seq(Message) /\ Len(wire[client.conn]) \in Nat
      BY <1>1, PendingType, Visited
    <2> QED BY <1>1, <2>2, <2>3 DEF OutputOK, OwnerOK, client
  <1> QED BY <1>1, <1>2, <1>3, FailureFlow

(* A step that replaces the visited client by x and sends nothing. *)
LEMMA ClientFlow ==
  ASSUME IInv, FlowInv, IInv', pc \in VisitPcs, Round',
         NEW x \in Client, clients' = [clients EXCEPT ![cur] = x],
         x.conn = client.conn, x.dead = client.dead,
         x.response_stream = client.response_stream,
         UNCHANGED <<g_short, owner, wire, issued, outcome, orphaned, todo>>,
         \/ pc' \in VisitPcs /\ cur' = cur
         \/ pc' = "next" /\ cur' = 0,
         ~x.dead =>
           /\ Len(x.request_stream) <= MAX_REQUEST_STREAM_SIZE
           /\ x.parser # "end" => x.request_size <= Len(x.request_stream),
         ~orphaned /\ ~x.dead =>
           /\ Described(x, Len(Pending(cur)) + (IF cur = cur' THEN sent' ELSE 0))
           /\ x.parser = "end" => \/ Pending(cur) # <<>>
                                  \/ pc' \in {"pop_short", "long", "pop_long", "sent"}
           /\ pc' = "next" =>
                IF Pending(cur) # <<>> THEN "out" \in x.events
                ELSE "in" \in x.events /\ x.request_size = Len(x.request_stream)
  PROVE  FlowInv'
  <1>a. PICK v : v = cur
    OBVIOUS
  <1>b. PICK k : k = client.conn
    OBVIOUS
  <1>0. /\ v = cur /\ k = client.conn /\ k \in Conns /\ v \in DOMAIN clients
        /\ clients[v] = client /\ clients[v].conn = k /\ v # 0
    BY <1>a, <1>b, Visited, VisitedFlow DEF client
  <1>1. /\ DOMAIN clients' = DOMAIN clients /\ clients'[v] = x
        /\ \A i \in DOMAIN clients : i # v => clients'[i] = clients[i]
    BY <1>0
  <1>2. \A i \in DOMAIN clients : Pending(i)' = Pending(i)
    BY <1>0, <1>1 DEF Pending
  <1>3. Frame
    <2>1. \A i \in DOMAIN clients \ {v} : SameBut(clients'[i], clients[i])
      BY <1>1 DEF SameBut
    <2> QED BY <1>0, <1>1, <1>2, <2>1 DEF Frame
  <1>4. outcome'[k] \in IF clients'[v].dead THEN {"served", "failed"} ELSE {"open"}
    BY <1>0, <1>1, VisitedFlow
  <1>5. ~clients'[v].dead => InputOK(v)'
    BY <1>1 DEF InputOK
  <1>6. ASSUME ~orphaned' PROVE OwnerOK' /\ pc' # "panic" /\ WireOK(k)'
    <2>1. pc' # "panic"
      BY DEF VisitPcs
    <2>2. OwnerOK'
      <3>1. OwnerOK
        BY <1>6, VisitedFlow
      <3>2. owner \in Alive =>
              owner \in Alive' /\ clients'[owner].response_stream = clients[owner].response_stream
        BY <1>0, <1>1 DEF Alive
      <3> QED BY <3>1, <3>2 DEF OwnerOK
    <2>3. WireOK(k)'
      <3>1. WireOK(k)
        BY <1>0, <1>6, VisitedFlow
      <3>2. wire' = wire /\ issued' = issued
        BY <1>0
      <3> QED BY <3>1, <3>2 DEF WireOK, Units, Unit, FixedResponse
    <2> QED BY <2>1, <2>2, <2>3
  <1>7. ASSUME ~orphaned', ~clients'[v].dead
        PROVE  OutputOK(v)' /\ MetadataOK(v)' /\ EndOK(v)' /\ (pc' = "next" => Settled(v)')
    <2>1. OutputOK(v)
      BY <1>0, <1>1, <1>7, VisitedFlow
    <2>2. OutputOK(v)'
      BY <1>0, <1>1, <1>2, <2>1 DEF OutputOK, Numbered, Unit
    <2>3. MetadataOK(v)'
      <3>1. Described(x, Len(Pending(v)') + (IF v = cur' THEN sent' ELSE 0))
        BY <1>0, <1>1, <1>2, <1>7
      <3> QED BY <1>1, <3>1 DEF MetadataOK
    <2>4. EndOK(v)'
      <3>1. pc' \in {"pop_short", "long", "pop_long", "sent"} => v = cur'
        BY <1>0
      <3> QED BY <1>0, <1>1, <1>2, <1>7, <3>1 DEF EndOK
    <2>5. pc' = "next" => Settled(v)'
      BY <1>0, <1>1, <1>2, <1>7 DEF Settled
    <2> QED BY <2>2, <2>3, <2>4, <2>5
  <1> QED BY <1>0, <1>3, <1>4, <1>5, <1>6, <1>7, FlowStep

(* One that keeps the metadata too. *)
LEMMA InputFlow ==
  ASSUME IInv, FlowInv, IInv', pc \in VisitPcs, Round',
         NEW x \in Client, clients' = [clients EXCEPT ![cur] = x],
         x.conn = client.conn, x.dead = client.dead,
         x.response_stream = client.response_stream, x.response = client.response,
         x.response_queue = client.response_queue, x.response_count = client.response_count,
         UNCHANGED <<g_short, owner, wire, issued, outcome, orphaned, todo>>,
         sent = 0, sent' = 0,
         \/ pc' \in VisitPcs /\ cur' = cur
         \/ pc' = "next" /\ cur' = 0,
         ~x.dead =>
           /\ Len(x.request_stream) <= MAX_REQUEST_STREAM_SIZE
           /\ x.parser # "end" => x.request_size <= Len(x.request_stream),
         ~orphaned /\ ~x.dead =>
           /\ x.parser = "end" => Pending(cur) # <<>>
           /\ pc' = "next" =>
                IF Pending(cur) # <<>> THEN "out" \in x.events
                ELSE "in" \in x.events /\ x.request_size = Len(x.request_stream)
  PROVE  FlowInv'
  <1>1. ASSUME ~orphaned, ~x.dead
        PROVE  Described(x, Len(Pending(cur)) + (IF cur = cur' THEN sent' ELSE 0))
    <2>1. MetadataOK(cur)
      BY <1>1, VisitedFlow
    <2>2. Described(client, Len(Pending(cur)) + 0)
      BY <2>1 DEF MetadataOK, client
    <2>3. Described(x, Len(Pending(cur)) + 0)
      BY <2>2 DEF Described, LaidOut
    <2>4. (IF cur = cur' THEN sent' ELSE 0) = 0
      OBVIOUS
    <2> QED BY <2>3, <2>4
  <1> QED BY <1>1, ClientFlow

(* What read() changes. *)
LEMMA ReceivedFields ==
  ASSUME IInv, cur \in DOMAIN clients, NEW bytes \in Seq(Bytes)
  PROVE  \E x \in Client :
           /\ Received(bytes) = [clients EXCEPT ![cur] = x] /\ Received(bytes)[cur] = x
           /\ x.request_stream = client.request_stream \o bytes
           /\ x.conn = client.conn /\ x.dead = client.dead
           /\ x.request_size = client.request_size /\ x.parser = client.parser
           /\ x.response_stream = client.response_stream /\ x.response = client.response
           /\ x.response_queue = client.response_queue /\ x.response_count = client.response_count
  <1>1. clients \in Seq(Client) /\ client \in Client
    BY DEF IInv, TypeOK, client
  <1>2. client.request_stream \o bytes \in Seq(Bytes)
    BY <1>1, Fields
  <1> DEFINE x == [client EXCEPT !.request_stream = @ \o bytes]
  <1>3. x \in Client
    BY <1>1, <1>2, UpdateType
  <1>4. Received(bytes) = [clients EXCEPT ![cur] = x]
    BY Zenon DEF Received, client
  <1>5. Received(bytes)[cur] = x
    BY <1>1, <1>4
  <1>6. /\ x.request_stream = client.request_stream \o bytes
        /\ x.conn = client.conn /\ x.dead = client.dead
        /\ x.request_size = client.request_size /\ x.parser = client.parser
        /\ x.response_stream = client.response_stream /\ x.response = client.response
        /\ x.response_queue = client.response_queue /\ x.response_count = client.response_count
    BY <1>1 DEF Client
  <1> HIDE DEF x
  <1> QED BY <1>3, <1>4, <1>5, <1>6

(* Receive. *)
LEMMA ReceiveFlow ==
  ASSUME IInv, FlowInv, IInv',
         \/ FirstRound
         \/ \E n \in 0 .. MaxTraffic : \E bytes \in [1 .. n -> Bytes] :
              server_receive_traffic(bytes) \/ server_receive_closed(bytes)
         \/ server_receive_failed
         \/ NotReceive
  PROVE  FlowInv'
  <1>1. CASE FirstRound
    <2>0. pc \in VisitPcs /\ pc = "first"
      BY <1>1 DEF FirstRound, VisitPcs
    <2>1. cur \in Alive
      BY <2>0, OnlyTheLiving
    <2>2. CASE \E send \in BOOLEAN : FailHere(send)
      BY <2>0, <2>1, <2>2, FailHereFlow
    <2>3. CASE Goto("receive") /\ UNCHANGED <<clients, g_short, owner, flags, done, sent, history>>
      BY <2>0, <2>3, IdleFlow
    <2> QED BY <1>1, <2>2, <2>3 DEF FirstRound
  <1>2. ASSUME NEW n \in 0 .. MaxTraffic, NEW bytes \in [1 .. n -> Bytes],
               server_receive_traffic(bytes)
        PROVE  FlowInv'
    <2>0. pc \in VisitPcs /\ pc = "receive" /\ bytes \in Seq(Bytes) /\ MayReceive
      BY <1>2, ServerAssumption DEF server_receive_traffic, MayReceive, VisitPcs
    <2>1. cur \in Alive /\ cur \in DOMAIN clients /\ ~client.dead
      BY <2>0, OnlyTheLiving, VisitedFlow DEF Alive
    <2>2. PICK x \in Client :
            /\ Received(bytes) = [clients EXCEPT ![cur] = x] /\ Received(bytes)[cur] = x
            /\ x.request_stream = client.request_stream \o bytes
            /\ x.conn = client.conn /\ x.dead = client.dead
            /\ x.request_size = client.request_size /\ x.parser = client.parser
            /\ x.response_stream = client.response_stream /\ x.response = client.response
            /\ x.response_queue = client.response_queue /\ x.response_count = client.response_count
      BY <2>0, <2>1, ReceivedFields
    <2>3. /\ clients' = [clients EXCEPT ![cur] = x] /\ pc' = "process" /\ cur' = cur /\ todo' = todo
          /\ UNCHANGED <<g_short, owner, sent, wire, issued, outcome, orphaned>>
      BY <1>2, <2>2 DEF server_receive_traffic, Goto
    <2>4. sent = 0
      BY <2>0, VisitedFlow DEF Round
    <2>5. clients'[cur] = x
      BY <2>1, <2>3
    <2>6. Round'
      <3>1. cur \in Alive'
        BY <2>1, <2>2, <2>3, <2>5 DEF Alive
      <3> QED BY <2>3, <2>4, <3>1 DEF Round
    <2>7. /\ Len(x.request_stream) <= MAX_REQUEST_STREAM_SIZE
          /\ x.parser # "end" => x.request_size <= Len(x.request_stream)
      <3>1. Len(bytes) <= MAX_REQUEST_STREAM_SIZE - Len(client.request_stream)
        <4>1. Len(bytes) <= Room \/ Len(bytes) < Room
          BY <1>2 DEF server_receive_traffic
        <4> QED BY <2>0, <2>1, <4>1, Visited, Fields, ServerAssumption DEF Room
      <3>2. InputOK(cur)
        BY <2>0, <2>1, VisitedFlow
      <3>3. /\ client.request_stream \in Seq(Bytes) /\ client.request_size \in Nat
            /\ Len(x.request_stream) = Len(client.request_stream) + Len(bytes)
        BY <2>0, <2>2, Visited, Fields
      <3> QED BY <2>0, <2>2, <3>1, <3>2, <3>3, ServerAssumption DEF InputOK, client
    <2>8. ~orphaned => (x.parser = "end" => Pending(cur) # <<>>)
      BY <2>0, <2>1, <2>2, VisitedFlow DEF EndOK, client
    <2> QED BY <2>0, <2>2, <2>3, <2>4, <2>6, <2>7, <2>8, InputFlow DEF VisitPcs
  <1>3. ASSUME NEW n \in 0 .. MaxTraffic, NEW bytes \in [1 .. n -> Bytes],
               server_receive_closed(bytes)
        PROVE  FlowInv'
    <2>0. pc \in VisitPcs /\ pc = "receive" /\ bytes \in Seq(Bytes) /\ MayReceive
      BY <1>3, ServerAssumption DEF server_receive_closed, MayReceive, VisitPcs
    <2>1. cur \in Alive /\ cur \in DOMAIN clients /\ ~client.dead
      BY <2>0, OnlyTheLiving, VisitedFlow DEF Alive
    <2>2. PICK x \in Client :
            /\ Received(bytes) = [clients EXCEPT ![cur] = x] /\ Received(bytes)[cur] = x
            /\ x.conn = client.conn /\ x.parser = client.parser
      BY <2>0, <2>1, ReceivedFields
    <2>3. /\ DOMAIN Received(bytes) = DOMAIN clients
          /\ \A i \in DOMAIN clients \ {cur} : Received(bytes)[i] = clients[i]
      BY <2>2
    <2>4. g_short' = g_short /\ issued' = issued
      BY <1>3 DEF server_receive_closed
    <2>5. CASE /\ NothingLeft(Received(bytes)[cur], cur)
               /\ CloseServed(Received(bytes)) /\ flags' = flags \cup {"closed"}
               /\ UNCHANGED <<owner, wire, sent>>
      <3>1. sent = 0 /\ client_response_stream_size(cur) = 0 /\ "closed" \in flags'
        BY <2>0, <2>5, VisitedFlow DEF Round, NothingLeft
      <3> QED BY <2>0, <2>1, <2>2, <2>3, <2>4, <2>5, <3>1, CloseServedFlow
    <2>6. CASE Failure(Received(bytes), owner, wire, FALSE, "next")
      <3>1. wire \in [Conns -> Seq(Message)]
        BY <2>0, Visited DEF HistoryOK
      <3>2. \A i \in DOMAIN clients \ {cur} :
              /\ SameBut(Received(bytes)[i], clients[i])
              /\ (IF i = owner THEN g_short' ELSE <<>>) \o Received(bytes)[i].response_stream = Pending(i)
        BY <2>3, <2>4 DEF SameBut, Pending
      <3>3. ASSUME ~orphaned'
            PROVE  /\ Numbered(wire[client.conn], client.conn, 0)
                   /\ Len(wire[client.conn]) <= issued[client.conn]
                   /\ \/ owner = 0 /\ g_short' = <<>>
                      \/ /\ owner \in Alive /\ g_short' # <<>>
                         /\ Received(bytes)[owner].response_stream = <<>>
        <4>1. ~orphaned /\ owner # cur
          BY <2>6, <3>3 DEF Failure
        <4>2. OutputOK(cur) /\ OwnerOK
          BY <2>0, <2>1, <4>1, VisitedFlow
        <4>3. Pending(cur) \in Seq(Message) /\ Len(wire[client.conn]) \in Nat
          BY <2>0, <2>1, <3>1, PendingType, Visited
        <4>4. owner \in Alive => Received(bytes)[owner] = clients[owner]
          BY <2>3, <4>1 DEF Alive
        <4> QED BY <2>4, <4>2, <4>3, <4>4 DEF OutputOK, OwnerOK, client
      <3>4. Received(bytes)[cur] \in Client /\ Received(bytes)[cur].conn = client.conn
        BY <2>2
      <3> QED BY <2>0, <2>3, <2>4, <2>6, <3>1, <3>2, <3>3, <3>4, FailureFlow
    <2> QED BY <1>3, <2>5, <2>6 DEF server_receive_closed
  <1>4. CASE server_receive_failed
    <2>1. MayReceive /\ pc \in VisitPcs
      BY <1>4 DEF server_receive_failed, MayReceive, VisitPcs
    <2>2. cur \in Alive
      BY <2>1, OnlyTheLiving
    <2> QED BY <1>4, <2>1, <2>2, FailHereFlow DEF server_receive_failed
  <1>5. CASE NotReceive
    BY <1>5, IdleFlow
  <1> QED BY <1>1, <1>2, <1>3, <1>4, <1>5

(* Flushing the short buffer moves no byte to another client. *)
LEMMA FlushedFlow ==
  ASSUME IInv, FlowInv, pc \in VisitPcs
  PROVE  /\ DOMAIN Flushed = DOMAIN clients
         /\ \A i \in DOMAIN clients :
              /\ Flushed[i] \in Client /\ SameBut(Flushed[i], clients[i])
              /\ ~orphaned => Flushed[i].response_stream = Pending(i)
  <1>0. /\ clients \in Seq(Client) /\ g_short \in Seq(Message)
        /\ Flushed \in Seq(Client) /\ Len(Flushed) = Len(clients)
    BY Visited, FlushedType
  <1>1. DOMAIN Flushed = DOMAIN clients /\ \A i \in DOMAIN clients : Flushed[i] \in Client
    BY <1>0
  <1>2. ASSUME NEW i \in DOMAIN clients, i # owner
        PROVE  /\ SameBut(Flushed[i], clients[i])
               /\ Flushed[i].response_stream = Pending(i)
    <2>1. Flushed[i] = clients[i]
      BY <1>0, <1>2 DEF Flushed
    <2>2. Pending(i) = clients[i].response_stream
      BY <1>2, PendingType
    <2> QED BY <2>1, <2>2 DEF SameBut
  <1>3. ASSUME NEW i \in DOMAIN clients, i = owner
        PROVE  /\ SameBut(Flushed[i], clients[i])
               /\ ~orphaned => Flushed[i].response_stream = Pending(i)
    <2>1. Flushed[i] = [clients[i] EXCEPT !.response_stream = @ \o g_short]
      BY <1>0, <1>3 DEF Flushed
    <2>2. clients[i] \in Client
      BY <1>0
    <2>3. /\ SameBut(Flushed[i], clients[i])
          /\ Flushed[i].response_stream = clients[i].response_stream \o g_short
      BY <2>1, <2>2 DEF SameBut, Client
    <2>4. ASSUME ~orphaned PROVE Flushed[i].response_stream = Pending(i)
      <3>1. OwnerOK /\ i # 0
        BY <1>0, <2>4, VisitedFlow
      <3>2. clients[i].response_stream = <<>>
        BY <1>3, <3>1 DEF OwnerOK
      <3>3. Pending(i) = g_short \o <<>> /\ Flushed[i].response_stream = <<>> \o g_short
        BY <1>3, <2>3, <3>2 DEF Pending
      <3> QED BY <1>0, <3>3
    <2> QED BY <2>3, <2>4
  <1> QED BY <1>1, <1>2, <1>3

(* What processing a request makes of a client. *)
LEMMA ProcessedFields ==
  ASSUME NEW c \in Client, NEW n \in DOMAIN c.request_stream, NEW r \in Responses
  PROVE  LET x == Processed(c, n, r)
         IN  /\ x.conn = c.conn /\ x.dead = c.dead /\ x.response_stream = c.response_stream
             /\ Len(x.request_stream) = Len(c.request_stream) - n
             /\ x.parser # "end" => x.request_size = 0
             /\ x.response_queue = Append(c.response_queue, r)
             /\ x.response_count = c.response_count + 1
             /\ x.response = IF c.response_count = 0 THEN r ELSE c.response
  <1>1. c.request_stream \in Seq(Bytes) /\ n \in 1 .. Len(c.request_stream)
    BY Fields
  <1>2. Len(SubSeq(c.request_stream, n + 1, Len(c.request_stream))) = Len(c.request_stream) - n
    BY <1>1
  <1>3. Processed(c, n, r).request_stream = SubSeq(c.request_stream, n + 1, Len(c.request_stream))
    BY DEF Processed, Client
  <1>4. /\ Processed(c, n, r).conn = c.conn /\ Processed(c, n, r).dead = c.dead
        /\ Processed(c, n, r).response_stream = c.response_stream
        /\ Processed(c, n, r).response_queue = Append(c.response_queue, r)
        /\ Processed(c, n, r).response_count = c.response_count + 1
        /\ Processed(c, n, r).response = IF c.response_count = 0 THEN r ELSE c.response
    BY DEF Processed, Client
  <1>5. Processed(c, n, r).parser # "end" => Processed(c, n, r).request_size = 0
    BY DEF Processed, Client
  <1> QED BY <1>2, <1>3, <1>4, <1>5

(* A further response is described by the metadata. *)
LEMMA ProcessedDescribed ==
  ASSUME NEW c \in Client, NEW total \in Int, Described(c, total),
         NEW r \in Responses, r.stream_size >= 1, NEW x,
         x.response_queue = Append(c.response_queue, r),
         x.response_count = c.response_count + 1,
         x.response = IF c.response_count = 0 THEN r ELSE c.response
  PROVE  Described(x, total + r.stream_size)
  <1> DEFINE q == c.response_queue
             N == Len(q)
  <1>1. /\ q \in Seq(Responses) /\ N \in Nat /\ c.response_count = N
        /\ r.stream_size \in Nat /\ c.response \in Responses /\ c.response.stream_size \in Nat
    BY Fields DEF Described, Responses
  <1>2. PICK e \in [0 .. N -> Int] : LaidOut(e, c, total)
    BY DEF Described
  <1>3. /\ Len(x.response_queue) = N + 1 /\ x.response_queue \in Seq(Responses)
        /\ x.response_queue[N + 1] = r
        /\ \A j \in 1 .. N : x.response_queue[j] = q[j]
        /\ DOMAIN x.response_queue = 1 .. N + 1
    BY <1>1
  <1>4. x.response_count = Len(x.response_queue)
    BY <1>1, <1>3
  <1>5. \A j \in DOMAIN x.response_queue : x.response_queue[j].stream_size >= 1
    <2>1. \A j \in 1 .. N : q[j].stream_size >= 1
      BY <1>1 DEF Described
    <2> QED BY <1>1, <1>3, <2>1
  <1>6. /\ x.response_queue # <<>>
        /\ x.response.stream_size \in 1 .. x.response_queue[1].stream_size
        /\ x.response.keep_alive = x.response_queue[1].keep_alive
    <2>1. CASE N = 0
      BY <1>1, <1>3, <2>1
    <2>2. CASE N > 0
      <3>1. q # <<>> /\ x.response = c.response /\ x.response_queue[1] = q[1]
        BY <1>1, <1>3, <2>2
      <3> QED BY <1>3, <3>1 DEF Described
    <2> QED BY <1>1, <2>1, <2>2
  <1>7. \E d \in [0 .. N + 1 -> Int] : LaidOut(d, x, total + r.stream_size)
    <2> DEFINE d == [j \in 0 .. N + 1 |-> IF j <= N THEN e[j] ELSE total + r.stream_size]
    <2>1. d \in [0 .. N + 1 -> Int]
      BY <1>1
    <2>2. /\ d[0] = e[0] /\ d[N + 1] = total + r.stream_size
          /\ \A j \in 0 .. N : d[j] = e[j]
      BY <1>1
    <2> HIDE DEF d
    <2>3. d[0] = 0 /\ e[0] = 0 /\ e[N] = total
      BY <1>2, <2>2 DEF LaidOut
    <2>4. d[1] = x.response.stream_size
      <3>1. CASE N = 0
        BY <1>1, <2>2, <2>3, <3>1
      <3>2. CASE N > 0
        BY <1>1, <1>2, <2>2, <3>2 DEF LaidOut
      <3> QED BY <1>1, <3>1, <3>2
    <2>5. ASSUME NEW j \in 2 .. N + 1
          PROVE  d[j] = d[j - 1] + x.response_queue[j].stream_size
      <3>1. CASE j <= N
        <4>1. e[j] = e[j - 1] + q[j].stream_size
          BY <1>1, <1>2, <3>1 DEF LaidOut
        <4> QED BY <1>1, <1>3, <2>2, <3>1, <4>1
      <3>2. CASE j = N + 1
        BY SMTT(30), <1>1, <1>3, <2>2, <2>3, <3>2
      <3> QED BY <1>1, <3>1, <3>2
    <2>6. LaidOut(d, x, total + r.stream_size)
      BY <1>3, <2>2, <2>3, <2>4, <2>5 DEF LaidOut
    <2> QED BY <2>1, <2>6
  <1> QED BY <1>3, <1>4, <1>5, <1>6, <1>7 DEF Described

(* A complete request: its response is added to what is pending. *)
LEMMA ProcessTrafficFlow ==
  ASSUME IInv, FlowInv, IInv', NEW size \in 1 .. MaxResponse, NEW keep_alive \in BOOLEAN,
         server_process_traffic(size, keep_alive)
  PROVE  FlowInv'
  <1>0. /\ pc \in VisitPcs /\ pc = "process" /\ MayProcess /\ pc' = "send" /\ done' = TRUE
        /\ cur' = cur /\ todo' = todo
        /\ UNCHANGED <<flags, sent, wire, received, outcome, orphaned>>
    BY DEF server_process_traffic, MayProcess, Goto, VisitPcs
  <1>a. PICK v : v = cur
    OBVIOUS
  <1>b. PICK k : k = client.conn
    OBVIOUS
  <1> DEFINE r == Response(size, keep_alive)
             data == Units(k, issued[k], issued[k] + size)
             f == Flushed[v]
             c(n) == Processed(f, n, r)
  <1>1. /\ k \in Conns /\ v \in DOMAIN clients /\ clients \in Seq(Client) /\ v # 0
        /\ clients[v] = client /\ client \in Client /\ v \in Alive /\ ~client.dead
        /\ issued \in [Conns -> Nat] /\ wire \in [Conns -> Seq(Message)] /\ size \in Nat
        /\ client.request_stream \in Seq(Bytes)
    BY <1>a, <1>b, <1>0, Visited, VisitedFlow, OnlyTheLiving, Fields, ServerAssumption
    DEF client, HistoryOK
  <1>2. PICK n \in Complete :
          /\ issued' = [issued EXCEPT ![k] = @ + size]
          /\ IF f.response_stream # <<>>
               THEN /\ clients' = [Flushed EXCEPT ![v] =
                          [c(n) EXCEPT !.response_stream = @ \o data]]
                    /\ g_short' = <<>>
                    /\ owner' = 0
               ELSE /\ clients' = [Flushed EXCEPT ![v] = c(n)]
                    /\ g_short' = data
                    /\ owner' = v
    BY <1>a, <1>b, Zenon DEF server_process_traffic
  <1>3. r \in Responses /\ r.stream_size = size
    BY <1>1 DEF Response, Responses
  <1>4. /\ DOMAIN Flushed = DOMAIN clients /\ f \in Client /\ SameBut(f, client)
        /\ \A i \in DOMAIN clients : SameBut(Flushed[i], clients[i])
        /\ ~orphaned => \A i \in DOMAIN clients : Flushed[i].response_stream = Pending(i)
    BY <1>0, <1>1, FlushedFlow
  <1>5. n \in DOMAIN client.request_stream /\ client.request_stream = f.request_stream
    BY <1>4 DEF Complete, Stops, NotParsed, SameBut
  <1>6. c(n) \in Client
    <2>1. n \in Nat
      BY <1>1, <1>5
    <2> QED BY <1>3, <1>4, <2>1, ProcessedType
  <1>7. /\ c(n).conn = f.conn /\ c(n).dead = f.dead /\ c(n).response_stream = f.response_stream
        /\ Len(c(n).request_stream) = Len(f.request_stream) - n
        /\ c(n).parser # "end" => c(n).request_size = 0
        /\ c(n).response_queue = Append(f.response_queue, r)
        /\ c(n).response_count = f.response_count + 1
        /\ c(n).response = IF f.response_count = 0 THEN r ELSE f.response
    BY <1>3, <1>4, <1>5, ProcessedFields
  <1>8. data \in Seq(Message) /\ Len(data) = size /\ Numbered(data, k, issued[k])
    BY <1>1, UnitsNumbered
  <1>9. r.stream_size >= 1
    BY <1>3
  <1> HIDE DEF r, data, f, c
  (* The visited client after the step. *)
  <1>10. PICK x \in Client :
           /\ clients' = [Flushed EXCEPT ![v] = x]
           /\ x.conn = f.conn /\ x.dead = f.dead
           /\ Len(x.request_stream) = Len(f.request_stream) - n
           /\ x.parser # "end" => x.request_size = 0
           /\ x.response_queue = Append(f.response_queue, r)
           /\ x.response_count = f.response_count + 1
           /\ x.response = IF f.response_count = 0 THEN r ELSE f.response
           /\ \/ /\ f.response_stream # <<>> /\ x.response_stream = f.response_stream \o data
                 /\ g_short' = <<>> /\ owner' = 0
              \/ /\ f.response_stream = <<>> /\ x.response_stream = <<>>
                 /\ g_short' = data /\ owner' = v
    <2>1. CASE f.response_stream # <<>>
      <3> DEFINE x == [c(n) EXCEPT !.response_stream = @ \o data]
      <3>1. clients' = [Flushed EXCEPT ![v] = x] /\ g_short' = <<>> /\ owner' = 0
        BY <1>2, <2>1, Zenon
      <3>2. x \in Client
        <4>1. c(n).response_stream \o data \in Seq(Message)
          BY <1>6, <1>8, Fields
        <4> QED BY <1>6, <4>1, UpdateType
      <3>3. /\ x.conn = c(n).conn /\ x.dead = c(n).dead
            /\ x.request_stream = c(n).request_stream
            /\ x.parser = c(n).parser /\ x.request_size = c(n).request_size
            /\ x.response_queue = c(n).response_queue
            /\ x.response_count = c(n).response_count /\ x.response = c(n).response
            /\ x.response_stream = c(n).response_stream \o data
        BY <1>6 DEF Client
      <3> HIDE DEF x
      <3> QED BY <1>7, <2>1, <3>1, <3>2, <3>3
    <2>2. CASE f.response_stream = <<>>
      <3>1. clients' = [Flushed EXCEPT ![v] = c(n)] /\ g_short' = data /\ owner' = v
        BY <1>2, <2>2, Zenon
      <3> QED BY <1>6, <1>7, <2>2, <3>1
    <2> QED BY <2>1, <2>2
  <1>11. /\ DOMAIN clients' = DOMAIN clients /\ clients'[v] = x
         /\ \A i \in DOMAIN clients : i # v => clients'[i] = Flushed[i]
    BY <1>1, <1>4, <1>10
  <1>12. x.conn = k /\ ~x.dead
    BY <1>b, <1>1, <1>4, <1>10 DEF SameBut
  <1>13. ASSUME NEW i \in DOMAIN clients \ {v}
         PROVE  SameBut(clients'[i], clients[i]) /\ (~orphaned' => Pending(i)' = Pending(i))
    <2>1. clients'[i] = Flushed[i] /\ i # owner' /\ Flushed[i].response_stream \in Seq(Message)
      <3>1. i # 0 /\ i # owner'
        BY <1>1, <1>10
      <3>2. Flushed[i] \in Client
        BY <1>0, FlushedFlow
      <3> QED BY <1>11, <3>1, <3>2, Fields
    <2>2. Pending(i)' = Flushed[i].response_stream
      BY <2>1 DEF Pending
    <2> QED BY <1>0, <1>4, <2>1, <2>2
  <1>14. Frame
    <2>1. \A d \in Conns \ {k} : issued'[d] = issued[d]
      BY <1>1, <1>2
    <2>2. clients'[cur].conn = client.conn
      BY <1>a, <1>b, <1>11, <1>12
    <2>3. \A d \in Conns \ {client.conn} :
            wire'[d] = wire[d] /\ issued'[d] = issued[d] /\ outcome'[d] = outcome[d]
      BY <1>b, <1>0, <2>1
    <2>4. \A i \in DOMAIN clients \ {cur} :
            SameBut(clients'[i], clients[i]) /\ (~orphaned' => Pending(i)' = Pending(i))
      BY <1>a, <1>13
    <2> QED BY <1>0, <1>11, <2>2, <2>3, <2>4 DEF Frame, VisitPcs
  <1>15. sent = 0
    BY <1>0, VisitedFlow DEF Round
  <1>16. Round'
    <2>1. v \in Alive'
      BY <1>1, <1>11, <1>12 DEF Alive
    <2> QED BY <1>a, <1>0, <1>15, <2>1 DEF Round
  <1>17. outcome'[k] \in IF clients'[v].dead THEN {"served", "failed"} ELSE {"open"}
    BY <1>b, <1>0, <1>1, <1>11, <1>12, VisitedFlow
  <1>18. InputOK(v)'
    <2>1. Len(f.request_stream) <= MAX_REQUEST_STREAM_SIZE
      BY <1>a, <1>0, <1>1, <1>5, VisitedFlow DEF InputOK
    <2>2. n \in 1 .. Len(f.request_stream) /\ x.request_stream \in Seq(Bytes)
      <3>1. f.request_stream \in Seq(Bytes) /\ n \in DOMAIN f.request_stream
        BY <1>1, <1>5, Zenon
      <3>2. x.request_stream \in Seq(Bytes)
        BY Fields
      <3> QED BY <3>1, <3>2
    <2>3. Len(x.request_stream) <= MAX_REQUEST_STREAM_SIZE
      BY <1>10, <2>1, <2>2, ServerAssumption
    <2>4. x.parser # "end" => x.request_size <= Len(x.request_stream)
      BY <1>10, <2>2
    <2> QED BY <1>11, <2>3, <2>4 DEF InputOK
  <1>19. ASSUME ~orphaned'
         PROVE  /\ OwnerOK' /\ pc' # "panic" /\ WireOK(k)'
                /\ OutputOK(v)' /\ MetadataOK(v)' /\ EndOK(v)' /\ pc' # "next"
    <2>0. /\ ~orphaned /\ OutputOK(v) /\ MetadataOK(v) /\ f.response_stream = Pending(v)
          /\ Pending(v) \in Seq(Message)
      BY <1>a, <1>0, <1>1, <1>4, <1>19, VisitedFlow, PendingType DEF f
    <2>1. Pending(v)' = Pending(v) \o data
      <3>1. Pending(v)' = (IF v = owner' THEN g_short' ELSE <<>>) \o x.response_stream
        BY <1>11 DEF Pending
      <3>2. CASE /\ x.response_stream = f.response_stream \o data
                 /\ g_short' = <<>> /\ owner' = 0
        BY <1>1, <1>8, <2>0, <3>1, <3>2
      <3>3. CASE /\ f.response_stream = <<>> /\ x.response_stream = <<>>
                 /\ g_short' = data /\ owner' = v
        BY <1>8, <2>0, <3>1, <3>3
      <3> QED BY <1>10, <3>2, <3>3
    <2>2. OwnerOK'
      <3>1. v \in Alive'
        BY <1>1, <1>11, <1>12 DEF Alive
      <3>2. data # <<>>
        BY <1>8
      <3> QED BY <1>10, <1>11, <3>1, <3>2 DEF OwnerOK
    <2>3. WireOK(k)'
      BY <1>11, <1>12, <1>17 DEF WireOK
    <2>4. OutputOK(v)'
      <3>1. /\ Numbered(wire[k], k, 0) /\ Numbered(Pending(v), k, Len(wire[k]))
            /\ Len(wire[k]) + Len(Pending(v)) = issued[k]
        BY <1>b, <1>1, <2>0 DEF OutputOK
      <3>2. Len(wire[k]) \in Nat /\ issued[k] \in Nat
        BY <1>1
      <3>3. Numbered(Pending(v) \o data, k, Len(wire[k]))
        BY <1>8, <2>0, <3>1, <3>2, NumberedConcat
      <3>4. Len(Pending(v) \o data) = Len(Pending(v)) + size
        BY <1>8, <2>0
      <3>5. Len(Pending(v)) < MAX_RESPONSE_STREAM_SIZE
        BY <1>a, <1>0, <1>1, PendingType DEF MayProcess, get_makes_sense_to_parse
      <3>6. issued'[k] = issued[k] + size
        BY <1>1, <1>2
      <3>7. Len(wire[k]) + Len(Pending(v) \o data) = issued'[k]
        BY <1>1, <2>0, <3>1, <3>2, <3>4, <3>6
      <3>8. Len(Pending(v) \o data) < MAX_RESPONSE_STREAM_SIZE + MaxResponse
        BY <2>0, <3>4, <3>5, ServerAssumption
      <3> QED BY <1>0, <1>11, <1>12, <2>1, <3>1, <3>3, <3>7, <3>8 DEF OutputOK, Numbered, Unit
    <2>5. MetadataOK(v)'
      <3>1. Described(clients[v], Len(Pending(v)) + 0)
        BY <1>a, <1>15, <2>0 DEF MetadataOK
      <3>2. Described(f, Len(Pending(v)) + 0)
        <4>1. /\ f.response = clients[v].response /\ f.response_queue = clients[v].response_queue
              /\ f.response_count = clients[v].response_count
          BY <1>1, <1>4 DEF SameBut
        <4> HIDE DEF client
        <4> QED BY <3>1, <4>1 DEF Described, LaidOut
      <3>3. Len(Pending(v)) + 0 \in Nat
        BY <2>0
      <3>4. Described(x, Len(Pending(v)) + 0 + r.stream_size)
        BY <1>3, <1>4, <1>9, <1>10, <3>2, <3>3, ProcessedDescribed
      <3>5. (IF v = cur' THEN sent' ELSE 0) = 0
        BY <1>0, <1>15
      <3>a. Len(Pending(v) \o data) = Len(Pending(v)) + Len(data)
        BY <1>8, <2>0
      <3>6. Len(Pending(v)') + (IF v = cur' THEN sent' ELSE 0) = Len(Pending(v)) + 0 + r.stream_size
        BY <1>3, <1>8, <2>0, <2>1, <3>5, <3>a
      <3>7. Described(x, Len(Pending(v)') + (IF v = cur' THEN sent' ELSE 0))
        BY <3>4, <3>6
      <3> QED BY <1>11, <3>7 DEF MetadataOK
    <2>6. EndOK(v)'
      <3>1. Pending(v) \o data # <<>>
        BY <1>8, <2>0
      <3> QED BY <2>1, <3>1 DEF EndOK
    <2> QED BY <1>0, <2>2, <2>3, <2>4, <2>5, <2>6
  <1> QED BY <1>a, <1>b, <1>0, <1>14, <1>16, <1>17, <1>18, <1>19, FlowStep

(* Parse and process. *)
LEMMA ProcessFlow ==
  ASSUME IInv, FlowInv, IInv',
         \/ server_process_invalid
         \/ server_process_incomplete
         \/ \E size \in 1 .. MaxResponse, keep_alive \in BOOLEAN :
              server_process_traffic(size, keep_alive)
         \/ server_process_flush_failed
         \/ server_process_failed
         \/ NotProcess
  PROVE  FlowInv'
  <1>1. CASE NotProcess
    BY <1>1, IdleFlow
  <1>2. CASE \E size \in 1 .. MaxResponse, keep_alive \in BOOLEAN :
               server_process_traffic(size, keep_alive)
    BY <1>2, ProcessTrafficFlow
  <1> SUFFICES ASSUME \/ server_process_invalid \/ server_process_incomplete
                      \/ server_process_flush_failed \/ server_process_failed
               PROVE  FlowInv'
    BY <1>1, <1>2
  <1>3. pc = "process" /\ pc \in VisitPcs /\ MayProcess
    BY DEF server_process_invalid, server_process_incomplete,
           server_process_flush_failed, server_process_failed, MayProcess, VisitPcs
  <1>4. /\ cur \in Alive /\ cur \in DOMAIN clients /\ ~client.dead
        /\ client \in Client /\ client = clients[cur] /\ client.request_stream \in Seq(Bytes)
    BY <1>3, OnlyTheLiving, VisitedFlow, Visited, Fields DEF client
  <1>5. CASE server_process_invalid \/ server_process_flush_failed
    BY <1>3, <1>4, <1>5, FailHereFlow DEF server_process_invalid, server_process_flush_failed
  <1>6. CASE server_process_incomplete
    <2> DEFINE c1 == [client EXCEPT !.request_size = Len(client.request_stream)]
               x == [c1 EXCEPT !.parser = "wait"]
    <2>0. Len(client.request_stream) \in Nat
      BY <1>4
    <2>1. c1 \in Client
      BY <1>4, <2>0, UpdateType
    <2>2. x \in Client
      <3> HIDE DEF c1
      <3> QED BY <2>1, UpdateType
    <2>3. clients' = [clients EXCEPT ![cur] = x]
      BY <1>4, <1>6, Zenon DEF server_process_incomplete, client
    <2>4. /\ x.conn = client.conn /\ x.dead = client.dead
          /\ x.request_stream = client.request_stream /\ x.parser = "wait"
          /\ x.request_size = Len(client.request_stream)
          /\ x.response_stream = client.response_stream /\ x.response = client.response
          /\ x.response_queue = client.response_queue /\ x.response_count = client.response_count
      BY <1>4 DEF Client
    <2> HIDE DEF x
    <2>5. /\ pc' = "send" /\ cur' = cur /\ todo' = todo /\ done' = TRUE
          /\ UNCHANGED <<g_short, owner, wire, issued, outcome, orphaned, sent>>
      BY <1>6 DEF server_process_incomplete, Goto, history
    <2>6. sent = 0
      BY <1>3, VisitedFlow DEF Round
    <2>7. Round'
      <3>1. clients'[cur] = x /\ DOMAIN clients' = DOMAIN clients
        BY <1>4, <2>3
      <3>2. cur \in Alive'
        BY <1>4, <2>4, <2>5, <3>1 DEF Alive
      <3> QED BY <2>5, <2>6, <3>2 DEF Round
    <2>8. /\ Len(x.request_stream) <= MAX_REQUEST_STREAM_SIZE
          /\ x.parser # "end" => x.request_size <= Len(x.request_stream)
      BY <1>3, <1>4, <2>4, VisitedFlow DEF InputOK
    <2> QED BY <1>3, <2>2, <2>3, <2>4, <2>5, <2>6, <2>7, <2>8, InputFlow DEF VisitPcs
  <1>7. CASE server_process_failed
    <2>1. PICK send \in BOOLEAN : Failure(Flushed, 0, wire, send, "next")
      BY <1>7 DEF server_process_failed
    <2>2. g_short' = <<>> /\ issued' = issued /\ wire \in [Conns -> Seq(Message)]
      BY <1>3, <1>7, Visited DEF server_process_failed, HistoryOK
    <2>3. /\ DOMAIN Flushed = DOMAIN clients /\ Flushed[cur] \in Client
          /\ Flushed[cur].conn = client.conn /\ (orphaned => orphaned')
      BY <1>3, <1>4, <2>1, FlushedFlow DEF SameBut, Failure
    <2>4. ASSUME NEW i \in DOMAIN clients \ {cur}
          PROVE  /\ SameBut(Flushed[i], clients[i])
                 /\ ~orphaned' =>
                      (IF i = 0 THEN g_short' ELSE <<>>) \o Flushed[i].response_stream = Pending(i)
      <3>1. /\ SameBut(Flushed[i], clients[i]) /\ Flushed[i].response_stream \in Seq(Message)
            /\ ~orphaned => Flushed[i].response_stream = Pending(i)
        BY <1>3, FlushedFlow, Fields
      <3>2. (IF i = 0 THEN g_short' ELSE <<>>) \o Flushed[i].response_stream = Flushed[i].response_stream
        BY <2>2, <3>1
      <3> QED BY <2>3, <3>1, <3>2
    <2>5. ASSUME ~orphaned'
          PROVE  /\ Numbered(wire[client.conn], client.conn, 0)
                 /\ Len(wire[client.conn]) <= issued[client.conn]
      <3>1. OutputOK(cur)
        BY <1>3, <1>4, <2>3, <2>5, VisitedFlow
      <3>2. Pending(cur) \in Seq(Message) /\ Len(wire[client.conn]) \in Nat
        BY <1>3, <1>4, <2>2, PendingType, Visited
      <3> QED BY <3>1, <3>2 DEF OutputOK, client
    <2> QED BY <1>3, <2>1, <2>2, <2>3, <2>4, <2>5, FailureFlow
  <1> QED BY <1>5, <1>6, <1>7

(* Popping a response that is sent takes its bytes off the description. *)
LEMMA PoppedDescribed ==
  ASSUME NEW c \in Client, NEW total \in Int, Described(c, total), c.response_queue # <<>>
  PROVE  Described(Popped(c), total - c.response.stream_size)
  <1> DEFINE q == c.response_queue
             N == Len(q)
             x == Popped(c)
             size == c.response.stream_size
  <1>1. /\ q \in Seq(Responses) /\ N \in Nat /\ N >= 1 /\ c.response_count = N
        /\ c.response \in Responses /\ size \in Nat
    BY Fields DEF Described, Responses
  <1>s. \A j \in 1 .. N : q[j].stream_size \in Nat
    <2>1. \A j \in 1 .. N : q[j] \in Responses
      BY <1>1
    <2> QED BY <2>1 DEF Responses
  <1>2. PICK e \in [0 .. N -> Int] : LaidOut(e, c, total)
    BY DEF Described
  <1>3. /\ x.response_queue = Tail(q) /\ x.response_count = N - 1
        /\ x.response = IF Tail(q) # <<>> THEN Head(Tail(q))
                        ELSE [c.response EXCEPT !.stream_size = 0]
    BY <1>1 DEF Popped, Client
  <1>4. /\ Len(Tail(q)) = N - 1 /\ Tail(q) \in Seq(Responses) /\ DOMAIN Tail(q) = 1 .. N - 1
        /\ \A j \in 1 .. N - 1 : Tail(q)[j] = q[j + 1]
    BY <1>1
  <1> HIDE DEF x
  <1>5. \A j \in 1 .. N - 1 : x.response_queue[j].stream_size >= 1
    <2>1. \A j \in 1 .. N : q[j].stream_size >= 1
      BY <1>1 DEF Described
    <2>2. ASSUME NEW j \in 1 .. N - 1 PROVE x.response_queue[j].stream_size >= 1
      <3>1. j + 1 \in 1 .. N
        BY <1>1
      <3>2. x.response_queue[j] = q[j + 1]
        BY <1>3, <1>4
      <3> QED BY <2>1, <3>1, <3>2
    <2> QED BY <2>2
  <1>6. IF x.response_queue = <<>>
          THEN x.response.stream_size = 0
          ELSE /\ x.response.stream_size \in 1 .. x.response_queue[1].stream_size
               /\ x.response.keep_alive = x.response_queue[1].keep_alive
    <2>1. CASE Tail(q) = <<>>
      BY <1>1, <1>3, <2>1 DEF Responses
    <2>2. CASE Tail(q) # <<>>
      <3>1. x.response = Tail(q)[1] /\ 1 \in 1 .. N - 1
        BY <1>1, <1>3, <1>4, <2>2
      <3>2. Tail(q)[1].stream_size \in Nat /\ Tail(q)[1].stream_size >= 1
        <4>1. Tail(q)[1] = q[2] /\ 2 \in 1 .. N
          BY <1>1, <1>4, <3>1
        <4> QED BY <1>s, <1>3, <1>5, <3>1, <4>1
      <3> QED BY <1>3, <2>2, <3>1, <3>2
    <2> QED BY <2>1, <2>2
  <1>7. \E d \in [0 .. N - 1 -> Int] : LaidOut(d, x, total - size)
    <2> DEFINE d == [j \in 0 .. N - 1 |-> e[j + 1] - e[1]]
    <2>0. e[1] = size /\ e[N] = total /\ \A j \in 2 .. N : e[j] = e[j - 1] + q[j].stream_size
      BY <1>2 DEF LaidOut
    <2>1. d \in [0 .. N - 1 -> Int] /\ \A j \in 0 .. N - 1 : d[j] = e[j + 1] - e[1]
      BY SMTT(30), <1>1
    <2> HIDE DEF d
    <2>2. d[0] = 0 /\ d[N - 1] = total - size
      BY <1>1, <2>0, <2>1
    <2>3. x.response_queue # <<>> => d[1] = x.response.stream_size
      <3> SUFFICES ASSUME x.response_queue # <<>> PROVE d[1] = x.response.stream_size
        OBVIOUS
      <3>1. N >= 2 /\ x.response = q[2] /\ q[2].stream_size \in Nat
        <4>1. Tail(q) # <<>> /\ N >= 2 /\ 1 \in 1 .. N - 1 /\ 2 \in 1 .. N
          BY <1>1, <1>3, <1>4
        <4>2. x.response = Tail(q)[1] /\ Tail(q)[1] = q[2]
          BY <1>3, <1>4, <4>1
        <4> QED BY <1>s, <4>1, <4>2
      <3>2. e[2] = e[1] + q[2].stream_size /\ d[1] = e[2] - e[1] /\ e[1] \in Int
        BY <1>1, <2>0, <2>1, <3>1
      <3> QED BY <3>1, <3>2
    <2>4. ASSUME NEW j \in 2 .. N - 1
          PROVE  d[j] = d[j - 1] + x.response_queue[j].stream_size
      <3>1. /\ x.response_queue[j] = q[j + 1] /\ q[j + 1].stream_size \in Nat
        <4>1. j + 1 \in 1 .. N /\ j \in 1 .. N - 1
          BY <1>1
        <4> QED BY <1>s, <1>3, <1>4, <4>1
      <3>2. /\ d[j] = e[j + 1] - e[1] /\ d[j - 1] = e[j] - e[1]
            /\ e[j + 1] = e[j] + q[j + 1].stream_size
            /\ e[j] \in Int /\ e[1] \in Int
        <4>1. /\ j \in 0 .. N - 1 /\ j - 1 \in 0 .. N - 1 /\ (j - 1) + 1 = j
              /\ j + 1 \in 2 .. N /\ (j + 1) - 1 = j /\ j \in 0 .. N /\ 1 \in 0 .. N
          BY <1>1
        <4> HIDE DEF N, q
        <4> QED BY <2>0, <2>1, <4>1
      <3> QED BY <3>1, <3>2
    <2>5. LaidOut(d, x, total - size)
      BY <1>3, <1>4, <2>2, <2>3, <2>4 DEF LaidOut
    <2> QED BY <2>1, <2>5
  <1>8. x.response_count = Len(x.response_queue) /\ DOMAIN x.response_queue = 1 .. N - 1
    BY <1>3, <1>4
  <1>9. Described(x, total - size)
    BY <1>3, <1>4, <1>5, <1>6, <1>7, <1>8 DEF Described
  <1> QED BY <1>9 DEF x

(* What is sent of a response that is not sent completely comes off it. *)
LEMMA PartDescribed ==
  ASSUME NEW c \in Client, NEW total \in Int, Described(c, total),
         NEW n \in Nat, n < c.response.stream_size, NEW x,
         x.response = [c.response EXCEPT !.stream_size = @ - n],
         x.response_queue = c.response_queue, x.response_count = c.response_count
  PROVE  Described(x, total - n)
  <1> DEFINE q == c.response_queue
             N == Len(q)
             size == c.response.stream_size
  <1>1. /\ q \in Seq(Responses) /\ N \in Nat /\ c.response_count = N
        /\ c.response \in Responses /\ size \in Nat
    BY Fields DEF Described, Responses
  <1>s. \A j \in 1 .. N : q[j].stream_size \in Nat
    <2>1. \A j \in 1 .. N : q[j] \in Responses
      BY <1>1
    <2> QED BY <2>1 DEF Responses
  <1>2. q # <<>> /\ N >= 1
    <2>1. q # <<>>
      BY <1>1 DEF Described
    <2> QED BY <1>1, <2>1
  <1>3. x.response.stream_size = size - n /\ x.response.keep_alive = c.response.keep_alive
    BY <1>1 DEF Responses
  <1>4. PICK e \in [0 .. N -> Int] : LaidOut(e, c, total)
    BY DEF Described
  <1>5. /\ x.response.stream_size \in 1 .. q[1].stream_size
        /\ x.response.keep_alive = q[1].keep_alive
    <2>1. size \in 1 .. q[1].stream_size /\ c.response.keep_alive = q[1].keep_alive
      BY <1>2 DEF Described
    <2>2. q[1].stream_size \in Nat
      BY <1>s, <1>1, <1>2
    <2> QED BY <1>1, <1>3, <2>1, <2>2
  <1>6. \E d \in [0 .. N -> Int] : LaidOut(d, x, total - n)
    <2> DEFINE d == [j \in 0 .. N |-> IF j = 0 THEN 0 ELSE e[j] - n]
    <2>0. e[1] = size /\ e[N] = total /\ \A j \in 2 .. N : e[j] = e[j - 1] + q[j].stream_size
      BY <1>2, <1>4 DEF LaidOut
    <2>1. d \in [0 .. N -> Int] /\ d[0] = 0 /\ \A j \in 1 .. N : d[j] = e[j] - n
      BY <1>1
    <2> HIDE DEF d
    <2>2. d[N] = total - n /\ d[1] = x.response.stream_size
      <3>1. N \in 1 .. N /\ 1 \in 1 .. N
        BY <1>1, <1>2
      <3> HIDE DEF N, size
      <3> QED BY <1>3, <2>0, <2>1, <3>1
    <2>3. ASSUME NEW j \in 2 .. N PROVE d[j] = d[j - 1] + q[j].stream_size
      <3>1. q[j].stream_size \in Nat
        BY <1>s, <1>1
      <3>2. /\ d[j] = e[j] - n /\ d[j - 1] = e[j - 1] - n
            /\ e[j] = e[j - 1] + q[j].stream_size /\ e[j - 1] \in Int
        BY <1>1, <2>0, <2>1
      <3> QED BY <3>1, <3>2
    <2>4. LaidOut(d, x, total - n)
      BY <2>1, <2>2, <2>3 DEF LaidOut
    <2> QED BY <2>1, <2>4
  <1> QED BY <1>1, <1>2, <1>5, <1>6 DEF Described

(* Bytes taken from the front of what is pending continue the wire. *)
LEMMA SentNumbered ==
  ASSUME IInv, FlowInv, pc \in VisitPcs, ~orphaned, cur \in Alive,
         NEW n \in 0 .. Len(Pending(cur)), NEW w, w = wire[client.conn]
  PROVE  LET t == Taken(Pending(cur), n)
             s == Rest(Pending(cur), n)
         IN  /\ t \in Seq(Message) /\ s \in Seq(Message)
             /\ Len(w \o t) = Len(w) + n /\ Len(s) = Len(Pending(cur)) - n
             /\ Numbered(w \o t, client.conn, 0)
             /\ Numbered(s, client.conn, Len(w \o t))
             /\ Len(w \o t) + Len(s) = issued[client.conn]
             /\ Len(s) < MAX_RESPONSE_STREAM_SIZE + MaxResponse
             /\ Len(w \o t) <= issued[client.conn]
  <1> DEFINE p == Pending(cur)
             t == Taken(p, n)
             s == Rest(p, n)
             k == client.conn
  <1>1. p \in Seq(Message) /\ w \in Seq(Message) /\ n \in Nat /\ k \in Conns /\ issued[k] \in Nat
    BY Visited, PendingType DEF HistoryOK
  <1>2. /\ Numbered(w, k, 0) /\ Numbered(p, k, Len(w)) /\ Len(w) + Len(p) = issued[k]
        /\ Len(p) < MAX_RESPONSE_STREAM_SIZE + MaxResponse
    BY VisitedFlow DEF OutputOK, client
  <1>3. /\ t \in Seq(Message) /\ s \in Seq(Message) /\ Len(t) = n /\ Len(s) = Len(p) - n
        /\ t \o s = p
    BY <1>1, TakenRest
  <1> HIDE DEF t, s, p, k
  <1>4. Len(w \o t) = Len(w) + n /\ w \o t \in Seq(Message)
    <2>1. w \o t \in Seq(Message) /\ Len(w \o t) = Len(w) + Len(t)
      BY <1>1, <1>3, ConcatProperties
    <2> QED BY <1>3, <2>1
  <1>5. Numbered(t, k, Len(w)) /\ Numbered(s, k, Len(w) + n)
    <2>1. Len(w) \in Nat
      BY <1>1
    <2> QED BY <1>2, <1>3, <2>1, NumberedConcat
  <1>6. Numbered(w \o t, k, 0)
    <2>1. 0 + Len(w) = Len(w) /\ 0 \in Nat
      BY <1>1
    <2> QED BY <1>1, <1>2, <1>3, <1>5, <2>1, NumberedConcat
  <1>7. /\ Len(w \o t) + Len(s) = issued[k]
        /\ Len(s) < MAX_RESPONSE_STREAM_SIZE + MaxResponse
        /\ Len(w \o t) <= issued[k]
    <2>1. n \in 0 .. Len(p) /\ Len(p) \in Nat /\ Len(w) \in Nat
      BY <1>1 DEF p
    <2> QED BY SMTT(30), <1>2, <1>3, <1>4, <2>1, ServerAssumption
  <1>8. Numbered(s, k, Len(w \o t))
    BY <1>4, <1>5
  <1> QED BY <1>3, <1>4, <1>6, <1>7, <1>8 DEF t, s, p, k

(* A step that sends the first n pending bytes of the visited client. *)
LEMMA SentFlow ==
  ASSUME IInv, FlowInv, IInv', pc \in VisitPcs, cur \in Alive, sent = 0,
         pc' \in {"pop_short", "pop_long"}, cur' = cur, todo' = todo, done' = TRUE,
         UNCHANGED <<issued, outcome, orphaned>>,
         DOMAIN clients' = DOMAIN clients, SameBut(clients'[cur], client),
         NEW u \in Seq(Message), wire' = ToWire(u),
         \A i \in DOMAIN clients \ {cur} :
           SameBut(clients'[i], clients[i]) /\ Pending(i)' = Pending(i),
         ~orphaned =>
           /\ sent' \in 0 .. Len(Pending(cur))
           /\ u = Taken(Pending(cur), sent') /\ Pending(cur)' = Rest(Pending(cur), sent')
           /\ OwnerOK'
  PROVE  FlowInv'
  <1>a. PICK v : v = cur
    OBVIOUS
  <1>b. PICK k : k = client.conn
    OBVIOUS
  <1>c. PICK w : w = wire[client.conn]
    OBVIOUS
  <1>0. /\ v = cur /\ k = client.conn /\ k \in Conns /\ v \in DOMAIN clients
        /\ clients[v] = client /\ v # 0 /\ ~client.dead
        /\ wire \in [Conns -> Seq(Message)] /\ w = wire[k]
    BY <1>a, <1>b, <1>c, Visited, VisitedFlow DEF client, HistoryOK
  <1>1. wire' = [wire EXCEPT ![k] = w \o u] /\ clients'[v].conn = k /\ ~clients'[v].dead
    BY <1>0 DEF ToWire, SameBut
  <1>2. Frame
    <2>1. \A d \in Conns \ {client.conn} :
            wire'[d] = wire[d] /\ issued'[d] = issued[d] /\ outcome'[d] = outcome[d]
      BY <1>0, <1>1
    <2>2. clients'[cur].conn = client.conn
      BY <1>0, <1>1
    <2> QED BY <2>1, <2>2 DEF Frame, VisitPcs
  <1>3. Round'
    <2>1. v \in Alive'
      BY <1>0, <1>1 DEF Alive
    <2> QED BY <1>0, <2>1 DEF Round
  <1>4. outcome'[k] = "open"
    BY <1>0, VisitedFlow
  <1>5. InputOK(v)'
    BY <1>0, VisitedFlow DEF InputOK, SameBut
  <1>6. ASSUME ~orphaned'
        PROVE  /\ OwnerOK' /\ pc' # "panic" /\ pc' # "next" /\ WireOK(k)'
               /\ OutputOK(v)' /\ MetadataOK(v)' /\ EndOK(v)'
    <2>0. /\ ~orphaned /\ OwnerOK' /\ pc' # "panic" /\ pc' # "next"
          /\ sent' \in 0 .. Len(Pending(v))
          /\ u = Taken(Pending(v), sent') /\ Pending(v)' = Rest(Pending(v), sent')
      BY <1>0, <1>6
    <2>1. WireOK(k)'
      BY <1>4 DEF WireOK
    <2>2. PICK n \in 0 .. Len(Pending(v)) : n = sent'
      BY <2>0
    <2> DEFINE s == Rest(Pending(v), n)
    <2>3. /\ Len(w \o u) = Len(w) + n /\ Len(s) = Len(Pending(v)) - n
          /\ Numbered(w \o u, k, 0)
          /\ Numbered(s, k, Len(w \o u))
          /\ Len(w \o u) + Len(s) = issued[k]
          /\ Len(s) < MAX_RESPONSE_STREAM_SIZE + MaxResponse
      BY <1>0, <2>0, <2>2, SentNumbered
    <2>4. Pending(v)' = s /\ wire'[k] = w \o u
      BY <1>0, <1>1, <2>0, <2>2
    <2> HIDE DEF s
    <2>5. OutputOK(v)'
      BY <1>1, <2>3, <2>4 DEF OutputOK, Numbered, Unit
    <2>6. MetadataOK(v)'
      <3>1. Described(client, Len(Pending(v)) + 0)
        BY <1>0, <2>0, VisitedFlow DEF MetadataOK, client
      <3>2. Described(clients'[v], Len(Pending(v)) + 0)
        <4>1. /\ clients'[v].response = client.response
              /\ clients'[v].response_queue = client.response_queue
              /\ clients'[v].response_count = client.response_count
          BY <1>0 DEF SameBut
        <4> QED BY <3>1, <4>1 DEF Described, LaidOut
      <3>3. Len(Pending(v)) + 0 = Len(Pending(v)') + (IF v = cur' THEN sent' ELSE 0)
        <4>1. Len(Pending(v)) \in Nat
          BY <1>0, PendingType
        <4> QED BY <1>0, <2>2, <2>3, <2>4, <4>1
      <3>4. Described(clients'[v], Len(Pending(v)') + (IF v = cur' THEN sent' ELSE 0))
        BY <3>2, <3>3
      <3> QED BY <3>4 DEF MetadataOK
    <2>7. EndOK(v)'
      BY <1>0 DEF EndOK
    <2> QED BY <2>0, <2>1, <2>5, <2>6, <2>7
  <1> QED BY <1>0, <1>1, <1>2, <1>3, <1>4, <1>5, <1>6, FlowStep

(* The wire stays a function of connections when messages are sent. *)
LEMMA ToWireFlow ==
  ASSUME IInv, pc \in VisitPcs, NEW u \in Seq(Message)
  PROVE  /\ ToWire(u) \in [Conns -> Seq(Message)]
         /\ ToWire(u)[client.conn] = wire[client.conn] \o u
         /\ \A c \in Conns \ {client.conn} : ToWire(u)[c] = wire[c]
  <1>1. wire \in [Conns -> Seq(Message)] /\ client.conn \in Conns
    BY Visited DEF HistoryOK
  <1>2. wire[client.conn] \o u \in Seq(Message)
    BY <1>1
  <1> QED BY <1>1, <1>2 DEF ToWire

(* Sending from the short buffer. *)
LEMMA SendShortFlow ==
  ASSUME IInv, FlowInv, IInv', NEW k \in 0 .. Len(g_short),
         server_send_short_response_stream(k) \/ server_send_short_failed(k)
  PROVE  FlowInv'
  <1>1. pc \in VisitPcs /\ pc = "send" /\ MaySend /\ owner = cur /\ sent = 0 /\ g_short' = Rest(g_short, k)
    BY VisitedFlow
    DEF server_send_short_response_stream, server_send_short_failed, MaySend, VisitPcs, Round
  <1>2. /\ cur \in Alive /\ cur \in DOMAIN clients /\ cur # 0 /\ clients[cur] = client
        /\ client \in Client /\ g_short \in Seq(Message)
    BY <1>1, OnlyTheLiving, Visited, VisitedFlow DEF client
  <1> DEFINE u == Taken(g_short, k)
  <1>3. /\ u \in Seq(Message) /\ Rest(g_short, k) \in Seq(Message)
        /\ Len(Rest(g_short, k)) = Len(g_short) - k
    BY <1>2, TakenRest
  <1>4. CASE server_send_short_response_stream(k)
    <2>1. /\ owner' = (IF k = Len(g_short) THEN 0 ELSE owner) /\ wire' = ToWire(u)
          /\ sent' = k /\ done' = TRUE /\ pc' = "pop_short" /\ cur' = cur /\ todo' = todo
          /\ UNCHANGED <<clients, issued, outcome, orphaned>>
      BY <1>4 DEF server_send_short_response_stream, Goto
    <2>2. \A i \in DOMAIN clients \ {cur} :
            SameBut(clients'[i], clients[i]) /\ Pending(i)' = Pending(i)
      <3>0. clients \in Seq(Client)
        BY <1>1, Visited
      <3>1. ASSUME NEW i \in DOMAIN clients \ {cur} PROVE i # owner /\ i # owner'
        BY <1>1, <2>1, <3>0
      <3> QED BY <2>1, <3>1 DEF SameBut, Pending
    <2>3. ASSUME ~orphaned
          PROVE  /\ Pending(cur) = g_short /\ Pending(cur)' = Rest(g_short, k)
                 /\ OwnerOK'
      <3>1. client.response_stream = <<>> /\ g_short # <<>>
        BY <1>1, <1>2, <2>3, VisitedFlow DEF OwnerOK
      <3>2. Pending(cur) = g_short
        BY <1>1, <1>2, <3>1 DEF Pending
      <3>3. CASE k = Len(g_short)
        <4>1. Rest(g_short, k) = <<>> /\ owner' = 0
          BY <1>3, <2>1, <3>3
        <4> QED BY <1>1, <1>2, <2>1, <3>1, <3>2, <4>1 DEF Pending, OwnerOK
      <3>4. CASE k # Len(g_short)
        <4>1. Rest(g_short, k) # <<>> /\ owner' = cur
          BY <1>1, <1>2, <1>3, <2>1, <3>4
        <4>2. Pending(cur)' = Rest(g_short, k)
          <5>1. Pending(cur)' = Rest(g_short, k) \o <<>>
            BY <1>1, <1>2, <2>1, <3>1, <4>1 DEF Pending
          <5> QED BY <1>3, <5>1
        <4>3. OwnerOK'
          BY <1>1, <1>2, <2>1, <3>1, <4>1 DEF OwnerOK, Alive
        <4> QED BY <3>2, <4>2, <4>3
      <3> QED BY <3>3, <3>4
    <2>4. SameBut(clients'[cur], client) /\ DOMAIN clients' = DOMAIN clients
      BY <1>2, <2>1 DEF SameBut
    <2> QED BY <1>1, <1>2, <1>3, <2>1, <2>2, <2>3, <2>4, SentFlow
  <1>5. CASE server_send_short_failed(k)
    <2>1. Failure(clients, owner, ToWire(u), FALSE, "next") /\ issued' = issued /\ orphaned'
      BY <1>1, <1>5 DEF server_send_short_failed, Failure
    <2>2. \A i \in DOMAIN clients \ {cur} : SameBut(clients[i], clients[i])
      BY DEF SameBut
    <2>3. /\ ToWire(u) \in [Conns -> Seq(Message)]
          /\ \A c \in Conns \ {client.conn} : ToWire(u)[c] = wire[c]
      BY <1>1, <1>3, ToWireFlow
    <2> HIDE DEF u
    <2> QED BY <1>1, <1>2, <2>1, <2>2, <2>3, FailureFlow
  <1> QED BY <1>4, <1>5

(* Sending from the client's own stream. *)
LEMMA SendLongFlow ==
  ASSUME IInv, FlowInv, IInv', NEW k \in Nat,
         server_send_long_output_buffer(k) \/ server_send_long_failed(k)
  PROVE  FlowInv'
  <1>1. /\ pc \in VisitPcs /\ pc \in {"send", "long"} /\ MaySendLong /\ sent = 0
        /\ g_short' = g_short /\ k <= Len(client.response_stream)
    <2>1. pc \in {"send", "long"} /\ MaySendLong /\ g_short' = g_short
      BY DEF server_send_long_output_buffer, server_send_long_failed, MaySendLong, MaySend, Failure
    <2>2. pc \in VisitPcs
      BY <2>1 DEF VisitPcs
    <2>3. client.response_stream \in Seq(Message)
      BY <2>2, Visited, Fields
    <2>4. k <= Len(client.response_stream)
      <3>1. k <= Len(client.response_stream) \/ k < Len(client.response_stream)
        BY DEF server_send_long_output_buffer, server_send_long_failed
      <3> QED BY <2>3, <3>1
    <2> QED BY <2>1, <2>2, <2>4, VisitedFlow DEF Round
  <1>2. /\ cur \in Alive /\ cur \in DOMAIN clients /\ cur # 0 /\ clients[cur] = client
        /\ client \in Client /\ client.response_stream \in Seq(Message) /\ clients \in Seq(Client)
    BY <1>1, OnlyTheLiving, Visited, VisitedFlow, Fields DEF client
  <1> DEFINE s == client.response_stream
             u == Taken(s, k)
  <1>3. k \in 0 .. Len(s) /\ u \in Seq(Message) /\ Rest(s, k) \in Seq(Message)
    <2>1. k \in 0 .. Len(s)
      BY <1>1, <1>2
    <2> QED BY <1>2, <2>1, TakenRest
  <1>4. ~orphaned => owner # cur /\ Pending(cur) = s /\ OwnerOK
    <2> SUFFICES ASSUME ~orphaned PROVE owner # cur /\ Pending(cur) = s /\ OwnerOK
      OBVIOUS
    <2>1. OwnerOK
      BY <1>1, VisitedFlow
    <2>2. owner # cur
      BY <1>1, <1>2, <2>1 DEF MaySendLong, OwnerOK
    <2> QED BY <1>2, <2>1, <2>2, PendingType
  <1>5. CASE server_send_long_output_buffer(k)
    <2> DEFINE x == [client EXCEPT !.response_stream = Rest(s, k)]
    <2>1. /\ clients' = [clients EXCEPT ![cur] = x]
      BY <1>5, Zenon DEF server_send_long_output_buffer, client
    <2>2. /\ owner' = owner /\ wire' = ToWire(u)
          /\ sent' = k /\ done' = TRUE /\ pc' = "pop_long" /\ cur' = cur /\ todo' = todo
          /\ UNCHANGED <<issued, outcome, orphaned>>
      BY <1>5 DEF server_send_long_output_buffer, Goto
    <2>3. SameBut(x, client) /\ x.response_stream = Rest(s, k)
      BY <1>2 DEF SameBut, Client
    <2> HIDE DEF x
    <2>4. /\ DOMAIN clients' = DOMAIN clients /\ clients'[cur] = x
          /\ \A i \in DOMAIN clients : i # cur => clients'[i] = clients[i]
      BY <1>2, <2>1
    <2>5. \A i \in DOMAIN clients \ {cur} :
            SameBut(clients'[i], clients[i]) /\ Pending(i)' = Pending(i)
      BY <1>1, <2>2, <2>4 DEF SameBut, Pending
    <2>6. ASSUME ~orphaned PROVE Pending(cur)' = Rest(s, k) /\ OwnerOK'
      <3>1. Pending(cur)' = <<>> \o Rest(s, k)
        BY <1>4, <2>2, <2>3, <2>4, <2>6 DEF Pending
      <3>2. owner \in Alive => owner \in Alive' /\ clients'[owner] = clients[owner]
        BY <1>4, <2>4, <2>6 DEF Alive
      <3> QED BY <1>1, <1>3, <1>4, <2>2, <2>6, <3>1, <3>2 DEF OwnerOK
    <2>7. SameBut(clients'[cur], client)
      BY <2>3, <2>4
    <2> HIDE DEF s
    <2> QED BY <1>1, <1>2, <1>3, <1>4, <2>2, <2>4, <2>5, <2>6, <2>7, SentFlow
  <1>6. CASE server_send_long_failed(k)
    <2>1. Failure(clients, owner, ToWire(u), FALSE, "next") /\ issued' = issued
      BY <1>6 DEF server_send_long_failed
    <2>2. \A i \in DOMAIN clients \ {cur} :
            /\ SameBut(clients[i], clients[i])
            /\ (IF i = owner THEN g_short' ELSE <<>>) \o clients[i].response_stream = Pending(i)
      BY <1>1 DEF SameBut, Pending
    <2>3. /\ ToWire(u) \in [Conns -> Seq(Message)]
          /\ ToWire(u)[client.conn] = wire[client.conn] \o u
          /\ \A c \in Conns \ {client.conn} : ToWire(u)[c] = wire[c]
      BY <1>1, <1>3, ToWireFlow
    <2>4. ASSUME ~orphaned'
          PROVE  /\ Numbered(ToWire(u)[client.conn], client.conn, 0)
                 /\ Len(ToWire(u)[client.conn]) <= issued[client.conn]
                 /\ \/ owner = 0 /\ g_short' = <<>>
                    \/ owner \in Alive /\ g_short' # <<>> /\ clients[owner].response_stream = <<>>
      <3>1. ~orphaned
        BY <2>1, <2>4 DEF Failure
      <3>2. /\ Numbered(wire[client.conn] \o u, client.conn, 0)
            /\ Len(wire[client.conn] \o u) <= issued[client.conn]
        BY <1>1, <1>2, <1>3, <1>4, <3>1, SentNumbered
      <3> QED BY <1>1, <1>4, <2>3, <3>1, <3>2 DEF OwnerOK
    <2> HIDE DEF u
    <2> QED BY <1>1, <1>2, <2>1, <2>2, <2>3, <2>4, FailureFlow
  <1> QED BY <1>5, <1>6

(* server_pop_responses. *)
LEMMA PopFlow ==
  ASSUME IInv, FlowInv, IInv', server_pop_responses
  PROVE  FlowInv'
  <1>1. /\ pc \in VisitPcs /\ pc \in {"pop_short", "pop_long"} /\ sent > 0 /\ sent \in Nat
        /\ g_short' = g_short
    BY Visited DEF server_pop_responses, VisitPcs
  <1>2. /\ cur \in Alive /\ cur \in DOMAIN clients /\ cur # 0 /\ clients[cur] = client
        /\ client \in Client /\ ~client.dead
        /\ client.response \in Responses /\ client.response.stream_size \in Nat
        /\ Pending(cur) \in Seq(Message) /\ Len(Pending(cur)) \in Nat
    BY <1>1, OnlyTheLiving, Visited, VisitedFlow, PendingType, Fields DEF client, Responses
  <1>3. ~orphaned => Described(client, Len(Pending(cur)) + sent)
    BY <1>1, <1>2, VisitedFlow DEF MetadataOK
  <1>4. ASSUME NEW x \in Client, clients' = [clients EXCEPT ![cur] = x],
               x.conn = client.conn, x.dead = client.dead, x.parser = client.parser,
               x.request_stream = client.request_stream, x.request_size = client.request_size,
               x.response_stream = client.response_stream,
               UNCHANGED <<owner, pc, index, refuse, todo, cur, flags, done, history>>,
               ~orphaned => Described(x, Len(Pending(cur)) + sent')
        PROVE  FlowInv'
    <2>1. Round'
      <3>1. cur \in Alive'
        BY <1>2, <1>4 DEF Alive
      <3>2. done
        BY <1>1, VisitedFlow DEF Round
      <3> QED BY <1>1, <1>4, <3>1, <3>2 DEF Round
    <2>2. InputOK(cur)
      BY <1>1, <1>2, VisitedFlow
    <2>3. /\ Len(x.request_stream) <= MAX_REQUEST_STREAM_SIZE
          /\ x.parser # "end" => x.request_size <= Len(x.request_stream)
      BY <1>2, <1>4, <2>2 DEF InputOK
    <2>4. UNCHANGED <<wire, issued, outcome, orphaned>>
      BY <1>4 DEF history
    <2>5. (IF cur = cur' THEN sent' ELSE 0) = sent'
      BY <1>4
    <2> QED BY <1>1, <1>4, <2>1, <2>3, <2>4, <2>5, ClientFlow
  <1>5. CASE /\ client.response_queue # <<>>
             /\ clients' = [clients EXCEPT ![cur] = Popped(@)]
             /\ sent' = sent - client.response.stream_size
             /\ UNCHANGED <<owner, pc, index, refuse, todo, cur, flags, done, history>>
    <2> DEFINE x == Popped(client)
    <2>1. x \in Client
      BY <1>2, <1>5, PoppedType
    <2>2. clients' = [clients EXCEPT ![cur] = x]
      BY <1>2, <1>5
    <2>3. /\ x.conn = client.conn /\ x.dead = client.dead /\ x.parser = client.parser
          /\ x.request_stream = client.request_stream /\ x.request_size = client.request_size
          /\ x.response_stream = client.response_stream
      BY <1>2 DEF Popped, Client
    <2>4. ASSUME ~orphaned PROVE Described(x, Len(Pending(cur)) + sent')
      <3>1. PICK total \in Int : total = Len(Pending(cur)) + sent
        BY <1>1, <1>2
      <3>2. Described(client, total)
        BY <1>3, <2>4, <3>1
      <3>3. Described(x, total - client.response.stream_size)
        BY <1>2, <1>5, <3>2, PoppedDescribed
      <3>4. total - client.response.stream_size = Len(Pending(cur)) + sent'
        BY <1>1, <1>2, <1>5, <3>1
      <3> QED BY <3>3, <3>4
    <2> HIDE DEF x
    <2> QED BY <1>4, <1>5, <2>1, <2>2, <2>3, <2>4
  <1>6. CASE /\ client.response_queue = <<>>
             /\ Failure(clients, owner, wire, FALSE, "panic")
             /\ UNCHANGED <<received, issued, closing>>
    <2>1. orphaned'
      <3>1. ASSUME ~orphaned PROVE FALSE
        <4>1. PICK e \in [0 .. Len(client.response_queue) -> Int] :
                LaidOut(e, client, Len(Pending(cur)) + sent)
          BY <1>3, <3>1 DEF Described
        <4>2. e[0] = 0 /\ e[0] = Len(Pending(cur)) + sent
          BY <1>6, <4>1 DEF LaidOut
        <4> QED BY <1>1, <1>2, <4>2
      <3> QED BY <1>6, <3>1 DEF Failure
    <2>2. \A i \in DOMAIN clients \ {cur} : SameBut(clients[i], clients[i])
      BY DEF SameBut
    <2>3. wire \in [Conns -> Seq(Message)] /\ issued' = issued
      BY <1>1, <1>6, Visited DEF HistoryOK
    <2> QED BY <1>1, <1>2, <1>6, <2>1, <2>2, <2>3, FailureFlow
  <1>7. CASE /\ sent < client.response.stream_size
             /\ clients' = [clients EXCEPT ![cur].response.stream_size = @ - sent]
             /\ sent' = 0
             /\ UNCHANGED <<owner, pc, index, refuse, todo, cur, flags, done, history>>
    <2> DEFINE r == [client.response EXCEPT !.stream_size = @ - sent]
               x == [client EXCEPT !.response = r]
    <2>1. r \in Responses
      <3>1. client.response.stream_size - sent \in Nat
        BY <1>1, <1>2, <1>7
      <3> QED BY <1>2, <3>1 DEF Responses
    <2>2. clients' = [clients EXCEPT ![cur] = x]
      BY <1>7, Zenon DEF client
    <2> HIDE DEF r
    <2>3. x \in Client
      BY <1>2, <2>1, UpdateType
    <2>4. /\ x.conn = client.conn /\ x.dead = client.dead /\ x.parser = client.parser
          /\ x.request_stream = client.request_stream /\ x.request_size = client.request_size
          /\ x.response_stream = client.response_stream
          /\ x.response_queue = client.response_queue /\ x.response_count = client.response_count
          /\ x.response = r
      BY <1>2 DEF Client
    <2> HIDE DEF x
    <2>5. ASSUME ~orphaned PROVE Described(x, Len(Pending(cur)) + sent')
      <3>1. PICK total \in Int : total = Len(Pending(cur)) + sent
        BY <1>1, <1>2
      <3>2. Described(client, total) /\ x.response = [client.response EXCEPT !.stream_size = @ - sent]
        BY <1>3, <2>4, <2>5, <3>1 DEF r
      <3>3. Described(x, total - sent)
        BY <1>1, <1>2, <1>7, <2>4, <3>2, PartDescribed
      <3>4. total - sent = Len(Pending(cur)) + sent'
        BY <1>1, <1>2, <1>7, <3>1
      <3> QED BY <3>3, <3>4
    <2> QED BY <1>4, <1>7, <2>2, <2>3, <2>4, <2>5
  <1> QED BY <1>5, <1>6, <1>7 DEF server_pop_responses

(* The end of a round: the connection is closed, or waits for the next. *)
LEMMA AfterSendFlow ==
  ASSUME IInv, FlowInv, IInv', AfterSend
  PROVE  FlowInv'
  <1>1. pc \in VisitPcs /\ pc = "sent" /\ g_short' = g_short /\ sent = 0
    BY VisitedFlow DEF AfterSend, VisitPcs, Round
  <1>2. cur \in Alive /\ cur \in DOMAIN clients /\ clients[cur] = client /\ client \in Client
    BY <1>1, OnlyTheLiving, Visited DEF client
  <1>3. CASE ~AllSent /\ Goto("wait") /\ UNCHANGED <<clients, owner, flags, done, sent, history>>
    BY <1>1, <1>3, IdleFlow
  <1>4. CASE /\ AllSent /\ CloseServed(clients)
             /\ UNCHANGED <<owner, flags, sent, wire, received, issued, closing>>
    <2>1. client_response_stream_size(cur) = 0 /\ client.parser = "end"
      BY <1>4 DEF AllSent
    <2> QED BY <1>1, <1>2, <1>4, <2>1, CloseServedFlow
  <1>5. CASE Failure(clients, owner, wire, FALSE, "next") /\ UNCHANGED <<received, issued, closing>>
    <2>1. FailHere(FALSE)
      BY <1>1, <1>5 DEF FailHere
    <2> QED BY <1>1, <1>2, <2>1, FailHereFlow
  <1> QED BY <1>3, <1>4, <1>5 DEF AfterSend

(* The end of a visit: poll() is asked for what the client waits for. *)
LEMMA PrepareFlow ==
  ASSUME IInv, FlowInv, IInv', PrepareToWait
  PROVE  FlowInv'
  <1>1. pc \in VisitPcs /\ pc = "wait" /\ ~done /\ sent = 0
    BY VisitedFlow DEF PrepareToWait, VisitPcs, Round
  <1>2. /\ cur \in DOMAIN clients /\ clients[cur] = client /\ client \in Client
        /\ client.request_stream \in Seq(Bytes) /\ client.request_size \in Nat
    BY <1>1, Visited, Fields DEF client
  <1> DEFINE e == (IF get_makes_sense_to_receive(cur) THEN {"in"} ELSE {})
                  \cup (IF get_makes_sense_to_send(cur) THEN {"out"} ELSE {})
             x == [client EXCEPT !.events = e]
  <1>3. e \in SUBSET {"in", "out"}
    OBVIOUS
  <1>4. clients' = [clients EXCEPT ![cur] = x]
    BY Zenon DEF PrepareToWait, client
  <1>5. /\ pc' = "next" /\ cur' = 0 /\ sent' = 0 /\ todo' = todo
        /\ UNCHANGED <<g_short, owner, wire, issued, outcome, orphaned>>
    BY DEF PrepareToWait, Leave, history
  <1>6. ~orphaned /\ ~client.dead =>
          /\ client.parser = "end" => Pending(cur) # <<>>
          /\ IF Pending(cur) # <<>> THEN "out" \in e
             ELSE "in" \in e /\ client.request_size = Len(client.request_stream)
    <2> SUFFICES ASSUME ~orphaned, ~client.dead
                 PROVE  /\ client.parser = "end" => Pending(cur) # <<>>
                        /\ IF Pending(cur) # <<>> THEN "out" \in e
                           ELSE "in" \in e /\ client.request_size = Len(client.request_stream)
      OBVIOUS
    <2>1. EndOK(cur) /\ InputOK(cur) /\ Round
      BY <1>1, VisitedFlow
    <2>2. client.parser = "end" => Pending(cur) # <<>>
      BY <1>1, <1>2, <2>1 DEF EndOK
    <2>3. /\ client_response_stream_size(cur) = Len(Pending(cur)) /\ Pending(cur) \in Seq(Message)
      BY <1>2, PendingType
    <2>4. CASE Pending(cur) # <<>>
      <3>1. get_makes_sense_to_send(cur)
        BY <2>3, <2>4 DEF get_makes_sense_to_send
      <3> QED BY <2>2, <2>4, <3>1
    <2>5. CASE Pending(cur) = <<>>
      <3>1. client.parser # "end" /\ client_response_stream_size(cur) = 0
        BY <2>2, <2>3, <2>5
      <3>2. 0 < MAX_RESPONSE_STREAM_SIZE
        BY ServerAssumption
      <3>3. get_makes_sense_to_receive(cur)
        BY <1>2, <3>1, <3>2 DEF get_makes_sense_to_receive
      <3>4. ~get_makes_sense_to_parse(cur)
        BY <1>1, <2>1 DEF Round
      <3>5. ~(Len(client.request_stream) > client.request_size)
        BY <1>2, <3>1, <3>2, <3>4 DEF get_makes_sense_to_parse
      <3>6. client.request_size <= Len(client.request_stream)
        BY <1>2, <2>1, <3>1 DEF InputOK
      <3> QED BY <1>2, <2>5, <3>1, <3>3, <3>5, <3>6
    <2> QED BY <2>4, <2>5
  <1> HIDE DEF e
  <1>7. x \in Client
    BY <1>2, <1>3, UpdateType
  <1>8. /\ x.conn = client.conn /\ x.dead = client.dead /\ x.parser = client.parser
        /\ x.request_stream = client.request_stream /\ x.request_size = client.request_size
        /\ x.response_stream = client.response_stream /\ x.response = client.response
        /\ x.response_queue = client.response_queue /\ x.response_count = client.response_count
        /\ x.events = e
    BY <1>2 DEF Client
  <1> HIDE DEF x
  <1>9. Round'
    BY <1>5 DEF Round
  <1>10. ~x.dead =>
           /\ Len(x.request_stream) <= MAX_REQUEST_STREAM_SIZE
           /\ x.parser # "end" => x.request_size <= Len(x.request_stream)
    BY <1>1, <1>2, <1>8, VisitedFlow DEF InputOK
  <1> QED BY <1>1, <1>4, <1>5, <1>6, <1>7, <1>8, <1>9, <1>10, InputFlow

------------------------------------------------------------------------------
(* The steps between visits.                                               *)

(* Between visits nobody is being visited and nothing is being popped. *)
LEMMA Between ==
  ASSUME IInv, FlowInv, pc \notin VisitPcs
  PROVE  /\ cur = 0 /\ sent = 0 /\ clients \in Seq(Client) /\ g_short \in Seq(Message)
         /\ 0 \notin DOMAIN clients /\ HistoryOK /\ Cycle
  <1>1. cur = 0 /\ clients \in Seq(Client) /\ g_short \in Seq(Message) /\ HistoryOK
    BY DEF IInv, TypeOK, Places, HistoryOK
  <1>2. sent = 0 /\ Cycle
    BY DEF FlowInv, Round, VisitPcs
  <1>3. 0 \notin DOMAIN clients
    BY <1>1
  <1> QED BY <1>1, <1>2, <1>3

(* A step that changes nothing but who is visited and who is to be. *)
LEMMA ControlFlow ==
  ASSUME IInv, FlowInv, pc \notin VisitPcs, pc' # "panic",
         UNCHANGED <<clients, g_short, owner, sent, history>>,
         Cycle', Round', ~orphaned => SettledOK'
  PROVE  FlowInv'
  <1>0. /\ cur = 0 /\ sent = 0 /\ 0 \notin DOMAIN clients
        /\ UNCHANGED <<wire, issued, outcome, orphaned>> /\ Conns' = Conns /\ Alive' = Alive
    BY Between DEF history, Conns, Alive
  <1>1. \A i : Pending(i)' = Pending(i)
    BY DEF Pending
  <1>2. Connections'
    BY <1>0 DEF FlowInv, Connections
  <1>3. \A i \in Alive' : InputOK(i)'
    BY <1>0 DEF FlowInv, InputOK
  <1>4. ASSUME ~orphaned' PROVE Streams'
    <2>0. Streams
      BY <1>0, <1>4 DEF FlowInv
    <2>1. OwnerOK'
      BY <1>0, <2>0 DEF Streams, OwnerOK
    <2>2. ASSUME NEW i \in Alive' PROVE OutputOK(i)' /\ MetadataOK(i)' /\ EndOK(i)'
      <3>0. i \in Alive /\ i # cur /\ OutputOK(i) /\ MetadataOK(i) /\ EndOK(i)
        BY <1>0, <2>0 DEF Streams, Alive
      <3>1. OutputOK(i)'
        BY <1>0, <1>1, <3>0 DEF OutputOK, Numbered, Unit
      <3>2. MetadataOK(i)'
        <4>1. (IF i = cur THEN sent ELSE 0) = (IF i = cur' THEN sent' ELSE 0)
          BY <1>0
        <4>2. Described(clients'[i], Len(Pending(i)') + (IF i = cur' THEN sent' ELSE 0))
          BY <1>1, <3>0, <4>1 DEF MetadataOK
        <4> QED BY <4>2 DEF MetadataOK
      <3>3. EndOK(i)'
        BY <1>1, <3>0 DEF EndOK
      <3> QED BY <3>1, <3>2, <3>3
    <2>3. ASSUME NEW c \in Conns PROVE WireOK(c)'
      <3>1. WireOK(c)
        BY <2>0 DEF Streams
      <3> QED BY <1>0, <3>1 DEF WireOK, Units, Unit, FixedResponse
    <2> QED BY <1>0, <1>4, <2>1, <2>2, <2>3 DEF Streams
  <1> QED BY <1>2, <1>3, <1>4 DEF FlowInv

(* The connections accepted so far are the first ones. *)
LEMMA AcceptedFlow ==
  ASSUME IInv, FlowInv
  PROVE  /\ Accepted \in 0 .. MaxConns
         /\ \A c \in Conns : outcome[c] # "new" <=> c <= Accepted
  <1>1. PICK a \in 0 .. MaxConns : \A c \in Conns : outcome[c] # "new" <=> c <= a
    BY DEF FlowInv, Connections
  <1>2. {c \in Conns : outcome[c] # "new"} = 1 .. a
    BY <1>1, ServerAssumption DEF Conns
  <1>3. a \in Nat /\ a \in Int
    BY ServerAssumption
  <1>4. Cardinality(1 .. a) = a
    <2>1. Cardinality(1 .. a) = IF 1 > a THEN 0 ELSE a - 1 + 1
      BY <1>3, FS_Interval
    <2> QED BY <1>3, <2>1
  <1> QED BY <1>1, <1>2, <1>4 DEF Accepted

(* A new client. *)
LEMMA AcceptFlow ==
  ASSUME IInv, FlowInv, IInv', pc = "accept", server_accept_connection,
         UNCHANGED <<pc, g_short, owner, todo, cur, sent, done, flags>>
  PROVE  FlowInv'
  <1> DEFINE c0 == Accepted + 1
             N == Len(clients)
             new == NewClient(c0)
  <1>0. /\ cur = 0 /\ sent = 0 /\ clients \in Seq(Client) /\ 0 \notin DOMAIN clients
        /\ HistoryOK /\ Cycle /\ g_short \in Seq(Message) /\ N \in Nat
        /\ DOMAIN clients = 1 .. N
    BY Between DEF VisitPcs
  <1>1. /\ c0 \in Conns /\ outcome[c0] = "new" /\ wire[c0] = <<>> /\ issued[c0] = 0
        /\ \A c \in Conns : outcome[c] # "new" <=> c <= Accepted
    <2>1. /\ Accepted \in 0 .. MaxConns /\ Accepted < MaxConns
          /\ \A c \in Conns : outcome[c] # "new" <=> c <= Accepted
      BY AcceptedFlow DEF server_accept_connection
    <2>2. c0 \in Conns /\ ~(c0 <= Accepted)
      BY <2>1, ServerAssumption DEF Conns
    <2>3. outcome[c0] = "new"
      BY <2>1, <2>2
    <2> QED BY <2>1, <2>2, <2>3 DEF FlowInv, Connections
  <1>a. Accepted \in Nat /\ Accepted + 1 <= MaxConns
    BY <1>1, AcceptedFlow, ServerAssumption DEF Conns
  <1>2. /\ clients' = Append(clients, new) /\ outcome' = [outcome EXCEPT ![c0] = "open"]
        /\ UNCHANGED <<wire, issued, orphaned>> /\ Conns' = Conns
    BY DEF server_accept_connection, Conns
  <1>3. /\ new.conn = c0 /\ new.dead = FALSE /\ new.request_stream = <<>>
        /\ new.request_size = 0 /\ new.parser = "begin" /\ new.response_stream = <<>>
        /\ new.response.stream_size = 0 /\ new.response_queue = <<>> /\ new.response_count = 0
    BY DEF NewClient, Response
  <1> HIDE DEF new, c0
  <1>4. PICK m : m = N + 1
    OBVIOUS
  <1>5. /\ DOMAIN clients' = DOMAIN clients \cup {m} /\ m \notin DOMAIN clients /\ m # 0
        /\ clients'[m] = new /\ \A i \in DOMAIN clients : clients'[i] = clients[i]
    BY <1>0, <1>2, <1>4
  <1>6. outcome'[c0] = "open" /\ \A c \in Conns : c # c0 => outcome'[c] = outcome[c]
    BY <1>0, <1>1, <1>2 DEF HistoryOK
  <1>7. \A i \in DOMAIN clients : clients[i].conn \in Conns /\ clients[i].conn # c0
    <2>1. ASSUME NEW i \in DOMAIN clients
          PROVE  clients[i].conn \in Conns /\ clients[i].conn # c0
      <3>1. clients[i].conn \in Conns /\ clients[i].dead \in BOOLEAN
        BY <1>0, Fields
      <3>2. outcome[clients[i].conn] # "new"
        BY DEF FlowInv, Connections
      <3> QED BY <1>1, <3>1, <3>2
    <2> QED BY <2>1
  <1>c. Alive' = Alive \cup {m} /\ Alive \subseteq DOMAIN clients
    BY <1>3, <1>5 DEF Alive
  <1>8. Connections'
    <2>1. \A i, j \in DOMAIN clients' : clients'[i].conn = clients'[j].conn => i = j
      BY <1>3, <1>5, <1>7 DEF FlowInv, Connections
    <2>2. \A i \in DOMAIN clients' :
            outcome'[clients'[i].conn] \in IF clients'[i].dead THEN {"served", "failed"} ELSE {"open"}
      BY <1>3, <1>5, <1>6, <1>7 DEF FlowInv, Connections
    <2>3. \E a \in 0 .. MaxConns : \A c \in Conns : outcome'[c] # "new" <=> c <= a
      <3>1. c0 \in 0 .. MaxConns
        BY <1>a, ServerAssumption DEF c0
      <3>2. ASSUME NEW c \in Conns PROVE outcome'[c] # "new" <=> c <= c0
        <4>1. c \in Int
          BY ServerAssumption DEF Conns
        <4> QED BY <1>a, <1>1, <1>6, <4>1 DEF c0
      <3> QED BY <3>1, <3>2
    <2>4. \A c \in Conns : outcome'[c] = "new" => wire'[c] = <<>> /\ issued'[c] = 0
      BY <1>2, <1>6 DEF FlowInv, Connections
    <2>5. ASSUME NEW c \in Conns, outcome'[c] = "open"
          PROVE  \E i \in Alive' : clients'[i].conn = c
      <3>1. CASE c = c0
        BY <1>3, <1>5, <1>c, <3>1
      <3>2. CASE c # c0
        <4>1. PICK i \in Alive : clients[i].conn = c
          BY <1>6, <2>5, <3>2 DEF FlowInv, Connections
        <4> QED BY <1>5, <1>c, <4>1
      <3> QED BY <3>1, <3>2
    <2> QED BY <1>2, <2>1, <2>2, <2>3, <2>4, <2>5 DEF Connections
  <1>10. Cycle' /\ Round'
    BY <1>0, <1>5, <1>c DEF Cycle, Round
  <1>11. ASSUME NEW i \in Alive' PROVE InputOK(i)'
    <2>1. CASE i = m
      BY <1>3, <1>5, <2>1, ServerAssumption DEF InputOK
    <2>2. CASE i \in Alive
      <3>1. InputOK(i) /\ clients'[i] = clients[i]
        BY <1>5, <1>c, <2>2 DEF FlowInv
      <3> QED BY <3>1 DEF InputOK
    <2> QED BY <1>c, <2>1, <2>2
  <1>12. ASSUME ~orphaned' PROVE Streams'
    <2>0. Streams
      BY <1>2, <1>12 DEF FlowInv
    <2>1. OwnerOK' /\ owner # m
      BY <1>5, <1>c, <2>0 DEF Streams, OwnerOK
    <2>2. ASSUME NEW i \in Alive PROVE OutputOK(i)' /\ MetadataOK(i)' /\ EndOK(i)'
      <3>0. /\ OutputOK(i) /\ MetadataOK(i) /\ EndOK(i) /\ clients'[i] = clients[i]
            /\ i \in DOMAIN clients /\ i # cur /\ i # cur'
        BY <1>0, <1>5, <1>c, <2>0 DEF Streams
      <3>1. Pending(i)' = Pending(i)
        BY <3>0 DEF Pending
      <3>2. OutputOK(i)'
        BY <1>2, <3>0, <3>1 DEF OutputOK, Numbered, Unit
      <3>3. MetadataOK(i)'
        BY <3>0, <3>1 DEF MetadataOK
      <3>4. EndOK(i)'
        BY <3>0, <3>1 DEF EndOK
      <3> QED BY <3>2, <3>3, <3>4
    <2>3. OutputOK(m)' /\ MetadataOK(m)' /\ EndOK(m)'
      <3>1. Pending(m)' = <<>>
        BY <1>3, <1>5, <2>1 DEF Pending
      <3>2. OutputOK(m)'
        BY <1>1, <1>2, <1>3, <1>5, <3>1, ServerAssumption DEF OutputOK, Numbered
      <3>3. Described(new, 0)
        <4> DEFINE e == [j \in 0 .. 0 |-> 0]
        <4>1. e \in [0 .. 0 -> Int] /\ e[0] = 0
          OBVIOUS
        <4> HIDE DEF e
        <4>2. LaidOut(e, new, 0)
          BY <1>3, <4>1 DEF LaidOut
        <4> QED BY <1>3, <4>1, <4>2 DEF Described
      <3>4. Len(Pending(m)') + (IF m = cur' THEN sent' ELSE 0) = 0
        BY <1>0, <3>1
      <3>5. MetadataOK(m)'
        BY <1>5, <3>3, <3>4 DEF MetadataOK
      <3>6. EndOK(m)'
        BY <1>3, <1>5 DEF EndOK
      <3> QED BY <3>2, <3>5, <3>6
    <2>4. SettledOK'
      BY DEF SettledOK, VisitPcs
    <2>5. ASSUME NEW c \in Conns PROVE WireOK(c)'
      <3>1. CASE c = c0
        BY <1>6, <3>1 DEF WireOK
      <3>2. CASE c # c0
        <4>1. WireOK(c) /\ outcome'[c] = outcome[c]
          BY <1>6, <2>0, <3>2 DEF Streams
        <4> QED BY <1>2, <4>1 DEF WireOK, Units, Unit, FixedResponse
      <3> QED BY <3>1, <3>2
    <2> QED BY <1>2, <1>c, <2>1, <2>2, <2>3, <2>4, <2>5 DEF Streams
  <1> QED BY <1>8, <1>10, <1>11, <1>12 DEF FlowInv

(* Compacting the array: client j was client from[j]. *)
LEMMA CompactFlow ==
  ASSUME IInv, FlowInv, IInv', pc = "next", todo = {}, pc' = "poll",
         NEW n \in Nat, NEW from \in [1 .. n -> DOMAIN clients], Survivors(from),
         clients' = [j \in 1 .. n |-> clients[from[j]]],
         \/ owner \notin Alive /\ UNCHANGED owner
         \/ \E j \in 1 .. n : from[j] = owner /\ owner' = j,
         UNCHANGED <<g_short, todo, cur, sent, history>>
  PROVE  FlowInv'
  <1>0. /\ cur = 0 /\ sent = 0 /\ clients \in Seq(Client) /\ 0 \notin DOMAIN clients
        /\ HistoryOK /\ Cycle /\ g_short \in Seq(Message)
        /\ UNCHANGED <<wire, issued, outcome, orphaned>> /\ Conns' = Conns
    BY Between DEF VisitPcs, history, Conns
  <1>1. /\ DOMAIN clients' = 1 .. n /\ \A j \in 1 .. n : clients'[j] = clients[from[j]]
        /\ 0 \notin 1 .. n
    OBVIOUS
  <1>2. \A j \in 1 .. n : from[j] \in Alive /\ from[j] \in DOMAIN clients /\ from[j] # 0
    BY <1>0 DEF Survivors
  <1>3. \A j, k \in 1 .. n : from[j] = from[k] => j = k
    <2>1. \A j \in 1 .. n : from[j] \in Int
      BY <1>0
    <2>2. \A j, k \in 1 .. n : j < k => from[j] < from[k]
      BY DEF Survivors
    <2>3. ASSUME NEW j \in 1 .. n, NEW k \in 1 .. n, from[j] = from[k] PROVE j = k
      <3>1. ~(j < k) /\ ~(k < j)
        BY <2>1, <2>2, <2>3
      <3> QED BY <3>1
    <2> QED BY <2>3
  <1>5. Alive' = 1 .. n
    BY <1>1, <1>2 DEF Alive
  <1>4. Connections'
    <2>1. \A i, j \in 1 .. n : clients'[i].conn = clients'[j].conn => i = j
      BY <1>1, <1>2, <1>3 DEF FlowInv, Connections
    <2>2. \A i \in 1 .. n :
            outcome'[clients'[i].conn] \in IF clients'[i].dead THEN {"served", "failed"} ELSE {"open"}
      BY <1>0, <1>1, <1>2 DEF FlowInv, Connections
    <2>3. ASSUME NEW c \in Conns, outcome'[c] = "open"
          PROVE  \E i \in Alive' : clients'[i].conn = c
      <3>1. PICK i \in Alive : clients[i].conn = c
        BY <1>0, <2>3 DEF FlowInv, Connections
      <3>2. PICK j \in 1 .. n : from[j] = i
        BY DEF Survivors
      <3> QED BY <1>1, <1>5, <3>1, <3>2
    <2> QED BY <1>0, <1>1, <2>1, <2>2, <2>3 DEF FlowInv, Connections
  <1>6. Cycle' /\ Round'
    BY <1>0, <1>1, <1>5 DEF Cycle, Round
  <1>7. ASSUME NEW j \in Alive' PROVE InputOK(j)'
    <2>1. j \in 1 .. n
      BY <1>5
    <2>2. InputOK(from[j]) /\ clients'[j] = clients[from[j]]
      BY <1>1, <1>2, <2>1 DEF FlowInv
    <2> QED BY <2>2 DEF InputOK
  <1>8. ASSUME ~orphaned' PROVE Streams'
    <2>0. Streams /\ OwnerOK
      BY <1>0, <1>8 DEF FlowInv, Streams
    <2>1. \/ owner = 0 /\ owner' = 0 /\ g_short = <<>>
          \/ /\ owner \in Alive /\ owner' \in 1 .. n /\ from[owner'] = owner
             /\ g_short # <<>> /\ clients[owner].response_stream = <<>>
      <3>1. CASE owner = 0 /\ g_short = <<>>
        BY <1>2, <3>1
      <3>2. CASE owner \in Alive /\ g_short # <<>> /\ clients[owner].response_stream = <<>>
        BY <3>2
      <3> QED BY <2>0, <3>1, <3>2 DEF OwnerOK
    <2>2. OwnerOK'
      BY <1>1, <1>5, <2>1 DEF OwnerOK
    <2>3. ASSUME NEW j \in 1 .. n
          PROVE  /\ Pending(j)' = Pending(from[j]) /\ clients'[j] = clients[from[j]]
                 /\ from[j] \in Alive /\ j # cur' /\ from[j] # cur
      <3>1. j = owner' <=> from[j] = owner
        BY <1>1, <1>2, <1>3, <2>1
      <3> QED BY <1>0, <1>1, <1>2, <3>1 DEF Pending
    <2>4. ASSUME NEW j \in Alive' PROVE OutputOK(j)' /\ MetadataOK(j)' /\ EndOK(j)'
      <3>1. j \in 1 .. n
        BY <1>5
      <3>2. PICK i \in Alive : i = from[j]
        BY <1>2, <3>1
      <3>3. /\ OutputOK(i) /\ MetadataOK(i) /\ EndOK(i) /\ i # cur /\ j # cur'
            /\ Pending(j)' = Pending(i) /\ clients'[j] = clients[i]
        BY <2>0, <2>3, <3>1, <3>2 DEF Streams
      <3>4. OutputOK(j)'
        BY <1>0, <3>3 DEF OutputOK, Numbered, Unit
      <3>5. MetadataOK(j)'
        BY <3>3 DEF MetadataOK
      <3>6. EndOK(j)'
        BY <3>3 DEF EndOK
      <3> QED BY <3>4, <3>5, <3>6
    <2>5. SettledOK'
      <3>1. ASSUME NEW j \in 1 .. n PROVE Settled(j)'
        <4>1. PICK i \in Alive : i = from[j]
          BY <1>2
        <4>2. Settled(i)
          BY <1>0, <2>0, <2>3, <4>1 DEF Streams, SettledOK
        <4> QED BY <2>3, <4>1, <4>2 DEF Settled
      <3> QED BY <1>5, <3>1 DEF SettledOK
    <2>6. ASSUME NEW c \in Conns PROVE WireOK(c)'
      <3>1. WireOK(c)
        BY <2>0 DEF Streams
      <3> QED BY <1>0, <3>1 DEF WireOK, Units, Unit, FixedResponse
    <2> QED BY <1>0, <2>2, <2>4, <2>5, <2>6 DEF Streams
  <1> QED BY <1>4, <1>6, <1>7, <1>8 DEF FlowInv

(* Poll, accept, shuffle, begin of a visit, compaction. *)
LEMMA LoopFlow ==
  ASSUME IInv, FlowInv, IInv',
         \/ \E low \in BOOLEAN : poll(low)
         \/ server_accept_traffic
         \/ clients_shuffle
         \/ \E i \in todo : server_process_client(i)
         \/ clients_remove_finalized
  PROVE  FlowInv'
  <1>0. pc \in {"poll", "accept", "next"} /\ pc \notin VisitPcs
    BY DEF poll, server_accept_traffic, clients_shuffle, server_process_client,
           clients_remove_finalized, VisitPcs
  <1>1. /\ cur = 0 /\ sent = 0 /\ clients \in Seq(Client) /\ 0 \notin DOMAIN clients /\ Cycle
    BY <1>0, Between
  <1>2. CASE \E low \in BOOLEAN : poll(low)
    <2>1. /\ pc = "poll" /\ pc' \in {"accept", "failed"}
          /\ UNCHANGED <<clients, g_short, owner, todo, cur, flags, done, sent, history>>
      BY <1>2 DEF poll
    <2>2. Cycle' /\ Round' /\ SettledOK'
      BY <1>1, <2>1 DEF Cycle, Round, SettledOK, VisitPcs, Alive
    <2> QED BY <1>0, <2>1, <2>2, ControlFlow
  <1>3. CASE server_accept_traffic
    <2>1. pc = "accept" /\ UNCHANGED <<g_short, owner, todo, cur, flags, done, sent>>
      BY <1>3 DEF server_accept_traffic
    <2>2. CASE server_accept_connection /\ UNCHANGED pc
      BY <2>1, <2>2, AcceptFlow
    <2>3. CASE pc' \in {"accept", "failed"} /\ UNCHANGED <<clients, history>>
      <3>1. Cycle' /\ Round' /\ SettledOK'
        BY <1>1, <2>1, <2>3 DEF Cycle, Round, SettledOK, VisitPcs, Alive
      <3> QED BY <1>0, <2>1, <2>3, <3>1, ControlFlow
    <2> QED BY <1>3, <2>1, <2>2, <2>3 DEF server_accept_traffic, NotAccepted
  <1>4. CASE clients_shuffle
    <2>1. /\ pc = "accept" /\ pc' = "next" /\ todo' = DOMAIN clients
          /\ UNCHANGED <<clients, g_short, owner, cur, flags, done, sent, history>>
      BY <1>4 DEF clients_shuffle
    <2>2. Cycle' /\ Round' /\ SettledOK'
      BY <1>1, <2>1 DEF Cycle, Round, SettledOK, Alive
    <2> QED BY <1>0, <2>1, <2>2, ControlFlow
  <1>5. CASE \E i \in todo : server_process_client(i)
    <2>1. PICK i \in todo : server_process_client(i)
      BY <1>5
    <2>2. /\ pc = "next" /\ pc' = "first" /\ cur' = i /\ todo' = todo \ {i}
          /\ UNCHANGED <<clients, g_short, owner, done, sent, history>>
      BY <2>1 DEF server_process_client
    <2>3. Cycle' /\ Round'
      BY <1>1, <2>2 DEF Cycle, Round, Alive
    <2>4. ASSUME ~orphaned PROVE SettledOK'
      <3>1. \A j \in Alive \ (todo \cup {cur}) : Settled(j)
        BY <2>2, <2>4 DEF FlowInv, Streams, SettledOK
      <3>2. ASSUME NEW j \in Alive', j \notin todo', j # cur' PROVE Settled(j)'
        <4>1. j \in Alive /\ j \notin todo /\ j # cur
          BY <1>1, <2>2, <3>2 DEF Alive
        <4> QED BY <2>2, <3>1, <4>1 DEF Settled, Pending
      <3> QED BY <3>2 DEF SettledOK
    <2> QED BY <1>0, <2>2, <2>3, <2>4, ControlFlow
  <1>6. CASE clients_remove_finalized
    <2>1. /\ pc = "next" /\ todo = {} /\ pc' = "poll"
          /\ UNCHANGED <<g_short, todo, cur, sent, history>>
      BY <1>6 DEF clients_remove_finalized
    <2>2. PICK n \in 0 .. Len(clients) : \E from \in [1 .. n -> DOMAIN clients] :
            /\ Survivors(from)
            /\ clients' = [j \in 1 .. n |-> clients[from[j]]]
            /\ \/ owner \notin Alive /\ UNCHANGED owner
               \/ \E j \in 1 .. n : from[j] = owner /\ owner' = j
      BY <1>6 DEF clients_remove_finalized
    <2>3. n \in Nat
      BY <1>1
    <2> QED BY <2>1, <2>2, <2>3, CompactFlow
  <1> QED BY <1>2, <1>3, <1>4, <1>5, <1>6

(* Send, pop, and the end of a round. *)
LEMMA SendFlow ==
  ASSUME IInv, FlowInv, IInv',
         \/ \E k \in 0 .. Len(g_short) :
              server_send_short_response_stream(k) \/ server_send_short_failed(k)
         \/ \E k \in 0 .. (MaxTraffic * MaxResponse) :
              server_send_long_output_buffer(k) \/ server_send_long_failed(k)
         \/ NotSendLong \/ PoppedAll \/ NotSend \/ Again
         \/ server_pop_responses \/ AfterSend \/ PrepareToWait
  PROVE  FlowInv'
  <1>1. CASE \E k \in 0 .. Len(g_short) :
               server_send_short_response_stream(k) \/ server_send_short_failed(k)
    BY <1>1, SendShortFlow
  <1>2. CASE \E k \in 0 .. (MaxTraffic * MaxResponse) :
               server_send_long_output_buffer(k) \/ server_send_long_failed(k)
    <2>1. PICK k \in 0 .. (MaxTraffic * MaxResponse) :
            server_send_long_output_buffer(k) \/ server_send_long_failed(k)
      BY <1>2
    <2>2. k \in Nat
      OBVIOUS
    <2> QED BY <2>1, <2>2, SendLongFlow
  <1> QED BY <1>1, <1>2, IdleFlow, PopFlow, AfterSendFlow, PrepareFlow

------------------------------------------------------------------------------
(* The invariant is inductive. *)
LEMMA FlowInductive == Spec => [](IInv /\ FlowInv)
  <1>1. Init => FlowInv
    <2> SUFFICES ASSUME Init PROVE FlowInv
      OBVIOUS
    <2>1. DOMAIN clients = {} /\ Alive = {} /\ Conns \subseteq Int
      BY DEF Init, Alive, Conns
    <2>2. Connections
      <3>1. \A c \in Conns : outcome[c] # "new" <=> c <= 0
        BY DEF Init, Conns
      <3>2. 0 \in 0 .. MaxConns
        BY ServerAssumption
      <3>3. \A c \in Conns : wire[c] = <<>> /\ issued[c] = 0
        BY DEF Init
      <3>4. \A c \in Conns : outcome[c] # "open"
        BY DEF Init
      <3> QED BY <2>1, <3>1, <3>2, <3>3, <3>4 DEF Connections
    <2>3. Cycle /\ Round
      BY <2>1 DEF Init, Cycle, Round
    <2>4. Streams
      BY <2>1 DEF Init, Streams, OwnerOK, SettledOK, WireOK
    <2> QED BY <2>1, <2>2, <2>3, <2>4 DEF FlowInv
  <1>2. IInv /\ IInv' /\ FlowInv /\ [Next]_vars => FlowInv'
    <2>1. ASSUME IInv, IInv', FlowInv, Next, ~Stopped PROVE FlowInv'
      BY <2>1, LoopFlow, ReceiveFlow, ProcessFlow, SendFlow DEF Next
    <2>2. ASSUME IInv, IInv', FlowInv, UNCHANGED vars PROVE FlowInv'
      <3>1. UNCHANGED <<clients, g_short, owner, pc, todo, cur, flags, done, sent, history>>
        BY <2>2 DEF vars, control
      <3>2. CASE pc \in VisitPcs
        <4>1. Round' /\ (~orphaned /\ ~client.dead => EndOK(cur)')
          BY <2>2, <3>1, <3>2, VisitedFlow
          DEF Round, EndOK, Pending, Closed, Alive, get_makes_sense_to_parse,
              client_response_stream_size
        <4> QED BY <2>2, <3>1, <3>2, <4>1, StillStep
      <3>3. CASE pc = "panic"
        <4>1. orphaned
          BY <2>2, <3>3 DEF FlowInv, Streams
        <4> QED BY <2>2, <3>1, <3>3, <4>1
            DEF FlowInv, Connections, Cycle, Round, InputOK, Alive, VisitPcs, history, Conns
      <3>4. CASE pc \notin VisitPcs /\ pc # "panic"
        <4>1. Cycle' /\ Round'
          BY <2>2, <3>1, <3>4
          DEF FlowInv, Cycle, Round, Closed, Alive, get_makes_sense_to_parse,
              client_response_stream_size
        <4>2. ~orphaned => SettledOK'
          BY <2>2, <3>1 DEF FlowInv, Streams, SettledOK, Settled, Pending, Alive
        <4> QED BY <2>2, <3>1, <3>4, <4>1, <4>2, ControlFlow
      <3> QED BY <3>2, <3>3, <3>4
    <2> QED BY <2>1, <2>2 DEF Stopped
  <1> QED BY <1>1, <1>2, Inductive, PTL DEF Spec

------------------------------------------------------------------------------
(* What follows from the invariant.                                        *)

(***************************************************************************)
(* For every number of connections, every limit and every response size,   *)
(* each connection is sent its own responses, complete and in order, with  *)
(* a fixed message at most at the end, although all clients share          *)
(* g_short_response_stream (server_process_traffic, server_send_traffic).  *)
(***************************************************************************)
THEOREM ServerInOrder == Spec => []InOrder
  <1>1. IInv /\ FlowInv => InOrder
    <2> SUFFICES ASSUME IInv, FlowInv, ~orphaned
                 PROVE  /\ \A c \in Conns : \E k \in 0 .. issued[c] :
                             wire[c] \in {Units(c, 0, k), Append(Units(c, 0, k), FixedResponse)}
                        /\ \A i \in Alive :
                             wire[clients[i].conn] \o Pending(i)
                               = Units(clients[i].conn, 0, issued[clients[i].conn])
      BY DEF InOrder
    <2>1. /\ Streams /\ Connections /\ wire \in [Conns -> Seq(Message)] /\ issued \in [Conns -> Nat]
          /\ outcome \in [Conns -> {"new", "open", "served", "failed"}]
      BY DEF FlowInv, IInv, TypeOK
    <2>2. ASSUME NEW i \in Alive
          PROVE  LET c == clients[i].conn
                 IN  /\ c \in Conns /\ wire[c] = Units(c, 0, Len(wire[c]))
                     /\ Len(wire[c]) \in 0 .. issued[c]
                     /\ wire[c] \o Pending(i) = Units(c, 0, issued[c])
      <3> DEFINE c == clients[i].conn
      <3>1. i \in DOMAIN clients /\ clients[i] \in Client /\ Pending(i) \in Seq(Message)
        BY PendingType DEF Alive
      <3>2. c \in Conns /\ wire[c] \in Seq(Message) /\ issued[c] \in Nat
        BY <2>1, <3>1, Fields
      <3>3. /\ Numbered(wire[c], c, 0) /\ Numbered(Pending(i), c, Len(wire[c]))
            /\ Len(wire[c]) + Len(Pending(i)) = issued[c]
        BY <2>1 DEF Streams, OutputOK
      <3> HIDE DEF c
      <3>4. wire[c] = Units(c, 0, Len(wire[c]))
        BY <3>2, <3>3, NumberedIsUnits
      <3>5. Len(wire[c]) \in 0 .. issued[c]
        BY <3>1, <3>2, <3>3
      <3>6. Numbered(wire[c] \o Pending(i), c, 0)
        <4>1. 0 + Len(wire[c]) = Len(wire[c]) /\ 0 \in Nat
          BY <3>2
        <4> QED BY <3>1, <3>2, <3>3, <4>1, NumberedConcat
      <3>7. wire[c] \o Pending(i) \in Seq(Message) /\ Len(wire[c] \o Pending(i)) = issued[c]
        BY <3>1, <3>2, <3>3, ConcatProperties
      <3>8. wire[c] \o Pending(i) = Units(c, 0, issued[c])
        BY <3>2, <3>6, <3>7, NumberedIsUnits
      <3> QED BY <3>2, <3>4, <3>5, <3>8 DEF c
    <2>3. ASSUME NEW c \in Conns
          PROVE  \E k \in 0 .. issued[c] :
                   wire[c] \in {Units(c, 0, k), Append(Units(c, 0, k), FixedResponse)}
      <3>0. outcome[c] \in {"new", "open", "served", "failed"} /\ issued[c] \in Nat /\ WireOK(c)
        BY <2>1 DEF Streams
      <3>1. CASE outcome[c] = "new"
        <4>1. wire[c] = <<>> /\ Units(c, 0, 0) = <<>>
          BY <2>1, <3>1 DEF Connections, Units
        <4> QED BY <3>0, <4>1
      <3>2. CASE outcome[c] = "open"
        <4>1. PICK i \in Alive : clients[i].conn = c
          BY <2>1, <3>2 DEF Connections
        <4>2. wire[c] = Units(c, 0, Len(wire[c])) /\ Len(wire[c]) \in 0 .. issued[c]
          BY <2>2, <4>1
        <4> QED BY <4>2
      <3>3. CASE outcome[c] = "served"
        BY <3>0, <3>3 DEF WireOK
      <3>4. CASE outcome[c] = "failed"
        BY <3>0, <3>4 DEF WireOK
      <3> QED BY <3>0, <3>1, <3>2, <3>3, <3>4
    <2> QED BY <2>2, <2>3
  <1> QED BY <1>1, FlowInductive, PTL

(***************************************************************************)
(* A connection closed without an error (by its peer, or at the end of     *)
(* "Connection: close") was sent every byte it was issued                  *)
(* (server_receive_traffic, server_send_traffic).                          *)
(***************************************************************************)
THEOREM ServerServedInFull == Spec => []ServedInFull
  <1>1. FlowInv => ServedInFull
    BY DEF FlowInv, Streams, WireOK, ServedInFull
  <1> QED BY <1>1, FlowInductive, PTL

(***************************************************************************)
(* When the server sleeps in poll(), a client with pending output has      *)
(* asked for POLLOUT, and one without has asked for POLLIN and has nothing *)
(* left to parse (the end of server_process_client).                       *)
(***************************************************************************)
THEOREM ServerNoLostWakeup == Spec => []NoLostWakeup
  <1>1. IInv /\ FlowInv => NoLostWakeup
    <2> SUFFICES ASSUME IInv, FlowInv, pc = "poll", ~orphaned, NEW i \in DOMAIN clients
                 PROVE  Settled(i)
      BY DEF NoLostWakeup, Settled
    <2>1. i \in Alive /\ todo = {} /\ cur = 0 /\ i # 0
      BY Between DEF Cycle, VisitPcs
    <2> QED BY <2>1 DEF FlowInv, Streams, SettledOK
  <1> QED BY <1>1, FlowInductive, PTL

(***************************************************************************)
(* server_pop_responses never meets an empty queue with bytes left to      *)
(* account for, so the server does not end itself (PARTIAL_EEF_DIE).       *)
(***************************************************************************)
THEOREM ServerNoPanic == Spec => []NoPanic
  <1>1. FlowInv => NoPanic
    BY DEF FlowInv, Streams, NoPanic
  <1> QED BY <1>1, FlowInductive, PTL

(***************************************************************************)
(* The input of a client never exceeds MAX_REQUEST_STREAM_SIZE, and what   *)
(* it has to be sent exceeds MAX_RESPONSE_STREAM_SIZE by less than one     *)
(* response, whatever the peer sends (get_makes_sense_to_parse).           *)
(***************************************************************************)
THEOREM ServerStreamsBounded == Spec => []StreamsBounded
  <1>1. FlowInv => StreamsBounded
    BY DEF FlowInv, Streams, InputOK, OutputOK, StreamsBounded
  <1> QED BY <1>1, FlowInductive, PTL

(* The recursive sum over the responses is the one the invariant has. *)
LEMMA EndsOfDescribed ==
  ASSUME NEW c \in Client, NEW total \in Int, Described(c, total)
  PROVE  Ends(c)[Len(c.response_queue)] = total
  <1> DEFINE N == Len(c.response_queue)
             Size(j) == (IF j = 1 THEN c.response ELSE c.response_queue[j]).stream_size
             Q(f) == f = [j \in 0 .. N |-> IF j = 0 THEN 0 ELSE f[j - 1] + Size(j)]
  <1>1. N \in Nat
    BY Fields
  <1>2. PICK e \in [0 .. N -> Int] : LaidOut(e, c, total)
    BY DEF Described
  <1>3. /\ e[0] = 0 /\ e[N] = total
        /\ \A j \in 1 .. N : e[j] = e[j - 1] + Size(j) /\ Size(j) \in Int
    <2>1. e[0] = 0 /\ e[N] = total
      BY <1>2 DEF LaidOut
    <2>2. ASSUME NEW j \in 1 .. N PROVE e[j] = e[j - 1] + Size(j) /\ Size(j) \in Int
      <3>0. c.response.stream_size \in Nat /\ c.response_queue[j].stream_size \in Nat
        <4>1. c.response \in Responses /\ c.response_queue \in Seq(Responses)
          BY Fields
        <4>2. c.response_queue[j] \in Responses
          BY <4>1
        <4> QED BY <4>1, <4>2 DEF Responses
      <3>1. CASE j = 1
        <4>1. c.response_queue # <<>>
          BY <1>1, <3>1
        <4> QED BY <1>2, <2>1, <3>0, <3>1, <4>1 DEF LaidOut
      <3>2. CASE j # 1
        <4>1. j \in 2 .. N
          BY <1>1, <3>2
        <4> QED BY <1>2, <3>0, <3>2, <4>1 DEF LaidOut
      <3> QED BY <3>1, <3>2
    <2> QED BY <2>1, <2>2
  <1>4. Q(Ends(c))
    <2>1. Q(e)
      <3> HIDE DEF N, Size
      <3> QED BY <1>3
    <2>2. Ends(c) = CHOOSE f : Q(f)
      BY DEF Ends
    <2> HIDE DEF Q
    <2>3. Q(CHOOSE f : Q(f))
      BY <2>1, Zenon
    <2> QED BY <2>2, <2>3
  <1> DEFINE E == Ends(c)
             T == {j \in 0 .. N : E[j] = e[j]}
  <1>5. E[0] = 0 /\ \A j \in 1 .. N : E[j] = E[j - 1] + Size(j)
    <2> HIDE DEF N, Size, E
    <2>1. E = [j \in 0 .. N |-> IF j = 0 THEN 0 ELSE E[j - 1] + Size(j)]
      BY <1>4 DEF E
    <2> QED BY <1>1, <2>1
  <1> HIDE DEF N, Size, E, Q
  <1>6. T \in SUBSET Nat /\ 0 \in T
    BY <1>1, <1>3, <1>5
  <1>7. ASSUME NEW k \in 0 .. N - 1, k \in T PROVE k + 1 \in T
    <2>1. k + 1 \in 1 .. N /\ (k + 1) - 1 = k /\ E[k] = e[k]
      BY <1>1, <1>7
    <2>2. E[k + 1] = E[k] + Size(k + 1) /\ e[k + 1] = e[k] + Size(k + 1)
      BY <1>3, <1>5, <2>1
    <2> QED BY <1>1, <2>1, <2>2
  <1>8. N \in T
    <2> HIDE DEF T
    <2> QED BY <1>1, <1>6, <1>7, InductionUpTo
  <1> QED BY <1>3, <1>8 DEF N, E

(***************************************************************************)
(* The metadata of every client describes exactly the bytes it has to be   *)
(* sent, also between the steps of server_pop_responses: response_count,   *)
(* the head's copy, and the sum of all responses.                          *)
(***************************************************************************)
THEOREM ServerAccounting == Spec => []Accounting
  <1>1. IInv /\ FlowInv => Accounting
    <2> SUFFICES ASSUME IInv, FlowInv, ~orphaned, NEW i \in Alive
                 PROVE  LET c == clients[i]
                        IN  /\ c.response_count = Len(c.response_queue)
                            /\ Ends(c)[Len(c.response_queue)]
                                 = Len(Pending(i)) + (IF i = cur THEN sent ELSE 0)
                            /\ IF c.response_queue = <<>>
                                 THEN c.response.stream_size = 0
                                 ELSE /\ c.response.stream_size \in 1 .. c.response_queue[1].stream_size
                                      /\ c.response.keep_alive = c.response_queue[1].keep_alive
      BY DEF Accounting
    <2>1. PICK total : total = Len(Pending(i)) + (IF i = cur THEN sent ELSE 0)
      OBVIOUS
    <2>2. clients[i] \in Client /\ Pending(i) \in Seq(Message) /\ sent \in Nat
      BY PendingType DEF Alive, IInv, TypeOK
    <2>3. total \in Int /\ Described(clients[i], total)
      <3>1. total \in Int
        BY <2>1, <2>2
      <3> QED BY <2>1, <3>1 DEF FlowInv, Streams, MetadataOK
    <2>4. Ends(clients[i])[Len(clients[i].response_queue)] = total
      BY <2>2, <2>3, EndsOfDescribed
    <2> QED BY <2>1, <2>3, <2>4 DEF Described
  <1> QED BY <1>1, FlowInductive, PTL

(* The step leaves the history of connection c alone. *)
SameHistory(c) ==
  /\ outcome'[c] = outcome[c] /\ wire'[c] = wire[c]
  /\ received'[c] = received[c] /\ issued'[c] = issued[c]

(* An error touches no connection but the visited client's. *)
LEMMA FailureHistory ==
  ASSUME IInv, pc \in VisitPcs, NEW c \in Conns, c # client.conn,
         NEW cs, NEW o, NEW w \in [Conns -> Seq(Message)], NEW send, NEW place,
         Failure(cs, o, w, send, place), w[c] = wire[c], issued' = issued,
         received'[c] = received[c]
  PROVE  SameHistory(c)
  <1>1. outcome \in [Conns -> {"new", "open", "served", "failed"}]
    BY Visited DEF HistoryOK
  <1> QED BY <1>1 DEF Failure, SameHistory

(* Neither does receiving, whatever its outcome. *)
LEMMA ReceiveHistory ==
  ASSUME IInv, pc \in VisitPcs, NEW c \in Conns, c # client.conn,
         NEW bytes \in Seq(Bytes), server_receive_traffic(bytes) \/ server_receive_closed(bytes)
  PROVE  SameHistory(c)
  <1>1. /\ outcome \in [Conns -> {"new", "open", "served", "failed"}]
        /\ received \in [Conns -> Nat] /\ wire \in [Conns -> Seq(Message)]
    BY Visited DEF HistoryOK
  <1>2. received'[c] = received[c]
    BY <1>1 DEF server_receive_traffic, server_receive_closed, Incoming
  <1>3. CASE server_receive_traffic(bytes)
    BY <1>2, <1>3 DEF server_receive_traffic, SameHistory
  <1>4. CASE server_receive_closed(bytes)
    <2>1. issued' = issued
      BY <1>4 DEF server_receive_closed
    <2>2. CASE CloseServed(Received(bytes)) /\ UNCHANGED wire
      BY <1>1, <1>2, <2>1, <2>2 DEF CloseServed, SameHistory
    <2>3. CASE Failure(Received(bytes), owner, wire, FALSE, "next")
      BY <1>1, <1>2, <2>1, <2>3, FailureHistory
    <2> QED BY <1>4, <2>2, <2>3 DEF server_receive_closed
  <1> QED BY <1>3, <1>4

(* Sending from either buffer does not. *)
LEMMA SendHistory ==
  ASSUME IInv, pc \in VisitPcs, NEW c \in Conns, c # client.conn, NEW k \in Nat,
         \/ k <= Len(g_short) /\ server_send_short_response_stream(k)
         \/ k <= Len(g_short) /\ server_send_short_failed(k)
         \/ server_send_long_output_buffer(k) \/ server_send_long_failed(k)
  PROVE  SameHistory(c)
  <1>1. /\ wire \in [Conns -> Seq(Message)] /\ g_short \in Seq(Message)
        /\ client.response_stream \in Seq(Message)
    BY Visited, Fields DEF HistoryOK
  <1> DEFINE u == Taken(g_short, k)
             t == Taken(client.response_stream, k)
  <1>2. CASE k <= Len(g_short) /\ server_send_short_response_stream(k)
    BY <1>1, <1>2 DEF server_send_short_response_stream, ToWire, SameHistory
  <1>3. CASE k <= Len(g_short) /\ server_send_short_failed(k)
    <2>1. /\ Failure(clients, owner, ToWire(u), FALSE, "next")
          /\ UNCHANGED <<received, issued>>
      BY <1>3 DEF server_send_short_failed
    <2>2. u \in Seq(Message)
      BY <1>1, <1>3, TakenRest
    <2>3. ToWire(u) \in [Conns -> Seq(Message)] /\ ToWire(u)[c] = wire[c]
      BY <2>2, ToWireFlow
    <2> HIDE DEF u
    <2> QED BY <2>1, <2>3, FailureHistory
  <1>4. CASE server_send_long_output_buffer(k)
    BY <1>1, <1>4 DEF server_send_long_output_buffer, ToWire, SameHistory
  <1>5. CASE server_send_long_failed(k)
    <2>1. /\ Failure(clients, owner, ToWire(t), FALSE, "next")
          /\ UNCHANGED <<received, issued>> /\ k < Len(client.response_stream)
      BY <1>5 DEF server_send_long_failed
    <2>2. t \in Seq(Message)
      BY <1>1, <2>1, TakenRest
    <2>3. ToWire(t) \in [Conns -> Seq(Message)] /\ ToWire(t)[c] = wire[c]
      BY <2>2, ToWireFlow
    <2> HIDE DEF t
    <2> QED BY <2>1, <2>3, FailureHistory
  <1> QED BY <1>2, <1>3, <1>4, <1>5

(* No step touches a connection that is closed. *)
LEMMA ClosedHistory ==
  ASSUME IInv, FlowInv, Next, NEW c \in Conns, outcome[c] \in {"served", "failed"}
  PROVE  SameHistory(c)
  <1>0. HistoryOK /\ clients \in Seq(Client)
    BY DEF IInv, TypeOK, HistoryOK
  <1>1. CASE UNCHANGED history
    BY <1>1 DEF history, SameHistory
  <1>2. CASE server_accept_connection
    <2>1. Accepted + 1 # c
      <3>1. Accepted \in Nat /\ c <= Accepted /\ c \in Int
        BY AcceptedFlow, ServerAssumption DEF Conns
      <3> QED BY <3>1
    <2> QED BY <1>0, <1>2, <2>1 DEF server_accept_connection, HistoryOK, SameHistory
  <1>3. ASSUME pc \in VisitPcs, cur \in Alive PROVE c # client.conn
    BY <1>3, VisitedFlow
  <1>4. ASSUME pc \in VisitPcs, cur \in Alive, NEW send \in BOOLEAN, FailHere(send)
        PROVE  SameHistory(c)
    BY <1>0, <1>3, <1>4, FailureHistory DEF FailHere, HistoryOK
  <1>5. CASE FirstRound
    <2>1. pc \in VisitPcs /\ pc = "first"
      BY <1>5 DEF FirstRound, VisitPcs
    <2>2. cur \in Alive
      BY <2>1, OnlyTheLiving
    <2> QED BY <1>1, <1>4, <1>5, <2>1, <2>2 DEF FirstRound
  <1>6. ASSUME NEW n \in 0 .. MaxTraffic, NEW bytes \in [1 .. n -> Bytes],
               server_receive_traffic(bytes) \/ server_receive_closed(bytes)
        PROVE  SameHistory(c)
    <2>1. pc \in VisitPcs /\ MayReceive /\ bytes \in Seq(Bytes)
      <3>1. MayReceive
        BY <1>6 DEF server_receive_traffic, server_receive_closed
      <3>2. pc \in VisitPcs
        BY <3>1 DEF MayReceive, VisitPcs
      <3>3. bytes \in Seq(Bytes)
        BY ServerAssumption
      <3> QED BY <3>1, <3>2, <3>3
    <2> QED BY <1>3, <1>6, <2>1, OnlyTheLiving, ReceiveHistory
  <1>7. CASE server_receive_failed
    <2>1. pc \in VisitPcs /\ MayReceive
      BY <1>7 DEF server_receive_failed, MayReceive, VisitPcs
    <2> QED BY <1>4, <1>7, <2>1, OnlyTheLiving DEF server_receive_failed
  <1>8. CASE \/ server_process_invalid \/ server_process_flush_failed \/ server_process_failed
             \/ \E size \in 1 .. MaxResponse, keep_alive \in BOOLEAN :
                  server_process_traffic(size, keep_alive)
    <2>1. pc \in VisitPcs /\ MayProcess
      BY <1>8 DEF server_process_invalid, server_process_flush_failed, server_process_failed,
                  server_process_traffic, MayProcess, VisitPcs
    <2>2. cur \in Alive /\ c # client.conn
      BY <1>3, <2>1, OnlyTheLiving
    <2>3. CASE server_process_invalid \/ server_process_flush_failed
      BY <1>4, <2>1, <2>2, <2>3 DEF server_process_invalid, server_process_flush_failed
    <2>4. CASE server_process_failed
      BY <1>0, <2>1, <2>2, <2>4, FailureHistory DEF server_process_failed, HistoryOK
    <2>5. ASSUME NEW size \in 1 .. MaxResponse, NEW keep_alive \in BOOLEAN,
                 server_process_traffic(size, keep_alive)
          PROVE  SameHistory(c)
      <3>1. issued' = [issued EXCEPT ![client.conn] = @ + size]
        BY <2>5, Zenon DEF server_process_traffic
      <3>2. UNCHANGED <<wire, received, outcome>>
        BY <2>5 DEF server_process_traffic
      <3> QED BY <1>0, <2>2, <3>1, <3>2 DEF HistoryOK, SameHistory
    <2> QED BY <1>8, <2>3, <2>4, <2>5
  <1>9. CASE \/ \E k \in 0 .. Len(g_short) :
                  server_send_short_response_stream(k) \/ server_send_short_failed(k)
             \/ \E k \in 0 .. (MaxTraffic * MaxResponse) :
                  server_send_long_output_buffer(k) \/ server_send_long_failed(k)
    <2>1. pc \in VisitPcs /\ (MaySend \/ MaySendLong)
      BY <1>9 DEF server_send_short_response_stream, server_send_short_failed, VisitPcs,
                  server_send_long_output_buffer, server_send_long_failed, MaySend, MaySendLong
    <2>2. cur \in Alive /\ c # client.conn /\ Len(g_short) \in Nat
      BY <1>3, <2>1, OnlyTheLiving, Visited
    <2>3. PICK k \in Nat :
            \/ k <= Len(g_short) /\ server_send_short_response_stream(k)
            \/ k <= Len(g_short) /\ server_send_short_failed(k)
            \/ server_send_long_output_buffer(k) \/ server_send_long_failed(k)
      <3>1. CASE \E k \in 0 .. Len(g_short) :
                   server_send_short_response_stream(k) \/ server_send_short_failed(k)
        <4>1. PICK k \in 0 .. Len(g_short) :
                server_send_short_response_stream(k) \/ server_send_short_failed(k)
          BY <3>1
        <4>2. k \in Nat /\ k <= Len(g_short)
          BY <2>2
        <4> QED BY <4>1, <4>2
      <3>2. CASE \E k \in 0 .. (MaxTraffic * MaxResponse) :
                   server_send_long_output_buffer(k) \/ server_send_long_failed(k)
        <4>1. PICK k \in 0 .. (MaxTraffic * MaxResponse) :
                server_send_long_output_buffer(k) \/ server_send_long_failed(k)
          BY <3>2
        <4>2. k \in Nat
          OBVIOUS
        <4> QED BY <4>1, <4>2
      <3> QED BY <1>9, <3>1, <3>2
    <2> QED BY <2>1, <2>2, <2>3, SendHistory
  <1>10. CASE server_pop_responses \/ AfterSend
    <2>1. pc \in VisitPcs /\ pc \notin {"receive", "process", "send", "wait"}
      BY <1>10 DEF server_pop_responses, AfterSend, VisitPcs
    <2>2. cur \in Alive /\ c # client.conn
      BY <1>3, <2>1, OnlyTheLiving
    <2>3. CASE \E place : Failure(clients, owner, wire, FALSE, place) /\ UNCHANGED <<received, issued>>
      BY <1>0, <2>1, <2>2, <2>3, FailureHistory DEF HistoryOK
    <2>4. CASE CloseServed(clients) /\ UNCHANGED <<wire, received, issued>>
      BY <1>0, <2>2, <2>4 DEF CloseServed, HistoryOK, SameHistory
    <2> QED BY <1>1, <1>10, <2>3, <2>4 DEF server_pop_responses, AfterSend
  <1>11. CASE \/ \E low \in BOOLEAN : poll(low)
              \/ server_accept_traffic \/ clients_shuffle
              \/ \E i \in todo : server_process_client(i)
              \/ clients_remove_finalized
    BY <1>1, <1>2, <1>11
    DEF poll, server_accept_traffic, NotAccepted, clients_shuffle, server_process_client,
        clients_remove_finalized
  <1>12. CASE \/ NotReceive \/ server_process_incomplete \/ NotProcess \/ NotSendLong
              \/ PoppedAll \/ NotSend \/ Again \/ PrepareToWait \/ Stopped
    BY <1>1, <1>12
    DEF NotReceive, server_process_incomplete, NotProcess, NotSendLong, PoppedAll, NotSend,
        Again, PrepareToWait, Stopped, vars
  <1> QED BY <1>5, <1>6, <1>7, <1>8, <1>9, <1>10, <1>11, <1>12 DEF Next

(***************************************************************************)
(* A closed connection is never read from, written to or closed again,     *)
(* although server_process_client runs one more round on the finalized     *)
(* client (high_level.c).                                                  *)
(***************************************************************************)
THEOREM ServerClosedIsFinal == Spec => ClosedIsFinal
  <1> DEFINE Final == \A c \in Conns : outcome[c] \in {"served", "failed"} =>
                        /\ outcome'[c] = outcome[c]
                        /\ wire'[c] = wire[c]
                        /\ received'[c] = received[c]
                        /\ issued'[c] = issued[c]
  <1>1. IInv /\ FlowInv /\ [Next]_vars => [Final]_vars
    <2>1. IInv /\ FlowInv /\ Next => Final
      BY ClosedHistory DEF SameHistory
    <2> QED BY <2>1
  <1>2. ClosedIsFinal <=> [][Final]_vars
    BY DEF ClosedIsFinal
  <1> HIDE DEF Final
  <1> QED BY <1>1, <1>2, FlowInductive, PTL DEF Spec
=============================================================================
