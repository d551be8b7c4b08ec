--------------------------- MODULE RequestsProofs ----------------------------
(***************************************************************************)
(* Proofs about what leads from the bytes of a request to its page: the    *)
(* records of TLS, for every size of the response stream, every number of  *)
(* records that a response is encrypted to and every number of requests;   *)
(* values in two parts, for every alphabet, every size of a value and of   *)
(* an unsigned int, and every place of the seam; the header of languages;  *)
(* the pages.  Then, with what ParserProofs shows, the whole of Requests.  *)
(***************************************************************************)
EXTENDS Requests, SequenceTheorems, NumberInduction, TLAPS

------------------------------------------------------------------------------
(* TLS: the inductive invariant.                                             *)

States == {"CS_PENDING_HANDSHAKE", "CS_OPERATIONAL", "CS_PENDING_SHUTDOWN", "CS_SHUTDOWN"}
Responses == [stream_size : Nat, keep_alive : BOOLEAN, silent : BOOLEAN]
Output == {"handshake", "data", "notify", "plain"}

Client ==
  [cryptography_state : States, ssl : BOOLEAN, read_bio : Seq(Records),
   request_stream : Seq(Requests \cup {"raw"}), parser : {"begin", "end"},
   response : Responses, response_queue : Seq(Responses), response_count : Nat,
   response_stream : Seq(Output), dead : BOOLEAN]

(* e says where the pending responses of client c end. *)
LaidOut(e, c) ==
  /\ e[0] = 0 /\ e[Len(c.response_queue)] = Len(c.response_stream)
  /\ \A k \in 1 .. Len(c.response_queue) : e[k] = e[k - 1] + Pending(c, k).stream_size

Described(c) ==
  /\ c.response_count = Len(c.response_queue)
  /\ \E e \in [0 .. Len(c.response_queue) -> Int] : LaidOut(e, c)

(* Only a connection that is being shut down has its close_notify in the   *)
(* stream, and there it is the last.                                       *)
Notified(c) ==
  \A i \in 1 .. Len(c.response_stream) :
    /\ c.response_stream[i] # "plain"
    /\ c.response_stream[i] = "notify" =>
         i = Len(c.response_stream) /\ c.cryptography_state = "CS_PENDING_SHUTDOWN"

(* A client that lives has an SSL object until its shutdown has begun, and *)
(* its end is noticed at once.                                             *)
Living(c) ==
  /\ c.ssl <=> c.cryptography_state # "CS_PENDING_SHUTDOWN"
  /\ c.cryptography_state # "CS_SHUTDOWN"
  /\ Described(c)

Sound(c) == c \in Client /\ Notified(c) /\ (~c.dead => Living(c))

Typed ==
  /\ peer \in {"new", "hello", "open", "notified", "closed"} /\ sent \in 0 .. MaxRecords
  /\ socket \in Seq(Records) /\ pc \in {"poll", "receive", "process", "send"}
  /\ expired \in {"none", "request", "input", "failed"}
  /\ exhausted \in BOOLEAN /\ saturated \in BOOLEAN
  /\ done \in BOOLEAN /\ closing \in BOOLEAN /\ plain \in BOOLEAN

IInv ==
  /\ Typed
  /\ Sound(client)
  /\ client.dead => pc = "poll"
  /\ misused = FALSE
  /\ PlainLast
------------------------------------------------------------------------------
(* What the operations on a client keep.                                   *)

LEMMA Fields ==
  ASSUME NEW c \in Client
  PROVE  /\ c.cryptography_state \in States /\ c.ssl \in BOOLEAN /\ c.read_bio \in Seq(Records)
         /\ c.request_stream \in Seq(Requests \cup {"raw"}) /\ c.parser \in {"begin", "end"}
         /\ c.response \in Responses /\ c.response_queue \in Seq(Responses)
         /\ c.response_count \in Nat /\ c.response_stream \in Seq(Output) /\ c.dead \in BOOLEAN
         /\ Len(c.response_queue) \in Nat /\ Len(c.response_stream) \in Nat
  <1>1. /\ c.cryptography_state \in States /\ c.ssl \in BOOLEAN /\ c.read_bio \in Seq(Records)
        /\ c.request_stream \in Seq(Requests \cup {"raw"}) /\ c.parser \in {"begin", "end"}
        /\ c.response \in Responses /\ c.response_queue \in Seq(Responses)
        /\ c.response_count \in Nat /\ c.response_stream \in Seq(Output) /\ c.dead \in BOOLEAN
    BY DEF Client
  <1> QED BY <1>1

LEMMA PendingType ==
  ASSUME NEW c \in Client, NEW k \in 1 .. Len(c.response_queue)
  PROVE  Pending(c, k) \in Responses /\ Pending(c, k).stream_size \in Nat
  <1>1. c.response \in Responses /\ c.response_queue[k] \in Responses
    BY Fields
  <1> QED BY <1>1 DEF Pending, Responses

LEMMA SameDescribed ==
  ASSUME NEW c, NEW x, Described(c),
         x.response_queue = c.response_queue, x.response_count = c.response_count,
         x.response = c.response, x.response_stream = c.response_stream
  PROVE  Described(x)
  <1>1. \A k : Pending(x, k) = Pending(c, k)
    BY DEF Pending
  <1>2. \A e : LaidOut(e, c) => LaidOut(e, x)
    BY <1>1 DEF LaidOut
  <1> QED BY <1>2 DEF Described

(* A response and its records are added: the sizes describe them too. *)
LEMMA AddedDescribed ==
  ASSUME NEW c \in Client, Described(c),
         NEW r \in Responses, NEW d \in Seq(Output), r.stream_size = Len(d), NEW x,
         x.response_queue = Append(c.response_queue, r),
         x.response_count = c.response_count + 1,
         x.response = IF c.response_count = 0 THEN r ELSE c.response,
         x.response_stream = c.response_stream \o d
  PROVE  Described(x)
  <1> DEFINE queued == c.response_queue
             N == Len(queued)
             total == Len(c.response_stream)
  <1>1. /\ queued \in Seq(Responses) /\ N \in Nat /\ c.response_count = N /\ total \in Nat
        /\ r.stream_size \in Nat /\ c.response_stream \in Seq(Output)
    BY Fields DEF Described, Responses
  <1>2. PICK e \in [0 .. N -> Int] : LaidOut(e, c)
    BY DEF Described
  <1>3. /\ Len(x.response_queue) = N + 1
        /\ x.response_queue[N + 1] = r
        /\ \A k \in 1 .. N : x.response_queue[k] = queued[k]
    BY <1>1
  <1>4. Len(x.response_stream) = total + r.stream_size
    BY <1>1
  <1>5. /\ \A k \in 1 .. N : Pending(x, k) = Pending(c, k)
        /\ Pending(x, N + 1) = r
    BY <1>1, <1>3 DEF Pending
  <1>6. /\ e[0] = 0 /\ e[N] = total
        /\ \A k \in 1 .. N : e[k] = e[k - 1] + Pending(c, k).stream_size
    BY <1>2 DEF LaidOut
  <1>7. \E f \in [0 .. N + 1 -> Int] : LaidOut(f, x)
    <2> DEFINE f == [k \in 0 .. N + 1 |-> IF k <= N THEN e[k] ELSE total + r.stream_size]
    <2>1. f \in [0 .. N + 1 -> Int]
      BY <1>1
    <2>2. f[N + 1] = total + r.stream_size /\ \A k \in 0 .. N : f[k] = e[k]
      BY <1>1
    <2> HIDE DEF f
    <2>3. ASSUME NEW k \in 1 .. N + 1
          PROVE  f[k] = f[k - 1] + Pending(x, k).stream_size
      <3>1. CASE k <= N
        <4>1. k \in 0 .. N /\ k - 1 \in 0 .. N /\ k \in 1 .. N
          BY <1>1, <3>1
        <4> HIDE DEF N
        <4> QED BY <1>5, <1>6, <2>2, <4>1
      <3>2. CASE k = N + 1
        <4>1. N \in 0 .. N /\ k - 1 = N
          BY <1>1, <3>2
        <4> HIDE DEF N, total
        <4> QED BY <1>5, <1>6, <2>2, <3>2, <4>1
      <3> QED BY <1>1, <3>1, <3>2
    <2>4. f[0] = 0
      BY <1>1, <1>6, <2>2
    <2>5. LaidOut(f, x)
      BY <1>3, <1>4, <2>2, <2>3, <2>4 DEF LaidOut
    <2> QED BY <2>1, <2>5
  <1> QED BY <1>1, <1>3, <1>7 DEF Described

(* The recursive sum over the responses is the layout of the invariant. *)
LEMMA EndsOfDescribed ==
  ASSUME NEW c \in Client, NEW e \in [0 .. Len(c.response_queue) -> Int], LaidOut(e, c)
  PROVE  \A k \in 0 .. Len(c.response_queue) : Ends(c)[k] = e[k]
  <1> DEFINE N == Len(c.response_queue)
             Size(k) == Pending(c, k).stream_size
             Q(f) == f = [k \in 0 .. N |-> IF k = 0 THEN 0 ELSE f[k - 1] + Size(k)]
  <1>1. N \in Nat
    BY Fields
  <1>2. e \in [0 .. N -> Int] /\ e[0] = 0 /\ \A k \in 1 .. N : e[k] = e[k - 1] + Size(k)
    BY DEF LaidOut
  <1>3. Q(Ends(c))
    <2>1. Q(e)
      <3> HIDE DEF N, Size
      <3> QED BY <1>1, <1>2
    <2>2. Ends(c) = CHOOSE f : Q(f)
      BY DEF Ends
    <2> HIDE DEF Q
    <2>3. Q(CHOOSE f : Q(f))
      BY <2>1, Zenon
    <2> QED BY <2>2, <2>3
  <1> DEFINE E == Ends(c)
  <1>4. E[0] = 0 /\ \A k \in 1 .. N : E[k] = E[k - 1] + Size(k)
    <2> HIDE DEF N, Size, E
    <2>1. E = [k \in 0 .. N |-> IF k = 0 THEN 0 ELSE E[k - 1] + Size(k)]
      BY <1>3 DEF E
    <2> QED BY <1>1, <2>1
  <1> SUFFICES ASSUME NEW m \in 0 .. N PROVE E[m] = e[m]
    OBVIOUS
  <1> HIDE DEF Size, E, Q
  <1> DEFINE T == {k \in 0 .. N : E[k] = e[k]}
  <1>5. T \in SUBSET Nat /\ 0 \in T
    BY <1>1, <1>2, <1>4
  <1>6. ASSUME NEW k \in 0 .. m - 1, k \in T PROVE k + 1 \in T
    <2>1. k + 1 \in 1 .. N /\ (k + 1) - 1 = k /\ E[k] = e[k]
      BY <1>1, <1>6
    <2>2. E[k + 1] = E[k] + Size(k + 1) /\ e[k + 1] = e[k] + Size(k + 1)
      BY <1>2, <1>4, <2>1
    <2> QED BY <1>1, <2>1, <2>2
  <1>7. m \in T
    <2>1. m \in Nat
      BY <1>1
    <2> HIDE DEF T
    <2> QED BY <1>5, <1>6, <2>1, InductionUpTo
  <1> QED BY <1>7

LEMMA Concatenated ==
  ASSUME NEW T, NEW s \in Seq(T), NEW d \in Seq(T)
  PROVE  /\ s \o d \in Seq(T) /\ Len(s \o d) = Len(s) + Len(d) /\ Len(s) \in Nat /\ Len(d) \in Nat
         /\ \A i \in 1 .. Len(s \o d) : (s \o d)[i] = IF i <= Len(s) THEN s[i] ELSE d[i - Len(s)]
  OBVIOUS

(* Records are added while the connection lives: no notify is among those  *)
(* that are there, nor, but in the last place, among the new ones.         *)
LEMMA AddedNotified ==
  ASSUME NEW c \in Client, Notified(c), c.cryptography_state # "CS_PENDING_SHUTDOWN",
         NEW d \in Seq(Output), NEW x,
         x.response_stream = c.response_stream \o d,
         \A i \in 1 .. Len(d) :
           /\ d[i] # "plain"
           /\ d[i] = "notify" => i = Len(d) /\ x.cryptography_state = "CS_PENDING_SHUTDOWN"
  PROVE  Notified(x)
  <1> DEFINE s == c.response_stream
  <1>1. s \in Seq(Output)
    BY Fields
  <1>2. /\ Len(s \o d) = Len(s) + Len(d) /\ Len(s) \in Nat /\ Len(d) \in Nat
        /\ \A i \in 1 .. Len(s \o d) : (s \o d)[i] = IF i <= Len(s) THEN s[i] ELSE d[i - Len(s)]
    BY <1>1, Concatenated
  <1> SUFFICES ASSUME NEW i \in 1 .. Len(x.response_stream)
               PROVE  /\ x.response_stream[i] # "plain"
                      /\ x.response_stream[i] = "notify" =>
                           /\ i = Len(x.response_stream)
                           /\ x.cryptography_state = "CS_PENDING_SHUTDOWN"
    BY DEF Notified
  <1>3. CASE i <= Len(s)
    <2>1. i \in 1 .. Len(s) /\ x.response_stream[i] = s[i]
      BY <1>2, <1>3
    <2> QED BY <2>1 DEF Notified
  <1>4. CASE i > Len(s)
    <2>1. i - Len(s) \in 1 .. Len(d) /\ x.response_stream[i] = d[i - Len(s)]
      BY <1>2, <1>4
    <2> QED BY <1>2, <2>1
  <1> QED BY <1>2, <1>3, <1>4

(* A client in the middle of its life: it may be given another response. *)
Active(c) == Sound(c) /\ ~c.dead /\ c.cryptography_state # "CS_PENDING_SHUTDOWN"

(* The records of a response, or of a silent one. *)
LEMMA SilentSound ==
  ASSUME NEW c \in Client, Notified(c), Described(c), c.cryptography_state # "CS_PENDING_SHUTDOWN",
         NEW d \in Seq({"handshake"})
  PROVE  LET x == cryptography_create_silent_response(c, d)
         IN  /\ x \in Client /\ Notified(x) /\ Described(x)
             /\ x.cryptography_state = c.cryptography_state /\ x.ssl = c.ssl /\ x.dead = c.dead
             /\ x.parser = c.parser
  <1>1. CASE d = <<>>
    BY <1>1 DEF cryptography_create_silent_response
  <1>2. CASE d # <<>>
    <2> DEFINE r == Silent(Len(d))
    <2>1. PICK x : x = cryptography_create_silent_response(c, d)
      OBVIOUS
    <2>2. d \in Seq(Output) /\ Len(d) \in Nat /\ r \in Responses /\ r.stream_size = Len(d)
      BY DEF Output, Silent, Responses
    <2>3. x = [c EXCEPT !.response_stream = c.response_stream \o d,
                        !.response_queue = Append(c.response_queue, r),
                        !.response = IF c.response_count = 0 THEN r ELSE c.response,
                        !.response_count = c.response_count + 1]
      BY <1>2, <2>1 DEF cryptography_create_silent_response, Counted, Pushed, Client
    <2> HIDE DEF r
    <2>4. /\ x.response_queue = Append(c.response_queue, r)
          /\ x.response_count = c.response_count + 1
          /\ x.response = IF c.response_count = 0 THEN r ELSE c.response
          /\ x.response_stream = c.response_stream \o d
          /\ x.cryptography_state = c.cryptography_state /\ x.ssl = c.ssl /\ x.dead = c.dead
          /\ x.parser = c.parser
      BY <2>3 DEF Client
    <2>5. x \in Client
      <3>1. /\ Append(c.response_queue, r) \in Seq(Responses) /\ c.response_stream \o d \in Seq(Output)
            /\ (IF c.response_count = 0 THEN r ELSE c.response) \in Responses
            /\ c.response_count + 1 \in Nat
        BY <2>2, Fields
      <3> QED BY <2>3, <3>1 DEF Client
    <2>6. Described(x)
      BY <2>2, <2>4, AddedDescribed
    <2>7. Notified(x)
      <3>1. \A i \in 1 .. Len(d) : d[i] = "handshake"
        OBVIOUS
      <3> QED BY <2>2, <2>4, <3>1, AddedNotified
    <2> QED BY <2>1, <2>4, <2>5, <2>6, <2>7
  <1> QED BY <1>1, <1>2

LEMMA EncryptedSound ==
  ASSUME TlsAssumption, NEW c \in Client, Notified(c), Described(c),
         c.cryptography_state # "CS_PENDING_SHUTDOWN", NEW keep \in BOOLEAN
  PROVE  LET x == Counted(cryptography_encrypt(Pushed(c, Response(keep))))
         IN  /\ x \in Client /\ Notified(x) /\ Described(x)
             /\ x.cryptography_state = c.cryptography_state /\ x.ssl = c.ssl /\ x.dead = c.dead
             /\ x.parser = c.parser
  <1> DEFINE r == [Response(keep) EXCEPT !.stream_size = RecordsOf]
             first == IF c.response_count = 0 THEN r ELSE c.response
  <1>1. PICK x : x = Counted(cryptography_encrypt(Pushed(c, Response(keep))))
    OBVIOUS
  <1>2. PICK d : d = [i \in 1 .. RecordsOf |-> "data"]
    OBVIOUS
  <1>3. RecordsOf \in Nat
    BY DEF TlsAssumption
  <1>4. /\ d \in Seq({"data"}) /\ d \in Seq(Output) /\ Len(d) = RecordsOf
        /\ \A i \in 1 .. Len(d) : d[i] = "data"
    <2>1. d \in [1 .. RecordsOf -> {"data"}]
      BY <1>2
    <2>2. d \in Seq({"data"}) /\ Len(d) = RecordsOf
      BY <1>3, <2>1
    <2>3. d \in [1 .. RecordsOf -> Output]
      BY <1>2 DEF Output
    <2>4. d \in Seq(Output)
      BY <1>3, <2>3
    <2> QED BY <1>2, <2>2, <2>4
  <1>5. /\ Response(keep) \in Responses /\ r \in Responses /\ r.stream_size = RecordsOf
    BY <1>3 DEF Responses, Response
  <1>6. PICK queued : queued = Append(c.response_queue, Response(keep))
    OBVIOUS
  <1>7. /\ queued \in Seq(Responses) /\ Len(queued) \in 1 .. Len(queued) /\ queued[Len(queued)] = Response(keep)
        /\ [queued EXCEPT ![Len(queued)] = r] = Append(c.response_queue, r)
    <2>1. /\ c.response_queue \in Seq(Responses) /\ Len(c.response_queue) \in Nat
      BY Fields
    <2>2. /\ queued \in Seq(Responses) /\ Len(queued) = Len(c.response_queue) + 1 /\ queued[Len(queued)] = Response(keep)
          /\ \A k \in 1 .. Len(c.response_queue) : queued[k] = c.response_queue[k]
      BY <1>5, <1>6, <2>1
    <2> HIDE DEF r
    <2>3. PICK p : p = [queued EXCEPT ![Len(queued)] = r]
      OBVIOUS
    <2>4. /\ p \in Seq(Responses) /\ Len(p) = Len(queued)
          /\ \A k \in 1 .. Len(queued) : p[k] = IF k = Len(queued) THEN r ELSE queued[k]
      BY <1>5, <2>2, <2>3
    <2>5. PICK a : a = Append(c.response_queue, r)
      OBVIOUS
    <2>6. /\ a \in Seq(Responses) /\ Len(a) = Len(queued)
          /\ \A k \in 1 .. Len(queued) : a[k] = IF k = Len(queued) THEN r ELSE queued[k]
      BY <1>5, <2>1, <2>2, <2>5
    <2>7. p = a
      <3>1. \A k \in 1 .. Len(queued) : p[k] = a[k]
        BY <2>4, <2>6
      <3>2. p = [k \in 1 .. Len(queued) |-> p[k]] /\ a = [k \in 1 .. Len(queued) |-> a[k]]
        BY <2>4, <2>6
      <3> QED BY <3>1, <3>2
    <2> QED BY <2>1, <2>2, <2>3, <2>5, <2>7
  <1>8. x = [c EXCEPT !.response_stream = c.response_stream \o d,
                      !.response_queue = Append(c.response_queue, r),
                      !.response = first,
                      !.response_count = c.response_count + 1]
    <2>1. PICK p : p = Pushed(c, Response(keep))
      OBVIOUS
    <2>2. /\ p.response_queue = queued /\ p.response_count = c.response_count
          /\ p.response_stream = c.response_stream
          /\ p.response = IF c.response_count = 0 THEN Response(keep) ELSE c.response
          /\ p = [c EXCEPT !.response_queue = queued, !.response = p.response]
      BY <1>6, <2>1 DEF Pushed, Client
    <2>3. PICK y : y = cryptography_encrypt(p)
      OBVIOUS
    <2>4. [queued EXCEPT ![Len(queued)].stream_size = RecordsOf] = [queued EXCEPT ![Len(queued)] = r]
      BY <1>7
    <2>5. [p.response EXCEPT !.stream_size = IF p.response_count = 0 THEN RecordsOf
                                             ELSE p.response.stream_size] = first
      <3>1. c.response \in Responses
        BY Fields
      <3>2. CASE c.response_count = 0
        BY <2>2, <3>2
      <3>3. CASE c.response_count # 0
        BY <2>2, <3>1, <3>3 DEF Responses
      <3> QED BY <3>2, <3>3
    <2>6. y = [p EXCEPT !.response_stream = p.response_stream \o d,
                        !.response_queue = [queued EXCEPT ![Len(queued)].stream_size = RecordsOf],
                        !.response = first]
      BY <1>2, <2>2, <2>3, <2>5 DEF cryptography_encrypt, Client
    <2> HIDE DEF r, first
    <2>7. y = [c EXCEPT !.response_stream = c.response_stream \o d,
                        !.response_queue = Append(c.response_queue, r),
                        !.response = first]
      BY <1>7, <2>2, <2>4, <2>6 DEF Client
    <2> QED BY <1>1, <2>1, <2>3, <2>7 DEF Counted, Client
  <1> HIDE DEF r
  <1>9. /\ x.response_queue = Append(c.response_queue, r)
        /\ x.response_count = c.response_count + 1
        /\ x.response = IF c.response_count = 0 THEN r ELSE c.response
        /\ x.response_stream = c.response_stream \o d
        /\ x.cryptography_state = c.cryptography_state /\ x.ssl = c.ssl /\ x.dead = c.dead
        /\ x.parser = c.parser
    BY <1>8 DEF Client
  <1>10. x \in Client
    <2>1. /\ Append(c.response_queue, r) \in Seq(Responses) /\ c.response_stream \o d \in Seq(Output)
          /\ first \in Responses /\ c.response_count + 1 \in Nat
      BY <1>4, <1>5, Fields
    <2> QED BY <1>8, <2>1 DEF Client
  <1>11. Described(x)
    BY <1>4, <1>5, <1>9, AddedDescribed
  <1>12. Notified(x)
    BY <1>4, <1>9, AddedNotified
  <1> QED BY <1>1, <1>9, <1>10, <1>11, <1>12

(* The close_notify is put behind everything else. *)
LEMMA FinalizedSound ==
  ASSUME NEW c \in Client, Notified(c), Described(c), c.cryptography_state # "CS_PENDING_SHUTDOWN"
  PROVE  LET x == cryptography_finalize(c)
         IN  /\ x \in Client /\ Notified(x) /\ Described(x) /\ x.ssl = FALSE /\ x.dead = c.dead
             /\ x.cryptography_state = "CS_PENDING_SHUTDOWN" /\ x.parser = c.parser
  <1> DEFINE r == Silent(1)
             d == <<"notify">>
             first == IF c.response_count = 0 THEN r ELSE c.response
  <1>1. PICK x : x = cryptography_finalize(c)
    OBVIOUS
  <1>2. /\ d \in Seq(Output) /\ Len(d) = 1 /\ d[1] = "notify" /\ d # <<>>
        /\ r \in Responses /\ r.stream_size = 1
    BY DEF Output, Silent, Responses
  <1>3. x = [c EXCEPT !.response_stream = c.response_stream \o d,
                      !.response_queue = Append(c.response_queue, r),
                      !.response = first,
                      !.response_count = c.response_count + 1,
                      !.cryptography_state = "CS_PENDING_SHUTDOWN", !.ssl = FALSE]
    <2>1. PICK y : y = cryptography_create_silent_response(c, d)
      OBVIOUS
    <2>2. y = [c EXCEPT !.response_stream = c.response_stream \o d,
                        !.response_queue = Append(c.response_queue, r),
                        !.response = first,
                        !.response_count = c.response_count + 1]
      BY <1>2, <2>1 DEF cryptography_create_silent_response, Counted, Pushed, Client
    <2> HIDE DEF r, first, d
    <2>3. x = [y EXCEPT !.cryptography_state = "CS_PENDING_SHUTDOWN", !.ssl = FALSE]
      BY <1>1, <2>1 DEF cryptography_finalize, d
    <2> QED BY <2>2, <2>3 DEF Client
  <1> HIDE DEF r
  <1>4. /\ x.response_queue = Append(c.response_queue, r)
        /\ x.response_count = c.response_count + 1
        /\ x.response = IF c.response_count = 0 THEN r ELSE c.response
        /\ x.response_stream = c.response_stream \o d
        /\ x.cryptography_state = "CS_PENDING_SHUTDOWN" /\ x.ssl = FALSE /\ x.dead = c.dead
        /\ x.parser = c.parser
    BY <1>3 DEF Client
  <1>5. x \in Client
    <2>1. /\ Append(c.response_queue, r) \in Seq(Responses) /\ c.response_stream \o d \in Seq(Output)
          /\ first \in Responses /\ c.response_count + 1 \in Nat
      BY <1>2, Fields
    <2> HIDE DEF first, d
    <2> QED BY <1>3, <2>1 DEF Client, States
  <1>6. Described(x)
    BY <1>2, <1>4, AddedDescribed
  <1>7. Notified(x)
    <2>1. \A i \in 1 .. Len(d) : d[i] # "plain" /\ i = Len(d)
      BY <1>2
    <2> HIDE DEF d
    <2> QED BY <1>2, <1>4, <2>1, AddedNotified
  <1> QED BY <1>1, <1>4, <1>5, <1>6, <1>7

LEMMA DeadSound ==
  ASSUME NEW c \in Client, Notified(c)
  PROVE  Sound(Dead(c)) /\ Dead(c).dead
  <1>1. /\ Dead(c) \in Client /\ Dead(c).dead /\ Dead(c).response_stream = c.response_stream
        /\ Dead(c).cryptography_state = c.cryptography_state
    BY DEF Dead, Client
  <1> QED BY <1>1 DEF Sound, Notified

(* An error: the client gets its fixed response and close_notify, or ends. *)
LEMMA RecoveredSound ==
  ASSUME TlsAssumption, NEW c, Sound(c), ~c.dead
  PROVE  /\ Recovers(c) => Sound(server_process_client_round_recovery(c))
         /\ Recovers(c) => c.ssl = TRUE
         /\ Sound(Dead(c))
  <1>1. c \in Client /\ Notified(c) /\ Living(c) /\ Described(c)
    BY DEF Sound, Living
  <1>2. Sound(Dead(c))
    BY <1>1, DeadSound
  <1>3. ASSUME Recovers(c), c.cryptography_state = "CS_OPERATIONAL"
        PROVE  Sound(server_process_client_round_recovery(c))
    <2>1. PICK y : y = Counted(cryptography_encrypt(Pushed(c, Response(FALSE))))
      OBVIOUS
    <2>2. /\ y \in Client /\ Notified(y) /\ Described(y)
          /\ y.cryptography_state = "CS_OPERATIONAL" /\ y.dead = c.dead
      BY <1>1, <1>3, <2>1, EncryptedSound
    <2>3. PICK x : x = cryptography_finalize(y)
      OBVIOUS
    <2>4. /\ x \in Client /\ Notified(x) /\ Described(x) /\ x.ssl = FALSE
          /\ x.cryptography_state = "CS_PENDING_SHUTDOWN"
      BY <2>2, <2>3, FinalizedSound
    <2>5. Sound(x)
      BY <2>4 DEF Sound, Living
    <2>6. server_process_client_round_recovery(c) = x
      BY <1>3, <2>1, <2>3 DEF server_process_client_round_recovery
    <2> QED BY <2>5, <2>6
  <1>4. ASSUME Recovers(c), c.cryptography_state # "CS_OPERATIONAL"
        PROVE  Sound(server_process_client_round_recovery(c))
    BY <1>2, <1>4 DEF server_process_client_round_recovery
  <1>5. Recovers(c) => c.ssl = TRUE
    BY <1>1, Fields DEF Recovers
  <1> QED BY <1>2, <1>3, <1>4, <1>5

(* What was sent is taken off the stream, and off the responses: of those  *)
(* that are complete nothing is left, of the next one what is not sent.    *)
LEMMA PoppedSound ==
  ASSUME NEW c, Sound(c), ~c.dead, c.response_stream # <<>>, NEW n \in 0 .. Len(c.response_stream)
  PROVE  LET x == server_pop_responses(c, n)
         IN  Sound(x) /\ x.dead = FALSE
  <1> DEFINE queued == c.response_queue
             N == Len(queued)
             s == c.response_stream
  <1>1. /\ c \in Client /\ Notified(c) /\ Living(c) /\ Described(c) /\ c.response_count = N
        /\ queued \in Seq(Responses) /\ N \in Nat /\ s \in Seq(Output) /\ Len(s) \in Nat /\ n \in Nat
        /\ c.dead = FALSE
    BY Fields DEF Sound, Living, Described
  <1>2. PICK e \in [0 .. N -> Int] : LaidOut(e, c)
    BY <1>1 DEF Described
  <1>3. /\ e[0] = 0 /\ e[N] = Len(s)
        /\ \A k \in 1 .. N : e[k] = e[k - 1] + Pending(c, k).stream_size
    BY <1>2 DEF LaidOut
  <1>4. \A k \in 0 .. N : Ends(c)[k] = e[k]
    BY <1>1, <1>2, EndsOfDescribed
  <1>5. N >= 1
    <2>1. Len(s) # 0
      BY <1>1
    <2> QED BY <1>1, <1>3, <2>1
  <1> DEFINE Here(k) == Ends(c)[k] <= n /\ (k < N => Ends(c)[k + 1] > n)
  <1>6. \E k \in 0 .. N : Here(k)
    <2> DEFINE Late == {k \in 0 .. N : e[k] > n}
    <2>1. CASE Late = {}
      <3>1. N \in 0 .. N /\ ~ (N < N) /\ N \notin Late
        BY <1>1, <2>1
      <3>2. e[N] <= n
        BY <1>1, <1>2, <3>1
      <3> QED BY <1>4, <3>1, <3>2
    <2>2. CASE Late # {}
      <3>1. Late \in SUBSET Nat
        BY <1>1
      <3>2. PICK k \in Late : \A m \in Late : k <= m
        <4> HIDE DEF Late
        <4> QED BY <2>2, <3>1, SmallestNumber
      <3>3. k \in 1 .. N /\ e[k] > n
        BY <1>1, <1>3, <3>2
      <3>4. k - 1 \in 0 .. N /\ k - 1 \notin Late /\ (k - 1) + 1 = k
        BY <1>1, <3>2, <3>3
      <3>5. e[k - 1] <= n
        BY <1>1, <1>2, <3>4
      <3> QED BY <1>4, <3>3, <3>4, <3>5
    <2> QED BY <2>1, <2>2
  <1>7. PICK p : p = CHOOSE k \in 0 .. N : Here(k)
    OBVIOUS
  <1>8. p \in 0 .. N /\ Here(p)
    <2> HIDE DEF Here
    <2> QED BY <1>6, <1>7, Zenon
  <1>9. e[p] <= n /\ (p < N => e[p + 1] > n)
    BY <1>1, <1>4, <1>8
  <1> DEFINE remains == IF p = N THEN [Pending(c, p) EXCEPT !.stream_size = 0]
                         ELSE [Pending(c, p + 1) EXCEPT !.stream_size = Ends(c)[p + 1] - n]
             rest == SubSeq(queued, p + 1, N)
  <1>10. PICK x : x = server_pop_responses(c, n)
    OBVIOUS
  <1>11. x = [c EXCEPT !.response_queue = rest, !.response_count = c.response_count - p,
                       !.response = remains, !.response_stream = SubSeq(s, n + 1, Len(s))]
    <2> HIDE DEF remains, rest
    <2> QED BY <1>7, <1>10 DEF server_pop_responses, remains, rest
  <1>12. /\ remains \in Responses
         /\ p < N => remains.stream_size = e[p + 1] - n
    <2>1. CASE p = N
      <3>1. p \in 1 .. N
        BY <1>1, <1>5, <2>1
      <3>2. Pending(c, p) \in Responses
        BY <1>1, <3>1, PendingType
      <3> QED BY <1>1, <2>1, <3>2 DEF Responses
    <2>2. CASE p # N
      <3>1. p + 1 \in 1 .. N /\ p < N /\ p + 1 \in 0 .. N
        BY <1>1, <1>8, <2>2
      <3>2. Pending(c, p + 1) \in Responses
        BY <1>1, <3>1, PendingType
      <3>3. Ends(c)[p + 1] = e[p + 1] /\ e[p + 1] \in Int /\ e[p + 1] > n
        BY <1>2, <1>4, <1>9, <3>1
      <3>4. Ends(c)[p + 1] - n \in Nat
        BY <1>1, <3>3
      <3> QED BY <2>2, <3>2, <3>3, <3>4 DEF Responses
    <2> QED BY <2>1, <2>2
  <1>13. /\ rest \in Seq(Responses) /\ Len(rest) = N - p
         /\ \A k \in 1 .. N - p : rest[k] = queued[p + k]
    BY <1>1, <1>8
  <1>14. /\ SubSeq(s, n + 1, Len(s)) \in Seq(Output) /\ Len(SubSeq(s, n + 1, Len(s))) = Len(s) - n
         /\ \A i \in 1 .. Len(s) - n : SubSeq(s, n + 1, Len(s))[i] = s[n + i]
    BY <1>1
  <1> HIDE DEF remains, rest, Here
  <1>15. /\ x.response_queue = rest /\ x.response_count = N - p /\ x.response = remains
         /\ x.response_stream = SubSeq(s, n + 1, Len(s))
         /\ x.cryptography_state = c.cryptography_state /\ x.ssl = c.ssl /\ x.dead = FALSE
    BY <1>1, <1>11 DEF Client
  <1>16. x \in Client
    <2>1. c.response_count - p \in Nat
      BY <1>1, <1>8
    <2> QED BY <1>1, <1>11, <1>12, <1>13, <1>14, <2>1 DEF Client
  <1>17. Notified(x)
    <2> SUFFICES ASSUME NEW i \in 1 .. Len(x.response_stream)
                 PROVE  /\ x.response_stream[i] # "plain"
                        /\ x.response_stream[i] = "notify" =>
                             /\ i = Len(x.response_stream)
                             /\ x.cryptography_state = "CS_PENDING_SHUTDOWN"
      BY DEF Notified
    <2>1. i \in 1 .. Len(s) - n /\ n + i \in 1 .. Len(s) /\ x.response_stream[i] = s[n + i]
      BY <1>1, <1>14, <1>15
    <2>2. /\ s[n + i] # "plain"
          /\ s[n + i] = "notify" => n + i = Len(s) /\ c.cryptography_state = "CS_PENDING_SHUTDOWN"
      BY <1>1, <2>1 DEF Notified
    <2>3. /\ i \in Int /\ n \in Int /\ Len(s) \in Int
          /\ Len(x.response_stream) = Len(s) - n /\ x.cryptography_state = c.cryptography_state
      BY <1>1, <1>14, <1>15, <2>1
    <2>4. n + i = Len(s) => i = Len(x.response_stream)
      BY <2>3
    <2> QED BY <2>1, <2>2, <2>3, <2>4
  <1>18. Described(x)
    <2> DEFINE f == [k \in 0 .. N - p |-> IF k = 0 THEN 0 ELSE e[p + k] - n]
    <2>1. \A k \in 1 .. N - p : p + k \in 1 .. N /\ p + k \in 0 .. N /\ e[p + k] \in Int
      BY <1>1, <1>2, <1>8
    <2>2. f \in [0 .. N - p -> Int] /\ f[0] = 0 /\ \A k \in 1 .. N - p : f[k] = e[p + k] - n
      BY <1>1, <1>8, <2>1
    <2> HIDE DEF f
    <2>3. f[N - p] = Len(s) - n
      <3>1. CASE p = N
        <4>1. n = Len(s)
          BY <1>1, <1>3, <1>9, <3>1
        <4> QED BY <1>1, <2>2, <3>1, <4>1
      <3>2. CASE p # N
        <4>1. N - p \in 1 .. N - p /\ p + (N - p) = N
          BY <1>1, <1>8, <3>2
        <4> QED BY <1>3, <2>2, <4>1
      <3> QED BY <3>1, <3>2
    <2>4. ASSUME NEW k \in 1 .. N - p
          PROVE  f[k] = f[k - 1] + Pending(x, k).stream_size
      <3>1. CASE k = 1
        <4>1. p < N /\ Pending(x, k) = remains
          BY <1>1, <1>8, <1>15, <3>1 DEF Pending
        <4> QED BY <1>1, <1>12, <2>1, <2>2, <3>1, <4>1
      <3>2. CASE k # 1
        <4>1. k - 1 \in 1 .. N - p /\ p + k \in 1 .. N /\ p + k # 1 /\ p + (k - 1) = (p + k) - 1
          BY <1>1, <1>8, <3>2
        <4>2. Pending(x, k) = Pending(c, p + k)
          BY <1>13, <1>15, <3>2, <4>1 DEF Pending
        <4>3. /\ e[p + k] = e[p + (k - 1)] + Pending(c, p + k).stream_size
              /\ f[k] = e[p + k] - n /\ f[k - 1] = e[p + (k - 1)] - n
          BY <1>3, <2>2, <4>1
        <4>4. e[p + (k - 1)] \in Int /\ Pending(c, p + k).stream_size \in Nat
          BY <1>1, <2>1, <4>1, PendingType
        <4> QED BY <1>1, <4>2, <4>3, <4>4
      <3> QED BY <3>1, <3>2
    <2>5. LaidOut(f, x)
      BY <1>13, <1>14, <1>15, <2>2, <2>3, <2>4 DEF LaidOut
    <2>6. x.response_count = Len(x.response_queue) /\ Len(x.response_queue) = N - p
      BY <1>13, <1>15
    <2> QED BY <2>2, <2>5, <2>6 DEF Described
  <1>19. Sound(x)
    BY <1>1, <1>15, <1>16, <1>17, <1>18 DEF Sound, Living
  <1> QED BY <1>10, <1>15, <1>19

(* SSL_accept consumes records and makes some, which it may do only before *)
(* the handshake is over.                                                  *)
LEMMA AcceptedSound ==
  ASSUME NEW c \in Client, Notified(c), Described(c), c.cryptography_state # "CS_PENDING_SHUTDOWN",
         NEW a \in Accepted(c)
  PROVE  /\ a.out \in Seq({"handshake"})
         /\ a.client \in Client /\ Notified(a.client) /\ Described(a.client)
         /\ a.client.cryptography_state # "CS_PENDING_SHUTDOWN"
         /\ a.client.ssl = c.ssl /\ a.client.dead = c.dead
  <1>0. <<>> \in Seq({"handshake"}) /\ <<"handshake">> \in Seq({"handshake"})
    OBVIOUS
  <1>1. CASE c.cryptography_state # "CS_PENDING_HANDSHAKE" \/ c.read_bio = <<>>
    <2>1. a = [client |-> c, out |-> <<>>]
      BY <1>1 DEF Accepted
    <2>2. a.client = c /\ a.out = <<>>
      BY <2>1
    <2> QED BY <1>0, <2>2
  <1>2. CASE ~ (c.cryptography_state # "CS_PENDING_HANDSHAKE" \/ c.read_bio = <<>>)
    <2>1. PICK rest : rest = [c EXCEPT !.read_bio = Tail(c.read_bio)]
      OBVIOUS
    <2>2. rest \in Client
      <3>1. Tail(c.read_bio) \in Seq(Records)
        BY <1>2, Fields
      <3> QED BY <2>1, <3>1 DEF Client
    <2>3. /\ rest.response_queue = c.response_queue /\ rest.response_count = c.response_count
          /\ rest.response = c.response /\ rest.response_stream = c.response_stream
          /\ rest.cryptography_state = c.cryptography_state /\ rest.ssl = c.ssl /\ rest.dead = c.dead
      BY <2>1 DEF Client
    <2>4. PICK reached \in {"CS_PENDING_HANDSHAKE", "CS_OPERATIONAL", "CS_SHUTDOWN"} :
            /\ a.client = [rest EXCEPT !.cryptography_state = reached]
            /\ a.out \in {<<>>, <<"handshake">>}
      <3>1. CASE Head(c.read_bio) = "hello"
        <4>1. a = [client |-> rest, out |-> <<"handshake">>]
          BY <1>2, <2>1, <3>1 DEF Accepted
        <4>2. rest = [rest EXCEPT !.cryptography_state = "CS_PENDING_HANDSHAKE"]
          BY <1>2, <2>2, <2>3 DEF Client
        <4> QED BY <4>1, <4>2
      <3>2. CASE Head(c.read_bio) = "finished"
        BY <1>2, <2>1, <3>2 DEF Accepted
      <3>3. CASE Head(c.read_bio) \notin {"hello", "finished"}
        BY <1>2, <2>1, <3>3 DEF Accepted
      <3> QED BY <3>1, <3>2, <3>3
    <2>5. PICK x : x = a.client
      OBVIOUS
    <2>6. /\ x \in Client /\ x.cryptography_state = reached
          /\ x.response_queue = c.response_queue /\ x.response_count = c.response_count
          /\ x.response = c.response /\ x.response_stream = c.response_stream
          /\ x.ssl = c.ssl /\ x.dead = c.dead
      BY <2>2, <2>3, <2>4, <2>5 DEF Client, States
    <2>7. Described(x)
      BY <2>6, SameDescribed
    <2>8. Notified(x)
      BY <1>2, <2>6 DEF Notified
    <2>9. a.out \in Seq({"handshake"})
      BY <1>0, <2>4
    <2> QED BY <2>4, <2>5, <2>6, <2>7, <2>8, <2>9
  <1> QED BY <1>1, <1>2

(* The pump moves requests and notices the end; it writes nothing. *)
LEMMA PumpedSound ==
  ASSUME NEW c \in Client, Notified(c), Described(c), c.cryptography_state # "CS_PENDING_SHUTDOWN",
         NEW x \in cryptography_pump_to_ring(c)
  PROVE  /\ x \in Client /\ Notified(x) /\ Described(x)
         /\ x.cryptography_state # "CS_PENDING_SHUTDOWN"
         /\ x.ssl = c.ssl /\ x.dead = c.dead
  <1>1. CASE c.cryptography_state # "CS_OPERATIONAL" \/ c.read_bio = <<>>
    BY <1>1 DEF cryptography_pump_to_ring
  <1>2. CASE ~ (c.cryptography_state # "CS_OPERATIONAL" \/ c.read_bio = <<>>)
    <2>1. PICK bio : bio = c.read_bio
      OBVIOUS
    <2>2. bio \in Seq(Records) /\ Len(bio) \in Nat /\ c.request_stream \in Seq(Requests \cup {"raw"})
      BY <2>1, Fields
    <2> DEFINE Reads == {n \in 0 .. Len(bio) : \A i \in 1 .. n : bio[i] \in Requests}
               Read(n) == [c EXCEPT !.read_bio = SubSeq(bio, n + 1, Len(bio)),
                                    !.request_stream = c.request_stream \o SubSeq(bio, 1, n)]
               Closed(n) == [Read(n) EXCEPT !.read_bio = <<>>, !.cryptography_state = "CS_SHUTDOWN"]
    <2>3. \E n \in Reads : x = Read(n) \/ x = Closed(n)
      <3> DEFINE Closes == {n \in Reads : n < Len(bio) /\ bio[n + 1] \notin Requests}
      <3>1. cryptography_pump_to_ring(c) = {Read(n) : n \in Reads \ {0}} \cup {Closed(n) : n \in Closes}
        BY <1>2, <2>1, Zenon DEF cryptography_pump_to_ring
      <3>2. Closes \subseteq Reads
        OBVIOUS
      <3> HIDE DEF Reads, Read, Closed, Closes
      <3> QED BY <3>1, <3>2
    <2>4. PICK n \in Reads : x = Read(n) \/ x = Closed(n)
      BY <2>3
    <2>5. PICK after : after = SubSeq(bio, n + 1, Len(bio))
      OBVIOUS
    <2>6. PICK received : received = c.request_stream \o SubSeq(bio, 1, n)
      OBVIOUS
    <2>7. after \in Seq(Records) /\ received \in Seq(Requests \cup {"raw"})
      <3>1. after \in Seq(Records)
        BY <2>2, <2>5
      <3>2. SubSeq(bio, 1, n) \in Seq(Requests \cup {"raw"})
        <4>1. n \in 0 .. Len(bio) /\ \A i \in 1 .. n : bio[i] \in Requests
          OBVIOUS
        <4>2. SubSeq(bio, 1, n) = [i \in 1 .. n |-> bio[i]]
          BY <2>2, <4>1
        <4>3. [i \in 1 .. n |-> bio[i]] \in [1 .. n -> Requests \cup {"raw"}] /\ n \in Nat
          BY <2>2, <4>1
        <4>4. [i \in 1 .. n |-> bio[i]] \in Seq(Requests \cup {"raw"})
          BY <4>3
        <4> QED BY <4>2, <4>4
      <3> QED BY <2>2, <2>6, <3>1, <3>2, Concatenated
    <2>8. PICK y : y = [c EXCEPT !.read_bio = after, !.request_stream = received]
      OBVIOUS
    <2>9. x = y \/ x = [y EXCEPT !.read_bio = <<>>, !.cryptography_state = "CS_SHUTDOWN"]
      BY <2>4, <2>5, <2>6, <2>8
    <2> HIDE DEF Reads, Read, Closed
    <2>10. /\ y \in Client
           /\ y.response_queue = c.response_queue /\ y.response_count = c.response_count
           /\ y.response = c.response /\ y.response_stream = c.response_stream
           /\ y.cryptography_state = c.cryptography_state /\ y.ssl = c.ssl /\ y.dead = c.dead
      BY <2>7, <2>8 DEF Client
    <2>11. /\ x \in Client
           /\ x.response_queue = c.response_queue /\ x.response_count = c.response_count
           /\ x.response = c.response /\ x.response_stream = c.response_stream
           /\ x.cryptography_state \in {c.cryptography_state, "CS_SHUTDOWN"}
           /\ x.ssl = c.ssl /\ x.dead = c.dead
      <3>1. CASE x = y
        BY <2>10, <3>1
      <3>2. CASE x = [y EXCEPT !.read_bio = <<>>, !.cryptography_state = "CS_SHUTDOWN"]
        <4>1. <<>> \in Seq(Records)
          OBVIOUS
        <4> QED BY <2>10, <3>2, <4>1 DEF Client, States
      <3> QED BY <2>9, <3>1, <3>2
    <2>12. Described(x)
      BY <2>11, SameDescribed
    <2>13. Notified(x)
      BY <1>2, <2>11 DEF Notified
    <2> QED BY <2>11, <2>12, <2>13
  <1> QED BY <1>1, <1>2

LEMMA DecryptedSound ==
  ASSUME NEW c, Sound(c), ~c.dead, c.ssl, NEW come \in Seq(Records),
         NEW x \in cryptography_decrypt(c, come)
  PROVE  /\ x \in Client /\ Notified(x) /\ Described(x) /\ x.ssl = TRUE /\ x.dead = FALSE
         /\ x.cryptography_state # "CS_PENDING_SHUTDOWN"
  <1>1. /\ c \in Client /\ Notified(c) /\ Living(c) /\ Described(c)
        /\ c.cryptography_state # "CS_PENDING_SHUTDOWN" /\ c.ssl = TRUE /\ c.dead = FALSE
    BY Fields DEF Sound, Living
  <1>2. PICK y : y = [c EXCEPT !.read_bio = c.read_bio \o come]
    OBVIOUS
  <1>3. /\ y \in Client
        /\ y.response_queue = c.response_queue /\ y.response_count = c.response_count
        /\ y.response = c.response /\ y.response_stream = c.response_stream
        /\ y.cryptography_state = c.cryptography_state /\ y.ssl = c.ssl /\ y.dead = c.dead
    <2>1. c.read_bio \o come \in Seq(Records)
      BY <1>1, Fields
    <2> QED BY <1>1, <1>2, <2>1 DEF Client
  <1>4. Notified(y) /\ Described(y)
    BY <1>1, <1>3, SameDescribed DEF Notified
  <1>5. PICK a \in Accepted(y) :
          \E d \in cryptography_pump_to_ring(a.client) : x = cryptography_create_silent_response(d, a.out)
    BY <1>2, Zenon DEF cryptography_decrypt
  <1>6. /\ a.out \in Seq({"handshake"})
        /\ a.client \in Client /\ Notified(a.client) /\ Described(a.client)
        /\ a.client.cryptography_state # "CS_PENDING_SHUTDOWN"
        /\ a.client.ssl = TRUE /\ a.client.dead = FALSE
    BY <1>1, <1>3, <1>4, AcceptedSound
  <1>7. PICK b : b = a.client
    OBVIOUS
  <1>p. PICK d \in cryptography_pump_to_ring(b) : x = cryptography_create_silent_response(d, a.out)
    BY <1>5, <1>7
  <1>8. /\ d \in Client /\ Notified(d) /\ Described(d)
        /\ d.cryptography_state # "CS_PENDING_SHUTDOWN" /\ d.ssl = TRUE /\ d.dead = FALSE
    BY <1>6, <1>7, PumpedSound
  <1> QED BY <1>6, <1>8, <1>p, SilentSound

------------------------------------------------------------------------------
(* Every step keeps the invariant.                                         *)

LEMMA InitInvariant ==
  ASSUME TlsAssumption, Init
  PROVE  IInv
  <1>1. NewClient \in Client
    BY DEF NewClient, Client, States, Responses, Silent
  <1>2. Notified(NewClient)
    BY DEF NewClient, Notified
  <1>3. Described(NewClient)
    <2>1. PICK c : c = NewClient
      OBVIOUS
    <2>2. c.response_queue = <<>> /\ c.response_stream = <<>> /\ c.response_count = 0
      BY <2>1 DEF NewClient
    <2>3. /\ [k \in 0 .. 0 |-> 0] \in [0 .. Len(c.response_queue) -> Int]
          /\ LaidOut([k \in 0 .. 0 |-> 0], c)
      BY <2>2 DEF LaidOut
    <2> QED BY <2>1, <2>2, <2>3 DEF Described
  <1>4. Sound(NewClient) /\ ~NewClient.dead
    BY <1>1, <1>2, <1>3 DEF Sound, Living, NewClient
  <1>5. Typed
    <2>1. <<>> \in Seq(Records)
      OBVIOUS
    <2>2. 0 \in 0 .. MaxRecords
      BY DEF TlsAssumption
    <2> QED BY <2>1, <2>2 DEF Init, Typed
  <1> QED BY <1>4, <1>5 DEF Init, IInv, PlainLast

LEMMA PeerStep ==
  ASSUME TlsAssumption, IInv,
         PeerHello \/ PeerFinished \/ PeerRequests \/ PeerNotifies \/ PeerCloses
  PROVE  IInv'
  <1>1. client' = client /\ pc' = pc /\ misused' = misused /\ plain' = plain
    BY DEF PeerHello, PeerFinished, PeerRequests, PeerNotifies, PeerCloses, PeerSends, visit, past
  <1>2. Typed'
    <2>1. /\ peer' \in {"new", "hello", "open", "notified", "closed"}
          /\ sent' = sent \/ (sent < MaxRecords /\ sent' = sent + 1)
          /\ socket' = socket \/ \E r \in Records : socket' = Append(socket, r)
      <3>1. \A r \in Requests : r \in Records
        BY DEF Records
      <3> QED BY <3>1 DEF IInv, Typed, PeerHello, PeerFinished, PeerRequests, PeerNotifies, PeerCloses,
                          PeerSends, Records
    <2>2. sent' \in 0 .. MaxRecords
      BY <2>1 DEF TlsAssumption, IInv, Typed
    <2>3. socket' \in Seq(Records)
      BY <2>1 DEF IInv, Typed
    <2>4. UNCHANGED <<pc, expired, exhausted, saturated, done, closing, plain>>
      BY DEF PeerHello, PeerFinished, PeerRequests, PeerNotifies, PeerCloses, PeerSends, visit, past
    <2> QED BY <2>1, <2>2, <2>3, <2>4 DEF IInv, Typed
  <1> QED BY <1>1, <1>2 DEF IInv, PlainLast

(* Steps of the loop that leave the client alone. *)
LEMMA IdleStep ==
  ASSUME IInv, Visit \/ NotReceive \/ NotProcess \/ NotSend
  PROVE  IInv'
  <1>1. client' = client /\ misused' = misused /\ plain' = plain
    BY DEF Visit, NotReceive, NotProcess, NotSend, past
  <1>2. ~client.dead
    BY DEF IInv, Visit, NotReceive, NotProcess, NotSend
  <1>3. Typed'
    <2>1. CASE Visit
      <3>1. expired' \in {"none", "request", "input", "failed"}
        BY <2>1 DEF Visit, Flags
      <3> QED BY <2>1, <3>1 DEF IInv, Typed, Visit, peers, past, get_makes_sense_to_send
    <2>2. CASE NotReceive \/ NotProcess \/ NotSend
      BY <2>2 DEF IInv, Typed, NotReceive, NotProcess, NotSend, NextStep, peers, past
    <2> QED BY <2>1, <2>2
  <1> QED BY <1>1, <1>2, <1>3 DEF IInv, PlainLast

(* After an error: a shutdown that OpenSSL has an object for, or the end.  *)
(* A fixed message in plain text goes to a client whose shutdown has begun,*)
(* for no other one that lives is without an SSL object.                   *)
LEMMA FailureSound ==
  ASSUME TlsAssumption, NEW c, NEW flags, Sound(c), ~c.dead, misused = FALSE, plain = FALSE,
         Failure(c, flags)
  PROVE  /\ Sound(client') /\ (client'.dead => pc' = "poll") /\ misused' = FALSE
         /\ plain' \in BOOLEAN /\ PlainLast'
         /\ done' = FALSE /\ pc' \in {"poll", "receive"}
  <1>1. done' = FALSE /\ pc' = IF client'.dead THEN "poll" ELSE "receive"
    BY DEF Failure, NextStep
  <1>2. /\ Recovers(c) => Sound(server_process_client_round_recovery(c)) /\ c.ssl = TRUE
        /\ Sound(Dead(c))
    BY RecoveredSound
  <1>3. CASE Recovers(c) /\ "shutdown" \in flags /\ Recovery(c)
    <2>1. client' \in {server_process_client_round_recovery(c), Dead(c)} /\ plain' = FALSE
      BY <1>3 DEF Recovery
    <2>2. misused' = FALSE
      BY <1>2, <1>3 DEF Recovery
    <2> QED BY <1>1, <1>2, <1>3, <2>1, <2>2 DEF PlainLast
  <1>4. CASE Farewell(c, flags)
    <2>1. /\ client' = Dead(c) /\ misused' = FALSE /\ plain' \in BOOLEAN
          /\ plain' => ~c.ssl
      BY <1>4 DEF Farewell
    <2>2. c \in Client /\ Living(c)
      BY DEF Sound
    <2>3. Dead(c).dead /\ Dead(c).cryptography_state = c.cryptography_state
      BY <2>2 DEF Dead, Client
    <2>4. PlainLast'
      BY <2>1, <2>2, <2>3 DEF PlainLast, Living
    <2> QED BY <1>1, <1>2, <2>1, <2>4
  <1> QED BY <1>3, <1>4 DEF Failure

LEMMA FailureStep ==
  ASSUME TlsAssumption, IInv,
         check_timeouts \/ ReceiveTooMuch \/ ProcessBad \/ ProcessFails \/ SendFails
  PROVE  IInv'
  <1>1. pc # "poll"
    BY DEF check_timeouts, ReceiveTooMuch, MayReceive, ProcessBad, ProcessFails, MayProcess, SendFails
  <1>2. Sound(client) /\ ~client.dead /\ misused = FALSE /\ plain = FALSE
    BY <1>1 DEF IInv, Typed, PlainLast
  <1>3. PICK c, flags : Failure(c, flags) /\ Sound(c) /\ ~c.dead
    <2>1. CASE ProcessFails
      <3>1. PICK flags : Failure([client EXCEPT !.parser = "end"], flags)
        BY <2>1 DEF ProcessFails
      <3>2. PICK c : c = [client EXCEPT !.parser = "end"]
        OBVIOUS
      <3>3. client \in Client /\ Notified(client) /\ Living(client)
        BY <1>2 DEF Sound
      <3>4. /\ c \in Client
            /\ c.response_queue = client.response_queue /\ c.response_count = client.response_count
            /\ c.response = client.response /\ c.response_stream = client.response_stream
            /\ c.cryptography_state = client.cryptography_state /\ c.ssl = client.ssl
            /\ c.dead = client.dead
        BY <3>2, <3>3 DEF Client
      <3>5. Described(c) /\ Notified(c)
        BY <3>3, <3>4, SameDescribed DEF Notified, Living
      <3>6. Sound(c) /\ ~c.dead
        BY <1>2, <3>3, <3>4, <3>5 DEF Sound, Living
      <3> QED BY <3>1, <3>2, <3>6
    <2>2. CASE check_timeouts \/ ReceiveTooMuch \/ ProcessBad \/ SendFails
      BY <1>2, <2>2 DEF check_timeouts, ReceiveTooMuch, ProcessBad, SendFails
    <2> QED BY <2>1, <2>2
  <1>4. /\ Sound(client') /\ (client'.dead => pc' = "poll") /\ misused' = FALSE
        /\ plain' \in BOOLEAN /\ PlainLast'
        /\ done' = FALSE /\ pc' \in {"poll", "receive"}
    BY <1>2, <1>3, FailureSound
  <1>5. /\ expired' \in {expired, "none"} /\ closing' \in {closing, TRUE}
        /\ UNCHANGED <<peers, exhausted, saturated>>
    BY DEF check_timeouts, ReceiveTooMuch, ProcessBad, ProcessFails, SendFails
  <1>6. Typed'
    BY <1>4, <1>5 DEF IInv, Typed, peers
  <1> QED BY <1>4, <1>6 DEF IInv

LEMMA EndStep ==
  ASSUME IInv, ReceiveEnd
  PROVE  IInv'
  <1>1. client' = Dead(client) /\ misused' = misused /\ plain' = plain /\ pc' = "poll" /\ ~client.dead
    BY DEF ReceiveEnd, NextStep, MayReceive, past, IInv
  <1>2. Sound(client')
    BY <1>1, DeadSound DEF IInv, Sound
  <1>3. Typed'
    BY DEF IInv, Typed, ReceiveEnd, NextStep, peers, past
  <1>4. plain' = FALSE
    BY <1>1 DEF IInv, Typed, PlainLast
  <1> QED BY <1>1, <1>2, <1>3, <1>4 DEF IInv, PlainLast

LEMMA ReceiveStep ==
  ASSUME TlsAssumption, IInv, Receive
  PROVE  IInv'
  <1>1. Sound(client) /\ ~client.dead /\ socket \in Seq(Records) /\ client \in Client
    BY DEF IInv, Typed, Receive, MayReceive, Sound
  <1>2. Living(client) /\ Notified(client)
    BY <1>1 DEF Sound
  <1> DEFINE raw == [i \in 1 .. Len(socket) |-> "raw"]
  <1>3. PICK c \in IF client.ssl THEN cryptography_decrypt(client, socket)
                   ELSE {[client EXCEPT !.request_stream = @ \o raw]} :
          IF Ended(c) THEN client' = Dead(c) /\ NextStep("poll")
          ELSE client' = c /\ NextStep("process")
    BY DEF Receive
  <1>4. /\ c \in Client /\ Notified(c) /\ Described(c) /\ c.dead = FALSE
        /\ c.ssl <=> c.cryptography_state # "CS_PENDING_SHUTDOWN"
    <2>1. CASE client.ssl
      <3>1. /\ c \in Client /\ Notified(c) /\ Described(c) /\ c.ssl = TRUE /\ c.dead = FALSE
            /\ c.cryptography_state # "CS_PENDING_SHUTDOWN"
        BY <1>1, <1>3, <2>1, DecryptedSound
      <3> QED BY <3>1
    <2>2. CASE ~client.ssl
      <3>1. PICK received : received = client.request_stream \o raw
        OBVIOUS
      <3>2. received \in Seq(Requests \cup {"raw"})
        <4>1. raw \in [1 .. Len(socket) -> Requests \cup {"raw"}] /\ Len(socket) \in Nat
          BY <1>1
        <4>2. raw \in Seq(Requests \cup {"raw"})
          BY <4>1
        <4>3. client.request_stream \in Seq(Requests \cup {"raw"})
          BY <1>1, Fields
        <4> HIDE DEF raw
        <4> QED BY <3>1, <4>2, <4>3, Concatenated
      <3>3. c = [client EXCEPT !.request_stream = received]
        BY <1>3, <2>2, <3>1
      <3>4. /\ c \in Client
            /\ c.response_queue = client.response_queue /\ c.response_count = client.response_count
            /\ c.response = client.response /\ c.response_stream = client.response_stream
            /\ c.cryptography_state = client.cryptography_state /\ c.ssl = client.ssl
            /\ c.dead = client.dead
        BY <1>1, <3>2, <3>3 DEF Client
      <3>5. client.dead = FALSE
        BY <1>1, Fields
      <3>6. Described(c)
        BY <1>2, <3>4, SameDescribed DEF Living
      <3>7. Notified(c)
        BY <1>2, <3>4 DEF Notified
      <3> QED BY <1>2, <3>4, <3>5, <3>6, <3>7 DEF Living
    <2> QED BY <2>1, <2>2
  <1>5. Sound(client') /\ (client'.dead => pc' = "poll")
    <2>1. CASE Ended(c)
      BY <1>3, <1>4, <2>1, DeadSound DEF NextStep
    <2>2. CASE ~Ended(c)
      <3>1. client' = c /\ c.cryptography_state # "CS_SHUTDOWN"
        BY <1>3, <2>2 DEF Ended
      <3> QED BY <1>4, <3>1 DEF Sound, Living
    <2> QED BY <2>1, <2>2
  <1>6. Typed'
    <2>1. pc' \in {"poll", "process"}
      BY <1>3 DEF NextStep
    <2>2. socket' \in Seq(Records) /\ exhausted' \in BOOLEAN /\ done' = TRUE
      BY DEF Receive
    <2> QED BY <2>1, <2>2 DEF Receive, IInv, Typed, past
  <1>7. misused' = misused /\ plain' = plain
    BY DEF Receive, past
  <1>8. plain' = FALSE
    BY <1>1, <1>7 DEF IInv, Typed, PlainLast
  <1> QED BY <1>5, <1>6, <1>7, <1>8 DEF IInv, PlainLast

(* A request: its response is encrypted, and the close_notify is added once *)
(* although both callers of cryptography_finalize see the end.              *)
LEMMA ProcessedSound ==
  ASSUME TlsAssumption, Sound(client), ~client.dead, get_makes_sense_to_parse(client), NEW keep \in BOOLEAN
  PROVE  LET x == Processed(keep)
         IN  Sound(x) /\ x.dead = FALSE /\ ~ (x.ssl /\ x.parser = "end")
  <1>1. /\ client \in Client /\ Notified(client) /\ Living(client) /\ Described(client)
        /\ client.cryptography_state = "CS_OPERATIONAL" /\ client.parser = "begin"
        /\ client.request_stream # <<>>
    BY Fields DEF Sound, Living, get_makes_sense_to_parse
  <1>2. client.ssl = TRUE /\ client.dead = FALSE
    BY <1>1, Fields DEF Living
  <1>3. PICK popped : popped = [client EXCEPT !.request_stream = Tail(client.request_stream)]
    OBVIOUS
  <1>4. /\ popped \in Client
        /\ popped.response_queue = client.response_queue /\ popped.response_count = client.response_count
        /\ popped.response = client.response /\ popped.response_stream = client.response_stream
        /\ popped.cryptography_state = "CS_OPERATIONAL" /\ popped.ssl = TRUE
        /\ popped.dead = FALSE /\ popped.parser = "begin"
    <2>1. Tail(client.request_stream) \in Seq(Requests \cup {"raw"})
      BY <1>1, Fields
    <2> QED BY <1>1, <1>2, <1>3, <2>1 DEF Client
  <1>5. Described(popped) /\ Notified(popped)
    BY <1>1, <1>4, SameDescribed DEF Notified
  <1>6. PICK ready : ready = Counted(cryptography_encrypt(Pushed(popped, Response(keep))))
    OBVIOUS
  <1>7. /\ ready \in Client /\ Notified(ready) /\ Described(ready)
        /\ ready.cryptography_state = "CS_OPERATIONAL" /\ ready.ssl = TRUE /\ ready.dead = FALSE
        /\ ready.parser = "begin"
    BY <1>4, <1>5, <1>6, EncryptedSound
  <1>8. PICK last : last = cryptography_finalize(ready)
    OBVIOUS
  <1>9. /\ last \in Client /\ Notified(last) /\ Described(last) /\ last.ssl = FALSE
        /\ last.dead = FALSE /\ last.cryptography_state = "CS_PENDING_SHUTDOWN"
    BY <1>7, <1>8, FinalizedSound
  <1>10. PICK x : x = Processed(keep)
    OBVIOUS
  <1>11. x = IF ready.response.keep_alive THEN [ready EXCEPT !.parser = "begin"]
             ELSE [last EXCEPT !.parser = "end"]
    BY <1>2, <1>3, <1>6, <1>7, <1>8, <1>10 DEF Processed
  <1>12. CASE ready.response.keep_alive
    <2>1. x = [ready EXCEPT !.parser = "begin"]
      BY <1>11, <1>12
    <2>2. x = ready
      BY <1>7, <2>1 DEF Client
    <2>3. Sound(ready)
      BY <1>7 DEF Sound, Living
    <2> QED BY <1>7, <1>10, <2>2, <2>3
  <1>13. CASE ~ready.response.keep_alive
    <2>1. x = [last EXCEPT !.parser = "end"]
      BY <1>11, <1>13
    <2>2. /\ x \in Client /\ x.response_queue = last.response_queue
          /\ x.response_count = last.response_count /\ x.response = last.response
          /\ x.response_stream = last.response_stream
          /\ x.cryptography_state = "CS_PENDING_SHUTDOWN" /\ x.ssl = FALSE /\ x.dead = FALSE
      BY <1>9, <2>1 DEF Client
    <2>3. Described(x) /\ Notified(x)
      BY <1>9, <2>2, SameDescribed DEF Notified
    <2>4. Sound(x)
      BY <2>2, <2>3 DEF Sound, Living
    <2> QED BY <1>10, <2>2, <2>4
  <1> QED BY <1>12, <1>13

LEMMA ProcessStep ==
  ASSUME TlsAssumption, IInv, Process
  PROVE  IInv'
  <1>1. PICK keep \in BOOLEAN : keep = (Head(client.request_stream) = "keep")
    OBVIOUS
  <1>2. PICK x : x = Processed(keep)
    OBVIOUS
  <1>3. Sound(client) /\ ~client.dead /\ get_makes_sense_to_parse(client)
    BY DEF IInv, Process, MayProcess
  <1>4. Sound(x) /\ x.dead = FALSE /\ ~ (x.ssl /\ x.parser = "end")
    BY <1>2, <1>3, ProcessedSound
  <1>5. client' = x
    BY <1>1, <1>2, <1>4 DEF Process
  <1>6. Typed'
    BY DEF Process, IInv, Typed, NextStep, peers
  <1>7. misused' = misused /\ plain' = plain
    BY DEF Process
  <1>8. plain' = FALSE
    BY <1>3, <1>7 DEF IInv, Typed, PlainLast
  <1> QED BY <1>4, <1>5, <1>6, <1>7, <1>8 DEF IInv, PlainLast

LEMMA SendStep ==
  ASSUME IInv, Send
  PROVE  IInv'
  <1>1. /\ Sound(client) /\ ~client.dead /\ client.response_stream # <<>>
        /\ client \in Client
    BY DEF IInv, Send, get_makes_sense_to_send, Sound
  <1>2. PICK n \in 0 .. Len(client.response_stream) :
          LET c == server_pop_responses(client, n)
          IN  /\ saturated' = (n < Len(client.response_stream))
              /\ IF Sent(c) THEN client' = Dead(c) /\ NextStep("poll")
                 ELSE client' = c /\ NextStep("receive")
    BY DEF Send
  <1>3. PICK c : c = server_pop_responses(client, n)
    OBVIOUS
  <1>4. Sound(c) /\ c.dead = FALSE
    BY <1>1, <1>3, PoppedSound
  <1>7. saturated' \in BOOLEAN
    BY <1>2
  <1>8. plain' = FALSE
    BY <1>1 DEF IInv, Typed, PlainLast, Send, past
  <1>5. CASE Sent(c)
    <2>1. client' = Dead(c) /\ pc' = "poll"
      BY <1>2, <1>3, <1>5 DEF NextStep
    <2>2. Sound(client')
      BY <1>4, <2>1, DeadSound DEF Sound
    <2>3. Typed'
      BY <1>7, <2>1 DEF Send, IInv, Typed, peers, past
    <2> QED BY <1>8, <2>1, <2>2, <2>3 DEF Send, IInv, past, PlainLast
  <1>6. CASE ~Sent(c)
    <2>1. client' = c /\ pc' = "receive"
      BY <1>2, <1>3, <1>6 DEF NextStep
    <2>2. Typed'
      BY <1>7, <2>1 DEF Send, IInv, Typed, peers, past
    <2> QED BY <1>4, <1>8, <2>1, <2>2 DEF Send, IInv, past, PlainLast
  <1> QED BY <1>5, <1>6

LEMMA StepInvariant ==
  ASSUME TlsAssumption, IInv, [Next]_vars
  PROVE  IInv'
  <1>1. CASE Next
    BY <1>1, PeerStep, IdleStep, FailureStep, EndStep, ReceiveStep, ProcessStep, SendStep DEF Next
  <1>2. CASE UNCHANGED vars
    BY <1>2 DEF vars, peers, visit, past, IInv, Typed, PlainLast
  <1> QED BY <1>1, <1>2

(* What the invariant says of a connection.                                *)
LEMMA TlsSafe ==
  IInv => TypeOK /\ Accounted /\ ShutDownOnce
  <1>1. ASSUME IInv PROVE TypeOK
    <2>1. client \in Client /\ Typed /\ misused = FALSE
      BY <1>1 DEF IInv, Sound
    <2>2. /\ \A k \in DOMAIN client.response_queue : client.response_queue[k] \in Responses
          /\ client.response \in Responses
      BY <2>1, Fields
    <2>3. {client.response} \cup Range(client.response_queue)
            \subseteq [stream_size : Nat, keep_alive : BOOLEAN, silent : BOOLEAN]
      BY <2>2 DEF Range, Responses
    <2> QED BY <2>1, <2>3, Fields DEF TypeOK, Typed, Flags, States, Output
  <1>2. ASSUME IInv PROVE Accounted
    <2> SUFFICES ASSUME ~client.dead
                 PROVE  /\ client.response_count = Len(client.response_queue)
                        /\ Len(client.response_stream) = Ends(client)[Len(client.response_queue)]
      BY DEF Accounted
    <2>1. client \in Client /\ Described(client)
      BY <1>2 DEF IInv, Sound, Living
    <2>2. PICK e \in [0 .. Len(client.response_queue) -> Int] : LaidOut(e, client)
      BY <2>1 DEF Described
    <2>3. Len(client.response_queue) \in 0 .. Len(client.response_queue)
      BY <2>1, Fields
    <2>4. Ends(client)[Len(client.response_queue)] = e[Len(client.response_queue)]
      BY <2>1, <2>2, <2>3, EndsOfDescribed
    <2> QED BY <2>1, <2>2, <2>4 DEF Described, LaidOut
  <1>3. ASSUME IInv PROVE ShutDownOnce
    <2>1. Notified(client) /\ DOMAIN client.response_stream = 1 .. Len(client.response_stream)
      BY <1>3, Fields DEF IInv, Sound
    <2>2. NotifyLast
      BY <2>1 DEF NotifyLast, Notified, Range
    <2>3. NoneAfterFree /\ PlainLast
      BY <1>3 DEF IInv, NoneAfterFree
    <2> QED BY <2>2, <2>3 DEF ShutDownOnce
  <1> QED BY <1>1, <1>2, <1>3

LEMMA Inductive ==
  ASSUME TlsAssumption
  PROVE  Spec => []IInv
  <1>1. Init => IInv
    BY InitInvariant
  <1>2. IInv /\ [Next]_vars => IInv'
    BY StepInvariant
  <1> QED BY <1>1, <1>2, PTL DEF Spec

------------------------------------------------------------------------------
(* The theorems.                                                           *)

(* The state of a connection and of the loop is what the declarations of   *)
(* struct Client allow, after every call of OpenSSL and every send.        *)
THEOREM TlsTypeOK ==
  ASSUME TlsAssumption
  PROVE  Spec => []TypeOK
BY TlsSafe, Inductive, PTL

(* The metadata describes the encrypted bytes: cryptography_encrypt        *)
(* corrects the size of a response, cryptography_create_silent_response    *)
(* adds those of the handshake, and after every partial send of            *)
(* server_pop_responses the sizes add up to what is still to be sent.      *)
THEOREM TlsAccounted ==
  ASSUME TlsAssumption
  PROVE  Spec => []Accounted
BY TlsSafe, Inductive, PTL

(* A connection is shut down once, whatever errors and timeouts follow one *)
(* another: the close_notify of cryptography_finalize is the last that is  *)
(* put into response_stream, and no function of OpenSSL is called with the *)
(* SSL object that was freed.  What may follow is one fixed message of     *)
(* server_process_client (high_level.c:228), in plain text: only during    *)
(* the shutdown, and the client ends with it.                              *)
THEOREM TlsShutDownOnce ==
  ASSUME TlsAssumption
  PROVE  Spec => []ShutDownOnce
BY TlsSafe, Inductive, PTL

------------------------------------------------------------------------------
(* Values in two parts.                                                    *)

(* The characters of a value and of the word it is compared with.         *)
Letters == Alphabet \union {"k", "a"}
Strings == Seq(Letters)

(* A piece of a text: its length and its characters (SubSeq).              *)
LEMMA Piece ==
  ASSUME NEW s \in Strings, NEW m \in 1 .. Len(s) + 1, NEW n \in 0 .. Len(s), m <= n + 1
  PROVE  /\ V!Part(s, m, n) \in Strings /\ Len(V!Part(s, m, n)) = n - m + 1
         /\ \A i \in 1 .. n - m + 1 : V!Part(s, m, n)[i] = s[m + i - 1]
<1>1. Len(s) \in Nat /\ m \in Int /\ n \in Int /\ \A i \in m .. n : s[i] \in Letters
  BY DEF Strings
<1>2. /\ SubSeq(s, m, n) \in Seq(Letters)
      /\ Len(SubSeq(s, m, n)) = IF m <= n THEN n - m + 1 ELSE 0
      /\ \A i \in 1 .. n - m + 1 : SubSeq(s, m, n)[i] = s[m + i - 1]
  BY <1>1, SubSeqProperties
<1> QED
  BY <1>1, <1>2 DEF V!Part, Strings

(* Two texts joined: every character is one of the first or of the second. *)
LEMMA Joined ==
  ASSUME NEW a \in Strings, NEW b \in Strings
  PROVE  /\ a \o b \in Strings /\ Len(a \o b) = Len(a) + Len(b)
         /\ Len(a) \in Nat /\ Len(b) \in Nat
         /\ \A i \in 1 .. Len(a) : (a \o b)[i] = a[i]
         /\ \A i \in 1 .. Len(b) : (a \o b)[Len(a) + i] = b[i]
         /\ \A i \in Len(a) + 1 .. Len(a) + Len(b) : (a \o b)[i] = b[i - Len(a)]
BY ConcatProperties DEF Strings

(* The empty text.                                                         *)
LEMMA NoText ==
  /\ <<>> \in Strings /\ Len(<<>>) = 0
  /\ \A s \in Strings : s \o <<>> = s /\ <<>> \o s = s /\ (Len(s) = 0 => s = <<>>)
BY EmptySeq, ConcatEmptySeq DEF Strings

(* Texts of the same length with the same characters are the same.         *)
LEMMA SameText ==
  ASSUME NEW s \in Strings, NEW t \in Strings, Len(s) = Len(t), \A i \in 1 .. Len(s) : s[i] = t[i]
  PROVE  s = t
BY SeqEqual DEF Strings

(* What the piece of a text is known by.                                   *)
LEMMA PieceIs ==
  ASSUME NEW s \in Strings, NEW m \in 1 .. Len(s) + 1, NEW n \in 0 .. Len(s), m <= n + 1,
         NEW t \in Strings, Len(t) = n - m + 1, \A i \in 1 .. Len(t) : t[i] = s[m + i - 1]
  PROVE  V!Part(s, m, n) = t
<1> DEFINE z == V!Part(s, m, n)
<1>1. z \in Strings /\ Len(z) = n - m + 1 /\ \A i \in 1 .. n - m + 1 : z[i] = s[m + i - 1]
  BY Piece
<1> HIDE DEF z
<1>2. Len(z) = Len(t) /\ \A i \in 1 .. Len(z) : z[i] = t[i]
  BY <1>1
<1>3. z = t
  BY <1>1, <1>2, SameText
<1> QED
  BY <1>3 DEF z

(* The first n characters.                                                 *)
LEMMA Front ==
  ASSUME NEW s \in Strings, NEW n \in 0 .. Len(s)
  PROVE  /\ V!Part(s, 1, n) \in Strings /\ Len(V!Part(s, 1, n)) = n
         /\ \A i \in 1 .. n : V!Part(s, 1, n)[i] = s[i]
<1>1. Len(s) \in Nat
  BY DEF Strings
<1>2. 1 \in 1 .. Len(s) + 1 /\ 1 <= n + 1 /\ n - 1 + 1 = n /\ \A i \in 1 .. n : 1 + i - 1 = i
  BY <1>1
<1> QED
  BY <1>2, Piece

(* The characters from m on.                                               *)
LEMMA Rear ==
  ASSUME NEW s \in Strings, NEW m \in 1 .. Len(s) + 1
  PROVE  /\ V!Part(s, m, Len(s)) \in Strings /\ Len(V!Part(s, m, Len(s))) = Len(s) - m + 1
         /\ \A i \in 1 .. Len(s) - m + 1 : V!Part(s, m, Len(s))[i] = s[m + i - 1]
<1>1. Len(s) \in Nat
  BY DEF Strings
<1>2. Len(s) \in 0 .. Len(s) /\ m <= Len(s) + 1
  BY <1>1
<1> QED
  BY <1>2, Piece

(* A piece of two parts joined.                                            *)
LEMMA PieceOfJoined ==
  ASSUME NEW a \in Strings, NEW b \in Strings
  PROVE  /\ \A m \in 1 .. Len(a) + 1, n \in 0 .. Len(b) :
              V!Part(a \o b, m, Len(a) + n) = V!Part(a, m, Len(a)) \o V!Part(b, 1, n)
         /\ \A m \in 1 .. Len(a) + 1, n \in 0 .. Len(a) :
              m <= n + 1 => V!Part(a \o b, m, n) = V!Part(a, m, n)
         /\ \A m \in 1 .. Len(b) + 1, n \in 0 .. Len(b) :
              m <= n + 1 => V!Part(a \o b, Len(a) + m, Len(a) + n) = V!Part(b, m, n)
<1> DEFINE s == a \o b
           k == Len(a)
           l == Len(b)
<1>1. /\ s \in Strings /\ Len(s) = k + l /\ k \in Nat /\ l \in Nat
      /\ \A i \in 1 .. k : s[i] = a[i]
      /\ \A i \in k + 1 .. k + l : s[i] = b[i - k]
  BY Joined
<1>2. ASSUME NEW m \in 1 .. k + 1, NEW n \in 0 .. l
      PROVE  V!Part(s, m, k + n) = V!Part(a, m, k) \o V!Part(b, 1, n)
  <2> DEFINE x == V!Part(a, m, k)
             y == V!Part(b, 1, n)
             t == x \o y
  <2>1. x \in Strings /\ Len(x) = k - m + 1 /\ \A i \in 1 .. k - m + 1 : x[i] = a[m + i - 1]
    BY Rear
  <2>2. y \in Strings /\ Len(y) = n /\ \A i \in 1 .. n : y[i] = b[i]
    BY Front
  <2> HIDE DEF x, y
  <2>3. /\ t \in Strings /\ Len(t) = Len(x) + Len(y)
        /\ \A i \in 1 .. Len(x) : t[i] = x[i]
        /\ \A i \in Len(x) + 1 .. Len(x) + Len(y) : t[i] = y[i - Len(x)]
    BY <2>1, <2>2, Joined
  <2> HIDE DEF t, s, k, l
  <2>4. Len(t) = (k + n) - m + 1
    BY <1>1, <2>1, <2>2, <2>3
  <2>5. ASSUME NEW i \in 1 .. Len(t) PROVE t[i] = s[m + i - 1]
    <3>1. CASE i <= k - m + 1
      <4>1. i \in 1 .. k - m + 1 /\ i \in 1 .. Len(x) /\ m + i - 1 \in 1 .. k
        BY <1>1, <2>1, <2>4, <3>1
      <4> QED BY <1>1, <2>1, <2>3, <4>1
    <3>2. CASE ~(i <= k - m + 1)
      <4>1. /\ i \in Len(x) + 1 .. Len(x) + Len(y) /\ i - Len(x) \in 1 .. n
            /\ m + i - 1 \in k + 1 .. k + l /\ (m + i - 1) - k = i - Len(x)
        BY <1>1, <2>1, <2>2, <2>4, <3>2
      <4> QED BY <1>1, <2>2, <2>3, <4>1
    <3> QED BY <3>1, <3>2
  <2>6. m \in 1 .. Len(s) + 1 /\ k + n \in 0 .. Len(s) /\ m <= (k + n) + 1
    BY <1>1
  <2>7. V!Part(s, m, k + n) = t
    BY <1>1, <2>3, <2>4, <2>5, <2>6, PieceIs
  <2> QED BY <2>7 DEF t, x, y
<1>3. ASSUME NEW m \in 1 .. k + 1, NEW n \in 0 .. k, m <= n + 1
      PROVE  V!Part(s, m, n) = V!Part(a, m, n)
  <2> DEFINE t == V!Part(a, m, n)
  <2>1. t \in Strings /\ Len(t) = n - m + 1 /\ \A i \in 1 .. n - m + 1 : t[i] = a[m + i - 1]
    BY <1>3, Piece
  <2> HIDE DEF t, s, k, l
  <2>2. ASSUME NEW i \in 1 .. Len(t) PROVE t[i] = s[m + i - 1]
    <3>1. i \in 1 .. n - m + 1 /\ m + i - 1 \in 1 .. k
      BY <1>1, <2>1
    <3> QED BY <1>1, <2>1, <3>1
  <2>3. m \in 1 .. Len(s) + 1 /\ n \in 0 .. Len(s)
    BY <1>1
  <2>4. V!Part(s, m, n) = t
    BY <1>1, <1>3, <2>1, <2>2, <2>3, PieceIs
  <2> QED BY <2>4 DEF t
<1>4. ASSUME NEW m \in 1 .. l + 1, NEW n \in 0 .. l, m <= n + 1
      PROVE  V!Part(s, k + m, k + n) = V!Part(b, m, n)
  <2> DEFINE t == V!Part(b, m, n)
  <2>1. t \in Strings /\ Len(t) = n - m + 1 /\ \A i \in 1 .. n - m + 1 : t[i] = b[m + i - 1]
    BY <1>4, Piece
  <2> HIDE DEF t, s, k, l
  <2>2. ASSUME NEW i \in 1 .. Len(t) PROVE t[i] = s[(k + m) + i - 1]
    <3>1. /\ i \in 1 .. n - m + 1 /\ (k + m) + i - 1 \in k + 1 .. k + l
          /\ ((k + m) + i - 1) - k = m + i - 1
      BY <1>1, <2>1
    <3> QED BY <1>1, <2>1, <3>1
  <2>3. /\ k + m \in 1 .. Len(s) + 1 /\ k + n \in 0 .. Len(s) /\ k + m <= (k + n) + 1
        /\ Len(t) = (k + n) - (k + m) + 1
    BY <1>1, <1>4, <2>1
  <2>4. V!Part(s, k + m, k + n) = t
    BY <1>1, <2>1, <2>2, <2>3, PieceIs
  <2> QED BY <2>4 DEF t
<1> QED
  BY <1>2, <1>3, <1>4 DEF s, k, l

(* The smallest number of a set is its Min.                                *)
LEMMA Smallest ==
  ASSUME NEW T \in SUBSET Nat, NEW x \in T, \A y \in T : x <= y
  PROVE  V!Min(T) = x
<1>1. V!Min(T) \in T /\ \A y \in T : V!Min(T) <= y
  BY DEF V!Min
<1>2. V!Min(T) <= x /\ x <= V!Min(T) /\ x \in Nat /\ V!Min(T) \in Nat
  BY <1>1
<1> QED
  BY <1>2

(* The greatest number of a set is its Max.                                *)
LEMMA Greatest ==
  ASSUME NEW T \in SUBSET Nat, NEW x \in T, \A y \in T : x >= y
  PROVE  V!Max(T) = x
<1>1. V!Max(T) \in T /\ \A y \in T : V!Max(T) >= y
  BY DEF V!Max
<1>2. V!Max(T) >= x /\ x >= V!Max(T) /\ x \in Nat /\ V!Max(T) \in Nat
  BY <1>1
<1> QED
  BY <1>2

(* m is the first place of s that is no space, n is the last one.          *)
FirstInk(s, m) ==
  m \in 1 .. Len(s) /\ s[m] \notin V!Spaces /\ \A i \in 1 .. m - 1 : s[i] \in V!Spaces
LastInk(s, n) ==
  n \in 1 .. Len(s) /\ s[n] \notin V!Spaces /\ \A i \in n + 1 .. Len(s) : s[i] \in V!Spaces
Blank(s) == \A i \in 1 .. Len(s) : s[i] \in V!Spaces

(* The places of a text that hold no space, and when there are none.       *)
LEMMA InkOf ==
  ASSUME NEW s \in Strings
  PROVE  /\ V!Ink(s) = {i \in 1 .. Len(s) : s[i] \notin V!Spaces} /\ Len(s) \in Nat
         /\ V!Ink(s) = {} <=> Blank(s)
BY DEF V!Ink, Strings, Blank

(* A text that is not blank has a first and a last place without a space.  *)
LEMMA InkIsThere ==
  ASSUME NEW s \in Strings, ~Blank(s)
  PROVE  (\E m : FirstInk(s, m)) /\ (\E n : LastInk(s, n))
<1> DEFINE T == V!Ink(s)
           U == {Len(s) - i : i \in T}
<1>1. T = {i \in 1 .. Len(s) : s[i] \notin V!Spaces} /\ Len(s) \in Nat /\ T # {}
  BY InkOf
<1>2. T \in SUBSET Nat /\ U \in SUBSET Nat
  BY <1>1
<1>3. U # {}
  <2>1. PICK i \in T : TRUE
    BY <1>1
  <2>2. Len(s) - i \in U
    BY <2>1
  <2> QED BY <2>2
<1> HIDE DEF T, U
<1>4. PICK m \in T : \A y \in T : m <= y
  BY <1>1, <1>2, SmallestNumber
<1>5. FirstInk(s, m)
  BY <1>1, <1>4 DEF FirstInk
<1>6. PICK u \in U : \A y \in U : u <= y
  BY <1>2, <1>3, SmallestNumber
<1>7. PICK n \in T : u = Len(s) - n
  BY <1>6 DEF U
<1>8. ASSUME NEW y \in T PROVE y <= n
  <2>1. Len(s) - y \in U
    BY DEF U
  <2>2. y \in Nat /\ n \in Nat /\ Len(s) \in Nat /\ Len(s) - n <= Len(s) - y
    BY <1>1, <1>2, <1>6, <1>7, <2>1
  <2> QED BY <2>2
<1>9. LastInk(s, n)
  <2>1. n \in 1 .. Len(s) /\ s[n] \notin V!Spaces
    BY <1>1
  <2>2. ASSUME NEW i \in n + 1 .. Len(s) PROVE s[i] \in V!Spaces
    <3>1. i \in 1 .. Len(s) /\ ~(i <= n)
      BY <1>1, <2>1
    <3>2. i \notin T
      BY <1>8, <3>1
    <3> QED BY <1>1, <3>1, <3>2
  <2> QED BY <2>1, <2>2 DEF LastInk
<1> QED
  BY <1>5, <1>9

(* What value_trim cuts off a part at its front and at its back, and what  *)
(* the trimmed text is.                                                    *)
LEMMA Trimmings ==
  ASSUME NEW s \in Strings, NEW m, NEW n
  PROVE  /\ FirstInk(s, m) => V!Ink(s) # {} /\ V!TrimFront(s) = V!Part(s, m, Len(s))
         /\ LastInk(s, n) => V!Ink(s) # {} /\ V!TrimBack(s) = V!Part(s, 1, n)
         /\ FirstInk(s, m) /\ LastInk(s, n) => m <= n /\ V!TrimmedSeq(s) = V!Part(s, m, n)
         /\ Blank(s) => V!TrimFront(s) = <<>> /\ V!TrimBack(s) = <<>> /\ V!TrimmedSeq(s) = <<>>
<1> DEFINE T == V!Ink(s)
<1>1. T = {i \in 1 .. Len(s) : s[i] \notin V!Spaces} /\ Len(s) \in Nat /\ (T = {} <=> Blank(s))
  BY InkOf
<1>2. T \in SUBSET Nat
  BY <1>1
<1> HIDE DEF T
<1>3. ASSUME FirstInk(s, m) PROVE m \in T /\ V!Min(T) = m
  <2>1. m \in T
    BY <1>1, <1>3 DEF FirstInk
  <2>2. \A y \in T : m <= y
    BY <1>1, <1>3 DEF FirstInk
  <2> QED BY <1>2, <2>1, <2>2, Smallest
<1>4. ASSUME LastInk(s, n) PROVE n \in T /\ V!Max(T) = n
  <2>1. n \in T
    BY <1>1, <1>4 DEF LastInk
  <2>2. \A y \in T : n >= y
    BY <1>1, <1>4 DEF LastInk
  <2> QED BY <1>2, <2>1, <2>2, Greatest
<1>5. FirstInk(s, m) /\ LastInk(s, n) => m <= n
  BY <1>1 DEF FirstInk, LastInk
<1> QED
  BY <1>1, <1>3, <1>4, <1>5 DEF T, V!TrimFront, V!TrimBack, V!TrimmedSeq

(* The first and the last place without a space of two parts joined.       *)
LEMMA InkOfJoined ==
  ASSUME NEW a \in Strings, NEW b \in Strings, NEW m, NEW n
  PROVE  /\ FirstInk(a, m) => FirstInk(a \o b, m)
         /\ LastInk(b, n) => LastInk(a \o b, Len(a) + n)
         /\ Blank(b) /\ LastInk(a, n) => LastInk(a \o b, n)
         /\ Blank(a) /\ FirstInk(b, m) => FirstInk(a \o b, Len(a) + m)
         /\ Blank(a) /\ Blank(b) => Blank(a \o b)
<1> DEFINE s == a \o b
           k == Len(a)
           l == Len(b)
<1>1. /\ s \in Strings /\ Len(s) = k + l /\ k \in Nat /\ l \in Nat
      /\ \A i \in 1 .. k : s[i] = a[i]
      /\ \A i \in k + 1 .. k + l : i - k \in 1 .. l /\ s[i] = b[i - k]
  <2>1. /\ s \in Strings /\ Len(s) = k + l /\ k \in Nat /\ l \in Nat
        /\ \A i \in 1 .. k : s[i] = a[i]
        /\ \A i \in k + 1 .. k + l : s[i] = b[i - k]
    BY Joined
  <2> HIDE DEF s, k, l
  <2> QED BY <2>1
<1> HIDE DEF s, k, l
<1>2. \A i \in 1 .. Len(s) : i \in 1 .. k \/ i \in k + 1 .. k + l
  BY <1>1
<1>3. ASSUME FirstInk(a, m) PROVE FirstInk(s, m)
  BY <1>1, <1>3 DEF FirstInk, k
<1>4. ASSUME LastInk(b, n) PROVE LastInk(s, k + n)
  <2>1. n \in 1 .. l /\ b[n] \notin V!Spaces /\ \A i \in n + 1 .. l : b[i] \in V!Spaces
    BY <1>4 DEF LastInk, l
  <2>2. k + n \in k + 1 .. k + l /\ (k + n) - k = n /\ k + n \in 1 .. Len(s)
    BY <1>1, <2>1
  <2>3. ASSUME NEW i \in (k + n) + 1 .. Len(s) PROVE s[i] \in V!Spaces
    <3>1. i \in k + 1 .. k + l /\ i - k \in n + 1 .. l
      BY <1>1, <2>1
    <3> QED BY <1>1, <2>1, <3>1
  <2>4. s[k + n] = b[n]
    BY <1>1, <2>2
  <2> QED BY <2>1, <2>2, <2>3, <2>4 DEF LastInk
<1>5. ASSUME Blank(b), LastInk(a, n) PROVE LastInk(s, n)
  <2>1. n \in 1 .. k /\ a[n] \notin V!Spaces /\ \A i \in n + 1 .. k : a[i] \in V!Spaces
    BY <1>5 DEF LastInk, k
  <2>2. n \in 1 .. Len(s) /\ s[n] = a[n]
    BY <1>1, <2>1
  <2>3. ASSUME NEW i \in n + 1 .. Len(s) PROVE s[i] \in V!Spaces
    <3>1. CASE i <= k
      BY <1>1, <2>1, <3>1
    <3>2. CASE ~(i <= k)
      <4>1. i \in k + 1 .. k + l
        BY <1>1, <2>1, <3>2
      <4> QED BY <1>1, <1>5, <4>1 DEF Blank, l
    <3> QED BY <3>1, <3>2
  <2> QED BY <2>1, <2>2, <2>3 DEF LastInk
<1>6. ASSUME Blank(a), FirstInk(b, m) PROVE FirstInk(s, k + m)
  <2>1. m \in 1 .. l /\ b[m] \notin V!Spaces /\ \A i \in 1 .. m - 1 : b[i] \in V!Spaces
    BY <1>6 DEF FirstInk, l
  <2>2. k + m \in k + 1 .. k + l /\ (k + m) - k = m /\ k + m \in 1 .. Len(s)
    BY <1>1, <2>1
  <2>3. ASSUME NEW i \in 1 .. (k + m) - 1 PROVE s[i] \in V!Spaces
    <3>1. CASE i <= k
      BY <1>1, <1>6, <2>1, <3>1 DEF Blank, k
    <3>2. CASE ~(i <= k)
      <4>1. i \in k + 1 .. k + l /\ i - k \in 1 .. m - 1
        BY <1>1, <2>1, <3>2
      <4> QED BY <1>1, <2>1, <4>1
    <3> QED BY <3>1, <3>2
  <2>4. s[k + m] = b[m]
    BY <1>1, <2>2
  <2> QED BY <2>1, <2>2, <2>3, <2>4 DEF FirstInk
<1>7. ASSUME Blank(a), Blank(b) PROVE Blank(s)
  BY <1>1, <1>2, <1>7 DEF Blank, k, l
<1> QED
  BY <1>3, <1>4, <1>5, <1>6, <1>7 DEF s, k

(* Trimming one part at both ends, one after the other.                    *)
LEMMA TrimOne ==
  ASSUME NEW s \in Strings, NEW m, FirstInk(s, m), NEW n, LastInk(s, n)
  PROVE  /\ m \in 1 .. Len(s) + 1 /\ n \in 0 .. Len(s) /\ m <= n + 1
         /\ V!Ink(V!TrimFront(s)) # {}
         /\ V!TrimBack(V!TrimFront(s)) = V!Part(s, m, n)
         /\ V!TrimBack(V!TrimFront(s)) \in Strings
<1> DEFINE w == V!TrimFront(s)
           k == Len(s)
<1>1. m \in 1 .. k /\ n \in 1 .. k /\ m <= n /\ k \in Nat /\ w = V!Part(s, m, k)
  BY Trimmings, InkOf DEF FirstInk, LastInk
<1>2. m \in 1 .. k + 1
  BY <1>1
<1>3. w \in Strings /\ Len(w) = k - m + 1 /\ \A i \in 1 .. k - m + 1 : w[i] = s[m + i - 1]
  BY <1>1, <1>2, Rear
<1> HIDE DEF w
<1>4. LastInk(w, n - m + 1)
  <2>1. n - m + 1 \in 1 .. Len(w) /\ n - m + 1 \in 1 .. k - m + 1 /\ m + (n - m + 1) - 1 = n
    BY <1>1, <1>3
  <2>2. w[n - m + 1] = s[n]
    BY <1>3, <2>1
  <2>3. ASSUME NEW i \in (n - m + 1) + 1 .. Len(w) PROVE w[i] \in V!Spaces
    <3>1. i \in 1 .. k - m + 1 /\ m + i - 1 \in n + 1 .. k
      BY <1>1, <1>3
    <3> QED BY <1>3, <3>1 DEF LastInk
  <2> QED BY <2>1, <2>2, <2>3 DEF LastInk
<1>5. V!Ink(w) # {} /\ V!TrimBack(w) = V!Part(w, 1, n - m + 1)
  BY <1>3, <1>4, Trimmings
<1> DEFINE t == V!Part(w, 1, n - m + 1)
<1>6. n - m + 1 \in 0 .. Len(w)
  BY <1>1, <1>3
<1>7. t \in Strings /\ Len(t) = n - m + 1 /\ \A i \in 1 .. n - m + 1 : t[i] = w[i]
  BY <1>3, <1>6, Front
<1> HIDE DEF t, k
<1>8. ASSUME NEW i \in 1 .. Len(t) PROVE t[i] = s[m + i - 1]
  <2>1. i \in 1 .. n - m + 1 /\ i \in 1 .. k - m + 1
    BY <1>1, <1>7
  <2> QED BY <1>3, <1>7, <2>1
<1>9. m \in 1 .. k + 1 /\ n \in 0 .. k /\ m <= n + 1
  BY <1>1
<1>10. V!Part(s, m, n) = t
  BY <1>7, <1>8, <1>9, PieceIs DEF k
<1> QED
  BY <1>5, <1>7, <1>9, <1>10 DEF w, k, t

(* A value in two parts, and its text.                                     *)
LEMMA TwoParts ==
  ASSUME NEW x, NEW y
  PROVE  <<x, y>>[1] = x /\ <<x, y>>[2] = y /\ V!Flat(<<x, y>>) = x \o y
BY DEF V!Flat

(* value_trim of any two parts: the text of its parts is the trimmed text, *)
(* also where one of the parts is blank.                                   *)
LEMMA TrimIsTrimmed ==
  ASSUME NEW a \in Strings, NEW b \in Strings
  PROVE  \E x, y \in Strings : V!value_trim(<<a, b>>) = <<x, y>> /\ x \o y = V!TrimmedSeq(a \o b)
<1> DEFINE trim == V!value_trim(<<a, b>>)
<1>1. a \o b \in Strings /\ Len(a) \in Nat /\ Len(b) \in Nat
  BY Joined
<1>2. CASE ~Blank(a) /\ ~Blank(b)
  <2>1. PICK m : FirstInk(a, m)
    BY <1>2, InkIsThere
  <2>2. PICK n : LastInk(b, n)
    BY <1>2, InkIsThere
  <2>3. trim = <<V!Part(a, m, Len(a)), V!Part(b, 1, n)>>
    BY <2>1, <2>2, Trimmings DEF V!value_trim
  <2>4. V!TrimmedSeq(a \o b) = V!Part(a \o b, m, Len(a) + n)
    BY <1>1, <2>1, <2>2, InkOfJoined, Trimmings
  <2>5. m \in 1 .. Len(a) + 1 /\ n \in 0 .. Len(b)
    BY <1>1, <2>1, <2>2 DEF FirstInk, LastInk
  <2>6. V!Part(a, m, Len(a)) \in Strings /\ V!Part(b, 1, n) \in Strings
    BY <2>5, Rear, Front
  <2>7. V!Part(a \o b, m, Len(a) + n) = V!Part(a, m, Len(a)) \o V!Part(b, 1, n)
    BY <2>5, PieceOfJoined
  <2> HIDE DEF trim
  <2>8. \E x, y \in Strings : trim = <<x, y>> /\ x \o y = V!TrimmedSeq(a \o b)
    BY <2>3, <2>4, <2>6, <2>7
  <2> QED BY <2>8 DEF trim
<1>3. CASE ~Blank(a) /\ Blank(b)
  <2>1. PICK m : FirstInk(a, m)
    BY <1>3, InkIsThere
  <2>2. PICK n : LastInk(a, n)
    BY <1>3, InkIsThere
  <2>3. V!Ink(a) # {} /\ V!Ink(b) = {}
    BY <1>3, InkOf
  <2>4. trim = <<V!TrimBack(V!TrimFront(a)), <<>>>>
    BY <2>3 DEF V!value_trim
  <2>5. V!TrimmedSeq(a \o b) = V!Part(a \o b, m, n)
    BY <1>1, <1>3, <2>1, <2>2, InkOfJoined, Trimmings
  <2>6. /\ m \in 1 .. Len(a) + 1 /\ n \in 0 .. Len(a) /\ m <= n + 1
        /\ V!TrimBack(V!TrimFront(a)) = V!Part(a, m, n) /\ V!TrimBack(V!TrimFront(a)) \in Strings
    BY <2>1, <2>2, TrimOne
  <2>7. V!Part(a \o b, m, n) = V!Part(a, m, n)
    BY <2>6, PieceOfJoined
  <2> DEFINE z == V!TrimBack(V!TrimFront(a))
  <2>8. z \in Strings /\ <<>> \in Strings /\ z \o <<>> = V!TrimmedSeq(a \o b)
    BY <2>5, <2>6, <2>7, NoText
  <2> HIDE DEF trim, z
  <2>9. \E x, y \in Strings : trim = <<x, y>> /\ x \o y = V!TrimmedSeq(a \o b)
    BY <2>4, <2>8 DEF z
  <2> QED BY <2>9 DEF trim
<1>4. CASE Blank(a) /\ ~Blank(b)
  <2>1. PICK m : FirstInk(b, m)
    BY <1>4, InkIsThere
  <2>2. PICK n : LastInk(b, n)
    BY <1>4, InkIsThere
  <2>3. V!Ink(a) = {}
    BY <1>4, InkOf
  <2>4. /\ m \in 1 .. Len(b) + 1 /\ n \in 0 .. Len(b) /\ m <= n + 1 /\ V!Ink(V!TrimFront(b)) # {}
        /\ V!TrimBack(V!TrimFront(b)) = V!Part(b, m, n) /\ V!TrimBack(V!TrimFront(b)) \in Strings
    BY <2>1, <2>2, TrimOne
  <2>5. trim = <<<<>>, V!TrimBack(V!TrimFront(b))>>
    BY <2>3, <2>4 DEF V!value_trim
  <2>6. V!TrimmedSeq(a \o b) = V!Part(a \o b, Len(a) + m, Len(a) + n)
    BY <1>1, <1>4, <2>1, <2>2, InkOfJoined, Trimmings
  <2>7. V!Part(a \o b, Len(a) + m, Len(a) + n) = V!Part(b, m, n)
    BY <2>4, PieceOfJoined
  <2> DEFINE z == V!TrimBack(V!TrimFront(b))
  <2>8. z \in Strings /\ <<>> \in Strings /\ <<>> \o z = V!TrimmedSeq(a \o b)
    BY <2>4, <2>6, <2>7, NoText
  <2> HIDE DEF trim, z
  <2>9. \E x, y \in Strings : trim = <<x, y>> /\ x \o y = V!TrimmedSeq(a \o b)
    BY <2>5, <2>8 DEF z
  <2> QED BY <2>9 DEF trim
<1>5. CASE Blank(a) /\ Blank(b)
  <2>1. V!Ink(a) = {} /\ V!TrimFront(b) = <<>> /\ Blank(<<>>)
    BY <1>5, InkOf, Trimmings DEF Blank
  <2>2. V!Ink(<<>>) = {} /\ V!TrimBack(<<>>) = <<>>
    BY <2>1, InkOf, Trimmings, NoText
  <2>3. trim = <<<<>>, <<>>>>
    BY <2>1, <2>2 DEF V!value_trim
  <2>4. V!TrimmedSeq(a \o b) = <<>>
    BY <1>1, <1>5, InkOfJoined, Trimmings
  <2>5. <<>> \in Strings /\ <<>> \o <<>> = <<>>
    BY NoText
  <2> HIDE DEF trim
  <2>6. \E x, y \in Strings : trim = <<x, y>> /\ x \o y = V!TrimmedSeq(a \o b)
    BY <2>3, <2>4, <2>5
  <2> QED BY <2>6 DEF trim
<1> QED
  BY <1>2, <1>3, <1>4, <1>5

(* The piece that is everything.                                           *)
LEMMA Whole ==
  ASSUME NEW s \in Strings
  PROVE  V!Part(s, 1, Len(s)) = s
<1>1. Len(s) \in Nat
  BY DEF Strings
<1>2. 1 \in 1 .. Len(s) + 1 /\ Len(s) \in 0 .. Len(s) /\ 1 <= Len(s) + 1 /\ Len(s) = Len(s) - 1 + 1
  BY <1>1
<1>3. \A i \in 1 .. Len(s) : s[i] = s[1 + i - 1]
  BY <1>1
<1> QED
  BY <1>2, <1>3, PieceIs

(* Two parts compare equal with what they are together.                    *)
LEMMA SameAsJoined ==
  ASSUME NEW a \in Strings, NEW b \in Strings
  PROVE  /\ V!value_compare_mem(<<a, b>>, a \o b)
         /\ V!value_to_continuous(<<a, b>>) = a \o b
<1>1. Len(a) \in Nat /\ Len(b) \in Nat /\ Len(a \o b) = Len(a) + Len(b)
  BY Joined
<1>2. V!Part(a \o b, 1, Len(a)) = a
  <2>1. 1 \in 1 .. Len(a) + 1 /\ Len(a) \in 0 .. Len(a) /\ 1 <= Len(a) + 1
    BY <1>1
  <2> QED BY <2>1, PieceOfJoined, Whole
<1>3. V!Part(a \o b, Len(a) + 1, Len(a) + Len(b)) = b
  <2>1. 1 \in 1 .. Len(b) + 1 /\ Len(b) \in 0 .. Len(b) /\ 1 <= Len(b) + 1
    BY <1>1
  <2> QED BY <2>1, PieceOfJoined, Whole
<1>4. V!value_compare_mem(<<a, b>>, a \o b)
  BY <1>1, <1>2, <1>3, TwoParts DEF V!value_compare_mem
<1>5. V!value_to_continuous(<<a, b>>) = a \o b
  BY TwoParts, NoText DEF V!value_to_continuous
<1> QED
  BY <1>4, <1>5

(* The text before and behind a cut.                                       *)
LEMMA Cuts ==
  ASSUME NEW a \in Strings, NEW b \in Strings, NEW n \in 0 .. Len(a) + Len(b)
  PROVE  /\ \E x, y \in Strings : V!value_first(<<a, b>>, n) = <<x, y>> /\ x \o y = V!Part(a \o b, 1, n)
         /\ \E x, y \in Strings : /\ V!value_second(<<a, b>>, n) = <<x, y>>
                                  /\ x \o y = V!Part(a \o b, n + 1, Len(a) + Len(b))
<1> DEFINE k == Len(a)
           l == Len(b)
           s == a \o b
<1>1. k \in Nat /\ l \in Nat /\ n \in Nat
  BY Joined
<1>2. CASE k > n
  <2>1. 1 \in 1 .. k + 1 /\ n \in 0 .. k /\ 1 <= n + 1 /\ n + 1 \in 1 .. k + 1 /\ l \in 0 .. l
    BY <1>1, <1>2
  <2>2. V!Part(a, 1, n) \in Strings /\ V!Part(a, n + 1, k) \in Strings
    BY <2>1, Front, Rear
  <2>3. V!Part(s, 1, n) = V!Part(a, 1, n)
    BY <2>1, PieceOfJoined
  <2>4. V!Part(s, n + 1, k + l) = V!Part(a, n + 1, k) \o b
    <3>1. V!Part(s, n + 1, k + l) = V!Part(a, n + 1, k) \o V!Part(b, 1, l)
      BY <2>1, PieceOfJoined
    <3> QED BY <3>1, Whole
  <2>5. V!value_first(<<a, b>>, n) = <<V!Part(a, 1, n), <<>>>>
    BY <1>2, TwoParts DEF V!value_first
  <2>6. V!value_second(<<a, b>>, n) = <<V!Part(a, n + 1, k), b>>
    BY <1>2, TwoParts DEF V!value_second
  <2>7. V!Part(a, 1, n) \o <<>> = V!Part(s, 1, n) /\ <<>> \in Strings
    BY <2>2, <2>3, NoText
  <2> HIDE DEF s, k, l
  <2>8. \E x, y \in Strings : V!value_first(<<a, b>>, n) = <<x, y>> /\ x \o y = V!Part(s, 1, n)
    BY <2>2, <2>5, <2>7
  <2>9. \E x, y \in Strings : V!value_second(<<a, b>>, n) = <<x, y>> /\ x \o y = V!Part(s, n + 1, k + l)
    BY <2>2, <2>4, <2>6
  <2> QED BY <2>8, <2>9 DEF s, k, l
<1>3. CASE ~(k > n)
  <2> DEFINE r == n - k
  <2>1. /\ r \in 0 .. l /\ r + 1 \in 1 .. l + 1 /\ n = k + r /\ n + 1 = k + (r + 1)
        /\ 1 \in 1 .. k + 1 /\ l \in 0 .. l /\ r + 1 <= l + 1 /\ r <= l
    BY <1>1, <1>3
  <2>2. V!Part(b, 1, r) \in Strings /\ V!Part(b, r + 1, l) \in Strings
    BY <2>1, Front, Rear
  <2>3. V!Part(s, 1, k + r) = a \o V!Part(b, 1, r)
    <3>1. V!Part(s, 1, k + r) = V!Part(a, 1, k) \o V!Part(b, 1, r)
      BY <2>1, PieceOfJoined
    <3> QED BY <3>1, Whole
  <2>4. V!Part(s, k + (r + 1), k + l) = V!Part(b, r + 1, l)
    BY <2>1, PieceOfJoined
  <2>5. V!Min({r, l}) = r
    <3>1. {r, l} \in SUBSET Nat /\ r \in {r, l} /\ \A y \in {r, l} : r <= y
      BY <1>1, <2>1
    <3> QED BY <3>1, Smallest
  <2>6. V!value_first(<<a, b>>, n) = <<a, V!Part(b, 1, r)>>
    <3>1. V!value_first(<<a, b>>, n) = <<a, V!Part(b, 1, V!Min({r, l}))>>
      BY <1>3, TwoParts DEF V!value_first
    <3> QED BY <3>1, <2>5
  <2>7. V!value_second(<<a, b>>, n) = <<<<>>, V!Part(b, r + 1, l)>>
    BY <1>3, TwoParts DEF V!value_second
  <2>8. <<>> \o V!Part(b, r + 1, l) = V!Part(s, n + 1, k + l) /\ <<>> \in Strings
    BY <2>1, <2>2, <2>4, NoText
  <2>9. V!Part(s, 1, n) = a \o V!Part(b, 1, r)
    BY <2>1, <2>3
  <2> HIDE DEF s, k, l, r
  <2>10. \E x, y \in Strings : V!value_first(<<a, b>>, n) = <<x, y>> /\ x \o y = V!Part(s, 1, n)
    BY <2>2, <2>6, <2>9
  <2>11. \E x, y \in Strings : V!value_second(<<a, b>>, n) = <<x, y>> /\ x \o y = V!Part(s, n + 1, k + l)
    BY <2>2, <2>7, <2>8
  <2> QED BY <2>10, <2>11 DEF s, k, l
<1> QED
  BY <1>2, <1>3

(* CutIsExact, of any two parts.                                           *)
CutsExactly(v) ==
  \A n \in 0 .. Len(V!Flat(v)) :
    LET cut == V!value_first_second(v, n) s == V!Flat(v)
    IN /\ V!Flat(cut[1]) = V!Part(s, 1, n) /\ V!Flat(cut[2]) = V!Part(s, n + 1, Len(s))
       /\ V!value_to_continuous(cut[2]) = V!Flat(cut[2])
       /\ V!value_compare_mem(cut[1], V!Part(s, 1, n))

(* value_first_second of any two parts, wherever it cuts them.             *)
LEMMA CutsAreExact ==
  ASSUME NEW a \in Strings, NEW b \in Strings
  PROVE  CutsExactly(<<a, b>>)
<1> DEFINE s == a \o b
<1>1. V!Flat(<<a, b>>) = s
  BY TwoParts
<1>2. Len(s) = Len(a) + Len(b)
  BY Joined
<1>3. ASSUME NEW n \in 0 .. Len(s), NEW cut, cut = V!value_first_second(<<a, b>>, n)
      PROVE  /\ V!Flat(cut[1]) = V!Part(s, 1, n) /\ V!Flat(cut[2]) = V!Part(s, n + 1, Len(s))
             /\ V!value_to_continuous(cut[2]) = V!Flat(cut[2])
             /\ V!value_compare_mem(cut[1], V!Part(s, 1, n))
  <2>1. cut[1] = V!value_first(<<a, b>>, n) /\ cut[2] = V!value_second(<<a, b>>, n)
    BY <1>3, TwoParts DEF V!value_first_second
  <2>2. n \in 0 .. Len(a) + Len(b)
    BY <1>2
  <2>3. PICK x \in Strings, y \in Strings :
          V!value_first(<<a, b>>, n) = <<x, y>> /\ x \o y = V!Part(s, 1, n)
    BY <2>2, Cuts
  <2>4. PICK z \in Strings, w \in Strings :
          V!value_second(<<a, b>>, n) = <<z, w>> /\ z \o w = V!Part(s, n + 1, Len(a) + Len(b))
    BY <2>2, Cuts
  <2> HIDE DEF s
  <2>5. V!Flat(cut[1]) = V!Part(s, 1, n) /\ V!value_compare_mem(cut[1], V!Part(s, 1, n))
    <3>1. cut[1] = <<x, y>>
      BY <2>1, <2>3
    <3> QED BY <2>3, <3>1, TwoParts, SameAsJoined
  <2>6. V!Flat(cut[2]) = V!Part(s, n + 1, Len(s)) /\ V!value_to_continuous(cut[2]) = V!Flat(cut[2])
    <3>1. cut[2] = <<z, w>>
      BY <2>1, <2>4
    <3>2. V!Flat(<<z, w>>) = z \o w /\ V!value_to_continuous(<<z, w>>) = z \o w
      BY TwoParts, SameAsJoined
    <3>3. z \o w = V!Part(s, n + 1, Len(s))
      BY <1>2, <2>4
    <3> QED BY <3>1, <3>2, <3>3
  <2> QED BY <2>5, <2>6
<1> HIDE DEF s
<1> QED
  BY <1>1, <1>3 DEF CutsExactly

------------------------------------------------------------------------------
(* Numbers.                                                                *)

Results == -1 .. UINT_MAX

(* The value of a digit.                                                   *)
LEMMA DigitsAre ==
  \A c \in DOMAIN V!Digits : V!Digits[c] \in 0 .. 9
BY DEF V!Digits

(* A digit read: never beyond the largest unsigned int, exact if it is     *)
(* accepted, and accepted if what was read before is below the limit.      *)
LEMMA NextDigitIs ==
  ASSUME V!ValuesAssumption, NEW n \in Results, NEW c
  PROVE  /\ V!NextDigit(n, c) \in Results
         /\ V!NextDigit(n, c) # -1 => /\ n # -1 /\ c \in DOMAIN V!Digits
                                      /\ V!NextDigit(n, c) = 10 * n + V!Digits[c]
         /\ 0 <= n /\ n < (UINT_MAX - 9) \div 10 /\ c \in DOMAIN V!Digits =>
              V!NextDigit(n, c) = 10 * n + V!Digits[c] /\ V!NextDigit(n, c) # -1
<1> DEFINE M == (UINT_MAX - 9) \div 10
           d == V!Digits[c]
<1>1. UINT_MAX \in Nat /\ UINT_MAX > 9 /\ n \in Int /\ -1 <= n /\ n <= UINT_MAX
  BY DEF V!ValuesAssumption, Results
<1>2. M \in Nat /\ 10 * M <= UINT_MAX - 9
  BY <1>1
<1> HIDE DEF M
<1>3. CASE n = -1 \/ n >= M \/ c \notin DOMAIN V!Digits
  <2>1. V!NextDigit(n, c) = -1
    BY <1>3 DEF V!NextDigit, M
  <2> QED BY <1>1, <1>2, <1>3, <2>1 DEF Results, M
<1>4. CASE ~(n = -1 \/ n >= M \/ c \notin DOMAIN V!Digits)
  <2>1. V!NextDigit(n, c) = 10 * n + d
    BY <1>4 DEF V!NextDigit, M
  <2>2. d \in 0 .. 9
    BY <1>4, DigitsAre
  <2> HIDE DEF d
  <2>3. 10 * n + d \in Results /\ 10 * n + d # -1
    BY <1>1, <1>2, <1>4, <2>2 DEF Results
  <2> QED BY <1>4, <2>1, <2>3 DEF d
<1> QED
  BY <1>3, <1>4

(* The numbers that reading s passes through.                              *)
Reading(s, n, g) ==
  g \in [0 .. Len(s) -> Results] /\ g[0] = n /\ \A i \in 1 .. Len(s) : g[i] = V!NextDigit(g[i - 1], s[i])

(* Reading a part passes through numbers that the steps of value_to_uint   *)
(* give.                                                                   *)
LEMMA ReadIs ==
  ASSUME V!ValuesAssumption, NEW s \in Strings, NEW n \in Results
  PROVE  \E g : Reading(s, n, g) /\ V!Read(s, n) = g[Len(s)]
<1> DEFINE Size == Len(s)
           rec(f) == [i \in 0 .. Size |-> IF i = 0 THEN n ELSE V!NextDigit(f[i - 1], s[i])]
           read == CHOOSE f : f = rec(f)
           stage == [x \in Results \X (1 .. Size) |-> V!NextDigit(x[1], s[x[2]])]
<1>1. Size \in Nat
  BY DEF Strings
<1>2. V!Read(s, n) = read[Size]
  BY DEF V!Read
<1>3. stage \in [Results \X (1 .. Size) -> Results]
  BY NextDigitIs
<1>4. \A x \in Results, i \in 1 .. Size : stage[<<x, i>>] = V!NextDigit(x, s[i])
  OBVIOUS
<1> HIDE DEF Size, stage
<1>5. PICK g : Recurs(g, Size, Results, n, stage)
  <2>1. stage \in StepsOf(Size, Results)
    BY <1>3 DEF StepsOf
  <2> QED BY <1>1, <2>1, RecursionUpTo
<1>14. g \in [0 .. Size -> Results] /\ g[0] = n /\ \A i \in 1 .. Size : g[i] = stage[<<g[i - 1], i>>]
  BY <1>5 DEF Recurs
<1>6. \A i \in 1 .. Size : g[i] = V!NextDigit(g[i - 1], s[i])
  <2>1. \A i \in 1 .. Size : g[i - 1] \in Results
    BY <1>1, <1>14
  <2> QED BY <1>4, <1>14, <2>1
<1>7. g = rec(g)
  <2>1. \A i \in 0 .. Size : g[i] = rec(g)[i]
    BY <1>1, <1>14, <1>6
  <2>2. g = [i \in 0 .. Size |-> g[i]]
    BY <1>14
  <2> QED BY <2>1, <2>2
<1>8. read = rec(read)
  <2> HIDE DEF rec
  <2> QED BY <1>7
<1>9. read[0] = n /\ \A i \in 1 .. Size : read[i] = V!NextDigit(read[i - 1], s[i])
  <2> HIDE DEF read
  <2> QED BY <1>1, <1>8
<1> HIDE DEF read
<1>10. \A i \in 1 .. Size : read[i - 1] \in Results => read[i] = stage[<<read[i - 1], i>>]
  BY <1>4, <1>9
<1>11. \A i \in 0 .. Size : read[i] = g[i]
  <2>1. RecursWithin(read, Size, Results, n, stage)
    BY <1>9, <1>10 DEF RecursWithin
  <2>2. SameUpTo(read, g, Size)
    BY <1>1, <1>5, <2>1, RecursionIsUnique
  <2> QED BY <2>2 DEF SameUpTo
<1>12. read[Size] = g[Size]
  BY <1>1, <1>11
<1> QED
  BY <1>2, <1>14, <1>6, <1>12 DEF Reading, Size

(* The numbers that the digits of s mean.                                  *)
Meaning(s, d) ==
  /\ d \in [0 .. Len(s) -> Nat] /\ d[0] = 0
  /\ \A i \in 1 .. Len(s) : d[i] = 10 * d[i - 1] + V!Digits[s[i]]

(* What a text of digits means passes through the numbers of its           *)
(* beginnings.                                                             *)
LEMMA DecimalIs ==
  ASSUME NEW s \in Strings, V!IsNumber(s)
  PROVE  \E d : Meaning(s, d) /\ V!Decimal(s) = d[Len(s)]
<1> DEFINE Size == Len(s)
           rec(f) == [i \in 0 .. Size |-> IF i = 0 THEN 0 ELSE 10 * f[i - 1] + V!Digits[s[i]]]
           number == CHOOSE f : f = rec(f)
           stage == [x \in Nat \X (1 .. Size) |-> 10 * x[1] + V!Digits[s[x[2]]]]
<1>1. Size \in Nat
  BY DEF Strings
<1>2. V!Decimal(s) = number[Size]
  BY DEF V!Decimal
<1>3. \A i \in 1 .. Size : V!Digits[s[i]] \in Nat
  <2>1. \A i \in 1 .. Size : s[i] \in DOMAIN V!Digits
    BY DEF V!IsNumber, Strings
  <2> QED BY <2>1, DigitsAre
<1>4. stage \in [Nat \X (1 .. Size) -> Nat]
  <2>1. ASSUME NEW x \in Nat, NEW i \in 1 .. Size PROVE 10 * x + V!Digits[s[i]] \in Nat
    BY <1>3
  <2> QED BY <2>1
<1>5. \A x \in Nat, i \in 1 .. Size : stage[<<x, i>>] = 10 * x + V!Digits[s[i]]
  OBVIOUS
<1> HIDE DEF Size, stage
<1>6. PICK g : Recurs(g, Size, Nat, 0, stage)
  <2>1. stage \in StepsOf(Size, Nat) /\ 0 \in Nat
    BY <1>4 DEF StepsOf
  <2> QED BY <1>1, <2>1, RecursionUpTo
<1>14. g \in [0 .. Size -> Nat] /\ g[0] = 0 /\ \A i \in 1 .. Size : g[i] = stage[<<g[i - 1], i>>]
  BY <1>6 DEF Recurs
<1>7. \A i \in 1 .. Size : g[i] = 10 * g[i - 1] + V!Digits[s[i]]
  <2>1. \A i \in 1 .. Size : g[i - 1] \in Nat
    BY <1>1, <1>14
  <2> QED BY <1>5, <1>14, <2>1
<1>8. g = rec(g)
  <2>1. \A i \in 0 .. Size : g[i] = rec(g)[i]
    BY <1>1, <1>14, <1>7
  <2>2. g = [i \in 0 .. Size |-> g[i]]
    BY <1>14
  <2> QED BY <2>1, <2>2
<1>9. number = rec(number)
  <2> HIDE DEF rec
  <2> QED BY <1>8
<1>10. number[0] = 0 /\ \A i \in 1 .. Size : number[i] = 10 * number[i - 1] + V!Digits[s[i]]
  <2> HIDE DEF number
  <2> QED BY <1>1, <1>9
<1> HIDE DEF number
<1>11. \A i \in 1 .. Size : number[i - 1] \in Nat => number[i] = stage[<<number[i - 1], i>>]
  BY <1>5, <1>10
<1>12. \A i \in 0 .. Size : number[i] = g[i]
  <2>1. RecursWithin(number, Size, Nat, 0, stage)
    BY <1>11, <1>10 DEF RecursWithin
  <2>2. SameUpTo(number, g, Size)
    BY <1>1, <1>6, <2>1, RecursionIsUnique
  <2> QED BY <2>2 DEF SameUpTo
<1>13. number[Size] = g[Size]
  BY <1>1, <1>12
<1> QED
  BY <1>2, <1>14, <1>7, <1>13 DEF Meaning, Size

(* Reading one part after the other is reading what they are together.     *)
LEMMA ReadJoined ==
  ASSUME V!ValuesAssumption, NEW a \in Strings, NEW b \in Strings
  PROVE  \E g : Reading(a \o b, 0, g) /\ V!value_to_uint(<<a, b>>) = g[Len(a \o b)]
<1> DEFINE s == a \o b
           k == Len(a)
           l == Len(b)
<1>1. /\ s \in Strings /\ Len(s) = k + l /\ k \in Nat /\ l \in Nat
      /\ \A i \in 1 .. k : s[i] = a[i]
      /\ \A i \in k + 1 .. k + l : s[i] = b[i - k]
  BY Joined
<1>2. 0 \in Results
  BY DEF V!ValuesAssumption, Results
<1>3. PICK f : Reading(a, 0, f) /\ V!Read(a, 0) = f[k]
  BY <1>2, ReadIs
<1>4. f \in [0 .. k -> Results] /\ f[0] = 0 /\ \A i \in 1 .. k : f[i] = V!NextDigit(f[i - 1], a[i])
  BY <1>3 DEF Reading
<1>5. f[k] \in Results
  BY <1>1, <1>4
<1>6. PICK h : Reading(b, f[k], h) /\ V!Read(b, f[k]) = h[l]
  BY <1>5, ReadIs
<1>7. h \in [0 .. l -> Results] /\ h[0] = f[k] /\ \A i \in 1 .. l : h[i] = V!NextDigit(h[i - 1], b[i])
  BY <1>6 DEF Reading
<1>8. V!value_to_uint(<<a, b>>) = h[l]
  <2>1. V!value_to_uint(<<a, b>>) = V!Read(b, V!Read(a, 0))
    BY TwoParts DEF V!value_to_uint
  <2> QED BY <1>3, <1>6, <2>1
<1> HIDE DEF s, k, l
<1> DEFINE g == [i \in 0 .. k + l |-> IF i <= k THEN f[i] ELSE h[i - k]]
<1>9. g \in [0 .. k + l -> Results]
  <2>1. ASSUME NEW i \in 0 .. k + l PROVE (IF i <= k THEN f[i] ELSE h[i - k]) \in Results
    <3>1. CASE i <= k
      <4>1. i \in 0 .. k
        BY <1>1, <3>1
      <4> QED BY <1>4, <3>1, <4>1
    <3>2. CASE ~(i <= k)
      <4>1. i - k \in 0 .. l
        BY <1>1, <3>2
      <4> QED BY <1>7, <3>2, <4>1
    <3> QED BY <3>1, <3>2
  <2> QED BY <2>1
<1>10. \A i \in 0 .. k : g[i] = f[i]
  BY <1>1
<1>11. \A i \in k .. k + l : g[i] = h[i - k]
  <2>1. ASSUME NEW i \in k .. k + l PROVE g[i] = h[i - k]
    <3>1. CASE i = k
      <4>1. i - k = 0 /\ i \in 0 .. k
        BY <1>1, <3>1
      <4> QED BY <1>7, <1>10, <3>1, <4>1
    <3>2. CASE i # k
      BY <1>1, <3>2
    <3> QED BY <3>1, <3>2
  <2> QED BY <2>1
<1> HIDE DEF g
<1>12. g[0] = 0 /\ g[k + l] = h[l]
  <2>1. 0 \in 0 .. k /\ k + l \in k .. k + l /\ (k + l) - k = l
    BY <1>1
  <2> QED BY <1>4, <1>10, <1>11, <2>1
<1>13. ASSUME NEW i \in 1 .. k + l PROVE g[i] = V!NextDigit(g[i - 1], s[i])
  <2>1. CASE i <= k
    <3>1. i \in 1 .. k /\ i \in 0 .. k /\ i - 1 \in 0 .. k
      BY <1>1, <2>1
    <3>2. f[i] = V!NextDigit(f[i - 1], a[i])
      BY <1>4, <3>1
    <3>3. g[i] = f[i] /\ g[i - 1] = f[i - 1] /\ s[i] = a[i]
      BY <1>1, <1>10, <3>1
    <3> QED BY <3>2, <3>3
  <2>2. CASE ~(i <= k)
    <3>1. /\ i \in k + 1 .. k + l /\ i \in k .. k + l /\ i - 1 \in k .. k + l
          /\ i - k \in 1 .. l /\ (i - 1) - k = (i - k) - 1
      BY <1>1, <2>2
    <3>2. h[i - k] = V!NextDigit(h[(i - k) - 1], b[i - k])
      BY <1>7, <3>1
    <3>3. g[i] = h[i - k] /\ g[i - 1] = h[(i - k) - 1] /\ s[i] = b[i - k]
      BY <1>1, <1>11, <3>1
    <3> QED BY <3>2, <3>3
  <2> QED BY <2>1, <2>2
<1>14. Reading(s, 0, g) /\ V!value_to_uint(<<a, b>>) = g[Len(s)]
  BY <1>1, <1>8, <1>9, <1>12, <1>13 DEF Reading
<1> QED
  BY <1>14 DEF s

(* UintIsExact, of any two parts. *)
ReadsExactly(v) ==
  LET s == V!Flat(v) n == V!value_to_uint(v)
  IN /\ n # -1 => V!IsNumber(s) /\ n = V!Decimal(s) /\ n <= UINT_MAX
     /\ V!IsNumber(s) /\ V!Decimal(s) < 10 * ((UINT_MAX - 9) \div 10) => n = V!Decimal(s)

(* value_to_uint of any two parts: what it accepts is a number, exact, and *)
(* not wrapped; and it accepts every number below the last ten.            *)
LEMMA ReadsAreExact ==
  ASSUME V!ValuesAssumption, NEW a \in Strings, NEW b \in Strings
  PROVE  ReadsExactly(<<a, b>>)
<1> DEFINE s == a \o b
           Size == Len(s)
           M == (UINT_MAX - 9) \div 10
           n == V!value_to_uint(<<a, b>>)
<1>1. s \in Strings /\ Size \in Nat /\ DOMAIN s = 1 .. Size
  <2>1. s \in Strings
    BY Joined
  <2> HIDE DEF s
  <2> QED BY <2>1 DEF Strings
<1>2. UINT_MAX \in Nat /\ M \in Nat
  BY DEF V!ValuesAssumption
<1>3. PICK g : Reading(s, 0, g) /\ n = g[Size]
  BY ReadJoined
<1> HIDE DEF s, Size, M, n
<1>4. /\ g \in [0 .. Size -> Results] /\ g[0] = 0
      /\ \A i \in 1 .. Size : g[i] = V!NextDigit(g[i - 1], s[i])
  BY <1>3 DEF Reading, Size
<1>5. \A k \in 0 .. Size - 1 : /\ k \in Nat /\ k + 1 \in 1 .. Size /\ k \in 0 .. Size /\ k + 1 \in 0 .. Size
                            /\ (k + 1) - 1 = k
  BY <1>1
<1>6. \A k \in 0 .. Size - 1 : g[k] \in Results /\ g[k + 1] = V!NextDigit(g[k], s[k + 1])
  BY <1>4, <1>5
<1>7. ASSUME n # -1 PROVE V!IsNumber(s)
  <2> DEFINE T == {i \in 0 .. Size : g[i] # -1 => \A j \in 1 .. i : s[j] \in DOMAIN V!Digits}
  <2>1. 0 \in T
    BY <1>1
  <2>2. ASSUME NEW k \in 0 .. Size - 1, k \in T PROVE k + 1 \in T
    <3>1. g[k + 1] # -1 => g[k] # -1 /\ s[k + 1] \in DOMAIN V!Digits
      BY <1>6, NextDigitIs
    <3>2. \A j \in 1 .. k + 1 : j \in 1 .. k \/ j = k + 1
      BY <1>5
    <3> QED BY <1>5, <2>2, <3>1, <3>2
  <2>3. T \in SUBSET Nat
    BY <1>1
  <2> HIDE DEF T
  <2>4. Size \in T
    BY <1>1, <2>1, <2>2, <2>3, InductionUpTo
  <2> QED BY <1>1, <1>3, <1>7, <2>4 DEF T, V!IsNumber
<1>8. ASSUME V!IsNumber(s)
      PROVE  (n # -1 => n = V!Decimal(s)) /\ (V!Decimal(s) < 10 * M => n = V!Decimal(s))
  <2>1. PICK d : Meaning(s, d) /\ V!Decimal(s) = d[Size]
    BY <1>1, <1>8, DecimalIs DEF Size
  <2>2. /\ d \in [0 .. Size -> Nat] /\ d[0] = 0
        /\ \A i \in 1 .. Size : d[i] = 10 * d[i - 1] + V!Digits[s[i]]
    BY <2>1 DEF Meaning, Size
  <2>3. \A k \in 0 .. Size - 1 : /\ d[k] \in Nat /\ d[k + 1] \in Nat
                              /\ d[k + 1] = 10 * d[k] + V!Digits[s[k + 1]]
                              /\ s[k + 1] \in DOMAIN V!Digits /\ V!Digits[s[k + 1]] \in 0 .. 9
    <3>1. \A k \in 0 .. Size - 1 : s[k + 1] \in DOMAIN V!Digits
      BY <1>1, <1>5, <1>8 DEF V!IsNumber
    <3> QED BY <1>5, <2>2, <3>1, DigitsAre
  <2> DEFINE T == {i \in 0 .. Size : (g[i] # -1 => g[i] = d[i]) /\ (d[i] < 10 * M => g[i] = d[i])}
  <2>4. 0 \in T
    BY <1>1, <1>4, <2>2
  <2>5. ASSUME NEW k \in 0 .. Size - 1, k \in T PROVE k + 1 \in T
    <3> DEFINE x == g[k]
               y == d[k]
               c == V!Digits[s[k + 1]]
    <3>1. x \in Results /\ y \in Nat /\ c \in 0 .. 9
      BY <1>6, <2>3
    <3>2. (x # -1 => x = y) /\ (y < 10 * M => x = y)
      BY <2>5
    <3>3. d[k + 1] = 10 * y + c
      BY <2>3
    <3>4. g[k + 1] # -1 => x # -1 /\ g[k + 1] = 10 * x + c
      BY <1>6, NextDigitIs
    <3>5. 0 <= x /\ x < M => g[k + 1] = 10 * x + c
      BY <1>6, <2>3, NextDigitIs DEF M
    <3> HIDE DEF x, y, c
    <3>6. g[k + 1] # -1 => g[k + 1] = d[k + 1]
      BY <3>2, <3>3, <3>4
    <3>7. ASSUME d[k + 1] < 10 * M PROVE g[k + 1] = d[k + 1]
      <4>1. y < M /\ y < 10 * M
        BY <1>2, <3>1, <3>3, <3>7
      <4>2. x = y /\ 0 <= x
        BY <3>1, <3>2, <4>1
      <4> QED BY <3>3, <3>5, <4>1, <4>2
    <3> QED BY <1>5, <3>6, <3>7
  <2>6. T \in SUBSET Nat
    BY <1>1
  <2> HIDE DEF T
  <2>7. Size \in T
    BY <1>1, <2>4, <2>5, <2>6, InductionUpTo
  <2> QED BY <1>3, <2>1, <2>7 DEF T
<1>9. n <= UINT_MAX
  <2>1. g[Size] \in Results
    BY <1>1, <1>4
  <2> QED BY <1>2, <1>3, <2>1 DEF Results
<1>10. V!Flat(<<a, b>>) = s
  BY TwoParts DEF s
<1>11. /\ n # -1 => V!IsNumber(s) /\ n = V!Decimal(s) /\ n <= UINT_MAX
       /\ V!IsNumber(s) /\ V!Decimal(s) < 10 * M => n = V!Decimal(s)
  BY <1>7, <1>8, <1>9
<1> QED
  BY <1>10, <1>11 DEF ReadsExactly, n, M

------------------------------------------------------------------------------
(* Comparing in either case, after trimming. *)

KA == <<"k", "a">>
Low(s) == [j \in DOMAIN s |-> V!Lower(s[j])]
IsKeepAlive(s) == Low(V!TrimmedSeq(s)) = KA

(* The text in lower case.                                                 *)
LEMMA LowIs ==
  ASSUME NEW s \in Strings
  PROVE  /\ Low(s) \in Strings /\ Len(Low(s)) = Len(s)
         /\ \A i \in 1 .. Len(s) : Low(s)[i] = V!Lower(s[i])
<1>1. Len(s) \in Nat /\ DOMAIN s = 1 .. Len(s) /\ \A j \in 1 .. Len(s) : s[j] \in Letters
  BY DEF Strings
<1>2. \A j \in 1 .. Len(s) : V!Lower(s[j]) \in Letters
  BY <1>1 DEF V!Lower, Letters
<1>3. Low(s) = [j \in 1 .. Len(s) |-> V!Lower(s[j])]
  BY <1>1 DEF Low
<1>4. Low(s) \in [1 .. Len(s) -> Letters]
  BY <1>2, <1>3
<1>5. Low(s) \in Seq(Letters) /\ Len(Low(s)) = Len(s)
  <2> DEFINE n == Len(s)
             t == Low(s)
  <2>1. n \in Nat /\ t \in [1 .. n -> Letters]
    BY <1>1, <1>4
  <2> HIDE DEF n, t
  <2>2. t \in Seq(Letters) /\ Len(t) = n
    BY <2>1
  <2> QED BY <2>2 DEF n, t
<1> QED
  BY <1>3, <1>5 DEF Strings

(* Lower case part by part is lower case of the whole.                     *)
LEMMA LowJoined ==
  ASSUME NEW a \in Strings, NEW b \in Strings
  PROVE  Low(a) \o Low(b) = Low(a \o b)
<1> DEFINE x == Low(a)
           y == Low(b)
           z == Low(a \o b)
           s == a \o b
<1>1. /\ s \in Strings /\ Len(s) = Len(a) + Len(b) /\ Len(a) \in Nat /\ Len(b) \in Nat
      /\ \A i \in 1 .. Len(a) : s[i] = a[i]
      /\ \A i \in Len(a) + 1 .. Len(a) + Len(b) : s[i] = b[i - Len(a)]
  BY Joined
<1>2. x \in Strings /\ Len(x) = Len(a) /\ \A i \in 1 .. Len(a) : x[i] = V!Lower(a[i])
  BY LowIs
<1>3. y \in Strings /\ Len(y) = Len(b) /\ \A i \in 1 .. Len(b) : y[i] = V!Lower(b[i])
  BY LowIs
<1>4. z \in Strings /\ Len(z) = Len(s) /\ \A i \in 1 .. Len(s) : z[i] = V!Lower(s[i])
  BY <1>1, LowIs
<1> HIDE DEF x, y, z, s
<1> DEFINE w == x \o y
<1>5. /\ w \in Strings /\ Len(w) = Len(a) + Len(b)
      /\ \A i \in 1 .. Len(a) : w[i] = x[i]
      /\ \A i \in Len(a) + 1 .. Len(a) + Len(b) : w[i] = y[i - Len(a)]
  <2>1. /\ w \in Strings /\ Len(w) = Len(x) + Len(y)
        /\ \A i \in 1 .. Len(x) : w[i] = x[i]
        /\ \A i \in Len(x) + 1 .. Len(x) + Len(y) : w[i] = y[i - Len(x)]
    BY <1>2, <1>3, Joined
  <2> QED BY <1>2, <1>3, <2>1
<1> HIDE DEF w
<1>6. ASSUME NEW i \in 1 .. Len(w) PROVE w[i] = z[i]
  <2>1. CASE i <= Len(a)
    <3>1. i \in 1 .. Len(a) /\ i \in 1 .. Len(s)
      BY <1>1, <1>5, <2>1
    <3> QED BY <1>1, <1>2, <1>4, <1>5, <3>1
  <2>2. CASE ~(i <= Len(a))
    <3>1. i \in Len(a) + 1 .. Len(a) + Len(b) /\ i \in 1 .. Len(s) /\ i - Len(a) \in 1 .. Len(b)
      BY <1>1, <1>5, <2>2
    <3> QED BY <1>1, <1>3, <1>4, <1>5, <3>1
  <2> QED BY <2>1, <2>2
<1>7. w = z
  BY <1>1, <1>4, <1>5, <1>6, SameText
<1> QED
  BY <1>7 DEF w, x, y, z, s

(* value_compare_mem compares the text, wherever the seam is.              *)
LEMMA ComparesText ==
  ASSUME NEW a \in Strings, NEW b \in Strings, NEW w \in Strings
  PROVE  V!value_compare_mem(<<a, b>>, w) <=> a \o b = w
<1>1. /\ Len(a) \in Nat /\ Len(b) \in Nat /\ Len(w) \in Nat
      /\ a \o b \in Strings /\ Len(a \o b) = Len(a) + Len(b)
      /\ \A i \in 1 .. Len(a) : (a \o b)[i] = a[i]
      /\ \A i \in Len(a) + 1 .. Len(a) + Len(b) : (a \o b)[i] = b[i - Len(a)]
  BY Joined DEF Strings
<1>2. ASSUME V!value_compare_mem(<<a, b>>, w) PROVE a \o b = w
  <2> DEFINE s == a \o b
             k == Len(a)
  <2>1. Len(a) + Len(b) = Len(w) /\ a = V!Part(w, 1, k) /\ b = V!Part(w, k + 1, Len(w))
    BY <1>2, TwoParts DEF V!value_compare_mem
  <2>2. k \in 0 .. Len(w) /\ k + 1 \in 1 .. Len(w) + 1
    BY <1>1, <2>1
  <2>3. \A i \in 1 .. k : a[i] = w[i]
    BY <2>1, <2>2, Front
  <2>4. \A i \in 1 .. Len(w) - (k + 1) + 1 : b[i] = w[(k + 1) + i - 1]
    BY <2>1, <2>2, Rear
  <2> HIDE DEF s
  <2>5. ASSUME NEW i \in 1 .. Len(s) PROVE s[i] = w[i]
    <3>1. CASE i <= k
      <4>1. i \in 1 .. k
        BY <1>1, <3>1 DEF s
      <4> QED BY <1>1, <2>3, <4>1 DEF s
    <3>2. CASE ~(i <= k)
      <4>1. /\ i \in k + 1 .. k + Len(b) /\ i - k \in 1 .. Len(w) - (k + 1) + 1
            /\ (k + 1) + (i - k) - 1 = i
        BY <1>1, <2>1, <3>2 DEF s
      <4>2. s[i] = b[i - k]
        BY <1>1, <4>1 DEF s
      <4> QED BY <2>4, <4>1, <4>2
    <3> QED BY <3>1, <3>2
  <2>6. s \in Strings /\ Len(s) = Len(w)
    BY <1>1, <2>1 DEF s
  <2>7. s = w
    BY <2>5, <2>6, SameText
  <2> QED BY <2>7 DEF s
<1>3. a \o b = w => V!value_compare_mem(<<a, b>>, w)
  BY SameAsJoined
<1> QED
  BY <1>2, <1>3

(* value_compare_case_mem compares the text in lower case.                 *)
LEMMA ComparesLow ==
  ASSUME NEW a \in Strings, NEW b \in Strings
  PROVE  V!value_compare_case_mem(<<a, b>>, KA) <=> Low(a \o b) = KA
<1> DEFINE f == [i \in 1 .. 2 |-> [j \in DOMAIN <<a, b>>[i] |-> V!Lower(<<a, b>>[i][j])]]
<1>1. KA \in Strings
  BY DEF KA, Strings, Letters
<1>2. f[1] = Low(a) /\ f[2] = Low(b)
  BY TwoParts DEF Low
<1>3. V!value_compare_case_mem(<<a, b>>, KA) <=> V!value_compare_mem(f, KA)
  BY DEF V!value_compare_case_mem
<1> HIDE DEF f
<1>4. V!value_compare_mem(f, KA) <=> V!value_compare_mem(<<Low(a), Low(b)>>, KA)
  BY <1>2, TwoParts DEF V!value_compare_mem
<1>5. Low(a) \in Strings /\ Low(b) \in Strings
  BY LowIs
<1>6. V!value_compare_mem(<<Low(a), Low(b)>>, KA) <=> Low(a) \o Low(b) = KA
  BY <1>1, <1>5, ComparesText
<1> QED
  BY <1>3, <1>4, <1>6, LowJoined

(* Comparing what value_trim returned, as the loop over the header does,   *)
(* and as the property does.                                               *)
LEMMA ComparesTrimmed ==
  ASSUME NEW a \in Strings, NEW b \in Strings
  PROVE  /\ V!value_compare_case_mem(V!value_trim(<<a, b>>), KA) <=> IsKeepAlive(a \o b)
         /\ V!value_compare_case_mem(<<V!TrimmedSeq(a), <<>>>>, KA) <=> IsKeepAlive(a)
<1>1. PICK x \in Strings, y \in Strings :
        V!value_trim(<<a, b>>) = <<x, y>> /\ x \o y = V!TrimmedSeq(a \o b)
  BY TrimIsTrimmed
<1>2. V!value_compare_case_mem(V!value_trim(<<a, b>>), KA) <=> IsKeepAlive(a \o b)
  BY <1>1, ComparesLow DEF IsKeepAlive
<1>3. V!TrimmedSeq(a) \in Strings
  <2>1. <<>> \in Strings /\ a \o <<>> = a
    BY NoText
  <2>2. PICK z \in Strings, w \in Strings :
          V!value_trim(<<a, <<>>>>) = <<z, w>> /\ z \o w = V!TrimmedSeq(a \o <<>>)
    BY <2>1, TrimIsTrimmed
  <2>3. z \o w \in Strings
    BY Joined
  <2> QED BY <2>1, <2>2, <2>3
<1>4. <<>> \in Strings /\ V!TrimmedSeq(a) \o <<>> = V!TrimmedSeq(a)
  BY <1>3, NoText
<1>5. V!value_compare_case_mem(<<V!TrimmedSeq(a), <<>>>>, KA) <=> IsKeepAlive(a)
  BY <1>3, <1>4, ComparesLow DEF IsKeepAlive
<1> QED
  BY <1>2, <1>5

(* The empty text, which the loop gets from the last value_parse_comma, is *)
(* not keep-alive.                                                         *)
LEMMA NothingIsNoKeepAlive ==
  ~IsKeepAlive(<<>>)
<1>1. <<>> \in Strings /\ Blank(<<>>) /\ Len(<<>>) = 0
  BY NoText DEF Blank
<1>2. V!TrimmedSeq(<<>>) = <<>>
  BY <1>1, Trimmings
<1>3. Len(Low(<<>>)) = 0 /\ Len(KA) = 2
  BY <1>1, LowIs DEF KA
<1> QED
  BY <1>2, <1>3 DEF IsKeepAlive

------------------------------------------------------------------------------
(* Elements between commas.                                                *)

Comma == ","
CommaAt(s, k) ==
  k \in 1 .. Len(s) /\ s[k] = Comma /\ \A i \in 1 .. k - 1 : s[i] # Comma
NoComma(s) == \A i \in 1 .. Len(s) : s[i] # Comma

(* A text without a comma, or with a first one.                            *)
LEMMA FirstComma ==
  ASSUME NEW s \in Strings
  PROVE  NoComma(s) \/ \E k : CommaAt(s, k)
<1> DEFINE T == {i \in 1 .. Len(s) : s[i] = Comma}
<1>1. Len(s) \in Nat
  BY DEF Strings
<1>2. T \in SUBSET Nat
  BY <1>1
<1>3. CASE T = {}
  BY <1>3 DEF NoComma
<1>4. CASE T # {}
  <2> HIDE DEF T
  <2>1. PICK k \in T : \A y \in T : k <= y
    BY <1>2, <1>4, SmallestNumber
  <2>2. k \in 1 .. Len(s) /\ s[k] = Comma
    BY DEF T
  <2>3. ASSUME NEW i \in 1 .. k - 1 PROVE s[i] # Comma
    <3>1. i \in 1 .. Len(s) /\ ~(k <= i)
      BY <1>1, <2>2
    <3>2. i \notin T
      BY <2>1, <3>1
    <3> QED BY <3>1, <3>2 DEF T
  <2> QED BY <2>2, <2>3 DEF CommaAt
<1> QED
  BY <1>3, <1>4

(* What the loop of value_parse_comma over a part finds.                   *)
LEMMA CommaInIs ==
  ASSUME NEW s \in Strings
  PROVE  /\ NoComma(s) => V!CommaIn(s) = 0
         /\ \A k : CommaAt(s, k) => V!CommaIn(s) = k
<1> DEFINE T == {i \in 1 .. Len(s) : s[i] = Comma}
<1>1. V!CommaIn(s) = IF T # {} THEN V!Min(T) ELSE 0
  BY Zenon DEF V!CommaIn, V!SelectInSeq, Comma
<1>2. NoComma(s) => T = {}
  BY DEF NoComma
<1>3. ASSUME NEW k, CommaAt(s, k) PROVE T # {} /\ V!Min(T) = k
  <2>1. Len(s) \in Nat
    BY DEF Strings
  <2>2. k \in T /\ T \in SUBSET Nat
    BY <1>3, <2>1 DEF CommaAt
  <2>3. ASSUME NEW y \in T PROVE k <= y
    <3>1. y \in 1 .. Len(s) /\ s[y] = Comma /\ k \in 1 .. Len(s)
      BY <1>3 DEF CommaAt
    <3>2. y \notin 1 .. k - 1
      BY <1>3, <3>1 DEF CommaAt
    <3> QED BY <2>1, <3>1, <3>2
  <2> HIDE DEF T
  <2> QED BY <2>2, <2>3, Smallest
<1> HIDE DEF T
<1> QED
  BY <1>1, <1>2, <1>3

(* The ends of the elements of s, and the end behind each of them.         *)
EndsIn(s) == V!Commas(s) \union {0, Len(s) + 1}
EndBehind(s, i) == V!Min({j \in EndsIn(s) : j > i})

(* The ends of the elements of a text.                                     *)
LEMMA EndsAre ==
  ASSUME NEW s \in Strings
  PROVE  /\ Len(s) \in Nat /\ EndsIn(s) \in SUBSET (0 .. Len(s) + 1)
         /\ \A i : i \in EndsIn(s) <=> \/ i = 0 \/ i = Len(s) + 1
                                       \/ i \in 1 .. Len(s) /\ s[i] = Comma
         /\ V!Elements(s) = {V!Part(s, i + 1, EndBehind(s, i) - 1) : i \in EndsIn(s) \ {Len(s) + 1}}
<1>1. Len(s) \in Nat /\ V!Commas(s) = {i \in 1 .. Len(s) : s[i] = Comma}
  <2>1. V!Commas(s) = {i \in DOMAIN s : s[i] = Comma}
    BY Zenon DEF V!Commas, Comma
  <2> QED BY <2>1 DEF Strings
<1>2. \A i : i \in EndsIn(s) <=> i = 0 \/ i = Len(s) + 1 \/ (i \in 1 .. Len(s) /\ s[i] = Comma)
  BY <1>1 DEF EndsIn
<1>3. EndsIn(s) \in SUBSET (0 .. Len(s) + 1)
  BY <1>1, <1>2
<1>4. V!Elements(s) = {V!Part(s, i + 1, EndBehind(s, i) - 1) : i \in EndsIn(s) \ {Len(s) + 1}}
  BY DEF V!Elements, EndsIn, EndBehind
<1> QED
  BY <1>1, <1>2, <1>3, <1>4

(* Behind each element there is an end, and no other end is between.       *)
LEMMA EndBehindIs ==
  ASSUME NEW s \in Strings, NEW i \in EndsIn(s) \ {Len(s) + 1}
  PROVE  /\ i \in 0 .. Len(s) /\ EndBehind(s, i) \in EndsIn(s) /\ EndBehind(s, i) \in i + 1 .. Len(s) + 1
         /\ \A j \in EndsIn(s) : j > i => EndBehind(s, i) <= j
<1> DEFINE T == {j \in EndsIn(s) : j > i}
           E == EndsIn(s)
<1>1. Len(s) \in Nat /\ E \in SUBSET (0 .. Len(s) + 1) /\ Len(s) + 1 \in E
  BY EndsAre
<1>2. i \in 0 .. Len(s)
  BY <1>1
<1>3. T \in SUBSET Nat /\ Len(s) + 1 \in T
  BY <1>1, <1>2
<1> HIDE DEF T
<1>4. PICK n \in T : \A y \in T : n <= y
  BY <1>3, SmallestNumber
<1>5. V!Min(T) = n
  BY <1>3, <1>4, Smallest
<1>6. EndBehind(s, i) = n
  BY <1>5 DEF EndBehind, T
<1>7. n \in E /\ n > i /\ n \in i + 1 .. Len(s) + 1
  BY <1>1, <1>2, <1>4 DEF T
<1> QED
  BY <1>2, <1>4, <1>6, <1>7 DEF T

(* What EndBehind is known by.                                             *)
LEMMA EndIs ==
  ASSUME NEW s \in Strings, NEW i \in EndsIn(s) \ {Len(s) + 1},
         NEW n \in EndsIn(s), n > i, \A j \in EndsIn(s) : j > i => n <= j
  PROVE  EndBehind(s, i) = n
<1>1. EndBehind(s, i) <= n /\ n <= EndBehind(s, i)
  BY EndBehindIs
<1>2. EndBehind(s, i) \in Int /\ n \in Int
  BY EndBehindIs, EndsAre
<1> QED
  BY <1>1, <1>2

(* Without a comma the text is the one element.                            *)
LEMMA OneElement ==
  ASSUME NEW s \in Strings, NoComma(s)
  PROVE  V!Elements(s) = {s}
<1>1. Len(s) \in Nat /\ EndsIn(s) = {0, Len(s) + 1}
  BY EndsAre DEF NoComma
<1>2. EndsIn(s) \ {Len(s) + 1} = {0}
  BY <1>1
<1>3. EndBehind(s, 0) = Len(s) + 1
  <2>1. 0 \in EndsIn(s) \ {Len(s) + 1} /\ Len(s) + 1 \in EndsIn(s) /\ Len(s) + 1 > 0
    BY <1>1
  <2>2. \A j \in EndsIn(s) : j > 0 => Len(s) + 1 <= j
    BY <1>1
  <2> QED BY <2>1, <2>2, EndIs
<1>4. V!Elements(s) = {V!Part(s, 0 + 1, EndBehind(s, 0) - 1)}
  BY <1>2, EndsAre
<1>5. 0 + 1 = 1 /\ EndBehind(s, 0) - 1 = Len(s)
  BY <1>1, <1>3
<1> QED
  BY <1>4, <1>5, Whole

(* With one, the text before it is an element, and the others are those of *)
(* the text behind it.                                                     *)
LEMMA FirstElement ==
  ASSUME NEW s \in Strings, NEW k, CommaAt(s, k)
  PROVE  /\ V!Part(s, 1, k - 1) \in Strings /\ V!Part(s, k + 1, Len(s)) \in Strings
         /\ V!Elements(s) = {V!Part(s, 1, k - 1)} \union V!Elements(V!Part(s, k + 1, Len(s)))
<1> DEFINE u == V!Part(s, k + 1, Len(s))
           Size == Len(s)
<1>1. Size \in Nat /\ k \in 1 .. Size /\ s[k] = Comma /\ \A i \in 1 .. k - 1 : s[i] # Comma
  BY DEF CommaAt, Strings
<1>2. k + 1 \in 1 .. Size + 1 /\ k - 1 \in 0 .. Size
  BY <1>1
<1>3. u \in Strings /\ Len(u) = Size - k /\ \A i \in 1 .. Size - k : u[i] = s[k + i]
  <2>1. /\ u \in Strings /\ Len(u) = Size - (k + 1) + 1
        /\ \A i \in 1 .. Size - (k + 1) + 1 : u[i] = s[(k + 1) + i - 1]
    BY <1>2, Rear
  <2> HIDE DEF u
  <2>2. Size - (k + 1) + 1 = Size - k /\ \A i \in 1 .. Size - k : (k + 1) + i - 1 = k + i
    BY <1>1
  <2> QED BY <2>1, <2>2
<1>4. V!Part(s, 1, k - 1) \in Strings
  BY <1>2, Front
<1> DEFINE E == EndsIn(s)
           F == EndsIn(u)
<1>5. E \in SUBSET (0 .. Size + 1) /\ F \in SUBSET (0 .. (Size - k) + 1)
  BY <1>3, EndsAre
<1>6. \A i : i \in E <=> i = 0 \/ i = Size + 1 \/ (i \in 1 .. Size /\ s[i] = Comma)
  BY EndsAre
<1>7. \A i : i \in F <=> i = 0 \/ i = (Size - k) + 1 \/ (i \in 1 .. Size - k /\ u[i] = Comma)
  BY <1>3, EndsAre
<1> HIDE DEF u, E, F
<1>8. \A i \in F : k + i \in E
  <2>1. ASSUME NEW i \in F PROVE k + i \in E
    <3>1. CASE i = 0
      BY <1>1, <1>6, <3>1
    <3>2. CASE i = (Size - k) + 1
      BY <1>1, <1>6, <3>2
    <3>3. CASE i \in 1 .. Size - k /\ u[i] = Comma
      <4>1. k + i \in 1 .. Size /\ s[k + i] = Comma
        BY <1>1, <1>3, <3>3
      <4> QED BY <1>6, <4>1
    <3> QED BY <1>7, <3>1, <3>2, <3>3
  <2> QED BY <2>1
<1>9. \A i \in E : i > 0 => i >= k /\ i - k \in F /\ k + (i - k) = i
  <2>1. ASSUME NEW i \in E, i > 0 PROVE i >= k /\ i - k \in F /\ k + (i - k) = i
    <3>1. i \in Int
      BY <1>1, <1>5
    <3>2. CASE i = Size + 1
      <4>1. i - k = (Size - k) + 1 /\ i >= k /\ k + (i - k) = i
        BY <1>1, <3>2
      <4> QED BY <1>7, <4>1
    <3>3. CASE i \in 1 .. Size /\ s[i] = Comma
      <4>1. i >= k
        <5>1. i \notin 1 .. k - 1
          BY <1>1, <3>3
        <5> QED BY <1>1, <3>3, <5>1
      <4>2. CASE i = k
        BY <1>1, <1>7, <4>2
      <4>3. CASE i # k
        <5>1. i - k \in 1 .. Size - k /\ k + (i - k) = i
          BY <1>1, <3>3, <4>1, <4>3
        <5>2. u[i - k] = Comma
          BY <1>3, <3>3, <5>1
        <5> QED BY <1>7, <4>1, <5>1, <5>2
      <4> QED BY <4>2, <4>3
    <3> QED BY <1>6, <2>1, <3>2, <3>3
  <2> QED BY <2>1
<1>10. 0 \in E \ {Size + 1} /\ EndBehind(s, 0) = k
  <2>1. 0 \in E \ {Size + 1} /\ k \in E /\ k > 0
    BY <1>1, <1>6
  <2>2. \A j \in E : j > 0 => k <= j
    BY <1>1, <1>5, <1>9
  <2> QED BY <2>1, <2>2, EndIs DEF E
<1>11. ASSUME NEW i \in F \ {(Size - k) + 1}
       PROVE  /\ k + i \in E \ {Size + 1}
              /\ V!Part(s, (k + i) + 1, EndBehind(s, k + i) - 1) = V!Part(u, i + 1, EndBehind(u, i) - 1)
  <2> DEFINE n == EndBehind(u, i)
  <2>1. /\ i \in 0 .. Size - k /\ n \in F /\ n \in i + 1 .. (Size - k) + 1
        /\ \A j \in F : j > i => n <= j
    BY <1>3, EndBehindIs DEF F
  <2> HIDE DEF n
  <2>2. k + i \in E \ {Size + 1} /\ k + n \in E /\ k + n > k + i
    BY <1>1, <1>8, <2>1
  <2>3. ASSUME NEW j \in E, j > k + i PROVE k + n <= j
    <3>1. j \in Int /\ j > 0
      BY <1>1, <1>5, <2>1, <2>3
    <3>2. j - k \in F /\ k + (j - k) = j
      BY <1>9, <3>1
    <3>3. j - k > i
      BY <1>1, <2>1, <2>3, <3>1
    <3>4. n <= j - k
      BY <2>1, <3>2, <3>3
    <3> QED BY <1>1, <2>1, <3>1, <3>4
  <2>4. EndBehind(s, k + i) = k + n
    BY <2>2, <2>3, EndIs DEF E
  <2>5. /\ i + 1 \in 1 .. (Size - k) + 1 /\ n - 1 \in 0 .. Size - k /\ i + 1 <= (n - 1) + 1
        /\ (k + i) + 1 \in 1 .. Size + 1 /\ (k + n) - 1 \in 0 .. Size /\ (k + i) + 1 <= ((k + n) - 1) + 1
    BY <1>1, <2>1
  <2> DEFINE t == V!Part(u, i + 1, n - 1)
  <2>6. /\ t \in Strings /\ Len(t) = (n - 1) - (i + 1) + 1
        /\ \A j \in 1 .. (n - 1) - (i + 1) + 1 : t[j] = u[(i + 1) + j - 1]
    <3>1. i + 1 \in 1 .. Len(u) + 1 /\ n - 1 \in 0 .. Len(u)
      BY <1>3, <2>5
    <3> QED BY <1>3, <2>5, <3>1, Piece
  <2> HIDE DEF t
  <2>7. Len(t) = ((k + n) - 1) - ((k + i) + 1) + 1
    BY <1>1, <2>1, <2>6
  <2>8. ASSUME NEW j \in 1 .. Len(t) PROVE t[j] = s[((k + i) + 1) + j - 1]
    <3>1. /\ j \in 1 .. (n - 1) - (i + 1) + 1
          /\ (i + 1) + j - 1 \in 1 .. Size - k
          /\ ((k + i) + 1) + j - 1 = k + ((i + 1) + j - 1)
      BY <1>1, <2>1, <2>6
    <3>2. t[j] = u[(i + 1) + j - 1]
      BY <2>6, <3>1
    <3> QED BY <1>3, <3>1, <3>2
  <2>9. V!Part(s, (k + i) + 1, (k + n) - 1) = t
    BY <2>5, <2>6, <2>7, <2>8, PieceIs DEF Size
  <2> QED BY <2>2, <2>4, <2>9 DEF t, n
<1>12. V!Elements(s) = {V!Part(s, i + 1, EndBehind(s, i) - 1) : i \in E \ {Size + 1}}
  BY EndsAre DEF E
<1>13. V!Elements(u) = {V!Part(u, i + 1, EndBehind(u, i) - 1) : i \in F \ {(Size - k) + 1}}
  <2>1. V!Elements(u) = {V!Part(u, i + 1, EndBehind(u, i) - 1) : i \in F \ {Len(u) + 1}}
    BY <1>3, EndsAre DEF F
  <2> QED BY <1>3, <2>1
<1>14. V!Elements(s) = {V!Part(s, 1, k - 1)} \union V!Elements(u)
  <2>1. ASSUME NEW e \in V!Elements(s) PROVE e = V!Part(s, 1, k - 1) \/ e \in V!Elements(u)
    <3>1. PICK i \in E \ {Size + 1} : e = V!Part(s, i + 1, EndBehind(s, i) - 1)
      BY <1>12
    <3>2. CASE i = 0
      <4>1. i + 1 = 1 /\ EndBehind(s, i) - 1 = k - 1
        BY <1>10, <3>2
      <4> QED BY <3>1, <4>1
    <3>3. CASE i # 0
      <4>1. i \in Int /\ i > 0 /\ i # Size + 1
        BY <1>1, <1>5, <3>3
      <4>2. i - k \in F /\ k + (i - k) = i
        BY <1>9, <4>1
      <4>3. i - k \in F \ {(Size - k) + 1}
        BY <1>1, <4>1, <4>2
      <4>4. e = V!Part(u, (i - k) + 1, EndBehind(u, i - k) - 1)
        BY <1>11, <3>1, <4>2, <4>3
      <4> QED BY <1>13, <4>3, <4>4
    <3> QED BY <3>2, <3>3
  <2>2. V!Part(s, 1, k - 1) \in V!Elements(s)
    <3>1. 0 + 1 = 1 /\ EndBehind(s, 0) - 1 = k - 1
      BY <1>10
    <3>2. V!Part(s, 0 + 1, EndBehind(s, 0) - 1) \in V!Elements(s)
      BY <1>10, <1>12
    <3> QED BY <3>1, <3>2
  <2>3. ASSUME NEW e \in V!Elements(u) PROVE e \in V!Elements(s)
    <3>1. PICK i \in F \ {(Size - k) + 1} : e = V!Part(u, i + 1, EndBehind(u, i) - 1)
      BY <1>13
    <3>2. k + i \in E \ {Size + 1} /\ e = V!Part(s, (k + i) + 1, EndBehind(s, k + i) - 1)
      BY <1>11, <3>1
    <3> QED BY <1>12, <3>2
  <2> QED BY <2>1, <2>2, <2>3
<1> QED
  BY <1>3, <1>4, <1>14 DEF u, Size

(* What value_parse_comma returns, of any two parts.                       *)
Parsed(a, b) == V!value_parse_comma(<<a, b>>)
Gives(a, b, x, y, z, w) ==
  Parsed(a, b).result = <<x, y>> /\ Parsed(a, b).rest = <<z, w>>

(* value_parse_comma returns the first element of the text and leaves the  *)
(* others, whichever of the two parts the comma is in; or, without a       *)
(* comma, everything.                                                      *)
LEMMA ParsesElement ==
  ASSUME NEW a \in Strings, NEW b \in Strings
  PROVE  \/ \E x, y, z, w \in Strings :
              /\ Gives(a, b, x, y, z, w) /\ Parsed(a, b).success = TRUE
              /\ V!Elements(a \o b) = {x \o y} \union V!Elements(z \o w)
         \/ /\ Gives(a, b, a, b, <<>>, <<>>)
            /\ Parsed(a, b).success = (a \o b # <<>>)
            /\ V!Elements(a \o b) = {a \o b}
<1> DEFINE s == a \o b
           la == Len(a)
           lb == Len(b)
           p == Parsed(a, b)
<1>1. /\ s \in Strings /\ Len(s) = la + lb /\ la \in Nat /\ lb \in Nat
      /\ \A i \in 1 .. la : s[i] = a[i]
      /\ \A i \in la + 1 .. la + lb : s[i] = b[i - la]
  BY Joined
<1>2. ASSUME NEW k, CommaAt(a, k)
      PROVE  \E x, y, z, w \in Strings :
               /\ Gives(a, b, x, y, z, w) /\ p.success = TRUE
               /\ V!Elements(s) = {x \o y} \union V!Elements(z \o w)
  <2> DEFINE x == V!Part(a, 1, k - 1)
             z == V!Part(a, k + 1, la)
  <2>1. k \in 1 .. la /\ V!CommaIn(a) = k /\ V!CommaIn(a) > 0
    BY <1>2, <1>1, CommaInIs DEF CommaAt
  <2>2. p = [result |-> <<x, <<>>>>, rest |-> <<z, b>>, success |-> TRUE]
    BY <2>1, TwoParts DEF Parsed, V!value_parse_comma, V!Before, V!Behind
  <2>3. CommaAt(s, k)
    <3> HIDE DEF s
    <3>1. k \in 1 .. Len(s) /\ s[k] = Comma
      BY <1>1, <1>2, <2>1 DEF CommaAt
    <3>2. ASSUME NEW i \in 1 .. k - 1 PROVE s[i] # Comma
      <4>1. i \in 1 .. la
        BY <1>1, <2>1
      <4> QED BY <1>1, <1>2, <4>1 DEF CommaAt
    <3> QED BY <3>1, <3>2 DEF CommaAt
  <2>4. V!Elements(s) = {V!Part(s, 1, k - 1)} \union V!Elements(V!Part(s, k + 1, Len(s)))
    BY <1>1, <2>3, FirstElement
  <2>5. /\ 1 \in 1 .. la + 1 /\ k - 1 \in 0 .. la /\ 1 <= (k - 1) + 1
        /\ k + 1 \in 1 .. la + 1 /\ lb \in 0 .. lb
    BY <1>1, <2>1
  <2>6. V!Part(s, 1, k - 1) = x
    BY <2>5, PieceOfJoined
  <2>7. V!Part(s, k + 1, la + lb) = z \o b
    <3>1. V!Part(s, k + 1, la + lb) = z \o V!Part(b, 1, lb)
      BY <2>5, PieceOfJoined
    <3> QED BY <3>1, Whole
  <2>8. x \in Strings /\ z \in Strings /\ <<>> \in Strings /\ x \o <<>> = x
    BY <2>5, Front, Rear, NoText
  <2>9. p.result = <<x, <<>>>> /\ p.rest = <<z, b>> /\ p.success = TRUE
    BY <2>2
  <2> HIDE DEF x, z, s, p
  <2>10. V!Elements(s) = {x \o <<>>} \union V!Elements(z \o b)
    BY <1>1, <2>4, <2>6, <2>7, <2>8
  <2>11. Gives(a, b, x, <<>>, z, b)
    BY <2>9 DEF Gives, p
  <2> QED BY <2>8, <2>9, <2>10, <2>11
<1>3. ASSUME NoComma(a), NEW k, CommaAt(b, k)
      PROVE  \E x, y, z, w \in Strings :
               /\ Gives(a, b, x, y, z, w) /\ p.success = TRUE
               /\ V!Elements(s) = {x \o y} \union V!Elements(z \o w)
  <2> DEFINE y == V!Part(b, 1, k - 1)
             w == V!Part(b, k + 1, lb)
  <2>1. k \in 1 .. lb /\ V!CommaIn(a) = 0 /\ V!CommaIn(b) = k /\ V!CommaIn(b) > 0 /\ ~(V!CommaIn(a) > 0)
    BY <1>3, <1>1, CommaInIs DEF CommaAt
  <2>2. p = [result |-> <<a, y>>, rest |-> <<<<>>, w>>, success |-> TRUE]
    BY <2>1, TwoParts DEF Parsed, V!value_parse_comma, V!Before, V!Behind
  <2>3. CommaAt(s, la + k)
    <3> HIDE DEF s, la, lb
    <3>1. /\ la + k \in 1 .. Len(s) /\ la + k \in la + 1 .. la + lb /\ (la + k) - la = k
      BY <1>1, <2>1
    <3>2. s[la + k] = Comma
      BY <1>1, <1>3, <3>1 DEF CommaAt
    <3>3. ASSUME NEW i \in 1 .. (la + k) - 1 PROVE s[i] # Comma
      <4>1. CASE i <= la
        <5>1. i \in 1 .. la
          BY <1>1, <2>1, <4>1
        <5> QED BY <1>1, <1>3, <5>1 DEF NoComma, la
      <4>2. CASE ~(i <= la)
        <5>1. i \in la + 1 .. la + lb /\ i - la \in 1 .. k - 1
          BY <1>1, <2>1, <4>2
        <5> QED BY <1>1, <1>3, <5>1 DEF CommaAt
      <4> QED BY <4>1, <4>2
    <3> QED BY <3>1, <3>2, <3>3 DEF CommaAt
  <2>4. V!Elements(s) = {V!Part(s, 1, (la + k) - 1)} \union V!Elements(V!Part(s, (la + k) + 1, Len(s)))
    BY <1>1, <2>3, FirstElement
  <2>5. /\ 1 \in 1 .. la + 1 /\ k - 1 \in 0 .. lb /\ k + 1 \in 1 .. lb + 1 /\ lb \in 0 .. lb
        /\ k + 1 <= lb + 1 /\ (la + k) - 1 = la + (k - 1) /\ (la + k) + 1 = la + (k + 1)
    BY <1>1, <2>1
  <2>6. V!Part(s, 1, la + (k - 1)) = a \o y
    <3>1. V!Part(s, 1, la + (k - 1)) = V!Part(a, 1, la) \o y
      BY <2>5, PieceOfJoined
    <3> QED BY <3>1, Whole
  <2>7. V!Part(s, la + (k + 1), la + lb) = w
    BY <2>5, PieceOfJoined
  <2>8. y \in Strings /\ w \in Strings /\ <<>> \in Strings /\ <<>> \o w = w
    BY <2>5, Front, Rear, NoText
  <2>9. p.result = <<a, y>> /\ p.rest = <<<<>>, w>> /\ p.success = TRUE
    BY <2>2
  <2> HIDE DEF y, w, s, p
  <2>10. V!Elements(s) = {a \o y} \union V!Elements(<<>> \o w)
    BY <1>1, <2>4, <2>5, <2>6, <2>7, <2>8
  <2>11. Gives(a, b, a, y, <<>>, w)
    BY <2>9 DEF Gives, p
  <2> QED BY <2>8, <2>9, <2>10, <2>11
<1>4. ASSUME NoComma(a), NoComma(b)
      PROVE  /\ Gives(a, b, a, b, <<>>, <<>>) /\ p.success = (s # <<>>)
             /\ V!Elements(s) = {s}
  <2>1. ~(V!CommaIn(a) > 0) /\ ~(V!CommaIn(b) > 0)
    BY <1>4, CommaInIs
  <2>2. p = [result |-> <<a, b>>, rest |-> <<<<>>, <<>>>>, success |-> s # <<>>]
    BY <2>1, TwoParts DEF Parsed, V!value_parse_comma, V!Zero
  <2>3. NoComma(s)
    <3> HIDE DEF s
    <3>1. ASSUME NEW i \in 1 .. Len(s) PROVE s[i] # Comma
      <4>1. CASE i <= la
        <5>1. i \in 1 .. la
          BY <1>1, <4>1
        <5> QED BY <1>1, <1>4, <5>1 DEF NoComma
      <4>2. CASE ~(i <= la)
        <5>1. i \in la + 1 .. la + lb /\ i - la \in 1 .. lb
          BY <1>1, <4>2
        <5> QED BY <1>1, <1>4, <5>1 DEF NoComma
      <4> QED BY <4>1, <4>2
    <3> QED BY <3>1 DEF NoComma
  <2> HIDE DEF s
  <2>4. V!Elements(s) = {s}
    BY <1>1, <2>3, OneElement
  <2> QED BY <2>2, <2>4 DEF Gives
<1> QED
  BY <1>2, <1>3, <1>4, FirstComma

(* An element is a text.                                                   *)
LEMMA ElementsAreStrings ==
  ASSUME NEW s \in Strings, NEW e \in V!Elements(s)
  PROVE  e \in Strings
<1>1. PICK i \in EndsIn(s) \ {Len(s) + 1} : e = V!Part(s, i + 1, EndBehind(s, i) - 1)
  BY EndsAre
<1> DEFINE n == EndBehind(s, i)
<1>2. Len(s) \in Nat /\ i \in 0 .. Len(s) /\ n \in i + 1 .. Len(s) + 1
  BY EndsAre, EndBehindIs
<1> HIDE DEF n
<1>3. i + 1 \in 1 .. Len(s) + 1 /\ n - 1 \in 0 .. Len(s) /\ i + 1 <= (n - 1) + 1
  BY <1>2
<1> QED
  BY <1>1, <1>3, Piece DEF n

(* A value has two parts; the header asks for keep-alive. *)
Pair(v) == \E x, y \in Strings : v = <<x, y>>
Found(s) == \E e \in V!Elements(s) : IsKeepAlive(e)

(* A value in two parts keeps the answer for the header: it is found in the *)
(* rest exactly if it is in the header, until it is known.                 *)
VInv ==
  /\ Pair(header) /\ Pair(value)
  /\ step \in {"parse", "done"}
  /\ step = "parse" => (Found(V!Flat(header)) <=> Found(V!Flat(value)))
  /\ step = "done" => (keep_alive <=> Found(V!Flat(header)))

(* The loop begins with the whole header.                                  *)
LEMMA ValuesInit ==
  V!Init => VInv
<1> SUFFICES ASSUME V!Init PROVE VInv
  OBVIOUS
<1>1. PICK s \in V!BoundedSeq(Alphabet, MaxValue) : header \in V!Seams(s)
  BY DEF V!Init
<1>2. s \in Strings /\ Len(s) \in Nat
  <2>1. PICK m \in 0 .. MaxValue : s \in [1 .. m -> Alphabet]
    BY DEF V!BoundedSeq, V!SeqOf
  <2>2. s \in [1 .. m -> Letters] /\ m \in Nat
    BY <2>1 DEF Letters
  <2>3. s \in Seq(Letters)
    BY <2>2
  <2> QED BY <2>3 DEF Strings
<1>3. PICK n \in 0 .. Len(s) : header = <<V!Part(s, 1, n), V!Part(s, n + 1, Len(s))>>
  BY <1>1 DEF V!Seams
<1>4. n + 1 \in 1 .. Len(s) + 1
  BY <1>2
<1>5. V!Part(s, 1, n) \in Strings /\ V!Part(s, n + 1, Len(s)) \in Strings
  BY <1>2, <1>4, Front, Rear
<1>6. Pair(header)
  BY <1>3, <1>5 DEF Pair
<1>7. value = header /\ step = "parse"
  BY DEF V!Init
<1> QED
  BY <1>6, <1>7 DEF VInv

(* A turn of the loop looks at the first element and goes on with the      *)
(* others.                                                                 *)
LEMMA ValuesNext ==
  VInv /\ [V!Next]_V!vars => VInv'
<1> SUFFICES ASSUME VInv, [V!Next]_V!vars PROVE VInv'
  OBVIOUS
<1>1. CASE UNCHANGED V!vars
  BY <1>1 DEF VInv, V!vars
<1>2. CASE V!Terminating
  BY <1>2 DEF VInv, V!Terminating, V!vars
<1>3. CASE V!parse_element
  <2>1. PICK a \in Strings, b \in Strings : value = <<a, b>>
    BY DEF VInv, Pair
  <2> DEFINE p == Parsed(a, b)
             ka == V!value_compare_case_mem(V!value_trim(p.result), KA)
             H == Found(V!Flat(header))
  <2>2. /\ step = "parse" /\ value' = p.rest /\ keep_alive' = ka /\ header' = header
        /\ step' = IF keep_alive' \/ ~p.success THEN "done" ELSE "parse"
    BY <1>3, <2>1 DEF V!parse_element, Parsed, KA
  <2>3. V!Flat(value) = a \o b
    BY <2>1, TwoParts
  <2>4. H <=> Found(a \o b)
    BY <2>2, <2>3 DEF VInv
  <2>5. keep_alive' \in BOOLEAN
    BY <2>2 DEF V!value_compare_case_mem, V!value_compare_mem
  <2>6. header' = header /\ Pair(header')
    BY <2>2 DEF VInv
  <2>7. V!Flat(header)' = V!Flat(header) /\ Found(V!Flat(header))' = H
    BY <2>2 DEF V!Flat, Found
  <2>8. CASE \E x, y, z, w \in Strings :
               /\ Gives(a, b, x, y, z, w) /\ Parsed(a, b).success = TRUE
               /\ V!Elements(a \o b) = {x \o y} \union V!Elements(z \o w)
    <3>1. PICK x \in Strings, y \in Strings, z \in Strings, w \in Strings :
            /\ Gives(a, b, x, y, z, w) /\ p.success = TRUE
            /\ V!Elements(a \o b) = {x \o y} \union V!Elements(z \o w)
      BY <2>8
    <3>2. p.result = <<x, y>> /\ value' = <<z, w>>
      BY <2>2, <3>1 DEF Gives
    <3>3. keep_alive' <=> IsKeepAlive(x \o y)
      BY <2>2, <3>2, ComparesTrimmed
    <3>4. H <=> IsKeepAlive(x \o y) \/ Found(z \o w)
      BY <2>4, <3>1 DEF Found
    <3>5. Pair(value')
      BY <3>2 DEF Pair
    <3>6. Found(V!Flat(value))' <=> Found(z \o w)
      <4>1. V!Flat(value)' = z \o w
        BY <3>2, TwoParts DEF V!Flat
      <4> QED BY <4>1 DEF Found
    <3>7. step' = IF keep_alive' THEN "done" ELSE "parse"
      BY <2>2, <3>1
    <3> HIDE DEF p, ka, H
    <3> QED BY <2>5, <2>6, <2>7, <3>3, <3>4, <3>5, <3>6, <3>7 DEF VInv, Pair
  <2>9. CASE /\ Gives(a, b, a, b, <<>>, <<>>)
             /\ Parsed(a, b).success = (a \o b # <<>>)
             /\ V!Elements(a \o b) = {a \o b}
    <3>1. p.result = <<a, b>> /\ value' = <<<<>>, <<>>>> /\ p.success = (a \o b # <<>>)
      BY <2>2, <2>9 DEF Gives
    <3>2. keep_alive' <=> IsKeepAlive(a \o b)
      BY <2>2, <3>1, ComparesTrimmed
    <3>3. H <=> IsKeepAlive(a \o b)
      BY <2>4, <2>9 DEF Found
    <3>4. <<>> \in Strings /\ <<>> \o <<>> = <<>>
      BY NoText
    <3>5. Pair(value')
      BY <3>1, <3>4 DEF Pair
    <3>6. ~Found(V!Flat(value))'
      <4>1. V!Flat(value)' = <<>>
        BY <3>1, <3>4, TwoParts DEF V!Flat
      <4>2. V!Elements(<<>>) = {<<>>}
        <5>1. NoComma(<<>>)
          BY NoText DEF NoComma
        <5> QED BY <3>4, <5>1, OneElement
      <4> QED BY <4>1, <4>2, NothingIsNoKeepAlive DEF Found
    <3>7. step' = IF keep_alive' \/ a \o b = <<>> THEN "done" ELSE "parse"
      BY <2>2, <3>1
    <3>8. a \o b = <<>> => ~IsKeepAlive(a \o b)
      BY NothingIsNoKeepAlive
    <3> HIDE DEF p, ka, H
    <3> QED BY <2>5, <2>6, <2>7, <3>2, <3>3, <3>5, <3>6, <3>7, <3>8 DEF VInv, Pair
  <2> QED BY <2>8, <2>9, ParsesElement
<1> QED
  BY <1>1, <1>2, <1>3 DEF V!Next

(* What the invariant says of the loop.                                    *)
LEMMA ValuesSafe ==
  VInv => V!TrimIsExact /\ V!CutIsExact /\ V!KeepAliveIsExact
<1>1. VInv => V!TrimIsExact
  <2> SUFFICES ASSUME VInv PROVE V!TrimIsExact
    OBVIOUS
  <2>1. PICK a \in Strings, b \in Strings : value = <<a, b>>
    BY DEF VInv, Pair
  <2>2. PICK x \in Strings, y \in Strings :
          V!value_trim(<<a, b>>) = <<x, y>> /\ x \o y = V!TrimmedSeq(a \o b)
    BY TrimIsTrimmed
  <2>3. V!Flat(value) = a \o b /\ V!Flat(V!value_trim(value)) = x \o y
    BY <2>1, <2>2, TwoParts
  <2> QED BY <2>2, <2>3 DEF V!TrimIsExact
<1>2. VInv => V!CutIsExact
  <2> SUFFICES ASSUME VInv PROVE V!CutIsExact
    OBVIOUS
  <2>1. PICK a \in Strings, b \in Strings : value = <<a, b>>
    BY DEF VInv, Pair
  <2>2. CutsExactly(value)
    BY <2>1, CutsAreExact
  <2> QED BY <2>2 DEF CutsExactly, V!CutIsExact
<1>3. VInv => V!KeepAliveIsExact
  <2> SUFFICES ASSUME VInv, step = "done"
               PROVE  keep_alive <=> \E e \in V!Elements(V!Flat(header)) :
                        V!value_compare_case_mem(<<V!TrimmedSeq(e), <<>>>>, KA)
    BY DEF V!KeepAliveIsExact, KA
  <2>1. PICK a \in Strings, b \in Strings : header = <<a, b>>
    BY DEF VInv, Pair
  <2>2. V!Flat(header) \in Strings
    <3>1. V!Flat(header) = a \o b
      BY <2>1, TwoParts
    <3> QED BY <3>1, Joined
  <2>3. \A e \in V!Elements(V!Flat(header)) :
          V!value_compare_case_mem(<<V!TrimmedSeq(e), <<>>>>, KA) <=> IsKeepAlive(e)
    BY <2>2, ElementsAreStrings, ComparesTrimmed
  <2> QED BY <2>3 DEF VInv, Found
<1> QED BY <1>1, <1>2, <1>3

LEMMA ValuesReads ==
  ASSUME V!ValuesAssumption
  PROVE  VInv => V!UintIsExact
<1> SUFFICES ASSUME VInv PROVE V!UintIsExact
  OBVIOUS
<1>1. PICK a \in Strings, b \in Strings : value = <<a, b>>
  BY DEF VInv, Pair
<1>2. ReadsExactly(value)
  BY <1>1, ReadsAreExact
<1> QED BY <1>2 DEF ReadsExactly, V!UintIsExact

(* The answer for the header is the answer for what the loop has left of   *)
(* it (parser_parse_http_name_value).                                      *)
THEOREM ValuesInvariant ==
  V!Spec => []VInv
BY ValuesInit, ValuesNext, PTL DEF V!Spec

(* value_trim removes the spaces at both ends and nothing else, wherever   *)
(* the seam of the value is and even where one of its parts is blank.      *)
THEOREM ValuesTrim ==
  V!Spec => []V!TrimIsExact
BY ValuesSafe, ValuesInvariant, PTL

(* value_first_second loses and repeats no character and                   *)
(* value_to_continuous and value_compare_mem see the same text, wherever   *)
(* the seam and the cut are.                                               *)
THEOREM ValuesCut ==
  V!Spec => []V!CutIsExact
BY ValuesSafe, ValuesInvariant, PTL

(* value_to_uint never wraps around, for every size of an unsigned int:    *)
(* what it accepts is the exact number, and it refuses no number below the *)
(* last ten.                                                               *)
THEOREM ValuesUint ==
  ASSUME V!ValuesAssumption
  PROVE  V!Spec => []V!UintIsExact
BY ValuesReads, ValuesInvariant, PTL

(* For every header, with any number of elements:                          *)
(* parser_parse_http_name_value finds keep-alive exactly if it is an       *)
(* element, in either case and with or without spaces around it, wherever  *)
(* the header wraps in the ring.                                           *)
THEOREM ValuesKeepAlive ==
  V!Spec => []V!KeepAliveIsExact
BY ValuesSafe, ValuesInvariant, PTL

(* A piece of a text has its characters and is not longer.                 *)
Within(t, s) == t \in Seq(Alphabet) /\ Len(t) <= Len(s)

LEMMA PieceWithin ==
  ASSUME NEW s \in Seq(Alphabet), NEW m \in Nat \ {0}, NEW n \in Int, n <= Len(s)
  PROVE  Within(V!Part(s, m, n), s)
<1>1. Len(s) \in Nat /\ \A i \in m .. n : s[i] \in Alphabet
  OBVIOUS
<1>2. /\ SubSeq(s, m, n) \in Seq(Alphabet)
      /\ Len(SubSeq(s, m, n)) = IF m <= n THEN n - m + 1 ELSE 0
  BY <1>1, SubSeqProperties
<1>3. (IF m <= n THEN n - m + 1 ELSE 0) <= Len(s)
  BY <1>1
<1> QED
  BY <1>2, <1>3 DEF Within, V!Part

LEMMA NothingWithin ==
  ASSUME NEW s \in Seq(Alphabet)
  PROVE  /\ Within(<<>>, s) /\ Within(s, s)
         /\ \A t, u : Within(t, s) /\ Within(u, t) => Within(u, s)
BY DEF Within

(* What trimming leaves of a part.                                         *)
LEMMA TrimsWithin ==
  ASSUME NEW s \in Seq(Alphabet)
  PROVE  Within(V!TrimFront(s), s) /\ Within(V!TrimBack(s), s)
<1>1. s \in Strings /\ Len(s) \in Nat
  BY DEF Strings, Letters
<1>2. CASE Blank(s)
  <2>1. V!Ink(s) = {}
    BY <1>1, <1>2, InkOf
  <2> QED BY <2>1, NothingWithin DEF V!TrimFront, V!TrimBack
<1>3. CASE ~Blank(s)
  <2>1. PICK m, n : FirstInk(s, m) /\ LastInk(s, n)
    BY <1>1, <1>3, InkIsThere
  <2>2. V!TrimFront(s) = V!Part(s, m, Len(s)) /\ V!TrimBack(s) = V!Part(s, 1, n)
    BY <1>1, <2>1, Trimmings
  <2>3. m \in Nat \ {0} /\ n \in Int /\ n <= Len(s) /\ 1 \in Nat \ {0} /\ Len(s) <= Len(s)
    BY <1>1, <2>1 DEF FirstInk, LastInk
  <2> QED BY <1>1, <2>2, <2>3, PieceWithin
<1> QED
  BY <1>2, <1>3

LEMMA ValueTrimWithin ==
  ASSUME NEW a \in Seq(Alphabet), NEW b \in Seq(Alphabet)
  PROVE  \E x, y : V!value_trim(<<a, b>>) = <<x, y>> /\ Within(x, a) /\ Within(y, b)
<1> DEFINE front == V!TrimFront(a)
           rear == V!TrimFront(b)
<1>1. Within(front, a) /\ Within(rear, b) /\ Within(<<>>, a) /\ Within(<<>>, b) /\ Within(b, b)
  BY TrimsWithin, NothingWithin
<1> HIDE DEF front, rear
<1>2. PICK u, v : /\ (IF V!Ink(a) # {} THEN <<front, b>> ELSE <<<<>>, rear>>) = <<u, v>>
                  /\ Within(u, a) /\ Within(v, b)
  BY <1>1
<1>3. V!value_trim(<<a, b>>) = IF V!Ink(v) # {} THEN <<u, V!TrimBack(v)>> ELSE <<V!TrimBack(u), <<>>>>
  BY <1>2 DEF V!value_trim, front, rear
<1>4. Within(V!TrimBack(v), b) /\ Within(V!TrimBack(u), a)
  <2>1. u \in Seq(Alphabet) /\ v \in Seq(Alphabet)
    BY <1>2 DEF Within
  <2>2. Within(V!TrimBack(v), v) /\ Within(V!TrimBack(u), u)
    BY <2>1, TrimsWithin
  <2> QED BY <1>2, <2>2, NothingWithin
<1> QED
  BY <1>1, <1>2, <1>3, <1>4

(* What value_parse_comma takes and leaves.                                *)
LEMMA CommaWithin ==
  ASSUME NEW s \in Seq(Alphabet), V!CommaIn(s) > 0
  PROVE  Within(V!Before(s), s) /\ Within(V!Behind(s), s)
<1>1. s \in Strings /\ Len(s) \in Nat
  BY DEF Strings, Letters
<1>2. ~NoComma(s)
  BY <1>1, CommaInIs
<1>3. PICK k : CommaAt(s, k)
  BY <1>1, <1>2, FirstComma
<1>4. V!CommaIn(s) = k /\ k \in 1 .. Len(s)
  BY <1>1, <1>3, CommaInIs DEF CommaAt
<1>5. /\ 1 \in Nat \ {0} /\ k - 1 \in Int /\ k - 1 <= Len(s)
      /\ k + 1 \in Nat \ {0} /\ Len(s) \in Int /\ Len(s) <= Len(s)
  BY <1>1, <1>4
<1> QED
  BY <1>4, <1>5, PieceWithin DEF V!Before, V!Behind

LEMMA ParsesWithin ==
  ASSUME NEW a \in Seq(Alphabet), NEW b \in Seq(Alphabet)
  PROVE  \E x, y, z, w : /\ Gives(a, b, x, y, z, w)
                         /\ Within(x, a) /\ Within(y, b) /\ Within(z, a) /\ Within(w, b)
<1>1. Within(<<>>, a) /\ Within(<<>>, b) /\ Within(a, a) /\ Within(b, b)
  BY NothingWithin
<1>2. CASE V!CommaIn(a) > 0
  <2>1. Parsed(a, b).result = <<V!Before(a), <<>>>> /\ Parsed(a, b).rest = <<V!Behind(a), b>>
    BY <1>2 DEF Parsed, V!value_parse_comma
  <2> QED BY <1>1, <1>2, <2>1, CommaWithin DEF Gives
<1>3. CASE ~(V!CommaIn(a) > 0) /\ V!CommaIn(a) = 0 /\ V!CommaIn(b) > 0
  <2>1. Parsed(a, b).result = <<a, V!Before(b)>> /\ Parsed(a, b).rest = <<<<>>, V!Behind(b)>>
    BY <1>3 DEF Parsed, V!value_parse_comma
  <2> QED BY <1>1, <1>3, <2>1, CommaWithin DEF Gives
<1>4. CASE ~(V!CommaIn(a) > 0) /\ ~(V!CommaIn(a) = 0 /\ V!CommaIn(b) > 0)
  <2>1. Parsed(a, b).result = <<a, b>> /\ Parsed(a, b).rest = <<<<>>, <<>>>>
    BY <1>4 DEF Parsed, V!value_parse_comma, V!Zero
  <2> QED BY <1>1, <2>1 DEF Gives
<1> QED
  BY <1>2, <1>3, <1>4

(* The header, what is left of it and its element are inside the bound.    *)
Fits(v) == \E x, y \in Seq(Alphabet) : v = <<x, y>> /\ Len(x) + Len(y) <= MaxValue
ValuesTyped ==
  /\ keep_alive \in BOOLEAN /\ step \in {"parse", "done"}
  /\ Fits(header) /\ Fits(value) /\ Fits(current_value)

LEMMA FitsWithin ==
  ASSUME V!ValuesAssumption,
         NEW a \in Seq(Alphabet), NEW b \in Seq(Alphabet), Len(a) + Len(b) <= MaxValue,
         NEW x, NEW y, Within(x, a), Within(y, b)
  PROVE  Fits(<<x, y>>)
<1>1. /\ x \in Seq(Alphabet) /\ y \in Seq(Alphabet) /\ Len(x) <= Len(a) /\ Len(y) <= Len(b)
      /\ Len(a) \in Nat /\ Len(b) \in Nat /\ Len(x) \in Nat /\ Len(y) \in Nat /\ MaxValue \in Nat
  BY DEF Within, V!ValuesAssumption
<1>2. Len(x) + Len(y) <= MaxValue
  BY <1>1
<1> QED
  BY <1>1, <1>2 DEF Fits

LEMMA FitsType ==
  ASSUME NEW v, Fits(v)
  PROVE  Len(v) = 2 /\ Len(V!Flat(v)) <= MaxValue /\ V!Range(V!Flat(v)) \subseteq Alphabet
<1>1. PICK x \in Seq(Alphabet), y \in Seq(Alphabet) : v = <<x, y>> /\ Len(x) + Len(y) <= MaxValue
  BY DEF Fits
<1>2. x \o y \in Seq(Alphabet) /\ Len(x \o y) = Len(x) + Len(y)
  OBVIOUS
<1>3. V!Flat(v) = x \o y
  BY <1>1, TwoParts
<1>4. V!Range(x \o y) \subseteq Alphabet
  BY <1>2 DEF V!Range
<1> QED
  BY <1>1, <1>2, <1>3, <1>4

LEMMA ValuesTypes ==
  ValuesTyped => V!TypeOK
BY FitsType DEF ValuesTyped, V!TypeOK

LEMMA ValuesTypedInit ==
  ASSUME V!ValuesAssumption
  PROVE  V!Init => ValuesTyped
<1> SUFFICES ASSUME V!Init PROVE ValuesTyped
  OBVIOUS
<1>1. PICK s \in V!BoundedSeq(Alphabet, MaxValue) : header \in V!Seams(s)
  BY DEF V!Init
<1>2. s \in Seq(Alphabet) /\ Len(s) <= MaxValue
  <2>1. PICK m \in 0 .. MaxValue : s \in [1 .. m -> Alphabet]
    BY <1>1 DEF V!BoundedSeq, V!SeqOf
  <2>2. m \in Nat /\ m <= MaxValue
    BY <2>1 DEF V!ValuesAssumption
  <2> QED BY <2>1, <2>2
<1>3. PICK n \in 0 .. Len(s) : header = <<V!Part(s, 1, n), V!Part(s, n + 1, Len(s))>>
  BY <1>1 DEF V!Seams
<1> DEFINE x == V!Part(s, 1, n)
           y == V!Part(s, n + 1, Len(s))
<1>4. /\ Len(s) \in Nat /\ n \in Nat /\ n <= Len(s)
      /\ n + 1 \in Nat \ {0} /\ 1 \in Nat \ {0} /\ n \in Int /\ Len(s) \in Int /\ Len(s) <= Len(s)
  BY <1>2
<1>5. x \in Seq(Alphabet) /\ y \in Seq(Alphabet)
  BY <1>2, <1>4, PieceWithin DEF Within
<1>6. Len(x) = n /\ Len(y) = Len(s) - n
  <2>1. SubSeq(s, 1, n) = [i \in 1 .. n |-> s[i]]
    BY <1>2, <1>4
  <2>2. Len(SubSeq(s, n + 1, Len(s))) = Len(s) - n
    BY <1>2, <1>4
  <2> QED BY <1>4, <2>1, <2>2 DEF V!Part
<1>7. Fits(header)
  <2>1. Len(x) + Len(y) <= MaxValue
    BY <1>2, <1>4, <1>6 DEF V!ValuesAssumption
  <2> HIDE DEF x, y
  <2>2. header = <<x, y>>
    BY <1>3 DEF x, y
  <2> QED BY <1>5, <2>1, <2>2 DEF Fits
<1>8. Fits(<<<<>>, <<>>>>)
  <2>1. <<>> \in Seq(Alphabet) /\ Len(<<>>) + Len(<<>>) <= MaxValue
    BY DEF V!ValuesAssumption
  <2> QED BY <2>1 DEF Fits
<1> QED
  BY <1>7, <1>8 DEF V!Init, ValuesTyped, V!Zero

LEMMA ValuesTypedNext ==
  ASSUME V!ValuesAssumption
  PROVE  ValuesTyped /\ [V!Next]_V!vars => ValuesTyped'
<1> SUFFICES ASSUME ValuesTyped, [V!Next]_V!vars PROVE ValuesTyped'
  OBVIOUS
<1>1. CASE UNCHANGED V!vars
  BY <1>1 DEF ValuesTyped, V!vars
<1>2. CASE V!Terminating
  BY <1>2 DEF ValuesTyped, V!Terminating, V!vars
<1>3. CASE V!parse_element
  <2>1. PICK a \in Seq(Alphabet), b \in Seq(Alphabet) : value = <<a, b>> /\ Len(a) + Len(b) <= MaxValue
    BY DEF ValuesTyped, Fits
  <2>2. PICK x, y, z, w : /\ Gives(a, b, x, y, z, w)
                          /\ Within(x, a) /\ Within(y, b) /\ Within(z, a) /\ Within(w, b)
    BY <2>1, ParsesWithin
  <2>3. PICK p : p = Parsed(a, b)
    OBVIOUS
  <2>4. /\ value' = p.rest /\ current_value' = V!value_trim(p.result) /\ header' = header
        /\ keep_alive' = V!value_compare_case_mem(current_value', <<"k", "a">>)
        /\ step' \in {"parse", "done"}
    BY <1>3, <2>1, <2>3 DEF V!parse_element, Parsed
  <2>5. value' = <<z, w>> /\ current_value' = V!value_trim(<<x, y>>)
    BY <2>2, <2>3, <2>4 DEF Gives
  <2>6. x \in Seq(Alphabet) /\ y \in Seq(Alphabet)
    BY <2>2 DEF Within
  <2>7. PICK u, v : V!value_trim(<<x, y>>) = <<u, v>> /\ Within(u, x) /\ Within(v, y)
    BY <2>6, ValueTrimWithin
  <2>8. Within(u, a) /\ Within(v, b)
    BY <2>1, <2>2, <2>7, NothingWithin
  <2>9. Fits(value') /\ Fits(current_value')
    BY <2>1, <2>2, <2>5, <2>7, <2>8, FitsWithin
  <2>10. keep_alive' \in BOOLEAN
    BY <2>4 DEF V!value_compare_case_mem, V!value_compare_mem
  <2> QED BY <2>4, <2>9, <2>10 DEF ValuesTyped, Fits
<1> QED
  BY <1>1, <1>2, <1>3 DEF V!Next

------------------------------------------------------------------------------
(* The header of languages.                                                  *)

(* The characters of a header, and those the code writes itself.           *)
Signs == STRING \cup {",", " ", "e", "n", "u"}
Text == Seq(Signs)

(* Texts one after the other are a text.                                     *)
LEMMA Flattened ==
  ASSUME NEW s, DOMAIN s = 1 .. Len(s), Len(s) \in Nat, \A i \in 1 .. Len(s) : s[i] \in Text,
         Len(s) = 0 => s \in Text
  PROVE  L!FlattenSeq(s) \in Text
<1> DEFINE n == Len(s)
           rec(f) == [i \in 1 .. n |-> IF i = 1 THEN s[i] ELSE f[i - 1] \o s[i]]
           flatten == CHOOSE f : f = rec(f)
           joins == [x \in Text \X (1 .. n) |-> x[1] \o s[x[2]]]
<1>1. L!FlattenSeq(s) = IF n = 0 THEN s ELSE flatten[n]
  BY DEF L!FlattenSeq
<1>2. joins \in [Text \X (1 .. n) -> Text]
  BY DEF Text
<1>3. \A x \in Text, i \in 1 .. n : joins[<<x, i>>] = x \o s[i]
  OBVIOUS
<1>4. n \in Nat /\ \A i \in 1 .. n : s[i] \in Text
  OBVIOUS
<1> HIDE DEF n, joins
<1>5. <<>> \in Text /\ \A t \in Text : <<>> \o t = t
  BY DEF Text
<1>6. PICK g : Recurs(g, n, Text, <<>>, joins)
  <2>1. joins \in StepsOf(n, Text)
    BY <1>2 DEF StepsOf
  <2> QED BY <1>4, <1>5, <2>1, RecursionUpTo
<1>7. g \in [0 .. n -> Text] /\ g[0] = <<>> /\ \A i \in 1 .. n : g[i] = joins[<<g[i - 1], i>>]
  BY <1>6 DEF Recurs
<1>8. \A i \in 1 .. n : g[i - 1] \in Text /\ g[i] = g[i - 1] \o s[i] /\ g[i] \in Text
  <2>1. \A i \in 1 .. n : g[i - 1] \in Text /\ g[i] \in Text
    BY <1>4, <1>7
  <2> QED BY <1>3, <1>7, <2>1
<1> DEFINE h == [i \in 1 .. n |-> g[i]]
<1>9. h = rec(h)
  <2>1. ASSUME NEW i \in 1 .. n PROVE h[i] = rec(h)[i]
    <3>1. CASE i = 1
      <4>1. g[1] = g[0] \o s[1] /\ s[1] \in Text
        <5>1. 1 \in 1 .. n /\ 1 - 1 = 0
          BY <1>4, <3>1
        <5> QED BY <1>4, <1>8, <5>1
      <4> QED BY <1>5, <1>7, <3>1, <4>1
    <3>2. CASE i # 1
      <4>1. i - 1 \in 1 .. n
        BY <1>4, <3>2
      <4> QED BY <1>8, <3>2, <4>1
    <3> QED BY <3>1, <3>2
  <2> QED BY <2>1
<1>10. flatten = rec(flatten)
  <2> HIDE DEF rec
  <2> QED BY <1>9
<1> DEFINE T == {i \in Nat : i \in 1 .. n => flatten[i] \in Text}
<1>11. CASE n # 0
  <2>1. \A i \in 1 .. n : flatten[i] = IF i = 1 THEN s[i] ELSE flatten[i - 1] \o s[i]
    <3> HIDE DEF flatten
    <3> QED BY <1>10
  <2> HIDE DEF flatten
  <2>2. 0 \in T /\ T \in SUBSET Nat
    OBVIOUS
  <2>3. ASSUME NEW k \in 0 .. n - 1, k \in T PROVE k + 1 \in T
    <3>1. k \in Nat /\ k + 1 \in 1 .. n /\ (k + 1) - 1 = k /\ k + 1 \in Nat
      BY <1>4
    <3>2. CASE k = 0
      BY <1>4, <2>1, <3>1, <3>2
    <3>3. CASE k # 0
      <4>1. k \in 1 .. n /\ k + 1 # 1
        BY <1>4, <3>1, <3>3
      <4>2. flatten[k] \in Text /\ flatten[k + 1] = flatten[k] \o s[k + 1] /\ s[k + 1] \in Text
        BY <1>4, <2>1, <2>3, <3>1, <4>1
      <4>3. flatten[k + 1] \in Text
        BY <4>2 DEF Text
      <4> QED BY <3>1, <4>3
    <3> QED BY <3>2, <3>3
  <2> HIDE DEF T
  <2>4. n \in T
    BY <1>4, <2>2, <2>3, InductionUpTo
  <2>5. flatten[n] \in Text
    <3>1. n \in 1 .. n
      BY <1>4, <1>11
    <3> QED BY <2>4, <3>1 DEF T
  <2> QED BY <1>1, <1>11, <2>5 DEF flatten
<1>12. CASE n = 0
  BY <1>1, <1>12 DEF n
<1> QED
  BY <1>11, <1>12

(* While the characters of a language are kept there is room for another. *)
LanguageTyped ==
  /\ text \in Text /\ pos \in 0 .. Len(text)
  /\ language \in Text /\ Len(language) <= MAX_LANGUAGE_SIZE
  /\ language_size \in 0 .. MAX_LANGUAGE_SIZE + 1
  /\ state = "LANGUAGE_FIRST_CHARACTERS" => language_size = Len(language) /\ Len(language) < MAX_LANGUAGE_SIZE
  /\ q \in Nat /\ decimals \in -1 .. L!MaxDecimals
  /\ best \in [language : {"e", "d", None}, q : 0 .. L!One]

LEMMA LanguageTypes ==
  LanguageTyped => L!TypeOK
BY DEF LanguageTyped, L!TypeOK

LEMMA LanguageTypedInit ==
  ASSUME L!LanguageAssumption
  PROVE  L!Init => LanguageTyped
<1> SUFFICES ASSUME L!Init PROVE LanguageTyped
  OBVIOUS
<1>1. PICK m \in 0 .. MaxElements : header \in [1 .. m -> HeaderElements]
  BY DEF L!Init, L!SeqOf
<1> DEFINE s == [i \in DOMAIN header |->
                   (IF i = 1 THEN <<>> ELSE <<",", " ">>) \o L!Element(header[i])]
<1>2. m \in Nat /\ DOMAIN header = 1 .. m
  BY <1>1 DEF L!LanguageAssumption
<1>3. ASSUME NEW i \in 1 .. m PROVE s[i] \in Text
  <2>1. L!Element(header[i]) \in Text
    <3>1. header[i].text \in Seq(STRING)
      BY <1>1 DEF L!LanguageAssumption
    <3>2. STRING \subseteq Signs
      BY DEF Signs
    <3>3. L!Element(header[i]) = header[i].text
      BY DEF L!Element
    <3> HIDE DEF s
    <3>4. header[i].text \in Seq(Signs)
      <4>1. PICK t \in Seq(STRING) : t = header[i].text
        BY <3>1
      <4>a. Len(t) \in Nat /\ DOMAIN t = 1 .. Len(t)
        OBVIOUS
      <4>b. \A k \in 1 .. Len(t) : t[k] \in STRING
        OBVIOUS
      <4>2. Len(t) \in Nat /\ \A k \in 1 .. Len(t) : t[k] \in Signs
        BY <3>2, <4>a, <4>b, Zenon
      <4>3. t = [k \in 1 .. Len(t) |-> t[k]]
        OBVIOUS
      <4>4. t \in [1 .. Len(t) -> Signs]
        BY <4>2, <4>3
      <4> QED BY <4>1, <4>2, <4>4
    <3> QED BY <3>3, <3>4 DEF Text
  <2>2. PICK between \in Text : between = IF i = 1 THEN <<>> ELSE <<",", " ">>
    <3>1. <<>> \in Text /\ <<",", " ">> \in Text
      <4>1. "," \in Signs /\ " " \in Signs
        BY DEF Signs
      <4>2. <<>> \in Seq(Signs) /\ \A x, y \in Signs : <<x, y>> \in Seq(Signs)
        OBVIOUS
      <4> QED BY <4>1, <4>2 DEF Text
    <3> QED BY <3>1
  <2>3. s[i] = between \o L!Element(header[i])
    BY <1>2, <2>2
  <2> HIDE DEF s
  <2>4. \A x, y \in Text : x \o y \in Text
    BY DEF Text
  <2> QED BY <2>1, <2>2, <2>3, <2>4
<1>4. DOMAIN s = 1 .. m /\ Len(s) = m
  BY <1>2
<1>5. text = L!FlattenSeq(s)
  BY Zenon DEF L!Init
<1>6. text \in Text
  <2> HIDE DEF s
  <2>1. Len(s) = 0 => s \in Text
    <3>1. ASSUME m = 0 PROVE s = <<>>
      BY <1>2, <3>1 DEF s
    <3> QED BY <1>4, <3>1 DEF Text
  <2> QED BY <1>2, <1>3, <1>4, <1>5, <2>1, Flattened
<1>7. pos \in 0 .. Len(text)
  <2>1. pos = 0
    BY DEF L!Init
  <2>2. Len(text) \in Nat
    BY <1>6 DEF Text
  <2> QED BY <2>1, <2>2
<1>8. language = <<>> /\ <<>> \in Text /\ Len(<<>>) = 0
  <2>1. language = <<>>
    BY DEF L!Init
  <2> QED BY <2>1 DEF Text
<1>9. 0 <= MAX_LANGUAGE_SIZE /\ 0 \in 0 .. MAX_LANGUAGE_SIZE + 1
  BY DEF L!LanguageAssumption
<1>10. /\ language_size = 0 /\ state = "LANGUAGE_BEGIN" /\ q = 0 /\ decimals = -1
       /\ best = [language |-> None, q |-> 0]
  BY DEF L!Init
<1>11. /\ best \in [language : {"e", "d", None}, q : 0 .. L!One]
       /\ q \in Nat /\ decimals \in -1 .. L!MaxDecimals
  BY <1>10 DEF L!One, L!MaxDecimals
<1> QED
  BY <1>6, <1>7, <1>8, <1>9, <1>10, <1>11 DEF LanguageTyped

(* The best language is one the site has, with a weight up to One.         *)
LEMMA Commits ==
  ASSUME LanguageTyped, NEW w \in Nat
  PROVE  L!commit(w) \in [language : {"e", "d", None}, q : 0 .. L!One]
<1>1. best \in [language : {"e", "d", None}, q : 0 .. L!One]
  BY DEF LanguageTyped
<1>2. PICK result : result = L!language_get(language, language_size)
  OBVIOUS
<1>3. result \in {"e", "d", None}
  BY <1>2 DEF L!language_get
<1>4. L!Clamp(w) \in 0 .. L!One
  BY DEF L!Clamp, L!One
<1>5. L!commit(w) = IF result # None /\ L!Clamp(w) > best.q
                      THEN [language |-> result, q |-> L!Clamp(w)] ELSE best
  BY <1>2 DEF L!commit
<1> QED
  BY <1>1, <1>3, <1>4, <1>5

LEMMA LanguageTypedNext ==
  ASSUME L!LanguageAssumption
  PROVE  LanguageTyped /\ [L!Next]_L!vars => LanguageTyped'
<1> SUFFICES ASSUME LanguageTyped, [L!Next]_L!vars PROVE LanguageTyped'
  OBVIOUS
<1> DEFINE Rest ==
      /\ language \in Text /\ Len(language) <= MAX_LANGUAGE_SIZE
      /\ language_size \in 0 .. MAX_LANGUAGE_SIZE + 1
      /\ state = "LANGUAGE_FIRST_CHARACTERS" =>
           language_size = Len(language) /\ Len(language) < MAX_LANGUAGE_SIZE
      /\ q \in Nat /\ decimals \in -1 .. L!MaxDecimals
      /\ best \in [language : {"e", "d", None}, q : 0 .. L!One]
<1>0. MAX_LANGUAGE_SIZE \in Nat /\ MAX_LANGUAGE_SIZE > 1
  BY DEF L!LanguageAssumption
<1>1. CASE UNCHANGED L!vars
  BY <1>1 DEF LanguageTyped, L!vars
<1>2. CASE L!End
  <2>1. best' \in [language : {"e", "d", None}, q : 0 .. L!One]
    <3>1. q \in Nat /\ best \in [language : {"e", "d", None}, q : 0 .. L!One]
      BY DEF LanguageTyped
    <3> QED BY <1>2, <3>1, Commits DEF L!End
  <2>2. /\ state' = "end" /\ text' = text /\ pos' = pos /\ language' = language
        /\ language_size' = language_size /\ q' = q /\ decimals' = decimals
    BY <1>2 DEF L!End, L!Goto
  <2> QED BY <2>1, <2>2 DEF LanguageTyped
<1>3. CASE L!Character
  <2>1. text' = text /\ pos' = pos + 1 /\ pos' \in 0 .. Len(text')
    BY <1>3 DEF L!Character, LanguageTyped, Text
  <2>2. PICK ch : ch = L!c /\ ch \in Signs
    <3>1. text[pos + 1] \in Signs
      <4>1. pos \in Int /\ Len(text) \in Int /\ pos >= 0 /\ pos < Len(text)
        BY <1>3 DEF L!Character, LanguageTyped, Text
      <4>2. pos + 1 \in 1 .. Len(text)
        BY <4>1
      <4> QED BY <4>2 DEF LanguageTyped, Text
    <3> QED BY <3>1 DEF L!c
  <2>3. L!Lower(ch) \in Signs
    <3>1. "e" \in Signs /\ "n" \in Signs /\ "u" \in Signs
      BY DEF Signs
    <3>2. L!Lower(ch) \in {"e", "n", "u", ch}
      BY DEF L!Lower
    <3> QED BY <2>2, <3>1, <3>2
  <2>4. ASSUME L!Same, state' # "LANGUAGE_FIRST_CHARACTERS" \/ state' = state PROVE Rest'
    BY <2>4 DEF L!Same, LanguageTyped
  <2>5. ASSUME NEW w \in Nat, L!Committed(w) PROVE Rest'
    <3>1. best' \in [language : {"e", "d", None}, q : 0 .. L!One]
      BY <2>5, Commits DEF L!Committed
    <3>2. /\ language' = language /\ language_size' = language_size /\ q' = q /\ decimals' = decimals
          /\ state' = "LANGUAGE_BEGIN"
      BY <2>5 DEF L!Committed, L!Goto
    <3> QED BY <3>1, <3>2 DEF LanguageTyped
  <2>6. L!One \in Nat /\ q \in Nat /\ decimals \in -1 .. 3 /\ L!MaxDecimals = 3
    BY DEF L!One, L!MaxDecimals, LanguageTyped
  <2>7. ASSUME L!LanguageBegin PROVE Rest'
    <3>1. CASE L!Same /\ state' # "LANGUAGE_FIRST_CHARACTERS"
      BY <2>4, <3>1
    <3>2. CASE /\ language' = <<L!Lower(ch)>> /\ language_size' = 1
               /\ q' = L!One /\ decimals' = -1 /\ best' = best
      <4>1. language' \in Text /\ Len(language') = 1
        BY <2>3, <3>2 DEF Text
      <4>2. 1 <= MAX_LANGUAGE_SIZE /\ 1 < MAX_LANGUAGE_SIZE /\ 1 \in 0 .. MAX_LANGUAGE_SIZE + 1
        BY <1>0
      <4> QED BY <2>6, <3>2, <4>1, <4>2 DEF LanguageTyped
    <3> QED BY <2>2, <2>7, <3>1, <3>2 DEF L!LanguageBegin, L!Stay, L!Invalid, L!Goto
  <2>8. ASSUME L!LanguageFirst PROVE Rest'
    <3>0. /\ language \in Text /\ language_size = Len(language) /\ Len(language) < MAX_LANGUAGE_SIZE
          /\ Len(language) \in Nat
      <4>1. state = "LANGUAGE_FIRST_CHARACTERS"
        BY <2>8 DEF L!LanguageFirst
      <4>2. language \in Text /\ language_size = Len(language) /\ Len(language) < MAX_LANGUAGE_SIZE
        BY <4>1 DEF LanguageTyped
      <4> QED BY <4>2 DEF Text
    <3>1. CASE L!Same /\ state' # "LANGUAGE_FIRST_CHARACTERS"
      BY <2>4, <3>1
    <3>2. CASE L!Committed(L!One)
      BY <2>5, <2>6, <3>2
    <3>3. CASE /\ language' = Append(language, L!Lower(ch))
               /\ language_size' = language_size + 1
               /\ state' = (IF language_size' = MAX_LANGUAGE_SIZE THEN "COMMA_SEMICOLON" ELSE state)
               /\ q' = q /\ decimals' = decimals /\ best' = best
      <4>1. language' \in Text /\ Len(language') = Len(language) + 1
        BY <2>3, <3>0, <3>3 DEF Text
      <4>2. /\ Len(language') <= MAX_LANGUAGE_SIZE /\ language_size' \in 0 .. MAX_LANGUAGE_SIZE + 1
            /\ language_size' = Len(language')
            /\ state' = "LANGUAGE_FIRST_CHARACTERS" => Len(language') < MAX_LANGUAGE_SIZE
        BY <1>0, <3>0, <3>3, <4>1
      <4> QED BY <3>3, <4>1, <4>2 DEF LanguageTyped
    <3> QED BY <2>2, <2>8, <3>1, <3>2, <3>3 DEF L!LanguageFirst, L!Invalid, L!Goto
  <2>9. ASSUME L!CommaSemicolon PROVE Rest'
    <3>1. CASE L!Same /\ state' # "LANGUAGE_FIRST_CHARACTERS"
      BY <2>4, <3>1
    <3>2. CASE L!Committed(L!One)
      BY <2>5, <2>6, <3>2
    <3>3. CASE /\ language_size' = MAX_LANGUAGE_SIZE + 1 /\ state' = state
               /\ language' = language /\ q' = q /\ decimals' = decimals /\ best' = best
      <4>1. state = "COMMA_SEMICOLON"
        BY <2>9 DEF L!CommaSemicolon
      <4>2. MAX_LANGUAGE_SIZE + 1 \in 0 .. MAX_LANGUAGE_SIZE + 1
        BY <1>0
      <4> QED BY <3>3, <4>1, <4>2 DEF LanguageTyped
    <3> QED BY <2>2, <2>9, <3>1, <3>2, <3>3 DEF L!CommaSemicolon, L!Stay, L!Invalid, L!Goto
  <2>10. ASSUME L!WaitQ PROVE Rest'
    BY <2>2, <2>4, <2>10 DEF L!WaitQ, L!Stay, L!Invalid, L!Goto
  <2>11. ASSUME L!WaitEqual PROVE Rest'
    <3>1. CASE L!Same /\ state' # "LANGUAGE_FIRST_CHARACTERS"
      BY <2>4, <3>1
    <3>2. CASE /\ q' = 0 /\ state' = "NUMBER" /\ language' = language
               /\ language_size' = language_size /\ decimals' = decimals /\ best' = best
      BY <3>2 DEF LanguageTyped
    <3> QED BY <2>2, <2>11, <3>1, <3>2 DEF L!WaitEqual, L!Stay, L!Invalid, L!Goto
  <2>12. ASSUME L!WaitNumber PROVE Rest'
    <3>1. CASE L!Same /\ state' # "LANGUAGE_FIRST_CHARACTERS"
      BY <2>4, <3>1
    <3>2. CASE L!Committed(q)
      BY <2>5, <2>6, <3>2
    <3>3. CASE /\ q' \in Nat /\ decimals' \in -1 .. 3 /\ state' = "NUMBER" /\ language' = language
               /\ language_size' = language_size /\ best' = best
      BY <2>6, <3>3 DEF LanguageTyped
    <3>4. CASE /\ q' = q /\ decimals' = 0 /\ state' = state /\ language' = language
               /\ language_size' = language_size /\ best' = best
      <4>1. state = "NUMBER"
        BY <2>12 DEF L!WaitNumber
      <4> QED BY <2>6, <3>3, <3>4, <4>1
    <3>5. CASE /\ ch \in DOMAIN L!Digits
               /\ \/ decimals < 0 /\ q' = 10 * q + L!One * L!Digits[ch] /\ UNCHANGED decimals
                  \/ /\ decimals \in 0 .. L!MaxDecimals - 1 /\ decimals' = decimals + 1
                     /\ q' = q + L!Place[decimals'] * L!Digits[ch]
                  \/ decimals = L!MaxDecimals /\ UNCHANGED <<q, decimals>>
               /\ state' = state /\ language' = language
               /\ language_size' = language_size /\ best' = best
      <4>1. PICK d \in Nat : d = L!Digits[ch]
        BY <3>5 DEF L!Digits
      <4>2. ASSUME NEW k \in 1 .. 3 PROVE L!Place[k] * d \in Nat
        <5>1. L!Place[k] = 100 \/ L!Place[k] = 10 \/ L!Place[k] = 1
          BY DEF L!Place
        <5> QED BY <5>1
      <4>3. q' \in Nat /\ decimals' \in -1 .. 3
        <5>1. CASE decimals < 0 /\ q' = 10 * q + L!One * L!Digits[ch] /\ UNCHANGED decimals
          BY <2>6, <4>1, <5>1 DEF L!One
        <5>2. CASE /\ decimals \in 0 .. L!MaxDecimals - 1 /\ decimals' = decimals + 1
                   /\ q' = q + L!Place[decimals'] * L!Digits[ch]
          <6>1. decimals' \in 1 .. 3
            BY <2>6, <5>2
          <6>2. L!Place[decimals'] * d \in Nat
            BY <4>2, <6>1
          <6> QED BY <2>6, <4>1, <5>2, <6>1, <6>2
        <5>3. CASE decimals = L!MaxDecimals /\ UNCHANGED <<q, decimals>>
          BY <2>6, <5>3
        <5> QED BY <3>5, <5>1, <5>2, <5>3
      <4>4. state = "NUMBER"
        BY <2>12 DEF L!WaitNumber
      <4> QED BY <3>3, <3>5, <4>3, <4>4
    <3> QED BY <2>2, <2>12, <3>1, <3>2, <3>4, <3>5 DEF L!WaitNumber, L!Stay, L!Invalid, L!Goto
  <2> HIDE DEF Rest
  <2>13. Rest'
    BY <1>3, <2>7, <2>8, <2>9, <2>10, <2>11, <2>12 DEF L!Character
  <2> QED BY <2>1, <2>13 DEF LanguageTyped, Rest
<1> QED
  BY <1>1, <1>2, <1>3 DEF L!Next

------------------------------------------------------------------------------
(* The pages: what a script is made of.                                      *)

Tongues == {"e", "d"}
Inner == {"NORMAL", "PARAGRAPH", "ITEMIZE", "LARGE", "LARGER", "HEADER", "EXTERNAL"}
Others == {"HTTP", "Gopher", "Finger", "Gemini", "Spartan", "Nex", "Text", "Guppy"}
Footed(p, l, b) == S!Entry("EXTERNAL", [page |-> p, language |-> l, protocol |-> b])

(* The entries of a page between the first and the last one.                 *)
Middle ==
  {S!Entry(s, None) : s \in Inner}
  \cup {S!Internal(p, l) : p \in S!Pages, l \in Tongues}
  \cup {Footed(p, l, b) : p \in S!Pages, l \in Tongues, b \in Others}
Middles == Seq(Middle)
FirstEntry == S!Entry("INITIALIZE", None)
LastEntry == S!Entry("FINALIZE", None)

LEMMA MiddlesJoined ==
  /\ <<>> \in Middles
  /\ \A s, t \in Middles : s \o t \in Middles
BY DEF Middles

LEMMA TimesAre ==
  ASSUME NEW n \in Nat, NEW s \in Inner
  PROVE  S!Times(n, s) \in Middles
<1>1. S!Entry(s, None) \in Middle
  BY DEF Middle
<1>2. [i \in 1 .. n |-> S!Entry(s, None)] \in [1 .. n -> Middle]
  BY <1>1
<1>3. S!Times(n, s) = [i \in 1 .. n |-> S!Entry(s, None)]
  BY Zenon DEF S!Times
<1> QED
  BY <1>2, <1>3 DEF Middles

LEMMA LinksAre ==
  ASSUME NEW l \in Tongues, NEW ps \in Seq(S!Pages)
  PROVE  S!Links(l, ps) \in Middles
<1>1. DOMAIN ps = 1 .. Len(ps) /\ Len(ps) \in Nat /\ \A i \in 1 .. Len(ps) : ps[i] \in S!Pages
  OBVIOUS
<1>2. \A i \in 1 .. Len(ps) : S!Internal(ps[i], l) \in Middle
  BY <1>1 DEF Middle
<1>3. [i \in 1 .. Len(ps) |-> S!Internal(ps[i], l)] \in [1 .. Len(ps) -> Middle]
  BY <1>2
<1>4. S!Links(l, ps) = [i \in 1 .. Len(ps) |-> S!Internal(ps[i], l)]
  BY <1>1, Zenon DEF S!Links
<1> QED
  BY <1>1, <1>3, <1>4 DEF Middles

LEMMA PartsAre ==
  /\ \A n \in Nat : S!Para(n) \in Middles /\ S!Elsewhere(n) \in Middles
  /\ \A a : S!processor_generic_contact(a) \in Middles
  /\ S!processor_generic_protocols \in Middles
<1>1. \A n \in Nat : /\ S!Para(n) \in Middles /\ S!Elsewhere(n) \in Middles
                     /\ S!Times(n, "NORMAL") \in Middles /\ S!Times(n, "ITEMIZE") \in Middles
  BY TimesAre DEF S!Para, S!Elsewhere, Inner
<1>2. 2 \in Nat /\ 3 \in Nat /\ 9 \in Nat
  OBVIOUS
<1>3. ASSUME NEW a PROVE S!processor_generic_contact(a) \in Middles
  <2>1. PICK x \in Middles : x = IF a \in S!IsPlaintext THEN S!Times(2, "NORMAL") ELSE S!Elsewhere(2)
    BY <1>1, <1>2
  <2>2. S!processor_generic_contact(a) = x \o S!Elsewhere(3)
    BY <2>1 DEF S!processor_generic_contact
  <2> QED BY <1>1, <1>2, <2>2, MiddlesJoined
<1> QED
  BY <1>1, <1>2, <1>3 DEF S!processor_generic_protocols

LEMMA HeaderIs ==
  ASSUME NEW l \in Tongues, NEW p \in S!Pages
  PROVE  S!processor_generic_header(l, p) \in Middles
<1>1. <<p>> \in Seq(S!Pages) /\ <<>> \in Seq(S!Pages)
  OBVIOUS
<1>2. PICK x \in Seq(S!Pages), y \in Seq(S!Pages) :
        x = (IF l # "e" THEN <<p>> ELSE <<>>) /\ y = (IF l # "d" THEN <<p>> ELSE <<>>)
  BY <1>1
<1>3. S!processor_generic_header(l, p) = S!Links("e", x) \o S!Links("d", y)
  BY <1>2 DEF S!processor_generic_header
<1>4. S!Links("e", x) \in Middles /\ S!Links("d", y) \in Middles
  BY LinksAre DEF Tongues
<1> QED
  BY <1>3, <1>4, MiddlesJoined

LEMMA OthersAre ==
  ASSUME NEW a
  PROVE  S!OtherProtocols(a) \in Seq(Others)
<1> DEFINE Other(b) == IF b = a \/ (b = "HTTP" /\ a \in S!Http) THEN <<>> ELSE <<b>>
<1>1. ASSUME NEW b \in Others PROVE Other(b) \in Seq(Others)
  OBVIOUS
<1>2. \A s, t \in Seq(Others) : s \o t \in Seq(Others)
  OBVIOUS
<1>3. S!OtherProtocols(a) =
        Other("HTTP") \o Other("Gopher") \o Other("Finger") \o Other("Gemini")
        \o Other("Spartan") \o Other("Nex") \o Other("Text") \o Other("Guppy")
  BY Zenon DEF S!OtherProtocols
<1>4. /\ Other("HTTP") \in Seq(Others) /\ Other("Gopher") \in Seq(Others)
      /\ Other("Finger") \in Seq(Others) /\ Other("Gemini") \in Seq(Others)
      /\ Other("Spartan") \in Seq(Others) /\ Other("Nex") \in Seq(Others)
      /\ Other("Text") \in Seq(Others) /\ Other("Guppy") \in Seq(Others)
  BY <1>1 DEF Others
<1> HIDE DEF Other
<1> QED
  BY <1>2, <1>3, <1>4

LEMMA FooterIs ==
  ASSUME NEW a, NEW l \in Tongues, NEW p \in S!Pages
  PROVE  S!processor_generic_footer(a, l, p) \in Middles
<1>1. PICK others \in Seq(Others) : others = S!OtherProtocols(a)
  BY OthersAre
<1>2. DOMAIN others = 1 .. Len(others) /\ Len(others) \in Nat
  OBVIOUS
<1> DEFINE footed == [i \in DOMAIN others |-> Footed(p, l, others[i])]
<1>3. footed \in Middles
  <2>1. \A i \in 1 .. Len(others) : Footed(p, l, others[i]) \in Middle
    BY DEF Middle
  <2>2. footed \in [1 .. Len(others) -> Middle]
    BY <1>2, <2>1
  <2> QED BY <1>2, <2>2 DEF Middles
<1>4. S!processor_generic_footer(a, l, p) =
        S!Times(1, "LARGE") \o S!Times(1, "NORMAL") \o footed
        \o S!Links(l, <<"smolnet">>) \o S!Links(l, IF p # "" THEN <<"">> ELSE <<>>)
        \o S!Times(1, "NORMAL")
  BY <1>1, Zenon DEF S!processor_generic_footer, Footed
<1>5. S!Times(1, "LARGE") \in Middles /\ S!Times(1, "NORMAL") \in Middles
  BY TimesAre DEF Inner
<1>6. S!Links(l, <<"smolnet">>) \in Middles /\ S!Links(l, IF p # "" THEN <<"">> ELSE <<>>) \in Middles
  <2>1. "smolnet" \in S!Pages /\ "" \in S!Pages
    BY DEF S!Pages
  <2> DEFINE Pages == S!Pages
  <2>a. \A x \in Pages : <<x>> \in Seq(Pages)
    OBVIOUS
  <2>2. <<"smolnet">> \in Seq(S!Pages) /\ <<"">> \in Seq(S!Pages) /\ <<>> \in Seq(S!Pages)
    <3>1. <<"smolnet">> \in Seq(S!Pages)
      BY <2>1, <2>a, Zenon
    <3>2. <<"">> \in Seq(S!Pages)
      BY <2>1, <2>a, Zenon
    <3>3. <<>> \in Seq(S!Pages)
      OBVIOUS
    <3> QED BY <3>1, <3>2, <3>3
  <2>3. PICK ps \in Seq(S!Pages) : ps = IF p # "" THEN <<"">> ELSE <<>>
    BY <2>2
  <2>4. S!Links(l, <<"smolnet">>) \in Middles /\ S!Links(l, ps) \in Middles
    BY <2>2, LinksAre
  <2> QED BY <2>3, <2>4, Zenon
<1> DEFINE large == S!Times(1, "LARGE")
           normal == S!Times(1, "NORMAL")
           smol == S!Links(l, <<"smolnet">>)
           index == S!Links(l, IF p # "" THEN <<"">> ELSE <<>>)
<1>7. S!processor_generic_footer(a, l, p) = large \o normal \o footed \o smol \o index \o normal
  BY <1>4, Zenon
<1>8. large \in Middles /\ normal \in Middles /\ smol \in Middles /\ index \in Middles
  BY <1>5, <1>6, Zenon
<1> HIDE DEF footed, large, normal, smol, index
<1> QED
  BY <1>3, <1>7, <1>8, MiddlesJoined

LEMMA BodyIs ==
  ASSUME NEW a, NEW l \in Tongues, NEW p \in S!Pages
  PROVE  S!Body(a, l, p) \in Middles
<1>0. /\ 1 \in Nat /\ 2 \in Nat /\ 3 \in Nat /\ 4 \in Nat /\ 6 \in Nat /\ 7 \in Nat /\ 0 \in Nat
  OBVIOUS
<1>1. \A n \in Nat : /\ S!Para(n) \in Middles /\ S!Elsewhere(n) \in Middles
                     /\ S!Times(n, "NORMAL") \in Middles /\ S!Times(n, "ITEMIZE") \in Middles
                     /\ S!Times(n, "LARGE") \in Middles /\ S!Times(n, "LARGER") \in Middles
  BY PartsAre, TimesAre DEF Inner
<1>2. S!IndexPage(l) \in Middles
  <2>1. PICK ps : ps = <<"about", "twinkleshine", "smolnet">>
                       \o (IF l = "d" THEN <<"projects", "resume">> ELSE <<"resume", "projects">>)
                       \o <<"contact">>
    OBVIOUS
  <2>2. ps \in Seq(S!Pages)
    <3>1. /\ "about" \in S!Pages /\ "twinkleshine" \in S!Pages /\ "smolnet" \in S!Pages
          /\ "projects" \in S!Pages /\ "resume" \in S!Pages /\ "contact" \in S!Pages
      BY DEF S!Pages
    <3>2. <<"about", "twinkleshine", "smolnet">> \in Seq(S!Pages) /\ <<"contact">> \in Seq(S!Pages)
      BY <3>1
    <3>3. /\ <<"projects", "resume">> \in Seq(S!Pages)
          /\ <<"resume", "projects">> \in Seq(S!Pages)
      BY <3>1
    <3>4. PICK two2 \in Seq(S!Pages) :
            two2 = IF l = "d" THEN <<"projects", "resume">> ELSE <<"resume", "projects">>
      BY <3>3
    <3>5. \A s, t \in Seq(S!Pages) : s \o t \in Seq(S!Pages)
      OBVIOUS
    <3>6. ps = <<"about", "twinkleshine", "smolnet">> \o two2 \o <<"contact">>
      BY <2>1, <3>4
    <3> QED BY <3>2, <3>4, <3>5, <3>6
  <2>3. S!IndexPage(l) = S!Para(2) \o S!Links(l, ps) \o S!Para(1)
    BY <2>1, Zenon DEF S!IndexPage
  <2> QED BY <1>0, <1>1, <2>2, <2>3, LinksAre, MiddlesJoined
<1>3. S!AboutPage(l) \in Middles
  <2>1. "resume" \in S!Pages /\ "projects" \in S!Pages
    BY DEF S!Pages
  <2>2. <<"resume">> \in Seq(S!Pages) /\ <<"projects">> \in Seq(S!Pages)
    BY <2>1
  <2>3. S!Links(l, <<"resume">>) \in Middles /\ S!Links(l, <<"projects">>) \in Middles
    BY <2>2, LinksAre
  <2> QED BY <1>0, <1>1, <2>3, MiddlesJoined DEF S!AboutPage
<1>4. S!TwinkleshinePage \in Middles
  BY <1>0, <1>1, PartsAre, MiddlesJoined DEF S!TwinkleshinePage
<1>5. S!SmolnetPage \in Middles
  BY <1>0, <1>1, MiddlesJoined DEF S!SmolnetPage
<1>6. S!ProjectsPage \in Middles
  <2>1. PICK project \in Middles : project = S!Times(1, "LARGE") \o S!Para(1) \o S!Elsewhere(1)
    BY <1>0, <1>1, MiddlesJoined
  <2>2. S!ProjectsPage = S!Para(1) \o project \o project \o project \o project \o project \o project
    BY <2>1, Zenon DEF S!ProjectsPage
  <2> QED BY <1>0, <1>1, <2>2, MiddlesJoined
<1>7. S!Times(1, "NORMAL") \o S!processor_generic_contact(a) \in Middles
  BY <1>0, <1>1, PartsAre, MiddlesJoined
<1>8. S!ResumePage(a) \in Middles
  <2> DEFINE Larger == S!Times(1, "LARGER")
             Large(n, items) == S!Times(1, "LARGE") \o S!Times(n, "NORMAL") \o S!Times(items, "ITEMIZE")
  <2>1. Larger \in Middles /\ \A n, items \in Nat : Large(n, items) \in Middles
    BY <1>0, <1>1, MiddlesJoined
  <2>2. S!ResumePage(a) =
          S!processor_generic_contact(a) \o S!Times(1, "NORMAL")
          \o Larger \o Large(7, 0) \o Large(6, 0) \o Large(2, 0)
          \o Larger \o Large(3, 2) \o Large(3, 2) \o Large(3, 2)
          \o Larger \o Large(0, 2) \o Large(0, 2) \o Large(0, 3)
          \o Larger \o S!Times(1, "ITEMIZE") \o Larger \o S!Times(2, "ITEMIZE")
          \o Larger \o S!Times(1, "ITEMIZE")
    BY Zenon DEF S!ResumePage
  <2> HIDE DEF Larger, Large
  <2>3. /\ Large(7, 0) \in Middles /\ Large(6, 0) \in Middles /\ Large(2, 0) \in Middles
        /\ Large(3, 2) \in Middles /\ Large(0, 2) \in Middles /\ Large(0, 3) \in Middles
    BY <1>0, <2>1
  <2>4. S!Times(1, "NORMAL") \in Middles /\ S!Times(1, "ITEMIZE") \in Middles /\ S!Times(2, "ITEMIZE") \in Middles
    BY <1>0, <1>1
  <2>5. S!processor_generic_contact(a) \in Middles
    BY PartsAre
  <2>6. PICK x \in Middles :
          x = S!processor_generic_contact(a) \o S!Times(1, "NORMAL")
              \o Larger \o Large(7, 0) \o Large(6, 0) \o Large(2, 0)
              \o Larger \o Large(3, 2) \o Large(3, 2) \o Large(3, 2)
    BY <2>1, <2>3, <2>4, <2>5, MiddlesJoined, Zenon
  <2>7. x \o Larger \o Large(0, 2) \o Large(0, 2) \o Large(0, 3)
          \o Larger \o S!Times(1, "ITEMIZE") \o Larger \o S!Times(2, "ITEMIZE")
          \o Larger \o S!Times(1, "ITEMIZE") \in Middles
    BY <2>1, <2>3, <2>4, MiddlesJoined, Zenon
  <2> QED BY <2>2, <2>6, <2>7, Zenon
<1> QED
  BY <1>2, <1>3, <1>4, <1>5, <1>6, <1>7, <1>8 DEF S!Body

(* What is still to be printed: entries of the middle, then the last.        *)
Continues(s) ==
  /\ s \in Seq(Middle \cup {LastEntry}) /\ Len(s) >= 1 /\ s[Len(s)] = LastEntry
  /\ \A i \in 1 .. Len(s) - 1 : s[i] \in Middle
Begins(s) == \E m : s = <<FirstEntry>> \o m /\ Continues(m)

LEMMA ScriptIs ==
  ASSUME NEW a, NEW l \in Tongues, NEW p \in S!Pages
  PROVE  Begins(S!Script(a, l, p))
<1> DEFINE heading == S!Times(1, "HEADER")
           links1 == S!processor_generic_header(l, p)
           body == S!Body(a, l, p)
           footer == S!processor_generic_footer(a, l, p)
           m == heading \o links1 \o body \o footer
<1>1. heading \in Middles /\ links1 \in Middles /\ body \in Middles /\ footer \in Middles
  BY TimesAre, HeaderIs, BodyIs, FooterIs DEF Inner
<1>2. \A s : S!Times(1, s) = <<S!Entry(s, None)>>
  <2>1. ASSUME NEW s PROVE [i \in 1 .. 1 |-> S!Entry(s, None)] = <<S!Entry(s, None)>>
    OBVIOUS
  <2> QED BY <2>1 DEF S!Times
<1>3. S!Script(a, l, p) = <<FirstEntry>> \o heading \o links1 \o body \o footer \o <<LastEntry>>
  <2>1. S!Times(1, "INITIALIZE") = <<FirstEntry>> /\ S!Times(1, "FINALIZE") = <<LastEntry>>
    BY <1>2 DEF FirstEntry, LastEntry
  <2>2. S!Script(a, l, p) = S!Times(1, "INITIALIZE") \o heading \o links1 \o body \o footer \o S!Times(1, "FINALIZE")
    BY Zenon DEF S!Script
  <2> QED BY <2>1, <2>2, Zenon
<1> HIDE DEF heading, links1, body, footer
<1>4. m \in Middles
  BY <1>1, MiddlesJoined
<1>5. S!Script(a, l, p) = <<FirstEntry>> \o (m \o <<LastEntry>>)
  <2> DEFINE All == Middle \cup {FirstEntry, LastEntry}
  <2>1. \A s \in Middles : s \in Seq(All)
    BY DEF Middles
  <2>2. <<FirstEntry>> \in Seq(All) /\ <<LastEntry>> \in Seq(All)
    OBVIOUS
  <2>3. /\ heading \in Seq(All) /\ links1 \in Seq(All) /\ body \in Seq(All) /\ footer \in Seq(All)
    BY <1>1, <2>1
  <2> HIDE DEF All
  <2>4. \A r, s, t \in Seq(All) : (r \o s) \o t = r \o (s \o t) /\ r \o s \in Seq(All)
    BY ConcatAssociative, ConcatProperties
  <2> DEFINE f == <<FirstEntry>>
             e == <<LastEntry>>
  <2>5. f \in Seq(All) /\ e \in Seq(All)
    BY <2>2
  <2> HIDE DEF f, e
  <2> DEFINE x == heading \o links1
             y == x \o body
             z == y \o footer
  <2>6. x \in Seq(All) /\ (f \o heading) \o links1 = f \o x
    BY <2>3, <2>4, <2>5
  <2> HIDE DEF x
  <2>7. y \in Seq(All) /\ (f \o x) \o body = f \o y
    <3>1. f \in Seq(All) /\ x \in Seq(All) /\ body \in Seq(All)
      BY <2>3, <2>5, <2>6
    <3> QED BY <3>1, <2>4, Zenon DEF y
  <2> HIDE DEF y
  <2>8. z \in Seq(All) /\ (f \o y) \o footer = f \o z
    <3>1. f \in Seq(All) /\ y \in Seq(All) /\ footer \in Seq(All)
      BY <2>3, <2>5, <2>7
    <3> QED BY <3>1, <2>4, Zenon DEF z
  <2> HIDE DEF z
  <2>9. (f \o z) \o e = f \o (z \o e)
    BY <2>4, <2>5, <2>8
  <2>10. f \o heading \o links1 \o body \o footer \o e = f \o (z \o e)
    BY <2>6, <2>7, <2>8, <2>9, Zenon
  <2>11. z = m
    BY Zenon DEF x, y, z, m
  <2>12. f \o heading \o links1 \o body \o footer \o e = f \o (m \o e)
    BY <2>10, <2>11, Zenon
  <2> QED BY <1>3, <2>12, Zenon DEF f, e
<1> HIDE DEF m
<1>6. Continues(m \o <<LastEntry>>)
  <2> DEFINE s == m \o <<LastEntry>>
  <2>1. m \in Seq(Middle) /\ Len(m) \in Nat
    BY <1>4 DEF Middles
  <2>2. s \in Seq(Middle \cup {LastEntry}) /\ Len(s) = Len(m) + 1
    BY <2>1
  <2>3. s[Len(m) + 1] = LastEntry /\ \A i \in 1 .. Len(m) : s[i] = m[i]
    BY <2>1
  <2>4. \A i \in 1 .. Len(m) : m[i] \in Middle
    BY <2>1
  <2> HIDE DEF s
  <2>5. Len(s) >= 1 /\ Len(s) - 1 = Len(m)
    BY <2>1, <2>2
  <2>6. Continues(s)
    BY <2>2, <2>3, <2>4, <2>5 DEF Continues
  <2> QED BY <2>6 DEF s
<1> QED
  BY <1>5, <1>6 DEF Begins

(* What is printed next, and what then remains.                              *)
LEMMA ContinuesOn ==
  ASSUME NEW s, Continues(s)
  PROVE  /\ s # <<>>
         /\ \/ Head(s) = LastEntry /\ Tail(s) = <<>>
            \/ Head(s) \in Middle /\ Continues(Tail(s))
<1>1. /\ s \in Seq(Middle \cup {LastEntry}) /\ Len(s) \in Nat /\ Len(s) >= 1 /\ s[Len(s)] = LastEntry
      /\ \A i \in 1 .. Len(s) - 1 : s[i] \in Middle
  BY DEF Continues
<1>2. s # <<>> /\ Head(s) = s[1]
  BY <1>1
<1>3. /\ Tail(s) \in Seq(Middle \cup {LastEntry}) /\ Len(Tail(s)) = Len(s) - 1
      /\ \A i \in 1 .. Len(s) - 1 : Tail(s)[i] = s[i + 1]
  BY <1>1
<1>4. CASE Len(s) = 1
  <2>1. Len(Tail(s)) = 0
    BY <1>1, <1>3, <1>4
  <2>2. Tail(s) = <<>>
    BY <1>3, <2>1, EmptySeq
  <2>3. Head(s) = LastEntry
    BY <1>1, <1>2, <1>4
  <2> QED BY <1>2, <2>2, <2>3
<1>5. CASE Len(s) > 1
  <2>1. 1 \in 1 .. Len(s) - 1 /\ Len(s) - 1 \in 1 .. Len(s) - 1 /\ (Len(s) - 1) + 1 = Len(s)
    BY <1>1, <1>5
  <2>2. Head(s) \in Middle /\ Tail(s)[Len(s) - 1] = LastEntry
    BY <1>1, <1>2, <1>3, <2>1
  <2>3. ASSUME NEW i \in 1 .. (Len(s) - 1) - 1 PROVE Tail(s)[i] \in Middle
    <3>1. i \in 1 .. Len(s) - 1 /\ i + 1 \in 1 .. Len(s) - 1
      BY <1>1
    <3> QED BY <1>1, <1>3, <3>1
  <2>4. Len(s) - 1 >= 1
    BY <1>1, <1>5
  <2> QED BY <1>2, <1>3, <2>2, <2>3, <2>4 DEF Continues
<1> QED
  BY <1>1, <1>4, <1>5

LEMMA BeginsOn ==
  ASSUME NEW s, Begins(s)
  PROVE  s # <<>> /\ Head(s) = FirstEntry /\ Continues(Tail(s))
<1>1. PICK m : s = <<FirstEntry>> \o m /\ Continues(m)
  BY DEF Begins
<1>2. m \in Seq(Middle \cup {LastEntry, FirstEntry})
  BY <1>1 DEF Continues
<1>3. Head(s) = FirstEntry /\ Tail(s) = m /\ s # <<>>
  BY <1>1, <1>2
<1> QED
  BY <1>1, <1>3

------------------------------------------------------------------------------
(* The invariant of the site.                                                *)

SiteStates == {"request", "print", "sent"}
Buffers == [stale : BOOLEAN, size : Nat]
Contexts == [language : Tongues \cup {None}, requested : Tongues \cup {None},
             previous : Inner \cup {"INITIALIZE", "FINALIZE", "INTERNAL"}]
SiteTyped ==
  /\ state \in SiteStates
  /\ request.protocol \in SiteProtocols /\ request.language \in Tongues \cup {None}
  /\ page \in S!Pages \cup {None}
  /\ context \in Contexts
  /\ one \in Buffers /\ two \in Buffers

(* The elements that are open between two entries of a page.                 *)
Between == IF context.previous = "ITEMIZE" THEN <<"html", "body", "ul">> ELSE <<"html", "body">>

AtBeginning == Begins(script) /\ open = <<>> /\ context.previous = "INITIALIZE"
Amid ==
  /\ Continues(script) /\ context.previous # "FINALIZE" /\ ~two.stale
  /\ IF request.protocol \in S!Http THEN open = Between ELSE open = <<>> /\ ~one.stale
Announced(alive) ==
  request.protocol \in S!Http => announced = [length |-> two.size, keep_alive |-> alive]
AtEnd == script = <<>> /\ open = <<>> /\ ~one.stale /\ ~two.stale /\ Announced(request.keep_alive)

Printing == state = "print" => context.language \in Tongues /\ (AtBeginning \/ Amid \/ AtEnd)
Answered ==
  state = "sent" =>
    /\ open = <<>> /\ Announced(response.keep_alive)
    /\ page # None \/ request.protocol \in S!Http => ~one.stale /\ ~two.stale
PageWhole == Printing /\ Answered /\ (state = "request" => open = <<>>)

(* What a resource is normalized to over a protocol.                         *)
NormalizedOver(a, r) == IF a \in S!IsQuestion THEN S!normalize_question(r) ELSE S!normalize_slash(r)

(* The language a page has of itself: that of the browser, or the implicit   *)
(* one, which alone counts in a link to another protocol.                    *)
Own(link) == IF link.internal /\ request.language # None THEN request.language ELSE S!IMPLICIT_LANGUAGE
Resolves(link) ==
  LET n == NormalizedOver(link.protocol, link.resource)
  IN  /\ n.resource = S!Name(link.page)
      /\ n.language = link.language \/ (n.language = None /\ link.language = Own(link))
Word == S!Pages \cup {"/", "?", "lang=", "en", "de", "1"}
LinkTypes ==
  [protocol : SiteProtocols \cup Others, page : S!Pages, language : Tongues, internal : BOOLEAN,
   resource : Seq(Word)]
LinksResolve == \A link \in links : link \in LinkTypes /\ Resolves(link)

(* The link that was followed asks for its page, and in its language.        *)
Chosen(l) == goal.internal \/ request.language # "d" => l = goal.language
GoalAsked ==
  state = "request" =>
    /\ S!Valid /\ S!Normalized.resource = S!Name(goal.page)
    /\ Chosen(S!PageLanguage(S!Normalized.language))
GoalPrinted == state # "request" => page = goal.page /\ Chosen(context.language)
GoalSent == state = "sent" => response.status = "200"
GoalReached == goal # None => goal.page \in S!Pages /\ GoalAsked /\ GoalPrinted /\ GoalSent

SiteInv == SiteTyped /\ PageWhole /\ LinksResolve /\ GoalReached

------------------------------------------------------------------------------
(* Elements that are opened and closed.                                      *)

Tag == {"html", "body", "ul", "li", "p", "h1", "h2", "h3", "header", "a"}

LEMMA ReversedTwice ==
  ASSUME NEW s \in Seq(Tag)
  PROVE  S!Reverse(s) \in Seq(Tag) /\ Len(S!Reverse(s)) = Len(s) /\ S!Reverse(S!Reverse(s)) = s
<1> DEFINE n == Len(s)
           r == [i \in 1 .. n |-> s[(n - i) + 1]]
<1>1. n \in Nat /\ s \in [1 .. n -> Tag]
  OBVIOUS
<1>2. S!Reverse(s) = r
  BY Zenon DEF S!Reverse
<1> HIDE DEF n
<1>3. \A i \in 1 .. n : (n - i) + 1 \in 1 .. n /\ (n - ((n - i) + 1)) + 1 = i
  BY <1>1
<1>4. r \in [1 .. n -> Tag] /\ \A i \in 1 .. n : r[i] = s[(n - i) + 1]
  BY <1>1, <1>3
<1> HIDE DEF r
<1>5. r \in Seq(Tag) /\ Len(r) = n
  BY <1>1, <1>4
<1>6. S!Reverse(r) = [i \in 1 .. n |-> r[(n - i) + 1]]
  BY <1>5, Zenon DEF S!Reverse
<1>7. \A i \in 1 .. n : r[(n - i) + 1] = s[i]
  BY <1>3, <1>4
<1>8. [i \in 1 .. n |-> r[(n - i) + 1]] = s
  BY <1>1, <1>7
<1> QED
  BY <1>2, <1>5, <1>6, <1>8 DEF n

LEMMA CloseIs ==
  ASSUME NEW o \in Seq(Tag), NEW s \in Seq(Tag), NEW t, Len(t) = Len(s), S!Reverse(t) = s
  PROVE  S!Close(o \o s, t) = o
<1>1. /\ o \o s \in Seq(Tag) /\ Len(o \o s) = Len(o) + Len(s) /\ Len(o) \in Nat /\ Len(s) \in Nat
      /\ \A i \in 1 .. Len(o) : (o \o s)[i] = o[i]
      /\ \A i \in 1 .. Len(s) : (o \o s)[Len(o) + i] = s[i]
  OBVIOUS
<1> DEFINE w == o \o s
           n == Len(w) - Len(t)
<1>2. n = Len(o) /\ n >= 0 /\ n \in Int /\ Len(w) \in Int /\ Len(w) = n + Len(s)
  BY <1>1
<1>3. SubSeq(w, n + 1, Len(w)) = s
  <2>1. \A i \in n + 1 .. Len(w) : w[i] \in Tag
    BY <1>1, <1>2
  <2>2. /\ SubSeq(w, n + 1, Len(w)) \in Seq(Tag)
        /\ Len(SubSeq(w, n + 1, Len(w))) = IF n + 1 <= Len(w) THEN Len(w) - (n + 1) + 1 ELSE 0
        /\ \A i \in 1 .. Len(w) - (n + 1) + 1 : SubSeq(w, n + 1, Len(w))[i] = w[(n + 1) + i - 1]
    <3>1. n + 1 \in Int
      BY <1>2
    <3> QED BY <1>2, <2>1, <3>1, SubSeqProperties
  <2> HIDE DEF w, n
  <2>3. Len(SubSeq(w, n + 1, Len(w))) = Len(s) /\ Len(w) - (n + 1) + 1 = Len(s)
    BY <1>1, <1>2, <2>2
  <2>4. \A i \in 1 .. Len(s) : (n + 1) + i - 1 = n + i
    BY <1>2
  <2>5. \A i \in 1 .. Len(s) : SubSeq(w, n + 1, Len(w))[i] = s[i]
    BY <1>1, <1>2, <2>2, <2>3, <2>4 DEF w
  <2> QED BY <2>2, <2>3, <2>5, SeqEqual
<1>4. SubSeq(w, 1, n) = o
  <2>1. \A i \in 1 .. n : w[i] \in Tag
    BY <1>1, <1>2
  <2>2. /\ SubSeq(w, 1, n) \in Seq(Tag)
        /\ Len(SubSeq(w, 1, n)) = IF 1 <= n THEN n - 1 + 1 ELSE 0
        /\ \A i \in 1 .. n - 1 + 1 : SubSeq(w, 1, n)[i] = w[1 + i - 1]
    BY <1>2, <2>1, SubSeqProperties
  <2> HIDE DEF w, n
  <2>3. Len(SubSeq(w, 1, n)) = Len(o)
    BY <1>1, <1>2, <2>2
  <2>4. \A i \in 1 .. Len(o) : 1 + i - 1 = i /\ i \in 1 .. n - 1 + 1
    BY <1>2
  <2>5. \A i \in 1 .. Len(o) : SubSeq(w, 1, n)[i] = o[i]
    BY <1>1, <2>2, <2>4 DEF w
  <2> QED BY <2>2, <2>3, <2>5, SeqEqual
<1>5. S!Close(w, t) = IF n >= 0 /\ SubSeq(w, n + 1, Len(w)) = S!Reverse(t)
                        THEN SubSeq(w, 1, n) ELSE Append(w, "mismatch")
  BY Zenon DEF S!Close
<1> HIDE DEF w, n
<1>6. S!Close(w, t) = o
  BY <1>2, <1>3, <1>4, <1>5
<1> QED
  BY <1>6 DEF w

LEMMA ListOpened == <<"html", "body">> \o <<"ul">> = <<"html", "body", "ul">>
<1> DEFINE s == <<"html", "body">> \o <<"ul">>
           t == <<"html", "body", "ul">>
<1>1. t \in Seq(Tag) /\ <<"html", "body">> \in Seq(Tag) /\ <<"ul">> \in Seq(Tag)
  BY DEF Tag
<1>2. s \in Seq(Tag) /\ Len(s) = 3 /\ Len(t) = 3
  BY <1>1
<1>3. s[1] = "html" /\ s[2] = "body" /\ s[3] = "ul"
  BY <1>1
<1>4. \A i \in 1 .. Len(s) : s[i] = t[i]
  <2>1. t[1] = "html" /\ t[2] = "body" /\ t[3] = "ul"
    OBVIOUS
  <2> HIDE DEF s, t
  <2>2. \A i \in 1 .. 3 : i = 1 \/ i = 2 \/ i = 3
    OBVIOUS
  <2> QED BY <1>2, <1>3, <2>1, <2>2
<1> HIDE DEF s, t
<1>5. s = t
  BY <1>1, <1>2, <1>4, SeqEqual
<1> QED
  BY <1>5 DEF s, t

(* What an entry of the middle does to the elements that are open.           *)
LEMMA OpenOn ==
  ASSUME NEW style \in Inner \cup {"INTERNAL"}, SiteTyped, open = Between, context.previous # "FINALIZE"
  PROVE  S!Close(S!Close(open, S!ListEnd(style)) \o S!Opening(style), S!Closing(style)) =
           IF style = "ITEMIZE" THEN <<"html", "body", "ul">> ELSE <<"html", "body">>
<1> DEFINE H == <<"html", "body">>
           U == <<"html", "body", "ul">>
           previous == context.previous
<1>1. H \in Seq(Tag) /\ U \in Seq(Tag)
  BY DEF Tag
<1>2. H \o <<"ul">> = U /\ H \o <<>> = H /\ U \o <<>> = U
  <2>1. H \o <<"ul">> = U
    BY ListOpened
  <2>2. H \o <<>> = H /\ U \o <<>> = U
    BY <1>1, ConcatEmptySeq
  <2> QED BY <2>1, <2>2
<1>3. previous \in Inner \cup {"INITIALIZE", "INTERNAL"} /\ open = IF previous = "ITEMIZE" THEN U ELSE H
  BY DEF SiteTyped, Contexts, Between
<1>4. \A x \in Tag : <<x>> \in Seq(Tag) /\ Len(<<x>>) = 1 /\ S!Reverse(<<x>>) = <<x>>
  <2>1. ASSUME NEW x \in Tag PROVE <<x>> \in Seq(Tag) /\ Len(<<x>>) = 1 /\ S!Reverse(<<x>>) = <<x>>
    BY DEF S!Reverse
  <2> QED BY <2>1
<1>5. <<>> \in Seq(Tag) /\ Len(<<>>) = 0 /\ S!Reverse(<<>>) = <<>>
  BY DEF S!Reverse
<1> DEFINE base == IF previous = "ITEMIZE" /\ style = "ITEMIZE" THEN U ELSE H
<1>6. S!Close(open, S!ListEnd(style)) = base
  <2>1. CASE previous = "ITEMIZE" /\ style # "ITEMIZE"
    <3>1. S!ListEnd(style) = <<"ul">>
      BY <2>1 DEF S!ListEnd
    <3>2. "ul" \in Tag
      BY DEF Tag
    <3>3. <<"ul">> \in Seq(Tag) /\ S!Reverse(<<"ul">>) = <<"ul">>
      BY <1>4, <3>2, Zenon
    <3>4. S!Close(H \o <<"ul">>, <<"ul">>) = H
      BY <1>1, <3>3, CloseIs
    <3>5. base = H /\ open = U
      BY <1>3, <2>1
    <3> QED BY <1>2, <3>1, <3>4, <3>5, Zenon
  <2>2. CASE ~(previous = "ITEMIZE" /\ style # "ITEMIZE")
    <3>1. S!ListEnd(style) = <<>>
      BY <1>3, <2>2 DEF S!ListEnd, Inner
    <3>2. base = open /\ open \in Seq(Tag)
      BY <1>1, <1>3, <2>2
    <3>3. S!Close(open \o <<>>, <<>>) = open
      BY <1>5, <3>2, CloseIs
    <3>4. open \o <<>> = open
      BY <3>2, ConcatEmptySeq
    <3> QED BY <3>1, <3>2, <3>3, <3>4, Zenon
  <2> QED BY <2>1, <2>2
<1>7. CASE style = "ITEMIZE"
  <2>1. S!Closing(style) = <<"li">>
    BY <1>7 DEF S!Closing
  <2>2. base \o S!Opening(style) = U \o <<"li">>
    <3>1. CASE previous = "ITEMIZE"
      <4>1. base = U
        BY <1>7, <3>1
      <4>2. S!Opening(style) = <<>> \o <<"li">>
        BY <1>7, <3>1 DEF S!Opening
      <4> HIDE DEF base, U
      <4>3. <<>> \o <<"li">> = <<"li">>
        OBVIOUS
      <4> QED BY <4>1, <4>2, <4>3, Zenon
    <3>2. CASE previous # "ITEMIZE"
      <4>1. base = H
        BY <1>7, <3>2
      <4>2. S!Opening(style) = <<"ul">> \o <<"li">>
        BY <1>7, <3>2 DEF S!Opening
      <4>3. H \o (<<"ul">> \o <<"li">>) = U \o <<"li">>
        OBVIOUS
      <4> HIDE DEF base, U, H
      <4> QED BY <4>1, <4>2, <4>3, Zenon
    <3> QED BY <3>1, <3>2
  <2>3. "li" \in Tag
    BY DEF Tag
  <2>4. <<"li">> \in Seq(Tag) /\ S!Reverse(<<"li">>) = <<"li">>
    BY <1>4, <2>3, Zenon
  <2>5. S!Close(U \o <<"li">>, <<"li">>) = U
    BY <1>1, <2>4, CloseIs
  <2> QED BY <1>6, <1>7, <2>1, <2>2, <2>5
<1>8. CASE style # "ITEMIZE"
  <2>1. base = H
    BY <1>8
  <2>2. S!Opening(style) \in Seq(Tag) /\ S!Closing(style) = S!Reverse(S!Opening(style))
    <3>1. S!Closing(style) = S!Reverse(S!Opening(style))
      BY <1>8 DEF S!Closing, Inner
    <3>2. \A x, y \in Tag : <<x, y>> \in Seq(Tag)
      OBVIOUS
    <3>3. /\ "p" \in Tag /\ "h3" \in Tag /\ "h2" \in Tag /\ "header" \in Tag /\ "h1" \in Tag /\ "a" \in Tag
      BY DEF Tag
    <3>4. S!Opening(style) \in {<<>>, <<"p">>, <<"h3", "p">>, <<"h2", "p">>, <<"header", "h1">>, <<"a">>}
      BY <1>8 DEF S!Opening, Inner
    <3> QED BY <1>4, <1>5, <3>1, <3>2, <3>3, <3>4
  <2>3. S!Close(H \o S!Opening(style), S!Closing(style)) = H
    <3> DEFINE s == S!Opening(style)
    <3>1. s \in Seq(Tag) /\ S!Closing(style) = S!Reverse(s)
      BY <2>2
    <3> HIDE DEF s, H
    <3>2. S!Reverse(s) \in Seq(Tag) /\ Len(S!Reverse(s)) = Len(s) /\ S!Reverse(S!Reverse(s)) = s
      BY <3>1, ReversedTwice
    <3>3. S!Close(H \o s, S!Reverse(s)) = H
      BY <1>1, <3>1, <3>2, CloseIs
    <3> QED BY <3>1, <3>3 DEF s
  <2> QED BY <1>6, <1>8, <2>1, <2>3
<1> QED
  BY <1>7, <1>8

LEMMA OpenFirst ==
  S!Close(S!Close(<<>>, <<>>) \o <<"html", "body">>, <<>>) = <<"html", "body">>
<1>1. <<>> \in Seq(Tag) /\ <<"html", "body">> \in Seq(Tag) /\ S!Reverse(<<>>) = <<>>
  BY DEF Tag, S!Reverse
<1>2. S!Close(<<>> \o <<>>, <<>>) = <<>> /\ S!Close(<<"html", "body">> \o <<>>, <<>>) = <<"html", "body">>
  BY <1>1, CloseIs
<1>3. /\ <<>> \o <<>> = <<>> /\ <<"html", "body">> \o <<>> = <<"html", "body">>
      /\ <<>> \o <<"html", "body">> = <<"html", "body">>
  BY <1>1, ConcatEmptySeq
<1> QED
  BY <1>2, <1>3, Zenon

(* The last entry closes what the first one opened, and the last list.       *)
LEMMA OpenLast ==
  ASSUME SiteTyped, open = Between, context.previous # "FINALIZE"
  PROVE  S!Close(S!Close(open, S!ListEnd("FINALIZE")) \o <<>>, <<"body", "html">>) = <<>>
<1> DEFINE H == <<"html", "body">>
           U == <<"html", "body", "ul">>
           previous == context.previous
<1>1. H \in Seq(Tag) /\ U \in Seq(Tag) /\ <<"ul">> \in Seq(Tag) /\ <<>> \in Seq(Tag)
  BY DEF Tag
<1>2. H \o <<"ul">> = U /\ H \o <<>> = H /\ <<>> \o H = H
  <2>1. H \o <<"ul">> = U
    BY ListOpened
  <2>2. H \o <<>> = H /\ <<>> \o H = H
    BY <1>1, ConcatEmptySeq
  <2> QED BY <2>1, <2>2
<1>3. previous \in Inner \cup {"INITIALIZE", "INTERNAL"} /\ open = IF previous = "ITEMIZE" THEN U ELSE H
  BY DEF SiteTyped, Contexts, Between
<1>4. S!Reverse(<<"ul">>) = <<"ul">> /\ S!Reverse(<<>>) = <<>> /\ S!Reverse(<<"body", "html">>) = H
  BY DEF S!Reverse
<1>5. S!Close(open, S!ListEnd("FINALIZE")) = H
  <2>1. CASE previous = "ITEMIZE"
    <3>1. S!ListEnd("FINALIZE") = <<"ul">>
      BY <2>1 DEF S!ListEnd
    <3>2. S!Close(H \o <<"ul">>, <<"ul">>) = H
      <4>1. <<"ul">> \in Seq(Tag) /\ S!Reverse(<<"ul">>) = <<"ul">>
        BY <1>1, <1>4, Zenon
      <4> QED BY <1>1, <4>1, CloseIs
    <3> QED BY <1>2, <1>3, <2>1, <3>1, <3>2, Zenon
  <2>2. CASE previous # "ITEMIZE"
    <3>1. S!ListEnd("FINALIZE") = <<>>
      BY <1>3, <2>2 DEF S!ListEnd, Inner
    <3>2. S!Close(H \o <<>>, <<>>) = H
      <4>1. <<>> \in Seq(Tag) /\ S!Reverse(<<>>) = <<>> /\ H \in Seq(Tag)
        BY <1>1, <1>4, Zenon
      <4> QED BY <4>1, CloseIs
    <3> QED BY <1>2, <1>3, <2>2, <3>1, <3>2, Zenon
  <2> QED BY <2>1, <2>2
<1>6. S!Close(<<>> \o H, <<"body", "html">>) = <<>>
  <2>1. Len(<<"body", "html">>) = Len(H)
    OBVIOUS
  <2> QED BY <1>1, <1>4, <2>1, CloseIs
<1> QED
  BY <1>2, <1>5, <1>6, Zenon

------------------------------------------------------------------------------
(* Printing keeps a response whole.                                          *)

PlainlyPrinted(e) ==
  /\ \E first \in {S!Clear, S!Copy} :
       one' = CASE e.style = "INITIALIZE" -> first [] e.style = "FINALIZE" -> one [] OTHER -> S!Grow(one)
  /\ two' = IF e.style = "INITIALIZE" THEN S!Clear ELSE two
  /\ UNCHANGED <<open, announced>>

LEMMA PrintedByProtocol ==
  ASSUME S!processor_print
  PROVE  /\ state = "print" /\ script # <<>> /\ script' = Tail(script)
         /\ links' = links \cup S!Printed(Head(script))
         /\ context' = [context EXCEPT !.previous = Head(script).style]
         /\ UNCHANGED <<state, request, page, response, goal>>
         /\ \/ request.protocol \in S!Http /\ S!processor_print_http(Head(script))
            \/ request.protocol \notin S!Http /\ PlainlyPrinted(Head(script))
<1> DEFINE e == Head(script)
           a == request.protocol
<1>1. /\ state = "print" /\ script # <<>> /\ script' = Tail(script)
      /\ links' = links \cup S!Printed(e)
      /\ context' = [context EXCEPT !.previous = e.style]
      /\ UNCHANGED <<state, request, page, response, goal>>
  BY Zenon DEF S!processor_print
<1>2. \/ a \in S!Http /\ S!processor_print_http(e)
      \/ a = "Gopher" /\ S!processor_print_gopher(e)
      \/ a = "Finger" /\ S!processor_print_finger(e)
      \/ a = "Gemini" /\ S!processor_print_gemini(e)
      \/ a = "Spartan" /\ S!processor_print_spartan(e)
      \/ a = "Nex" /\ S!processor_print_nex(e)
      \/ a = "Text" /\ S!processor_print_text(e)
      \/ a = "Guppy" /\ S!processor_print_guppy(e)
  BY Zenon DEF S!processor_print
<1>3. ASSUME NEW first \in {S!Clear, S!Copy}, NEW separated, S!Plain(e, first, separated)
      PROVE  PlainlyPrinted(e)
  BY <1>3, Zenon DEF S!Plain, PlainlyPrinted
<1>4. ASSUME NEW separated, S!Plain(e, S!Clear, separated) \/ S!Plain(e, S!Copy, separated)
      PROVE  PlainlyPrinted(e)
  BY <1>3, <1>4, Zenon
<1> HIDE DEF e
<1>5. S!processor_print_gopher(e) \/ S!processor_print_finger(e) \/ S!processor_print_nex(e) => PlainlyPrinted(e)
  BY <1>4, Zenon DEF S!processor_print_gopher, S!processor_print_finger, S!processor_print_nex
<1>6. S!processor_print_gemini(e) => PlainlyPrinted(e)
  BY <1>4, Zenon DEF S!processor_print_gemini
<1>7. S!processor_print_text(e) => PlainlyPrinted(e)
  BY <1>4, <1>5, Zenon DEF S!processor_print_text
<1>8. S!processor_print_spartan(e) => PlainlyPrinted(e)
  BY <1>4, <1>6, Zenon DEF S!processor_print_spartan
<1>9. S!processor_print_guppy(e) => PlainlyPrinted(e)
  BY <1>4, <1>6, Zenon DEF S!processor_print_guppy
<1>10. \A b \in {"Gopher", "Finger", "Gemini", "Spartan", "Nex", "Text", "Guppy"} : b \notin S!Http
  BY DEF S!Http
<1>11. \/ a \in S!Http /\ S!processor_print_http(e)
       \/ a \notin S!Http /\ PlainlyPrinted(e)
  <2> HIDE DEF a
  <2>1. a \in {"Gopher", "Finger", "Gemini", "Spartan", "Nex", "Text", "Guppy"} => a \notin S!Http
    BY <1>10
  <2> QED BY <1>2, <1>5, <1>6, <1>7, <1>8, <1>9, <2>1
<1> QED
  BY <1>1, <1>11, Zenon DEF e

LEMMA MiddleStyles ==
  /\ \A e \in Middle : e.style \in Inner \cup {"INTERNAL"}
  /\ FirstEntry.style = "INITIALIZE" /\ LastEntry.style = "FINALIZE"
<1>1. ASSUME NEW e \in Middle PROVE e.style \in Inner \cup {"INTERNAL"}
  <2>1. CASE e \in {S!Entry(s, None) : s \in Inner}
    BY <2>1 DEF S!Entry
  <2>2. CASE e \in {S!Internal(p, l) : p \in S!Pages, l \in Tongues}
    BY <2>2 DEF S!Internal, S!Entry
  <2>3. CASE e \in {Footed(p, l, b) : p \in S!Pages, l \in Tongues, b \in Others}
    BY <2>3 DEF Footed, S!Entry, Inner
  <2> QED BY <2>1, <2>2, <2>3 DEF Middle
<1> QED
  BY <1>1 DEF FirstEntry, LastEntry, S!Entry

LEMMA BuffersKept ==
  /\ \A b \in Buffers : /\ S!Grow(b) \in Buffers /\ S!Grow(b).stale = b.stale
  /\ S!Copy \in Buffers /\ S!Clear \in Buffers /\ ~S!Copy.stale /\ ~S!Clear.stale
<1>1. ASSUME NEW b \in Buffers PROVE S!Grow(b) \in Buffers /\ S!Grow(b).stale = b.stale
  BY DEF Buffers, S!Grow
<1> QED
  BY <1>1 DEF Buffers, S!Copy, S!Clear

LEMMA PrintContext ==
  ASSUME SiteTyped, NEW style \in Inner \cup {"INITIALIZE", "FINALIZE", "INTERNAL"},
         context' = [context EXCEPT !.previous = style]
  PROVE  /\ context' \in Contexts /\ context'.previous = style
         /\ context'.language = context.language /\ context'.requested = context.requested
BY DEF SiteTyped, Contexts

(* HTML.                                                                     *)
LEMMA PrintHttp ==
  ASSUME SiteTyped, PageWhole, state = "print", script # <<>>, script' = Tail(script),
         request.protocol \in S!Http, S!processor_print_http(Head(script)),
         context' = [context EXCEPT !.previous = Head(script).style], UNCHANGED <<state, request, page, response>>
  PROVE  SiteTyped' /\ PageWhole'
<1> DEFINE e == Head(script)
<1>1. /\ two' = IF e.style = "INITIALIZE" THEN S!Copy ELSE S!Grow(two)
      /\ open' = S!Close(S!Close(open, S!ListEnd(e.style)) \o S!Opening(e.style), S!Closing(e.style))
      /\ e.style = "FINALIZE" =>
           one' = S!Copy /\ announced' = [length |-> two'.size, keep_alive |-> request.keep_alive]
      /\ e.style # "FINALIZE" => UNCHANGED <<one, announced>>
  BY Zenon DEF S!processor_print_http
<1>2. context.language \in Tongues /\ (AtBeginning \/ Amid)
  BY DEF PageWhole, Printing, AtEnd
<1>3. one \in Buffers /\ two \in Buffers
  BY DEF SiteTyped
<1>4. one' \in Buffers /\ two' \in Buffers
  <2>1. one' = S!Copy \/ one' = one
    BY <1>1
  <2>2. two' = S!Copy \/ two' = S!Grow(two)
    BY <1>1
  <2> QED BY <1>3, <2>1, <2>2, BuffersKept
<1>5. ASSUME e.style \in Inner \cup {"INITIALIZE", "FINALIZE", "INTERNAL"}
      PROVE  SiteTyped' /\ context'.previous = e.style /\ context'.language \in Tongues
  <2>1. /\ context' \in Contexts /\ context'.previous = e.style
        /\ context'.language = context.language
    BY <1>5, PrintContext
  <2> QED BY <1>2, <1>4, <2>1 DEF SiteTyped
<1>6. CASE AtBeginning
  <2>1. e = FirstEntry /\ Continues(script') /\ e.style = "INITIALIZE"
    BY <1>6, BeginsOn, MiddleStyles DEF AtBeginning
  <2>2. S!ListEnd(e.style) = <<>> /\ S!Opening(e.style) = <<"html", "body">> /\ S!Closing(e.style) = <<>>
    BY <1>6, <2>1 DEF S!ListEnd, S!Opening, S!Closing, AtBeginning
  <2>3. open' = <<"html", "body">>
    BY <1>1, <1>6, <2>2, OpenFirst, Zenon DEF AtBeginning
  <2>4. SiteTyped' /\ context'.previous = "INITIALIZE" /\ context'.language \in Tongues
    BY <1>5, <2>1
  <2>5. ~two'.stale
    BY <1>1, <2>1, BuffersKept
  <2>6. Amid'
    BY <2>1, <2>3, <2>4, <2>5 DEF Amid, Between
  <2> QED BY <2>4, <2>6 DEF PageWhole, Printing, Answered
<1>7. CASE Amid
  <2>1. Continues(script) /\ context.previous # "FINALIZE" /\ ~two.stale /\ open = Between
    BY <1>7 DEF Amid
  <2>2. CASE e = LastEntry /\ Tail(script) = <<>>
    <3>1. e.style = "FINALIZE"
      BY <2>2, MiddleStyles
    <3>2. S!Opening(e.style) = <<>> /\ S!Closing(e.style) = <<"body", "html">>
      BY <3>1 DEF S!Opening, S!Closing
    <3>3. open' = <<>>
      BY <1>1, <2>1, <3>1, <3>2, OpenLast
    <3>4. ~one'.stale /\ ~two'.stale
      BY <1>1, <1>3, <2>1, <3>1, BuffersKept
    <3>5. Announced(request.keep_alive)'
      BY <1>1, <3>1 DEF Announced
    <3>6. AtEnd'
      BY <2>2, <3>3, <3>4, <3>5 DEF AtEnd
    <3> QED BY <1>5, <3>1, <3>6 DEF PageWhole, Printing, Answered
  <2>3. CASE e \in Middle /\ Continues(Tail(script))
    <3>1. e.style \in Inner \cup {"INTERNAL"}
      BY <2>3, MiddleStyles
    <3>2. e.style # "INITIALIZE" /\ e.style # "FINALIZE"
      BY <3>1 DEF Inner
    <3>3. open' = IF e.style = "ITEMIZE" THEN <<"html", "body", "ul">> ELSE <<"html", "body">>
      BY <1>1, <2>1, <3>1, OpenOn
    <3>4. SiteTyped' /\ context'.previous = e.style /\ context'.language \in Tongues
      BY <1>5, <3>1
    <3>5. ~two'.stale
      BY <1>1, <1>3, <2>1, <3>2, BuffersKept
    <3>6. open' = Between'
      BY <3>3, <3>4 DEF Between
    <3>7. Amid'
      BY <2>3, <3>2, <3>4, <3>5, <3>6 DEF Amid
    <3> QED BY <3>4, <3>7 DEF PageWhole, Printing, Answered
  <2> QED BY <2>1, <2>2, <2>3, ContinuesOn
<1> QED
  BY <1>2, <1>6, <1>7

(* The other protocols.                                                      *)
LEMMA PrintPlain ==
  ASSUME SiteTyped, PageWhole, state = "print", script # <<>>, script' = Tail(script),
         request.protocol \notin S!Http, PlainlyPrinted(Head(script)),
         context' = [context EXCEPT !.previous = Head(script).style], UNCHANGED <<state, request, page, response>>
  PROVE  SiteTyped' /\ PageWhole'
<1> DEFINE e == Head(script)
<1>1. /\ e.style = "INITIALIZE" => (one' = S!Clear \/ one' = S!Copy) /\ two' = S!Clear
      /\ e.style = "FINALIZE" => one' = one
      /\ e.style # "INITIALIZE" /\ e.style # "FINALIZE" => one' = S!Grow(one)
      /\ e.style # "INITIALIZE" => two' = two
      /\ open' = open
  BY DEF PlainlyPrinted
<1>2. context.language \in Tongues /\ (AtBeginning \/ Amid)
  BY DEF PageWhole, Printing, AtEnd
<1>3. one \in Buffers /\ two \in Buffers
  BY DEF SiteTyped
<1>4. one' \in Buffers /\ two' \in Buffers
  <2>1. one' = S!Clear \/ one' = S!Copy \/ one' = one \/ one' = S!Grow(one)
    BY <1>1
  <2>2. two' = S!Clear \/ two' = two
    BY <1>1
  <2> QED BY <1>3, <2>1, <2>2, BuffersKept
<1>5. ASSUME e.style \in Inner \cup {"INITIALIZE", "FINALIZE", "INTERNAL"}
      PROVE  SiteTyped' /\ context'.previous = e.style /\ context'.language \in Tongues
  <2>1. /\ context' \in Contexts /\ context'.previous = e.style
        /\ context'.language = context.language
    BY <1>5, PrintContext
  <2> QED BY <1>2, <1>4, <2>1 DEF SiteTyped
<1>6. CASE AtBeginning
  <2>1. e = FirstEntry /\ Continues(script') /\ e.style = "INITIALIZE"
    BY <1>6, BeginsOn, MiddleStyles DEF AtBeginning
  <2>2. SiteTyped' /\ context'.previous = "INITIALIZE" /\ context'.language \in Tongues
    BY <1>5, <2>1
  <2>3. ~one'.stale /\ ~two'.stale /\ open' = <<>>
    BY <1>1, <1>6, <2>1, BuffersKept DEF AtBeginning
  <2>4. Amid'
    BY <2>1, <2>2, <2>3 DEF Amid
  <2> QED BY <2>2, <2>4 DEF PageWhole, Printing, Answered
<1>7. CASE Amid
  <2>1. Continues(script) /\ ~one.stale /\ ~two.stale /\ open = <<>>
    BY <1>7 DEF Amid
  <2>2. CASE e = LastEntry /\ Tail(script) = <<>>
    <3>1. e.style = "FINALIZE"
      BY <2>2, MiddleStyles
    <3>2. AtEnd'
      BY <1>1, <2>1, <2>2, <3>1 DEF AtEnd, Announced
    <3> QED BY <1>5, <3>1, <3>2 DEF PageWhole, Printing, Answered
  <2>3. CASE e \in Middle /\ Continues(Tail(script))
    <3>1. e.style \in Inner \cup {"INTERNAL"}
      BY <2>3, MiddleStyles
    <3>2. e.style # "INITIALIZE" /\ e.style # "FINALIZE"
      BY <3>1 DEF Inner
    <3>3. SiteTyped' /\ context'.previous = e.style /\ context'.language \in Tongues
      BY <1>5, <3>1
    <3>4. ~one'.stale /\ ~two'.stale /\ open' = <<>>
      BY <1>1, <1>3, <2>1, <3>2, BuffersKept
    <3>5. Amid'
      BY <2>3, <3>2, <3>3, <3>4 DEF Amid
    <3> QED BY <3>3, <3>5 DEF PageWhole, Printing, Answered
  <2> QED BY <2>1, <2>2, <2>3, ContinuesOn
<1> QED
  BY <1>2, <1>6, <1>7

LEMMA PrintWhole ==
  ASSUME SiteTyped, PageWhole, S!processor_print
  PROVE  SiteTyped' /\ PageWhole'
<1>1. /\ state = "print" /\ script # <<>> /\ script' = Tail(script)
      /\ context' = [context EXCEPT !.previous = Head(script).style]
      /\ UNCHANGED <<state, request, page, response>>
      /\ \/ request.protocol \in S!Http /\ S!processor_print_http(Head(script))
         \/ request.protocol \notin S!Http /\ PlainlyPrinted(Head(script))
  BY PrintedByProtocol
<1>2. CASE request.protocol \in S!Http /\ S!processor_print_http(Head(script))
  BY <1>1, <1>2, PrintHttp
<1>3. CASE request.protocol \notin S!Http /\ PlainlyPrinted(Head(script))
  BY <1>1, <1>3, PrintPlain
<1> QED
  BY <1>1, <1>2, <1>3

------------------------------------------------------------------------------
(* The other steps keep a response whole.                                    *)

LEMMA TongueNormalized ==
  ASSUME NEW r
  PROVE  /\ S!normalize_question(r).language \in Tongues \cup {None}
         /\ S!normalize_slash(r).language \in Tongues \cup {None}
<1>1. \A w : S!language_get(w) \in Tongues \cup {None}
  BY DEF S!language_get, Tongues
<1>2. S!normalize_question(r).language \in Tongues \cup {None}
  <2> DEFINE t == S!trim_leading_shash(r)
             n == S!SelectInSeq(t, LAMBDA c : c \in {"?", "#"})
             m == S!SelectLastInSeq(t, LAMBDA c : c = "?")
             l == IF t[n] = "?" /\ m + 2 <= Len(t) /\ t[m + 1] = "lang=" THEN S!language_get(t[m + 2]) ELSE None
  <2>1. S!normalize_question(r) =
          IF n = 0 THEN [resource |-> S!trim_trailing_shash(t), language |-> None]
          ELSE [resource |-> S!trim_trailing_shash(SubSeq(t, 1, n - 1)), language |-> l]
    BY Zenon DEF S!normalize_question
  <2>2. l \in Tongues \cup {None}
    BY <1>1
  <2> HIDE DEF t, n, m, l
  <2> QED BY <2>1, <2>2
<1>3. S!normalize_slash(r).language \in Tongues \cup {None}
  <2> DEFINE t == S!trim_trailing_shash(S!trim_leading_shash(r))
             n == S!SelectLastInSeq(t, LAMBDA c : c = "/")
             l == IF Len(t) = n + 1 /\ t[n + 1] # "english" THEN S!language_get(t[n + 1]) ELSE None
  <2>1. S!normalize_slash(r) =
          IF l = None THEN [resource |-> t, language |-> None]
          ELSE [resource |-> S!trim_trailing_shash(SubSeq(t, 1, n)), language |-> l]
    BY Zenon DEF S!normalize_slash
  <2>2. l \in Tongues \cup {None}
    BY <1>1
  <2> HIDE DEF t, n, l
  <2> QED BY <2>1, <2>2
<1> QED
  BY <1>2, <1>3

LEMMA TongueOfPage ==
  ASSUME SiteTyped
  PROVE  /\ S!Normalized.language \in Tongues \cup {None}
         /\ S!PageLanguage(S!Normalized.language) \in Tongues
<1>1. S!Normalized.language \in Tongues \cup {None}
  BY TongueNormalized DEF S!Normalized
<1> QED
  BY <1>1 DEF SiteTyped, S!PageLanguage, S!IMPLICIT_LANGUAGE, Tongues

LEMMA OneRequest ==
  ASSUME NEW a, NEW r, NEW methods, NEW x \in S!Requests(a, r, methods)
  PROVE  x.protocol = a /\ x.resource = r /\ x.method \in methods /\ x.language \in Tongues \cup {None}
<1>1. (IF a \in S!Http THEN {None, "e", "d"} ELSE {None}) \subseteq Tongues \cup {None}
  BY DEF Tongues
<1> QED
  BY <1>1 DEF S!Requests

LEMMA SiteBegins ==
  ASSUME S!SiteAssumption, S!Init
  PROVE  SiteInv
<1>1. PICK a \in SiteProtocols, r \in TypedResources :
        request \in S!Requests(a, r, IF a \in S!Http THEN {"get", "post"} ELSE {None})
  BY Zenon DEF S!Init
<1>3. request.protocol \in SiteProtocols /\ request.language \in Tongues \cup {None}
  <2> DEFINE methods == IF a \in S!Http THEN {"get", "post"} ELSE {None}
  <2>1. request \in S!Requests(a, r, methods)
    BY <1>1
  <2> HIDE DEF methods
  <2> QED BY <2>1, OneRequest
<1>4. /\ state = "request" /\ page = None /\ open = <<>> /\ links = {} /\ one = S!Clear /\ two = S!Clear
      /\ context = [language |-> None, requested |-> None, previous |-> "INITIALIZE"] /\ goal = None
  BY Zenon DEF S!Init
<1>5. context \in Contexts
  BY <1>4 DEF Contexts
<1>6. SiteTyped
  BY <1>3, <1>4, <1>5, BuffersKept DEF SiteTyped, SiteStates
<1>7. PageWhole
  BY <1>4 DEF PageWhole, Printing, Answered
<1> QED
  BY <1>4, <1>6, <1>7 DEF SiteInv, LinksResolve, GoalReached

LEMMA GenericWhole ==
  ASSUME SiteTyped, PageWhole, S!processor_generic
  PROVE  SiteTyped' /\ PageWhole'
<1> DEFINE l == S!PageLanguage(S!Normalized.language)
<1>1. PICK p \in S!PageOf(S!Normalized.resource) :
        /\ page' = p /\ script' = S!Script(request.protocol, l, p)
        /\ context' = [language |-> l, requested |-> S!Normalized.language, previous |-> "INITIALIZE"]
  BY Zenon DEF S!processor_generic
<1>2. /\ state' = "print" /\ open' = <<>>
      /\ UNCHANGED <<request, one, two>>
  BY Zenon DEF S!processor_generic
<1>3. p \in S!Pages
  BY <1>1 DEF S!PageOf
<1>4. S!Normalized.language \in Tongues \cup {None} /\ l \in Tongues
  BY TongueOfPage
<1> HIDE DEF l
<1>5. context' \in Contexts /\ context'.previous = "INITIALIZE" /\ context'.language = l
  BY <1>1, <1>4 DEF Contexts
<1>6. SiteTyped'
  BY <1>1, <1>2, <1>3, <1>5 DEF SiteTyped, SiteStates
<1>7. Begins(script')
  BY <1>1, <1>3, <1>4, ScriptIs
<1>8. AtBeginning'
  BY <1>2, <1>5, <1>7 DEF AtBeginning
<1> QED
  BY <1>2, <1>4, <1>5, <1>6, <1>8 DEF PageWhole, Printing, Answered

LEMMA ProcessWhole ==
  ASSUME SiteTyped, PageWhole, S!processor_process
  PROVE  SiteTyped' /\ PageWhole'
<1>1. /\ state = "print" /\ script = <<>> /\ state' = "sent"
      /\ response' = [status |-> "200", keep_alive |-> request.keep_alive]
      /\ UNCHANGED <<request, context, page, one, two, open, announced>>
  BY Zenon DEF S!processor_process
<1>2. AtEnd
  BY <1>1, ContinuesOn, BeginsOn DEF PageWhole, Printing, AtBeginning, Amid
<1>3. SiteTyped'
  BY <1>1 DEF SiteTyped, SiteStates
<1>4. Answered'
  BY <1>1, <1>2 DEF Answered, AtEnd, Announced
<1> QED
  BY <1>1, <1>3, <1>4 DEF PageWhole, Printing

LEMMA SpecificWhole ==
  ASSUME SiteTyped, PageWhole, S!processor_specific
  PROVE  SiteTyped' /\ PageWhole'
<1>1. CASE S!processor_process_http
  <2>1. /\ request.protocol \in S!Http /\ state' = "sent" /\ page' = None /\ open' = <<>>
        /\ one' = S!Copy /\ UNCHANGED <<request, context>>
        /\ announced' = [length |-> two'.size, keep_alive |-> response'.keep_alive]
        /\ two' = [S!Copy EXCEPT !.size = IF S!Robots THEN 1 ELSE 3]
    BY <1>1, Zenon DEF S!processor_process_http, S!Specific
  <2>2. two' \in Buffers /\ ~two'.stale
    BY <2>1 DEF Buffers, S!Copy
  <2>3. SiteTyped'
    BY <2>1, <2>2, BuffersKept DEF SiteTyped, SiteStates
  <2>4. Answered'
    BY <2>1, <2>2, BuffersKept DEF Answered, Announced
  <2> QED BY <2>1, <2>3, <2>4 DEF PageWhole, Printing
<1>2. CASE S!processor_process_plain
  <2>1. /\ request.protocol \notin S!Http /\ state' = "sent" /\ page' = None /\ open' = <<>>
        /\ UNCHANGED <<request, context, one, two>>
    BY <1>2, Zenon DEF S!processor_process_plain, S!Specific
  <2>2. SiteTyped'
    BY <2>1 DEF SiteTyped, SiteStates
  <2>3. Answered'
    BY <2>1 DEF Answered, Announced
  <2> QED BY <2>1, <2>2, <2>3 DEF PageWhole, Printing
<1> QED
  BY <1>1, <1>2 DEF S!processor_specific

(* What the visitor asks for next.                                           *)
LEMMA FollowedBy ==
  ASSUME NEW link, S!Follow(link)
  PROVE  /\ state = "sent" /\ link.protocol \in SiteProtocols /\ state' = "request"
         /\ request'.protocol = link.protocol /\ request'.resource = link.resource
         /\ request'.language \in Tongues \cup {None}
         /\ link.internal => request'.language = request.language
         /\ link.protocol \in S!Http => request'.method = "get"
         /\ goal' = [link EXCEPT !.resource = <<>>]
         /\ page' = None /\ links' = {} /\ open' = <<>> /\ context' = context
         /\ one' = [stale |-> TRUE, size |-> 0] /\ two' = [stale |-> two.size > 0, size |-> 0]
<1> DEFINE methods == {IF link.protocol \in S!Http THEN "get" ELSE None}
<1>1. PICK r \in S!Requests(link.protocol, link.resource, methods) :
        (link.internal => r.language = request.language) /\ request' = r
  BY Zenon DEF S!Follow
<1>2. /\ state = "sent" /\ link.protocol \in SiteProtocols /\ state' = "request"
      /\ goal' = [link EXCEPT !.resource = <<>>]
      /\ page' = None /\ links' = {} /\ open' = <<>> /\ context' = context
      /\ one' = [stale |-> TRUE, size |-> 0] /\ two' = [stale |-> two.size > 0, size |-> 0]
  BY Zenon DEF S!Follow
<1>3. /\ r.protocol = link.protocol /\ r.resource = link.resource /\ r.method \in methods
      /\ r.language \in Tongues \cup {None}
  BY OneRequest
<1>4. link.protocol \in S!Http => r.method = "get"
  BY <1>3
<1> HIDE DEF methods
<1> QED
  BY <1>1, <1>2, <1>3, <1>4

LEMMA FollowWhole ==
  ASSUME SiteTyped, PageWhole, NEW link, S!Follow(link)
  PROVE  SiteTyped' /\ PageWhole'
<1>1. /\ state' = "request" /\ request'.protocol \in SiteProtocols
      /\ request'.language \in Tongues \cup {None}
      /\ page' = None /\ open' = <<>> /\ context' = context
      /\ one' = [stale |-> TRUE, size |-> 0] /\ two' = [stale |-> two.size > 0, size |-> 0]
  BY FollowedBy
<1>2. one' \in Buffers /\ two' \in Buffers
  BY <1>1 DEF Buffers
<1>3. SiteTyped'
  BY <1>1, <1>2 DEF SiteTyped, SiteStates
<1> QED
  BY <1>1, <1>3 DEF PageWhole, Printing, Answered

------------------------------------------------------------------------------
(* What the resource of a link is normalized to.                             *)

LEMMA LeastIs ==
  ASSUME NEW I, I \subseteq Int, NEW n \in I, \A i \in I : n <= i
  PROVE  S!Min(I) = n
<1> DEFINE Least(x) == x \in I /\ \A y \in I : x =< y
<1>1. Least(n)
  OBVIOUS
<1>2. \A x : Least(x) => x = n
  OBVIOUS
<1>3. S!Min(I) = CHOOSE x : Least(x)
  BY DEF S!Min
<1> HIDE DEF Least
<1> QED
  BY <1>1, <1>2, <1>3

LEMMA GreatestIs ==
  ASSUME NEW I, I \subseteq Int, NEW n \in I, \A i \in I : n >= i
  PROVE  S!Max(I) = n
<1> DEFINE Top(x) == x \in I /\ \A y \in I : x >= y
<1>1. Top(n)
  OBVIOUS
<1>2. \A x : Top(x) => x = n
  OBVIOUS
<1>3. S!Max(I) = CHOOSE x : Top(x)
  BY DEF S!Max
<1> HIDE DEF Top
<1> QED
  BY <1>1, <1>2, <1>3

(* Slashes are removed from both ends.                                       *)
LEMMA LeadTrimmed ==
  ASSUME NEW core \in Seq(Word), core # <<>> => core[1] # "/"
  PROVE  S!trim_leading_shash(core) = core /\ S!trim_leading_shash(<<"/">> \o core) = core
<1>1. "/" \in Word
  BY DEF Word
<1>2. ASSUME NEW r \in Seq(Word)
      PROVE  S!trim_leading_shash(r) =
               LET I == {i \in 1 .. Len(r) : r[i] # "/"}
                   n == IF I # {} THEN S!Min(I) ELSE 0
               IN  IF n = 0 THEN <<>> ELSE SubSeq(r, n, Len(r))
  BY Zenon DEF S!trim_leading_shash, S!SelectInSeq
<1>3. S!trim_leading_shash(core) = core
  <2> DEFINE I == {i \in 1 .. Len(core) : core[i] # "/"}
  <2>1. CASE core = <<>>
    <3>1. I = {}
      BY <2>1
    <3> QED BY <1>2, <2>1, <3>1
  <2>2. CASE core # <<>>
    <3>1. Len(core) \in Nat /\ Len(core) >= 1
      BY <2>2
    <3>2. 1 \in I /\ I \subseteq Int /\ \A i \in I : 1 <= i
      BY <2>2, <3>1
    <3>3. S!Min(I) = 1
      BY <3>2, LeastIs
    <3>4. SubSeq(core, 1, Len(core)) = core
      BY SubSeqFull
    <3>5. I # {}
      BY <3>2
    <3>6. S!trim_leading_shash(core) = SubSeq(core, 1, Len(core))
      BY <1>2, <3>3, <3>5
    <3> QED BY <3>4, <3>6
  <2> QED BY <2>1, <2>2
<1>4. S!trim_leading_shash(<<"/">> \o core) = core
  <2> DEFINE r == <<"/">> \o core
             I == {i \in 1 .. Len(r) : r[i] # "/"}
  <2>1. /\ r \in Seq(Word) /\ Len(r) = Len(core) + 1 /\ Len(core) \in Nat /\ r[1] = "/"
        /\ \A i \in 1 .. Len(core) : r[i + 1] = core[i]
    BY <1>1
  <2> HIDE DEF r
  <2>2. CASE core = <<>>
    <3>1. Len(r) = 1
      BY <2>1, <2>2
    <3>2. I = {}
      BY <2>1, <3>1
    <3> QED BY <1>2, <2>1, <2>2, <3>2 DEF r
  <2>3. CASE core # <<>>
    <3>1. Len(core) >= 1
      BY <2>1, <2>3
    <3>2. r[2] = core[1]
      BY <2>1, <3>1
    <3>3. 2 \in I /\ I \subseteq Int /\ \A i \in I : 2 <= i
      <4>1. 2 \in I
        BY <2>1, <2>3, <3>1, <3>2
      <4>2. \A i \in I : i \in Int /\ i >= 1 /\ i # 1
        BY <2>1
      <4> QED BY <4>1, <4>2
    <3>4. S!Min(I) = 2
      BY <3>3, LeastIs
    <3>5. I # {}
      BY <3>3
    <3>a. r \in Seq(Word)
      BY <2>1
    <3>b. S!trim_leading_shash(r) =
            IF (IF I # {} THEN S!Min(I) ELSE 0) = 0 THEN <<>>
            ELSE SubSeq(r, IF I # {} THEN S!Min(I) ELSE 0, Len(r))
      BY <1>2, <3>a, Zenon
    <3>6. S!trim_leading_shash(r) = SubSeq(r, 2, Len(r))
      <4> HIDE DEF I
      <4> QED BY <3>4, <3>5, <3>b
    <3>7. /\ SubSeq(r, 2, Len(r)) \in Seq(Word)
          /\ Len(SubSeq(r, 2, Len(r))) = IF 2 <= Len(r) THEN Len(r) - 2 + 1 ELSE 0
          /\ \A i \in 1 .. Len(r) - 2 + 1 : SubSeq(r, 2, Len(r))[i] = r[2 + i - 1]
      <4>1. \A i \in 2 .. Len(r) : r[i] \in Word
        BY <2>1
      <4>2. 2 \in Int /\ Len(r) \in Int
        BY <2>1
      <4> QED BY <4>1, <4>2, SubSeqProperties
    <3>8. Len(SubSeq(r, 2, Len(r))) = Len(core) /\ Len(r) - 2 + 1 = Len(core)
      BY <2>1, <3>1, <3>7
    <3>9. \A i \in 1 .. Len(core) : 2 + i - 1 = i + 1
      BY <2>1
    <3>10. \A i \in 1 .. Len(core) : SubSeq(r, 2, Len(r))[i] = core[i]
      BY <2>1, <3>7, <3>8, <3>9
    <3>11. SubSeq(r, 2, Len(r)) = core
      BY <3>7, <3>8, <3>10, SeqEqual
    <3> QED BY <3>6, <3>11 DEF r
  <2> QED BY <2>2, <2>3
<1> QED
  BY <1>3, <1>4

LEMMA TrailTrimmed ==
  ASSUME NEW core \in Seq(Word), core # <<>> => core[Len(core)] # "/"
  PROVE  /\ S!trim_trailing_shash(core) = core
         /\ core # <<>> => S!trim_trailing_shash(core \o <<"/">>) = core
<1>1. "/" \in Word
  BY DEF Word
<1>2. ASSUME NEW r \in Seq(Word)
      PROVE  S!trim_trailing_shash(r) =
               LET I == {i \in 1 .. Len(r) : r[i] # "/"}
               IN  SubSeq(r, 1, IF I # {} THEN S!Max(I) ELSE 0)
  BY Zenon DEF S!trim_trailing_shash, S!SelectLastInSeq
<1>3. S!trim_trailing_shash(core) = core
  <2> DEFINE I == {i \in 1 .. Len(core) : core[i] # "/"}
  <2>1. CASE core = <<>>
    <3>1. I = {}
      BY <2>1
    <3>2. SubSeq(core, 1, 0) = <<>>
      BY SubSeqEmpty
    <3>3. S!trim_trailing_shash(core) = SubSeq(core, 1, 0)
      BY <1>2, <3>1
    <3> QED BY <2>1, <3>2, <3>3
  <2>2. CASE core # <<>>
    <3>1. Len(core) \in Nat /\ Len(core) >= 1
      BY <2>2
    <3>2. Len(core) \in I /\ I \subseteq Int /\ \A i \in I : Len(core) >= i
      BY <2>2, <3>1
    <3>3. S!Max(I) = Len(core)
      BY <3>2, GreatestIs
    <3>4. SubSeq(core, 1, Len(core)) = core
      BY SubSeqFull
    <3>5. I # {}
      BY <3>2
    <3>6. S!trim_trailing_shash(core) = SubSeq(core, 1, Len(core))
      BY <1>2, <3>3, <3>5
    <3> QED BY <3>4, <3>6
  <2> QED BY <2>1, <2>2
<1>4. ASSUME core # <<>> PROVE S!trim_trailing_shash(core \o <<"/">>) = core
  <2> DEFINE r == core \o <<"/">>
             I == {i \in 1 .. Len(r) : r[i] # "/"}
             n == Len(core)
  <2>1. /\ r \in Seq(Word) /\ Len(r) = n + 1 /\ n \in Nat /\ n >= 1 /\ r[n + 1] = "/"
        /\ \A i \in 1 .. n : r[i] = core[i]
    BY <1>1, <1>4
  <2>2. r[n] = core[n] /\ core[n] # "/"
    BY <1>4, <2>1
  <2> HIDE DEF r, n
  <2>3. n \in I /\ I \subseteq Int /\ \A i \in I : n >= i
    <3>1. n \in I
      BY <2>1, <2>2
    <3>2. \A i \in I : i \in Int /\ i <= n + 1 /\ i # n + 1
      BY <2>1
    <3> QED BY <2>1, <3>1, <3>2
  <2>4. S!Max(I) = n
    BY <2>3, GreatestIs
  <2>5. I # {}
    BY <2>3
  <2>6. S!trim_trailing_shash(r) = SubSeq(r, 1, n)
    BY <1>2, <2>1, <2>4, <2>5
  <2>7. /\ SubSeq(r, 1, n) \in Seq(Word)
        /\ Len(SubSeq(r, 1, n)) = IF 1 <= n THEN n - 1 + 1 ELSE 0
        /\ \A i \in 1 .. n - 1 + 1 : SubSeq(r, 1, n)[i] = r[1 + i - 1]
    <3>1. \A i \in 1 .. n : r[i] \in Word
      BY <2>1
    <3>2. 1 \in Int /\ n \in Int
      BY <2>1
    <3> QED BY <3>1, <3>2, SubSeqProperties
  <2>8. Len(SubSeq(r, 1, n)) = n /\ n - 1 + 1 = n
    BY <2>1, <2>7
  <2>9. \A i \in 1 .. n : 1 + i - 1 = i
    BY <2>1
  <2>10. \A i \in 1 .. n : SubSeq(r, 1, n)[i] = core[i]
    BY <2>1, <2>7, <2>8, <2>9
  <2>11. SubSeq(r, 1, n) = core
    BY <2>7, <2>8, <2>10, SeqEqual DEF n
  <2> QED BY <2>6, <2>11 DEF r
<1> QED
  BY <1>3, <1>4

LEMMA TongueCodes ==
  ASSUME S!SiteAssumption, NEW l \in Tongues
  PROVE  /\ S!Code[l] \in {"en", "de"} /\ S!language_get(S!Code[l]) = l /\ S!Code[l] # "english"
         /\ S!Code[l] \in Word /\ S!Code[l] # "/" /\ l # None
BY DEF S!SiteAssumption, Tongues, S!Code, S!language_get, Word

LEMMA PageWords ==
  ASSUME NEW p \in S!Pages
  PROVE  /\ p \in Word /\ p \notin {"/", "?", "#", "lang=", "en", "de", "english"}
         /\ S!language_get(p) = None
BY DEF S!Pages, Word, S!language_get

LEMMA OneWord ==
  ASSUME NEW a \in Word
  PROVE  <<a>> \in Seq(Word) /\ Len(<<a>>) = 1 /\ <<a>>[1] = a /\ <<a>> # <<>>
OBVIOUS

LEMMA TwoWords ==
  ASSUME NEW a \in Word, NEW b \in Word
  PROVE  <<a, b>> \in Seq(Word) /\ <<a, b>> = <<a>> \o <<b>>
<1> DEFINE s == <<a, b>>
           t == <<a>> \o <<b>>
<1>1. s \in Seq(Word) /\ Len(s) = 2 /\ s[1] = a /\ s[2] = b
  OBVIOUS
<1>2. t \in Seq(Word) /\ Len(t) = 2 /\ t[1] = a /\ t[2] = b
  OBVIOUS
<1> HIDE DEF s, t
<1>3. \A i \in 1 .. Len(s) : s[i] = t[i]
  <2>1. \A i \in 1 .. 2 : i = 1 \/ i = 2
    OBVIOUS
  <2> QED BY <1>1, <1>2, <2>1
<1>4. s = t
  BY <1>1, <1>2, <1>3, SeqEqual
<1> QED
  BY <1>1, <1>4 DEF s, t

LEMMA ThreeWords ==
  ASSUME NEW a \in Word, NEW b \in Word, NEW c \in Word
  PROVE  <<a, b, c>> \in Seq(Word) /\ <<a, b, c>> = <<a>> \o <<b, c>>
<1> DEFINE s == <<a, b, c>>
           t == <<a>> \o <<b, c>>
<1>1. s \in Seq(Word) /\ Len(s) = 3 /\ s[1] = a /\ s[2] = b /\ s[3] = c
  OBVIOUS
<1>2. t \in Seq(Word) /\ Len(t) = 3 /\ t[1] = a /\ t[2] = b /\ t[3] = c
  OBVIOUS
<1> HIDE DEF s, t
<1>3. \A i \in 1 .. Len(s) : s[i] = t[i]
  <2>1. \A i \in 1 .. 3 : i = 1 \/ i = 2 \/ i = 3
    OBVIOUS
  <2> QED BY <1>1, <1>2, <2>1
<1>4. s = t
  BY <1>1, <1>2, <1>3, SeqEqual
<1> QED
  BY <1>1, <1>4 DEF s, t

(* Between the slashes of an address: a page, a language, or both.           *)
Core(p, l, named) ==
  IF named THEN IF p = "" THEN <<S!Code[l]>> ELSE <<p, "/", S!Code[l]>> ELSE S!Name(p)
Normal(p, l, named) == [resource |-> S!Name(p), language |-> IF named THEN l ELSE None]
LEMMA SlashCore ==
  ASSUME S!SiteAssumption, NEW p \in S!Pages, NEW l \in Tongues, NEW named \in BOOLEAN, NEW r,
         S!trim_trailing_shash(S!trim_leading_shash(r)) = Core(p, l, named)
  PROVE  S!normalize_slash(r) = Normal(p, l, named)
<1> DEFINE t == S!trim_trailing_shash(S!trim_leading_shash(r))
           I == {i \in 1 .. Len(t) : t[i] = "/"}
           n == IF I # {} THEN S!Max(I) ELSE 0
           w == S!Code[l]
           found == IF Len(t) = n + 1 /\ t[n + 1] # "english" THEN S!language_get(t[n + 1]) ELSE None
<1>1. S!normalize_slash(r) =
        IF found = None THEN [resource |-> t, language |-> None]
        ELSE [resource |-> S!trim_trailing_shash(SubSeq(t, 1, n)), language |-> found]
  BY Zenon DEF S!normalize_slash, S!SelectLastInSeq
<1>2. /\ w \in {"en", "de"} /\ S!language_get(w) = l /\ w # "english" /\ w \in Word /\ w # "/" /\ l # None
  BY TongueCodes
<1>3. p \in Word /\ p # "/" /\ p # "english" /\ S!language_get(p) = None /\ "/" \in Word
  BY PageWords DEF Word
<1>4. t = Core(p, l, named)
  OBVIOUS
<1> HIDE DEF t
<1>5. S!trim_trailing_shash(<<>>) = <<>> /\ SubSeq(t, 1, 0) = <<>>
  <2>1. S!trim_trailing_shash(<<>>) = <<>>
    <3>1. <<>> \in Seq(Word)
      OBVIOUS
    <3> QED BY <3>1, TrailTrimmed
  <2> QED BY <2>1, SubSeqEmpty
<1>6. CASE ~named /\ p = ""
  <2>1. t = <<>> /\ S!Name(p) = <<>>
    BY <1>4, <1>6, Zenon DEF S!Name, Core
  <2>2. I = {} /\ Len(t) = 0
    BY <2>1
  <2>3. found = None
    BY <2>2
  <2> HIDE DEF found
  <2> QED BY <1>1, <1>6, <2>1, <2>3 DEF Normal
<1>7. CASE ~named /\ p # ""
  <2>1. t = <<p>> /\ S!Name(p) = <<p>>
    BY <1>4, <1>7, Zenon DEF S!Name, Core
  <2>2. I = {} /\ t[1] = p
    BY <1>3, <2>1
  <2>3. found = None
    BY <1>3, <2>2
  <2> HIDE DEF found
  <2> QED BY <1>1, <1>7, <2>1, <2>3 DEF Normal
<1>8. CASE named /\ p = ""
  <2>1. t = <<w>> /\ S!Name(p) = <<>>
    BY <1>4, <1>8, Zenon DEF S!Name, Core
  <2> HIDE DEF w
  <2>2. I = {} /\ t[1] = w /\ Len(t) = 1
    BY <1>2, <2>1
  <2>3. n = 0
    BY <2>2
  <2>4. found = l
    BY <1>2, <2>2, <2>3
  <2> HIDE DEF found, n
  <2> QED BY <1>1, <1>2, <1>5, <1>8, <2>1, <2>3, <2>4 DEF Normal
<1>9. CASE named /\ p # ""
  <2>1. t = <<p, "/", w>> /\ S!Name(p) = <<p>>
    BY <1>4, <1>9, Zenon DEF S!Name, Core
  <2> HIDE DEF w
  <2>2. t[1] = p /\ t[2] = "/" /\ t[3] = w /\ Len(t) = 3
    BY <2>1
  <2>3. I = {2}
    BY <1>2, <1>3, <2>2
  <2>4. n = 2
    <3>1. S!Max(I) = 2
      BY <2>3, GreatestIs
    <3> QED BY <2>3, <3>1
  <2>5. found = l
    BY <1>2, <2>2, <2>4
  <2>6. SubSeq(t, 1, 2) = <<p>> \o <<"/">>
    <3> DEFINE s == SubSeq(t, 1, 2)
               u == <<p>> \o <<"/">>
    <3>1. u \in Seq(Word) /\ Len(u) = 2 /\ u[1] = p /\ u[2] = "/"
      BY <1>3
    <3>2. \A i \in 1 .. 2 : t[i] \in Word
      BY <1>3, <2>2
    <3>3. /\ s \in Seq(Word) /\ Len(s) = IF 1 <= 2 THEN 2 - 1 + 1 ELSE 0
          /\ \A i \in 1 .. 2 - 1 + 1 : s[i] = t[1 + i - 1]
      BY <3>2, SubSeqProperties
    <3>4. Len(s) = 2 /\ s[1] = p /\ s[2] = "/"
      BY <2>2, <3>3
    <3> HIDE DEF s, u
    <3>5. \A i \in 1 .. Len(s) : s[i] = u[i]
      BY <3>1, <3>4
    <3>6. s = u
      BY <3>1, <3>3, <3>4, <3>5, SeqEqual
    <3> QED BY <3>6 DEF s, u
  <2>7. S!trim_trailing_shash(<<p>> \o <<"/">>) = <<p>>
    <3>1. <<p>> \in Seq(Word) /\ <<p>> # <<>> /\ <<p>>[Len(<<p>>)] # "/"
      BY <1>3, OneWord
    <3> QED BY <3>1, TrailTrimmed
  <2> HIDE DEF found, n
  <2> QED BY <1>1, <1>2, <1>9, <2>1, <2>4, <2>5, <2>6, <2>7 DEF Normal
<1> QED
  BY <1>6, <1>7, <1>8, <1>9

(* The tail of an address, and the address, in the protocols of slashes.     *)
SlashTail(l, named) == IF named THEN <<"/", S!Code[l]>> ELSE <<>>
LEMMA SlashResolves ==
  ASSUME S!SiteAssumption, NEW p \in S!Pages, NEW l \in Tongues, NEW named \in BOOLEAN, NEW r,
         \/ r = S!Name(p) \o SlashTail(l, named)
         \/ r = S!Slashed(p) \o SlashTail(l, named)
         \/ r = S!Slashed(p) \o SlashTail(l, named) \o <<"/">>
  PROVE  /\ r \in Seq(Word)
         /\ S!normalize_slash(r) = Normal(p, l, named)
<1> DEFINE w == S!Code[l]
           tail == SlashTail(l, named)
           core == Core(p, l, named)
           slash == <<"/">>
<1>1. w \in Word /\ w # "/" /\ p \in Word /\ p # "/" /\ "/" \in Word
  BY TongueCodes, PageWords DEF Word
<1>0. core = IF named THEN IF p = "" THEN <<w>> ELSE <<p, "/", w>> ELSE S!Name(p)
  BY Zenon DEF Core
<1> HIDE DEF w, core
<1>2. slash \in Seq(Word) /\ <<w>> \in Seq(Word) /\ <<p>> \in Seq(Word) /\ <<p, "/", w>> \in Seq(Word) /\ <<>> \in Seq(Word)
      /\ <<"/", w>> \in Seq(Word)
  BY <1>1
<1>3. core \in Seq(Word) /\ tail \in Seq(Word)
  <2>1. core \in {<<w>>, <<p, "/", w>>, <<p>>, <<>>}
    BY <1>0, Zenon DEF S!Name
  <2>2. tail \in {<<>>, <<"/", w>>}
    BY Zenon DEF SlashTail, w
  <2> QED BY <1>2, <2>1, <2>2
<1>4. core # <<>> => core[1] # "/" /\ core[Len(core)] # "/"
  <2>0. core = <<w>> \/ core = <<p, "/", w>> \/ core = <<p>> \/ core = <<>>
    BY <1>0, Zenon DEF S!Name
  <2>1. CASE core = <<w>>
    BY <1>1, <2>1
  <2>2. CASE core = <<p, "/", w>>
    BY <1>1, <2>2
  <2>3. CASE core = <<p>>
    BY <1>1, <2>3
  <2> QED BY <2>0, <2>1, <2>2, <2>3
<1>5. S!Name(p) \o tail = core \/ S!Name(p) \o tail = slash \o core
  <2>1. CASE ~named
    <3>1. core = S!Name(p) /\ tail = <<>>
      BY <1>0, <2>1, Zenon DEF SlashTail
    <3> QED BY <1>3, <3>1, ConcatEmptySeq
  <2>2. CASE named /\ p = ""
    <3>1. S!Name(p) = <<>> /\ tail = <<"/", w>> /\ core = <<w>>
      BY <1>0, <2>2, Zenon DEF SlashTail, S!Name, w
    <3>2. <<"/", w>> = slash \o <<w>>
      BY <1>1, TwoWords, ThreeWords
    <3>3. <<>> \o tail = tail
      BY <1>3, ConcatEmptySeq
    <3> QED BY <3>1, <3>2, <3>3
  <2>3. CASE named /\ p # ""
    <3>1. S!Name(p) = <<p>> /\ tail = <<"/", w>> /\ core = <<p, "/", w>>
      BY <1>0, <2>3, Zenon DEF SlashTail, S!Name, w
    <3>2. <<p, "/", w>> = <<p>> \o <<"/", w>>
      BY <1>1, TwoWords, ThreeWords
    <3> QED BY <3>1, <3>2
  <2> QED BY <2>1, <2>2, <2>3
<1>6. \/ core # <<>> /\ S!Slashed(p) \o tail = slash \o core
      \/ core = <<>> /\ S!Slashed(p) \o tail = <<>>
  <2>0. <<w>> # <<>> /\ <<p>> # <<>> /\ <<p, "/", w>> # <<>>
    OBVIOUS
  <2>1. CASE p = ""
    <3>1. S!Slashed(p) = <<>> /\ S!Name(p) = <<>>
      BY <1>0, <2>1, Zenon DEF S!Slashed, S!Name
    <3>2. CASE ~named
      <4>1. tail = <<>> /\ core = <<>>
        BY <1>0, <3>1, <3>2, Zenon DEF SlashTail
      <4>2. <<>> \o tail = <<>>
        BY <1>3, <4>1, ConcatEmptySeq
      <4> QED BY <3>1, <4>1, <4>2
    <3>3. CASE named
      <4>1. tail = <<"/", w>> /\ core = <<w>>
        BY <1>0, <2>1, <3>3, Zenon DEF SlashTail, w
      <4>2. <<"/", w>> = slash \o <<w>>
        BY <1>1, TwoWords, ThreeWords
      <4>3. <<>> \o tail = tail
        BY <1>3, ConcatEmptySeq
      <4> QED BY <2>0, <3>1, <4>1, <4>2, <4>3
    <3> QED BY <3>2, <3>3
  <2>2. CASE p # ""
    <3>1. S!Slashed(p) = <<"/", p>> /\ S!Name(p) = <<p>>
      BY <1>0, <2>2, Zenon DEF S!Slashed, S!Name
    <3>2. <<"/", p>> = slash \o <<p>>
      BY <1>1, TwoWords, ThreeWords
    <3>3. (slash \o <<p>>) \o tail = slash \o (<<p>> \o tail)
      BY <1>2, <1>3, ConcatAssociative
    <3>4. <<p>> \o tail = core
      <4>1. CASE ~named
        <5>1. core = <<p>> /\ tail = <<>>
          BY <1>0, <3>1, <4>1, Zenon DEF SlashTail
        <5> QED BY <1>2, <5>1, ConcatEmptySeq
      <4>2. CASE named
        <5>1. tail = <<"/", w>> /\ core = <<p, "/", w>>
          BY <1>0, <2>2, <4>2, Zenon DEF SlashTail, w
        <5>2. <<p, "/", w>> = <<p>> \o <<"/", w>>
          BY <1>1, TwoWords, ThreeWords
        <5> QED BY <5>1, <5>2
      <4> QED BY <4>1, <4>2
    <3>5. core # <<>>
      BY <1>0, <2>0, <2>2, <3>1, Zenon
    <3> QED BY <3>1, <3>2, <3>3, <3>4, <3>5
  <2> QED BY <2>1, <2>2
<1> HIDE DEF tail, slash
<1>7. \/ r = core \/ r = slash \o core \/ (core # <<>> /\ r = slash \o (core \o slash))
  <2>1. CASE r = S!Name(p) \o tail
    BY <1>5, <2>1
  <2>2. CASE r = S!Slashed(p) \o tail
    BY <1>6, <2>2
  <2>3. CASE r = S!Slashed(p) \o tail \o slash
    <3>1. CASE core # <<>> /\ S!Slashed(p) \o tail = slash \o core
      <4>1. (slash \o core) \o slash = slash \o (core \o slash)
        BY <1>2, <1>3, ConcatAssociative
      <4> QED BY <2>3, <3>1, <4>1
    <3>2. CASE S!Slashed(p) \o tail = <<>> /\ core = <<>>
      <4>1. <<>> \o slash = slash /\ slash \o <<>> = slash
        BY <1>2, ConcatEmptySeq
      <4> QED BY <2>3, <3>2, <4>1
    <3> QED BY <1>6, <3>1, <3>2
  <2> QED BY <2>1, <2>2, <2>3 DEF tail, slash
<1>8. S!trim_trailing_shash(S!trim_leading_shash(r)) = core
  <2>1. S!trim_trailing_shash(core) = core /\ (core # <<>> => S!trim_trailing_shash(core \o slash) = core)
    BY <1>3, <1>4, TrailTrimmed DEF slash
  <2>2. S!trim_leading_shash(core) = core /\ S!trim_leading_shash(slash \o core) = core
    BY <1>3, <1>4, LeadTrimmed DEF slash
  <2>3. ASSUME core # <<>> PROVE S!trim_leading_shash(slash \o (core \o slash)) = core \o slash
    <3>1. core \o slash \in Seq(Word) /\ (core \o slash)[1] = core[1]
      BY <1>2, <1>3, <2>3
    <3>2. (core \o slash)[1] # "/"
      BY <1>4, <2>3, <3>1
    <3>3. S!trim_leading_shash(<<"/">> \o (core \o slash)) = core \o slash
      BY <3>1, <3>2, LeadTrimmed
    <3> QED BY <3>3 DEF slash
  <2> QED BY <1>7, <2>1, <2>2, <2>3
<1>9. r \in Seq(Word)
  <2>1. slash \o core \in Seq(Word) /\ core \o slash \in Seq(Word)
    BY <1>2, <1>3
  <2>2. slash \o (core \o slash) \in Seq(Word)
    BY <1>2, <2>1
  <2> QED BY <1>3, <1>7, <2>1, <2>2
<1>10. S!normalize_slash(r) = Normal(p, l, named)
  BY <1>8, SlashCore DEF core, w
<1> QED
  BY <1>9, <1>10

QuestionTail(l, named) == IF named THEN <<"?", "lang=", S!Code[l]>> ELSE <<>>
LEMMA QuestionResolves ==
  ASSUME S!SiteAssumption, NEW p \in S!Pages, NEW l \in Tongues, NEW named \in BOOLEAN, NEW r,
         \/ r = S!Name(p) \o QuestionTail(l, named)
         \/ r = <<"/">> \o (S!Name(p) \o QuestionTail(l, named))
  PROVE  /\ r \in Seq(Word)
         /\ S!normalize_question(r) = Normal(p, l, named)
<1> DEFINE w == S!Code[l]
           name == S!Name(p)
           tail == QuestionTail(l, named)
           core == name \o tail
           k == Len(name)
           I == {i \in 1 .. Len(core) : core[i] \in {"?", "#"}}
           J == {i \in 1 .. Len(core) : core[i] = "?"}
           n == IF I # {} THEN S!Min(I) ELSE 0
           m == IF J # {} THEN S!Max(J) ELSE 0
           found == IF core[n] = "?" /\ m + 2 <= Len(core) /\ core[m + 1] = "lang="
                      THEN S!language_get(core[m + 2]) ELSE None
<1>1. /\ w \in Word /\ S!language_get(w) = l /\ w \in {"en", "de"}
      /\ p \in Word /\ p \notin {"/", "?", "#", "lang=", "en", "de", "english"}
      /\ "/" \in Word /\ "?" \in Word /\ "lang=" \in Word
  BY TongueCodes, PageWords DEF Word
<1>2. /\ name \in Seq(Word) /\ \A i \in 1 .. k : name[i] = p
      /\ name # <<>> => name[k] # "/"
  <2>1. CASE p = ""
    <3>1. name = <<>>
      BY <2>1, Zenon DEF S!Name
    <3>2. <<>> \in Seq(Word) /\ Len(<<>>) = 0
      OBVIOUS
    <3> HIDE DEF name
    <3> QED BY <3>1, <3>2
  <2>2. CASE p # ""
    <3>1. name = <<p>>
      BY <2>2, Zenon DEF S!Name
    <3>2. <<p>> \in Seq(Word) /\ Len(<<p>>) = 1 /\ <<p>>[1] = p
      BY <1>1, OneWord
    <3> HIDE DEF name
    <3> QED BY <1>1, <3>1, <3>2
  <2> QED BY <2>1, <2>2
<1>3. /\ ~named => tail = <<>>
      /\ named => tail = <<"?", "lang=", w>>
  BY Zenon DEF QuestionTail
<1>4. /\ <<"?", "lang=", w>> \in Seq(Word) /\ <<>> \in Seq(Word)
      /\ Len(<<"?", "lang=", w>>) = 3 /\ <<"?", "lang=", w>>[1] = "?"
      /\ <<"?", "lang=", w>>[2] = "lang=" /\ <<"?", "lang=", w>>[3] = w
  BY <1>1
<1> HIDE DEF w, name, tail
<1>5. tail \in Seq(Word)
  BY <1>3, <1>4
<1>6. /\ core \in Seq(Word) /\ Len(core) = k + Len(tail) /\ k \in Nat /\ Len(tail) \in Nat
      /\ \A i \in 1 .. k : core[i] = p
      /\ \A i \in 1 .. Len(tail) : core[k + i] = tail[i]
  BY <1>2, <1>5
<1> HIDE DEF core, k
<1>7. named => Len(core) = k + 3 /\ core[k + 1] = "?" /\ core[k + 2] = "lang=" /\ core[k + 3] = w
  <2> SUFFICES ASSUME named PROVE Len(core) = k + 3 /\ core[k + 1] = "?" /\ core[k + 2] = "lang=" /\ core[k + 3] = w
    OBVIOUS
  <2>1. Len(tail) = 3 /\ tail[1] = "?" /\ tail[2] = "lang=" /\ tail[3] = w
    BY <1>3, <1>4
  <2>2. 1 \in 1 .. 3 /\ 2 \in 1 .. 3 /\ 3 \in 1 .. 3
    OBVIOUS
  <2> QED BY <1>6, <2>1, <2>2
<1>8. ~named => core = name /\ Len(core) = k
  BY <1>2, <1>3, ConcatEmptySeq DEF core, k
<1>9. core # <<>> => core[1] # "/"
  <2>1. CASE k > 0
    <3>1. 1 \in 1 .. k
      BY <1>6, <2>1
    <3> QED BY <1>1, <1>6, <3>1
  <2>2. CASE k = 0 /\ named
    BY <1>7, <2>2
  <2>3. CASE k = 0 /\ ~named
    BY <1>6, <1>8, <2>3, EmptySeq
  <2> QED BY <1>6, <2>1, <2>2, <2>3
<1>10. S!trim_leading_shash(r) = core /\ r \in Seq(Word)
  <2>1. r = core \/ r = <<"/">> \o core
    BY Zenon DEF core, name, tail
  <2>2. S!trim_leading_shash(core) = core /\ S!trim_leading_shash(<<"/">> \o core) = core
    BY <1>6, <1>9, LeadTrimmed
  <2>3. <<"/">> \o core \in Seq(Word)
    BY <1>1, <1>6
  <2> QED BY <1>6, <2>1, <2>2, <2>3
<1>11. S!trim_trailing_shash(name) = name
  BY <1>2, TrailTrimmed DEF k
<1>12. S!normalize_question(r) =
         IF n = 0 THEN [resource |-> S!trim_trailing_shash(core), language |-> None]
         ELSE [resource |-> S!trim_trailing_shash(SubSeq(core, 1, n - 1)), language |-> found]
  <2> DEFINE
        Of(t) ==
          LET I1 == {i \in 1 .. Len(t) : t[i] \in {"?", "#"}}
              J1 == {i \in 1 .. Len(t) : t[i] = "?"}
              n1 == IF I1 # {} THEN S!Min(I1) ELSE 0
              m1 == IF J1 # {} THEN S!Max(J1) ELSE 0
          IN  IF n1 = 0 THEN [resource |-> S!trim_trailing_shash(t), language |-> None]
              ELSE [resource |-> S!trim_trailing_shash(SubSeq(t, 1, n1 - 1)),
                    language |-> IF t[n1] = "?" /\ m1 + 2 <= Len(t) /\ t[m1 + 1] = "lang="
                                   THEN S!language_get(t[m1 + 2]) ELSE None]
  <2>1. S!normalize_question(r) = Of(S!trim_leading_shash(r))
    BY Zenon DEF S!normalize_question, S!SelectInSeq, S!SelectLastInSeq
  <2>2. Of(core) =
         IF n = 0 THEN [resource |-> S!trim_trailing_shash(core), language |-> None]
         ELSE [resource |-> S!trim_trailing_shash(SubSeq(core, 1, n - 1)), language |-> found]
    BY Zenon
  <2> HIDE DEF Of, n, found
  <2> QED BY <1>10, <2>1, <2>2
<1>13. CASE ~named
  <2>1. \A i \in 1 .. Len(core) : core[i] = p
    BY <1>6, <1>8, <1>13
  <2>2. I = {}
    BY <1>1, <2>1
  <2>3. n = 0
    BY <2>2
  <2> HIDE DEF n, found
  <2> QED BY <1>8, <1>10, <1>11, <1>12, <1>13, <2>3 DEF name, Normal
<1>14. CASE named
  <2>1. /\ Len(core) = k + 3 /\ core[k + 1] = "?" /\ core[k + 2] = "lang=" /\ core[k + 3] = w
        /\ \A i \in 1 .. k : core[i] = p
    BY <1>6, <1>7, <1>14
  <2>2. \A i \in 1 .. Len(core) : i \in 1 .. k \/ i = k + 1 \/ i = k + 2 \/ i = k + 3
    BY <1>6, <2>1
  <2>3. I = {k + 1} /\ J = {k + 1}
    <3>1. w # "?" /\ w # "#" /\ p # "?" /\ p # "#"
      BY <1>1
    <3>2. k + 1 \in 1 .. Len(core)
      BY <1>6, <2>1
    <3> QED BY <2>1, <2>2, <3>1, <3>2
  <2>4. S!Min(I) = k + 1 /\ S!Max(J) = k + 1
    <3>1. k + 1 \in Int
      BY <1>6
    <3> DEFINE x == k + 1
    <3>2. x \in Int /\ I = {x} /\ J = {x}
      BY <2>3, <3>1
    <3> HIDE DEF I, J, x
    <3>3. I \subseteq Int /\ x \in I /\ \A i \in I : x <= i
      BY <3>2
    <3>4. J \subseteq Int /\ x \in J /\ \A i \in J : x >= i
      BY <3>2
    <3>5. S!Min(I) = x
      BY <3>3, LeastIs
    <3>6. S!Max(J) = x
      BY <3>4, GreatestIs
    <3> QED BY <3>5, <3>6 DEF x
  <2>5. n = k + 1 /\ m = k + 1 /\ n # 0 /\ n - 1 = k
    BY <1>6, <2>3, <2>4
  <2> HIDE DEF n, m, I, J
  <2>6. m + 2 = k + 3 /\ m + 1 = k + 2 /\ m + 2 <= Len(core)
    BY <1>6, <2>1, <2>5
  <2>7. found = l
    BY <1>1, <2>1, <2>5, <2>6
  <2> HIDE DEF found
  <2>8. SubSeq(core, 1, k) = name
    <3>1. \A i \in 1 .. k : core[i] \in Word
      BY <1>1, <2>1
    <3>2. 1 \in Int /\ k \in Int
      BY <1>6
    <3>3. /\ SubSeq(core, 1, k) \in Seq(Word)
          /\ Len(SubSeq(core, 1, k)) = IF 1 <= k THEN k - 1 + 1 ELSE 0
          /\ \A i \in 1 .. k - 1 + 1 : SubSeq(core, 1, k)[i] = core[1 + i - 1]
      BY <3>1, <3>2, SubSeqProperties
    <3>4. Len(SubSeq(core, 1, k)) = k /\ k - 1 + 1 = k /\ \A i \in 1 .. k : 1 + i - 1 = i
      BY <1>6, <3>3
    <3>5. \A i \in 1 .. k : SubSeq(core, 1, k)[i] = name[i]
      BY <1>2, <2>1, <3>3, <3>4
    <3>6. Len(name) = k
      BY DEF k
    <3> QED BY <1>2, <3>3, <3>4, <3>5, <3>6, SeqEqual
  <2> QED BY <1>10, <1>11, <1>12, <1>14, <2>5, <2>7, <2>8 DEF name, Normal
<1> QED
  BY <1>13, <1>14

------------------------------------------------------------------------------
(* The addresses a page prints are normalized to what they stand for.        *)

LEMMA WordParts ==
  ASSUME S!SiteAssumption, NEW p \in S!Pages, NEW l \in Tongues, NEW named \in BOOLEAN
  PROVE  /\ S!Name(p) \in Seq(Word) /\ S!Slashed(p) \in Seq(Word)
         /\ QuestionTail(l, named) \in Seq(Word) /\ SlashTail(l, named) \in Seq(Word)
         /\ <<"/">> \in Seq(Word) /\ <<"1">> \in Seq(Word) /\ <<>> \in Seq(Word)
<1> DEFINE w == S!Code[l]
<1>1. w \in Word /\ p \in Word /\ "/" \in Word /\ "?" \in Word /\ "lang=" \in Word /\ "1" \in Word
  BY TongueCodes, PageWords DEF Word
<1> HIDE DEF w
<1>2. /\ <<p>> \in Seq(Word) /\ <<"/", p>> \in Seq(Word) /\ <<"?", "lang=", w>> \in Seq(Word)
      /\ <<"/", w>> \in Seq(Word) /\ <<>> \in Seq(Word) /\ <<"/">> \in Seq(Word) /\ <<"1">> \in Seq(Word)
  BY <1>1
<1>3. S!Name(p) = <<>> \/ S!Name(p) = <<p>>
  BY Zenon DEF S!Name
<1>4. S!Slashed(p) = <<>> \/ S!Slashed(p) = <<"/", p>>
  BY Zenon DEF S!Slashed
<1>5. QuestionTail(l, named) = <<>> \/ QuestionTail(l, named) = <<"?", "lang=", w>>
  BY Zenon DEF QuestionTail, w
<1>6. SlashTail(l, named) = <<>> \/ SlashTail(l, named) = <<"/", w>>
  BY Zenon DEF SlashTail, w
<1>7. S!Name(p) \in Seq(Word)
  BY <1>2, <1>3
<1>8. S!Slashed(p) \in Seq(Word)
  BY <1>2, <1>4
<1>9. QuestionTail(l, named) \in Seq(Word)
  BY <1>2, <1>5
<1>10. SlashTail(l, named) \in Seq(Word)
  BY <1>2, <1>6
<1> QED
  BY <1>2, <1>7, <1>8, <1>9, <1>10

LEMMA InternalResolves ==
  ASSUME S!SiteAssumption, NEW a, NEW ref, ref.page \in S!Pages, ref.language \in Tongues,
         NEW named \in BOOLEAN,
         named = S!language_explicit(ref.language, context.requested, request.language)
  PROVE  /\ S!InternalReference(a, ref) \in Seq(Word)
         /\ NormalizedOver(a, S!InternalReference(a, ref)) = Normal(ref.page, ref.language, named)
<1> DEFINE p == ref.page
           l == ref.language
           question == QuestionTail(l, named)
           slash == SlashTail(l, named)
           r == S!InternalReference(a, ref)
<1>1. /\ S!language_question(l, context.requested, request.language) = question
      /\ S!language_slash(l, context.requested, request.language) = slash
  BY Zenon DEF S!language_question, S!language_slash, QuestionTail, SlashTail
<1>2. r = CASE a \in S!IsQuestion -> <<"/">> \o S!Name(p) \o question
            [] a = "Gopher" -> S!Name(p) \o slash
            [] a = "Nex" -> S!Slashed(p) \o slash \o <<"/">>
            [] OTHER -> S!Slashed(p) \o slash
  BY <1>1, Zenon DEF S!InternalReference
<1>3. "Gopher" \notin S!IsQuestion /\ "Nex" \notin S!IsQuestion
  BY DEF S!IsQuestion, S!Http
<1> HIDE DEF question, slash, r
<1>4. CASE a \in S!IsQuestion
  <2>1. r = (<<"/">> \o S!Name(p)) \o question
    BY <1>2, <1>3, <1>4
  <2>2. S!Name(p) \in Seq(Word) /\ question \in Seq(Word) /\ <<"/">> \in Seq(Word)
    BY WordParts DEF question
  <2>3. r = <<"/">> \o (S!Name(p) \o question)
    BY <2>1, <2>2, ConcatAssociative
  <2>4. r \in Seq(Word) /\ S!normalize_question(r) = Normal(p, l, named)
    BY <2>3, QuestionResolves DEF question
  <2> QED BY <1>4, <2>4, Zenon DEF NormalizedOver, r
<1>5. CASE a \notin S!IsQuestion
  <2>1. \/ r = S!Name(p) \o slash \/ r = S!Slashed(p) \o slash \/ r = S!Slashed(p) \o slash \o <<"/">>
    BY <1>2, <1>5
  <2>2. r \in Seq(Word) /\ S!normalize_slash(r) = Normal(p, l, named)
    BY <2>1, SlashResolves DEF slash
  <2> QED BY <1>5, <2>2, Zenon DEF NormalizedOver, r
<1> QED
  BY <1>4, <1>5

LEMMA BehindTwo ==
  ASSUME NEW x \in Seq(Word), Len(x) = 2, NEW s \in Seq(Word)
  PROVE  /\ x \o s \in Seq(Word) /\ Len(x \o s) = Len(s) + 2 /\ Len(s) \in Nat
         /\ \A i \in 1 .. Len(s) : (x \o s)[i + 2] = s[i]
<1>1. x \o s \in Seq(Word)
  BY ConcatProperties
<1>2. Len(x \o s) = Len(x) + Len(s)
  BY ConcatProperties
<1>3. Len(s) \in Nat
  OBVIOUS
<1>4. ASSUME NEW i \in 1 .. Len(s) PROVE (x \o s)[i + 2] = s[i]
  <2>1. i + 2 \in 1 .. Len(x) + Len(s) /\ ~(i + 2 <= Len(x)) /\ (i + 2) - Len(x) = i
    BY <1>3
  <2>2. \A j \in 1 .. Len(x) + Len(s) : (x \o s)[j] = IF j <= Len(x) THEN x[j] ELSE s[j - Len(x)]
    BY ConcatProperties
  <2> QED BY <2>1, <2>2
<1> QED
  BY <1>1, <1>2, <1>3, <1>4

(* The type, and the slash before it, of an address for Gopher are no part   *)
(* of its selector.                                                          *)
LEMMA SelectorIs ==
  ASSUME NEW s \in Seq(Word)
  PROVE  S!Selector("Gopher", <<"/">> \o <<"1">> \o s) = s
<1> DEFINE r == <<"/">> \o <<"1">> \o s
<1>1. /\ r \in Seq(Word) /\ Len(r) = Len(s) + 2 /\ Len(s) \in Nat
      /\ \A i \in 1 .. Len(s) : r[i + 2] = s[i]
  <2>1. "/" \in Word /\ "1" \in Word
    BY DEF Word
  <2>2. <<"/">> \o <<"1">> = <<"/", "1">> /\ <<"/", "1">> \in Seq(Word) /\ Len(<<"/", "1">>) = 2
    BY <2>1, TwoWords
  <2> DEFINE x == <<"/", "1">>
  <2>3. x \in Seq(Word) /\ Len(x) = 2 /\ r = x \o s
    BY <2>2
  <2>4. r = x \o s
    BY <2>3
  <2> HIDE DEF x, r
  <2>5. /\ x \o s \in Seq(Word) /\ Len(x \o s) = Len(s) + 2 /\ Len(s) \in Nat
        /\ \A i \in 1 .. Len(s) : (x \o s)[i + 2] = s[i]
    BY <2>3, BehindTwo
  <2> QED BY <2>4, <2>5
<1> HIDE DEF r
<1>2. S!Selector("Gopher", r) = SubSeq(r, 3, Len(r))
  BY DEF S!Selector
<1>3. /\ SubSeq(r, 3, Len(r)) \in Seq(Word)
      /\ Len(SubSeq(r, 3, Len(r))) = IF 3 <= Len(r) THEN Len(r) - 3 + 1 ELSE 0
      /\ \A i \in 1 .. Len(r) - 3 + 1 : SubSeq(r, 3, Len(r))[i] = r[3 + i - 1]
  <2>1. \A i \in 3 .. Len(r) : r[i] \in Word
    BY <1>1
  <2>2. 3 \in Int /\ Len(r) \in Int
    BY <1>1
  <2> QED BY <2>1, <2>2, SubSeqProperties
<1>4. Len(SubSeq(r, 3, Len(r))) = Len(s) /\ Len(r) - 3 + 1 = Len(s)
  BY <1>1, <1>3
<1>5. \A i \in 1 .. Len(s) : 3 + i - 1 = i + 2
  BY <1>1
<1>6. \A i \in 1 .. Len(s) : SubSeq(r, 3, Len(r))[i] = s[i]
  BY <1>1, <1>3, <1>4, <1>5
<1>7. SubSeq(r, 3, Len(r)) = s
  BY <1>3, <1>4, <1>6, SeqEqual
<1> QED
  BY <1>2, <1>7 DEF r

LEMMA FooterResolves ==
  ASSUME S!SiteAssumption, NEW ref, ref.page \in S!Pages, ref.language \in Tongues,
         NEW named \in BOOLEAN,
         named = S!language_explicit(ref.language, context.requested, S!IMPLICIT_LANGUAGE)
  PROVE  LET r == S!Selector(ref.protocol, S!FooterReference(ref))
         IN  r \in Seq(Word) /\ NormalizedOver(ref.protocol, r) = Normal(ref.page, ref.language, named)
<1> DEFINE p == ref.page
           l == ref.language
           b == ref.protocol
           question == QuestionTail(l, named)
           slash == SlashTail(l, named)
           tail == IF b \in S!IsQuestion THEN question ELSE slash
           gopher == b = "Gopher"
           nonempty == p # "" \/ gopher \/ question # <<>>
           starts == p = "" /\ ~gopher /\ question # <<>> /\ b \notin S!IsQuestion
           address == S!FooterReference(ref)
           r == S!Selector(b, address)
<1>1. /\ S!language_question(l, context.requested, S!IMPLICIT_LANGUAGE) = question
      /\ S!language_slash(l, context.requested, S!IMPLICIT_LANGUAGE) = slash
  BY Zenon DEF S!language_question, S!language_slash, QuestionTail, SlashTail
<1>2. address = (IF nonempty /\ ~starts THEN <<"/">> ELSE <<>>)
                \o (IF gopher THEN <<"1">> ELSE <<>>) \o S!Name(p) \o tail
                \o (IF b = "Nex" THEN <<"/">> ELSE <<>>)
  BY <1>1, Zenon DEF S!FooterReference
<1>3. /\ S!Name(p) \in Seq(Word) /\ question \in Seq(Word) /\ slash \in Seq(Word)
      /\ <<"/">> \in Seq(Word) /\ <<"1">> \in Seq(Word) /\ <<>> \in Seq(Word)
      /\ S!Slashed(p) \in Seq(Word)
  BY WordParts
<1>4. /\ named => question # <<>>
      /\ ~named => question = <<>> /\ slash = <<>>
  BY DEF QuestionTail, SlashTail
<1>5. "Gopher" \notin S!IsQuestion /\ "Nex" \notin S!IsQuestion /\ "Nex" # "Gopher"
  BY DEF S!IsQuestion, S!Http
<1>6. /\ p = "" => S!Name(p) = <<>> /\ S!Slashed(p) = <<>>
      /\ p # "" => S!Slashed(p) = <<"/">> \o S!Name(p)
  <2>1. p = "" => S!Name(p) = <<>> /\ S!Slashed(p) = <<>>
    BY Zenon DEF S!Name, S!Slashed
  <2>2. ASSUME p # "" PROVE S!Slashed(p) = <<"/">> \o S!Name(p)
    <3>1. S!Name(p) = <<p>> /\ S!Slashed(p) = <<"/", p>>
      BY <2>2, Zenon DEF S!Name, S!Slashed
    <3>2. p \in Word /\ "/" \in Word
      BY PageWords DEF Word
    <3>3. <<"/", p>> = <<"/">> \o <<p>>
      BY <3>2, TwoWords
    <3> QED BY <3>1, <3>3, Zenon
  <2> QED BY <2>1, <2>2
<1>7. \A s, t, u \in Seq(Word) :
        /\ (s \o t) \o u = s \o (t \o u) /\ s \o t \in Seq(Word)
        /\ s \o <<>> = s /\ <<>> \o s = s
  BY ConcatAssociative, ConcatProperties, ConcatEmptySeq
<1>8. b # "Gopher" => r = address
  BY Zenon DEF S!Selector
<1> HIDE DEF question, slash, address, r
<1>9. CASE b \in S!IsQuestion
  <2>1. b # "Gopher" /\ b # "Nex" /\ tail = question
    BY <1>5, <1>9
  <2>2. CASE p = "" /\ ~named
    <3>1. ~nonempty /\ question = <<>> /\ S!Name(p) = <<>>
      BY <1>4, <1>6, <2>1, <2>2
    <3>2. r = <<>> \o <<>> \o <<>> \o <<>> \o <<>>
      BY <1>2, <1>8, <2>1, <3>1, Zenon
    <3>3. <<>> \o <<>> = <<>>
      BY <1>3, <1>7
    <3>4. r = S!Name(p) \o question
      BY <3>1, <3>2, <3>3, Zenon
    <3>5. r \in Seq(Word) /\ S!normalize_question(r) = Normal(p, l, named)
      BY <3>4, QuestionResolves DEF question
    <3> QED BY <1>9, <3>5, Zenon DEF NormalizedOver, r, address
  <2>3. CASE ~(p = "" /\ ~named)
    <3>1. nonempty /\ ~starts
      BY <1>4, <1>9, <2>3
    <3>2. r = <<"/">> \o <<>> \o S!Name(p) \o question \o <<>>
      BY <1>2, <1>8, <2>1, <3>1, Zenon
    <3>3. <<"/">> \o <<>> = <<"/">>
      BY <1>3, <1>7
    <3>4. (<<"/">> \o S!Name(p)) \o question = <<"/">> \o (S!Name(p) \o question)
      BY <1>3, <1>7
    <3>5. (<<"/">> \o (S!Name(p) \o question)) \o <<>> = <<"/">> \o (S!Name(p) \o question)
      <4>1. S!Name(p) \o question \in Seq(Word)
        BY <1>3, <1>7
      <4>2. <<"/">> \o (S!Name(p) \o question) \in Seq(Word)
        BY <1>3, <1>7, <4>1
      <4> QED BY <4>2, ConcatEmptySeq
    <3>6. r = <<"/">> \o (S!Name(p) \o question)
      BY <3>2, <3>3, <3>4, <3>5, Zenon
    <3>7. r \in Seq(Word) /\ S!normalize_question(r) = Normal(p, l, named)
      BY <3>6, QuestionResolves DEF question
    <3> QED BY <1>9, <3>7, Zenon DEF NormalizedOver, r, address
  <2> QED BY <2>2, <2>3
<1>10. CASE b = "Gopher"
  <2>1. nonempty /\ ~starts /\ b # "Nex" /\ tail = slash /\ b \notin S!IsQuestion
    BY <1>5, <1>10
  <2>2. address = <<"/">> \o <<"1">> \o S!Name(p) \o slash \o <<>>
    BY <1>2, <1>10, <2>1, Zenon
  <2>3. address = <<"/">> \o <<"1">> \o (S!Name(p) \o slash)
    <3> DEFINE x == <<"/">> \o <<"1">>
    <3>1. x \in Seq(Word)
      BY <1>3, <1>7
    <3> HIDE DEF x
    <3>2. (x \o S!Name(p)) \o slash = x \o (S!Name(p) \o slash)
      BY <1>3, <3>1, ConcatAssociative
    <3>3. (x \o S!Name(p)) \o slash \in Seq(Word)
      <4>1. x \o S!Name(p) \in Seq(Word)
        BY <1>3, <1>7, <3>1
      <4> QED BY <1>3, <1>7, <4>1
    <3>4. ((x \o S!Name(p)) \o slash) \o <<>> = (x \o S!Name(p)) \o slash
      BY <3>3, ConcatEmptySeq
    <3>5. address = ((x \o S!Name(p)) \o slash) \o <<>>
      BY <2>2, Zenon DEF x
    <3> QED BY <3>2, <3>4, <3>5, Zenon DEF x
  <2>4. r = S!Name(p) \o slash
    <3>1. S!Name(p) \o slash \in Seq(Word)
      BY <1>3, <1>7
    <3> DEFINE x == S!Name(p) \o slash
    <3>2. r = S!Selector("Gopher", address)
      BY <1>10, Zenon DEF r
    <3>3. address = <<"/">> \o <<"1">> \o x
      BY <2>3, Zenon
    <3>4. x \in Seq(Word)
      BY <3>1
    <3> HIDE DEF x
    <3>5. S!Selector("Gopher", <<"/">> \o <<"1">> \o x) = x
      BY <3>4, SelectorIs
    <3> QED BY <3>2, <3>3, <3>5, Zenon DEF x
  <2>5. r \in Seq(Word) /\ S!normalize_slash(r) = Normal(p, l, named)
    BY <2>4, SlashResolves DEF slash
  <2> QED BY <2>1, <2>5, Zenon DEF NormalizedOver, r, address
<1>11. CASE b \notin S!IsQuestion /\ b # "Gopher"
  <2> DEFINE lead == IF nonempty /\ ~starts THEN <<"/">> ELSE <<>>
             end == IF b = "Nex" THEN <<"/">> ELSE <<>>
  <2>1. tail = slash
    BY <1>11
  <2>2. r = lead \o <<>> \o S!Name(p) \o slash \o end
    BY <1>2, <1>8, <1>11, <2>1, Zenon
  <2>3. lead \o <<>> \o S!Name(p) = S!Slashed(p)
    <3>1. CASE p = ""
      <4>1. lead = <<>>
        BY <1>11, <3>1
      <4>2. S!Name(p) = <<>> /\ S!Slashed(p) = <<>>
        BY <1>6, <3>1
      <4>3. <<>> \o <<>> = <<>>
        BY <1>3, <1>7
      <4> QED BY <4>1, <4>2, <4>3, Zenon
    <3>2. CASE p # ""
      <4>1. lead = <<"/">>
        BY <1>11, <3>2
      <4>2. S!Slashed(p) = <<"/">> \o S!Name(p)
        BY <1>6, <3>2
      <4>3. <<"/">> \o <<>> = <<"/">>
        BY <1>3, <1>7
      <4> QED BY <4>1, <4>2, <4>3, Zenon
    <3> QED BY <3>1, <3>2
  <2>4. r = S!Slashed(p) \o slash \o end
    BY <2>2, <2>3, Zenon
  <2>5. r = S!Slashed(p) \o slash \/ r = S!Slashed(p) \o slash \o <<"/">>
    <3>1. CASE b = "Nex"
      BY <2>4, <3>1, Zenon
    <3>2. CASE b # "Nex"
      <4>1. S!Slashed(p) \o slash \in Seq(Word)
        BY <1>3, <1>7
      <4>2. (S!Slashed(p) \o slash) \o <<>> = S!Slashed(p) \o slash
        BY <4>1, ConcatEmptySeq
      <4> QED BY <2>4, <3>2, <4>2, Zenon
    <3> QED BY <3>1, <3>2
  <2>6. r \in Seq(Word) /\ S!normalize_slash(r) = Normal(p, l, named)
    BY <2>5, SlashResolves DEF slash
  <2> QED BY <1>11, <2>6, Zenon DEF NormalizedOver, r, address
<1>12. r \in Seq(Word) /\ NormalizedOver(b, r) = Normal(p, l, named)
  BY <1>9, <1>10, <1>11 DEF r, address
<1> QED
  BY <1>12, Zenon DEF r, address

(* What an entry of a page prints.                                           *)
LEMMA PrintedOnly ==
  ASSUME NEW e \in Middle \cup {FirstEntry, LastEntry}, NEW link \in S!Printed(e)
  PROVE  /\ e.ref.page \in S!Pages /\ e.ref.language \in Tongues
         /\ \/ link = [protocol |-> request.protocol, page |-> e.ref.page, language |-> e.ref.language,
                       internal |-> TRUE, resource |-> S!InternalReference(request.protocol, e.ref)]
            \/ /\ e.ref.protocol \in Others
               /\ link = [protocol |-> e.ref.protocol, page |-> e.ref.page, language |-> e.ref.language,
                          internal |-> FALSE,
                          resource |-> S!Selector(e.ref.protocol, S!FooterReference(e.ref))]
<1> DEFINE inner == [protocol |-> request.protocol, page |-> e.ref.page, language |-> e.ref.language,
                     internal |-> TRUE, resource |-> S!InternalReference(request.protocol, e.ref)]
           outer == [protocol |-> e.ref.protocol, page |-> e.ref.page, language |-> e.ref.language,
                     internal |-> FALSE,
                     resource |-> S!Selector(e.ref.protocol, S!FooterReference(e.ref))]
<1>1. S!Printed(e) = CASE e.style = "INTERNAL" -> {inner}
                       [] e.style = "EXTERNAL" /\ e.ref # None -> {outer}
                       [] OTHER -> {}
  BY Zenon DEF S!Printed
<1>2. "INTERNAL" # "EXTERNAL"
  OBVIOUS
<1>3. ASSUME NEW style, e = S!Entry(style, None), style # "INTERNAL" PROVE FALSE
  <2>1. e.style # "INTERNAL" /\ e.ref = None
    BY <1>3 DEF S!Entry
  <2> HIDE DEF inner, outer
  <2> QED BY <1>1, <2>1
<1>4. CASE e \in {S!Internal(p, l) : p \in S!Pages, l \in Tongues}
  <2>1. PICK p \in S!Pages, l \in Tongues : e = S!Internal(p, l)
    BY <1>4
  <2>2. e.style = "INTERNAL" /\ e.ref = [page |-> p, language |-> l]
    BY <2>1 DEF S!Internal, S!Entry
  <2>3. link = inner
    <3> HIDE DEF inner, outer
    <3> QED BY <1>1, <2>2
  <2>4. e.ref.page \in S!Pages /\ e.ref.language \in Tongues
    BY <2>2
  <2> QED BY <2>3, <2>4, Zenon
<1>5. CASE e \in {Footed(p, l, b) : p \in S!Pages, l \in Tongues, b \in Others}
  <2>1. PICK p \in S!Pages, l \in Tongues, b \in Others : e = Footed(p, l, b)
    BY <1>5
  <2>2. e.style = "EXTERNAL" /\ e.ref = [page |-> p, language |-> l, protocol |-> b]
    BY <2>1 DEF Footed, S!Entry
  <2>3. link = outer
    <3> HIDE DEF inner, outer
    <3> QED BY <1>1, <1>2, <2>2
  <2>4. e.ref.page \in S!Pages /\ e.ref.language \in Tongues /\ e.ref.protocol \in Others
    BY <2>2
  <2> QED BY <2>3, <2>4, Zenon
<1>6. CASE e \in {S!Entry(s, None) : s \in Inner}
  BY <1>3, <1>6 DEF Inner
<1>7. CASE e = FirstEntry \/ e = LastEntry
  BY <1>3, <1>7 DEF FirstEntry, LastEntry
<1> HIDE DEF inner, outer
<1> QED
  BY <1>4, <1>5, <1>6, <1>7 DEF Middle, inner, outer

LEMMA PrintedResolves ==
  ASSUME S!SiteAssumption, SiteTyped,
         NEW e \in Middle \cup {FirstEntry, LastEntry}, NEW link \in S!Printed(e)
  PROVE  link \in LinkTypes /\ Resolves(link)
<1> DEFINE ref == e.ref
           inner == [protocol |-> request.protocol, page |-> ref.page, language |-> ref.language,
                     internal |-> TRUE, resource |-> S!InternalReference(request.protocol, ref)]
           outer == [protocol |-> ref.protocol, page |-> ref.page, language |-> ref.language,
                     internal |-> FALSE,
                     resource |-> S!Selector(ref.protocol, S!FooterReference(ref))]
<1>1. ref.page \in S!Pages /\ ref.language \in Tongues /\ (link = inner \/ (ref.protocol \in Others /\ link = outer))
  BY PrintedOnly, Zenon
<1>2. request.protocol \in SiteProtocols /\ request.language \in Tongues \cup {None} /\ None \notin Tongues
  BY DEF SiteTyped, S!SiteAssumption, Tongues
<1> HIDE DEF ref
<1>3. CASE link = inner
  <2> DEFINE named == S!language_explicit(ref.language, context.requested, request.language)
  <2>1. named \in BOOLEAN
    BY DEF S!language_explicit
  <2>2. ~named => ref.language = IF request.language # None THEN request.language ELSE S!IMPLICIT_LANGUAGE
    BY DEF S!language_explicit
  <2> HIDE DEF named
  <2>3. /\ S!InternalReference(request.protocol, ref) \in Seq(Word)
        /\ NormalizedOver(request.protocol, S!InternalReference(request.protocol, ref))
             = Normal(ref.page, ref.language, named)
    BY <1>1, <2>1, InternalResolves DEF named
  <2>4. /\ link.protocol = request.protocol /\ link.page = ref.page /\ link.language = ref.language
        /\ link.internal = TRUE /\ link.resource = S!InternalReference(request.protocol, ref)
    BY <1>3
  <2>5. link \in LinkTypes
    BY <1>1, <1>2, <1>3, <2>3 DEF LinkTypes
  <2>6. ~named => link.language = Own(link)
    BY <2>2, <2>4 DEF Own
  <2>7. Resolves(link)
    <3> DEFINE n == NormalizedOver(link.protocol, link.resource)
    <3>1. n = [resource |-> S!Name(link.page), language |-> IF named THEN link.language ELSE None]
      BY <2>3, <2>4, Zenon DEF Normal
    <3> HIDE DEF n
    <3>2. n.resource = S!Name(link.page) /\ n.language = IF named THEN link.language ELSE None
      BY <3>1
    <3>3. n.language = link.language \/ (n.language = None /\ link.language = Own(link))
      BY <2>1, <2>6, <3>2
    <3> QED BY <3>2, <3>3, Zenon DEF Resolves, n
  <2> QED BY <2>5, <2>7
<1>4. CASE ref.protocol \in Others /\ link = outer
  <2> DEFINE named == S!language_explicit(ref.language, context.requested, S!IMPLICIT_LANGUAGE)
             r == S!Selector(ref.protocol, S!FooterReference(ref))
  <2>1. named \in BOOLEAN
    BY DEF S!language_explicit
  <2>2. ~named => ref.language = S!IMPLICIT_LANGUAGE
    BY <1>2 DEF S!language_explicit, S!IMPLICIT_LANGUAGE, Tongues
  <2> HIDE DEF named
  <2>3. r \in Seq(Word) /\ NormalizedOver(ref.protocol, r) = Normal(ref.page, ref.language, named)
    BY <1>1, <2>1, FooterResolves DEF named
  <2>4. /\ link.protocol = ref.protocol /\ link.page = ref.page /\ link.language = ref.language
        /\ link.internal = FALSE /\ link.resource = r
    BY <1>4
  <2> HIDE DEF r
  <2>5. link \in LinkTypes
    BY <1>1, <1>2, <1>4, <2>3 DEF LinkTypes, r
  <2>6. ~named => link.language = Own(link)
    BY <2>2, <2>4 DEF Own
  <2>7. Resolves(link)
    <3> DEFINE n == NormalizedOver(link.protocol, link.resource)
    <3>1. n = [resource |-> S!Name(link.page), language |-> IF named THEN link.language ELSE None]
      BY <2>3, <2>4, Zenon DEF Normal
    <3> HIDE DEF n
    <3>2. n.resource = S!Name(link.page) /\ n.language = IF named THEN link.language ELSE None
      BY <3>1
    <3>3. n.language = link.language \/ (n.language = None /\ link.language = Own(link))
      BY <2>1, <2>6, <3>2
    <3> QED BY <3>2, <3>3, Zenon DEF Resolves, n
  <2> QED BY <2>5, <2>7
<1> QED
  BY <1>1, <1>3, <1>4

(* Resolving depends on nothing but the link and the browser's language.     *)
LEMMA ResolvesOn ==
  ASSUME LinksResolve, links' \subseteq links, request' = request
  PROVE  LinksResolve'
<1>1. ASSUME NEW link PROVE Resolves(link)' <=> Resolves(link)
  BY DEF Resolves, Own, NormalizedOver
<1> QED
  BY <1>1 DEF LinksResolve

------------------------------------------------------------------------------
(* Every step of the site keeps its invariant.                               *)

LEMMA EntriesPrinted ==
  ASSUME PageWhole, state = "print", script # <<>>
  PROVE  Head(script) \in Middle \cup {FirstEntry, LastEntry}
<1>1. AtBeginning \/ Amid
  BY DEF PageWhole, Printing, AtEnd
<1>2. CASE AtBeginning
  BY <1>2, BeginsOn DEF AtBeginning
<1>3. CASE Amid
  BY <1>3, ContinuesOn DEF Amid
<1> QED
  BY <1>1, <1>2, <1>3

LEMMA NamesDiffer ==
  ASSUME NEW p \in S!Pages, NEW o \in S!Pages, S!Name(p) = S!Name(o)
  PROVE  p = o
<1>1. <<p>> # <<>> /\ <<o>> # <<>> /\ (<<p>> = <<o>> => p = o)
  OBVIOUS
<1>2. CASE p = "" /\ o # ""
  <2>1. S!Name(p) = <<>> /\ S!Name(o) = <<o>>
    BY <1>2, Zenon DEF S!Name
  <2> QED BY <1>1, <2>1, Zenon
<1>3. CASE p # "" /\ o = ""
  <2>1. S!Name(p) = <<p>> /\ S!Name(o) = <<>>
    BY <1>3, Zenon DEF S!Name
  <2> QED BY <1>1, <2>1, Zenon
<1>4. CASE p # "" /\ o # ""
  <2>1. S!Name(p) = <<p>> /\ S!Name(o) = <<o>>
    BY <1>4, Zenon DEF S!Name
  <2> QED BY <1>1, <2>1, Zenon
<1> QED
  BY <1>2, <1>3, <1>4

LEMMA GenericReaches ==
  ASSUME GoalReached, S!processor_generic
  PROVE  GoalReached' /\ LinksResolve'
<1>1. PICK p \in S!PageOf(S!Normalized.resource) :
        /\ page' = p
        /\ context' = [language |-> S!PageLanguage(S!Normalized.language),
                       requested |-> S!Normalized.language, previous |-> "INITIALIZE"]
  BY Zenon DEF S!processor_generic
<1>2. state = "request" /\ state' = "print" /\ links' = {} /\ request' = request /\ goal' = goal
  BY Zenon DEF S!processor_generic
<1>3. context'.language = S!PageLanguage(S!Normalized.language)
  BY <1>1
<1>4. ASSUME goal # None PROVE goal.page \in S!Pages /\ GoalPrinted'
  <2>1. /\ goal.page \in S!Pages /\ S!Normalized.resource = S!Name(goal.page)
        /\ Chosen(S!PageLanguage(S!Normalized.language))
    BY <1>2, <1>4 DEF GoalReached, GoalAsked
  <2>2. p \in S!Pages /\ S!Name(p) = S!Name(goal.page)
    BY <1>1, <2>1 DEF S!PageOf
  <2>3. page' = goal'.page
    BY <1>1, <1>2, <2>1, <2>2, NamesDiffer
  <2>4. Chosen(context.language)'
    BY <1>2, <1>3, <2>1 DEF Chosen
  <2> QED BY <2>1, <2>3, <2>4 DEF GoalPrinted
<1>5. GoalReached'
  BY <1>2, <1>4 DEF GoalReached, GoalAsked, GoalSent
<1> QED
  BY <1>2, <1>5 DEF LinksResolve

LEMMA PrintReaches ==
  ASSUME S!SiteAssumption, SiteTyped, PageWhole, LinksResolve, GoalReached, S!processor_print
  PROVE  GoalReached' /\ LinksResolve'
<1>1. /\ state = "print" /\ script # <<>>
      /\ links' = links \cup S!Printed(Head(script))
      /\ context' = [context EXCEPT !.previous = Head(script).style]
      /\ UNCHANGED <<state, request, page, response, goal>>
  BY PrintedByProtocol
<1>2. Head(script) \in Middle \cup {FirstEntry, LastEntry}
  BY <1>1, EntriesPrinted
<1>3. context'.language = context.language
  BY <1>1, <1>2, MiddleStyles, PrintContext
<1>4. ASSUME NEW link \in links' PROVE link \in LinkTypes /\ Resolves(link)'
  <2>1. link \in LinkTypes /\ Resolves(link)
    <3>1. CASE link \in links
      BY <3>1 DEF LinksResolve
    <3>2. CASE link \in S!Printed(Head(script))
      BY <1>2, <3>2, PrintedResolves
    <3> QED BY <1>1, <3>1, <3>2
  <2>2. Resolves(link)' <=> Resolves(link)
    BY <1>1 DEF Resolves, Own, NormalizedOver
  <2> QED BY <2>1, <2>2
<1>5. LinksResolve'
  BY <1>4 DEF LinksResolve
<1>6. GoalReached'
  BY <1>1, <1>3 DEF GoalReached, GoalAsked, GoalPrinted, GoalSent, Chosen
<1> QED
  BY <1>5, <1>6

LEMMA ProcessReaches ==
  ASSUME LinksResolve, GoalReached, S!processor_process
  PROVE  GoalReached' /\ LinksResolve'
<1>1. /\ state = "print" /\ state' = "sent"
      /\ response' = [status |-> "200", keep_alive |-> request.keep_alive]
      /\ UNCHANGED <<request, context, page, links, goal>>
  BY Zenon DEF S!processor_process
<1>2. LinksResolve'
  BY <1>1, ResolvesOn
<1>3. response'.status = "200"
  BY <1>1
<1>4. GoalReached'
  BY <1>1, <1>3 DEF GoalReached, GoalAsked, GoalPrinted, GoalSent, Chosen
<1> QED
  BY <1>2, <1>4

LEMMA SpecificReaches ==
  ASSUME GoalReached, S!processor_specific
  PROVE  GoalReached' /\ LinksResolve'
<1>1. /\ state = "request" /\ (S!Valid => S!PageOf(S!Normalized.resource) = {})
      /\ links' = {} /\ goal' = goal
  BY Zenon DEF S!processor_specific, S!processor_process_http, S!processor_process_plain, S!Specific
<1>2. goal = None
  <2> SUFFICES ASSUME goal # None PROVE FALSE
    OBVIOUS
  <2>1. goal.page \in S!Pages /\ S!Valid /\ S!Normalized.resource = S!Name(goal.page)
    BY <1>1 DEF GoalReached, GoalAsked
  <2>2. goal.page \in S!PageOf(S!Normalized.resource)
    BY <2>1 DEF S!PageOf
  <2> QED BY <1>1, <2>1, <2>2
<1> QED
  BY <1>1, <1>2 DEF GoalReached, LinksResolve

LEMMA FollowReaches ==
  ASSUME S!SiteAssumption, SiteTyped, LinksResolve, NEW link \in links, S!Follow(link)
  PROVE  GoalReached' /\ LinksResolve'
<1>1. /\ state' = "request"
      /\ request'.protocol = link.protocol /\ request'.resource = link.resource
      /\ request'.language \in Tongues \cup {None}
      /\ link.internal => request'.language = request.language
      /\ link.protocol \in S!Http => request'.method = "get"
      /\ goal' = [link EXCEPT !.resource = <<>>] /\ links' = {}
  BY FollowedBy
<1>2. link \in LinkTypes /\ Resolves(link)
  BY DEF LinksResolve
<1>3. /\ goal'.page = link.page /\ goal'.language = link.language /\ goal'.internal = link.internal
      /\ link.page \in S!Pages /\ link.language \in Tongues /\ link.internal \in BOOLEAN
  BY <1>1, <1>2 DEF LinkTypes
<1> DEFINE n == NormalizedOver(link.protocol, link.resource)
<1>4. S!Normalized' = n
  BY <1>1, Zenon DEF S!Normalized, NormalizedOver
<1>5. n.resource = S!Name(link.page) /\ (n.language = link.language \/ (n.language = None /\ link.language = Own(link)))
  BY <1>2 DEF Resolves
<1> HIDE DEF n
<1>6. S!Valid'
  BY <1>1 DEF S!Valid
<1>7. S!Normalized'.resource = S!Name(goal.page)'
  BY <1>3, <1>4, <1>5
<1>8. Chosen(S!PageLanguage(S!Normalized.language))'
  <2> SUFFICES ASSUME link.internal \/ request'.language # "d"
               PROVE  S!PageLanguage(S!Normalized.language)' = link.language
    BY <1>3 DEF Chosen
  <2>1. S!PageLanguage(S!Normalized.language)' =
          CASE n.language # None -> n.language
            [] n.language = None /\ request'.language # None -> request'.language
            [] OTHER -> S!IMPLICIT_LANGUAGE
    BY <1>4 DEF S!PageLanguage
  <2>2. None \notin Tongues /\ S!IMPLICIT_LANGUAGE = "e"
    BY DEF S!SiteAssumption, Tongues, S!IMPLICIT_LANGUAGE
  <2>3. CASE n.language = link.language
    BY <1>3, <2>1, <2>2, <2>3
  <2>4. CASE n.language = None /\ link.language = Own(link)
    <3>1. CASE link.internal
      BY <1>1, <1>3, <2>1, <2>4, <3>1 DEF Own
    <3>2. CASE ~link.internal
      <4>1. link.language = "e"
        BY <2>2, <2>4, <3>2 DEF Own
      <4>2. request'.language = "e" \/ request'.language = None
        BY <1>1, <3>2 DEF Tongues
      <4> QED BY <2>1, <2>2, <2>4, <4>1, <4>2
    <3> QED BY <3>1, <3>2
  <2> QED BY <1>5, <2>3, <2>4
<1>9. GoalReached'
  BY <1>1, <1>3, <1>6, <1>7, <1>8 DEF GoalReached, GoalAsked, GoalPrinted, GoalSent
<1> QED
  BY <1>1, <1>9 DEF LinksResolve

LEMMA SiteNext ==
  ASSUME S!SiteAssumption, SiteInv, S!Next
  PROVE  SiteInv'
<1>1. SiteTyped /\ PageWhole /\ LinksResolve /\ GoalReached
  BY DEF SiteInv
<1>2. CASE S!processor_generic
  BY <1>1, <1>2, GenericWhole, GenericReaches DEF SiteInv
<1>3. CASE S!processor_print
  BY <1>1, <1>3, PrintWhole, PrintReaches DEF SiteInv
<1>4. CASE S!processor_process
  BY <1>1, <1>4, ProcessWhole, ProcessReaches DEF SiteInv
<1>5. CASE S!processor_specific
  BY <1>1, <1>5, SpecificWhole, SpecificReaches DEF SiteInv
<1>6. CASE \E link \in links : S!Follow(link)
  <2>1. PICK link \in links : S!Follow(link)
    BY <1>6
  <2> QED BY <1>1, <2>1, FollowWhole, FollowReaches DEF SiteInv
<1> QED
  BY <1>2, <1>3, <1>4, <1>5, <1>6, Zenon DEF S!Next

(* What the invariant says of the pages.                                     *)
LEMMA SiteSafe ==
  ASSUME S!SiteAssumption, SiteInv
  PROVE  /\ S!TypeOK /\ S!NoDeadLinks /\ S!LanguageKept
         /\ S!HtmlBalanced /\ S!NothingStale /\ S!HeaderIsTrue
<1>1. SiteTyped /\ PageWhole /\ GoalReached /\ None \notin Tongues
  BY DEF SiteInv, S!SiteAssumption, Tongues
<1>2. S!TypeOK
  <2>1. /\ context.language \in Tongues \cup {None} /\ context.requested \in Tongues \cup {None}
        /\ request.protocol \in SiteProtocols /\ page \in S!Pages \cup {None}
    BY <1>1 DEF SiteTyped, Contexts
  <2>2. state = "print" => context.language # None
    BY <1>1 DEF PageWhole, Printing
  <2> QED BY <2>1, <2>2 DEF S!TypeOK, Tongues
<1>3. S!NoDeadLinks /\ S!LanguageKept
  BY <1>1 DEF GoalReached, GoalPrinted, GoalSent, Chosen, S!NoDeadLinks, S!LanguageKept
<1>4. S!HtmlBalanced
  <2>1. open \in {<<>>, <<"html", "body">>, <<"html", "body", "ul">>}
    <3>1. state \in SiteStates
      BY <1>1 DEF SiteTyped
    <3>2. open = <<>> \/ open = Between
      BY <1>1, <3>1 DEF PageWhole, Printing, Answered, AtBeginning, Amid, AtEnd, SiteStates
    <3> QED BY <3>2, Zenon DEF Between
  <2>2. "mismatch" \notin Tag
    BY DEF Tag
  <2>3. open \in Seq(Tag)
    <3>1. <<>> \in Seq(Tag) /\ <<"html", "body">> \in Seq(Tag)
      BY DEF Tag
    <3>2. <<"html", "body", "ul">> \in Seq(Tag)
      BY DEF Tag
    <3> QED BY <2>1, <3>1, <3>2, Zenon
  <2>4. "mismatch" \notin S!Range(open)
    BY <2>2, <2>3 DEF S!Range
  <2>5. state = "sent" => open = <<>>
    BY <1>1 DEF PageWhole, Answered
  <2> QED BY <2>4, <2>5, Zenon DEF S!HtmlBalanced
<1>5. S!NothingStale /\ S!HeaderIsTrue
  BY <1>1 DEF PageWhole, Answered, Announced, S!NothingStale, S!HeaderIsTrue
<1> QED
  BY <1>2, <1>3, <1>4, <1>5

------------------------------------------------------------------------------
(* The whole of Requests.  The parsers with well-formed and with disturbed   *)
(* input are those of ParserProofs.                                          *)
PP == INSTANCE ParserProofs WITH
  done <- recognised,
  Inputs <- Proper.Inputs, MAX_REQUEST_SIZE <- Proper.MAX_REQUEST_SIZE,
  MAX_REQUEST_STREAM_SIZE <- Proper.MAX_REQUEST_STREAM_SIZE, MaxRead <- Proper.MaxRead
DP == INSTANCE ParserProofs WITH
  done <- recognised,
  Inputs <- Disturbed.Inputs, MAX_REQUEST_SIZE <- Disturbed.MAX_REQUEST_SIZE,
  MAX_REQUEST_STREAM_SIZE <- Disturbed.MAX_REQUEST_STREAM_SIZE, MaxRead <- Disturbed.MaxRead

LEMMA SameParser ==
  /\ P!ParserAssumption <=> PP!ParserAssumption
  /\ P!Init <=> PP!Init
  /\ P!Next <=> PP!Next
  /\ P!vars = PP!vars
  /\ P!TypeOK <=> PP!TypeOK
  /\ P!Consumes <=> PP!Consumes
  /\ P!RequestInside <=> PP!RequestInside
  /\ P!FieldsInside <=> PP!FieldsInside
<1>1. P!ParserAssumption <=> PP!ParserAssumption
  BY Zenon
    DEF P!ParserAssumption, PP!ParserAssumption, P!Protocols, PP!Protocols
<1>2. P!vars = PP!vars /\ P!NewParser = PP!NewParser
  BY Zenon
    DEF P!vars, PP!vars, P!NewParser, PP!NewParser, P!Loc, PP!Loc
<1>3. P!Init <=> PP!Init
  BY <1>2, Zenon
    DEF P!Init, PP!Init
<1>4. ASSUME NEW proto, NEW r, NEW c, NEW s, NEW available
      PROVE  P!Step(proto, r, c, s, available) = PP!Step(proto, r, c, s, available)
  BY Zenon
    DEF P!Loc, PP!Loc, P!Letters, PP!Letters, P!CM_SPACE, PP!CM_SPACE, P!CM_NEWLINE, PP!CM_NEWLINE,
        P!CM_METHOD, PP!CM_METHOD, P!CM_RESOURCE, PP!CM_RESOURCE, P!CM_PROTOCOL, PP!CM_PROTOCOL,
        P!CM_NAME, PP!CM_NAME, P!CM_VALUE, PP!CM_VALUE, P!CM_DOMAIN, PP!CM_DOMAIN, P!NewParser,
        PP!NewParser, P!Fail, PP!Fail, P!Invalid, PP!Invalid, P!At, PP!At, P!Text, PP!Text, P!Begin,
        PP!Begin, P!Grow, PP!Grow, P!WaitBegin, PP!WaitBegin, P!WaitEnd, PP!WaitEnd, P!AfterHead,
        PP!AfterHead, P!FinalLf, PP!FinalLf, P!LastLine, PP!LastLine, P!Content, PP!Content,
        P!Trimmed, PP!Trimmed, P!Digit, PP!Digit, P!Number, PP!Number, P!Elements, PP!Elements,
        P!ContentLength, PP!ContentLength, P!parser_parse_http_name_value,
        PP!parser_parse_http_name_value, P!LineEnd, PP!LineEnd, P!WaitLineLf, PP!WaitLineLf,
        P!WaitNameBegin, PP!WaitNameBegin, P!ValueBegin, PP!ValueBegin, P!WaitColon, PP!WaitColon,
        P!WaitNameEnd, PP!WaitNameEnd, P!WaitValueEnd, PP!WaitValueEnd, P!parser_parse_http,
        PP!parser_parse_http, P!parser_parse_gopher, PP!parser_parse_gopher, P!parser_parse_finger,
        PP!parser_parse_finger, P!Prefix, PP!Prefix, P!parser_parse_gemini_like,
        PP!parser_parse_gemini_like, P!SpartanLength, PP!SpartanLength, P!parser_parse_spartan,
        PP!parser_parse_spartan, P!FirstState, PP!FirstState, P!Step, PP!Step, P!Min, PP!Min, P!Max,
        PP!Max
<1>5. P!Reads = PP!Reads
  BY Zenon
    DEF P!Reads, PP!Reads
<1>6. ASSUME NEW n, NEW seam PROVE P!Read(n, seam) <=> PP!Read(n, seam)
  BY Zenon
    DEF P!Read, PP!Read, P!Limit, PP!Limit, P!FirstState, PP!FirstState, P!At, PP!At, P!Min, PP!Min, P!Max, PP!Max
<1>7. P!Character <=> PP!Character
  BY <1>4, Zenon
    DEF P!Character, PP!Character, P!Advance, PP!Advance, P!InPart, PP!InPart
<1>8. P!NextPart <=> PP!NextPart
  BY Zenon
    DEF P!NextPart, PP!NextPart, P!InPart, PP!InPart
<1>9. P!Parsed <=> PP!Parsed
  BY Zenon
    DEF P!Parsed, PP!Parsed, P!InPart, PP!InPart, P!Fail, PP!Fail
<1>10. P!Process <=> PP!Process
  BY <1>2, Zenon
    DEF P!Process, PP!Process, P!NewParser, PP!NewParser, P!Loc, PP!Loc, P!Result, PP!Result,
        P!Fail, PP!Fail
<1>11. P!Quiet <=> PP!Quiet
  BY Zenon
    DEF P!Quiet, PP!Quiet, P!vars, PP!vars
<1>12. P!Next <=> PP!Next
  BY <1>5, <1>6, <1>7, <1>8, <1>9, <1>10, <1>11, Zenon
    DEF P!Next, PP!Next
<1>13. P!TypeOK <=> PP!TypeOK
  BY <1>2, Zenon
    DEF P!TypeOK, PP!TypeOK
<1>14. /\ P!Consumes <=> PP!Consumes
       /\ P!RequestInside <=> PP!RequestInside
       /\ P!FieldsInside <=> PP!FieldsInside
  BY Zenon
    DEF P!Consumes, PP!Consumes, P!RequestInside, PP!RequestInside, P!FieldsInside, PP!FieldsInside
<1> QED BY <1>1, <1>2, <1>3, <1>12, <1>13, <1>14

LEMMA SameDisturbed ==
  /\ D!ParserAssumption <=> DP!ParserAssumption
  /\ D!Init <=> DP!Init
  /\ D!Next <=> DP!Next
  /\ D!vars = DP!vars
  /\ D!TypeOK <=> DP!TypeOK
  /\ D!Consumes <=> DP!Consumes
  /\ D!RequestInside <=> DP!RequestInside
  /\ D!FieldsInside <=> DP!FieldsInside
<1>1. D!ParserAssumption <=> DP!ParserAssumption
  BY Zenon
    DEF D!ParserAssumption, DP!ParserAssumption, D!Protocols, DP!Protocols
<1>2. D!vars = DP!vars /\ D!NewParser = DP!NewParser
  BY Zenon
    DEF D!vars, DP!vars, D!NewParser, DP!NewParser, D!Loc, DP!Loc
<1>3. D!Init <=> DP!Init
  BY <1>2, Zenon
    DEF D!Init, DP!Init
<1>4. ASSUME NEW proto, NEW r, NEW c, NEW s, NEW available
      PROVE  D!Step(proto, r, c, s, available) = DP!Step(proto, r, c, s, available)
  BY Zenon
    DEF D!Loc, DP!Loc, D!Letters, DP!Letters, D!CM_SPACE, DP!CM_SPACE, D!CM_NEWLINE, DP!CM_NEWLINE,
        D!CM_METHOD, DP!CM_METHOD, D!CM_RESOURCE, DP!CM_RESOURCE, D!CM_PROTOCOL, DP!CM_PROTOCOL,
        D!CM_NAME, DP!CM_NAME, D!CM_VALUE, DP!CM_VALUE, D!CM_DOMAIN, DP!CM_DOMAIN, D!NewParser,
        DP!NewParser, D!Fail, DP!Fail, D!Invalid, DP!Invalid, D!At, DP!At, D!Text, DP!Text, D!Begin,
        DP!Begin, D!Grow, DP!Grow, D!WaitBegin, DP!WaitBegin, D!WaitEnd, DP!WaitEnd, D!AfterHead,
        DP!AfterHead, D!FinalLf, DP!FinalLf, D!LastLine, DP!LastLine, D!Content, DP!Content,
        D!Trimmed, DP!Trimmed, D!Digit, DP!Digit, D!Number, DP!Number, D!Elements, DP!Elements,
        D!ContentLength, DP!ContentLength, D!parser_parse_http_name_value,
        DP!parser_parse_http_name_value, D!LineEnd, DP!LineEnd, D!WaitLineLf, DP!WaitLineLf,
        D!WaitNameBegin, DP!WaitNameBegin, D!ValueBegin, DP!ValueBegin, D!WaitColon, DP!WaitColon,
        D!WaitNameEnd, DP!WaitNameEnd, D!WaitValueEnd, DP!WaitValueEnd, D!parser_parse_http,
        DP!parser_parse_http, D!parser_parse_gopher, DP!parser_parse_gopher, D!parser_parse_finger,
        DP!parser_parse_finger, D!Prefix, DP!Prefix, D!parser_parse_gemini_like,
        DP!parser_parse_gemini_like, D!SpartanLength, DP!SpartanLength, D!parser_parse_spartan,
        DP!parser_parse_spartan, D!FirstState, DP!FirstState, D!Step, DP!Step, D!Min, DP!Min, D!Max,
        DP!Max
<1>5. D!Reads = DP!Reads
  BY Zenon
    DEF D!Reads, DP!Reads
<1>6. ASSUME NEW n, NEW seam PROVE D!Read(n, seam) <=> DP!Read(n, seam)
  BY Zenon
    DEF D!Read, DP!Read, D!Limit, DP!Limit, D!FirstState, DP!FirstState, D!At, DP!At, D!Min, DP!Min, D!Max, DP!Max
<1>7. D!Character <=> DP!Character
  BY <1>4, Zenon
    DEF D!Character, DP!Character, D!Advance, DP!Advance, D!InPart, DP!InPart
<1>8. D!NextPart <=> DP!NextPart
  BY Zenon
    DEF D!NextPart, DP!NextPart, D!InPart, DP!InPart
<1>9. D!Parsed <=> DP!Parsed
  BY Zenon
    DEF D!Parsed, DP!Parsed, D!InPart, DP!InPart, D!Fail, DP!Fail
<1>10. D!Process <=> DP!Process
  BY <1>2, Zenon
    DEF D!Process, DP!Process, D!NewParser, DP!NewParser, D!Loc, DP!Loc, D!Result, DP!Result,
        D!Fail, DP!Fail
<1>11. D!Quiet <=> DP!Quiet
  BY Zenon
    DEF D!Quiet, DP!Quiet, D!vars, DP!vars
<1>12. D!Next <=> DP!Next
  BY <1>5, <1>6, <1>7, <1>8, <1>9, <1>10, <1>11, Zenon
    DEF D!Next, DP!Next
<1>13. D!TypeOK <=> DP!TypeOK
  BY <1>2, Zenon
    DEF D!TypeOK, DP!TypeOK
<1>14. /\ D!Consumes <=> DP!Consumes
       /\ D!RequestInside <=> DP!RequestInside
       /\ D!FieldsInside <=> DP!FieldsInside
  BY Zenon
    DEF D!Consumes, DP!Consumes, D!RequestInside, DP!RequestInside, D!FieldsInside, DP!FieldsInside
<1> QED BY <1>1, <1>2, <1>3, <1>12, <1>13, <1>14

Machines == {"tls", "parser", "disturbed", "values", "language", "site"}
RequestInv ==
  /\ IInv /\ machine \in Machines
  /\ machine = "parser" => PP!PInv
  /\ machine = "disturbed" => DP!PInv
  /\ machine = "values" => VInv /\ ValuesTyped
  /\ machine = "language" => LanguageTyped
  /\ machine = "site" => SiteInv

(* Every one of them begins with its invariant.                              *)
LEMMA RequestBegins ==
  RequestInit => RequestInv
<1> SUFFICES ASSUME RequestInit PROVE RequestInv
  OBVIOUS
<1>1. /\ TlsAssumption /\ P!ParserAssumption /\ D!ParserAssumption
      /\ V!ValuesAssumption /\ L!LanguageAssumption /\ S!SiteAssumption
  BY RequestsAssumption
<1>2. IInv
  BY <1>1, InitInvariant DEF RequestInit
<1>3. machine \in Machines
  BY Zenon DEF RequestInit, Machines
<1>4. ASSUME machine = "parser" PROVE PP!PInv
  <2>1. P!Init
    BY <1>4 DEF RequestInit
  <2> QED BY <1>1, <2>1, SameParser, PP!ParserInit
<1>5. ASSUME machine = "disturbed" PROVE DP!PInv
  <2>1. D!Init
    BY <1>5 DEF RequestInit
  <2> QED BY <1>1, <2>1, SameDisturbed, DP!ParserInit
<1>6. ASSUME machine = "values" PROVE VInv /\ ValuesTyped
  <2>1. V!Init
    BY <1>6 DEF RequestInit
  <2> QED BY <1>1, <2>1, ValuesInit, ValuesTypedInit
<1>7. ASSUME machine = "language" PROVE LanguageTyped
  <2>1. L!Init
    BY <1>7 DEF RequestInit
  <2> QED BY <1>1, <2>1, LanguageTypedInit
<1>8. ASSUME machine = "site" PROVE SiteInv
  <2>1. S!Init
    BY <1>8 DEF RequestInit
  <2> QED BY <1>1, <2>1, SiteBegins
<1> QED
  BY <1>2, <1>3, <1>4, <1>5, <1>6, <1>7, <1>8, Zenon DEF RequestInv

LEMMA SiteStays ==
  ASSUME SiteInv, UNCHANGED S!vars
  PROVE  SiteInv'
<1>1. /\ state' = state /\ request' = request /\ context' = context /\ page' = page
      /\ script' = script /\ one' = one /\ two' = two /\ open' = open /\ links' = links
      /\ gap' = gap /\ announced' = announced /\ response' = response /\ goal' = goal
  BY DEF S!vars
<1>2. SiteTyped' /\ PageWhole'
  BY <1>1 DEF SiteInv, SiteTyped, PageWhole, Printing, Answered, AtBeginning, Between, Amid,
              Announced, AtEnd
<1>3. LinksResolve'
  BY <1>1, Zenon DEF SiteInv, LinksResolve, Resolves, Own
<1>4. S!Valid' = S!Valid /\ S!Normalized' = S!Normalized
  BY <1>1, Zenon DEF S!Valid, S!Normalized
<1>5. ASSUME NEW l PROVE S!PageLanguage(l)' = S!PageLanguage(l)
  BY <1>1, Zenon DEF S!PageLanguage
<1>6. GoalReached'
  BY <1>1, <1>4, <1>5, Zenon
    DEF SiteInv, GoalReached, Chosen, GoalAsked, GoalPrinted, GoalSent, S!PageLanguage
<1> QED
  BY <1>2, <1>3, <1>6 DEF SiteInv

(* The invariant is about the variables of its machine alone.                *)
LEMMA RequestStays ==
  ASSUME RequestInv, UNCHANGED requestVars
  PROVE  RequestInv'
<1>1. /\ TlsAssumption /\ P!ParserAssumption /\ D!ParserAssumption
      /\ V!ValuesAssumption /\ L!LanguageAssumption /\ S!SiteAssumption
  BY RequestsAssumption
<1>2. /\ machine' = machine /\ UNCHANGED vars /\ UNCHANGED V!vars /\ UNCHANGED L!vars
      /\ UNCHANGED S!vars
  BY DEF requestVars, ofValues, ofLanguage, ofSite, V!vars, L!vars, S!vars
<1>3. UNCHANGED PP!vars /\ UNCHANGED DP!vars
  BY DEF requestVars, ofParser, PP!vars, DP!vars
<1>4. IInv'
  BY <1>1, <1>2, StepInvariant DEF RequestInv
<1>5. (machine = "parser" => PP!PInv') /\ (machine = "disturbed" => DP!PInv')
  BY <1>1, <1>3, SameParser, SameDisturbed, PP!ParserNext, DP!ParserNext DEF RequestInv
<1>6. (machine = "values" => VInv' /\ ValuesTyped') /\ (machine = "language" => LanguageTyped')
  BY <1>1, <1>2, ValuesNext, ValuesTypedNext, LanguageTypedNext DEF RequestInv
<1>7. machine = "site" => SiteInv'
  BY <1>2, SiteStays DEF RequestInv
<1> QED
  BY <1>2, <1>4, <1>5, <1>6, <1>7, Zenon DEF RequestInv

LEMMA RequestGoesOn ==
  RequestInv /\ [RequestNext]_requestVars => RequestInv'
<1> SUFFICES ASSUME RequestInv, [RequestNext]_requestVars PROVE RequestInv'
  OBVIOUS
<1>1. /\ TlsAssumption /\ P!ParserAssumption /\ D!ParserAssumption
      /\ V!ValuesAssumption /\ L!LanguageAssumption /\ S!SiteAssumption
  BY RequestsAssumption
<1>2. IInv /\ machine \in Machines
  BY DEF RequestInv
<1>3. ASSUME UNCHANGED vars PROVE IInv'
  BY <1>1, <1>2, <1>3, StepInvariant
<1>4. CASE TlsRecords
  <2>1. machine' = machine /\ machine = "tls" /\ IInv'
    BY <1>1, <1>2, <1>4, StepInvariant DEF TlsRecords
  <2> QED BY <1>2, <2>1, Zenon DEF RequestInv
<1>5. CASE Parse
  <2>1. machine' = machine /\ machine = "parser" /\ IInv'
    BY <1>3, <1>5 DEF Parse, NotTls
  <2>2. PP!PInv'
    <3>1. PP!PInv /\ PP!Next
      BY <1>5, SameParser DEF Parse, NotTls, RequestInv
    <3> QED BY <1>1, <3>1, SameParser, PP!ParserNext
  <2> QED BY <1>2, <2>1, <2>2, Zenon DEF RequestInv
<1>6. CASE ParseDisturbed
  <2>1. machine' = machine /\ machine = "disturbed" /\ IInv'
    BY <1>3, <1>6 DEF ParseDisturbed, NotTls
  <2>2. DP!PInv'
    <3>1. DP!PInv /\ DP!Next
      BY <1>6, SameDisturbed DEF ParseDisturbed, NotTls, RequestInv
    <3> QED BY <1>1, <3>1, SameDisturbed, DP!ParserNext
  <2> QED BY <1>2, <2>1, <2>2, Zenon DEF RequestInv
<1>7. CASE Loop
  <2>1. machine' = machine /\ machine = "values" /\ IInv'
    BY <1>3, <1>7 DEF Loop, NotTls
  <2>2. VInv' /\ ValuesTyped'
    <3>1. VInv /\ ValuesTyped /\ V!Next
      BY <1>7 DEF Loop, NotTls, RequestInv
    <3> QED BY <1>1, <3>1, ValuesNext, ValuesTypedNext
  <2> QED BY <1>2, <2>1, <2>2, Zenon DEF RequestInv
<1>8. CASE Choose
  <2>1. machine' = machine /\ machine = "language" /\ IInv'
    BY <1>3, <1>8 DEF Choose, NotTls
  <2>2. LanguageTyped'
    <3>1. LanguageTyped /\ L!Next
      BY <1>8 DEF Choose, NotTls, RequestInv
    <3> QED BY <1>1, <3>1, LanguageTypedNext
  <2> QED BY <1>2, <2>1, <2>2, Zenon DEF RequestInv
<1>9. CASE Browse
  <2>1. machine' = machine /\ machine = "site" /\ IInv'
    BY <1>3, <1>9 DEF Browse, NotTls
  <2>2. SiteInv'
    <3>1. SiteInv /\ S!Next
      BY <1>9 DEF Browse, NotTls, RequestInv
    <3> QED BY <1>1, <3>1, SiteNext
  <2> QED BY <1>2, <2>1, <2>2, Zenon DEF RequestInv
<1>10. CASE Silence \/ UNCHANGED requestVars
  BY <1>10, RequestStays DEF Silence
<1> QED
  BY <1>4, <1>5, <1>6, <1>7, <1>8, <1>9, <1>10, Zenon DEF RequestNext

LEMMA RequestInvariant ==
  RequestSpec => []RequestInv
BY RequestBegins, RequestGoesOn, PTL DEF RequestSpec

(* What the invariant says of the machines.                                  *)
LEMMA RequestSafe ==
  ASSUME RequestInv
  PROVE  /\ TypesOK /\ RequestInside /\ SeamIsInvisible /\ Accounted /\ ShutDownOnce
         /\ LinksLead /\ ResponseIsWhole
<1>1. /\ P!ParserAssumption /\ D!ParserAssumption
      /\ V!ValuesAssumption /\ L!LanguageAssumption /\ S!SiteAssumption
  BY RequestsAssumption
<1>2. TypeOK /\ Accounted /\ ShutDownOnce
  BY TlsSafe DEF RequestInv
<1>3. ASSUME machine = "parser" PROVE P!TypeOK /\ P!Consumes
  BY <1>1, <1>3, SameParser, PP!ParserTypes, PP!ParserSafe DEF RequestInv
<1>4. ASSUME machine = "disturbed"
      PROVE  D!TypeOK /\ D!Consumes /\ D!RequestInside /\ D!FieldsInside
  BY <1>1, <1>4, SameDisturbed, DP!ParserTypes, DP!ParserSafe DEF RequestInv
<1>5. ASSUME machine = "values" PROVE V!TypeOK /\ V!TrimIsExact /\ V!CutIsExact /\ V!UintIsExact
  BY <1>1, <1>5, ValuesTypes, ValuesSafe, ValuesReads DEF RequestInv
<1>6. ASSUME machine = "language" PROVE L!TypeOK
  BY <1>6, LanguageTypes DEF RequestInv
<1>7. ASSUME machine = "site"
      PROVE  /\ S!TypeOK /\ S!NoDeadLinks /\ S!LanguageKept
             /\ S!HtmlBalanced /\ S!NothingStale /\ S!HeaderIsTrue
  BY <1>1, <1>7, SiteSafe DEF RequestInv
<1>8. TypesOK
  <2>1. machine \in Machines
    BY DEF RequestInv
  <2>2. CASE machine = "tls"
    BY <1>2, <2>2 DEF TypesOK
  <2>3. CASE machine = "parser"
    BY <1>3, <2>3 DEF TypesOK
  <2>4. CASE machine = "disturbed"
    BY <1>4, <2>4 DEF TypesOK
  <2>5. CASE machine = "values"
    BY <1>5, <2>5 DEF TypesOK
  <2>6. CASE machine = "language"
    BY <1>6, <2>6 DEF TypesOK
  <2>7. CASE machine = "site"
    BY <1>7, <2>7 DEF TypesOK
  <2> QED BY <2>1, <2>2, <2>3, <2>4, <2>5, <2>6, <2>7 DEF Machines
<1>9. RequestInside /\ SeamIsInvisible
  BY <1>3, <1>4, <1>5 DEF RequestInside, SeamIsInvisible
<1>10. LinksLead /\ ResponseIsWhole
  BY <1>7 DEF LinksLead, ResponseIsWhole
<1> QED
  BY <1>2, <1>8, <1>9, <1>10

(* The parser, the loops over headers, the pages and a TLS connection keep   *)
(* every field, position and size in its buffer and its range, for every     *)
(* size of the buffers, every input and every site.                          *)
THEOREM RequestTypesOK ==
  RequestSpec => []TypesOK
BY RequestInvariant, RequestSafe, PTL

(* Whatever a peer sends and in whatever pieces, parser_parse leaves nothing *)
(* unparsed that arrived, a complete request lies in what arrived and in its *)
(* limit, and its fields lie in it.                                          *)
THEOREM RequestRequestInside ==
  RequestSpec => []RequestInside
BY RequestInvariant, RequestSafe, PTL

(* Wherever a value wraps in the ring, value_trim, value_first_second and    *)
(* value_to_uint see the text as if it did not.                              *)
THEOREM RequestSeamIsInvisible ==
  RequestSpec => []SeamIsInvisible
BY RequestInvariant, RequestSafe, PTL

(* The sizes of the pending responses add up to the encrypted bytes that are *)
(* still to be sent (cryptography_encrypt, server_pop_responses).            *)
THEOREM RequestAccounted ==
  RequestSpec => []Accounted
BY RequestInvariant, RequestSafe, PTL

(* The close_notify of cryptography_finalize is the last record that is      *)
(* sent, the SSL object is not used after it was freed, and the fixed        *)
(* message that high_level.c:228 sends in plain text comes only during the   *)
(* shutdown and with the end of the client.                                  *)
THEOREM RequestShutDownOnce ==
  RequestSpec => []ShutDownOnce
BY RequestInvariant, RequestSafe, PTL

(* Every link that processor_print prints, over every protocol, in every     *)
(* language, and after any chain of links, leads to its page and in its      *)
(* language: processor_generic_normalize_slash and _normalize_question undo  *)
(* what the printers of the protocols write.                                 *)
THEOREM RequestLinksLead ==
  RequestSpec => []LinksLead
BY RequestInvariant, RequestSafe, PTL

(* Whatever page is printed over whatever protocol, the elements of the      *)
(* response are closed in order, nothing of an earlier response is in the    *)
(* buffers it is sent from, and its header tells the truth.                  *)
THEOREM RequestResponseIsWhole ==
  RequestSpec => []ResponseIsWhole
BY RequestInvariant, RequestSafe, PTL
=============================================================================
