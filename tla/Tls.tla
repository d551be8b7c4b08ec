-------------------------------- MODULE Tls ---------------------------------
(***************************************************************************)
(* One HTTPS or Gemini connection: source/cryptography.c between the event *)
(* loop (source/server/high_level.c, receive.c, process.c, send.c) and     *)
(* OpenSSL, which is external and modelled from these calls.               *)
(*                                                                         *)
(* The unit of data is the TLS record.  A record from the peer is a step   *)
(* of the handshake, one request ("keep" and "last" by their keep_alive,   *)
(* "bad" if the parser rejects it) or the close_notify.  A record to the   *)
(* peer is "handshake", "data" or "notify"; "plain" is what was never      *)
(* encrypted.                                                              *)
(***************************************************************************)
EXTENDS Integers, Sequences, Functions

CONSTANTS
  MAX_RESPONSE_STREAM_SIZE,
  RecordsOf,       \* the records that one response is encrypted to
  MaxRecords       \* bound: the requests that the peer sends

VARIABLES
  client,          \* struct Client
  peer, sent,      \* what the peer has come to, the number of its requests
  socket,          \* what has arrived and was not read
  pc, expired, exhausted, saturated, done,
  closing,         \* history: a request without keep_alive was processed, or none could be
  misused,         \* history: OpenSSL was called with a NULL SSL
  plain            \* history: a fixed message was sent without encryption

visit == <<pc, expired, exhausted, saturated, done>>
peers == <<peer, sent, socket>>
past == <<closing, misused, plain>>
vars == <<client, peers, visit, past>>

Requests == {"keep", "last", "bad"}

TlsAssumption ==
  /\ MAX_RESPONSE_STREAM_SIZE \in Nat \ {0} /\ RecordsOf \in Nat \ {0} /\ MaxRecords \in Nat

Silent(n) == [stream_size |-> n, keep_alive |-> FALSE, silent |-> TRUE]
Response(keep) == [stream_size |-> 1, keep_alive |-> keep, silent |-> FALSE]

NewClient ==                               \* cryptography_initialize
  [cryptography_state |-> "CS_PENDING_HANDSHAKE", ssl |-> TRUE, read_bio |-> <<>>,
   request_stream |-> <<>>, parser |-> "begin",
   response |-> Silent(0), response_queue |-> <<>>, response_count |-> 0,
   response_stream |-> <<>>, dead |-> FALSE]

-----------------------------------------------------------------------------
(* cryptography.c, and what the loop does to a client in one go.           *)

Pushed(c, r) ==
  [c EXCEPT !.response_queue = Append(@, r),
            !.response = IF c.response_count = 0 THEN r ELSE @]

Counted(c) == [c EXCEPT !.response_count = @ + 1]

\* The pump from the write BIO takes all there is, for a BIO_read is only
\* short at the end; a silent response stands for what it took.
cryptography_create_silent_response(c, records) ==
  IF records = <<>> THEN c
  ELSE Counted(Pushed([c EXCEPT !.response_stream = @ \o records], Silent(Len(records))))

\* One that takes the cached response for another one.
cryptography_encrypt_uncached(c) ==
  [c EXCEPT !.response_stream = @ \o [i \in 1 .. RecordsOf |-> "data"],
            !.response_queue[Len(c.response_queue)].stream_size = RecordsOf]
\* The response was pushed with the size of its plain text.
cryptography_encrypt(c) ==
  [c EXCEPT !.response_stream = @ \o [i \in 1 .. RecordsOf |-> "data"],
            !.response_queue[Len(c.response_queue)].stream_size = RecordsOf,
            !.response.stream_size = IF c.response_count = 0 THEN RecordsOf ELSE c.response.stream_size]

\* SSL_shutdown sends its close_notify and returns 0, for the peer's has not
\* been read: that would have ended the client.
cryptography_finalize(c) ==
  [cryptography_create_silent_response(c, <<"notify">>) EXCEPT
     !.cryptography_state = "CS_PENDING_SHUTDOWN", !.ssl = FALSE]

Dead(c) == [c EXCEPT !.dead = TRUE, !.ssl = FALSE]

\* The fixed response instead of a close; SSL_write fails before the end of
\* the handshake.
server_process_client_round_recovery(c) ==
  IF c.cryptography_state # "CS_OPERATIONAL" THEN Dead(c)
  ELSE cryptography_finalize(Counted(cryptography_encrypt(Pushed(c, Response(FALSE)))))

\* One that recovers whatever has become of the connection.
Recovers_always(c) == TRUE
Recovers(c) == c.ssl /\ c.cryptography_state # "CS_PENDING_SHUTDOWN"

-----------------------------------------------------------------------------
(* The conditions of the loop.                                             *)

HasRoom(c) == Len(c.response_stream) < MAX_RESPONSE_STREAM_SIZE

get_makes_sense_to_receive(c) ==
  c.cryptography_state # "CS_SHUTDOWN" /\ c.parser # "end" /\ HasRoom(c)

\* One that goes on parsing during the shutdown.
get_makes_sense_to_parse_late(c) ==
  c.cryptography_state # "CS_PENDING_HANDSHAKE" /\ c.parser # "end" /\ c.request_stream # <<>> /\ HasRoom(c)
get_makes_sense_to_parse(c) ==
  c.cryptography_state = "CS_OPERATIONAL" /\ c.parser # "end" /\ c.request_stream # <<>> /\ HasRoom(c)

get_makes_sense_to_send(c) == c.response_stream # <<>>

Init ==
  /\ client = NewClient
  /\ peer = "new" /\ sent = 0 /\ socket = <<>>
  /\ pc = "poll" /\ expired = "none"
  /\ exhausted = FALSE /\ saturated = FALSE /\ done = FALSE
  /\ closing = FALSE /\ misused = FALSE /\ plain = FALSE

-----------------------------------------------------------------------------
(* The peer: a handshake, requests, a close_notify, the end.  It may close *)
(* the connection at any time.                                             *)

PeerSends(record, state) ==
  /\ socket' = Append(socket, record) /\ peer' = state
  /\ UNCHANGED <<client, visit, past>>

PeerHello == peer = "new" /\ PeerSends("hello", "hello") /\ UNCHANGED sent

\* Only with the server's answer.
PeerFinished ==
  /\ peer = "hello" /\ socket = <<>> /\ client.read_bio = <<>> /\ client.response_stream = <<>>
  /\ PeerSends("finished", "open") /\ UNCHANGED sent

PeerRequests ==
  /\ peer = "open" /\ sent < MaxRecords
  /\ \E r \in Requests : PeerSends(r, "open")
  /\ sent' = sent + 1

PeerNotifies == peer \in {"hello", "open"} /\ PeerSends("close", "notified") /\ UNCHANGED sent

PeerCloses ==
  /\ peer # "closed" /\ peer' = "closed"
  /\ UNCHANGED <<client, sent, socket, visit, past>>

-----------------------------------------------------------------------------
(* A visit.                                                                *)

\* The flags (PARTIAL_EEF_) of what may strike first: a request that is not
\* complete or an input that is empty for too long; a connection that failed
\* or an output that nobody reads.
Flags == [request |-> {"send", "shutdown"}, input |-> {"shutdown"}, failed |-> {"close"}]

\* What poll() was asked for and did not report is not tried.
Visit ==
  /\ pc = "poll" /\ ~client.dead
  /\ pc' = "receive" /\ done' = FALSE
  /\ expired' \in {e \in {"none"} \cup DOMAIN Flags :
                     /\ e = "request" => client.response_stream # <<>>
                     /\ e = "input" => client.request_stream = <<>>}
  /\ exhausted' = (get_makes_sense_to_receive(client) /\ socket = <<>> /\ peer # "closed")
  /\ saturated' \in {b \in BOOLEAN : b => get_makes_sense_to_send(client)}
  /\ UNCHANGED <<client, peers, past>>

NextStep(state) == pc' = state

\* The label failure of server_process_client_round: a fixed response and the
\* shutdown, which may fail itself, and then without a fixed message, for its
\* error comes before the SSL object is freed or has no PARTIAL_EEF_SEND.
Recovery(c) ==
  /\ client' \in {server_process_client_round_recovery(c), Dead(c)}
  /\ misused' = (misused \/ ~c.ssl)
  /\ UNCHANGED plain

\* The one of server_process_client.  Without an SSL object the fixed message
\* is sent as it is, also to a peer with which TLS is being shut down.
Farewell(c, flags) ==
  /\ client' = Dead(c)
  /\ plain' = (plain \/ ("send" \in flags /\ ~c.ssl))
  /\ UNCHANGED misused

\* The visit goes on after a recovery, and ends with the client otherwise.
Failure(c, flags) ==
  /\ \/ Recovers(c) /\ "shutdown" \in flags /\ Recovery(c)
     \/ ~ (Recovers(c) /\ "shutdown" \in flags) /\ Farewell(c, flags)
  /\ done' = FALSE /\ NextStep(IF client'.dead THEN "poll" ELSE "receive")

\* Only in the first round: the flag first.
check_timeouts ==
  /\ pc = "receive" /\ expired # "none"
  /\ expired' = "none"
  /\ Failure(client, Flags[expired])
  /\ UNCHANGED <<peers, exhausted, saturated, closing>>

MayReceive == pc = "receive" /\ expired = "none" /\ ~exhausted /\ get_makes_sense_to_receive(client)

\* SSL_accept and the records it produces: an answer, session tickets.
Accepted(c) ==
  IF c.cryptography_state # "CS_PENDING_HANDSHAKE" \/ c.read_bio = <<>>
  THEN {[client |-> c, out |-> <<>>]}
  ELSE LET rest == [c EXCEPT !.read_bio = Tail(@)]
       IN CASE Head(c.read_bio) = "hello" -> {[client |-> rest, out |-> <<"handshake">>]}
            [] Head(c.read_bio) = "finished" ->
                 {[client |-> [rest EXCEPT !.cryptography_state = "CS_OPERATIONAL"], out |-> out]
                    : out \in {<<>>, <<"handshake">>}}
            [] OTHER -> {[client |-> [rest EXCEPT !.cryptography_state = "CS_SHUTDOWN"], out |-> <<>>]}

\* SSL_read returns one record at a time.  The pump ends with the first one
\* that leaves space in its part of the ring, or with the last, and finds
\* the close_notify only behind a record that leaves none.
cryptography_pump_to_ring(c) ==
  LET bio == c.read_bio
      Reads == {n \in 0 .. Len(bio) : \A i \in 1 .. n : bio[i] \in Requests}
      Closes == {n \in Reads : n < Len(bio) /\ bio[n + 1] \notin Requests}
      Read(n) == [c EXCEPT !.read_bio = SubSeq(bio, n + 1, Len(bio)),
                           !.request_stream = @ \o SubSeq(bio, 1, n)]
  IN IF c.cryptography_state # "CS_OPERATIONAL" \/ bio = <<>> THEN {c}
     ELSE {Read(n) : n \in Reads \ {0}}
          \cup {[Read(n) EXCEPT !.read_bio = <<>>, !.cryptography_state = "CS_SHUTDOWN"] : n \in Closes}

cryptography_decrypt(c, arrived) ==
  UNION {{cryptography_create_silent_response(d, a.out) : d \in cryptography_pump_to_ring(a.client)}
           : a \in Accepted([c EXCEPT !.read_bio = @ \o arrived])}

Ended(c) ==
  \/ c.cryptography_state = "CS_PENDING_SHUTDOWN" /\ c.response_stream = <<>>
  \/ c.cryptography_state = "CS_SHUTDOWN"

\* A read takes all that has arrived; it is exhausted unless it happened to
\* get exactly what it asked for.  A client that has ended is closed, with an
\* error if something is left of it.
Receive ==
  /\ MayReceive
  /\ exhausted' \in {b \in BOOLEAN : socket = <<>> => b}
  /\ \E c \in IF client.ssl THEN cryptography_decrypt(client, socket)
              ELSE {[client EXCEPT !.request_stream = @ \o [i \in 1 .. Len(socket) |-> "raw"]]} :
       IF Ended(c) THEN client' = Dead(c) /\ NextStep("poll")
       ELSE client' = c /\ NextStep("process")
  /\ socket' = <<>> /\ done' = TRUE
  /\ UNCHANGED <<peer, sent, expired, saturated, past>>

ReceiveEnd ==                              \* CF_CLOSED, or a call that fails
  /\ MayReceive
  /\ client' = Dead(client) /\ NextStep("poll")
  /\ UNCHANGED <<peers, expired, exhausted, saturated, done, past>>

\* More than MAX_AVAILABLE_REQUEST_STREAM waits in the socket.
ReceiveTooMuch ==
  /\ MayReceive /\ socket # <<>>
  /\ Failure(client, {"send", "close"})
  /\ UNCHANGED <<peers, expired, exhausted, saturated, closing>>

NotReceive ==
  /\ pc = "receive" /\ expired = "none" /\ ~MayReceive
  /\ NextStep("process")
  /\ UNCHANGED <<client, peers, expired, exhausted, saturated, done, past>>

MayProcess == pc = "process" /\ get_makes_sense_to_parse(client)

ProcessBad ==
  /\ MayProcess /\ Head(client.request_stream) \notin {"keep", "last"}
  /\ Failure(client, {"send", "shutdown"})
  /\ UNCHANGED <<peers, expired, exhausted, saturated, closing>>

\* server_process_traffic, with the second call of cryptography_finalize in
\* server_process_client_round.
Processed(keep) ==
  LET popped == [client EXCEPT !.request_stream = Tail(@)]
      pushed == Pushed(popped, Response(keep))
      ready == Counted(IF client.ssl THEN cryptography_encrypt(pushed)
                       ELSE [pushed EXCEPT !.response_stream = Append(@, "plain")])
  IN IF ready.response.keep_alive THEN [ready EXCEPT !.parser = "begin"]
     ELSE [(IF ready.ssl THEN cryptography_finalize(ready) ELSE ready) EXCEPT !.parser = "end"]

Process ==
  /\ MayProcess /\ Head(client.request_stream) \in {"keep", "last"}
  /\ LET keep == Head(client.request_stream) = "keep"
         c == Processed(keep)
     IN /\ client' = IF c.ssl /\ c.parser = "end" THEN cryptography_finalize(c) ELSE c
        /\ closing' = (closing \/ ~keep)
  /\ done' = TRUE /\ NextStep("send")
  /\ UNCHANGED <<peers, expired, exhausted, saturated, misused, plain>>

\* No memory, or OpenSSL fails.  The parser is done, and the request is not
\* popped before its response has its place in response_queue.
ProcessFails ==
  /\ MayProcess /\ Head(client.request_stream) \in {"keep", "last"}
  /\ \E flags \in {{"close"}, {"send", "close"}, {"send", "shutdown"}} :
       Failure([client EXCEPT !.parser = "end"], flags)
  /\ closing' = TRUE
  /\ UNCHANGED <<peers, expired, exhausted, saturated>>

NotProcess ==
  /\ pc = "process" /\ ~MayProcess
  /\ NextStep("send")
  /\ UNCHANGED <<client, peers, expired, exhausted, saturated, done, past>>

\* The k-th pending response, the first one from its cached copy, and where
\* they end in response_stream.
Pending(c, k) == IF k = 1 THEN c.response ELSE c.response_queue[k]
Ends(c) ==
  LET ends[k \in 0 .. Len(c.response_queue)] ==
        IF k = 0 THEN 0 ELSE ends[k - 1] + Pending(c, k).stream_size
  IN ends

\* After n records were sent: the responses that are complete are popped, and
\* what was sent of the next one comes off its copy.
server_pop_responses(c, n) ==
  LET count == Len(c.response_queue)
      popped == CHOOSE k \in 0 .. count : Ends(c)[k] <= n /\ (k < count => Ends(c)[k + 1] > n)
      response == IF popped = count THEN [Pending(c, popped) EXCEPT !.stream_size = 0]
                  ELSE [Pending(c, popped + 1) EXCEPT !.stream_size = Ends(c)[popped + 1] - n]
  IN [c EXCEPT !.response_queue = SubSeq(@, popped + 1, count), !.response_count = @ - popped,
               !.response = response, !.response_stream = SubSeq(@, n + 1, Len(@))]

Sent(c) ==
  \/ ~c.ssl /\ c.parser = "end" /\ c.response_stream = <<>>
  \/ c.ssl /\ c.cryptography_state = "CS_SHUTDOWN" /\ c.response_stream = <<>>

Send ==
  /\ pc = "send" /\ ~saturated /\ get_makes_sense_to_send(client)
  /\ \E n \in 0 .. Len(client.response_stream) :
       LET c == server_pop_responses(client, n)
       IN /\ saturated' = (n < Len(client.response_stream))
          /\ IF Sent(c) THEN client' = Dead(c) /\ NextStep("poll")
             ELSE client' = c /\ NextStep("receive")
  /\ done' = FALSE
  /\ UNCHANGED <<peers, expired, exhausted, past>>

SendFails ==                               \* send() fails
  /\ pc = "send" /\ ~saturated /\ get_makes_sense_to_send(client)
  /\ Failure(client, {"close"})
  /\ UNCHANGED <<peers, expired, exhausted, saturated, closing>>

\* The round is over; another one follows if anything was done.
NotSend ==
  /\ pc = "send" /\ (saturated \/ ~get_makes_sense_to_send(client))
  /\ NextStep(IF done THEN "receive" ELSE "poll") /\ done' = FALSE
  /\ UNCHANGED <<client, peers, expired, exhausted, saturated, past>>

Next ==
  \/ PeerHello \/ PeerFinished \/ PeerRequests \/ PeerNotifies \/ PeerCloses
  \/ Visit \/ check_timeouts \/ Receive \/ ReceiveEnd \/ ReceiveTooMuch \/ NotReceive
  \/ ProcessBad \/ Process \/ ProcessFails \/ NotProcess \/ Send \/ SendFails \/ NotSend

Spec == Init /\ [][Next]_vars

-----------------------------------------------------------------------------
Records == {"hello", "finished", "close"} \cup Requests

\* The state is what the C declarations allow.
TypeOK ==
  /\ client.cryptography_state \in {"CS_PENDING_HANDSHAKE", "CS_OPERATIONAL", "CS_PENDING_SHUTDOWN", "CS_SHUTDOWN"}
  /\ client.ssl \in BOOLEAN /\ client.dead \in BOOLEAN /\ client.parser \in {"begin", "end"}
  /\ client.read_bio \in Seq(Records) /\ client.request_stream \in Seq(Requests \cup {"raw"})
  /\ client.response_stream \in Seq({"handshake", "data", "notify", "plain"})
  /\ {client.response} \cup Range(client.response_queue)
       \subseteq [stream_size : Nat, keep_alive : BOOLEAN, silent : BOOLEAN]
  /\ client.response_count \in Nat
  /\ peer \in {"new", "hello", "open", "notified", "closed"} /\ sent \in 0 .. MaxRecords
  /\ socket \in Seq(Records) /\ pc \in {"poll", "receive", "process", "send"}
  /\ expired \in {"none"} \cup DOMAIN Flags
  /\ {exhausted, saturated, done, closing, misused, plain} \subseteq BOOLEAN

\* The metadata describes the encrypted bytes: the sizes corrected by
\* cryptography_encrypt and those of the silent responses add up to what is
\* to be sent, after every partial send and with handshake records between.
Accounted ==
  ~client.dead =>
    /\ client.response_count = Len(client.response_queue)
    /\ Len(client.response_stream) = Ends(client)[Len(client.response_queue)]

\* The close_notify is the last that is ever put into response_stream: no
\* response after it, and nothing that is not encrypted.
NotifyLast ==
  /\ "plain" \notin Range(client.response_stream)
  /\ \A i \in DOMAIN client.response_stream :
       client.response_stream[i] = "notify" => i = Len(client.response_stream)

\* No function of OpenSSL gets the pointer that cryptography_finalize has
\* freed, whichever error strikes during the shutdown ("It is extremely
\* important to avoid recursion during TLS shutdown", extended_error.h).
NoneAfterFree == ~misused

\* The fixed message that server_process_client sends as it is where a TLS
\* connection has lost its SSL object (the next timeout, or too much data,
\* high_level.c:228) comes only after a shutdown has begun, is the last that
\* the connection sends, and leaves no client to be visited.
PlainLast == plain => client.dead /\ client.cryptography_state = "CS_PENDING_SHUTDOWN"

\* A connection is shut down once: whichever errors and timeouts follow one
\* another, at most one close_notify is put into its stream and no record
\* after it, and OpenSSL does not get what was freed.  What may still follow
\* is one fixed message, in plain text, with the end of the client.
ShutDownOnce == NotifyLast /\ NoneAfterFree /\ PlainLast

-----------------------------------------------------------------------------
(* What the repository says and the code does not do: TLC refutes it, see  *)
(* the README, section 5.                                                  *)

\* server_process_client waits under the comment "Nothing to do, prepare to
\* wait": no request is left behind the pump in the read BIO.
NothingToDo ==
  pc = "poll" /\ ~client.dead /\ client.cryptography_state = "CS_OPERATIONAL" /\ get_makes_sense_to_receive(client) =>
    Range(client.read_bio) \cap Requests = {}

\* "Receive if: ... connection is kept alive" (high_level.c): the server ends
\* a connection only after a request that did not ask to keep it.
KeptAlive == client.parser = "end" => closing

\* "First one is avoided because of the 'first' flag" (extended_error.h:41, of
\* an error that strikes during a shutdown): no timeout of a later visit meets
\* a connection that is being shut down, and gets its message in plain text.
NeverPlain == ~plain
=============================================================================
