------------------------------- MODULE Server -------------------------------
(***************************************************************************)
(* The event loop (source/server/, source/client.c): one thread polls all  *)
(* connections, accepts new ones, visits every client in a random order,   *)
(* and compacts the array of clients.  A visit repeats rounds of receive,  *)
(* parse and process, send, until a round has nothing to do.               *)
(*                                                                         *)
(* This module has the plain connection sockets (HTTP, Gopher, Finger,     *)
(* Spartan, Nex, Text): ssl = NULL, cryptography_state = CS_OPERATIONAL    *)
(* and g_short_request_message_owner = NULL throughout.                    *)
(*                                                                         *)
(* The server is sequential; what interleaves with it is the network.  It  *)
(* is met only in system calls, so each of them is a choice between the    *)
(* outcomes it can have.  A byte received is one of four kinds, and a byte *)
(* sent is identified by its connection and its number on it.  Rings are   *)
(* the queues that module Ring shows them to be.                           *)
(***************************************************************************)
EXTENDS Integers, Sequences, FiniteSets

CONSTANTS
  MAX_CLIENTS, ACCEPTING_SOCKETS, MAX_REQUEST_SIZE,
  MAX_REQUEST_STREAM_SIZE, MAX_RESPONSE_STREAM_SIZE,
  MaxConns,      \* bound: connections in a behaviour
  MaxTraffic,    \* bound: bytes one connection sends us
  MaxResponse    \* bound: bytes of one response

ASSUME ServerAssumption ==
  /\ {MAX_CLIENTS, ACCEPTING_SOCKETS, MAX_REQUEST_SIZE, MaxResponse} \subseteq Nat \ {0}
  /\ {MAX_RESPONSE_STREAM_SIZE, MaxConns, MaxTraffic} \subseteq Nat \ {0}
  /\ MAX_REQUEST_STREAM_SIZE \in Nat
  /\ MAX_REQUEST_SIZE <= MAX_REQUEST_STREAM_SIZE

VARIABLES
  clients,       \* struct ClientBuffer, each client with its pollfd's events
  g_short,       \* g_short_response_stream
  owner,         \* g_short_response_stream_owner: an index, 0 for NULL
  pc,            \* the place in the code
  index,         \* of the listening socket being served
  refuse,        \* max_clients || max_memory || max_utilization
  todo,          \* indices of the clients not visited in this cycle
  cur,           \* the client being visited, 0 for none
  flags,         \* enum ConnectionFlag
  done,          \* done_something
  sent,          \* sent_stream_size of server_pop_responses
  wire,          \* history: what each connection was sent
  received,      \* history: how many bytes each connection sent
  issued,        \* history: how many response bytes it was given
  closing,       \* history: it was given a response that ends it
  outcome,       \* history: "open", "served" (closed as agreed) or "failed"
  orphaned       \* history: a client was finalized as the owner of g_short

control == <<pc, index, refuse, todo, cur, flags, done, sent>>
history == <<wire, received, issued, closing, outcome, orphaned>>
vars == <<clients, g_short, owner, control, history>>

Conns == 1 .. MaxConns
Accepted == Cardinality({c \in Conns : outcome[c] # "new"})

------------------------------------------------------------------------------
(* struct Client and the operations on it.                                 *)

(* A byte inside a request; the last one of a request that keeps the       *)
(* connection alive, of one that does not; one no request can contain.     *)
Bytes == {"inner", "keep", "close", "bad"}

(* A byte sent: number n of connection c.  FixedResponse: a fixed message. *)
Unit(c, n) == [conn |-> c, number |-> n]
FixedResponse == [conn |-> 0, number |-> 0]
Units(c, m, n) == [i \in 1 .. (n - m) |-> Unit(c, m + i)]

Response(n, keep_alive) == [stream_size |-> n, keep_alive |-> keep_alive]

NewClient(c) ==
  [conn |-> c, dead |-> FALSE, events |-> {},
   request_stream |-> <<>>, request_size |-> 0, parser |-> "begin",
   response_stream |-> <<>>, response |-> Response(0, FALSE),
   response_queue |-> <<>>, response_count |-> 0]

client_finalize(c) ==
  [c EXCEPT !.dead = TRUE, !.request_stream = <<>>,
            !.response_queue = <<>>, !.response_stream = <<>>]

Alive == {i \in DOMAIN clients : ~clients[i].dead}

client_response_stream_size(i) ==
  Len(clients[i].response_stream) + (IF i = owner THEN Len(g_short) ELSE 0)

get_makes_sense_to_receive(i) ==
  /\ clients[i].parser # "end"
  /\ client_response_stream_size(i) < MAX_RESPONSE_STREAM_SIZE

(* Mutant of get_makes_sense_to_parse: a full output does not stop it. *)
get_makes_sense_to_parse_always(i) ==
  /\ clients[i].parser # "end"
  /\ Len(clients[i].request_stream) > clients[i].request_size

get_makes_sense_to_parse(i) ==
  /\ clients[i].parser # "end"
  /\ Len(clients[i].request_stream) > clients[i].request_size
  /\ client_response_stream_size(i) < MAX_RESPONSE_STREAM_SIZE

get_makes_sense_to_send(i) == client_response_stream_size(i) > 0

------------------------------------------------------------------------------
(* poll and accept.                                                        *)

Init ==
  /\ clients = <<>> /\ g_short = <<>> /\ owner = 0
  /\ pc = "poll" /\ index = 0 /\ refuse = FALSE /\ todo = {}
  /\ cur = 0 /\ flags = {} /\ done = FALSE /\ sent = 0
  /\ wire = [c \in Conns |-> <<>>]
  /\ received = [c \in Conns |-> 0]
  /\ issued = [c \in Conns |-> 0]
  /\ closing = [c \in Conns |-> FALSE]
  /\ outcome = [c \in Conns |-> "new"]
  /\ orphaned = FALSE

(* Mutant of poll: the limit of clients is off by one. *)
poll_off_by_one(low) ==
  /\ pc = "poll"
  /\ pc' = "accept"
  /\ refuse' = (Len(clients) > MAX_CLIENTS \/ low)
  /\ UNCHANGED <<clients, g_short, owner, index, todo, cur, flags, done, sent, history>>

(* low: max_memory or max_utilization.  A failing poll() ends the server. *)
poll(low) ==
  /\ pc = "poll"
  /\ \/ /\ pc' = "accept"
        /\ refuse' = (Len(clients) >= MAX_CLIENTS \/ low)
     \/ /\ pc' = "failed"
        /\ UNCHANGED refuse
  /\ UNCHANGED <<clients, g_short, owner, index, todo, cur, flags, done, sent, history>>

(* clients_append keeps the owner's index when it moves the array. *)
server_accept_connection ==
  /\ ~refuse
  /\ Accepted < MaxConns
  /\ clients' = Append(clients, NewClient(Accepted + 1))
  /\ outcome' = [outcome EXCEPT ![Accepted + 1] = "open"]
  /\ UNCHANGED <<wire, received, issued, closing, orphaned>>

(* Nobody connects, the connection is refused and closed, or accept(),     *)
(* fcntl() or the allocation fails and everything is undone.               *)
NotAccepted == UNCHANGED <<clients, history>>

server_accept_traffic ==
  /\ pc = "accept"
  /\ index < ACCEPTING_SOCKETS
  /\ \/ /\ server_accept_connection \/ NotAccepted
        /\ index' = index + 1
        /\ UNCHANGED pc
     \/ /\ pc' = "failed"            \* "listening socket failed"
        /\ UNCHANGED <<clients, index, history>>
  /\ UNCHANGED <<g_short, owner, refuse, todo, cur, flags, done, sent>>

(* The visits come in an arbitrary order: todo is a set. *)
clients_shuffle ==
  /\ pc = "accept"
  /\ index = ACCEPTING_SOCKETS
  /\ pc' = "next"
  /\ index' = 0
  /\ refuse' = FALSE
  /\ todo' = DOMAIN clients
  /\ UNCHANGED <<clients, g_short, owner, cur, flags, done, sent, history>>

------------------------------------------------------------------------------
(* The ends of a visit.                                                    *)

client == clients[cur]

Goto(place) ==
  /\ pc' = place
  /\ UNCHANGED <<index, refuse, todo, cur>>

Leave(place) ==
  /\ pc' = place
  /\ cur' = 0 /\ flags' = {} /\ done' = FALSE /\ sent' = 0
  /\ UNCHANGED <<index, refuse, todo>>

(***************************************************************************)
(* The label failure of server_process_client: the fixed message if the    *)
(* error asks for one, then close.  The state at the error is given: the   *)
(* clients, the owner, and the wire.  place is "next", or "panic" when the *)
(* error carries PARTIAL_EEF_DIE.                                          *)
(***************************************************************************)
Failure(cs, o, w, send, place) ==
  /\ clients' = [cs EXCEPT ![cur] = client_finalize(@)]
  /\ owner' = o
  /\ wire' = [w EXCEPT ![client.conn] = IF send THEN Append(@, FixedResponse) ELSE @]
  /\ outcome' = [outcome EXCEPT ![client.conn] = "failed"]
  /\ orphaned' = (orphaned \/ o = cur)
  /\ Leave(place)

FailHere(send) ==
  /\ Failure(clients, owner, wire, send, "next")
  /\ UNCHANGED <<g_short, received, issued, closing>>

(* poll_finalize, client_finalize and return EXOK: the round did something *)
(* and a further one begins on the dead client.                            *)
CloseServed(cs) ==
  /\ clients' = [cs EXCEPT ![cur] = client_finalize(@)]
  /\ outcome' = [outcome EXCEPT ![client.conn] = "served"]
  /\ orphaned' = (orphaned \/ owner = cur)
  /\ done' = TRUE
  /\ Goto("wait")

------------------------------------------------------------------------------
(* A visit begins.                                                         *)

(* Requests to be woken that poll() did not answer. *)
InitialFlags(c) ==
  {f \in SUBSET {"exhausted", "saturated"} :
     /\ "exhausted" \in f => "in" \in c.events
     /\ "saturated" \in f => "out" \in c.events}

(* check_timeouts: when a timeout can have passed, and what it answers. *)
TimeoutSends(i) == Len(clients[i].response_stream) > 0
TimeoutCloses(i) ==
  \/ Len(clients[i].request_stream) = 0
  \/ client_response_stream_size(i) > 0

server_process_client(i) ==
  /\ pc = "next"
  /\ i \in todo
  /\ cur' = i
  /\ todo' = todo \ {i}
  /\ flags' \in InitialFlags(clients[i])
  /\ pc' = "first"
  /\ UNCHANGED <<clients, g_short, owner, index, refuse, done, sent, history>>

(* POLLERR, POLLHUP, a timeout, or none of them. *)
FirstRound ==
  /\ pc = "first"
  /\ \/ FailHere(FALSE)
     \/ TimeoutCloses(cur) /\ FailHere(FALSE)
     \/ TimeoutSends(cur) /\ FailHere(TRUE)
     \/ /\ Goto("receive")
        /\ UNCHANGED <<clients, g_short, owner, flags, done, sent, history>>

------------------------------------------------------------------------------
(* Receive.                                                                *)

(* Mutant of NothingLeft: only the input is looked at. *)
NoInputLeft(c, i) ==
  /\ c.request_stream = <<>>
  /\ c.parser \in {"begin", "end"}

(* After CF_CLOSED: nothing may be left half received or half sent. *)
NothingLeft(c, i) ==
  /\ c.request_stream = <<>>
  /\ c.parser \in {"begin", "end"}
  /\ client_response_stream_size(i) = 0
  /\ c.response_queue = <<>>
  /\ c.response_count = 0

MayReceive ==
  /\ pc = "receive"
  /\ flags \cap {"exhausted", "closed"} = {}
  /\ get_makes_sense_to_receive(cur)

Room == MAX_REQUEST_STREAM_SIZE - Len(client.request_stream)

(* The clients once read() has put bytes into the ring. *)
Received(bytes) == [clients EXCEPT ![cur].request_stream = @ \o bytes]

Incoming(bytes) ==
  /\ received[client.conn] + Len(bytes) <= MaxTraffic
  /\ received' = [received EXCEPT ![client.conn] = @ + Len(bytes)]

(* read() gives as many bytes as asked for, or fewer and no more for now. *)
server_receive_traffic(bytes) ==
  /\ MayReceive
  /\ Incoming(bytes)
  /\ clients' = Received(bytes)
  /\ \/ /\ Len(bytes) <= Room
        /\ Len(bytes) > 0 \/ Room = 0
        /\ UNCHANGED flags
     \/ /\ Len(bytes) < Room
        /\ flags' = flags \cup {"exhausted"}
  /\ done' = TRUE
  /\ Goto("process")
  /\ UNCHANGED <<g_short, owner, sent, wire, issued, closing, outcome, orphaned>>

(* Mutant of server_receive_closed: CF_CLOSED is not set. *)
server_receive_closed_unnoticed(bytes) ==
  /\ MayReceive
  /\ Incoming(bytes)
  /\ Len(bytes) < Room
  /\ NothingLeft(Received(bytes)[cur], cur)
  /\ CloseServed(Received(bytes))
  /\ UNCHANGED <<g_short, owner, flags, sent, wire, issued, closing>>

(* read() tells that the peer closed, perhaps after filling the first part *)
(* of the free space.                                                      *)
server_receive_closed(bytes) ==
  /\ MayReceive
  /\ Incoming(bytes)
  /\ Len(bytes) < Room
  /\ \/ /\ NothingLeft(Received(bytes)[cur], cur)
        /\ CloseServed(Received(bytes))
        /\ flags' = flags \cup {"closed"}
        /\ UNCHANGED <<owner, wire, sent>>
     \/ /\ ~NothingLeft(Received(bytes)[cur], cur)
        /\ Failure(Received(bytes), owner, wire, FALSE, "next")
  /\ UNCHANGED <<g_short, issued, closing>>

(* ioctl(), read() or the allocation fails; or too much data waits to be   *)
(* read, and that is answered.                                             *)
server_receive_failed ==
  /\ MayReceive
  /\ \E send \in BOOLEAN : FailHere(send)

NotReceive ==
  /\ pc = "receive"
  /\ ~MayReceive
  /\ Goto("process")
  /\ UNCHANGED <<clients, g_short, owner, flags, done, sent, history>>

------------------------------------------------------------------------------
(* Parse and process.                                                      *)

MayProcess == pc = "process" /\ get_makes_sense_to_parse(cur)

(* The bytes that parser_parse looks at, by their place in the stream. *)
NotParsed ==
  {n \in DOMAIN client.request_stream :
     client.request_size < n /\ n <= MAX_REQUEST_SIZE}

(* Where the parser stops: the first byte that ends a request or is bad. *)
Stops ==
  {n \in NotParsed :
     /\ client.request_stream[n] # "inner"
     /\ \A m \in NotParsed : m < n => client.request_stream[m] = "inner"}

(* Mutant of ParseFails: a request may fill the whole stream. *)
ParseFailsUnlimited ==
  \/ \E n \in Stops : client.request_stream[n] = "bad"
  \/ \E n \in Stops : client.request_stream[n] = "close" /\ n + 1 \in NotParsed

(***************************************************************************)
(* An error of the parser: an invalid byte, bytes after a request that     *)
(* does not keep the connection alive (noticed unless the request ends in  *)
(* content, which is taken in bulk), or no end within MAX_REQUEST_SIZE.    *)
(***************************************************************************)
ParseFails ==
  \/ \E n \in Stops : client.request_stream[n] = "bad"
  \/ \E n \in Stops : client.request_stream[n] = "close" /\ n + 1 \in NotParsed
  \/ Stops = {} /\ Len(client.request_stream) >= MAX_REQUEST_SIZE

server_process_invalid ==
  /\ MayProcess
  /\ ParseFails
  /\ FailHere(TRUE)

server_process_incomplete ==
  /\ MayProcess
  /\ Stops = {}
  /\ ~ParseFails
  /\ clients' = [clients EXCEPT ![cur].request_size = Len(client.request_stream),
                                ![cur].parser = "wait"]
  /\ done' = TRUE
  /\ Goto("send")
  /\ UNCHANGED <<g_short, owner, flags, sent, history>>

(* The ends of a complete request. *)
Complete == {n \in Stops : client.request_stream[n] # "bad"}

(* Mutants of Flushed: into the stream of the client being served; not at  *)
(* all.                                                                    *)
FlushedToCurrent ==
  IF owner # 0 THEN [clients EXCEPT ![cur].response_stream = @ \o g_short] ELSE clients

NotFlushed == clients

(***************************************************************************)
(* The short buffer is flushed into its owner's response_stream.  An owner *)
(* that is no client any more is a dead slot of the array.                 *)
(***************************************************************************)
Flushed ==
  IF owner \in DOMAIN clients
    THEN [clients EXCEPT ![owner].response_stream = @ \o g_short]
    ELSE clients

(* Mutant of Processed: the first response does not become the head. *)
ProcessedHeadless(c, n, r) ==
  [c EXCEPT !.request_stream = SubSeq(@, n + 1, Len(@)),
            !.request_size   = 0,
            !.parser         = "begin",
            !.response_queue = Append(@, r),
            !.response_count = @ + 1]

(* What processor_process, ring_pop and the bookkeeping make of client c,  *)
(* whose request ends at byte n, with the response r.                      *)
Processed(c, n, r) ==
  LET head == IF c.response_count = 0 THEN r ELSE c.response
      more == head.keep_alive
  IN  [c EXCEPT !.request_stream = SubSeq(@, n + 1, Len(@)),
                !.request_size   = IF more THEN 0 ELSE n,
                !.parser         = IF more THEN "begin" ELSE "end",
                !.response       = head,
                !.response_queue = Append(@, r),
                !.response_count = @ + 1]

(***************************************************************************)
(* A complete request.  A response keeps the connection alive only if the  *)
(* request does.  The new response goes to response_stream if that is not  *)
(* empty, and otherwise stays in the short buffer.                         *)
(***************************************************************************)
server_process_traffic(size, keep_alive) ==
  /\ MayProcess
  /\ \E n \in Complete :
       LET conn == client.conn
           c    == Processed(Flushed[cur], n, Response(size, keep_alive))
           data == Units(conn, issued[conn], issued[conn] + size)
       IN  /\ keep_alive => client.request_stream[n] = "keep"
           /\ issued' = [issued EXCEPT ![conn] = @ + size]
           /\ closing' = [closing EXCEPT ![conn] = @ \/ ~keep_alive]
           /\ IF Flushed[cur].response_stream # <<>>
                THEN /\ clients' = [Flushed EXCEPT ![cur] =
                           [c EXCEPT !.response_stream = @ \o data]]
                     /\ g_short' = <<>>
                     /\ owner' = 0
                ELSE /\ clients' = [Flushed EXCEPT ![cur] = c]
                     /\ g_short' = data
                     /\ owner' = cur
  /\ done' = TRUE
  /\ Goto("send")
  /\ UNCHANGED <<flags, sent, wire, received, outcome, orphaned>>

(* The flush finds no memory: this client is closed, not the owner. *)
server_process_flush_failed ==
  /\ MayProcess
  /\ Complete # {}
  /\ owner # 0
  /\ FailHere(FALSE)

(* The processor fails, or there is no memory for its response: the short  *)
(* buffer is already flushed.                                              *)
server_process_failed ==
  /\ MayProcess
  /\ Complete # {}
  /\ g_short' = <<>>
  /\ \E send \in BOOLEAN : Failure(Flushed, 0, wire, send, "next")
  /\ UNCHANGED <<received, issued, closing>>

NotProcess ==
  /\ pc = "process"
  /\ ~MayProcess
  /\ Goto("send")
  /\ UNCHANGED <<clients, g_short, owner, flags, done, sent, history>>

------------------------------------------------------------------------------
(* Send.                                                                   *)

MaySend ==
  /\ pc = "send"
  /\ "saturated" \notin flags
  /\ get_makes_sense_to_send(cur)

Taken(s, k) == SubSeq(s, 1, k)
Rest(s, k)  == SubSeq(s, k + 1, Len(s))

ToWire(units) == [wire EXCEPT ![client.conn] = @ \o units]

(* server_send_stream: all is sent, or the socket is saturated. *)
AfterSending(k, s) ==
  flags' = IF k < Len(s) THEN flags \cup {"saturated"} ELSE flags

server_send_short_response_stream(k) ==
  /\ MaySend
  /\ owner = cur
  /\ k <= Len(g_short)
  /\ g_short' = Rest(g_short, k)
  /\ owner' = IF k = Len(g_short) THEN 0 ELSE owner
  /\ wire' = ToWire(Taken(g_short, k))
  /\ sent' = k
  /\ AfterSending(k, g_short)
  /\ done' = TRUE
  /\ Goto("pop_short")
  /\ UNCHANGED <<clients, received, issued, closing, outcome, orphaned>>

(* send() fails, perhaps after the first part was sent. *)
server_send_short_failed(k) ==
  /\ MaySend
  /\ owner = cur
  /\ k < Len(g_short)
  /\ g_short' = Rest(g_short, k)
  /\ Failure(clients, owner, ToWire(Taken(g_short, k)), FALSE, "next")
  /\ UNCHANGED <<received, issued, closing>>

MaySendLong ==
  \/ MaySend /\ owner # cur
  \/ pc = "long" /\ "saturated" \notin flags /\ client.response_stream # <<>>

server_send_long_output_buffer(k) ==
  /\ MaySendLong
  /\ k <= Len(client.response_stream)
  /\ clients' = [clients EXCEPT ![cur].response_stream = Rest(@, k)]
  /\ wire' = ToWire(Taken(client.response_stream, k))
  /\ sent' = k
  /\ AfterSending(k, client.response_stream)
  /\ done' = TRUE
  /\ Goto("pop_long")
  /\ UNCHANGED <<g_short, owner, received, issued, closing, outcome, orphaned>>

server_send_long_failed(k) ==
  /\ MaySendLong
  /\ k < Len(client.response_stream)
  /\ Failure(clients, owner, ToWire(Taken(client.response_stream, k)), FALSE, "next")
  /\ UNCHANGED <<g_short, received, issued, closing>>

NotSendLong ==
  /\ pc = "long"
  /\ ~MaySendLong
  /\ Goto("sent")
  /\ UNCHANGED <<clients, g_short, owner, flags, done, sent, history>>

(* Mutant of Popped: the next response is not loaded from the queue. *)
PoppedNotLoaded(c) ==
  [c EXCEPT !.response_queue = Tail(@),
            !.response_count = @ - 1,
            !.response.stream_size = 0]

(* server_pop_response: the head's metadata leaves the queue. *)
Popped(c) ==
  LET queue == Tail(c.response_queue)
  IN  [c EXCEPT !.response_queue = queue,
                !.response_count = @ - 1,
                !.response = IF queue # <<>> THEN Head(queue)
                             ELSE [@ EXCEPT !.stream_size = 0]]

(* One iteration of the loop over the bytes sent.  Popping an empty queue  *)
(* is an error that ends the server.                                       *)
server_pop_responses ==
  /\ pc \in {"pop_short", "pop_long"}
  /\ sent > 0
  /\ \/ /\ sent >= client.response.stream_size
        /\ client.response_queue # <<>>
        /\ clients' = [clients EXCEPT ![cur] = Popped(@)]
        /\ sent' = sent - client.response.stream_size
        /\ UNCHANGED <<owner, pc, index, refuse, todo, cur, flags, done, history>>
     \/ /\ sent >= client.response.stream_size
        /\ client.response_queue = <<>>
        /\ Failure(clients, owner, wire, FALSE, "panic")
        /\ UNCHANGED <<received, issued, closing>>
     \/ /\ sent < client.response.stream_size
        /\ clients' = [clients EXCEPT ![cur].response.stream_size = @ - sent]
        /\ sent' = 0
        /\ UNCHANGED <<owner, pc, index, refuse, todo, cur, flags, done, history>>
  /\ UNCHANGED g_short

PoppedAll ==
  /\ pc \in {"pop_short", "pop_long"}
  /\ sent = 0
  /\ Goto(IF pc = "pop_short" THEN "long" ELSE "sent")
  /\ UNCHANGED <<clients, g_short, owner, flags, done, sent, history>>

(***************************************************************************)
(* server_send_traffic has returned: everything of a connection that is    *)
(* not kept alive is sent, and it is closed; or the next round may begin.  *)
(***************************************************************************)
AllSent == client.parser = "end" /\ client_response_stream_size(cur) = 0

Agreed ==
  /\ client.request_stream = <<>>
  /\ client.response_queue = <<>>
  /\ client.response_count = 0

AfterSend ==
  /\ pc = "sent"
  /\ \/ /\ ~AllSent
        /\ Goto("wait")
        /\ UNCHANGED <<clients, owner, flags, done, sent, history>>
     \/ /\ AllSent
        /\ Agreed
        /\ CloseServed(clients)
        /\ UNCHANGED <<owner, flags, sent, wire, received, issued, closing>>
     \/ /\ AllSent
        /\ ~Agreed
        /\ Failure(clients, owner, wire, FALSE, "next")
        /\ UNCHANGED <<received, issued, closing>>
  /\ UNCHANGED g_short

NotSend ==
  /\ pc = "send"
  /\ ~MaySend
  /\ Goto("wait")
  /\ UNCHANGED <<clients, g_short, owner, flags, done, sent, history>>

------------------------------------------------------------------------------
(* The end of a round and of a cycle.                                      *)

Again ==
  /\ pc = "wait"
  /\ done
  /\ done' = FALSE
  /\ Goto("receive")
  /\ UNCHANGED <<clients, g_short, owner, flags, sent, history>>

(* Mutant of PrepareToWait: POLLOUT is asked for the ring only. *)
PrepareToWaitLong ==
  /\ pc = "wait"
  /\ ~done
  /\ clients' = [clients EXCEPT ![cur].events =
                   (IF get_makes_sense_to_receive(cur) THEN {"in"} ELSE {})
                   \cup (IF client.response_stream # <<>> THEN {"out"} ELSE {})]
  /\ Leave("next")
  /\ UNCHANGED <<g_short, owner, history>>

PrepareToWait ==
  /\ pc = "wait"
  /\ ~done
  /\ clients' = [clients EXCEPT ![cur].events =
                   (IF get_makes_sense_to_receive(cur) THEN {"in"} ELSE {})
                   \cup (IF get_makes_sense_to_send(cur) THEN {"out"} ELSE {})]
  /\ Leave("next")
  /\ UNCHANGED <<g_short, owner, history>>

(* The surviving clients in their order: client j of them was from[j]. *)
Survivors(from) ==
  /\ {from[j] : j \in DOMAIN from} = Alive
  /\ \A j, k \in DOMAIN from : j < k => from[j] < from[k]

(* Mutant of clients_remove_finalized: the array is compacted after every  *)
(* visit instead of after all of them.                                     *)
clients_remove_early ==
  /\ pc = "next"
  /\ \E n \in 0 .. Len(clients) : \E from \in [1 .. n -> DOMAIN clients] :
       /\ Survivors(from)
       /\ clients' = [j \in 1 .. n |-> clients[from[j]]]
  /\ pc' = IF todo = {} THEN "poll" ELSE pc
  /\ UNCHANGED <<g_short, owner, index, refuse, todo, cur, flags, done, sent, history>>

(* The owner moves with its client; the place of a dead owner is kept. *)
clients_remove_finalized ==
  /\ pc = "next"
  /\ todo = {}
  /\ \E n \in 0 .. Len(clients) : \E from \in [1 .. n -> DOMAIN clients] :
       /\ Survivors(from)
       /\ clients' = [j \in 1 .. n |-> clients[from[j]]]
       /\ \/ owner \notin Alive /\ UNCHANGED owner
          \/ \E j \in 1 .. n : from[j] = owner /\ owner' = j
  /\ pc' = "poll"
  /\ UNCHANGED <<g_short, index, refuse, todo, cur, flags, done, sent, history>>

(* server_main returns. *)
Stopped == pc \in {"failed", "panic"} /\ UNCHANGED vars

Next ==
  \/ \E low \in BOOLEAN : poll(low)
  \/ server_accept_traffic
  \/ clients_shuffle
  \/ \E i \in todo : server_process_client(i)
  \/ FirstRound
  \/ \E n \in 0 .. MaxTraffic : \E bytes \in [1 .. n -> Bytes] :
       server_receive_traffic(bytes) \/ server_receive_closed(bytes)
  \/ server_receive_failed
  \/ NotReceive
  \/ server_process_invalid
  \/ server_process_incomplete
  \/ \E size \in 1 .. MaxResponse, keep_alive \in BOOLEAN :
       server_process_traffic(size, keep_alive)
  \/ server_process_flush_failed
  \/ server_process_failed
  \/ NotProcess
  \/ \E k \in 0 .. Len(g_short) :
       server_send_short_response_stream(k) \/ server_send_short_failed(k)
  \/ \E k \in 0 .. (MaxTraffic * MaxResponse) :
       server_send_long_output_buffer(k) \/ server_send_long_failed(k)
  \/ NotSendLong
  \/ server_pop_responses
  \/ PoppedAll
  \/ AfterSend
  \/ NotSend
  \/ Again
  \/ PrepareToWait
  \/ clients_remove_finalized
  \/ Stopped

Spec == Init /\ [][Next]_vars

(* The only thread of the server keeps running. *)
FairSpec == Spec /\ WF_vars(Next)

------------------------------------------------------------------------------
(* Properties.                                                             *)

Pcs == {"poll", "accept", "next", "first", "receive", "process", "send",
        "pop_short", "long", "pop_long", "sent", "wait", "failed", "panic"}

Message == [conn : 0 .. MaxConns, number : Nat]
Responses == [stream_size : Nat, keep_alive : BOOLEAN]

Client ==
  [conn : Conns, dead : BOOLEAN, events : SUBSET {"in", "out"},
   request_stream : Seq(Bytes), request_size : Nat,
   parser : {"begin", "wait", "end"},
   response_stream : Seq(Message), response : Responses,
   response_queue : Seq(Responses), response_count : Int]

(* Every variable keeps its type; the visited client and the ones still to *)
(* be visited are places of the array.                                     *)
TypeOK ==
  /\ clients \in Seq(Client)
  /\ g_short \in Seq(Message)
  /\ owner \in Nat
  /\ pc \in Pcs
  /\ index \in 0 .. ACCEPTING_SOCKETS
  /\ refuse \in BOOLEAN
  /\ todo \subseteq DOMAIN clients
  /\ cur \in {0} \cup DOMAIN clients
  /\ flags \subseteq {"exhausted", "closed", "saturated"}
  /\ done \in BOOLEAN
  /\ sent \in Nat
  /\ wire \in [Conns -> Seq(Message)]
  /\ received \in [Conns -> Nat]
  /\ issued \in [Conns -> Nat]
  /\ closing \in [Conns -> BOOLEAN]
  /\ outcome \in [Conns -> {"new", "open", "served", "failed"}]
  /\ orphaned \in BOOLEAN

(* What client i still has to be sent, in the order it will be sent. *)
Pending(i) == (IF i = owner THEN g_short ELSE <<>>) \o clients[i].response_stream

(***************************************************************************)
(* Every connection is sent its own responses, in the order they were      *)
(* issued, with no byte lost, repeated or taken from another connection,   *)
(* although they pass through a buffer shared by all clients, through a    *)
(* ring each, and are flushed from one to the other when another client is *)
(* served; a fixed message comes last.  What is not sent is still pending. *)
(* It holds as long as no owner of the shared buffer was finalized.        *)
(***************************************************************************)
InOrder ==
  ~orphaned =>
    /\ \A c \in Conns : \E k \in 0 .. issued[c] :
         wire[c] \in {Units(c, 0, k), Append(Units(c, 0, k), FixedResponse)}
    /\ \A i \in Alive :
         LET c == clients[i].conn
         IN  wire[c] \o Pending(i) = Units(c, 0, issued[c])

(* Where the responses of a client end among the bytes it still has to be  *)
(* sent: what is left of the first one, then all of each other one.        *)
Ends(c) ==
  LET ends[j \in 0 .. Len(c.response_queue)] ==
        IF j = 0 THEN 0
        ELSE ends[j - 1] + (IF j = 1 THEN c.response ELSE c.response_queue[j]).stream_size
  IN  ends

(***************************************************************************)
(* The metadata describes the bytes: response_count counts the queue, the  *)
(* head's copy is what is left of the first response, and all responses    *)
(* together are as long as what is pending (plus what is being popped).    *)
(***************************************************************************)
Accounting ==
  ~orphaned =>
    \A i \in Alive :
      LET c == clients[i]
      IN  /\ c.response_count = Len(c.response_queue)
          /\ Ends(c)[Len(c.response_queue)]
               = Len(Pending(i)) + (IF i = cur THEN sent ELSE 0)
          /\ IF c.response_queue = <<>>
               THEN c.response.stream_size = 0
               ELSE /\ c.response.stream_size \in 1 .. c.response_queue[1].stream_size
                    /\ c.response.keep_alive = c.response_queue[1].keep_alive

(* The server never ends by an error of its own bookkeeping, unless an     *)
(* owner of the short buffer was finalized.                                *)
NoPanic == pc = "panic" => orphaned

(***************************************************************************)
(* A connection closed without an error got everything it was issued:      *)
(* neither the peer's close nor the end of "Connection: close" cuts it.    *)
(***************************************************************************)
ServedInFull ==
  ~orphaned =>
    \A c \in Conns : outcome[c] = "served" => wire[c] = Units(c, 0, issued[c])

(***************************************************************************)
(* No lost wakeup: when the server goes to sleep, a client with pending    *)
(* output waits for POLLOUT; one without has nothing left to parse, is not *)
(* finished, and waits for POLLIN.                                         *)
(***************************************************************************)
NoLostWakeup ==
  pc = "poll" /\ ~orphaned =>
    \A i \in DOMAIN clients :
      LET c == clients[i]
      IN  IF Pending(i) # <<>> THEN "out" \in c.events
          ELSE "in" \in c.events /\ c.request_size = Len(c.request_stream)

(***************************************************************************)
(* The buffers of a client are bounded whatever it sends: a full output    *)
(* stops the input, and the parser refuses a request that fills it.        *)
(***************************************************************************)
StreamsBounded ==
  \A i \in Alive :
    /\ Len(clients[i].request_stream) <= MAX_REQUEST_STREAM_SIZE
    /\ ~orphaned => Len(Pending(i)) < MAX_RESPONSE_STREAM_SIZE + MaxResponse

(* The number of clients exceeds the limit by less than one cycle's        *)
(* accepts: the limit is tested once for all listening sockets.            *)
ClientsBounded == Len(clients) < MAX_CLIENTS + ACCEPTING_SOCKETS

(***************************************************************************)
(* A closed connection is never touched again, although the loop runs one  *)
(* more round on the finalized client.                                     *)
(***************************************************************************)
ClosedIsFinal ==
  [][\A c \in Conns : outcome[c] \in {"served", "failed"} =>
       /\ outcome'[c] = outcome[c]
       /\ wire'[c] = wire[c]
       /\ received'[c] = received[c]
       /\ issued'[c] = issued[c]]_vars

(***************************************************************************)
(* Every cycle comes back to poll(): for the finite traffic of a           *)
(* connection the loop of rounds does not spin.                            *)
(***************************************************************************)
CycleEnds == pc # "poll" ~> pc \in {"poll", "failed", "panic"}

------------------------------------------------------------------------------
(* What the comments say and the code does not do.                         *)

(* client.h: g_short_response_stream_owner is "which client does           *)
(* g_short_response_stream belong to": a client that the server takes for  *)
(* the owner is the one the bytes were made for.                           *)
ShortBelongsToOwner ==
  owner \in Alive =>
    \A n \in DOMAIN g_short : g_short[n].conn = clients[owner].conn

(* constants.h, 2.1: incoming connections are closed "when maximum number  *)
(* of clients is reached".                                                 *)
ClientLimit == Len(clients) <= MAX_CLIENTS

(* constants.h, 5.1 to 5.4: an error closes the connection "without        *)
(* sending 500" when "output buffer is not empty".                         *)
FixedOnlyWhenEmpty ==
  [][\A i \in Alive : LET c == clients[i].conn IN
       wire'[c] = Append(wire[c], FixedResponse) => Pending(i) = <<>>]_vars

(* high_level.c: a round receives and processes only if the "connection is *)
(* kept alive".                                                            *)
NothingAfterClose ==
  [][\A c \in Conns : closing[c] =>
       received'[c] = received[c] /\ issued'[c] = issued[c]]_vars
=============================================================================
