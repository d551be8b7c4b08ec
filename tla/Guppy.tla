-------------------------------- MODULE Guppy -------------------------------
(***************************************************************************)
(* Guppy, the protocol over datagrams: server_accept_message               *)
(* (source/server/accept.c), server_receive_data_guppy (receive.c),        *)
(* server_send_message (low_level.c) and the parts of the event loop that  *)
(* treat its clients differently.  A datagram is read into a buffer that   *)
(* all clients share and waits there for the client that owns it.  A page  *)
(* is sent in chunks; each is repeated until it is acknowledged, at most   *)
(* CHUNK_SEND_REPEATS times, and CHUNK_SEND_SIMULTANEOUS at a time.        *)
(*                                                                         *)
(* The network loses, delays, repeats and reorders datagrams in both       *)
(* directions.  A peer is an address (address_compare looks at no port);   *)
(* it acknowledges every chunk that arrives.  Only Guppy clients are here, *)
(* module Server has the others; the events of those only wake poll().     *)
(* A request arrives in one datagram and is complete or invalid.           *)
(***************************************************************************)
EXTENDS Integers, Sequences, FiniteSets, FiniteSetsExt

CONSTANTS
  MAX_CLIENTS, CHUNK_SEND_REPEATS, CHUNK_SEND_SIMULTANEOUS, CHUNK_SEND_REPEAT_TIME,
  Peers,
  ChunkNumbers,    \* how many chunks a response may have; 0: not a page
  MaxRequests,     \* bound: requests of one peer that arrive, repeated ones too
  MaxReceived,     \* bound: datagrams that arrive at the server
  MaxFaults        \* bound: timeouts and failed allocations

GuppyAssumption ==
  /\ {MAX_CLIENTS, CHUNK_SEND_REPEATS, CHUNK_SEND_SIMULTANEOUS, CHUNK_SEND_REPEAT_TIME} \subseteq Nat \ {0}
  /\ {MaxRequests, MaxReceived, MaxFaults} \subseteq Nat
  /\ IsFiniteSet(Peers) /\ ChunkNumbers \subseteq Nat

VARIABLES
  clients,         \* struct ClientBuffer, the Guppy clients
  message,         \* g_short_request_message
  message_owner,   \* g_short_request_message_owner: an index, 0 for NULL
  owner,           \* g_short_response_stream_owner: an index, 0 for NULL
  pc, todo, cur,   \* the place in the code, clients to visit, the one visited
  pollin,          \* POLLIN in the listening socket's revents
  saturated,       \* CF_SATURATED
  armed,           \* remaining <= CHUNK_SEND_REPEAT_TIME
  acks,            \* acknowledgements under way; they may arrive again
  got,             \* history: the chunks that have reached their peer
  answered,        \* history: transfers of which a packet was sent
  outcome,         \* history: of each transfer
  left,            \* history: the client of the waiting message was closed
  requests, received, faults    \* history: for the bounds

control == <<pc, todo, cur, pollin, saturated, armed>>
network == <<acks, got, answered>>
bounds == <<requests, received, faults>>
vars == <<clients, message, message_owner, owner, control, network, outcome, left, bounds>>

(* The n-th client made for a peer.  Sequence numbers are random: those of *)
(* two transfers do not overlap, so that <<t, k>> stands for chunk k of t. *)
Transfers == Peers \X (1 .. MaxRequests)
Request == <<>>         \* the content of a request; an acknowledgement is <<t, k>>
Cap == (CHUNK_SEND_REPEATS - 1) * CHUNK_SEND_REPEAT_TIME

NewClient(t) ==
  [transfer |-> t, dead |-> FALSE,
   rest |-> FALSE,                        \* request_stream.size > 0
   end |-> FALSE,                         \* parser.state = RPS_END
   stream |-> FALSE,                      \* response_stream.size > 0
   chunks |-> <<>>,                       \* sent so often; -1: acknowledged
   age |-> CHUNK_SEND_REPEAT_TIME,        \* now - last_chunk_sent, or longer
   since |-> 0]                           \* history: time since the first sending

client == clients[cur]
get_makes_sense_to_send(i) == owner = i \/ clients[i].stream

Init ==
  /\ clients = <<>> /\ message = <<>> /\ message_owner = 0 /\ owner = 0
  /\ pc = "poll" /\ todo = {} /\ cur = 0 /\ pollin = FALSE /\ saturated = FALSE /\ armed = FALSE
  /\ acks = {} /\ got = [t \in Transfers |-> {}] /\ answered = {}
  /\ outcome = [t \in Transfers |-> "new"] /\ left = FALSE
  /\ requests = [p \in Peers |-> 0] /\ received = 0 /\ faults = 0

------------------------------------------------------------------------------
(* poll and accept.                                                        *)

(* d seconds pass while poll() waits. *)
Elapsed(d) ==
  [i \in DOMAIN clients |->
     [clients[i] EXCEPT !.age = Min({@ + d, CHUNK_SEND_REPEAT_TIME}),
                        !.since = IF \E k \in DOMAIN clients[i].chunks : clients[i].chunks[k] # 0
                                  THEN Min({@ + d, Cap}) ELSE 0]]

(* Without a datagram: another socket has something, or remaining is over. *)
Poll(d) ==
  /\ pc = "poll"
  /\ clients' = Elapsed(d)
  /\ pollin' = FALSE /\ armed' = FALSE
  /\ todo' = DOMAIN clients
  /\ pc' = IF clients = <<>> THEN "poll" ELSE "visit"
  /\ UNCHANGED <<message, message_owner, owner, cur, saturated, network, outcome, left, bounds>>

Wake == armed /\ Poll(CHUNK_SEND_REPEAT_TIME)

(* A datagram from peer p: the message goes to its client; a stray         *)
(* acknowledgement and, if refuse, a request are answered and forgotten.   *)
(* (recvfrom() or an allocation that fails here ends the whole server.)    *)
server_accept_message(p, content, refuse, d) ==
  LET known == {i \in DOMAIN clients : clients[i].transfer[1] = p}
      t == <<p, Cardinality({n \in 1 .. MaxRequests : outcome[<<p, n>>] # "new"}) + 1>>
  IN /\ message' = <<p, content>>
     /\ CASE known # {} ->
               /\ message_owner' = Min(known)
               /\ clients' = Elapsed(d)
               /\ UNCHANGED outcome
          [] known = {} /\ (content # Request \/ refuse \/ Len(clients) >= MAX_CLIENTS) ->
               clients' = Elapsed(d) /\ UNCHANGED <<message_owner, outcome>>
          [] OTHER ->
               /\ clients' = Append(Elapsed(d), NewClient(t))
               /\ message_owner' = Len(clients')
               /\ outcome' = [outcome EXCEPT ![t] = "open"]

(* The listening socket is readable; only one message at a time is taken. *)
PollMessage(p, content, refuse, d) ==
  /\ pc = "poll"
  /\ received < MaxReceived /\ received' = received + 1
  /\ IF content = Request
     THEN requests[p] < MaxRequests /\ requests' = [requests EXCEPT ![p] = @ + 1]
     ELSE content \in acks /\ content[1][1] = p /\ UNCHANGED requests
  /\ IF message_owner = 0
     THEN server_accept_message(p, content, refuse, d)
     ELSE clients' = Elapsed(d) /\ UNCHANGED <<message, message_owner, outcome>>
  /\ pollin' = TRUE /\ armed' = FALSE
  /\ todo' = DOMAIN clients'
  /\ pc' = IF clients' = <<>> THEN "poll" ELSE "visit"
  /\ UNCHANGED <<owner, cur, saturated, network, left, faults>>

------------------------------------------------------------------------------
(* The visit of one client.                                                *)

NextVisit == IF todo = {} THEN "remove" ELSE "visit"

(* client_finalize clears the shared response if the client owns the       *)
(* shared message.  What a response left without its owner leads to is a   *)
(* finding of module Server; here the behaviour ends.  The owner of the    *)
(* shared message stays as it is.                                          *)
Closed(how) ==
  /\ clients' = [clients EXCEPT ![cur] = [@ EXCEPT !.dead = TRUE, !.stream = FALSE, !.rest = FALSE]]
  /\ outcome' = [outcome EXCEPT ![client.transfer] = how]
  /\ owner' = IF message_owner = cur THEN 0 ELSE owner
  /\ left' = (left \/ message_owner = cur)
  /\ pc' = IF owner' = cur THEN "orphaned" ELSE NextVisit

(* An error; if it says so, a fixed response is sent. *)
Failure(how, send) ==
  /\ Closed(how)
  /\ answered' = IF send THEN answered \union {client.transfer} ELSE answered
  /\ UNCHANGED <<message, message_owner, todo, cur, pollin, saturated, armed, requests, received>>

Visit(i) ==
  /\ pc = "visit" /\ i \in todo
  /\ cur' = i /\ todo' = todo \ {i} /\ saturated' = FALSE
  /\ pc' = "timeouts"
  /\ UNCHANGED <<clients, message, message_owner, owner, pollin, armed, network, outcome, left, bounds>>

(* check_timeouts: minutes have passed since the request. *)
TimedOut ==
  /\ pc = "timeouts" /\ client.end
  /\ faults < MaxFaults /\ faults' = faults + 1
  /\ Failure("timeout", FALSE)
  /\ UNCHANGED <<acks, got>>

InTime ==
  /\ pc = "timeouts" /\ pc' = "receive"
  /\ UNCHANGED <<clients, message, message_owner, owner, todo, cur, pollin, saturated, armed, network, outcome, left, bounds>>

(* The comparison with the end of line is inverted, and reads one byte     *)
(* more; that byte belongs to an earlier, longer request, so that every    *)
(* acknowledgement passes it.                                              *)
ValidAcknowledgement == message[2][1] = client.transfer /\ message[2][2] \in DOMAIN client.chunks

(* Mutant of Taken: the owner is not reset. *)
Taken_kept == message_owner' = message_owner

Taken == message_owner' = 0

Acknowledged == [clients EXCEPT ![cur].chunks[message[2][2]] = -1]

server_receive_data_guppy ==
  /\ pc = "receive"
  /\ CASE ~pollin ->
            UNCHANGED <<clients, message_owner, saturated, left>>
       [] pollin /\ message_owner # cur ->
            saturated' = TRUE /\ UNCHANGED <<clients, message_owner, left>>
       [] OTHER ->
            /\ \/ message[2] = Request /\ clients' = [clients EXCEPT ![cur].rest = TRUE]
               \/ message[2] # Request /\ ValidAcknowledgement /\ clients' = Acknowledged
            /\ Taken /\ left' = FALSE
            /\ UNCHANGED saturated
  /\ pc' = "process"
  /\ UNCHANGED <<message, owner, todo, cur, pollin, armed, network, outcome, bounds>>

server_receive_invalid ==
  /\ pc = "receive" /\ pollin /\ message_owner = cur
  /\ message[2] # Request /\ ~ValidAcknowledgement
  /\ Failure("invalid", TRUE)
  /\ UNCHANGED <<acks, got, faults>>

(* ring_reserve fails. *)
server_receive_failed ==
  /\ pc = "receive" /\ pollin /\ message_owner = cur /\ message[2] = Request
  /\ faults < MaxFaults /\ faults' = faults + 1
  /\ Failure("failed", FALSE)
  /\ UNCHANGED <<acks, got>>

MakesSenseToParse == ~client.end /\ client.rest

(* A request is complete, and answered in n chunks; the response that waits *)
(* in the shared buffer goes to its owner first.                           *)
server_process_traffic(n) ==
  /\ pc = "process" /\ MakesSenseToParse
  /\ clients' = [i \in DOMAIN clients |->
       CASE i = cur -> [client EXCEPT !.end = TRUE, !.rest = FALSE, !.chunks = [k \in 1 .. n |-> 0]]
         [] i = owner /\ i # cur -> [clients[i] EXCEPT !.stream = TRUE]
         [] OTHER -> clients[i]]
  /\ owner' = cur
  /\ pc' = "send"
  /\ UNCHANGED <<message, message_owner, todo, cur, pollin, saturated, armed, network, outcome, left, bounds>>

server_process_invalid ==
  /\ pc = "process" /\ MakesSenseToParse
  /\ Failure("invalid", TRUE)
  /\ UNCHANGED <<acks, got, faults>>

NotProcess ==
  /\ pc = "process" /\ ~MakesSenseToParse
  /\ pc' = "send"
  /\ UNCHANGED <<clients, message, message_owner, owner, todo, cur, pollin, saturated, armed, network, outcome, left, bounds>>

------------------------------------------------------------------------------
(* server_send_message                                                     *)

MaySend == pc = "send" /\ ~saturated /\ get_makes_sense_to_send(cur)

(* Mutant of Real: every visit sends. *)
Real_always == TRUE

Real == client.age >= CHUNK_SEND_REPEAT_TIME      \* otherwise a dry run

Unacknowledged == {k \in DOMAIN client.chunks : client.chunks[k] >= 0}
Earlier(k) == {j \in Unacknowledged : j < k}

(* The loop looks at chunks until it has sent CHUNK_SEND_SIMULTANEOUS. *)
Seen == {k \in DOMAIN client.chunks : Real => Cardinality(Earlier(k)) < CHUNK_SEND_SIMULTANEOUS}

Exhausted == {k \in Seen : client.chunks[k] >= CHUNK_SEND_REPEATS}

(* Chunks are sent up to the first exhausted one; the network takes some of *)
(* them to the peer, which acknowledges them.                              *)
Sent == {k \in Seen \intersect Unacknowledged : Real /\ \A e \in Exhausted : k < e}
Transmit(arriving) ==
  /\ got' = [got EXCEPT ![client.transfer] = @ \union arriving]
  /\ acks' = acks \union {<<client.transfer, k>> : k \in arriving}

(* A chunk was sent too often: the client is given up. *)
server_send_exhausted(arriving) ==
  /\ MaySend /\ Exhausted # {}
  /\ arriving \subseteq Sent /\ Transmit(arriving)
  /\ Failure("gave up", FALSE)
  /\ UNCHANGED faults

(* Mutant of AllAcknowledged: what was sent is enough. *)
AllAcknowledged_sent == \A k \in DOMAIN client.chunks : client.chunks[k] # 0

AllAcknowledged == Unacknowledged = {}

(* Some chunks are still to be acknowledged. *)
server_send_some(arriving) ==
  /\ MaySend /\ Exhausted = {} /\ ~AllAcknowledged
  /\ arriving \subseteq Sent /\ Transmit(arriving)
  /\ clients' = [clients EXCEPT ![cur] =
       [client EXCEPT !.chunks = [k \in DOMAIN @ |-> IF k \in Sent THEN @[k] + 1 ELSE @[k]],
                      !.age = IF Real THEN 0 ELSE @]]
  /\ answered' = IF Sent # {} THEN answered \union {client.transfer} ELSE answered
  /\ pc' = "leave"
  /\ UNCHANGED <<message, message_owner, owner, todo, cur, pollin, saturated, armed, outcome, left, bounds>>

(* All are: the message is consumed, the response popped and the client    *)
(* closed; a request that came meanwhile makes that an error.              *)
server_send_complete ==
  /\ MaySend /\ Exhausted = {} /\ AllAcknowledged
  /\ clients' = [clients EXCEPT ![cur] = [@ EXCEPT !.dead = TRUE, !.stream = FALSE, !.rest = FALSE]]
  /\ outcome' = [outcome EXCEPT ![client.transfer] = IF client.rest THEN "failed" ELSE "served"]
  /\ owner' = IF owner = cur \/ message_owner = cur THEN 0 ELSE owner
  /\ pc' = NextVisit
  /\ UNCHANGED <<message, message_owner, todo, cur, pollin, saturated, armed, network, left, bounds>>

NotSend ==
  /\ pc = "send" /\ ~MaySend
  /\ pc' = "leave"
  /\ UNCHANGED <<clients, message, message_owner, owner, todo, cur, pollin, saturated, armed, network, outcome, left, bounds>>

(* Mutant of Leave: the time to repeat is not asked of poll(). *)
Leave_unarmed ==
  /\ pc = "leave"
  /\ pc' = NextVisit
  /\ UNCHANGED <<clients, message, message_owner, owner, todo, cur, pollin, saturated, armed, network, outcome, left, bounds>>

Leave ==
  /\ pc = "leave"
  /\ armed' = (armed \/ get_makes_sense_to_send(cur))
  /\ pc' = NextVisit
  /\ UNCHANGED <<clients, message, message_owner, owner, todo, cur, pollin, saturated, network, outcome, left, bounds>>

Alive == {i \in DOMAIN clients : ~clients[i].dead}

(* The surviving clients in their order: client j of them was from[j]. *)
Survivors(from) ==
  /\ {from[j] : j \in DOMAIN from} = Alive
  /\ \A j, k \in DOMAIN from : j < k => from[j] < from[k]

(* The owner of the shared response follows its client, the owner of the   *)
(* shared message does not.                                                *)
clients_remove_finalized ==
  /\ pc = "remove"
  /\ \E n \in 0 .. Len(clients) : \E from \in [1 .. n -> DOMAIN clients] :
       /\ Survivors(from)
       /\ clients' = [j \in 1 .. n |-> clients[from[j]]]
       /\ \/ owner \notin Alive /\ UNCHANGED owner
          \/ \E j \in 1 .. n : from[j] = owner /\ owner' = j
  /\ pc' = "poll"
  /\ UNCHANGED <<message, message_owner, todo, cur, pollin, saturated, armed, network, outcome, left, bounds>>

------------------------------------------------------------------------------
Server ==
  \/ \E i \in todo : Visit(i)
  \/ TimedOut \/ InTime
  \/ server_receive_data_guppy \/ server_receive_invalid \/ server_receive_failed
  \/ \E n \in ChunkNumbers : server_process_traffic(n)
  \/ server_process_invalid \/ NotProcess
  \/ pc = "send" /\ \E arriving \in SUBSET Sent : server_send_exhausted(arriving) \/ server_send_some(arriving)
  \/ server_send_complete \/ NotSend
  \/ Leave \/ clients_remove_finalized

Seconds == 0 .. CHUNK_SEND_REPEAT_TIME
Events ==
  \/ \E d \in Seconds : Poll(d)
  \/ Wake
  \/ \E p \in Peers, content \in acks \union {Request}, refuse \in BOOLEAN, d \in Seconds :
       PollMessage(p, content, refuse, d)

Orphaned == pc = "orphaned" /\ UNCHANGED vars

Next == Server \/ Events \/ Orphaned

(* The server goes on.  While poll() is armed, time passes, however often  *)
(* other events wake it.  Datagrams need not arrive.                       *)
Spec == Init /\ [][Next]_vars /\ WF_vars(Server) /\ SF_vars(Wake)

------------------------------------------------------------------------------
TypeOK ==
  /\ \A i \in DOMAIN clients :
       /\ clients[i].transfer \in Transfers
       /\ \A k \in DOMAIN clients[i].chunks : clients[i].chunks[k] \in -1 .. CHUNK_SEND_REPEATS
       /\ clients[i].age \in 0 .. CHUNK_SEND_REPEAT_TIME
  /\ owner \in 0 .. MAX_CLIENTS /\ message_owner \in 0 .. MAX_CLIENTS
  /\ Len(clients) <= MAX_CLIENTS
  /\ pc \in {"poll", "visit", "timeouts", "receive", "process", "send", "leave", "remove", "orphaned"}

Open(i) == outcome[clients[i].transfer] = "open"

(* A client is closed as served only when its peer has every chunk: no     *)
(* loss, repetition or delay of chunks and acknowledgements makes the      *)
(* server believe too early that the page has arrived.                     *)
ServedWhole ==
  \A i \in DOMAIN clients :
    Open(i) /\ outcome'[clients[i].transfer] = "served"
      => got[clients[i].transfer] = DOMAIN clients[i].chunks
Delivered == [][ServedWhole]_vars

(* A peer that does not answer is given up only after all repetitions: at  *)
(* least CHUNK_SEND_REPEATS - 1 times CHUNK_SEND_REPEAT_TIME after the     *)
(* first chunk, however often other events wake the server meanwhile.      *)
GivenUpLate ==
  \A i \in DOMAIN clients :
    Open(i) /\ outcome'[clients[i].transfer] = "gave up" => clients[i].since >= Cap
Patient == [][GivenUpLate]_vars

(* A datagram is taken by the client of the peer that sent it, in the      *)
(* cycle in which it was read, so that the next one can be read: when      *)
(* clients are removed, none waits (client.c:37).  Not so from when a      *)
(* client is closed whose datagram still waits (timeout, acknowledgement   *)
(* refused, failed allocation) until some client takes it: nothing resets  *)
(* the owner, which may name another peer's client or none.                *)
MessageTaken ==
  ~left =>
    /\ pc = "remove" => message_owner = 0
    /\ message_owner # 0 =>
         message_owner \in DOMAIN clients /\ clients[message_owner].transfer[1] = message[1]

(* Every transfer ends, however many datagrams are lost: the server wakes  *)
(* to repeat chunks, and counts its repetitions.  (The behaviour may stop  *)
(* before, when a client is closed that owns the shared response.)         *)
TransferEnds ==
  \A t \in Transfers : outcome[t] = "open" ~> outcome[t] # "open" \/ pc = "orphaned"

-----------------------------------------------------------------------------
(* What the repository says and the code does not do: TLC refutes it, see  *)
(* the README, section 5.                                                  *)

(* When clients are removed, no message waits for one of them: "No         *)
(* consideration of short request buffer because it is guaranteed to be    *)
(* NULL at this point" (client.c:37).                                      *)
MessageOwnerIsNull == pc = "remove" => message_owner = 0

(* A request that was served was answered: at least one packet was sent    *)
(* (guppy_processor.c:72).                                                 *)
RefusalIsSent == \A t \in Transfers : outcome[t] = "served" => t \in answered
=============================================================================
