----------------------------- MODULE Accepting ------------------------------
(***************************************************************************)
(* What server_accept_connection (source/server/accept.c) acquires: the    *)
(* descriptor of the new connection and, for HTTPS and Gemini, two BIOs    *)
(* and an SSL object (cryptography_initialize).  Every acquisition may     *)
(* fail, and then what was acquired before is given back.  Afterwards the  *)
(* descriptor belongs to polls and the SSL object to clients, two arrays   *)
(* with the same indices.                                                  *)
(*                                                                         *)
(* An object is named by the connection it was made for.                   *)
(***************************************************************************)
EXTENDS Integers, Sequences, SequencesExt

CONSTANT Connections

VARIABLES
  heap,            \* what became of each object
  polls, clients,  \* the arrays, by connection
  tls,             \* the connections to a socket with TLS
  left,            \* the connections that are still to come
  cur, pc,
  bound,           \* the BIOs belong to the SSL object, as OpenSSL sees it
  ssls,            \* the connections whose client->ssl is set
  refused          \* history: the connections that were refused

vars == <<heap, polls, clients, tls, left, cur, pc, bound, ssls, refused>>

Kinds == {"fd", "read_bio", "write_bio", "ssl"}
None == "none"

AcceptingAssumption == None \notin Connections

Init ==
  /\ heap = [o \in Kinds \X Connections |-> "absent"]
  /\ polls = <<>> /\ clients = <<>> /\ tls \in SUBSET Connections
  /\ left = Connections /\ cur = None /\ pc = "idle" /\ bound = {} /\ ssls = {} /\ refused = {}

Owned(k, c) == heap[<<k, c>>] # "absent"

\* free() of each of the objects: of one that is live, or once too often.
Free(h, objects) ==
  [o \in DOMAIN h |-> IF o \notin objects THEN h[o]
                      ELSE IF h[o] = "live" THEN "freed" ELSE "twice"]

\* SSL_free takes the BIOs along.
SSL_free(h, c) ==
  Free(h, {<<"ssl", c>>} \cup {<<k, c>> : k \in IF c \in bound THEN {"read_bio", "write_bio"} ELSE {}})

-----------------------------------------------------------------------------
\* The step that makes an object: made, or not.
Make(k, here, next, failure) ==
  /\ pc = here
  /\ \/ heap' = [heap EXCEPT ![<<k, cur>>] = "live"] /\ pc' = next
     \/ pc' = failure /\ UNCHANGED heap
  /\ UNCHANGED <<polls, clients, tls, left, cur, bound, ssls, refused>>

Accept(c) ==
  /\ pc = "idle" /\ c \in left
  /\ left' = left \ {c} /\ cur' = c
  /\ \/ heap' = [heap EXCEPT ![<<"fd", c>>] = "live"] /\ pc' = "fcntl"
     \/ pc' = "failure" /\ UNCHANGED heap
  /\ UNCHANGED <<polls, clients, tls, bound, ssls, refused>>

\* The limits that refuse a connection may be reached at any time.
Fcntl ==
  /\ pc = "fcntl"
  /\ \/ pc' = "failure"
     \/ pc' = "refuse"
     \/ pc' = IF cur \in tls THEN "read_bio" ELSE "polls"
  /\ UNCHANGED <<heap, polls, clients, tls, left, cur, bound, ssls, refused>>

\* The fixed message, sent or not, and close(); but not over TLS.
server_send_low_resources_connection ==
  /\ pc = "refuse"
  /\ heap' = IF cur \in tls THEN heap ELSE Free(heap, {<<"fd", cur>>})
  /\ refused' = refused \cup {cur} /\ cur' = None /\ pc' = "idle"
  /\ UNCHANGED <<polls, clients, tls, left, bound, ssls>>

MakeReadBio == Make("read_bio", "read_bio", "write_bio", "unmake")
MakeWriteBio == Make("write_bio", "write_bio", "ssl", "unmake")
MakeSsl == Make("ssl", "ssl", "bind", "unmake")

\* SSL_set_bio, then the pump and the silent response, which may fail.
Bind ==
  /\ pc = "bind"
  /\ bound' = bound \cup {cur}
  /\ \/ pc' = "polls" /\ ssls' = ssls \cup {cur}
     \/ pc' = "unmake" /\ UNCHANGED ssls
  /\ UNCHANGED <<heap, polls, clients, tls, left, cur, refused>>

\* One that leaves the SSL object.
Unmake_kept ==
  /\ pc = "unmake"
  /\ heap' = Free(heap, {<<k, cur>> : k \in {b \in {"read_bio", "write_bio"} : Owned(b, cur)}})
  /\ pc' = "failure"
  /\ UNCHANGED <<polls, clients, tls, left, cur, bound, ssls, refused>>
\* The failure of cryptography_initialize; its flag bound is never set here.
Unmake ==
  /\ pc = "unmake"
  /\ LET freed == IF Owned("ssl", cur) THEN SSL_free(heap, cur) ELSE heap
     IN heap' = Free(freed, {<<k, cur>> : k \in {b \in {"read_bio", "write_bio"} : Owned(b, cur)}})
  /\ pc' = "failure"
  /\ UNCHANGED <<polls, clients, tls, left, cur, bound, ssls, refused>>

AppendPoll ==
  /\ pc = "polls"
  /\ \/ polls' = Append(polls, cur) /\ pc' = "clients"
     \/ pc' = "failure" /\ UNCHANGED polls
  /\ UNCHANGED <<heap, clients, tls, left, cur, bound, ssls, refused>>

AppendClient ==
  /\ pc = "clients"
  /\ \/ clients' = Append(clients, cur) /\ pc' = "idle" /\ cur' = None
     \/ pc' = "failure" /\ UNCHANGED <<clients, cur>>
  /\ UNCHANGED <<heap, polls, tls, left, bound, ssls, refused>>

\* poll_finalize and client_finalize.
Finalized(c) ==
  LET closed == IF Owned("fd", c) THEN Free(heap, {<<"fd", c>>}) ELSE heap
  IN IF c \in ssls THEN SSL_free(closed, c) ELSE closed

\* One that leaves the poll of a client that could not be appended.
Failure_unpopped ==
  /\ pc = "failure"
  /\ heap' = Finalized(cur)
  /\ cur' = None /\ pc' = "idle"
  /\ UNCHANGED <<polls, clients, tls, left, bound, ssls, refused>>
Failure ==
  /\ pc = "failure"
  /\ heap' = Finalized(cur)
  /\ polls' = SubSeq(polls, 1, Len(clients))
  /\ cur' = None /\ pc' = "idle"
  /\ UNCHANGED <<clients, tls, left, bound, ssls, refused>>

\* A client ends, and clients_remove_finalized closes the gap.
RemoveFinalized(i) ==
  /\ pc = "idle"
  /\ heap' = Finalized(clients[i])
  /\ clients' = RemoveAt(clients, i) /\ polls' = RemoveAt(polls, i)
  /\ UNCHANGED <<tls, left, cur, pc, bound, ssls, refused>>

Next ==
  \/ \E c \in left : Accept(c)
  \/ Fcntl \/ server_send_low_resources_connection
  \/ MakeReadBio \/ MakeWriteBio \/ MakeSsl \/ Bind \/ Unmake
  \/ AppendPoll \/ AppendClient \/ Failure
  \/ \E i \in DOMAIN clients : RemoveFinalized(i)

Spec == Init /\ [][Next]_vars

-----------------------------------------------------------------------------
Live(k, c) == heap[<<k, c>>] = "live"

\* The state is what the C declarations allow, and no descriptor is closed
\* twice: it could be another connection's by then.
TypeOK ==
  /\ heap \in [Kinds \X Connections -> {"absent", "live", "freed", "twice"}]
  /\ \A c \in Connections : heap[<<"fd", c>>] # "twice" /\ heap[<<"ssl", c>>] # "twice"
  /\ polls \in Seq(Connections) /\ clients \in Seq(Connections)
  /\ tls \cup left \cup bound \cup ssls \cup refused \subseteq Connections /\ cur \in Connections \cup {None}
  /\ pc \in {"idle", "fcntl", "refuse", "read_bio", "write_bio", "ssl", "bind", "unmake", "polls", "clients", "failure"}

\* Whichever call fails, between two connections what is still acquired
\* belongs to a listed client; the refused ones are RefusedIsClosed's.
NothingLeaked ==
  pc = "idle" => \A c \in Connections \ refused, k \in Kinds : Live(k, c) => Contains(clients, c)

\* The arrays stay parallel: clients->p[i] is the client of the descriptor
\* polls->p[i + ACCEPTING_SOCKETS], and all that is listed is open.
Parallel ==
  pc = "idle" =>
    /\ polls = clients
    /\ \A i \in DOMAIN clients : Live("fd", clients[i]) /\ (clients[i] \in tls => Live("ssl", clients[i]))

-----------------------------------------------------------------------------
(* What the repository says and the code does not do: TLC refutes it, see  *)
(* the README, section 5.                                                  *)

\* constants.h: "Start sending 500 and closing incoming connections
\* immediately when: ...": a refused connection is closed.
RefusedIsClosed == \A c \in refused : ~Live("fd", c)
=============================================================================
