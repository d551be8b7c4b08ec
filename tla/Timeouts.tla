------------------------------ MODULE Timeouts ------------------------------
(***************************************************************************)
(* The clock of the event loop (source/server/high_level.c): check_timeouts *)
(* looks at four time stamps of a client, once at the beginning of a visit *)
(* to close it, and once at the end to compute how long poll() may wait.   *)
(* The stamps are set by server_accept_connection (accept.c),              *)
(* server_receive_traffic (receive.c), server_process_traffic (process.c)  *)
(* and server_send_traffic (send.c).                                       *)
(*                                                                         *)
(* A stamp is kept as its age; an age beyond its limit is only that.       *)
(* Module Server has the rest of the loop, without time: here requests are *)
(* whole or not, all keep the connection alive, and clients are those of   *)
(* plain connections.                                                      *)
(***************************************************************************)
EXTENDS Integers, Sequences, FiniteSets, FiniteSetsExt

CONSTANTS
  Clients,
  MAX_INCOMPLETE_REQUEST_TIME, MAX_EMPTY_REQUEST_STREAM_TIME,
  MAX_FULL_RESPONSE_STREAM_TIME, MAX_INCOMPLETE_RESPONSE_TIME,
  MAX_RESPONSE_STREAM_SIZE,
  MaxResponse,     \* bound: the size of a response
  MaxWaiting       \* bound: whole requests that wait in a client's input

VARIABLES
  client,          \* struct Client, by client
  owner,           \* g_short_response_stream_owner, or None
  pc, todo, cur, saturated,
  remaining,       \* what poll() may wait; Never is INT_MAX
  waited           \* how long it has waited

control == <<pc, todo, cur, saturated>>
vars == <<client, owner, control, remaining, waited>>

None == "none"
Limit == [last_request_complete |-> MAX_INCOMPLETE_REQUEST_TIME,
          last_request_stream_not_empty |-> MAX_EMPTY_REQUEST_STREAM_TIME,
          last_response_stream_not_full |-> MAX_FULL_RESPONSE_STREAM_TIME,
          last_response_complete |-> MAX_INCOMPLETE_RESPONSE_TIME]
Stamps == DOMAIN Limit
Longest == Max({Limit[s] : s \in Stamps})
Never == Longest + 1                       \* INT_MAX

TimeoutsAssumption ==
  /\ \A s \in Stamps : Limit[s] \in Nat \ {0}
  /\ MAX_RESPONSE_STREAM_SIZE \in Nat \ {0} /\ MaxResponse \in Nat \ {0} /\ MaxWaiting \in Nat \ {0}
  /\ MAX_INCOMPLETE_RESPONSE_TIME <= MAX_INCOMPLETE_REQUEST_TIME
  /\ IsFiniteSet(Clients) /\ None \notin Clients

NewClient ==
  [open |-> TRUE,
   whole |-> 0, part |-> FALSE,            \* request_stream
   output |-> <<>>,                        \* where each response that is left ends
   age |-> [s \in Stamps |-> 0],
   empty |-> 0, pending |-> 0,             \* history: how long input was empty, output was not
   reason |-> None]                        \* history: why it was closed

Size(o) == IF o = <<>> THEN 0 ELSE o[Len(o)]
client_response_stream_size(c) == Size(client[c].output)
HasInput(c) == client[c].whole > 0 \/ client[c].part
Now(c, s) == [client[c].age EXCEPT ![s] = 0]            \* the stamp s is set

Init ==
  /\ client = [c \in Clients |-> NewClient]
  /\ owner = None
  /\ pc = "poll" /\ todo = {} /\ cur = None /\ saturated = FALSE
  /\ remaining = MAX_EMPTY_REQUEST_STREAM_TIME /\ waited = 0

------------------------------------------------------------------------------
(* poll() *)

Older(n, most) == IF n < most THEN n + 1 ELSE n

(* A second passes.  poll() returns in the second in which its time is     *)
(* over; a negative time and -1 make it wait for an event.                 *)
Tick ==
  /\ pc = "poll"
  /\ remaining \in 0 .. Longest => waited <= remaining
  /\ waited' = Older(waited, Never)
  /\ client' = [c \in Clients |-> IF ~client[c].open THEN client[c] ELSE
       [client[c] EXCEPT
          !.age = [s \in Stamps |-> Older(@[s], Limit[s] + 1)],
          !.empty = IF HasInput(c) THEN 0 ELSE Older(@, Longest + 1),
          !.pending = IF client_response_stream_size(c) > 0 THEN Older(@, Longest + 1) ELSE 0]]
  /\ UNCHANGED <<owner, control, remaining>>

NextVisit == IF todo' = {} THEN "poll" ELSE "visit"

StartVisits ==
  /\ todo' = {c \in Clients : client[c].open}
  /\ pc' = NextVisit /\ remaining' = Never /\ waited' = 0
  /\ UNCHANGED <<client, owner, cur, saturated>>

(* Something has arrived, or can be sent. *)
PollEvent == pc = "poll" /\ (\E c \in Clients : client[c].open) /\ StartVisits
PollTimeout == pc = "poll" /\ remaining \in 0 .. Longest /\ remaining <= waited /\ StartVisits

------------------------------------------------------------------------------
(* check_timeouts *)

(* The stamps that count.  All output of a client is in its ring, or all   *)
(* of it is in the shared buffer; the first line asks for the ring.        *)
Guarded(c) ==
  {s \in Stamps :
     CASE s = "last_request_complete" -> Size(client[c].output) > 0 /\ owner # c
       [] s = "last_request_stream_not_empty" -> ~HasInput(c)
       [] s = "last_response_stream_not_full" -> client_response_stream_size(c) >= MAX_RESPONSE_STREAM_SIZE
       [] s = "last_response_complete" -> client_response_stream_size(c) > 0}

Expired(c) == {s \in Guarded(c) : client[c].age[s] > Limit[s]}

(* Mutant of Arm: the last one counts. *)
Arm_last(c) ==
  IF Guarded(c) = {} THEN remaining
  ELSE Min({Limit[s] - client[c].age[s] : s \in Guarded(c)})

Arm(c) == Min({remaining} \union {Limit[s] - client[c].age[s] : s \in Guarded(c)})

------------------------------------------------------------------------------
(* The visit of one client. *)

Close(c, s) ==
  /\ client' = [client EXCEPT ![c].open = FALSE, ![c].reason = s, ![c].output = <<>>,
                              ![c].whole = 0, ![c].part = FALSE]
  /\ UNCHANGED <<owner, cur, saturated, remaining, waited>>

VisitExpired(c, s) ==
  /\ pc = "visit" /\ c \in todo /\ s \in Expired(c)
  /\ todo' = todo \ {c}
  /\ pc' = NextVisit
  /\ Close(c, s)

(* blocked: POLLOUT was asked for and not returned. *)
Visit(c, blocked) ==
  /\ pc = "visit" /\ c \in todo /\ Expired(c) = {}
  /\ blocked => client_response_stream_size(c) > 0
  /\ todo' = todo \ {c} /\ cur' = c /\ saturated' = blocked
  /\ pc' = "receive"
  /\ UNCHANGED <<client, owner, remaining, waited>>

(* Mutant of Receive: the time is not noted. *)
Receive_unnoted(n, part) ==
  /\ pc = "receive" /\ client_response_stream_size(cur) < MAX_RESPONSE_STREAM_SIZE
  /\ client[cur].whole + n <= MaxWaiting
  /\ n = 0 /\ client[cur].part => part
  /\ client' = [client EXCEPT ![cur].whole = @ + n, ![cur].part = part, ![cur].empty = 0]
  /\ pc' = "process"
  /\ UNCHANGED <<owner, todo, cur, saturated, remaining, waited>>

(* n more requests become whole, and perhaps there is the beginning of     *)
(* another, or there is nothing new.                                       *)
Receive(n, part) ==
  LET some == client[cur].whole + n > 0 \/ part
  IN /\ pc = "receive" /\ client_response_stream_size(cur) < MAX_RESPONSE_STREAM_SIZE
     /\ client[cur].whole + n <= MaxWaiting
     /\ n = 0 /\ client[cur].part => part
     /\ client' = [client EXCEPT ![cur].whole = @ + n, ![cur].part = part,
                                 ![cur].age = IF some THEN Now(cur, "last_request_stream_not_empty") ELSE @,
                                 ![cur].empty = IF some THEN 0 ELSE @]
     /\ pc' = "process"
     /\ UNCHANGED <<owner, todo, cur, saturated, remaining, waited>>

(* The output is full, or POLLIN was asked for and not returned. *)
NotReceive ==
  /\ pc = "receive"
  /\ pc' = "process"
  /\ UNCHANGED <<client, owner, todo, cur, saturated, remaining, waited>>

(* Mutant of MakesSenseToParse: a full output does not stop it. *)
MakesSenseToParse_full == client[cur].whole > 0

MakesSenseToParse == client[cur].whole > 0 /\ client_response_stream_size(cur) < MAX_RESPONSE_STREAM_SIZE
MakesSenseToSend == ~saturated /\ client_response_stream_size(cur) > 0

(* A request is complete and answered with r bytes, in the shared buffer   *)
(* unless the ring holds earlier ones.                                     *)
Process(r) ==
  /\ pc = "process" /\ MakesSenseToParse
  /\ client' = [client EXCEPT ![cur].whole = @ - 1,
                              ![cur].age = Now(cur, "last_request_complete"),
                              ![cur].output = Append(@, Size(@) + r)]
  /\ owner' = IF client_response_stream_size(cur) = 0 THEN cur ELSE None
  /\ pc' = "send"
  /\ UNCHANGED <<todo, cur, saturated, remaining, waited>>

NotProcess ==
  /\ pc = "process" /\ ~MakesSenseToParse
  /\ pc' = IF MakesSenseToSend THEN "send" ELSE "leave"
  /\ UNCHANGED <<client, owner, todo, cur, saturated, remaining, waited>>

(* What is left of responses o when k bytes of them are sent. *)
Rest(o, k) ==
  LET m == Max({0} \union {i \in DOMAIN o : o[i] <= k})
  IN [i \in 1 .. Len(o) - m |-> o[m + i] - k]

Send(k) ==
  LET left == Rest(client[cur].output, k)
      popped == Len(left) < Len(client[cur].output)
      set == (IF popped THEN {"last_response_complete"} ELSE {})
             \union (IF Size(left) < MAX_RESPONSE_STREAM_SIZE THEN {"last_response_stream_not_full"} ELSE {})
  IN /\ pc = "send" /\ MakesSenseToSend /\ k <= client_response_stream_size(cur)
     /\ client' = [client EXCEPT ![cur].output = left,
                                 ![cur].age = [s \in Stamps |-> IF s \in set THEN 0 ELSE @[s]],
                                 ![cur].pending = IF popped THEN 0 ELSE @]
     /\ saturated' = (left # <<>>)
     /\ owner' = IF left = <<>> /\ owner = cur THEN None ELSE owner
     /\ pc' = "process"
     /\ UNCHANGED <<todo, cur, remaining, waited>>

NotSend ==
  /\ pc = "send" /\ ~MakesSenseToSend
  /\ pc' = "process"
  /\ UNCHANGED <<client, owner, todo, cur, saturated, remaining, waited>>

(* Mutant of Leave: the limits of this client do not count. *)
Leave_unarmed ==
  /\ pc = "leave"
  /\ pc' = IF todo = {} THEN "poll" ELSE "visit"
  /\ UNCHANGED <<client, owner, todo, cur, saturated, remaining, waited>>

Leave ==
  /\ pc = "leave"
  /\ remaining' = Arm(cur)
  /\ pc' = IF todo = {} THEN "poll" ELSE "visit"
  /\ UNCHANGED <<client, owner, todo, cur, saturated, waited>>

------------------------------------------------------------------------------
Visits ==
  \/ \E c \in todo : \E s \in Stamps : VisitExpired(c, s)
  \/ \E c \in todo : \E blocked \in BOOLEAN : Visit(c, blocked)
  \/ \E n \in 0 .. MaxWaiting, part \in BOOLEAN : Receive(n, part)
  \/ NotReceive
  \/ \E r \in 1 .. MaxResponse : Process(r)
  \/ NotProcess
  \/ pc = "send" /\ \E k \in 0 .. client_response_stream_size(cur) : Send(k)
  \/ NotSend \/ Leave

Next == Tick \/ PollEvent \/ PollTimeout \/ Visits

(* Time passes, however often the server is woken; poll() returns when its *)
(* time is over; the server goes on.  Peers need not do anything.          *)
Spec == Init /\ [][Next]_vars /\ SF_vars(Tick) /\ WF_vars(PollTimeout) /\ WF_vars(Visits)

------------------------------------------------------------------------------
TypeOK ==
  /\ remaining \in -1 .. Never /\ waited \in 0 .. Never
  /\ owner \in Clients \union {None} /\ todo \subseteq Clients
  /\ \A c \in Clients :
       /\ \A s \in Stamps : client[c].age[s] \in 0 .. Limit[s] + 1
       /\ client[c].whole \in 0 .. MaxWaiting
       /\ client_response_stream_size(c) < MAX_RESPONSE_STREAM_SIZE + MaxResponse

(* poll() waits no longer than until the first time that counts for an     *)
(* open client is over (the minimum over all clients and stamps survives   *)
(* every order of visits), and without a limit only if none counts; with   *)
(* one exception: a negative time (high_level.c:46) makes it wait for an   *)
(* event, but then the time of some client is over already.                *)
WakesInTime ==
  pc = "poll" =>
    IF remaining < 0 THEN \E c \in Clients : client[c].open /\ Expired(c) # {}
    ELSE \A c \in Clients : client[c].open =>
           \A s \in Guarded(c) : remaining # Never /\ remaining - waited <= Limit[s] - client[c].age[s]

(* A client is closed for an empty input only if its input was empty for   *)
(* longer than that (constants.h, 5.5), less MAX_FULL_RESPONSE_STREAM_TIME *)
(* for all but one of the requests that may wait: nothing is read while    *)
(* the output is full, and each of them may have to wait for the answer to *)
(* the one before it.  Without this allowance the code does not keep it.   *)
EmptyClosedLate ==
  \A c \in Clients : client[c].reason = "last_request_stream_not_empty" =>
    client[c].empty + (MaxWaiting - 1) * MAX_FULL_RESPONSE_STREAM_TIME > MAX_EMPTY_REQUEST_STREAM_TIME

Idle(c) == client[c].open /\ ~HasInput(c) /\ client[c].output = <<>>

(* poll() waits for an event as the time of a client other than c is over. *)
Overslept(c) == pc = "poll" /\ remaining < 0 /\ \E d \in Clients \ {c} : client[d].open /\ Expired(d) # {}

(* A client that sends nothing and is owed nothing is closed at last, with *)
(* nobody but the clock to wake the server (5.5), unless the server sleeps *)
(* for ever from some time on because of another client (high_level.c:46). *)
IdleEnds == \A c \in Clients : Idle(c) ~> ~Idle(c) \/ []Overslept(c)

-----------------------------------------------------------------------------
(* What the repository says and the code does not do: TLC refutes it, see  *)
(* the README, section 5.                                                  *)

(* A client that leaves a request incomplete is answered and closed (4.4). *)
Incomplete(c) == client[c].open /\ client[c].part
IncompleteEnds == \A c \in Clients : Incomplete(c) ~> ~Incomplete(c)

(* A client is closed for its incomplete output only if a response was     *)
(* incomplete for that long (5.7).                                         *)
OutputClosedLate ==
  \A c \in Clients : client[c].reason = "last_response_complete" => client[c].pending >= MAX_INCOMPLETE_RESPONSE_TIME

(* A client that does not take its output is closed (5.7). *)
Pending(c) == client[c].open /\ client[c].output # <<>>
PendingEnds == \A c \in Clients : Pending(c) ~> ~Pending(c)
=============================================================================
