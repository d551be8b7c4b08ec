------------------------------ MODULE Process -------------------------------
(* What surrounds the visit of a client: the log files (module Output),    *)
(* the order of the visits (Shuffle), the sockets it listens at and the    *)
(* connections it accepts (Listening, Accepting), the clock of some        *)
(* clients with one set of limits and with another (Timeouts), and errors  *)
(* (Errors).  They share no state, so every behaviour is one of one of     *)
(* them.  The variable machine tells of which; the variables of the others *)
(* are Off.                                                                *)
EXTENDS Output

CONSTANTS
  Off,
  RAND_MAX, MaxClients,    \* of Shuffle
  Ports,                   \* of Listening
  Connections,             \* of Accepting
  MaxFrames,               \* of Errors
  One, Other               \* two sets of Timeouts' constants

VARIABLES
  machine,
  size, shuffle_index, turn, visits,                              \* Shuffle
  host, open, port, mode, ipv4_poll, ipv6_poll, misused,       \* Listening
  heap, clients, tls, left, bound, ssls, refused,              \* Accepting
  owner, todo, saturated, remaining, waited,                   \* Timeouts
  live, chain, end, flags, cause, raised, done,                \* Errors
  polls,                                                       \* Listening and Accepting
  cur,                                                         \* Accepting and Timeouts
  client                                                       \* Timeouts and Errors

ofShuffle == <<size, shuffle_index, turn, visits>>
ofListening == <<host, open, port, mode, ipv4_poll, ipv6_poll, misused>>
ofAccepting == <<heap, clients, tls, left, bound, ssls, refused>>
ofTimeouts == <<owner, todo, saturated, remaining, waited>>
ofErrors == <<live, chain, end, flags, cause, raised, done>>
ofOutput == <<now, disk, entries, memory>>
processVars ==
  <<machine, pc, ofShuffle, ofListening, ofAccepting, ofTimeouts, ofErrors, ofOutput, polls, cur, client>>

ShuffleOff == size = Off /\ shuffle_index = Off /\ turn = Off /\ visits = Off
ListeningOff ==
  /\ host = Off /\ open = Off /\ port = Off /\ mode = Off /\ ipv4_poll = Off /\ ipv6_poll = Off
  /\ misused = Off
AcceptingOff ==
  /\ heap = Off /\ clients = Off /\ tls = Off /\ left = Off /\ bound = Off /\ ssls = Off /\ refused = Off
TimeoutsOff == owner = Off /\ todo = Off /\ saturated = Off /\ remaining = Off /\ waited = Off
ErrorsOff ==
  /\ live = Off /\ chain = Off /\ end = Off /\ flags = Off /\ cause = Off /\ raised = Off /\ done = Off
OutputOff ==
  /\ now = Off /\ disk = Off /\ entries = Off /\ g_logs = Off /\ g_logs_total_size = Off
  /\ g_catastrophic = Off /\ g_file = Off /\ buffered = Off

S == INSTANCE Shuffle WITH i <- turn
L == INSTANCE Listening
A == INSTANCE Accepting
T == INSTANCE Timeouts WITH
  Clients <- One.Clients,
  MAX_INCOMPLETE_REQUEST_TIME <- One.MAX_INCOMPLETE_REQUEST_TIME,
  MAX_EMPTY_REQUEST_STREAM_TIME <- One.MAX_EMPTY_REQUEST_STREAM_TIME,
  MAX_FULL_RESPONSE_STREAM_TIME <- One.MAX_FULL_RESPONSE_STREAM_TIME,
  MAX_INCOMPLETE_RESPONSE_TIME <- One.MAX_INCOMPLETE_RESPONSE_TIME,
  MAX_RESPONSE_STREAM_SIZE <- One.MAX_RESPONSE_STREAM_SIZE,
  MaxResponse <- One.MaxResponse, MaxWaiting <- One.MaxWaiting
P == INSTANCE Timeouts WITH
  Clients <- Other.Clients,
  MAX_INCOMPLETE_REQUEST_TIME <- Other.MAX_INCOMPLETE_REQUEST_TIME,
  MAX_EMPTY_REQUEST_STREAM_TIME <- Other.MAX_EMPTY_REQUEST_STREAM_TIME,
  MAX_FULL_RESPONSE_STREAM_TIME <- Other.MAX_FULL_RESPONSE_STREAM_TIME,
  MAX_INCOMPLETE_RESPONSE_TIME <- Other.MAX_INCOMPLETE_RESPONSE_TIME,
  MAX_RESPONSE_STREAM_SIZE <- Other.MAX_RESPONSE_STREAM_SIZE,
  MaxResponse <- Other.MaxResponse, MaxWaiting <- Other.MaxWaiting
E == INSTANCE Errors

ASSUME ProcessAssumption ==
  /\ S!ShuffleAssumption /\ L!ListeningAssumption /\ A!AcceptingAssumption /\ T!TimeoutsAssumption
  /\ P!TimeoutsAssumption /\ E!ErrorsAssumption /\ OutputAssumption

-----------------------------------------------------------------------------
ProcessInit ==
  \/ /\ machine = "shuffle" /\ S!Init /\ polls = Off /\ cur = Off /\ client = Off
     /\ ListeningOff /\ AcceptingOff /\ TimeoutsOff /\ ErrorsOff /\ OutputOff
  \/ /\ machine = "listening" /\ L!Init /\ cur = Off /\ client = Off
     /\ ShuffleOff /\ AcceptingOff /\ TimeoutsOff /\ ErrorsOff /\ OutputOff
  \/ /\ machine = "accepting" /\ A!Init /\ client = Off
     /\ ShuffleOff /\ ListeningOff /\ TimeoutsOff /\ ErrorsOff /\ OutputOff
  \/ /\ \/ machine = "clock" /\ T!Init
        \/ machine = "clocks" /\ P!Init
     /\ polls = Off
     /\ ShuffleOff /\ ListeningOff /\ AcceptingOff /\ ErrorsOff /\ OutputOff
  \/ /\ machine = "errors" /\ E!Init /\ polls = Off /\ cur = Off
     /\ ShuffleOff /\ ListeningOff /\ AcceptingOff /\ TimeoutsOff /\ OutputOff
  \/ /\ machine = "output" /\ Init /\ polls = Off /\ cur = Off /\ client = Off
     /\ ShuffleOff /\ ListeningOff /\ AcceptingOff /\ TimeoutsOff /\ ErrorsOff

Only(own) == machine = own /\ UNCHANGED machine

Cycle ==
  /\ Only("shuffle") /\ S!Next
  /\ UNCHANGED <<ofListening, ofAccepting, ofTimeouts, ofErrors, ofOutput, polls, cur, client>>
Listen ==
  /\ Only("listening") /\ L!Next
  /\ UNCHANGED <<ofShuffle, ofAccepting, ofTimeouts, ofErrors, ofOutput, cur, client>>
Accept ==
  /\ Only("accepting") /\ A!Next
  /\ UNCHANGED <<ofShuffle, ofListening, ofTimeouts, ofErrors, ofOutput, client>>
Timed(own) ==
  /\ Only(own)
  /\ UNCHANGED <<ofShuffle, ofListening, ofAccepting, ofErrors, ofOutput, polls>>
Clock == Timed("clock") /\ T!Next
Clocks == Timed("clocks") /\ P!Next
Raise ==
  /\ Only("errors") /\ E!Next
  /\ UNCHANGED <<ofShuffle, ofListening, ofAccepting, ofTimeouts, ofOutput, polls, cur>>
Write ==
  /\ Only("output") /\ Next
  /\ UNCHANGED <<ofShuffle, ofListening, ofAccepting, ofTimeouts, ofErrors, polls, cur, client>>
(* No connection comes, or the process has ended. *)
Rest == machine \in {"listening", "accepting", "errors"} /\ UNCHANGED processVars

ProcessNext == Cycle \/ Listen \/ Accept \/ Clock \/ Clocks \/ Raise \/ Write \/ Rest

Ticks == (Timed("clock") /\ T!Tick) \/ (Timed("clocks") /\ P!Tick)
PollTimeouts == (Timed("clock") /\ T!PollTimeout) \/ (Timed("clocks") /\ P!PollTimeout)
VisitsGoOn == (Timed("clock") /\ T!Visits) \/ (Timed("clocks") /\ P!Visits)

(* Time passes, however often the server is woken; poll() returns when its *)
(* time is over; the server goes on.  Peers need not do anything.          *)
ProcessSpec ==
  /\ ProcessInit /\ [][ProcessNext]_processVars
  /\ SF_processVars(Ticks) /\ WF_processVars(PollTimeouts) /\ WF_processVars(VisitsGoOn)

-----------------------------------------------------------------------------
(* The state of each component is what its C declarations allow: no index  *)
(* leaves its array, no descriptor of a connection is closed twice and the *)
(* flags of an error fit their nine bits.                                  *)
TypesOK ==
  CASE machine = "shuffle" -> S!TypeOK
    [] machine = "listening" -> L!TypeOK
    [] machine = "accepting" -> A!TypeOK
    [] machine = "clock" -> T!TypeOK
    [] machine = "clocks" -> P!TypeOK
    [] machine = "errors" -> E!TypeOK
    [] machine = "output" -> TypeOK

(* Each cycle visits every client exactly once (EveryOnce of Shuffle).     *)
EveryOnce == machine = "shuffle" => S!EveryOnce

(* No client is favoured in the order of the visits (Unbiased of Shuffle). *)
Unbiased == machine = "shuffle" => S!Unbiased

(* However the modes of server_create_socket_pair failed: each socket is   *)
(* at a place of its own port, from which its protocol is told, a port     *)
(* serves every address family that any mode could have served on this     *)
(* host, each descriptor is closed once, and in the end all are.           *)
SocketsInPlace ==
  machine = "listening" => L!PairsInPlace /\ L!BestMode /\ L!ClosedOnce

(* Whichever call of server_accept_connection fails, what is still held    *)
(* belongs to a listed client or to a connection that was refused, and the *)
(* arrays of clients and of descriptors stay parallel.                     *)
NothingLeaked == machine = "accepting" => A!NothingLeaked /\ A!Parallel

(* poll() sleeps past the time of an open client only if the time of some  *)
(* client was over already when it began (it then waits for an event).     *)
(* And a client is closed for an empty input too early by no more than     *)
(* (MaxWaiting - 1) * MAX_FULL_RESPONSE_STREAM_TIME, the longest that its  *)
(* last requests can have waited for a full output: not at all where one   *)
(* request at most can wait.  (WakesInTime, EmptyClosedLate of Timeouts.)  *)
TimeoutsInTime ==
  /\ machine = "clock" => T!WakesInTime /\ T!EmptyClosedLate
  /\ machine = "clocks" => P!WakesInTime /\ P!EmptyClosedLate

(* A client that sends nothing and is owed nothing is closed at last, with *)
(* nobody but the clock to wake the server: if it is the only one, always; *)
(* if there are others, unless the server sleeps for ever from some time   *)
(* on, because the time of another was over when the visits ended.         *)
IdleEnds ==
  /\ \A c \in One.Clients :
       (machine = "clock" /\ T!Idle(c)) ~> (machine = "clock" => ~T!Idle(c))
  /\ \A c \in Other.Clients :
       (machine = "clocks" /\ P!Idle(c))
         ~> (machine = "clocks" => ~P!Idle(c)) \/ [](machine = "clocks" /\ P!Overslept(c))

(* However often memory runs out while an error is passed on, and though   *)
(* its recovery fail: the message of the first failure stays the last of   *)
(* the list, every message is freed in the end, the client does not go on  *)
(* as it was, and only what was raised as fatal ends the server.           *)
ErrorsHandled ==
  machine = "errors" => E!CauseKept /\ E!AllFreed /\ E!NeverIgnored

(* Through rotations, clean-ups, crashes and restarts: g_logs_total_size   *)
(* is the sum of the listed sizes, the list keeps the limits on number and *)
(* size, the open file is its last entry, and every log that the program   *)
(* can read is listed once the directory has been read.                    *)
LogsKept ==
  machine = "output" => TotalIsSum /\ WithinLimits /\ OpenIsLast /\ NothingOrphaned
=============================================================================
