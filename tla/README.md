# Twinkleshine in TLA+

Twinkleshine is a small-web server in C: one process, one thread, one loop
around `poll()`, serving HTTP, HTTPS, Gopher, Finger, Gemini, Spartan, Nex, Text
(TCP) and Guppy (UDP). This directory holds TLA+ models of its core, the TLC
runs that check them on small instances, and proofs that TLAPS checks for every
value of the constants. Paths below are relative to the repository.

## 1. Inventory

| component | state | operations | talks to |
|---|---|---|---|
| ring (`source/ring.c`) | `p, size, capacity, begin` | reserve, push, get, pop, unpush, finalize | every client has three; counts memory in `g_memory` |
| values (`source/value.c`) | two-part views of memory | size, read, write, split, compare, trim, convert | views into rings |
| event loop (`source/server/high_level.c`) | arrays of clients and pollfds, `remaining`, `utilization` | poll, accept, shuffle, visit each client, compact | everything |
| accepting (`accept.c`) | 18 listening sockets | admit, refuse or undo | appends clients |
| receiving (`receive.c`, `low_level.c`) | `request_stream` | ioctl, read, push back | ring, TLS, Guppy message buffer |
| processing (`process.c`) | parser, request, `response_queue` | parse, flush the short buffer, make a response | parser, processor |
| sending (`send.c`, `low_level.c`) | `g_short_response_stream` and its owner, `response_stream`, `response` | send, pop metadata | ring |
| clients (`source/client.c`) | array of `struct Client`, the owner pointers | append, finalize, shuffle, compact | owner pointers point into the array |
| parsers (`source/parser/`) | `struct Parser`, `struct Request` | one state machine per protocol | read the request ring |
| processors (`source/processor/`) | two internal buffers shared by all responses | make pages, fixed messages | the short buffer is a view of them |
| Guppy (`low_level.c`, `receive.c`, `guppy_processor.c`) | a counter per chunk, one message buffer | send, repeat, acknowledge | unreliable network |
| TLS (`source/cryptography.c`) | state, `SSL`, two BIOs | handshake, encrypt, decrypt, shut down | rings, OpenSSL |
| timeouts (`high_level.c`, `source/time.c`) | five time stamps per client | check, arm | poll's timeout |
| errors (`extended_error.h`) | flags and fixed message in one enum | send, shut down, close, log, die | every error path |
| logs (`source/output.c`) | array of up to 16 logs, one open file | rotate, insert, clean up | file system |
| initialization, random numbers, tables, languages, commonlib | mostly constant | | |

What is hard here. The program has one thread, so nothing races inside it; what
interleaves with it is the network, met at every system call, and *its own
clients*, which share a response buffer, an array that is compacted, and one
cycle. The short buffer avoids copying: a response stays where it was made and
belongs to one client, until it is sent or until anyone needs the buffer. It is
what makes the server fast and what makes it fragile: bytes move between two
output buffers, while a queue of metadata must keep describing them, whatever
portion `send()` takes. Errors can end a visit between any two of these steps.
Guppy adds loss and repetition, TLS a second layer of buffering, the timeouts a
clock. `PROJECT.json` lists each hazard at its line.

What makes each component correct: a ring is a queue of bytes; a connection is
sent its own responses completely and in order; the metadata describes the
pending bytes; the server sleeps only when nothing can be done and always comes
back to sleep; its buffers and its clients are bounded; a closed connection is
left alone; a timeout closes what it names and nothing else; a parser's result
does not depend on how the bytes were split; a Guppy chunk is repeated until
acknowledged or given up.

## 2. Modules

| module | what it is |
|---|---|
| `ByteQueue` | abstract: an unbounded first-in first-out queue of bytes, what `ring.h` promises |
| `Ring` | `ring.c`, the parts of `value.c` and `memory.c` it needs, and the four callers that combine ring operations |
| `RingProofs` | proofs: types, refinement of `ByteQueue`, what `ring_get` addresses |
| `Server` | the event loop, accept, receive, process, send, and the array of clients, for plain connection sockets |
| `ServerProofs` | proofs: types, the bound on clients; what each connection is sent, the metadata, the bounds of the streams, when the loop may sleep, what a closed connection meets |
| `Shuffle` | the order of a cycle's visits: `random_rand`, `clients_shuffle` |
| `Timeouts` | the clock, the four time stamps, `check_timeouts` in both of its uses, the time `poll()` waits |
| `ClockProofs` | proofs about `Timeouts` and `Guppy`: when the server wakes; a Guppy page is delivered, its peer given up late, its message taken by the right client |
| `Accepting` | what accepting a connection acquires, and gives back at each failure |
| `Listening` | the start: the pairs of listening sockets and the fallback between their modes |
| `Process` | what surrounds a visit, side by side: `Shuffle`, `Listening`, `Accepting`, `Timeouts` (twice), `Errors`, `Output` |
| `ProcessProofs` | proofs about `Process` and its components: every client is visited once, in an order that favours none; nothing leaks, the arrays stay parallel, sockets are where their protocol is looked up; no error is lost or ignored; the logs are counted and limited |
| `Tls` | a TLS connection in records: handshake, pump, silent responses, recovery, shutdown |
| `Guppy` | datagrams: the shared message, chunks, repetition, acknowledgements, over a faulty network |
| `Chunks` | how a page is cut into Guppy chunks by one function and cut again by another |
| `Transports`, `TransportsProofs` | what carries a response in datagrams: `Guppy` (twice), `Chunks`; proofs about all of them |
| `Parser`, `ParserProofs` | the eight request parsers and `parser_parse` over the two parts of the ring; proofs that a request and its fields lie where they may |
| `Values` | `value.c` on two-part values, and the loop over the `Connection` header |
| `Language` | the `Accept-Language` header |
| `Site` | which page answers what, in which language, and how the nine protocols print it |
| `Errors` | lists of errors, their flags and fixed messages, the handlers |
| `Output` | the log files: rotation, clean-up, restart |
| `NumberInduction` | lemmas: every set of numbers has a smallest one, and what follows: induction, recursive functions |
| `MCRing`, `MCServer` | the two runs' modules for `Ring` and `Server` |
| `Requests` | from the bytes of a request to its page, side by side: `Tls`, `Parser` (twice), `Values`, `Language`, `Site` |
| `RequestsProofs` | proofs about `Requests` and its components: the metadata and the end of a TLS connection; values mean the same wherever they wrap; every link leads to its page, and every page is whole |
| `MCRequests` | what peers send: well-formed and damaged requests, headers, resources that are typed in; values for the other constants of `Requests` |
| `MCTransports`, `MCProcess` | values for the constants of `Transports` and of `Process` |

`Requests`, `Transports` and `Process` have several components side by side. The
components of one share no state, so a behaviour is one of exactly one of them:
`machine`, chosen in the initial state, says of which, the variables of the
others are `Off`, and each property is one or several of the component's own under
`machine = ...`; it is named after the strongest of them, or after what they say
together (section 3).
A component with two instances has two values of `machine`. Each of these modules
extends one component (`Tls`, `Guppy`, `Output`), whose properties a run checks
under their own names, so that theorems can state the same definitions. The assumptions on
the constants stand in the components as definitions; the composite assumes
them of its instances, so that TLC evaluates them. All three have
parameters only, so that theorems are about all their values; where a component
occurs twice, records have its constants (`Proper` and `Disturbed`, `Again`, `One`,
`Other`).

`Server` is the middle. It abstracts what the others have in detail: rings are
sequences (`Ring`), time and TLS are left out (`Timeouts`, `Tls`), a request is
one of four kinds of bytes (`Parser`), a response any bytes (`Site`, `Chunks`),
the order of visits any order (`Shuffle`). `Timeouts`, `Tls` and `Guppy` have the
loop again as far as they need it, each with what `Server` leaves out.

### Ring

`ring` is the `struct Ring`; its memory is a function from addresses to bytes,
with `Garbage` in cells nobody wrote, so that reading what was never written is
visible. `p = NULL` is `capacity = 0`. The functions of `ring.c` are operators
(`PartsAt`, `Pushed`, `Popped`, `Expanded`...). An action is one call as the
server makes it, with its refusals (the `ARET` checks) and a failing `realloc`.
Where a caller performs several operations before anyone can look (reserve, push,
`read()` into both parts, unpush) the action is the whole of it. The doubling
loop is the set of its results (`NewCapacities`, a singleton). The shrinking
branch of `ring_reserve` has no action: the loop starts at the current capacity,
so the branch is unreachable. Sizes are unbounded naturals: `size_t` overflow
needs a ring of 2^63 bytes, and the server limits them to a few megabytes.

### Server

State: `clients` (each `struct Client` with its pollfd's events), `g_short` and
`owner` (the short buffer and the index of its owner, 0 for `NULL`; an index and
not a pointer because `clients_append` keeps the index when the array moves),
and the control state of the single thread: `pc`, `cur`, `todo`, `flags`,
`done`, `sent`, `index`, `refuse`.

Actions follow the code from system call to system call:

| action | code |
|---|---|
| `poll`, `server_accept_traffic`, `clients_shuffle` | `server_process_clients`, `server_accept_traffic` |
| `server_process_client`, `FirstRound` | begin of a visit: flags from `revents`, hang-up, timeouts |
| `server_receive_*`, `NotReceive` | step 1 of a round |
| `server_process_*`, `NotProcess` | step 2 of a round |
| `server_send_*`, `server_pop_responses`, `PoppedAll`, `AfterSend`, `NotSend*` | step 3 of a round |
| `Again`, `PrepareToWait` | next round, or ask `poll()` for events |
| `clients_remove_finalized` | end of the cycle |

`Failure` is the label `failure` of `server_process_client`: it is part of every
action that ends in an error, never a step of its own. System calls have every
outcome they can have: `read()` any portion, nothing for now, end of file or an
error, also in its second part; `send()` any portion or an error after the first
part; `accept()`, `ioctl()`, `poll()` and every allocation may fail.

Abstractions. A received byte is inside a request (`inner`), ends one that keeps
the connection alive (`keep`) or one that does not (`close`), or cannot be in a
request (`bad`). A sent byte is a connection and a number, so that a byte lost,
repeated, misplaced or sent to the wrong peer is visible. The size of a response
is any number up to `MaxResponse`. Rings are sequences, which is what
`RingProofs` licenses. Clients are visited in any order, which covers every
shuffle. Time is not modelled: where `check_timeouts` looks at a time stamp, the
timeout may or may not have passed, also on a connection's first visit. A fixed
message counts as sent once it is handed to `send()`, whose result the code
ignores. `max_memory` and `max_utilization` hold or not in any cycle.

History variables record what the properties speak about: `wire` (what each
connection was sent), `received`, `issued`, `closing`, `outcome`. `orphaned`
says that some client was finalized while it owned the short buffer. From then
on the owner pointer of the code dangles (finding `server_owner`), and several
properties are claimed only while it is `FALSE`: they show that everything else
around the shared buffer is right. The comparison in `client_finalize` is to be
fixed in the code, then `orphaned` goes away.

### Timeouts

`client` holds, by client, the age of each of its four stamps, its output (where
each response that is left of it ends) and what waits in its input. An age grows with `Tick`, once per second, up to one
more than its limit: beyond that it is only too old. A visit checks the stamps
(`VisitExpired`), works, and arms `remaining` (`Arm`, `Leave`); `poll()` returns after
that time or when a socket has something. Negative waits for ever, as in
`poll(2)`.

### Accepting and Listening

Both follow acquisitions one by one, with every call failing. `Accepting` names
each object by its connection and keeps what became of it, so that a leak, a
second `free()` and a use afterwards are visible. `Listening` tries the four
modes of `server_create_socket_pair` on a host that allows any subset of socket
kinds for each port; `bind()` refuses what overlaps an open socket.

### Tls

`client` has the state of `enum CryptographyState`, the two BIOs as sequences of
records, and the metadata queue with its cached first response. `Pending` are the
responses as `server_pop_responses` sees them, the first one from the cache, and
`Ends` the places in `response_stream` where they end. OpenSSL is
external: `SSL_read` gives one record, `SSL_accept` answers and may add session
tickets, `SSL_shutdown` writes the `close_notify` and waits for the peer's. The
steps of a round are `Receive`, `Process` and `Send`, or their `Not...` forms, in
the code's order and under its conditions. An error has the flags of `extended_error.h`
that matter here (`Flags`, or those of the call that fails). `Failure` is what follows
in the same visit: `Recovery` is the branch at `high_level.c:179`, a fixed response and
the shutdown, `Farewell` the one at `high_level.c:227`, which ends the client, and sends
the fixed message as it is if there is no SSL object; the history variable `plain`
notes that. The connection has none after `cryptography_finalize` either, so that
this message then follows the `close_notify` unencrypted.

### Guppy and Chunks

A chunk's counter is the code's: how often it was sent, or -1 once it is
acknowledged. `message` and `message_owner` are the one shared buffer. The
network holds acknowledgements in a set from which any may arrive, again and
late; a sent chunk arrives or is lost when it is sent. The history variable `left`
says that a client was closed while a message waited for it: the code leaves
`message_owner` as it is, the array is compacted, and the number names some other client
or none, until a client takes the message. `Chunks` has the bytes
that `Guppy` leaves out: measuring, moving apart in place, and cutting by sizes
that are computed a second time.

### Parser, Values, Language

A parser is one step per character (`Process`), its state and fields in the
record `q`; `parser_parse` feeds it the two parts of the ring, from where it
stopped. A character stands for its classes of `tables.c`; inputs are made in
`MCRequests` from well-formed requests, singly, pipelined, cut and damaged, with
content cut and wrapped anywhere, too. `split` in `q` notes that content was taken in more
than one piece. The
operators of `Values` walk two parts as `value.c` does and are compared with
their meaning on one sequence. `Language` reads the header by characters and is
compared with the preference of its elements; a weight is counted in thousandths,
and decimals behind the third (`MaxDecimals`) do not count, where the code adds
ever smaller parts to a `double`.

### Site

A resource is a sequence of words and separators, a page is its list of entries
with styles and links, and printing an entry is one step. The printers of the
protocols keep what they open, close and append. After a page, the visitor
follows one of its links, to another protocol too.

### Errors and Output

`Errors` has the list of messages as a sequence of allocated messages with `OK`
or `PANIC` behind it, and the flags as the set of the places of their bits: `|` is
the union, a test with `&` is membership, and the fixed responses share places
with the actions as they do in C. `Output` has the directory, the array
`g_logs` with its counters, and the clock in ticks, several of which are a day;
the program may crash between any two steps and start again.

## 3. Runs

| run | instance | checks |
|---|---|---|
| `ring` | 2 byte values, calls of up to 3 bytes, capacity asked up to 4 | `TypeOK`, `GetAddressesLocation`, `IsQueue` |
| `server_sharing` | 2 connections, 2 bytes each, 2-byte buffers and responses, 2 listening sockets, limit 1 | `TypeOK`, `InOrder`, `NoPanic`, `NoLostWakeup`, `StreamsBounded`, `ClosedIsFinal` |
| `server_pipeline` | 1 connection, 4 bytes, 3-byte streams | `InOrder`, `Accounting`, `ServedInFull`, `CycleEnds` |
| `server_limit` | 3 connections, 1 byte each, limit 1, 2 listening sockets | `ClientsBounded`, `InOrder` |
| `requests`: tls | 3 requests, 3 records of output, 2 records per response | `Accounted`, `ShutDownOnce` |
| parser | well-formed requests of all protocols, reads of 1 to 3 characters or all | `RequestInside`, `TotalRequestSize`, `AllRecognised` |
| disturbed | the same with one character changed or added | `RequestInside` |
| values | values up to 4 of 6 characters, `UINT_MAX` 195 | `SeamIsInvisible`, `HeadersUnderstood`, `AllRecognised` |
| language | headers of up to 3 elements | `HeadersUnderstood` |
| site | 9 protocols, resources of up to 3 words, all links | `LinksLead`, `ResponseIsWhole` |
| `transports`: guppy | 2 peers, a request each, 3 chunks, 2 at a time, sent twice | `NoMessageLeft`, `Delivered`, `Patient`, `AllTransfersEnd` |
| again | 2 peers that ask again, with timeouts and failed allocations | `NoMessageLeft`, `Delivered`, `Patient` |
| chunks | pages up to 40 bytes, chunks of 8, numbers around 10 and 100 | `Reassembled` |
| `process`: shuffle | up to 5 clients, `rand()` of 3 bits | `EveryOnce`, `Unbiased` |
| listening | 3 ports, any host | `SocketsInPlace` |
| accepting | 3 connections, any of them with TLS | `NothingLeaked` |
| clock | 1 client, limits of 2 s and 6 s | `TimeoutsInTime`, `IdleEnds` |
| clocks | 2 clients, limits of 1 s and 2 s | `TimeoutsInTime`, `IdleEnds` |
| errors | lists of up to 4 messages | `ErrorsHandled` |
| output | 3 logs, days of 2 ticks, 7 ticks, crashes and restarts | `LogsKept` |
| `server_owner`, `server_keep_alive`, `server_fixed`, `server_admit` | as `server_sharing` or smaller | one comment each that the code contradicts (section 5) |
| `transports_owner` | as `transports`, without timeouts and failed allocations | `MessageOwnerIsNull`, a comment that the code contradicts (section 5) |

The lines without a run of their own are the further values of `machine` of the
run above them. Each of these runs checks one type invariant for all of its
components, `TypesOK` (`TypeOK` is that of the component the module extends).
`ClosedIsFinal` and `IsQueue` are action properties, `CycleEnds`, `IdleEnds`,
`AllTransfersEnd` and `AllRecognised` liveness, the others invariants.

What the passing runs show:

- `IsQueue`: the ring implements `ByteQueue`. With three bytes per call, rings of
  capacity 4 and 8 are grown while wrapped, and values of two parts are read,
  written and overwritten across the wrap.
- `InOrder`: the bytes on the wire followed by the pending ones are exactly the
  bytes issued, for each connection, through flushes, partial sends, errors of
  the other connection and compaction. A fixed message can only come last.
- `Accounting` and `NoPanic`: `response`, `response_queue` and `response_count`
  describe the pending bytes after any portion was sent, so that popping never
  finds the queue empty.
- `NoLostWakeup`: whenever the server sleeps, pending output waits for `POLLOUT`,
  and otherwise everything received is parsed and the client waits for `POLLIN`.
- `StreamsBounded`, `ClientsBounded`: what a peer can make the server hold.
- `ServedInFull`, `ClosedIsFinal`: an orderly close cuts nothing, and the further
  round that runs on a finalized client touches nothing.
- `CycleEnds`: from anywhere in a cycle the server reaches `poll()` again or ends.
- `EveryOnce`, `Unbiased`: every client is visited once per cycle, and each step
  of the shuffle gives every client that is left the same chance.
- `TimeoutsInTime` (`WakesInTime` and `EmptyClosedLate`): when `poll()` is given a time,
  it is over with or before the first deadline that counts for any open client; it is
  given one unless no deadline counts. The one exception is in the formula: where a
  deadline was over already when its client's visit ended, the time is negative
  (`high_level.c:46`) and `poll()` waits for an event, past everybody's deadlines. And no
  client is closed for silence before its time, with an allowance that is in the
  formula too. The stamp of the input is set when something is
  read and not when the last request is answered, and nothing is read while the
  output is full. So the time of silence may be short by as long as the requests
  waited for room in the output, `MAX_FULL_RESPONSE_STREAM_TIME` for each but
  the last of them; with up to three waiting, TLC meets the case of two waits. Where at
  most one waits there is no allowance (`clocks`).
- `IdleEnds`: an idle client is closed at last, with nobody but the clock to wake the
  server. If there are other clients, it may instead be that the server sleeps for ever
  from some time on because of another one (`Overslept`, the exception above); without
  that alternative TLC refutes the property in `clocks`, where one client asks, does not
  read its answer and lets the server sleep past the other one.
- `NothingLeaked` (with `Parallel`): at whatever call accepting fails, descriptors, BIOs
  and SSL objects are given back, and `polls` and `clients` keep the same places.
- `SocketsInPlace` (`PairsInPlace`, `BestMode`, `ClosedOnce`): the place of a socket tells its
  protocol whatever modes failed before it, and an abandoned mode is not in the
  way of the next.
- `Accounted`, `ShutDownOnce`: the sizes in the metadata are those of the
  encrypted bytes although they are corrected afterwards and handshake records
  come between; a connection has one `close_notify`, and nothing else is put into its
  stream after it; no SSL object is used after `SSL_free`. What may follow, and is in the
  formula (`PlainLast`), is one fixed message outside of TLS, when a timeout or too much
  data meets a connection that is being shut down; its client ends with it.
- `Delivered`, `Patient`, `AllTransfersEnd`: a Guppy transfer that counts as served
  has arrived completely, one is given up only after all repetitions and their
  waits, and every transfer ends. `NoMessageLeft` (`MessageTaken` of `Guppy`): a datagram
  that waits belongs to the client of the peer that sent it, and none waits when the cycle
  ends. That holds until a client is closed whose datagram waits, and again from when a
  client takes what was left behind; the comment that claims it without this condition is
  refuted by `transports_owner` (section 5).
- `Reassembled` (with `FrontUntouched`): the two functions that cut a page agree, also
  where the numbers gain a digit, and moving it in place overwrites nothing that
  is still needed.
- `TotalRequestSize` (with `RequestedResource`), `AllRecognised`: a request is
  the same request however it was split, pipelined or wrapped, and each is
  recognised at last. Two things the code does otherwise are in the instances and in
  the formulas (section 5): a request whose content is parsed in pieces ends
  too late, if ever, and spoils those behind it; the fields of a Finger request with both
  `/W` and a name have the right sizes but not the right places. `AllRecognised` also has
  `LoopEnds` of `Values`, that the loop over the `Connection` header ends. With one
  character wrong, `RequestInside` (with `Consumes` and `FieldsInside`) keeps what the
  parser claims inside what arrived.
- `SeamIsInvisible` (`TrimIsExact`, `UintIsExact`, `CutIsExact`): the seam between
  two parts changes nothing, and overflow is noticed exactly.
- `HeadersUnderstood` (`KeepAliveIsExact`, `PreferredIsChosen`): the connection is
  kept exactly when the header asks for it, and the language is the one with the
  highest weight.
- `LinksLead` (`NoDeadLinks`, `LanguageKept`), `ResponseIsWhole` (`HtmlBalanced`,
  `NothingStale`, `HeaderIsTrue`): from any page every link leads to a page, in the language that was meant,
  elements are closed in order, and the two shared buffers hold nothing of an
  earlier response, whatever protocol that was for.
- `ErrorsHandled` (`CauseKept`, `AllFreed`, `NeverIgnored`): running out of memory loses no cause
  and no memory, and a failed client does not live on.
- `LogsKept` (`TotalIsSum`, `WithinLimits`, `OpenIsLast`, `NothingOrphaned`): the counters of
  the logs agree with the directory over days, crashes and restarts, and the
  limits on number and size hold when no log is open.

Bounds. Two connections are enough for one to own the short buffer while the
other is served, closed or moved, and a third one to take a freed place. A
request is one or two bytes, so that it can be split and pipelined; streams of
two and three bytes are filled, and the parser's limit is hit. A response of two
bytes can be sent in parts. Four bytes let one connection have several pending
responses in both buffers. The limit of one client with two listening sockets is
the smallest that can be exceeded. `CycleEnds` needs `MaxTraffic`: a peer that
sends for ever keeps a visit going for ever, in the code too.

`RAND_MAX` 7 divides evenly by 2 and 4 and not by 3 and 5. In `clock` the
limits differ, so that each can be the first to pass. Three records of output
hold one response of two and a silent one. Three chunks, two at a time, need the
window to move; two sendings are the fewest with a repetition. Pages of 40 bytes
make up to eight chunks. Reads of up to three characters cut any two-character
line end and any token. `UINT_MAX` 195 overflows in the third digit, by the
product and by the sum. Three logs leave an oldest, a newest and one between.

Fairness. Nothing is assumed of the network or the peers anywhere. `CycleEnds`
assumes `WF_vars(Next)` of `Server`, `AllRecognised` and `LoopEnds` the same of
`Parser` and `Values`: the single thread keeps running. `IdleEnds` assumes in
addition that time passes (`SF` of `Ticks`: however often the server is woken)
and that `poll()` returns when its time is over (`WF` of `PollTimeouts`), and that
visits go on (`VisitsGoOn`), for one client and for two alike; no peer need ever cause an event. `AllTransfersEnd` assumes
`WF_vars(Server)` and `SF_vars(Wake)`: while the repeat time is armed it passes,
however often other datagrams wake the server.

## 4. Proofs

TLC checks small instances; the following hold for every value of the constants.
Each is proved from an inductive invariant, which TLC checked on small instances
first, with a lemma for each action or phase.

| module | theorems | invariant |
|---|---|---|
| `RingProofs` | `RingTypeOK`, `RingIsQueue`, `RingGetAddresses` | `TypeOK` |
| `ServerProofs` | `ServerTypeOK`, `ServerClientsBounded` | `IInv` |
| | `ServerInOrder`, `ServerAccounting`, `ServerServedInFull`, `ServerNoLostWakeup`, `ServerStreamsBounded`, `ServerNoPanic`, `ServerClosedIsFinal` | `IInv`, `FlowInv` |
| `ClockProofs` | `TimeoutsTypeOK`, `TimeoutsWakesInTime`, `TimeoutsEmptyClosedLate` | `ClockInv`, `Overdue` |
| | `GuppyTypeOK`, `GuppyDelivered`, `GuppyPatient` | `IInv`, `Awaited` |
| `TransportsProofs` | `TransportTypesOK`, `TransportReassembled`, `TransportNoMessageLeft`, `TransportDelivered`, `TransportPatient` | `TransportInv`, `CInv` |
| `ProcessProofs` | `ShuffleTypeOK`, `ShuffleEveryOnce`, `ShuffleUnbiased` | `SInv` |
| | `ErrorsTypeOK`, `ErrorsCauseKept`, `ErrorsAllFreed`, `ErrorsNeverIgnored` | `EInv` |
| | `AcceptingTypeOK`, `AcceptingNothingLeaked`, `AcceptingParallel` | `AInv` |
| | `ListeningTypeOK`, `ListeningPairsInPlace`, `ListeningBestMode`, `ListeningClosedOnce` | `LInv` |
| | `OutputTypeOK`, `OutputTotalIsSum`, `OutputWithinLimits`, `OutputOpenIsLast`, `OutputNothingOrphaned` | `OInv` |
| | `ProcessTypesOK`, `ProcessEveryOnce`, `ProcessUnbiased`, `ProcessSocketsInPlace`, `ProcessNothingLeaked`, `ProcessTimeoutsInTime`, `ProcessErrorsHandled`, `ProcessLogsKept` | `ProcessInv` |
| `ParserProofs` | `ParserTypeOK`, `ParserConsumes`, `ParserRequestInside`, `ParserFieldsInside` | `PInv` |
| `RequestsProofs` | `TlsTypeOK`, `TlsAccounted`, `TlsShutDownOnce` | `IInv` |
| | `ValuesTrim`, `ValuesCut`, `ValuesUint`, `ValuesKeepAlive` | `VInv` |
| | `RequestTypesOK`, `RequestRequestInside`, `RequestSeamIsInvisible`, `RequestAccounted`, `RequestShutDownOnce`, `RequestLinksLead`, `RequestResponseIsWhole` | `RequestInv`, with `PInv`, `ValuesTyped`, `LanguageTyped`, `SiteInv` |

**Ring.** `TypeOK` is inductive: `begin` and `size` stay within the capacity and
`g_memory` equals it. `RingIsQueue` is `Spec => Queue!Spec`, a step simulation
under `TypeOK`; the lemmas below it say where the byte at an offset lies (`Slot`)
after pushing, popping, growing and writing through two parts.

**Server, the array.** `IInv == TypeOK /\ Places /\ Admission`: during a visit `cur`
is a place of the array, so that the array is only changed at places it has;
`Admission` counts the clients accepted since the limit was tested
(`Len(clients) < MAX_CLIENTS + index` while accepting).

**Server, the bytes.** `FlowInv` says, for each living client, that the bytes on
the wire followed by those pending are bytes 1, 2, 3... of its connection up to
`issued` (`OutputOK`); that the sizes of the pending responses add up to the
pending bytes, plus those that `send()` has just taken and `server_pop_responses`
has not popped yet (`Described`, `MetadataOK`); that the short buffer belongs to
a living client whose own ring is empty (`OwnerOK`). Without the last one, a
flush would put new bytes in front of old ones. `NoLostWakeup` speaks of the
loop at rest; the invariant carries it through the cycle as `SettledOK`: of every
client that the cycle has left behind, not of the one visited or still to be
visited. `Round` and `Closed` say where a client may be visited although it was
finalized, and that the further round finds nothing; `EndOK` that a connection
that is to end has output or is about to be closed, without which it would wait
for ever. All of it but the first parts is under `~orphaned`: when a client is
finalized while it owns the short buffer, the owner pointer is left at a place
of the array (finding `server_owner`), and then the bytes do get mixed up.
The sizes of a queue are added up by a witness: `LaidOut(e, ...)` says that `e`
gives the places where the responses end, and the invariant that there is such
an `e`; popping shifts it, appending extends it.

**Shuffle.** `shuffle_index` is a permutation (injective and onto, both preserved
by an exchange), and exactly the clients with a turn before `i` were visited.
`ShuffleUnbiased` counts: the numbers that `random_rand` accepts are `0` to
`q * n - 1` (`Accepted`), and those with remainder `j` are `j + n * k` for `k` below
`q`, a bijection with `0 .. q - 1` (`EquallyMany`), so that every outcome has
exactly `q` of them.

**Timeouts.** `WakesInTime` is `Armed(c)` for every open client while `poll()`
waits for a limited time, or without a limit for none; the invariant has it for every
client that is not still to be visited. A negative time came from a client whose
deadline was over when its visit ended: `Overdue` says that this client is still open and its
deadline still counts, since the rest of the cycle keeps what was visited, except that it may take
the shared buffer away, which makes one more stamp count and none less.
`Armed` is not inductive alone. A client that owns the short buffer does not have the
stamp of its request checked (`check_timeouts` looks at its own ring, which is
empty), and another client's visit can move its output to that ring and make
that stamp count, after the time to wait was computed. `Owning` says why this
does no harm: the owner has one response, made no earlier than it last popped
one, so that the time of its response is over no later than that of its request,
provided that `MAX_INCOMPLETE_RESPONSE_TIME <= MAX_INCOMPLETE_REQUEST_TIME`.
`constants.h` has both at one minute; with a longer time for responses TLC finds
the server asleep past the deadline of a request. The provision is part of
`TimeoutsAssumption`. `EmptyClosedLate` needs an account of what is not read
meanwhile (`InTurn`): with `w` of `MaxWaiting` requests left, the stamp of the input
is no older than `MaxWaiting - w` times `MAX_FULL_RESPONSE_STREAM_TIME`, and less by
the time still to wait while the output is full.

**Accepting.** Every connection is to come, at hand, listed or over (`Lists`), and
for each the invariant says which of its objects are alive: of the one at hand by
the step it is at (`AtHand`). A step changes only the connection at hand (`Same`).
**Listening.** The invariant says which descriptors are open at every step of an
attempt: those at their places, and the one or two at hand. For `BestMode` it
carries that a mode was ruled out because the host does not allow one of its
sockets, never because an earlier attempt is in the way.

**Output.** The operators are lemmas first, about any list: what deleting the first
logs, inserting one at its place and cleaning up do to the list, its sum and the
directory (`Deleted`, `Inserted`, `CleanedUp`). A sum of sizes is taken by a
witness again (`Sums`). Each keeps the list and the files together (`Good`,
`Follows`): what leaves the one leaves the other. The invariant adds what holds while
the directory is read: an entry that `readdir` has returned is listed or gone,
the others are not listed yet (`Noted`). `OpenIsLast` needs that the clean-up after
an insertion never deletes all: it stops at the log of today, which is not too old,
since `MAX_LOG_AGE` is a day at least, and adds no bytes to a total that is within
its limit while no file is open. No log is of a day to come (`NotAhead`), where the
age, a difference, would be negative.

**Errors.** `Chained`: the allocated messages are those of the list, which ends with
the cause, if the cause could be allocated; freeing the list frees all of them.
`Handled`: the flags are those that were raised, so that what is done can be told
from them. `RaisedFlags` goes through what the code raises: although the fixed
responses set bits of the actions, each has a bit that ends the client or the
server, and none has the bit of `PARTIAL_EEF_DIE` that was not raised with it.

**Tls.** `Described` is the invariant of `Server` once more, for a queue whose sizes
are corrected after the fact. `Notified` says that a `close_notify` is in the stream
only in `CS_PENDING_SHUTDOWN` and is its last record; `Living` that the SSL object
exists until then and that a client which is done dies in the same visit. A living client
has sent nothing outside of TLS; whoever meets an error without its SSL object is in
`CS_PENDING_SHUTDOWN` and ends with it (`PlainLast`).

**Guppy.** What counts as acknowledged has arrived: on its way, in the shared
message and where it is noted (`Arrived`); the places of a message's owner may be
wrong, which is why the message itself must be covered. `Distinct` keeps a late
acknowledgement from another transfer. For `Patient`, a chunk that was sent `s`
times has waited `s - 1` periods and the present age (`Late`).
That no message is left when a cycle ends (`NoMessageLeft`) has the invariant
`Awaited`: unless a client was closed whose message waits (`left`), a message that has an owner
came with this cycle, from the peer of a client that is still to receive (`Expected`).
This client takes it, or is closed, at its visit, since it is visited with `POLLIN`.
Peers may ask again, and anything may fail: the places of the array change only when
none waits. It is shown for both machines (`AgainSteps`).

**Chunks.** Both functions are described by the place where each chunk starts
(`Start`) and by how much of the page is in the chunks before (`Ahead`), which count the
lengths of the numbers in the markers (`Marks`): `guppy_insert_markers` has the
length of a number from that of the one before, by a threshold it multiplies by
ten, and `server_send_message` reads the printed number; `LengthIsDigits` and
`DigitsGrow` say that they agree. `Measured`, `Inserting` and `Sending` are the three
loops. The second goes from the last chunk to the first; what it has moved lies behind
what it has still to move. The third cuts at the same places, and what it cuts off are
intervals of the page that follow each other (`PageIsWhole`). `ChunksAssumption` asks
that the marker of every chunk leaves room in it.

**Parser.** What one character does to a parser is described once for all states of
all protocols (`Stepped`): it is counted, or the parser has failed, or a bulk of
content was taken that reaches the end of the part unless the request ends before;
and every field still ends inside what is counted (`Lie`). It is shown by
kinds of step (a field begins, grows, the state changes) and then for each state
of each protocol. One parser breaks the rule for a while: Finger puts the place of a name
behind `/W` in `method`, whose length is that of `/W`, one character too far until the next
character is read; the extra character is in `Lie`, and gone at the end of a request.
`PInv` adds what `parser_parse` does with the two parts: in a part, what is counted
is where the loop is, or less if the request has ended (`Inside`); between two calls
it is all that arrived, or a whole request (`Outside`). That the length of the content
is a number at all takes an induction over its digits (`NumberIsNatural`).

**Values.** The first three theorems are about any two texts, and so for any state:
what is trimmed, cut or read of two parts is what it is of the two joined. Trimming
goes by which of the parts are blank; a number by induction over its digits (what is
read so far is -1 or what the digits mean so far, and it is not -1 as long as that is
below the limit). `ValuesKeepAlive` has the loop invariant `VInv`: keep-alive is an
element of the header exactly if it is one of what the loop has left of it, since a
turn takes the first element away (`FirstElement`, `ParsesElement`). `ValuesTyped`
adds that the rest and the element never grow (`Within`).

**Language.** `LanguageTyped`: while the characters of a language are kept, there is
room for one more, so that `language_size` passes `MAX_LANGUAGE_SIZE` by one at most,
where it stands for a language that is too long; the best weight is 1 at most.

**Site.** `SiteInv` has four parts. `PageWhole` is about responses: what is left of
the script of a page either begins it, or continues it between two entries, or is
empty, and so tells which elements are open (`Between`) and whether the buffers have been
begun anew. That every script has this shape (`Begins`, `Continues`) is shown for all pages
and languages from what scripts are made of. `LinksResolve` is about addresses: each link
that is printed is normalized to the name of its page, and to its language, or to none
where the language that the page has of itself is the one that is meant (`Resolves`, `Own`).
Its lemmas take the two normalizers apart: what is trimmed at both ends (`LeadTrimmed`,
`TrailTrimmed`), and what is left of an address of each form the printers write, with the language
behind the last `/` or behind `?lang=` (`SlashResolves`, `QuestionResolves`). `GoalReached`
carries that to the page: who followed a link asks for its page, in its language. It is
what `NoDeadLinks` and `LanguageKept` say only of the end.

**The composites.** `TransportInv` and `ProcessInv` are disjunctions over the machines:
the invariant of the component, with the variables of the others `Off` or, for the
component that is extended, as they are in the beginning. `RequestInv` is a conjunction:
the invariant of `Tls`, and under each machine that of its component. A step of one machine is a step
of its component. A component with constants of its own is an instance of its
module of proofs (`AP`, `TP`, `PP`, `DP`); an instance has its own copies of the library's operators,
and the lemmas `Same...` say that they are the same.

Assumptions, each named where the constants are declared: `RingAssumption`
(`Garbage` is no byte, bounds are naturals), `ServerAssumption` (limits are
positive, a request fits the input stream, as an `#error` of `constants.h`
demands), `ShuffleAssumption` (`RAND_MAX + 1` is a power of two, as `random.c`
demands, and not less than the number of clients), `TimeoutsAssumption` (above,
and positive limits), `TlsAssumption` and `GuppyAssumption` (positive sizes and
times, and finitely many peers), `AcceptingAssumption` (no connection is the absence
of one), `ListeningAssumption` (there is a port), `OutputAssumption` (room for two
logs, a log is smaller than all may be, no log of today is too old, as
`constants.h` has it; the directory is of names the program can read),
`ErrorsAssumption` (an error is raised in some function), `ParserAssumption` (the
input stream has room for a request; what a peer sends is any text, in one of
the protocols), `ValuesAssumption` (`UINT_MAX` is above 9, a value has a bound),
`LanguageAssumption` (a language has room for its two letters; the elements of a header
are texts), `SiteAssumption` (there are protocols and resources; no language is the
absence of one). `RequestsAssumption` has the last four and `TlsAssumption`.

Induction. Library theorems that take an operator cannot be instantiated by the
provers. `NumberInduction` has it as a fact about sets: every nonempty set of
numbers has a smallest one, hence what holds of 0 and passes on from each number
to the next holds. Its sets are given by the formula to be proved. A recursive
function is what its definition says only if there is such a function, which is shown
the same way (`RecursionUpTo`): `Number`, `Read` and `Decimal` rest on it.

Only model-checked, and why. `CycleEnds`, `IdleEnds`, `AllTransfersEnd`,
`AllRecognised` (and `LoopEnds`) are liveness under fairness. `TotalRequestSize` (with
`RequestedResource` of `Parser`) and `PreferredIsChosen` of `Language`
say what particular inputs mean: the requests and headers of `MCRequests`, of which
it is said where their parts are and which language and weight they have; that a
given text is well-formed is not stated by anything but its own construction.
So `HeadersUnderstood` is proved in its first half, for the header `Connection`
(`ValuesKeepAlive`), and checked in its second.

## 5. Where the code and its comments disagree

| run | code | comment |
|---|---|---|
| `server_owner` | `client.c:62` tests the wrong owner: a closed owner's place stays the owner, and the next client there is sent another connection's bytes and then ends the server | `client.h:62`; `send.c:39` "Known to cause panic" |
| `server_keep_alive` | `process.c:66` looks at the oldest pending response: a pipelined request that ends the connection does not | `high_level.c:114` and `:140` "connection is kept alive" |
| `server_fixed` | `high_level.c:228` sends a fixed message in front of pending output | `constants.h:32-36` |
| `server_admit` | `accept.c:203` tests the limit once per cycle | `constants.h:20-21` |
| `transports_owner` | `receive.c:36`, errors and timeouts close a client that still owns the message: no datagram is read again, unless a client takes it | `client.c:37` "guaranteed to be NULL" |

The following have no run of their own. TLC refutes the property named when it
is added, under its `machine`, to the run of its module. For the first two that is the
property without the exception that its formula makes.

| module, property | code | comment |
|---|---|---|
| `Parser`, `AllRecognised` | `http_parser.c:454`, `spartan_parser.c:109`: content that is parsed in two pieces is not taken off what remains, and the request never ends | `parser.h:13` "Total request size" |
| `Parser`, `RequestedResource` | `finger_parser.c:30` stores the name of `/W name` as the method | `parser.h:15` "Requested resource" |
| `Site`, `SpaceAroundParagraphs` | `text_processor.c:76` and three others print links without the empty line | `generic.c:175` |
| `Ring`, `ReserveFreesExcess` | `ring.c:20` never shrinks | `ring.h:24` |
| `Guppy`, `RefusalIsSent` | a response without chunks is never sent | `guppy_processor.c:72` "Just send 404" |
| `Timeouts`, `IncompleteEnds` | `high_level.c:57` looks at the output where the input is meant | `constants.h:31` |
| `Timeouts`, `OutputClosedLate` | `send.c:40`: the stamp of the output is not set when output begins | `constants.h:39` |
| `Timeouts`, `PendingEnds` | `high_level.c:46`: a deadline that is over makes `poll()` wait for ever | `constants.h:39` |
| `Output`, `OldestFirst` | `output.c:94` sorts newest first | `output.c:32` "oldest first" |
| `Output`, `AgedDeleted` | `output.c:75` stops at the newest log | `constants.h:90` |
| `Tls`, `NothingToDo` | `cryptography.c:62`: a second record stays in the BIO | `high_level.c:212` "Nothing to do" |
| `Tls`, `NeverPlain` | `high_level.c:228` takes a connection that is being shut down for one without TLS: the next timeout (or too much data) sends its fixed message in plain text, behind the `close_notify` | `extended_error.h:41` "First one is avoided" |
| `Tls`, `KeptAlive` | `process.c:66` reads `keep_alive` of a silent response | `high_level.c:112`, `processor.h:26` |
| `Accepting`, `RefusedIsClosed` | `accept.c:30` returns before `close()` for TLS sockets | `constants.h:20` |
| `Errors`, `NotInterfering` | `extended_error.h:25`: fixed responses share bits with the action, and all become "out of memory" | `extended_error.h:21` "does not interfere" |
| `Errors`, `PrintsCorrectly` | `error.c:160` and `:173` compare the wrong pointer | `error.c:78`, `error.h:112` |

Seen while modelling, with no line of the repository that says otherwise:
`cryptography_initialize` frees the BIOs twice when it fails after `SSL_set_bio`;
the files of a day that has several (`output.c`) are not read back after a
restart; the order in the comment of
`server_create_socket_pair` ends with a reserve port that no code knows; a
client whose requests waited for room in the output is closed for silence that
much too early (`EmptyClosedLate`); nothing in `constants.h` says that
`MAX_INCOMPLETE_RESPONSE_TIME` must not exceed `MAX_INCOMPLETE_REQUEST_TIME`,
which `WakesInTime` needs (section 4);
`generic_buffer_reserve_*` sets the size (it has no caller).

## 6. Not modelled, and what is left

- The utilization estimate (`high_level.c:300`): floating point is outside TLC's
  reach. The limit is reached or not in any cycle.
- The wording of pages and fixed messages, upper case, boxes and line wrapping,
  dates and times as text, the tables of texts: data and layout.
- The string library and the generic buffer of `commonlib`: general-purpose code;
  its failures are failures of the callers' steps.
- Start-up beyond the sockets: reading key and certificate, seeding, the calls of
  `*_module_initialize`; they run once, before any traffic.
- Build and packaging.

Composition. `Server`, `Timeouts`, `Tls` and `Guppy` each have the loop with one
difficulty. All of them at once (a Guppy client and a TLS client sharing the
short buffer) is beyond what TLC finishes; what they share, the short buffer and
the array, is in `Server`.
