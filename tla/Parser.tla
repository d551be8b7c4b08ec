------------------------------- MODULE Parser -------------------------------
(***************************************************************************)
(* The request parsers (source/parser/), one state machine per protocol,   *)
(* fed with whatever part of a request has arrived, in the two pieces in   *)
(* which the ring holds it.                                                *)
(*                                                                         *)
(* A character is one of a few representatives, each with its classes of   *)
(* tables.c.  A header's name and the value "keep-alive" are single        *)
(* letters, and the prefixes "gemini://", "guppy://", "text://" are        *)
(* three characters.  tolerated_lf is left out: it is never read.  The     *)
(* language is the subject of module Language.                             *)
(*                                                                         *)
(* The response to a request is sent before the next one is processed      *)
(* (response_count = 0); module Server has the other case.                 *)
(***************************************************************************)
EXTENDS Integers, Sequences, FiniteSetsExt

CONSTANTS
  MAX_REQUEST_SIZE, MAX_REQUEST_STREAM_SIZE,
  Inputs,        \* what a peer sends, see Input below
  MaxRead        \* bound: a read brings so many characters, or all the rest

Protocols == {"http", "gopher", "nex", "finger", "gemini", "guppy", "text", "spartan"}

ParserAssumption ==
  /\ MAX_REQUEST_SIZE \in Nat \ {0} /\ MAX_REQUEST_STREAM_SIZE \in Nat
  /\ MAX_REQUEST_SIZE <= MAX_REQUEST_STREAM_SIZE
  /\ MaxRead \in Nat
  /\ \A in \in Inputs : in.proto \in Protocols /\ in.text \in Seq(STRING)

VARIABLES
  input,         \* what the peer sends
  arrived,       \* how much of it has arrived
  stream,        \* client->request_stream
  q,             \* client->parser and client->request in one record
  part, parts,   \* parser_parse: 1 or 2, 0 outside; where the two parts end
  pos,           \* p, counted from the beginning of the stream
  done           \* history: the requests processed
vars == <<input, arrived, stream, q, part, parts, pos, done>>

Loc(offset, size) == [offset |-> offset, size |-> size]

------------------------------------------------------------------------------
(* tables_module_initialize: the classes of the representatives.           *)
Letters == {"T", "W", "L", "C", "U", "N", "K", "g", "u", "t"}
CM_SPACE == {" ", "tab"}
CM_NEWLINE == {"cr", "lf"}
CM_METHOD == Letters \union {"0", "1", "2"}
CM_RESOURCE == CM_METHOD \union {"/", ":", ","}
CM_PROTOCOL == {"T", "1", "0", "/"}
CM_NAME == CM_METHOD
CM_VALUE == CM_RESOURCE \union {" "}
CM_DOMAIN == CM_METHOD

------------------------------------------------------------------------------
(* A parser and its request; failed is the error returned, if any, and     *)
(* returned tells that the loop over a part ended before the part did.     *)
(* History: split tells that content was taken in more than one piece.     *)
NewParser ==
  [state |-> "BEGIN", stream_size |-> 0, method |-> Loc(0, 0),
   resource |-> Loc(0, 0), protocol |-> Loc(0, 0), user |-> Loc(0, 0),
   keep_alive |-> FALSE, remaining_content |-> 0, tolerated_cr |-> FALSE,
   name |-> Loc(0, 0), value |-> Loc(0, 0), failed |-> "no", returned |-> FALSE,
   split |-> FALSE]

Fail(r, why) == [r EXCEPT !.failed = why]
Invalid(r) == Fail(r, "invalid")
At(r, state) == [r EXCEPT !.state = state]
Text(loc, s) == SubSeq(s, loc.offset + 1, loc.offset + loc.size)

(* The steps most states consist of: a field begins, or grows. *)
(* Mutant of Begin: the field begins behind its first character. *)
Begin_behind(r, field, state) ==
  [r EXCEPT ![field] = Loc(r.stream_size + 1, 1), !.state = state]

Begin(r, field, state) ==
  [r EXCEPT ![field] = Loc(r.stream_size, 1), !.state = state]
Grow(r, field) == [r EXCEPT ![field].size = @ + 1]

WaitBegin(r, c, space, class, field, state) ==
  CASE c \in space -> r
    [] c \in class \ space -> Begin(r, field, state)
    [] OTHER -> Invalid(r)

WaitEnd(r, c, space, class, field, state) ==
  CASE c \in space -> At(r, state)
    [] c \in class \ space -> Grow(r, field)
    [] OTHER -> Invalid(r)

(* The end of a head, and the line feed that may be left of it. *)
AfterHead(r) == At(r, IF r.remaining_content > 0 THEN "WAIT_CONTENT" ELSE "END")

FinalLf(r, c) == IF c = "lf" THEN AfterHead(r) ELSE Invalid(r)

(* CR or LF at the end of a request of a single line. *)
LastLine(r, c) ==
  IF c = "cr" THEN At(r, "WAIT_FINAL_LINE_LF") ELSE At(r, "END")

(* Mutant of Content: the last character is left. *)
Content_off_by_one(r, available) ==
  IF available >= r.remaining_content
  THEN [At(r, "END") EXCEPT !.stream_size = @ + r.remaining_content - 1, !.returned = TRUE]
  ELSE [r EXCEPT !.stream_size = @ + available, !.returned = TRUE, !.split = TRUE]

(* WAIT_CONTENT takes what is there in bulk, and returns; what it took is  *)
(* not subtracted from remaining_content.                                  *)
Content(r, available) ==
  IF available >= r.remaining_content
  THEN [At(r, "END") EXCEPT !.stream_size = @ + r.remaining_content, !.returned = TRUE]
  ELSE [r EXCEPT !.stream_size = @ + available, !.returned = TRUE, !.split = TRUE]

(* value_trim, value_to_uint and the search for keep-alive, as module      *)
(* Values shows them; empty text is the number 0.                          *)
Trimmed(t) ==
  LET ink == {i \in DOMAIN t : t[i] \notin CM_SPACE}
  IN IF ink = {} THEN <<>> ELSE SubSeq(t, Min(ink), Max(ink))
Digit(c) == CASE c = "1" -> 1 [] c = "2" -> 2 [] OTHER -> 0
Number(t) ==
  LET value[n \in 0 .. Len(t)] == IF n = 0 THEN 0 ELSE 10 * value[n - 1] + Digit(t[n])
  IN value[Len(t)]
Elements(t) ==
  LET ends == {i \in DOMAIN t : t[i] = ","} \union {0, Len(t) + 1}
  IN {SubSeq(t, i + 1, Min({j \in ends : j > i}) - 1) : i \in ends \ {Len(t) + 1}}

(* The length of the content, as HTTP and Spartan read it. *)
ContentLength(r, t) ==
  CASE \E i \in DOMAIN t : t[i] \notin {"0", "1", "2"} -> Invalid(r)
    [] r.value.offset + r.value.size + Number(t) > MAX_REQUEST_SIZE -> Fail(r, "content")
    [] OTHER -> [r EXCEPT !.remaining_content = Number(t)]

------------------------------------------------------------------------------
(* HTTP.                                                                   *)

parser_parse_http_name_value(r, s) ==
  LET n == Text(r.name, s) t == Text(r.value, s)
  IN CASE n = <<"L">> -> ContentLength(r, Trimmed(t))
       [] n = <<"C">> -> IF \E e \in Elements(t) : Trimmed(e) = <<"K">>
                         THEN [r EXCEPT !.keep_alive = TRUE] ELSE r
       [] n = <<"U">> -> [r EXCEPT !.user = r.value]
       [] OTHER -> r

(* A line has ended with c: a CR may be followed by a LF, unless the peer  *)
(* has shown that it ends its lines with CR alone.                         *)
LineEnd(r, c) ==
  At(r, IF c = "cr" /\ ~r.tolerated_cr THEN "WAIT_LINE_LF" ELSE "WAIT_NAME_BEGIN")

WaitLineLf(r, c) ==
  LET t == [r EXCEPT !.tolerated_cr = TRUE]
  IN CASE c \in CM_SPACE -> At(t, "WAIT_NAME_BEGIN")
       [] c \in CM_NAME -> Begin(t, "name", "WAIT_NAME_END")
       [] c = "cr" -> AfterHead(t)
       [] c = "lf" -> At(r, "WAIT_NAME_BEGIN")
       [] OTHER -> r

(* Mutant of WaitNameBegin: a CR is always followed by a LF. *)
WaitNameBegin_lf(r, c) ==
  CASE c \in CM_SPACE -> r
    [] c \in CM_NAME -> Begin(r, "name", "WAIT_NAME_END")
    [] c = "cr" -> At(r, "WAIT_FINAL_LINE_LF")
    [] c = "lf" -> AfterHead(r)
    [] OTHER -> Invalid(r)

WaitNameBegin(r, c) ==
  CASE c \in CM_SPACE -> r
    [] c \in CM_NAME -> Begin(r, "name", "WAIT_NAME_END")
    [] c = "cr" /\ ~r.tolerated_cr -> At(r, "WAIT_FINAL_LINE_LF")
    [] c = "lf" \/ (c = "cr" /\ r.tolerated_cr) -> AfterHead(r)
    [] OTHER -> Invalid(r)

ValueBegin(r) ==
  [At(r, "WAIT_VALUE_END") EXCEPT !.value = Loc(r.stream_size + 1, 0)]

WaitColon(r, c) ==
  CASE c = ":" -> ValueBegin(r) [] c \in CM_SPACE -> r [] OTHER -> Invalid(r)

WaitNameEnd(r, c) ==
  IF c = ":" THEN ValueBegin(r) ELSE WaitEnd(r, c, CM_SPACE, CM_NAME, "name", "WAIT_COLON")

WaitValueEnd(r, c, s) ==
  CASE c \in CM_VALUE -> Grow(r, "value")
    [] c \in CM_NEWLINE ->
         LET t == parser_parse_http_name_value(r, s)
         IN IF t.failed = "no" THEN LineEnd(t, c) ELSE t
    [] OTHER -> Invalid(r)

parser_parse_http(r, c, s, available) ==
  CASE r.state = "WAIT_METHOD_BEGIN" -> WaitBegin(r, c, CM_SPACE, CM_METHOD, "method", "WAIT_METHOD_END")
    [] r.state = "WAIT_METHOD_END" -> WaitEnd(r, c, CM_SPACE, CM_METHOD, "method", "WAIT_RESOURCE_BEGIN")
    [] r.state = "WAIT_RESOURCE_BEGIN" -> WaitBegin(r, c, CM_SPACE, CM_RESOURCE, "resource", "WAIT_RESOURCE_END")
    [] r.state = "WAIT_RESOURCE_END" -> WaitEnd(r, c, CM_SPACE, CM_RESOURCE, "resource", "WAIT_PROTOCOL_BEGIN")
    [] r.state = "WAIT_PROTOCOL_BEGIN" -> WaitBegin(r, c, CM_SPACE, CM_PROTOCOL, "protocol", "WAIT_PROTOCOL_END")
    [] r.state = "WAIT_PROTOCOL_END" ->
         IF c \in CM_NEWLINE THEN LineEnd(r, c)
         ELSE WaitEnd(r, c, CM_SPACE, CM_PROTOCOL, "protocol", "WAIT_LINE_CR")
    [] r.state = "WAIT_LINE_CR" ->
         IF c \in CM_NEWLINE THEN LineEnd(r, c) ELSE IF c \in CM_SPACE THEN r ELSE Invalid(r)
    [] r.state = "WAIT_LINE_LF" -> WaitLineLf(r, c)
    [] r.state = "WAIT_NAME_BEGIN" -> WaitNameBegin(r, c)
    [] r.state = "WAIT_NAME_END" -> WaitNameEnd(r, c)
    [] r.state = "WAIT_COLON" -> WaitColon(r, c)
    [] r.state = "WAIT_VALUE_END" -> WaitValueEnd(r, c, s)
    [] r.state = "WAIT_FINAL_LINE_LF" -> FinalLf(r, c)
    [] r.state = "WAIT_CONTENT" -> Content(r, available)
    [] r.state = "END" -> IF r.keep_alive THEN [r EXCEPT !.returned = TRUE] ELSE Invalid(r)

------------------------------------------------------------------------------
(* The other protocols.  All of them refuse characters behind the end.     *)

parser_parse_gopher(r, c) ==
  CASE r.state = "WAIT_RESOURCE_END" ->
         CASE c \in CM_NEWLINE -> LastLine(r, c)
           [] c = "tab" -> Invalid(r)
           [] OTHER -> Grow(r, "resource")
    [] r.state = "WAIT_FINAL_LINE_LF" -> FinalLf(r, c)
    [] r.state = "END" -> Invalid(r)

(* "/W" and the user's name; resource.offset is never assigned. *)
parser_parse_finger(r, c) ==
  CASE r.state = "WAIT_METHOD_BEGIN" ->
         CASE c \in CM_NEWLINE -> LastLine(r, c)
           [] c = "/" -> [At(r, "WAIT_METHOD_END") EXCEPT !.method.size = 1]
           [] OTHER -> [At(r, "WAIT_RESOURCE_END") EXCEPT !.resource.size = 1]
    [] r.state = "WAIT_METHOD_END" ->
         IF c = "W" THEN [At(r, "WAIT_RESOURCE_BEGIN") EXCEPT !.method.size = 2] ELSE Invalid(r)
    [] r.state = "WAIT_RESOURCE_BEGIN" ->
         CASE c \in CM_NEWLINE -> LastLine(r, c)
           [] c = " " -> r
           [] OTHER -> [At(r, "WAIT_RESOURCE_END") EXCEPT
                          !.method.offset = r.stream_size, !.resource.size = 1]
    [] r.state = "WAIT_RESOURCE_END" ->
         IF c \in CM_NEWLINE THEN LastLine(r, c) ELSE Grow(r, "resource")
    [] r.state = "WAIT_FINAL_LINE_LF" -> FinalLf(r, c)
    [] r.state = "END" -> Invalid(r)

Prefix(proto) ==
  CASE proto = "gemini" -> <<"g", ":", "/">>
    [] proto = "guppy" -> <<"u", ":", "/">>
    [] proto = "text" -> <<"t", ":", "/">>

parser_parse_gemini_like(r, c, prefix) ==
  CASE r.state = "WAIT_PROTOCOL_END" ->
         CASE c # prefix[r.protocol.size + 1] -> Invalid(r)
           [] c = prefix[r.protocol.size + 1] /\ r.protocol.size + 1 < Len(prefix) -> Grow(r, "protocol")
           [] OTHER -> [Grow(At(r, "WAIT_METHOD_END"), "protocol") EXCEPT !.method.offset = Len(prefix)]
    [] r.state = "WAIT_METHOD_END" ->
         CASE c \in CM_DOMAIN \union {":"} -> Grow(r, "method")
           [] c = "/" -> Begin(r, "resource", "WAIT_RESOURCE_END")
           [] c \in CM_NEWLINE -> LastLine(r, c)
           [] OTHER -> Invalid(r)
    [] r.state = "WAIT_RESOURCE_END" ->
         CASE c \in CM_RESOURCE -> Grow(r, "resource")
           [] c \in CM_NEWLINE -> LastLine(r, c)
           [] OTHER -> Invalid(r)
    [] r.state = "WAIT_FINAL_LINE_LF" -> FinalLf(r, c)
    [] r.state = "END" -> Invalid(r)

SpartanLength(r, c, s) ==
  LET t == ContentLength(r, Text(r.value, s))
  IN CASE t.failed # "no" -> t
       [] t.failed = "no" /\ c = "cr" -> At(t, "WAIT_FINAL_LINE_LF")
       [] OTHER -> AfterHead(t)

parser_parse_spartan(r, c, s, available) ==
  CASE r.state = "WAIT_METHOD_END" -> WaitEnd(r, c, {" "}, CM_DOMAIN, "method", "WAIT_RESOURCE_BEGIN")
    [] r.state = "WAIT_RESOURCE_BEGIN" -> WaitBegin(r, c, {" "}, CM_RESOURCE, "resource", "WAIT_RESOURCE_END")
    [] r.state = "WAIT_RESOURCE_END" -> WaitEnd(r, c, {" "}, CM_RESOURCE, "resource", "WAIT_NAME_BEGIN")
    [] r.state = "WAIT_NAME_BEGIN" -> WaitBegin(r, c, {" "}, CM_RESOURCE, "value", "WAIT_NAME_END")
    [] r.state = "WAIT_NAME_END" ->
         IF c \in CM_NEWLINE THEN SpartanLength(r, c, s) ELSE WaitEnd(r, c, {}, CM_RESOURCE, "value", "")
    [] r.state = "WAIT_FINAL_LINE_LF" -> FinalLf(r, c)
    [] r.state = "WAIT_CONTENT" -> Content(r, available)
    [] r.state = "END" -> Invalid(r)

(* The state in which a parser begins. *)
FirstState(proto) ==
  CASE proto \in {"http", "finger"} -> "WAIT_METHOD_BEGIN"
    [] proto \in {"gopher", "nex"} -> "WAIT_RESOURCE_END"
    [] proto \in {"gemini", "guppy", "text"} -> "WAIT_PROTOCOL_END"
    [] proto = "spartan" -> "WAIT_METHOD_END"

------------------------------------------------------------------------------
(* parser_parse.                                                           *)

Step(proto, r, c, s, available) ==
  CASE proto = "http" -> parser_parse_http(r, c, s, available)
    [] proto \in {"gopher", "nex"} -> parser_parse_gopher(r, c)
    [] proto = "finger" -> parser_parse_finger(r, c)
    [] proto \in {"gemini", "guppy", "text"} -> parser_parse_gemini_like(r, c, Prefix(proto))
    [] proto = "spartan" -> parser_parse_spartan(r, c, s, available)

------------------------------------------------------------------------------
(* An input is the protocol and text of a connection.  Of well-formed      *)
(* input, requests tells where each request ends and where its fields are, *)
(* counted from its own beginning: [size, method, resource, content].      *)
Init ==
  /\ input \in Inputs
  /\ arrived = 0 /\ stream = <<>> /\ q = NewParser /\ done = <<>>
  /\ part = 0 /\ parts = <<0, 0>> /\ pos = 0

Reads ==
  LET rest == Len(input.text) - arrived IN {n \in 0 .. rest : n <= MaxRead \/ n = rest}

Limit(s) == Min({Len(s), MAX_REQUEST_SIZE})

(* n more characters arrive, or the rest behind an earlier request is      *)
(* enough, and the server parses (get_makes_sense_to_parse): what has not  *)
(* been parsed, never more than a request may have, in the two parts that  *)
(* the ring has it in.                                                     *)
(* Mutant of Read: the parts are not limited to the size of a request. *)
Read_unlimited(n, seam) ==
  LET s == stream \o SubSeq(input.text, arrived + 1, arrived + n)
  IN /\ part = 0 /\ q.failed = "no" /\ q.state # "END"
     /\ Len(s) > q.stream_size /\ Len(s) <= MAX_REQUEST_STREAM_SIZE
     /\ seam \in q.stream_size .. Len(s)
     /\ stream' = s /\ arrived' = arrived + n
     /\ part' = 1 /\ parts' = <<seam, Len(s)>> /\ pos' = q.stream_size
     /\ q' = IF q.state = "BEGIN" THEN At(q, FirstState(input.proto)) ELSE q
     /\ UNCHANGED <<input, done>>

Read(n, seam) ==
  LET s == stream \o SubSeq(input.text, arrived + 1, arrived + n)
  IN /\ part = 0 /\ q.failed = "no" /\ q.state # "END"
     /\ Len(s) > q.stream_size /\ Len(s) <= MAX_REQUEST_STREAM_SIZE
     /\ seam \in q.stream_size .. Limit(s)
     /\ stream' = s /\ arrived' = arrived + n
     /\ part' = 1 /\ parts' = <<seam, Limit(s)>> /\ pos' = q.stream_size
     /\ q' = IF q.state = "BEGIN" THEN At(q, FirstState(input.proto)) ELSE q
     /\ UNCHANGED <<input, done>>

(* One character of a part; it is counted unless the step returned or      *)
(* failed.                                                                 *)
Advance(r) ==
  IF r.returned \/ r.failed # "no" THEN r ELSE [r EXCEPT !.stream_size = @ + 1]

InPart == part > 0 /\ q.failed = "no" /\ ~q.returned /\ pos < parts[part]

Character ==
  /\ InPart
  /\ pos' = pos + 1
  /\ q' = Advance(Step(input.proto, q, stream[pos + 1], stream, parts[part] - pos))
  /\ UNCHANGED <<input, arrived, stream, part, parts, done>>

(* The second part is parsed whatever the first returned. *)
(* Mutant of NextPart: a part that returned is the last. *)
NextPart_only ==
  /\ part > 0 /\ ~InPart /\ part' = 0 /\ pos' = 0 /\ parts' = <<0, 0>>
  /\ q' = [q EXCEPT !.returned = FALSE]
  /\ UNCHANGED <<input, arrived, stream, done>>

NextPart ==
  /\ part = 1 /\ q.failed = "no" /\ ~InPart
  /\ part' = 2 /\ pos' = parts[1]
  /\ q' = [q EXCEPT !.returned = FALSE]
  /\ UNCHANGED <<input, arrived, stream, parts, done>>

(* The end of parser_parse. *)
Parsed ==
  /\ ~InPart /\ (part = 2 \/ (part = 1 /\ q.failed # "no"))
  /\ part' = 0 /\ pos' = 0 /\ parts' = <<0, 0>>
  /\ q' = IF q.failed = "no" /\ Len(stream) >= MAX_REQUEST_SIZE /\ q.state # "END"
          THEN Fail(q, "header") ELSE [q EXCEPT !.returned = FALSE]
  /\ UNCHANGED <<input, arrived, stream, done>>

(* server_process_traffic, once the request is complete: its bytes are     *)
(* popped, and the parser is reset if the connection is kept.              *)
Result(r) ==
  [size |-> r.stream_size, method |-> r.method, resource |-> r.resource, split |-> r.split]

(* Mutant of Process: only the state of the parser is reset. *)
Process_stale ==
  /\ part = 0 /\ q.state = "END" /\ q.failed = "no"
  /\ done' = Append(done, Result(q))
  /\ stream' = SubSeq(stream, q.stream_size + 1, Len(stream))
  /\ q' = IF q.keep_alive THEN [q EXCEPT !.state = "BEGIN", !.stream_size = 0] ELSE Fail(q, "closed")
  /\ UNCHANGED <<input, arrived, part, parts, pos>>

Process ==
  /\ part = 0 /\ q.state = "END" /\ q.failed = "no"
  /\ done' = Append(done, Result(q))
  /\ stream' = SubSeq(stream, q.stream_size + 1, Len(stream))
  /\ q' = IF q.keep_alive THEN NewParser ELSE Fail(q, "closed")
  /\ UNCHANGED <<input, arrived, part, parts, pos>>

(* Nothing more comes, or the connection is over. *)
Quiet ==
  /\ part = 0
  /\ q.failed # "no" \/ (arrived = Len(input.text) /\ Len(stream) = q.stream_size)
  /\ UNCHANGED vars

Next ==
  \/ \E n \in Reads, seam \in 0 .. MAX_REQUEST_STREAM_SIZE : Read(n, seam)
  \/ Character \/ NextPart \/ Parsed
  \/ Process
  \/ Quiet

Spec == Init /\ [][Next]_vars /\ WF_vars(Next)

------------------------------------------------------------------------------
WellFormed == input.requests # <<>>

TypeOK ==
  /\ arrived \in 0 .. Len(input.text)
  /\ DOMAIN q = DOMAIN NewParser
  /\ part \in 0 .. 2 /\ pos <= parts[2] /\ parts[1] <= parts[2] /\ parts[2] <= Len(stream)
  /\ q.failed \in {"no", "invalid", "content", "header", "closed"}
  /\ q.remaining_content \in 0 .. MAX_REQUEST_SIZE
  /\ Len(stream) <= arrived

(* Parsing stops only when everything that arrived is consumed or the      *)
(* request is complete: otherwise get_makes_sense_to_parse stays true and  *)
(* the visit of the client would never end, or input would be forgotten.   *)
Consumes ==
  part = 0 /\ q.failed = "no" /\ q.state \notin {"BEGIN", "END"}
    => q.stream_size = Len(stream)

(* Whatever a peer sends, a complete request lies inside what arrived and  *)
(* inside the limit of a request, so that ring_pop succeeds.               *)
RequestInside ==
  part = 0 /\ q.state = "END" /\ q.failed = "no" =>
    q.stream_size <= Len(stream) /\ q.stream_size <= MAX_REQUEST_SIZE

(* Whatever a peer sends, the fields of a complete request lie inside it,  *)
(* so that the ring_get of every processor succeeds and no field shows the *)
(* bytes of another request.                                               *)
FieldsInside ==
  part = 0 /\ q.state = "END" /\ q.failed = "no" =>
    \A f \in {"method", "resource", "protocol", "user"} :
      q[f].size > 0 => q[f].offset + q[f].size <= q.stream_size

(* The k-th request processed begins where the sender began it: no content *)
(* before it was taken in pieces.                                          *)
InStep(k) == \A j \in 1 .. k - 1 : ~done[j].split

(* Each well-formed request whose content is parsed in one piece, however  *)
(* else it is cut into reads and however the ring wraps, ends exactly      *)
(* where its sender ended it: the bytes of the next request are never      *)
(* taken for it (struct Request: "Total request size").  One whose content *)
(* is parsed in more pieces takes too much (http_parser.c:454,             *)
(* spartan_parser.c:109), and nothing is said of those behind it.          *)
TotalRequestSize ==
  WellFormed =>
    \A k \in DOMAIN done :
      InStep(k) =>
        /\ k <= Len(input.requests)
        /\ IF done[k].split THEN done[k].size > input.requests[k].size
           ELSE done[k].size = input.requests[k].size

(* ... and its fields are found where they are ("Requested resource"), but *)
(* for a Finger request of both "/W" and a name, whose fields have their   *)
(* sizes only: the place of the name is stored as that of "/W"             *)
(* (finger_parser.c:30).                                                   *)
BothOfFinger(r) == input.proto = "finger" /\ r.method.size > 0 /\ r.resource.size > 0

RequestedResource ==
  WellFormed =>
    \A k \in DOMAIN done :
      InStep(k) =>
        LET r == input.requests[k]
        IN IF BothOfFinger(r)
           THEN done[k].resource.size = r.resource.size /\ done[k].method.size = r.method.size
           ELSE done[k].resource = r.resource /\ done[k].method = r.method

(* Every well-formed request within the limit is recognised, whatever line *)
(* ends its sender uses and however it is cut, or the content of one was   *)
(* parsed in pieces: that one may wait for what never comes.               *)
Split == q.split \/ \E k \in DOMAIN done : done[k].split
AllRecognised == WellFormed ~> Len(done) = Len(input.requests) \/ Split
=============================================================================
