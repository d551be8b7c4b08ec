---------------------------- MODULE ParserProofs ------------------------------
(***************************************************************************)
(* Proofs about Parser for whatever a peer sends, in whatever pieces it    *)
(* arrives and wherever the ring wraps: every protocol, every text and     *)
(* every limit.  A step of a parser is described by what it may do to the  *)
(* places of the fields (Stepped), shown state by state and protocol by    *)
(* protocol; the invariant of parser_parse follows from that alone.        *)
(***************************************************************************)
EXTENDS Parser, NumberInduction

------------------------------------------------------------------------------
(* The parsers, for whatever a peer sends.                                 *)

States ==
  {"BEGIN", "WAIT_METHOD_BEGIN", "WAIT_METHOD_END", "WAIT_RESOURCE_BEGIN", "WAIT_RESOURCE_END",
   "WAIT_PROTOCOL_BEGIN", "WAIT_PROTOCOL_END", "WAIT_LINE_CR", "WAIT_LINE_LF", "WAIT_NAME_BEGIN",
   "WAIT_NAME_END", "WAIT_COLON", "WAIT_VALUE_END", "WAIT_FINAL_LINE_LF", "WAIT_CONTENT", "END"}
Urls == {"gemini", "guppy", "text"}
StatesOf(proto) ==
  CASE proto = "http" ->
         {"WAIT_METHOD_BEGIN", "WAIT_METHOD_END", "WAIT_RESOURCE_BEGIN", "WAIT_RESOURCE_END",
          "WAIT_PROTOCOL_BEGIN", "WAIT_PROTOCOL_END", "WAIT_LINE_CR", "WAIT_LINE_LF",
          "WAIT_NAME_BEGIN", "WAIT_NAME_END", "WAIT_COLON", "WAIT_VALUE_END",
          "WAIT_FINAL_LINE_LF", "WAIT_CONTENT", "END"}
    [] proto \in {"gopher", "nex"} -> {"WAIT_RESOURCE_END", "WAIT_FINAL_LINE_LF", "END"}
    [] proto = "finger" ->
         {"WAIT_METHOD_BEGIN", "WAIT_METHOD_END", "WAIT_RESOURCE_BEGIN", "WAIT_RESOURCE_END",
          "WAIT_FINAL_LINE_LF", "END"}
    [] proto \in Urls ->
         {"WAIT_PROTOCOL_END", "WAIT_METHOD_END", "WAIT_RESOURCE_END", "WAIT_FINAL_LINE_LF", "END"}
    [] proto = "spartan" ->
         {"WAIT_METHOD_END", "WAIT_RESOURCE_BEGIN", "WAIT_RESOURCE_END", "WAIT_NAME_BEGIN",
          "WAIT_NAME_END", "WAIT_FINAL_LINE_LF", "WAIT_CONTENT", "END"}

Locs == [offset : Nat, size : Nat]
Parsers ==
  [state : States, stream_size : Nat, method : Locs, resource : Locs, protocol : Locs, user : Locs,
   keep_alive : BOOLEAN, remaining_content : 0 .. MAX_REQUEST_SIZE, tolerated_cr : BOOLEAN,
   name : Locs, value : Locs, failed : {"no", "invalid", "content", "header", "closed"},
   returned : BOOLEAN, split : BOOLEAN]

\* The fields lie in what is parsed.  A finger request with both parts gets the
\* place of its name as that of its method: one character too far, until the
\* end of its line is read.
End(loc) == loc.offset + loc.size
Lie(proto, r, n) ==
  /\ End(r.resource) <= n /\ End(r.protocol) <= n
  /\ End(r.user) <= n /\ End(r.name) <= n /\ End(r.value) <= n
  /\ End(r.method) <= n + (IF proto = "finger" /\ r.state = "WAIT_RESOURCE_END" THEN 1 ELSE 0)
  /\ proto = "finger" /\ r.state = "WAIT_METHOD_END" => r.method.size = 1
  /\ proto = "finger" /\ r.state = "WAIT_RESOURCE_BEGIN" => r.method.size = 2
  /\ proto \in Urls /\ r.state = "WAIT_PROTOCOL_END" =>
       r.protocol.size \in 0 .. 2 /\ r.method.size = 0
  /\ proto \notin {"http", "spartan"} => r.remaining_content = 0
Fields(proto, r) == Lie(proto, r, r.stream_size)

\* What one character, of available ones, makes of a parser.
Stepped(proto, r, u, available) ==
  /\ u \in Parsers /\ u.state \in StatesOf(proto)
  /\ u.failed = "no" =>
       /\ Fields(proto, u)
       /\ ~u.returned => r.state # "END" /\ u.stream_size = r.stream_size + 1
       /\ u.returned =>
            \/ r.state = "END" /\ u.state = "END" /\ u.stream_size = r.stream_size
            \/ /\ r.state # "END" /\ u.stream_size \in r.stream_size .. r.stream_size + available
               /\ u.state # "END" => u.stream_size = r.stream_size + available

Ready(proto, r) ==
  /\ r \in Parsers /\ r.state \in StatesOf(proto) /\ r.failed = "no" /\ ~r.returned
  /\ Fields(proto, r)

\* A step to the state st, of which the invariant says no more than of others.
Plain(proto, st) ==
  /\ st \in StatesOf(proto) /\ st \in States
  /\ proto = "finger" => st \notin {"WAIT_METHOD_END", "WAIT_RESOURCE_BEGIN"}
  /\ proto \in Urls => st # "WAIT_PROTOCOL_END"

\* Fields that are left alone, or grow by the character at hand.
Within(u, r) ==
  /\ u.stream_size = r.stream_size + 1 /\ u.remaining_content = r.remaining_content
  /\ End(u.method) <= End(r.method) \/ End(u.method) <= u.stream_size
  /\ End(u.resource) <= End(r.resource) \/ End(u.resource) <= u.stream_size
  /\ End(u.protocol) <= End(r.protocol) \/ End(u.protocol) <= u.stream_size
  /\ End(u.user) <= End(r.user) \/ End(u.user) <= u.stream_size
  /\ End(u.name) <= End(r.name) \/ End(u.name) <= u.stream_size
  /\ End(u.value) <= End(r.value) \/ End(u.value) <= u.stream_size

LEMMA Advanced ==
  ASSUME NEW t \in Parsers, t.failed = "no", ~t.returned
  PROVE  /\ Advance(t) \in Parsers
         /\ Advance(t) = [t EXCEPT !.stream_size = t.stream_size + 1]
<1>1. Advance(t) = [t EXCEPT !.stream_size = t.stream_size + 1]
  BY DEF Advance
<1> QED
  BY <1>1 DEF Parsers

LEMMA EndOf == ASSUME NEW l \in Locs PROVE End(l) \in Nat
BY DEF Locs, End

\* A place with one of its two fields changed.
LEMMA Resized ==
  ASSUME NEW l \in Locs, NEW n \in Nat
  PROVE  \E m \in Locs : m = [l EXCEPT !.size = n] /\ m.size = n /\ End(m) = l.offset + n
<1> DEFINE m == [offset |-> l.offset, size |-> n]
<1>1. m \in Locs /\ m = [l EXCEPT !.size = n] /\ m.size = n /\ End(m) = l.offset + n
  BY DEF Locs, End
<1> QED
  BY <1>1

LEMMA Relocated ==
  ASSUME NEW l \in Locs, NEW n \in Nat
  PROVE  \E m \in Locs : m = [l EXCEPT !.offset = n] /\ m.size = l.size /\ End(m) = n + l.size
<1> DEFINE m == [offset |-> n, size |-> l.size]
<1>1. m \in Locs /\ m = [l EXCEPT !.offset = n] /\ m.size = l.size /\ End(m) = n + l.size
  BY DEF Locs, End
<1> QED
  BY <1>1

LEMMA MovesOn ==
  ASSUME NEW proto, NEW r, Ready(proto, r), r.state # "END", NEW u \in Parsers, NEW available,
         u.failed = "no", ~u.returned, Plain(proto, u.state), Within(u, r)
  PROVE  Stepped(proto, r, u, available)
<1>1. /\ r.stream_size \in Nat /\ u.stream_size = r.stream_size + 1
      /\ End(r.method) \in Nat /\ End(r.resource) \in Nat /\ End(r.protocol) \in Nat
      /\ End(r.user) \in Nat /\ End(r.name) \in Nat /\ End(r.value) \in Nat
  BY EndOf DEF Ready, Parsers, Within
<1>2. /\ End(u.method) \in Nat /\ End(u.resource) \in Nat /\ End(u.protocol) \in Nat
      /\ End(u.user) \in Nat /\ End(u.name) \in Nat /\ End(u.value) \in Nat
  BY EndOf DEF Parsers
<1>3. Fields(proto, u)
  BY <1>1, <1>2 DEF Ready, Within, Fields, Lie, Plain
<1> QED
  BY <1>1, <1>3 DEF Stepped, Plain

\* A step to any state, with other places.
Moved(r, st, method, resource, protocol) ==
  [r EXCEPT !.state = st, !.method = method, !.resource = resource, !.protocol = protocol]

LEMMA MovedStep ==
  ASSUME NEW proto, NEW r, Ready(proto, r), r.state # "END", NEW available,
         NEW st \in StatesOf(proto) \cap States,
         NEW method \in Locs, NEW resource \in Locs, NEW protocol \in Locs,
         End(resource) <= r.stream_size + 1, End(protocol) <= r.stream_size + 1,
         End(method) <= r.stream_size + 1 + (IF proto = "finger" /\ st = "WAIT_RESOURCE_END" THEN 1 ELSE 0),
         proto = "finger" /\ st = "WAIT_METHOD_END" => method.size = 1,
         proto = "finger" /\ st = "WAIT_RESOURCE_BEGIN" => method.size = 2,
         proto \in Urls /\ st = "WAIT_PROTOCOL_END" => protocol.size \in 0 .. 2 /\ method.size = 0
  PROVE  Stepped(proto, r, Advance(Moved(r, st, method, resource, protocol)), available)
<1> DEFINE t == Moved(r, st, method, resource, protocol)
           u == Advance(t)
<1>1. t \in Parsers /\ t.failed = "no" /\ ~t.returned /\ t.stream_size = r.stream_size /\ t.state = st
  BY DEF Moved, Ready, Parsers
<1>2. u \in Parsers /\ u = [t EXCEPT !.stream_size = t.stream_size + 1]
  BY <1>1, Advanced
<1>3. /\ u.state = st /\ u.failed = "no" /\ ~u.returned /\ u.stream_size = r.stream_size + 1
      /\ u.method = method /\ u.resource = resource /\ u.protocol = protocol
      /\ u.user = r.user /\ u.name = r.name /\ u.value = r.value
      /\ u.remaining_content = r.remaining_content
  BY <1>1, <1>2 DEF Moved, Ready, Parsers
<1> HIDE DEF t, u
<1>4. /\ r.stream_size \in Nat /\ End(r.user) \in Nat /\ End(r.name) \in Nat /\ End(r.value) \in Nat
      /\ End(r.user) <= r.stream_size /\ End(r.name) <= r.stream_size /\ End(r.value) <= r.stream_size
      /\ proto \notin {"http", "spartan"} => r.remaining_content = 0
  BY EndOf DEF Ready, Parsers, Fields, Lie
<1>5. Fields(proto, u)
  BY <1>3, <1>4 DEF Fields, Lie
<1> QED
  BY <1>2, <1>3, <1>5 DEF Stepped, u, t

LEMMA Refused ==
  ASSUME NEW proto, NEW r, Ready(proto, r), NEW available, NEW why \in {"invalid", "content"}
  PROVE  Stepped(proto, r, Advance(Fail(r, why)), available)
<1>1. Fail(r, why) \in Parsers /\ Fail(r, why).failed = why /\ Fail(r, why).state = r.state
  BY DEF Fail, Ready, Parsers
<1>2. Advance(Fail(r, why)) = Fail(r, why)
  BY <1>1 DEF Advance
<1> QED
  BY <1>1, <1>2 DEF Stepped, Ready

\* A step to another state.
LEMMA AtStep ==
  ASSUME NEW proto, NEW r, Ready(proto, r), r.state # "END", NEW st, Plain(proto, st), NEW available
  PROVE  Stepped(proto, r, Advance(At(r, st)), available)
<1> DEFINE t == At(r, st)
           u == Advance(t)
<1>1. t \in Parsers /\ t.failed = "no" /\ ~t.returned /\ t.state = st /\ t.stream_size = r.stream_size
  BY DEF At, Ready, Parsers, Plain
<1>2. u \in Parsers /\ u = [t EXCEPT !.stream_size = t.stream_size + 1]
  BY <1>1, Advanced
<1>3. /\ u.state = st /\ u.failed = "no" /\ ~u.returned /\ u.stream_size = r.stream_size + 1
      /\ u.remaining_content = r.remaining_content
      /\ u.method = r.method /\ u.resource = r.resource /\ u.protocol = r.protocol
      /\ u.user = r.user /\ u.name = r.name /\ u.value = r.value
  BY <1>1, <1>2 DEF At, Ready, Parsers
<1> HIDE DEF t, u
<1>4. Within(u, r)
  BY <1>3, EndOf DEF Within, Ready, Parsers
<1> QED
  BY <1>2, <1>3, <1>4, MovesOn DEF u, t

Named == {"method", "resource", "protocol", "name", "value"}

\* A field begins, and another state.
LEMMA BeginStep ==
  ASSUME NEW proto, NEW r, Ready(proto, r), r.state # "END", NEW st, Plain(proto, st),
         NEW field \in Named, NEW available
  PROVE  Stepped(proto, r, Advance(Begin(r, field, st)), available)
<1> DEFINE t == Begin(r, field, st)
           u == Advance(t)
           loc == Loc(r.stream_size, 1)
<1>1. loc \in Locs /\ End(loc) = r.stream_size + 1
  BY DEF Loc, Locs, End, Ready, Parsers
<1> HIDE DEF loc
<1>2. t \in Parsers /\ t.failed = "no" /\ ~t.returned /\ t.state = st /\ t.stream_size = r.stream_size
  BY <1>1 DEF Begin, Ready, Parsers, Plain, Named, loc
<1>3. u \in Parsers /\ u = [t EXCEPT !.stream_size = t.stream_size + 1]
  BY <1>2, Advanced
<1>4. /\ u.state = st /\ u.failed = "no" /\ ~u.returned /\ u.stream_size = r.stream_size + 1
      /\ u.remaining_content = r.remaining_content
      /\ u.method \in {r.method, loc} /\ u.resource \in {r.resource, loc}
      /\ u.protocol \in {r.protocol, loc} /\ u.user = r.user
      /\ u.name \in {r.name, loc} /\ u.value \in {r.value, loc}
  BY <1>2, <1>3 DEF Begin, Ready, Parsers, Named, loc
<1> HIDE DEF t, u
<1>5. Within(u, r)
  BY <1>1, <1>4, EndOf DEF Within, Ready, Parsers
<1> QED
  BY <1>3, <1>4, <1>5, MovesOn DEF u, t

\* A field grows by the character.  The name of a finger request grows from the
\* beginning of the text.
LEMMA GrowStep ==
  ASSUME NEW proto, NEW r, Ready(proto, r), r.state # "END", Plain(proto, r.state),
         NEW field \in Named, NEW available,
         proto = "finger" /\ r.state = "WAIT_RESOURCE_END" => field # "method"
  PROVE  Stepped(proto, r, Advance(Grow(r, field)), available)
<1> DEFINE t == Grow(r, field)
           u == Advance(t)
           loc == [offset |-> r[field].offset, size |-> r[field].size + 1]
<1>1. r[field] \in Locs /\ r.stream_size \in Nat /\ End(r[field]) <= r.stream_size
  BY DEF Ready, Parsers, Named, Fields, Lie
<1>2. loc \in Locs /\ End(loc) <= r.stream_size + 1
  BY <1>1 DEF Locs, End
<1>3. t = [r EXCEPT ![field] = loc]
  <2> DEFINE old == r[field]
  <2>1. old \in Locs
    BY <1>1
  <2>2. Grow(r, field) = [r EXCEPT ![field] = [old EXCEPT !.size = old.size + 1]]
    BY DEF Grow
  <2>3. [old EXCEPT !.size = old.size + 1] = [offset |-> old.offset, size |-> old.size + 1]
    <3> HIDE DEF old
    <3> QED BY <2>1 DEF Locs
  <2> QED BY <2>2, <2>3
<1> HIDE DEF loc, t
<1>4. t \in Parsers /\ t.failed = "no" /\ ~t.returned /\ t.state = r.state /\ t.stream_size = r.stream_size
  BY <1>2, <1>3 DEF Ready, Parsers, Named
<1>5. u \in Parsers /\ u = [t EXCEPT !.stream_size = t.stream_size + 1]
  BY <1>4, Advanced
<1>6. /\ u.state = r.state /\ u.failed = "no" /\ ~u.returned /\ u.stream_size = r.stream_size + 1
      /\ u.remaining_content = r.remaining_content
      /\ u.method \in {r.method, loc} /\ u.resource \in {r.resource, loc}
      /\ u.protocol \in {r.protocol, loc} /\ u.user = r.user
      /\ u.name \in {r.name, loc} /\ u.value \in {r.value, loc}
  BY <1>3, <1>4, <1>5 DEF Ready, Parsers, Named
<1> HIDE DEF u
<1>7. Within(u, r)
  BY <1>2, <1>6, EndOf DEF Within, Ready, Parsers
<1> QED
  BY <1>5, <1>6, <1>7, MovesOn DEF u, t

\* Nothing but the character is counted.
LEMMA StayStep ==
  ASSUME NEW proto, NEW r, Ready(proto, r), r.state # "END", Plain(proto, r.state), NEW available
  PROVE  Stepped(proto, r, Advance(r), available)
<1> DEFINE u == Advance(r)
<1>1. u \in Parsers /\ u = [r EXCEPT !.stream_size = r.stream_size + 1]
  BY Advanced DEF Ready
<1>2. /\ u.state = r.state /\ u.failed = "no" /\ ~u.returned /\ u.stream_size = r.stream_size + 1
      /\ u.remaining_content = r.remaining_content
      /\ u.method = r.method /\ u.resource = r.resource /\ u.protocol = r.protocol
      /\ u.user = r.user /\ u.name = r.name /\ u.value = r.value
  BY <1>1 DEF Ready, Parsers
<1> HIDE DEF u
<1>3. Within(u, r)
  BY <1>2, EndOf DEF Within, Ready, Parsers
<1> QED
  BY <1>1, <1>2, <1>3, MovesOn DEF u

LEMMA InvalidStep ==
  ASSUME NEW proto, NEW r, Ready(proto, r), NEW available
  PROVE  Stepped(proto, r, Advance(Invalid(r)), available)
BY Refused DEF Invalid

\* The states of several protocols.
LEMMA WaitBeginStep ==
  ASSUME NEW proto, NEW r, Ready(proto, r), r.state # "END", Plain(proto, r.state),
         NEW st, Plain(proto, st), NEW field \in Named, NEW c, NEW space, NEW class, NEW available
  PROVE  Stepped(proto, r, Advance(WaitBegin(r, c, space, class, field, st)), available)
BY StayStep, BeginStep, InvalidStep DEF WaitBegin

LEMMA WaitEndStep ==
  ASSUME NEW proto, NEW r, Ready(proto, r), r.state # "END", Plain(proto, r.state), proto # "finger",
         NEW st, NEW field \in Named, NEW c, NEW space, NEW class, NEW available,
         space = {} \/ Plain(proto, st)
  PROVE  Stepped(proto, r, Advance(WaitEnd(r, c, space, class, field, st)), available)
<1>1. CASE c \in space
  BY <1>1, AtStep DEF WaitEnd
<1>2. CASE c \in class \ space
  BY <1>2, GrowStep DEF WaitEnd
<1>3. CASE c \notin space /\ c \notin class \ space
  BY <1>3, InvalidStep DEF WaitEnd
<1> QED
  BY <1>1, <1>2, <1>3

LEMMA EndStates ==
  ASSUME NEW proto \in Protocols
  PROVE  Plain(proto, "END") /\ Plain(proto, "WAIT_FINAL_LINE_LF")
<1>1. CASE proto = "http"
  BY <1>1 DEF Plain, StatesOf, States, Urls
<1>2. CASE proto \in {"gopher", "nex"}
  BY <1>2 DEF Plain, StatesOf, States, Urls
<1>3. CASE proto = "finger"
  BY <1>3 DEF Plain, StatesOf, States, Urls
<1>4. CASE proto \in Urls
  BY <1>4 DEF Plain, StatesOf, States, Urls
<1>5. CASE proto = "spartan"
  BY <1>5 DEF Plain, StatesOf, States, Urls
<1> QED
  BY <1>1, <1>2, <1>3, <1>4, <1>5 DEF Protocols, Urls

LEMMA LastLineStep ==
  ASSUME NEW proto \in Protocols, NEW r, Ready(proto, r), r.state # "END", NEW c, NEW available
  PROVE  Stepped(proto, r, Advance(LastLine(r, c)), available)
BY EndStates, AtStep DEF LastLine

LEMMA AfterHeadStep ==
  ASSUME NEW proto \in Protocols, NEW r, Ready(proto, r), r.state # "END", NEW available,
         proto \in {"http", "spartan"} => Plain(proto, "WAIT_CONTENT")
  PROVE  Stepped(proto, r, Advance(AfterHead(r)), available)
<1>1. r.remaining_content > 0 => Plain(proto, "WAIT_CONTENT")
  BY DEF Ready, Fields, Lie
<1> QED
  BY <1>1, EndStates, AtStep DEF AfterHead

LEMMA FinalLfStep ==
  ASSUME NEW proto \in Protocols, NEW r, Ready(proto, r), r.state # "END", NEW c, NEW available,
         proto \in {"http", "spartan"} => Plain(proto, "WAIT_CONTENT")
  PROVE  Stepped(proto, r, Advance(FinalLf(r, c)), available)
BY AfterHeadStep, InvalidStep DEF FinalLf

LEMMA ContentStep ==
  ASSUME NEW proto \in {"http", "spartan"}, NEW r, Ready(proto, r), r.state = "WAIT_CONTENT",
         NEW available \in Nat \ {0}
  PROVE  Stepped(proto, r, Advance(Content(r, available)), available)
<1> DEFINE n == IF available >= r.remaining_content THEN r.remaining_content ELSE available
           st == IF available >= r.remaining_content THEN "END" ELSE r.state
           sp == IF available >= r.remaining_content THEN r.split ELSE TRUE
           t == Content(r, available)
<1>1. r.remaining_content \in Nat /\ r.stream_size \in Nat /\ r.split \in BOOLEAN
  BY DEF Ready, Parsers
<1>2. n \in 0 .. available /\ (st # "END" => n = available) /\ st \in {"END", "WAIT_CONTENT"}
  BY <1>1
<1>s. sp \in BOOLEAN
  BY <1>1
<1>3. st \in StatesOf(proto) /\ st \in States
  <2>1. CASE proto = "http"
    BY <1>2, <2>1 DEF StatesOf, States, Urls
  <2>2. CASE proto = "spartan"
    BY <1>2, <2>2 DEF StatesOf, States, Urls
  <2> QED BY <2>1, <2>2
<1>4. t = [r EXCEPT !.state = st, !.stream_size = r.stream_size + n, !.returned = TRUE, !.split = sp]
  <2>1. CASE available >= r.remaining_content
    BY <2>1 DEF Content, At, Ready, Parsers
  <2>2. CASE ~(available >= r.remaining_content)
    BY <2>2 DEF Content, At, Ready, Parsers
  <2> QED BY <2>1, <2>2
<1> HIDE DEF t, n, st, sp
<1>5. PICK size \in Nat : size = r.stream_size + n
  BY <1>1, <1>2
<1>6. /\ t \in Parsers /\ t.state = st /\ t.failed = "no" /\ t.returned /\ t.stream_size = size
      /\ t.method = r.method /\ t.resource = r.resource /\ t.protocol = r.protocol
      /\ t.user = r.user /\ t.name = r.name /\ t.value = r.value
  BY <1>s, <1>3, <1>4, <1>5 DEF Ready, Parsers
<1>7. Advance(t) = t
  BY <1>6 DEF Advance
<1>8. Fields(proto, t)
  BY <1>1, <1>2, <1>5, <1>6, EndOf DEF Fields, Lie, Ready, Parsers, Urls
<1>9. t.stream_size \in r.stream_size .. r.stream_size + available
  BY <1>1, <1>2, <1>5, <1>6
<1> QED
  BY <1>1, <1>2, <1>3, <1>5, <1>6, <1>7, <1>8, <1>9 DEF Stepped, t

------------------------------------------------------------------------------
(* A character, by protocol.                                               *)

LEMMA GopherStep ==
  ASSUME NEW proto \in {"gopher", "nex"}, NEW r, Ready(proto, r), NEW c, NEW available
  PROVE  Stepped(proto, r, Advance(parser_parse_gopher(r, c)), available)
<1>1. proto \in Protocols /\ r.state \in {"WAIT_RESOURCE_END", "WAIT_FINAL_LINE_LF", "END"}
  BY DEF Protocols, Ready, StatesOf, Urls
<1>2. CASE r.state = "WAIT_RESOURCE_END"
  <2>1. Plain(proto, r.state)
    BY <1>2 DEF Plain, StatesOf, States, Urls
  <2>2. parser_parse_gopher(r, c) \in {LastLine(r, c), Invalid(r), Grow(r, "resource")}
    BY <1>2 DEF parser_parse_gopher
  <2> QED BY <1>1, <1>2, <2>1, <2>2, LastLineStep, InvalidStep, GrowStep DEF Named
<1>3. CASE r.state = "WAIT_FINAL_LINE_LF"
  BY <1>1, <1>3, FinalLfStep DEF parser_parse_gopher
<1>4. CASE r.state = "END"
  BY <1>4, InvalidStep DEF parser_parse_gopher
<1> QED
  BY <1>1, <1>2, <1>3, <1>4

LEMMA FingerStep ==
  ASSUME NEW r, Ready("finger", r), NEW c, NEW available
  PROVE  Stepped("finger", r, Advance(parser_parse_finger(r, c)), available)
<1>1. /\ "finger" \in Protocols
      /\ r.state \in {"WAIT_METHOD_BEGIN", "WAIT_METHOD_END", "WAIT_RESOURCE_BEGIN", "WAIT_RESOURCE_END",
                      "WAIT_FINAL_LINE_LF", "END"}
  BY DEF Protocols, Ready, StatesOf, Urls
<1>8. /\ r \in Parsers /\ r.method \in Locs /\ r.resource \in Locs /\ r.stream_size \in Nat
      /\ r.resource.offset <= r.stream_size
      /\ Fields("finger", r)
  BY DEF Ready, Parsers, Fields, Lie, End, Locs
<1>9. /\ End(r.method) \in Nat /\ End(r.resource) \in Nat /\ End(r.protocol) \in Nat /\ r.protocol \in Locs
      /\ End(r.resource) <= r.stream_size /\ End(r.protocol) <= r.stream_size
      /\ r.state # "WAIT_RESOURCE_END" => End(r.method) <= r.stream_size
  BY <1>8, EndOf DEF Parsers, Fields, Lie
<1>10. PICK resource \in Locs :
           /\ resource = [r.resource EXCEPT !.size = 1] /\ resource.size = 1
           /\ End(resource) = r.resource.offset + 1
  BY <1>8, Resized
<1>11. {"WAIT_METHOD_END", "WAIT_RESOURCE_BEGIN", "WAIT_RESOURCE_END"} \subseteq StatesOf("finger") \cap States
  BY DEF StatesOf, States, Urls
<1>2. CASE r.state = "WAIT_METHOD_BEGIN"
  <2>1. r.method.offset <= r.stream_size
    BY <1>2, <1>8, <1>9 DEF End, Locs
  <2>2. PICK method \in Locs : /\ method = [r.method EXCEPT !.size = 1] /\ method.size = 1
                               /\ End(method) = r.method.offset + 1
    BY <1>8, Resized
  <2>3. parser_parse_finger(r, c)
          \in {LastLine(r, c), Moved(r, "WAIT_METHOD_END", method, r.resource, r.protocol),
               Moved(r, "WAIT_RESOURCE_END", r.method, resource, r.protocol)}
    BY <1>2, <1>8, <1>10, <2>2 DEF parser_parse_finger, At, Moved, Parsers
  <2>4. Stepped("finger", r, Advance(Moved(r, "WAIT_METHOD_END", method, r.resource, r.protocol)), available)
    BY <1>2, <1>8, <1>9, <1>11, <2>1, <2>2, MovedStep DEF Urls, Locs
  <2>5. Stepped("finger", r, Advance(Moved(r, "WAIT_RESOURCE_END", r.method, resource, r.protocol)), available)
    BY <1>2, <1>8, <1>9, <1>10, <1>11, MovedStep DEF Urls, Locs
  <2> QED BY <1>1, <1>2, <2>3, <2>4, <2>5, LastLineStep
<1>3. CASE r.state = "WAIT_METHOD_END"
  <2>1. r.method.offset + 1 <= r.stream_size
    BY <1>3, <1>8, <1>9 DEF Fields, Lie, End, Locs
  <2>2. PICK method \in Locs : /\ method = [r.method EXCEPT !.size = 2] /\ method.size = 2
                               /\ End(method) = r.method.offset + 2
    BY <1>8, Resized
  <2>3. parser_parse_finger(r, c)
          \in {Moved(r, "WAIT_RESOURCE_BEGIN", method, r.resource, r.protocol), Invalid(r)}
    BY <1>3, <1>8, <2>2 DEF parser_parse_finger, At, Moved, Parsers
  <2>4. Stepped("finger", r, Advance(Moved(r, "WAIT_RESOURCE_BEGIN", method, r.resource, r.protocol)), available)
    BY <1>3, <1>8, <1>9, <1>11, <2>1, <2>2, MovedStep DEF Urls, Locs
  <2> QED BY <2>3, <2>4, InvalidStep
<1>4. CASE r.state = "WAIT_RESOURCE_BEGIN"
  <2>1. r.method.size = 2
    BY <1>4, <1>8 DEF Fields, Lie
  <2>2. PICK method \in Locs : /\ method = [r.method EXCEPT !.offset = r.stream_size]
                               /\ method.size = r.method.size /\ End(method) = r.stream_size + r.method.size
    BY <1>8, Relocated
  <2>3. parser_parse_finger(r, c)
          \in {LastLine(r, c), Moved(r, "WAIT_RESOURCE_BEGIN", r.method, r.resource, r.protocol),
               Moved(r, "WAIT_RESOURCE_END", method, resource, r.protocol)}
    BY <1>4, <1>8, <1>10, <2>2 DEF parser_parse_finger, At, Moved, Parsers
  <2>4. Stepped("finger", r, Advance(Moved(r, "WAIT_RESOURCE_BEGIN", r.method, r.resource, r.protocol)), available)
    BY <1>4, <1>8, <1>9, <1>11, <2>1, MovedStep DEF Urls
  <2>5. Stepped("finger", r, Advance(Moved(r, "WAIT_RESOURCE_END", method, resource, r.protocol)), available)
    BY <1>4, <1>8, <1>9, <1>10, <1>11, <2>1, <2>2, MovedStep DEF Urls, Locs
  <2> QED BY <1>1, <1>4, <2>3, <2>4, <2>5, LastLineStep
<1>5. CASE r.state = "WAIT_RESOURCE_END"
  <2>1. Plain("finger", r.state)
    BY <1>5 DEF Plain, StatesOf, States, Urls
  <2>2. parser_parse_finger(r, c) \in {LastLine(r, c), Grow(r, "resource")}
    BY <1>5 DEF parser_parse_finger
  <2> QED BY <1>1, <1>5, <2>1, <2>2, LastLineStep, GrowStep DEF Named
<1>6. CASE r.state = "WAIT_FINAL_LINE_LF"
  BY <1>1, <1>6, FinalLfStep DEF parser_parse_finger
<1>7. CASE r.state = "END"
  BY <1>7, InvalidStep DEF parser_parse_finger
<1> QED
  BY <1>1, <1>2, <1>3, <1>4, <1>5, <1>6, <1>7

LEMMA UrlStep ==
  ASSUME NEW proto \in Urls, NEW r, Ready(proto, r), NEW c, NEW available
  PROVE  Stepped(proto, r, Advance(parser_parse_gemini_like(r, c, Prefix(proto))), available)
<1> DEFINE prefix == Prefix(proto)
           t == parser_parse_gemini_like(r, c, prefix)
<1>1. /\ proto \in Protocols /\ Len(prefix) = 3
      /\ r.state \in {"WAIT_PROTOCOL_END", "WAIT_METHOD_END", "WAIT_RESOURCE_END", "WAIT_FINAL_LINE_LF", "END"}
  BY DEF Protocols, Ready, StatesOf, Urls, Prefix
<1> HIDE DEF prefix, t
<1>2. CASE r.state = "WAIT_PROTOCOL_END"
  <2>1. /\ r \in Parsers /\ r.protocol \in Locs /\ r.method \in Locs /\ r.stream_size \in Nat
        /\ r.protocol.size \in 0 .. 2 /\ r.method.size = 0 /\ End(r.protocol) <= r.stream_size
        /\ Fields(proto, r)
    BY <1>2 DEF Ready, Parsers, Fields, Lie
  <2>2. PICK protocol \in Locs : /\ protocol = [r.protocol EXCEPT !.size = r.protocol.size + 1]
                                 /\ protocol.size = r.protocol.size + 1
                                 /\ End(protocol) = r.protocol.offset + (r.protocol.size + 1)
    <3>1. r.protocol.size + 1 \in Nat
      BY <2>1
    <3> QED BY <2>1, <3>1, Resized
  <2>3. PICK method \in Locs : /\ method = [r.method EXCEPT !.offset = 3] /\ method.size = r.method.size
                               /\ End(method) = 3 + r.method.size
    BY <2>1, Relocated
  <2>4. \/ t = Invalid(r)
        \/ t = Moved(r, "WAIT_PROTOCOL_END", r.method, r.resource, protocol) /\ r.protocol.size + 1 < 3
        \/ t = Moved(r, "WAIT_METHOD_END", method, r.resource, protocol) /\ ~(r.protocol.size + 1 < 3)
    BY <1>1, <1>2, <2>1, <2>2, <2>3 DEF parser_parse_gemini_like, At, Grow, Moved, Parsers, t
  <2>5. /\ r.resource \in Locs /\ End(r.resource) \in Nat /\ End(r.method) \in Nat
        /\ End(r.resource) <= r.stream_size /\ End(r.method) <= r.stream_size /\ proto # "finger"
        /\ {"WAIT_PROTOCOL_END", "WAIT_METHOD_END"} \subseteq StatesOf(proto) \cap States
    BY <1>2, <2>1, EndOf DEF Parsers, Fields, Lie, Urls, StatesOf, States
  <2>6. ASSUME r.protocol.size + 1 < 3
        PROVE  Stepped(proto, r, Advance(Moved(r, "WAIT_PROTOCOL_END", r.method, r.resource, protocol)), available)
    <3>1. End(protocol) <= r.stream_size + 1 /\ protocol.size \in 0 .. 2
      BY <2>1, <2>2, <2>6 DEF End, Locs
    <3> QED BY <1>2, <2>1, <2>5, <3>1, MovedStep
  <2>7. ASSUME ~(r.protocol.size + 1 < 3)
        PROVE  Stepped(proto, r, Advance(Moved(r, "WAIT_METHOD_END", method, r.resource, protocol)), available)
    <3>1. r.stream_size >= 2
      BY <2>1, <2>7 DEF End, Locs
    <3>2. End(protocol) <= r.stream_size + 1 /\ End(method) <= r.stream_size + 1
      BY <2>1, <2>2, <2>3, <3>1 DEF End, Locs
    <3> QED BY <1>2, <2>1, <2>5, <3>2, MovedStep
  <2> QED BY <2>4, <2>6, <2>7, InvalidStep DEF t, prefix
<1>3. CASE r.state = "WAIT_METHOD_END"
  <2>1. Plain(proto, r.state) /\ Plain(proto, "WAIT_RESOURCE_END")
    BY <1>3 DEF Plain, StatesOf, States, Urls
  <2>2. t \in {Grow(r, "method"), Begin(r, "resource", "WAIT_RESOURCE_END"), LastLine(r, c), Invalid(r)}
    BY <1>3 DEF parser_parse_gemini_like, t
  <2> QED BY <1>1, <1>3, <2>1, <2>2, LastLineStep, GrowStep, BeginStep, InvalidStep DEF Named, t, prefix, Urls
<1>4. CASE r.state = "WAIT_RESOURCE_END"
  <2>1. Plain(proto, r.state)
    BY <1>4 DEF Plain, StatesOf, States, Urls
  <2>2. t \in {Grow(r, "resource"), LastLine(r, c), Invalid(r)}
    BY <1>4 DEF parser_parse_gemini_like, t
  <2> QED BY <1>1, <1>4, <2>1, <2>2, LastLineStep, GrowStep, InvalidStep DEF Named, t, prefix, Urls
<1>5. CASE r.state = "WAIT_FINAL_LINE_LF"
  <2>1. t = FinalLf(r, c)
    BY <1>5 DEF parser_parse_gemini_like, t
  <2> QED BY <1>1, <1>5, <2>1, FinalLfStep DEF Urls, t, prefix
<1>6. CASE r.state = "END"
  BY <1>6, InvalidStep DEF parser_parse_gemini_like, t, prefix
<1> QED
  BY <1>1, <1>2, <1>3, <1>4, <1>5, <1>6

------------------------------------------------------------------------------
(* The values of headers.                                                  *)

LEMMA NumberIsNatural ==
  ASSUME NEW t, Len(t) \in Nat
  PROVE  Number(t) \in Nat
<1> DEFINE L == Len(t)
           rec(f) == [n \in 0 .. L |-> IF n = 0 THEN 0 ELSE 10 * f[n - 1] + Digit(t[n])]
           value == CHOOSE f : f = rec(f)
           step == [x \in Nat \X (1 .. L) |-> 10 * x[1] + Digit(t[x[2]])]
<1>1. L \in Nat /\ \A n : Digit(t[n]) \in Nat
  BY DEF Digit
<1>2. Number(t) = value[L]
  BY DEF Number
<1>3. step \in StepsOf(L, Nat)
  <2>1. \A x \in Nat, n \in 1 .. L : 10 * x + Digit(t[n]) \in Nat
    BY <1>1
  <2> QED BY <2>1 DEF StepsOf
<1>4. \A x \in Nat, n \in 1 .. L : step[<<x, n>>] = 10 * x + Digit(t[n])
  OBVIOUS
<1> HIDE DEF L, step
<1>5. PICK g : Recurs(g, L, Nat, 0, step)
  <2>1. 0 \in Nat
    OBVIOUS
  <2> QED BY <1>1, <1>3, <2>1, RecursionUpTo
<1>6. g \in [0 .. L -> Nat] /\ g[0] = 0 /\ \A n \in 1 .. L : g[n] = step[<<g[n - 1], n>>]
  BY <1>5 DEF Recurs
<1>7. g = rec(g)
  <2>1. \A n \in 1 .. L : g[n - 1] \in Nat
    BY <1>1, <1>6
  <2>2. \A n \in 1 .. L : g[n] = 10 * g[n - 1] + Digit(t[n])
    BY <1>4, <1>6, <2>1
  <2>3. \A n \in 0 .. L : g[n] = rec(g)[n]
    BY <1>1, <1>6, <2>2
  <2>4. g = [n \in 0 .. L |-> g[n]]
    BY <1>6
  <2> QED BY <2>3, <2>4
<1>8. value = rec(value)
  <2> HIDE DEF rec
  <2> QED BY <1>7
<1>9. value[0] = 0 /\ \A n \in 1 .. L : value[n] = 10 * value[n - 1] + Digit(t[n])
  <2> HIDE DEF value
  <2> QED BY <1>1, <1>8
<1> HIDE DEF value
<1>10. \A n \in 0 .. L : value[n] = g[n]
  <2>1. RecursWithin(value, L, Nat, 0, step)
    BY <1>4, <1>9 DEF RecursWithin
  <2>2. SameUpTo(value, g, L)
    BY <1>1, <1>5, <2>1, RecursionIsUnique
  <2> QED BY <2>2 DEF SameUpTo
<1> QED
  BY <1>1, <1>2, <1>6, <1>10

LEMMA GreatestUpTo ==
  ASSUME NEW n \in Nat, NEW T \in SUBSET (1 .. n), T # {}
  PROVE  \E x \in T : \A y \in T : x >= y
<1> DEFINE U == {n - x : x \in T}
<1>1. U \in SUBSET Nat /\ U # {}
  <2>1. \A x \in T : n - x \in Nat
    OBVIOUS
  <2>2. PICK x \in T : TRUE
    OBVIOUS
  <2>3. n - x \in U
    BY <2>2
  <2> QED BY <2>1, <2>3
<1>2. PICK u \in U : \A y \in U : u <= y
  <2> HIDE DEF U
  <2> QED BY <1>1, SmallestNumber
<1>3. PICK x \in T : u = n - x
  OBVIOUS
<1>4. ASSUME NEW y \in T PROVE x >= y
  <2>1. n - y \in U
    OBVIOUS
  <2> QED BY <1>2, <1>3, <2>1
<1> QED
  BY <1>4

LEMMA TrimmedIsText ==
  ASSUME NEW t \in Seq(STRING)
  PROVE  Trimmed(t) \in Seq(STRING)
<1> DEFINE ink == {i \in DOMAIN t : t[i] \notin CM_SPACE}
<1>1. CASE ink = {}
  BY <1>1 DEF Trimmed
<1>2. CASE ink # {}
  <2>1. ink \in SUBSET Nat /\ ink \in SUBSET (1 .. Len(t)) /\ Len(t) \in Nat
    OBVIOUS
  <2>2. Trimmed(t) = SubSeq(t, Min(ink), Max(ink))
    BY <1>2 DEF Trimmed
  <2> HIDE DEF ink
  <2>3. Min(ink) \in ink
    BY <1>2, <2>1, SmallestNumber DEF Min
  <2>4. Max(ink) \in ink
    BY <1>2, <2>1, GreatestUpTo DEF Max
  <2>5. PICK a, b \in 1 .. Len(t) : Trimmed(t) = SubSeq(t, a, b)
    BY <2>1, <2>2, <2>3, <2>4
  <2> QED BY <2>1, <2>5
<1> QED
  BY <1>1, <1>2

LEMMA TextIsText ==
  ASSUME NEW s \in Seq(STRING), NEW l \in Locs, End(l) <= Len(s)
  PROVE  Text(l, s) \in Seq(STRING)
BY DEF Text, Locs, End

\* What a step begins with may be changed, in what the invariant says alike of.
Kept(proto, r, t) == Ready(proto, t) /\ t.state = r.state /\ t.stream_size = r.stream_size

LEMMA SteppedFrom ==
  ASSUME NEW proto, NEW r, NEW t, Kept(proto, r, t), NEW u, NEW available, Stepped(proto, t, u, available)
  PROVE  Stepped(proto, r, u, available)
BY DEF Kept, Stepped

LEMMA ContentLengthKeeps ==
  ASSUME MAX_REQUEST_SIZE \in Nat,
         NEW proto \in {"http", "spartan"}, NEW r, Ready(proto, r), NEW t \in Seq(STRING)
  PROVE  \/ ContentLength(r, t) \in {Fail(r, "invalid"), Fail(r, "content")}
         \/ Kept(proto, r, ContentLength(r, t))
<1> DEFINE n == Number(t)
           u == [r EXCEPT !.remaining_content = n]
<1>1. n \in Nat
  <2>1. Len(t) \in Nat
    OBVIOUS
  <2> QED BY <2>1, NumberIsNatural
<1>2. \/ ContentLength(r, t) \in {Fail(r, "invalid"), Fail(r, "content")}
      \/ ContentLength(r, t) = u /\ ~(r.value.offset + r.value.size + n > MAX_REQUEST_SIZE)
  BY DEF ContentLength, Invalid
<1> HIDE DEF n
<1>3. ASSUME ~(r.value.offset + r.value.size + n > MAX_REQUEST_SIZE)
      PROVE  Kept(proto, r, u)
  <2>1. r \in Parsers /\ r.value \in Locs
    BY DEF Ready, Parsers
  <2>2. n \in 0 .. MAX_REQUEST_SIZE
    <3> DEFINE a == r.value.offset
               b == r.value.size
    <3>1. a \in Nat /\ b \in Nat
      BY <2>1 DEF Locs
    <3>2. ~(a + b + n > MAX_REQUEST_SIZE)
      BY <1>3
    <3> HIDE DEF a, b
    <3> QED BY <1>1, <3>1, <3>2
  <2>3. /\ u \in Parsers /\ u.state = r.state /\ u.stream_size = r.stream_size /\ u.failed = r.failed
        /\ u.returned = r.returned /\ u.method = r.method /\ u.resource = r.resource
        /\ u.protocol = r.protocol /\ u.user = r.user /\ u.name = r.name /\ u.value = r.value
    BY <2>1, <2>2 DEF Parsers
  <2> HIDE DEF u
  <2> QED BY <2>3 DEF Kept, Ready, Fields, Lie, Urls
<1> QED
  BY <1>2, <1>3

LEMMA NameValueKeeps ==
  ASSUME MAX_REQUEST_SIZE \in Nat, NEW r, Ready("http", r), NEW s \in Seq(STRING), r.stream_size <= Len(s)
  PROVE  LET t == parser_parse_http_name_value(r, s)
         IN t \in {Fail(r, "invalid"), Fail(r, "content")} \/ Kept("http", r, t)
<1> DEFINE v == Text(r.value, s)
           keeps == [r EXCEPT !.keep_alive = TRUE]
           names == [r EXCEPT !.user = r.value]
<1>1. v \in Seq(STRING)
  <2>1. /\ r.value \in Locs /\ End(r.value) \in Nat /\ End(r.value) <= r.stream_size
        /\ r.stream_size \in Nat /\ Len(s) \in Nat
    BY EndOf DEF Ready, Parsers, Fields, Lie
  <2>2. End(r.value) <= Len(s)
    BY <2>1
  <2> QED BY <2>1, <2>2, TextIsText
<1>2. Trimmed(v) \in Seq(STRING)
  <2> HIDE DEF v
  <2> QED BY <1>1, TrimmedIsText
<1>3. parser_parse_http_name_value(r, s) \in {ContentLength(r, Trimmed(v)), keeps, r, names}
  BY DEF parser_parse_http_name_value
<1>4. Kept("http", r, r)
  BY DEF Kept
<1>5. Kept("http", r, keeps)
  <2>1. /\ keeps \in Parsers /\ keeps.state = r.state /\ keeps.stream_size = r.stream_size
        /\ keeps.failed = r.failed /\ keeps.remaining_content = r.remaining_content
        /\ keeps.returned = r.returned /\ keeps.method = r.method /\ keeps.resource = r.resource
        /\ keeps.protocol = r.protocol /\ keeps.user = r.user /\ keeps.name = r.name
        /\ keeps.value = r.value
    BY DEF Ready, Parsers
  <2> HIDE DEF keeps
  <2> QED BY <2>1 DEF Kept, Ready, Fields, Lie, Urls
<1>6. Kept("http", r, names)
  <2>1. /\ names \in Parsers /\ names.state = r.state /\ names.stream_size = r.stream_size
        /\ names.failed = r.failed /\ names.remaining_content = r.remaining_content
        /\ names.returned = r.returned /\ names.method = r.method /\ names.resource = r.resource
        /\ names.protocol = r.protocol /\ names.user = r.value /\ names.name = r.name
        /\ names.value = r.value
    BY DEF Ready, Parsers
  <2> HIDE DEF names
  <2> QED BY <2>1 DEF Kept, Ready, Fields, Lie, Urls
<1> HIDE DEF v, keeps, names
<1> QED
  BY <1>2, <1>3, <1>4, <1>5, <1>6, ContentLengthKeeps

LEMMA HeadStates ==
  ASSUME NEW proto \in {"http", "spartan"}, NEW st \in StatesOf(proto)
  PROVE  Plain(proto, st)
<1>1. CASE proto = "http"
  BY <1>1 DEF Plain, StatesOf, States, Urls
<1>2. CASE proto = "spartan"
  BY <1>2 DEF Plain, StatesOf, States, Urls
<1> QED
  BY <1>1, <1>2

LEMMA SpartanStep ==
  ASSUME MAX_REQUEST_SIZE \in Nat, NEW r, Ready("spartan", r), NEW s \in Seq(STRING), r.stream_size <= Len(s),
         NEW c, NEW available \in Nat \ {0}
  PROVE  Stepped("spartan", r, Advance(parser_parse_spartan(r, c, s, available)), available)
<1>1. /\ "spartan" \in Protocols /\ "spartan" # "finger"
      /\ StatesOf("spartan")
           = {"WAIT_METHOD_END", "WAIT_RESOURCE_BEGIN", "WAIT_RESOURCE_END", "WAIT_NAME_BEGIN",
              "WAIT_NAME_END", "WAIT_FINAL_LINE_LF", "WAIT_CONTENT", "END"}
  BY DEF Protocols, StatesOf, Urls
<1>2. r.state \in StatesOf("spartan") /\ \A st \in StatesOf("spartan") : Plain("spartan", st)
  BY HeadStates DEF Ready
<1>3. CASE r.state = "WAIT_METHOD_END"
  BY <1>1, <1>2, <1>3, WaitEndStep DEF parser_parse_spartan, Named
<1>4. CASE r.state = "WAIT_RESOURCE_BEGIN"
  BY <1>1, <1>2, <1>4, WaitBeginStep DEF parser_parse_spartan, Named
<1>5. CASE r.state = "WAIT_RESOURCE_END"
  BY <1>1, <1>2, <1>5, WaitEndStep DEF parser_parse_spartan, Named
<1>6. CASE r.state = "WAIT_NAME_BEGIN"
  BY <1>1, <1>2, <1>6, WaitBeginStep DEF parser_parse_spartan, Named
<1>7. CASE r.state = "WAIT_NAME_END"
  <2>1. CASE c \notin CM_NEWLINE
    BY <1>1, <1>2, <1>7, <2>1, WaitEndStep DEF parser_parse_spartan, Named
  <2>2. CASE c \in CM_NEWLINE
    <3> DEFINE t == ContentLength(r, Text(r.value, s))
    <3>1. parser_parse_spartan(r, c, s, available) = SpartanLength(r, c, s)
      BY <1>7, <2>2 DEF parser_parse_spartan
    <3>2. /\ r.value \in Locs /\ End(r.value) \in Nat /\ End(r.value) <= r.stream_size
          /\ r.stream_size \in Nat /\ Len(s) \in Nat
      BY EndOf DEF Ready, Parsers, Fields, Lie
    <3>3. Text(r.value, s) \in Seq(STRING)
      BY <3>2, TextIsText
    <3>4. t \in {Fail(r, "invalid"), Fail(r, "content")} \/ Kept("spartan", r, t)
      BY <3>3, ContentLengthKeeps
    <3>5. /\ t.failed # "no" => SpartanLength(r, c, s) = t
          /\ t.failed = "no" => SpartanLength(r, c, s) \in {At(t, "WAIT_FINAL_LINE_LF"), AfterHead(t)}
      BY DEF SpartanLength
    <3> HIDE DEF t
    <3>6. CASE t \in {Fail(r, "invalid"), Fail(r, "content")}
      <4>1. t.failed # "no"
        BY <3>6 DEF Fail, Ready, Parsers
      <4> QED BY <3>1, <3>5, <3>6, <4>1, Refused
    <3>7. CASE Kept("spartan", r, t)
      <4>1. Ready("spartan", t) /\ t.state # "END" /\ t.failed = "no"
        BY <1>7, <3>7 DEF Kept, Ready
      <4>2. /\ Stepped("spartan", t, Advance(At(t, "WAIT_FINAL_LINE_LF")), available)
            /\ Stepped("spartan", t, Advance(AfterHead(t)), available)
        BY <1>1, <1>2, <4>1, AtStep, AfterHeadStep
      <4> QED BY <3>1, <3>5, <3>7, <4>1, <4>2, SteppedFrom
    <3> QED BY <3>4, <3>6, <3>7
  <2> QED BY <2>1, <2>2
<1>8. CASE r.state = "WAIT_FINAL_LINE_LF"
  BY <1>1, <1>2, <1>8, FinalLfStep DEF parser_parse_spartan
<1>9. CASE r.state = "WAIT_CONTENT"
  BY <1>9, ContentStep DEF parser_parse_spartan
<1>10. CASE r.state = "END"
  BY <1>10, InvalidStep DEF parser_parse_spartan
<1> QED
  BY <1>1, <1>2, <1>3, <1>4, <1>5, <1>6, <1>7, <1>8, <1>9, <1>10

LEMMA HttpStates ==
  /\ "http" \in Protocols /\ "http" # "finger"
  /\ StatesOf("http")
       = {"WAIT_METHOD_BEGIN", "WAIT_METHOD_END", "WAIT_RESOURCE_BEGIN", "WAIT_RESOURCE_END",
          "WAIT_PROTOCOL_BEGIN", "WAIT_PROTOCOL_END", "WAIT_LINE_CR", "WAIT_LINE_LF",
          "WAIT_NAME_BEGIN", "WAIT_NAME_END", "WAIT_COLON", "WAIT_VALUE_END",
          "WAIT_FINAL_LINE_LF", "WAIT_CONTENT", "END"}
  /\ \A st \in StatesOf("http") : Plain("http", st)
<1>1. /\ "http" \in Protocols /\ "http" # "finger"
      /\ StatesOf("http")
           = {"WAIT_METHOD_BEGIN", "WAIT_METHOD_END", "WAIT_RESOURCE_BEGIN", "WAIT_RESOURCE_END",
              "WAIT_PROTOCOL_BEGIN", "WAIT_PROTOCOL_END", "WAIT_LINE_CR", "WAIT_LINE_LF",
              "WAIT_NAME_BEGIN", "WAIT_NAME_END", "WAIT_COLON", "WAIT_VALUE_END",
              "WAIT_FINAL_LINE_LF", "WAIT_CONTENT", "END"}
  BY DEF Protocols, StatesOf, Urls
<1>2. \A st \in StatesOf("http") : Plain("http", st)
  BY HeadStates
<1> QED
  BY <1>1, <1>2

LEMMA LineEndStep ==
  ASSUME NEW r, Ready("http", r), r.state # "END", NEW c, NEW available
  PROVE  Stepped("http", r, Advance(LineEnd(r, c)), available)
<1>1. Plain("http", "WAIT_LINE_LF") /\ Plain("http", "WAIT_NAME_BEGIN")
  BY HttpStates
<1> QED
  BY <1>1, AtStep DEF LineEnd

\* The value of a header begins empty, behind the colon.
LEMMA ValueBeginStep ==
  ASSUME NEW r, Ready("http", r), r.state # "END", NEW available
  PROVE  Stepped("http", r, Advance(ValueBegin(r)), available)
<1> DEFINE t == ValueBegin(r)
           u == Advance(t)
           loc == Loc(r.stream_size + 1, 0)
<1>1. loc \in Locs /\ End(loc) = r.stream_size + 1
  BY DEF Loc, Locs, End, Ready, Parsers
<1>2. Plain("http", "WAIT_VALUE_END")
  BY HttpStates
<1>3. t = [r EXCEPT !.state = "WAIT_VALUE_END", !.value = loc]
  BY DEF ValueBegin, At, Ready, Parsers
<1> HIDE DEF loc, t
<1>4. /\ t \in Parsers /\ t.failed = "no" /\ ~t.returned /\ t.state = "WAIT_VALUE_END"
      /\ t.stream_size = r.stream_size
  BY <1>1, <1>2, <1>3 DEF Ready, Parsers, Plain
<1>5. u \in Parsers /\ u = [t EXCEPT !.stream_size = t.stream_size + 1]
  BY <1>4, Advanced
<1>6. /\ u.state = "WAIT_VALUE_END" /\ u.failed = "no" /\ ~u.returned
      /\ u.stream_size = r.stream_size + 1 /\ u.remaining_content = r.remaining_content
      /\ u.method = r.method /\ u.resource = r.resource /\ u.protocol = r.protocol
      /\ u.user = r.user /\ u.name = r.name /\ u.value = loc
  BY <1>3, <1>4, <1>5 DEF Ready, Parsers
<1> HIDE DEF u
<1>7. Within(u, r)
  BY <1>1, <1>6, EndOf DEF Within, Ready, Parsers
<1> QED
  BY <1>2, <1>5, <1>6, <1>7, MovesOn DEF u, t

LEMMA WaitLineLfStep ==
  ASSUME NEW r, Ready("http", r), r.state = "WAIT_LINE_LF", NEW c, NEW available
  PROVE  Stepped("http", r, Advance(WaitLineLf(r, c)), available)
<1> DEFINE t == [r EXCEPT !.tolerated_cr = TRUE]
<1>1. /\ t \in Parsers /\ t.state = r.state /\ t.stream_size = r.stream_size /\ t.failed = r.failed
      /\ t.remaining_content = r.remaining_content /\ t.returned = r.returned
      /\ t.method = r.method /\ t.resource = r.resource /\ t.protocol = r.protocol
      /\ t.user = r.user /\ t.name = r.name /\ t.value = r.value
  BY DEF Ready, Parsers
<1>2. WaitLineLf(r, c) \in {At(t, "WAIT_NAME_BEGIN"), Begin(t, "name", "WAIT_NAME_END"),
                              AfterHead(t), At(r, "WAIT_NAME_BEGIN"), r}
  BY DEF WaitLineLf
<1> HIDE DEF t
<1>3. Kept("http", r, t) /\ Ready("http", t) /\ t.state # "END"
  BY <1>1 DEF Kept, Ready, Fields, Lie, Urls
<1>4. /\ Plain("http", "WAIT_NAME_BEGIN") /\ Plain("http", "WAIT_NAME_END")
      /\ Plain("http", "WAIT_CONTENT") /\ Plain("http", r.state)
  BY HttpStates
<1>5. /\ Stepped("http", t, Advance(At(t, "WAIT_NAME_BEGIN")), available)
      /\ Stepped("http", t, Advance(Begin(t, "name", "WAIT_NAME_END")), available)
      /\ Stepped("http", t, Advance(AfterHead(t)), available)
  BY <1>3, <1>4, AtStep, BeginStep, AfterHeadStep, HttpStates DEF Named
<1>6. /\ Stepped("http", r, Advance(At(r, "WAIT_NAME_BEGIN")), available)
      /\ Stepped("http", r, Advance(r), available)
  BY <1>4, AtStep, StayStep
<1> QED
  BY <1>2, <1>3, <1>5, <1>6, SteppedFrom

LEMMA WaitNameBeginStep ==
  ASSUME NEW r, Ready("http", r), r.state = "WAIT_NAME_BEGIN", NEW c, NEW available
  PROVE  Stepped("http", r, Advance(WaitNameBegin(r, c)), available)
<1>1. WaitNameBegin(r, c) \in {r, Begin(r, "name", "WAIT_NAME_END"),
                                 At(r, "WAIT_FINAL_LINE_LF"), AfterHead(r), Invalid(r)}
  BY DEF WaitNameBegin
<1>2. /\ Plain("http", "WAIT_NAME_END") /\ Plain("http", "WAIT_FINAL_LINE_LF")
      /\ Plain("http", "WAIT_CONTENT") /\ Plain("http", r.state)
  BY HttpStates
<1> QED
  BY <1>1, <1>2, StayStep, BeginStep, AtStep, AfterHeadStep, InvalidStep, HttpStates DEF Named

LEMMA WaitValueEndStep ==
  ASSUME MAX_REQUEST_SIZE \in Nat, NEW r, Ready("http", r), r.state = "WAIT_VALUE_END",
         NEW s \in Seq(STRING), r.stream_size <= Len(s), NEW c, NEW available
  PROVE  Stepped("http", r, Advance(WaitValueEnd(r, c, s)), available)
<1> DEFINE t == parser_parse_http_name_value(r, s)
<1>1. WaitValueEnd(r, c, s)
        \in {Grow(r, "value"), IF t.failed = "no" THEN LineEnd(t, c) ELSE t, Invalid(r)}
  BY DEF WaitValueEnd
<1>2. t \in {Fail(r, "invalid"), Fail(r, "content")} \/ Kept("http", r, t)
  BY NameValueKeeps
<1> HIDE DEF t
<1>3. CASE t \in {Fail(r, "invalid"), Fail(r, "content")}
  <2>1. t.failed # "no"
    BY <1>3 DEF Fail, Ready, Parsers
  <2>2. Stepped("http", r, Advance(t), available)
    BY <1>3, Refused
  <2> QED BY <1>1, <2>1, <2>2, GrowStep, InvalidStep, HttpStates DEF Named
<1>4. CASE Kept("http", r, t)
  <2>1. Ready("http", t) /\ t.state # "END" /\ t.failed = "no"
    BY <1>4 DEF Kept, Ready
  <2>2. Stepped("http", r, Advance(LineEnd(t, c)), available)
    BY <1>4, <2>1, LineEndStep, SteppedFrom
  <2> QED BY <1>1, <2>1, <2>2, GrowStep, InvalidStep, HttpStates DEF Named
<1> QED
  BY <1>2, <1>3, <1>4

\* Behind the end of a request that is kept alive, the loop ends.
LEMMA EndStep ==
  ASSUME NEW proto, NEW r, Ready(proto, r), r.state = "END", NEW available \in Nat
  PROVE  Stepped(proto, r, Advance([r EXCEPT !.returned = TRUE]), available)
<1> DEFINE t == [r EXCEPT !.returned = TRUE]
<1>1. /\ t \in Parsers /\ t.state = r.state /\ t.stream_size = r.stream_size /\ t.failed = "no"
      /\ t.remaining_content = r.remaining_content /\ t.returned
      /\ t.method = r.method /\ t.resource = r.resource /\ t.protocol = r.protocol
      /\ t.user = r.user /\ t.name = r.name /\ t.value = r.value
  BY DEF Ready, Parsers
<1> HIDE DEF t
<1>2. Advance(t) = t
  BY <1>1 DEF Advance
<1>3. Fields(proto, t)
  BY <1>1 DEF Ready, Fields, Lie
<1> QED
  BY <1>1, <1>2, <1>3 DEF Stepped, Ready, t

LEMMA HttpStep ==
  ASSUME MAX_REQUEST_SIZE \in Nat, NEW r, Ready("http", r), NEW s \in Seq(STRING),
         r.stream_size <= Len(s), NEW c, NEW available \in Nat \ {0}
  PROVE  Stepped("http", r, Advance(parser_parse_http(r, c, s, available)), available)
<1>1. r.state \in StatesOf("http") /\ \A st \in StatesOf("http") : Plain("http", st)
  BY HttpStates DEF Ready
<1> USE HttpStates
<1>2. CASE r.state = "WAIT_METHOD_BEGIN"
  BY <1>1, <1>2, WaitBeginStep DEF parser_parse_http, Named
<1>3. CASE r.state = "WAIT_METHOD_END"
  BY <1>1, <1>3, WaitEndStep DEF parser_parse_http, Named
<1>4. CASE r.state = "WAIT_RESOURCE_BEGIN"
  BY <1>1, <1>4, WaitBeginStep DEF parser_parse_http, Named
<1>5. CASE r.state = "WAIT_RESOURCE_END"
  BY <1>1, <1>5, WaitEndStep DEF parser_parse_http, Named
<1>6. CASE r.state = "WAIT_PROTOCOL_BEGIN"
  BY <1>1, <1>6, WaitBeginStep DEF parser_parse_http, Named
<1>7. CASE r.state = "WAIT_PROTOCOL_END"
  BY <1>1, <1>7, LineEndStep, WaitEndStep DEF parser_parse_http, Named
<1>8. CASE r.state = "WAIT_LINE_CR"
  BY <1>1, <1>8, LineEndStep, StayStep, InvalidStep DEF parser_parse_http
<1>9. CASE r.state = "WAIT_LINE_LF"
  BY <1>9, WaitLineLfStep DEF parser_parse_http
<1>10. CASE r.state = "WAIT_NAME_BEGIN"
  BY <1>10, WaitNameBeginStep DEF parser_parse_http
<1>11. CASE r.state = "WAIT_NAME_END"
  BY <1>1, <1>11, ValueBeginStep, WaitEndStep DEF parser_parse_http, WaitNameEnd, Named
<1>12. CASE r.state = "WAIT_COLON"
  BY <1>1, <1>12, ValueBeginStep, StayStep, InvalidStep DEF parser_parse_http, WaitColon
<1>13. CASE r.state = "WAIT_VALUE_END"
  BY <1>13, WaitValueEndStep DEF parser_parse_http
<1>14. CASE r.state = "WAIT_FINAL_LINE_LF"
  BY <1>1, <1>14, FinalLfStep DEF parser_parse_http
<1>15. CASE r.state = "WAIT_CONTENT"
  BY <1>15, ContentStep DEF parser_parse_http
<1>16. CASE r.state = "END"
  BY <1>16, EndStep, InvalidStep DEF parser_parse_http
<1> QED
  BY <1>1, <1>2, <1>3, <1>4, <1>5, <1>6, <1>7, <1>8, <1>9, <1>10, <1>11, <1>12, <1>13, <1>14,
     <1>15, <1>16

LEMMA AnyStep ==
  ASSUME MAX_REQUEST_SIZE \in Nat, NEW proto \in Protocols, NEW r, Ready(proto, r),
         NEW s \in Seq(STRING), r.stream_size <= Len(s), NEW c, NEW available \in Nat \ {0}
  PROVE  Stepped(proto, r, Advance(Step(proto, r, c, s, available)), available)
<1>1. CASE proto = "http"
  BY <1>1, HttpStep DEF Step
<1>2. CASE proto \in {"gopher", "nex"}
  BY <1>2, GopherStep DEF Step
<1>3. CASE proto = "finger"
  BY <1>3, FingerStep DEF Step
<1>4. CASE proto \in Urls
  BY <1>4, UrlStep DEF Step, Urls
<1>5. CASE proto = "spartan"
  BY <1>5, SpartanStep DEF Step
<1> QED
  BY <1>1, <1>2, <1>3, <1>4, <1>5 DEF Protocols, Urls

------------------------------------------------------------------------------
(* The inductive invariant of parser_parse.                                *)

Least(m, n) == IF m <= n THEN m ELSE n

Arriving ==
  /\ input \in Inputs /\ stream \in Seq(STRING) /\ arrived \in Nat
  /\ Len(stream) <= arrived /\ arrived <= Len(input.text)

Parsing ==
  /\ q \in Parsers
  /\ IF q.state = "BEGIN" THEN q = NewParser /\ part = 0 ELSE q.state \in StatesOf(input.proto)
  /\ q.failed = "no" => Fields(input.proto, q)

\* Between two calls: what is not a whole request is all that has arrived.
Outside ==
  /\ parts = <<0, 0>> /\ pos = 0
  /\ q.failed = "no" =>
       /\ ~q.returned /\ q.stream_size <= Len(stream) /\ q.stream_size <= MAX_REQUEST_SIZE
       /\ q.state \notin {"BEGIN", "END"} => q.stream_size = Len(stream)

\* In a call: what is counted is what was gone through, up to the end of the
\* request; a bulk of content may reach the end of the part.
Inside ==
  /\ parts[2] = Least(Len(stream), MAX_REQUEST_SIZE) /\ parts[1] <= parts[2]
  /\ pos <= parts[part] /\ (part = 2 => parts[1] <= pos)
  /\ q.failed = "no" /\ ~q.returned =>
       q.stream_size = pos \/ (q.state = "END" /\ q.stream_size <= pos)
  /\ q.failed = "no" /\ q.returned =>
       q.stream_size <= parts[part] /\ (q.state # "END" => q.stream_size = parts[part])

PInv ==
  /\ Arriving /\ Parsing
  /\ part \in 0 .. 2 /\ parts \in Nat \X Nat /\ pos \in Nat
  /\ part = 0 => Outside
  /\ part # 0 => Inside

LEMMA LimitIsLeast ==
  ASSUME MAX_REQUEST_SIZE \in Nat, NEW s, Len(s) \in Nat
  PROVE  Limit(s) = Least(Len(s), MAX_REQUEST_SIZE)
<1> DEFINE n == Len(s)
<1>1. Limit(s) = Min({n, MAX_REQUEST_SIZE})
  BY DEF Limit
<1> HIDE DEF n
<1>2. \E x \in {n, MAX_REQUEST_SIZE} : \A y \in {n, MAX_REQUEST_SIZE} : x <= y
  BY DEF n
<1>3. /\ Min({n, MAX_REQUEST_SIZE}) \in {n, MAX_REQUEST_SIZE}
      /\ \A y \in {n, MAX_REQUEST_SIZE} : Min({n, MAX_REQUEST_SIZE}) <= y
  BY <1>2 DEF Min
<1>4. n \in Nat
  BY DEF n
<1>5. Min({n, MAX_REQUEST_SIZE}) = Least(n, MAX_REQUEST_SIZE)
  BY <1>3, <1>4 DEF Least
<1> QED
  BY <1>1, <1>5 DEF n

LEMMA NewIsParser ==
  ASSUME MAX_REQUEST_SIZE \in Nat, NEW proto
  PROVE  NewParser \in Parsers /\ Fields(proto, NewParser)
<1>1. Loc(0, 0) \in Locs /\ End(Loc(0, 0)) = 0 /\ Loc(0, 0).size = 0
  BY DEF Loc, Locs, End
<1>2. NewParser \in Parsers
  BY <1>1 DEF NewParser, Parsers, States
<1> QED
  BY <1>1, <1>2 DEF Fields, Lie, NewParser

LEMMA FirstIsState ==
  ASSUME NEW proto \in Protocols
  PROVE  /\ FirstState(proto) \in StatesOf(proto) \cap States
         /\ FirstState(proto) \notin {"BEGIN", "END"}
         /\ proto = "finger" => FirstState(proto) = "WAIT_METHOD_BEGIN"
<1>1. CASE proto = "http"
  BY <1>1 DEF FirstState, StatesOf, States, Urls
<1>2. CASE proto \in {"gopher", "nex"}
  BY <1>2 DEF FirstState, StatesOf, States, Urls
<1>3. CASE proto = "finger"
  BY <1>3 DEF FirstState, StatesOf, States, Urls
<1>4. CASE proto \in Urls
  BY <1>4 DEF FirstState, StatesOf, States, Urls
<1>5. CASE proto = "spartan"
  BY <1>5 DEF FirstState, StatesOf, States, Urls
<1> QED
  BY <1>1, <1>2, <1>3, <1>4, <1>5 DEF Protocols, Urls

LEMMA FirstParser ==
  ASSUME MAX_REQUEST_SIZE \in Nat, NEW proto \in Protocols
  PROVE  LET r == At(NewParser, FirstState(proto))
         IN /\ r \in Parsers /\ r.state = FirstState(proto) /\ r.failed = "no" /\ ~r.returned
            /\ r.stream_size = 0 /\ Fields(proto, r)
<1> DEFINE r == At(NewParser, FirstState(proto))
<1>1. Loc(0, 0) \in Locs /\ End(Loc(0, 0)) = 0 /\ Loc(0, 0).size = 0
  BY DEF Loc, Locs, End
<1>2. FirstState(proto) \in States /\ (proto = "finger" => FirstState(proto) = "WAIT_METHOD_BEGIN")
  BY FirstIsState
<1>3. /\ r \in Parsers /\ r.state = FirstState(proto) /\ r.failed = "no" /\ ~r.returned
      /\ r.stream_size = 0 /\ r.remaining_content = 0
      /\ r.method = Loc(0, 0) /\ r.resource = Loc(0, 0) /\ r.protocol = Loc(0, 0)
      /\ r.user = Loc(0, 0) /\ r.name = Loc(0, 0) /\ r.value = Loc(0, 0)
  <2> DEFINE new == NewParser
  <2>1. /\ new \in Parsers /\ new.failed = "no" /\ ~new.returned
        /\ new.stream_size = 0 /\ new.remaining_content = 0
        /\ new.method = Loc(0, 0) /\ new.resource = Loc(0, 0) /\ new.protocol = Loc(0, 0)
        /\ new.user = Loc(0, 0) /\ new.name = Loc(0, 0) /\ new.value = Loc(0, 0)
    BY NewIsParser DEF NewParser
  <2> HIDE DEF new
  <2>2. r = [new EXCEPT !.state = FirstState(proto)]
    BY DEF At, new
  <2> HIDE DEF r
  <2> QED BY <1>2, <2>1, <2>2 DEF Parsers
<1> HIDE DEF r
<1>4. Fields(proto, r)
  BY <1>1, <1>2, <1>3 DEF Fields, Lie, Urls
<1> QED
  BY <1>3, <1>4 DEF r

LEMMA ParserInit == ASSUME ParserAssumption PROVE Init => PInv
<1> SUFFICES ASSUME Init PROVE PInv
  OBVIOUS
<1>1. /\ MAX_REQUEST_SIZE \in Nat /\ input \in Inputs /\ input.text \in Seq(STRING)
      /\ Len(input.text) \in Nat
  BY DEF ParserAssumption, Init
<1>2. NewParser \in Parsers /\ Fields(input.proto, NewParser)
  BY <1>1, NewIsParser
<1>3. /\ NewParser.state = "BEGIN" /\ NewParser.stream_size = 0 /\ ~NewParser.returned
  BY DEF NewParser
<1> QED
  BY <1>1, <1>2, <1>3 DEF Init, PInv, Arriving, Parsing, Outside

LEMMA ReadStep ==
  ASSUME ParserAssumption, PInv, NEW n \in Reads, NEW seam \in 0 .. MAX_REQUEST_STREAM_SIZE,
         Read(n, seam)
  PROVE  PInv'
<1> DEFINE s == stream \o SubSeq(input.text, arrived + 1, arrived + n)
<1>1. /\ MAX_REQUEST_SIZE \in Nat /\ input \in Inputs /\ input.text \in Seq(STRING)
      /\ input.proto \in Protocols /\ Len(input.text) \in Nat /\ Len(stream) \in Nat
      /\ arrived \in Nat /\ stream \in Seq(STRING) /\ Len(stream) <= arrived
      /\ q.stream_size \in Nat
  BY DEF ParserAssumption, PInv, Arriving, Parsing, Parsers
<1>2. n \in Nat /\ arrived + n <= Len(input.text)
  BY <1>1 DEF Reads
<1>3. s \in Seq(STRING) /\ Len(s) = Len(stream) + n
  <2>1. arrived + 1 \in 1 .. Len(input.text) + 1 /\ arrived + n \in 0 .. Len(input.text)
    BY <1>1, <1>2
  <2>2. /\ SubSeq(input.text, arrived + 1, arrived + n) \in Seq(STRING)
        /\ Len(SubSeq(input.text, arrived + 1, arrived + n)) = n
    <3>1. CASE n = 0
      BY <1>1, <2>1, <3>1
    <3>2. CASE n # 0
      BY <1>1, <1>2, <2>1, <3>2
    <3> QED BY <3>1, <3>2
  <2> HIDE DEF Reads
  <2> QED BY <1>1, <2>2
<1>4. /\ part = 0 /\ q.failed = "no" /\ q.state # "END" /\ Len(s) > q.stream_size
      /\ seam \in q.stream_size .. Limit(s)
      /\ stream' = s /\ arrived' = arrived + n /\ part' = 1 /\ parts' = <<seam, Limit(s)>>
      /\ pos' = q.stream_size /\ input' = input
      /\ q' = IF q.state = "BEGIN" THEN At(q, FirstState(input.proto)) ELSE q
  BY DEF Read
<1> HIDE DEF s
<1>5. Limit(s) = Least(Len(s), MAX_REQUEST_SIZE) /\ Limit(s) \in Nat
  <2>1. Len(s) \in Nat
    BY <1>1, <1>2, <1>3
  <2> QED BY <1>1, <2>1, LimitIsLeast DEF Least
<1>6. Arriving'
  BY <1>1, <1>2, <1>3, <1>4 DEF Arriving
<1>7. /\ q' \in Parsers /\ q'.state \in StatesOf(input.proto) /\ q'.state \notin {"BEGIN", "END"}
      /\ q'.failed = "no" /\ ~q'.returned /\ q'.stream_size = q.stream_size /\ Fields(input.proto, q')
  <2>1. CASE q.state = "BEGIN"
    <3>1. q = NewParser /\ q.stream_size = 0
      BY <2>1 DEF PInv, Parsing, NewParser
    <3> QED BY <1>1, <1>4, <2>1, <3>1, FirstParser, FirstIsState
  <2>2. CASE q.state # "BEGIN"
    BY <1>4, <2>2 DEF PInv, Parsing, Outside
  <2> QED BY <2>1, <2>2
<1>8. Parsing'
  BY <1>4, <1>7 DEF Parsing, Fields
<1>9. Inside'
  BY <1>1, <1>4, <1>5, <1>7 DEF Inside
<1> QED
  BY <1>1, <1>4, <1>5, <1>6, <1>8, <1>9 DEF PInv

LEMMA CharacterStep ==
  ASSUME ParserAssumption, PInv, Character
  PROVE  PInv'
<1> DEFINE available == parts[part] - pos
           c == stream[pos + 1]
<1>1. /\ MAX_REQUEST_SIZE \in Nat /\ input \in Inputs /\ input.proto \in Protocols
      /\ stream \in Seq(STRING) /\ Len(stream) \in Nat /\ q \in Parsers /\ q.stream_size \in Nat
  BY DEF ParserAssumption, PInv, Arriving, Parsing, Parsers
<1>2. /\ part \in 1 .. 2 /\ q.failed = "no" /\ ~q.returned /\ pos < parts[part] /\ pos' = pos + 1
      /\ q' = Advance(Step(input.proto, q, c, stream, available))
      /\ input' = input /\ arrived' = arrived /\ stream' = stream /\ part' = part /\ parts' = parts
  BY DEF Character, InPart, PInv
<1>3. /\ parts \in Nat \X Nat /\ parts[part] \in Nat /\ pos \in Nat /\ Inside
      /\ parts[part] <= parts[2] /\ parts[2] <= Len(stream)
  BY <1>1, <1>2 DEF PInv, Inside, Least
<1>4. available \in Nat \ {0}
  BY <1>2, <1>3
<1>5. q.stream_size = pos \/ (q.state = "END" /\ q.stream_size <= pos)
  BY <1>2, <1>3 DEF Inside
<1>6. Ready(input.proto, q) /\ q.stream_size <= Len(stream)
  BY <1>1, <1>2, <1>3, <1>5 DEF PInv, Parsing, Ready
<1> HIDE DEF c, available
<1>7. Stepped(input.proto, q, q', available)
  BY <1>1, <1>2, <1>4, <1>6, AnyStep
<1>8. available = parts[part] - pos
  BY DEF available
<1>9. q' \in Parsers /\ q'.stream_size \in Nat
  BY <1>7 DEF Stepped, Parsers
<1>10. "BEGIN" \notin StatesOf(input.proto)
  <2>1. CASE input.proto = "http"
    BY <2>1 DEF StatesOf, Urls
  <2>2. CASE input.proto \in {"gopher", "nex"}
    BY <2>2 DEF StatesOf, Urls
  <2>3. CASE input.proto = "finger"
    BY <2>3 DEF StatesOf, Urls
  <2>4. CASE input.proto \in Urls
    BY <2>4 DEF StatesOf, Urls
  <2>5. CASE input.proto = "spartan"
    BY <2>5 DEF StatesOf, Urls
  <2> QED BY <1>1, <2>1, <2>2, <2>3, <2>4, <2>5 DEF Protocols, Urls
<1>11. Parsing'
  BY <1>2, <1>7, <1>9, <1>10 DEF Parsing, Stepped, Fields
<1>12. Inside'
  <2>1. /\ parts'[2] = Least(Len(stream'), MAX_REQUEST_SIZE) /\ parts'[1] <= parts'[2]
        /\ pos' <= parts'[part'] /\ (part' = 2 => parts'[1] <= pos')
    BY <1>2, <1>3 DEF Inside
  <2>2. ASSUME q'.failed = "no", ~q'.returned PROVE q'.stream_size = pos'
    BY <1>2, <1>5, <1>7, <2>2 DEF Stepped
  <2>3. ASSUME q'.failed = "no", q'.returned
        PROVE  q'.stream_size <= parts[part] /\ (q'.state # "END" => q'.stream_size = parts[part])
    <3> DEFINE end == parts[part]
    <3>1. /\ q.state = "END" => q'.state = "END" /\ q'.stream_size = q.stream_size
          /\ q.state # "END" => /\ q'.stream_size \in q.stream_size .. q.stream_size + available
                                /\ q'.state # "END" => q'.stream_size = q.stream_size + available
      BY <1>1, <1>7, <2>3 DEF Stepped
    <3>2. pos \in Nat /\ end \in Nat /\ pos < end /\ available = end - pos
      BY <1>2, <1>3, <1>8
    <3>3. q.state # "END" => q.stream_size = pos
      BY <1>5
    <3> HIDE DEF end
    <3>4. q'.stream_size <= end /\ (q'.state # "END" => q'.stream_size = end)
      <4>1. CASE q.state = "END"
        BY <1>1, <1>5, <3>1, <3>2, <4>1
      <4>2. CASE q.state # "END"
        <5>1. q.stream_size + available = end
          BY <3>2, <3>3, <4>2
        <5>2. q'.stream_size \in q.stream_size .. end /\ (q'.state # "END" => q'.stream_size = end)
          BY <3>1, <4>2, <5>1
        <5> QED BY <1>1, <1>9, <3>2, <5>2
      <4> QED BY <4>1, <4>2
    <3> QED BY <3>4 DEF end
  <2> QED BY <1>2, <2>1, <2>2, <2>3 DEF Inside
<1>13. Arriving'
  BY <1>2 DEF PInv, Arriving
<1> QED
  BY <1>2, <1>3, <1>11, <1>12, <1>13 DEF PInv

LEMMA Unreturned ==
  ASSUME NEW proto, NEW r \in Parsers
  PROVE  LET u == [r EXCEPT !.returned = FALSE]
         IN /\ u \in Parsers /\ ~u.returned /\ u.state = r.state /\ u.failed = r.failed
            /\ u.stream_size = r.stream_size /\ (Fields(proto, r) => Fields(proto, u))
<1> DEFINE u == [r EXCEPT !.returned = FALSE]
<1>1. /\ u \in Parsers /\ ~u.returned /\ u.state = r.state /\ u.failed = r.failed
      /\ u.stream_size = r.stream_size /\ u.remaining_content = r.remaining_content
      /\ u.method = r.method /\ u.resource = r.resource /\ u.protocol = r.protocol
      /\ u.user = r.user /\ u.name = r.name /\ u.value = r.value
  BY DEF Parsers
<1> HIDE DEF u
<1>2. Fields(proto, r) => Fields(proto, u)
  BY <1>1 DEF Fields, Lie
<1> QED
  BY <1>1, <1>2 DEF u

LEMMA NextPartStep ==
  ASSUME ParserAssumption, PInv, NextPart
  PROVE  PInv'
<1>1. /\ part = 1 /\ q.failed = "no" /\ (q.returned \/ ~(pos < parts[1]))
      /\ part' = 2 /\ pos' = parts[1] /\ q' = [q EXCEPT !.returned = FALSE]
      /\ input' = input /\ arrived' = arrived /\ stream' = stream /\ parts' = parts
  BY DEF NextPart, InPart
<1>2. q \in Parsers /\ Fields(input.proto, q) /\ q.state \in StatesOf(input.proto) /\ q.state # "BEGIN"
  BY <1>1 DEF PInv, Parsing
<1>3. /\ q' \in Parsers /\ ~q'.returned /\ q'.state = q.state /\ q'.failed = q.failed
      /\ q'.stream_size = q.stream_size /\ Fields(input.proto, q')
  BY <1>1, <1>2, Unreturned
<1>4. Parsing'
  BY <1>1, <1>2, <1>3 DEF Parsing, Fields
<1>5. q.stream_size \in Nat /\ parts[1] \in Nat /\ parts[2] \in Nat /\ pos \in Nat /\ Inside
  BY <1>1, <1>2 DEF PInv, Parsers
<1>6. q.stream_size = parts[1] \/ (q.state = "END" /\ q.stream_size <= parts[1])
  BY <1>1, <1>5 DEF Inside
<1>7. Inside'
  BY <1>1, <1>3, <1>5, <1>6 DEF Inside
<1>8. Arriving'
  BY <1>1 DEF PInv, Arriving
<1> QED
  BY <1>1, <1>4, <1>5, <1>7, <1>8 DEF PInv

LEMMA ParsedStep ==
  ASSUME ParserAssumption, PInv, Parsed
  PROVE  PInv'
<1>1. /\ part \in 1 .. 2 /\ (part = 2 \/ q.failed # "no")
      /\ q.failed # "no" \/ q.returned \/ ~(pos < parts[part])
      /\ part' = 0 /\ pos' = 0 /\ parts' = <<0, 0>>
      /\ q' = IF q.failed = "no" /\ Len(stream) >= MAX_REQUEST_SIZE /\ q.state # "END"
              THEN Fail(q, "header") ELSE [q EXCEPT !.returned = FALSE]
      /\ input' = input /\ arrived' = arrived /\ stream' = stream
  BY DEF Parsed, InPart, PInv
<1>2. /\ q \in Parsers /\ q.state \in StatesOf(input.proto) /\ q.state # "BEGIN"
      /\ q.failed = "no" => Fields(input.proto, q)
  BY <1>1 DEF PInv, Parsing
<1>3. Arriving'
  BY <1>1 DEF PInv, Arriving
<1>4. CASE q.failed = "no" /\ Len(stream) >= MAX_REQUEST_SIZE /\ q.state # "END"
  <2>1. q' \in Parsers /\ q'.state = q.state /\ q'.failed = "header"
    BY <1>1, <1>2, <1>4 DEF Fail, Parsers
  <2> QED BY <1>1, <1>2, <1>3, <2>1 DEF PInv, Parsing, Outside
<1>5. CASE ~(q.failed = "no" /\ Len(stream) >= MAX_REQUEST_SIZE /\ q.state # "END")
  <2>1. q' = [q EXCEPT !.returned = FALSE]
    BY <1>1, <1>5
  <2>2. /\ q' \in Parsers /\ ~q'.returned /\ q'.state = q.state /\ q'.failed = q.failed
        /\ q'.stream_size = q.stream_size /\ (q.failed = "no" => Fields(input.proto, q'))
    BY <1>2, <2>1, Unreturned
  <2>3. /\ q.stream_size \in Nat /\ parts[1] \in Nat /\ parts[2] \in Nat /\ pos \in Nat /\ Inside
        /\ Len(stream) \in Nat /\ MAX_REQUEST_SIZE \in Nat
    BY <1>1, <1>2 DEF PInv, Parsers, Arriving, ParserAssumption
  <2>4. ASSUME q.failed = "no"
        PROVE  /\ q.stream_size <= Len(stream) /\ q.stream_size <= MAX_REQUEST_SIZE
               /\ q.state # "END" => q.stream_size = Len(stream)
    <3>1. q.stream_size <= parts[2] /\ (q.state # "END" => q.stream_size = parts[2])
      BY <1>1, <2>3, <2>4 DEF Inside
    <3>2. parts[2] = Least(Len(stream), MAX_REQUEST_SIZE)
      BY <2>3 DEF Inside
    <3> QED BY <1>5, <2>3, <2>4, <3>1, <3>2 DEF Least
  <2>5. Outside'
    BY <1>1, <2>2, <2>4 DEF Outside
  <2>6. Parsing'
    BY <1>1, <1>2, <2>2 DEF Parsing, Fields
  <2> QED BY <1>1, <1>3, <2>5, <2>6 DEF PInv
<1> QED
  BY <1>4, <1>5

LEMMA ProcessStep ==
  ASSUME ParserAssumption, PInv, Process
  PROVE  PInv'
<1>1. /\ part = 0 /\ q.state = "END" /\ q.failed = "no"
      /\ stream' = SubSeq(stream, q.stream_size + 1, Len(stream))
      /\ q' = IF q.keep_alive THEN NewParser ELSE Fail(q, "closed")
      /\ input' = input /\ arrived' = arrived /\ part' = part /\ parts' = parts /\ pos' = pos
  BY DEF Process
<1>2. /\ MAX_REQUEST_SIZE \in Nat /\ q \in Parsers /\ q.stream_size \in Nat /\ stream \in Seq(STRING)
      /\ q.state \in StatesOf(input.proto) /\ q.stream_size <= Len(stream) /\ arrived \in Nat
      /\ Len(stream) \in Nat /\ Len(stream) <= arrived /\ Outside
  BY <1>1 DEF PInv, Parsing, Parsers, Arriving, Outside, ParserAssumption
<1>3. stream' \in Seq(STRING) /\ Len(stream') = Len(stream) - q.stream_size
  <2> DEFINE a == q.stream_size + 1
  <2>1. a \in 1 .. Len(stream) + 1 /\ a - 1 = q.stream_size
    BY <1>2
  <2>2. SubSeq(stream, a, Len(stream)) \in Seq(STRING)
        /\ Len(SubSeq(stream, a, Len(stream))) = Len(stream) - (a - 1)
    <3> HIDE DEF a
    <3>1. CASE a = Len(stream) + 1
      BY <1>2, <2>1, <3>1
    <3>2. CASE a # Len(stream) + 1
      BY <1>2, <2>1, <3>2
    <3> QED BY <3>1, <3>2
  <2> QED BY <1>1, <2>1, <2>2
<1>4. Arriving'
  BY <1>1, <1>2, <1>3 DEF PInv, Arriving
<1>5. CASE q.keep_alive
  <2>1. /\ q' = NewParser /\ q' \in Parsers /\ q'.state = "BEGIN" /\ q'.stream_size = 0 /\ ~q'.returned
        /\ Fields(input.proto, q')
    BY <1>1, <1>2, <1>5, NewIsParser DEF NewParser
  <2>2. Parsing'
    BY <1>1, <2>1 DEF Parsing, Fields
  <2>3. Outside'
    BY <1>1, <1>2, <1>3, <2>1 DEF Outside
  <2> QED BY <1>1, <1>4, <2>2, <2>3 DEF PInv
<1>6. CASE ~q.keep_alive
  <2>1. q' \in Parsers /\ q'.state = q.state /\ q'.failed = "closed"
    BY <1>1, <1>2, <1>6 DEF Fail, Parsers
  <2> QED BY <1>1, <1>2, <1>4, <2>1 DEF PInv, Parsing, Outside
<1> QED
  BY <1>5, <1>6

LEMMA ParserNext == ASSUME ParserAssumption, PInv, [Next]_vars PROVE PInv'
<1>1. ASSUME NEW n \in Reads, NEW seam \in 0 .. MAX_REQUEST_STREAM_SIZE, Read(n, seam) PROVE PInv'
  BY <1>1, ReadStep
<1>2. CASE Character
  BY <1>2, CharacterStep
<1>3. CASE NextPart
  BY <1>3, NextPartStep
<1>4. CASE Parsed
  BY <1>4, ParsedStep
<1>5. CASE Process
  BY <1>5, ProcessStep
<1>6. CASE Quiet \/ UNCHANGED vars
  BY <1>6 DEF Quiet, vars, PInv, Arriving, Parsing, Outside, Inside
<1> QED BY <1>1, <1>2, <1>3, <1>4, <1>5, <1>6 DEF Next

LEMMA ParserInvariant == ASSUME ParserAssumption PROVE Spec => []PInv
<1>1. Init => PInv
  BY ParserInit
<1>2. PInv /\ [Next]_vars => PInv'
  BY ParserNext
<1> QED
  BY <1>1, <1>2, PTL DEF Spec

LEMMA ParserTypes == ASSUME ParserAssumption, PInv PROVE TypeOK
<1>1. /\ arrived \in 0 .. Len(input.text) /\ Len(stream) <= arrived /\ Len(stream) \in Nat
      /\ MAX_REQUEST_SIZE \in Nat
  BY DEF PInv, Arriving, ParserAssumption
<1>2. /\ q \in Parsers /\ DOMAIN q = DOMAIN NewParser
  BY DEF PInv, Parsing, Parsers, NewParser
<1>3. q.failed \in {"no", "invalid", "content", "header", "closed"} /\ q.remaining_content \in 0 .. MAX_REQUEST_SIZE
  BY <1>2 DEF Parsers
<1>4. part \in 0 .. 2 /\ pos <= parts[2] /\ parts[1] <= parts[2] /\ parts[2] <= Len(stream)
  <2>1. CASE part = 0
    BY <1>1, <2>1 DEF PInv, Outside
  <2>2. CASE part # 0
    BY <1>1, <2>2 DEF PInv, Inside, Least
  <2> QED BY <2>1, <2>2 DEF PInv
<1> QED BY <1>1, <1>2, <1>3, <1>4 DEF TypeOK

LEMMA ParserSafe == ASSUME PInv PROVE Consumes /\ RequestInside /\ FieldsInside
<1>1. Consumes
  BY DEF PInv, Outside, Consumes
<1>2. RequestInside
  BY DEF PInv, Outside, RequestInside
<1>3. FieldsInside
  <2> SUFFICES ASSUME part = 0, q.state = "END", q.failed = "no",
                      NEW f \in {"method", "resource", "protocol", "user"}
               PROVE  q[f].offset + q[f].size <= q.stream_size
    BY DEF FieldsInside
  <2>1. Fields(input.proto, q) /\ q.stream_size \in Nat
    BY DEF PInv, Parsing, Parsers
  <2>2. /\ End(q.method) \in Nat /\ End(q.resource) \in Nat /\ End(q.protocol) \in Nat
        /\ End(q.user) \in Nat
    BY EndOf DEF PInv, Parsing, Parsers
  <2>3. End(q[f]) <= q.stream_size
    BY <2>1, <2>2 DEF Fields, Lie
  <2> QED BY <2>3 DEF End
<1> QED BY <1>1, <1>2, <1>3

(* No field, position or size of a parser leaves its range, and what is    *)
(* parsed has arrived, whatever a peer sends.                              *)
THEOREM ParserTypeOK == ASSUME ParserAssumption PROVE Spec => []TypeOK
  BY ParserInvariant, ParserTypes, PTL

(* Parsing stops only when everything that arrived is consumed or the      *)
(* request is complete, however the ring wraps: no visit of a client       *)
(* parses the same bytes for ever (get_makes_sense_to_parse).              *)
THEOREM ParserConsumes == ASSUME ParserAssumption PROVE Spec => []Consumes
  BY ParserInvariant, ParserSafe, PTL

(* Whatever a peer sends, in whatever pieces, a complete request lies in   *)
(* what arrived and in the limit of a request: server_process_traffic pops *)
(* no more than there is.                                                  *)
THEOREM ParserRequestInside == ASSUME ParserAssumption PROVE Spec => []RequestInside
  BY ParserInvariant, ParserSafe, PTL

(* Whatever a peer sends, the method, resource, protocol and user agent of *)
(* a complete request lie in it: the ring_get of the processors succeeds.  *)
THEOREM ParserFieldsInside == ASSUME ParserAssumption PROVE Spec => []FieldsInside
  BY ParserInvariant, ParserSafe, PTL
=============================================================================
