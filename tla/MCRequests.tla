----------------------------- MODULE MCRequests -----------------------------
(* What peers send to module Requests.  Of a well-formed input it is said  *)
(* what the parsers have to find in it.                                    *)
EXTENDS Requests, SequencesExt

(* Requests of every protocol, and the same with one character replaced or *)
(* added.                                                                  *)
At(offset, size) == [offset |-> offset, size |-> size]
Asked(size, method, resource, content) ==
  [size |-> size, method |-> method, resource |-> resource, content |-> content]
Eols == {<<"cr", "lf">>, <<"lf">>, <<"cr">>}

In(proto, requests, texts) ==
  [proto |-> proto, text |-> FlattenSeq(texts), requests |-> requests]
Single(proto, chars, method, resource, content) ==
  In(proto, <<Asked(Len(chars), method, resource, content)>>, <<chars>>)

(* HTTP: some of the headers, and the content they promise. *)
Headers == {<<>>, <<<<"U", ":", "1">>>>, <<<<"N", " ", ":">>, <<"L", ":", " ", "2">>>>,
            <<<<"L", ":", "0">>>>}
Promises(h) == h[1] = "L" /\ Last(h) = "2"
ContentOf(headers) == IF \E i \in DOMAIN headers : Promises(headers[i]) THEN <<"lf", "cr">> ELSE <<>>
HttpText(eol, headers) ==
  <<"T", " ", "/", "T", " ", "T">> \o eol
  \o FlattenSeq([i \in DOMAIN headers |-> headers[i] \o eol]) \o eol \o ContentOf(headers)
HttpRequest(eol, headers) ==
  Asked(Len(HttpText(eol, headers)), At(0, 1), At(2, 2), Len(ContentOf(headers)))
Kept(headers) == <<<<"C", ":", "1", ",", " ", "K">>>> \o headers

HttpPair(e, h, g) ==
  In("http", <<HttpRequest(e, Kept(h)), HttpRequest(e, g)>>, <<HttpText(e, Kept(h)), HttpText(e, g)>>)
HttpPairs(eols) ==
  {HttpPair(e, h, g) : e \in eols, h \in {<<>>, <<<<"U", ":", "1">>>>}, g \in Headers}
HttpContents(eols) == {HttpPair(e, <<<<"L", ":", "2">>>>, <<>>) : e \in eols}
HttpSingles(eols) == {In("http", <<HttpRequest(e, h)>>, <<HttpText(e, h)>>) : e \in eols, h \in Headers}

(* The others. *)
Line(eol) == <<"T", "1">> \o eol
Scheme == [gemini |-> "g", guppy |-> "u", text |-> "t"]
UrlText(proto, eol) == <<Scheme[proto], ":", "/">> \o <<"T", ":", "1", "/", "T">> \o eol
SpartanText(n, eol) == <<"T", " ", "/", "T", " ", n>> \o eol \o (IF n = "0" THEN <<>> ELSE <<"lf", "T">>)
LineEnds == {<<"cr", "lf">>, <<"lf">>}

Others ==
  {Single(p, Line(e), At(0, 0), At(0, 2), 0) : p \in {"gopher", "nex", "finger"}, e \in LineEnds}
  \union {Single("finger", <<"/", "W">> \o e, At(0, 2), At(0, 0), 0) : e \in LineEnds}
  \union {Single("finger", <<"/", "W", " ">> \o Line(e), At(0, 2), At(3, 2), 0) : e \in LineEnds}
  \union {Single(p, UrlText(p, e), At(3, 3), At(6, 2), 0) : p \in {"gemini", "guppy", "text"}, e \in LineEnds}
  \union {Single("spartan", SpartanText(n, e), At(0, 1), At(2, 2), IF n = "0" THEN 0 ELSE 2) :
            n \in {"0", "2"}, e \in LineEnds}

WellFormedInputs ==
  HttpPairs(Eols) \union HttpContents(LineEnds) \union HttpSingles(Eols) \union Others

(* Any character in the place of any one of a well-formed input. *)
Disturbances == {"T", "/", ":", "2", " ", "tab", "cr", "lf", "bad"}
Damaged(ins) ==
  UNION {{[in EXCEPT !.text = [@ EXCEPT ![i] = c], !.requests = <<>>] :
            i \in DOMAIN in.text, c \in Disturbances} : in \in ins}
DisturbedInputs ==
  Damaged(HttpSingles({<<"cr", "lf">>}) \union Others)
  \union Damaged({in \in HttpPairs({<<"lf">>}) : Len(in.text) = 27})
  \union {[in EXCEPT !.text = @ \o <<c>>, !.requests = <<>>] :
            in \in HttpSingles(Eols) \union Others, c \in {"T", "lf"}}

-----------------------------------------------------------------------------
(* Headers of up to three elements: both languages with all kinds of       *)
(* weights, languages the site does not have, and malformed elements.      *)
Ok(t, l, w) == [text |-> t, language |-> l, q |-> w, valid |-> TRUE]
Malformed(t) == [text |-> t, language |-> None, q |-> 0, valid |-> FALSE]

LanguageElements == {
  Ok(<<"e", "n">>, "e", 1000),
  Ok(<<"d", "e", " ">>, "d", 1000),
  Ok(<<"d", "e", ";", "q", "=", "0", ".", "8">>, "d", 800),
  Ok(<<"E", "n", ";", " ", "q", " ", "=", "0", ".", "8", "5">>, "e", 850),
  Ok(<<"d", "e", ";", "q", "=", "0">>, "d", 0),
  Ok(<<"d", "e", ";", "q", "=", "1", "7">>, "d", 1000),
  Ok(<<"e", "n", ";", "q", "=", ".", "0", "0", "9", "5">>, "e", 9),
  Ok(<<"e", "n", "-", "U", "U">>, None, 1000),
  Ok(<<"d", "e", "n", ";", "q", "=", "1">>, None, 1000),
  Ok(<<"e", ";", "q", "=", "0", ".", "9">>, None, 900),
  Ok(<<"*", ";", "q", "=", "0", ".", "5">>, None, 500),
  Malformed(<<"d", "e", ";", "n">>),
  Malformed(<<"d", "1">>) }

Words == {"/", "?", "#", "lang=", "en", "de", "english", "about", "robots.txt"}

(* Requests that fit, and anything, some of it too long; both cut anywhere. *)
ProperRequests ==
  [Inputs |-> WellFormedInputs, MAX_REQUEST_SIZE |-> 40, MAX_REQUEST_STREAM_SIZE |-> 48, MaxRead |-> 3]
DisturbedRequests ==
  [Inputs |-> DisturbedInputs, MAX_REQUEST_SIZE |-> 20, MAX_REQUEST_STREAM_SIZE |-> 24, MaxRead |-> 3]

Characters == {"K", "a", ",", " ", "9", "1"}
Browsers == {"HTTP", "HTTPS", "Gopher", "Finger", "Gemini", "Spartan", "Nex", "Text", "Guppy"}
Typed == SeqOf(Words, 3)
=============================================================================
