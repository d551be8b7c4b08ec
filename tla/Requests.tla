------------------------------ MODULE Requests ------------------------------
(* From the records and bytes of a request to its page: TLS (module Tls),  *)
(* the parsers (with well-formed and with disturbed input), the loops over *)
(* two headers and the pages.  They share no state, so every behaviour is  *)
(* one of one of them.  The variable machine tells of which; the variables *)
(* of the others are Off, and those of Tls stay as they are in the         *)
(* beginning.                                                              *)
EXTENDS Tls

CONSTANTS
  None, Off,
  Proper, Disturbed,       \* two sets of Parser's constants
  Alphabet, UINT_MAX, MaxValue,               \* of Values
  HeaderElements, MaxElements, MAX_LANGUAGE_SIZE, \* of Language
  SiteProtocols, TypedResources               \* of Site

VARIABLES
  machine,
  input, arrived, stream, part, parts, recognised,        \* Parser
  value, current_value, step, keep_alive,                 \* Values
  text, language, language_size, decimals, best,          \* Language
  q, pos,                                                 \* Parser and Language
  header,                                                 \* Values and Language
  state,                                                  \* Language and Site
  request, context, page, script, one, two, open, links, gap,
  announced, response, goal                               \* Site

ofParser == <<input, arrived, stream, part, parts, recognised>>
ofValues == <<value, current_value, step, keep_alive>>
ofLanguage == <<text, language, language_size, decimals, best>>
ofSite == <<request, context, page, script, one, two, open, links, gap, announced, response, goal>>
requestVars == <<machine, vars, ofParser, ofValues, ofLanguage, q, pos, header, state, ofSite>>

ParserOff ==
  /\ input = Off /\ arrived = Off /\ stream = Off /\ part = Off /\ parts = Off /\ recognised = Off
ValuesOff == value = Off /\ current_value = Off /\ step = Off /\ keep_alive = Off
LanguageOff == text = Off /\ language = Off /\ language_size = Off /\ decimals = Off /\ best = Off
SiteOff ==
  /\ request = Off /\ context = Off /\ page = Off /\ script = Off /\ one = Off /\ two = Off /\ open = Off
  /\ links = Off /\ gap = Off /\ announced = Off /\ response = Off /\ goal = Off

P == INSTANCE Parser WITH
  done <- recognised,
  Inputs <- Proper.Inputs, MAX_REQUEST_SIZE <- Proper.MAX_REQUEST_SIZE,
  MAX_REQUEST_STREAM_SIZE <- Proper.MAX_REQUEST_STREAM_SIZE, MaxRead <- Proper.MaxRead
D == INSTANCE Parser WITH
  done <- recognised,
  Inputs <- Disturbed.Inputs, MAX_REQUEST_SIZE <- Disturbed.MAX_REQUEST_SIZE,
  MAX_REQUEST_STREAM_SIZE <- Disturbed.MAX_REQUEST_STREAM_SIZE, MaxRead <- Disturbed.MaxRead
V == INSTANCE Values WITH pc <- step
L == INSTANCE Language WITH Elements <- HeaderElements
S == INSTANCE Site WITH Protocols <- SiteProtocols

ASSUME RequestsAssumption ==
  /\ TlsAssumption /\ P!ParserAssumption /\ D!ParserAssumption
  /\ V!ValuesAssumption /\ L!LanguageAssumption /\ S!SiteAssumption

-----------------------------------------------------------------------------
RequestInit ==
  /\ Init
  /\ \/ /\ machine = "tls"
        /\ ParserOff /\ ValuesOff /\ LanguageOff /\ SiteOff
        /\ q = Off /\ pos = Off /\ header = Off /\ state = Off
     \/ /\ \/ machine = "parser" /\ P!Init
           \/ machine = "disturbed" /\ D!Init
        /\ ValuesOff /\ LanguageOff /\ SiteOff /\ header = Off /\ state = Off
     \/ /\ machine = "values" /\ V!Init
        /\ ParserOff /\ LanguageOff /\ SiteOff /\ q = Off /\ pos = Off /\ state = Off
     \/ /\ machine = "language" /\ L!Init
        /\ ParserOff /\ ValuesOff /\ SiteOff
     \/ /\ machine = "site" /\ S!Init
        /\ ParserOff /\ ValuesOff /\ LanguageOff /\ q = Off /\ pos = Off /\ header = Off

TlsRecords ==
  /\ machine = "tls" /\ Next
  /\ UNCHANGED <<machine, ofParser, ofValues, ofLanguage, q, pos, header, state, ofSite>>
NotTls(own) == machine = own /\ UNCHANGED <<machine, vars>>
Parse ==
  /\ NotTls("parser") /\ P!Next
  /\ UNCHANGED <<ofValues, ofLanguage, ofSite, header, state>>
ParseDisturbed ==
  /\ NotTls("disturbed") /\ D!Next
  /\ UNCHANGED <<ofValues, ofLanguage, ofSite, header, state>>
Loop ==
  /\ NotTls("values") /\ V!Next
  /\ UNCHANGED <<ofParser, ofLanguage, ofSite, q, pos, state>>
Choose ==
  /\ NotTls("language") /\ L!Next
  /\ UNCHANGED <<ofParser, ofValues, ofSite>>
Browse ==
  /\ NotTls("site") /\ S!Next
  /\ UNCHANGED <<ofParser, ofValues, ofLanguage, q, pos, header>>
(* A header and a page have an end, and the peer of a TLS connection need  *)
(* not do anything.                                                        *)
Silence == machine \in {"tls", "language", "site"} /\ UNCHANGED requestVars

RequestNext == TlsRecords \/ Parse \/ ParseDisturbed \/ Loop \/ Choose \/ Browse \/ Silence

(* Parsing goes on: what has arrived is read and parsed by the visits of   *)
(* the client, and neither loop waits for anything.                        *)
RequestSpec ==
  /\ RequestInit /\ [][RequestNext]_requestVars
  /\ WF_requestVars(Parse) /\ WF_requestVars(Loop)

-----------------------------------------------------------------------------
(* The state of each component is what its C declarations allow: no field, *)
(* position or size leaves its buffer or its range.                        *)
TypesOK ==
  CASE machine = "tls" -> TypeOK
    [] machine = "parser" -> P!TypeOK
    [] machine = "disturbed" -> D!TypeOK
    [] machine = "values" -> V!TypeOK
    [] machine = "language" -> L!TypeOK
    [] machine = "site" -> S!TypeOK

(* Whatever a peer sends, parser_parse stops only when everything that     *)
(* arrived is consumed or the request is complete; a complete one lies     *)
(* inside what arrived and inside MAX_REQUEST_SIZE, and its fields inside  *)
(* it, so that the ring_pop and every ring_get of a processor succeed.     *)
RequestInside ==
  /\ machine = "parser" => P!Consumes
  /\ machine = "disturbed" => D!Consumes /\ D!RequestInside /\ D!FieldsInside

(* Each well-formed request, however cut and wrapped and whatever came     *)
(* before it on the connection, ends where its sender ended it, and its    *)
(* fields are where the sender put them, with two exceptions that the      *)
(* parts of the formula spell out: content that is parsed in pieces makes  *)
(* its request too long (http_parser.c:454, spartan_parser.c:109; nothing  *)
(* is said of the requests behind it), and the fields of a Finger request  *)
(* of both "/W" and a name have their sizes only (finger_parser.c:30).     *)
TotalRequestSize == machine = "parser" => P!TotalRequestSize /\ P!RequestedResource

(* Every well-formed request within the limit is recognised at last,       *)
(* unless content was parsed in pieces (http_parser.c:454): its request    *)
(* may wait for bytes that nobody sends.  And the loop over "Connection"   *)
(* ends: value_parse_comma at last has nothing to return.                  *)
AllRecognised ==
  /\ machine = "parser" ~>
       (machine = "parser" => Len(recognised) = Len(input.requests) \/ P!Split)
  /\ machine = "values" ~> (machine = "values" => step = "done")

(* Wherever the seam of a value is: value_trim removes the spaces at both  *)
(* ends and nothing else, value_first_second loses and repeats nothing,    *)
(* and what value_to_uint accepts is the exact number, never wrapped.      *)
SeamIsInvisible ==
  machine = "values" => V!TrimIsExact /\ V!CutIsExact /\ V!UintIsExact

(* The two headers that are read are understood.  The loop over            *)
(* "Connection" finds keep-alive exactly if it is an element of the header *)
(* wherever this wraps, and parser_parse_http_language returns the         *)
(* language the browser prefers among those the site has.                  *)
HeadersUnderstood ==
  /\ machine = "values" => V!KeepAliveIsExact
  /\ machine = "language" => L!PreferredIsChosen

(* Every link a page prints, on any chain of links, leads to the page it   *)
(* is meant for, and in the language it is meant for (language_explicit).  *)
LinksLead == machine = "site" => S!NoDeadLinks /\ S!LanguageKept

(* A response is whole and is its own: lists and elements are closed in    *)
(* order, nothing of an earlier response in the buffers that all requests  *)
(* share is sent with it, and its HTTP header tells its size and whether   *)
(* the connection ends.                                                    *)
ResponseIsWhole == machine = "site" => S!HtmlBalanced /\ S!NothingStale /\ S!HeaderIsTrue
=============================================================================
