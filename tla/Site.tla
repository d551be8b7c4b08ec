-------------------------------- MODULE Site --------------------------------
(***************************************************************************)
(* The site: which page answers a resource, in which language, and what it *)
(* prints and links to (source/processor/*.c, source/language.c).          *)
(*                                                                         *)
(* A request is answered by processor_generic, which normalizes its        *)
(* resource and prints the page entry by entry into two buffers all        *)
(* requests share, or by the protocol's own error.  Then the visitor       *)
(* follows a link of the page, to the same or to another protocol.         *)
(*                                                                         *)
(* A resource is a sequence of words and separators; of the text of a page *)
(* only its styles, links and HTML elements are kept, and one is the size  *)
(* of everything that is appended at once.                                 *)
(***************************************************************************)
EXTENDS Integers, Sequences, SequencesExt

CONSTANTS
  Protocols,       \* the protocols the visitor's browser speaks
  TypedResources,  \* what the visitor may type
  None             \* no language, no reference

SiteAssumption == Protocols # {} /\ TypedResources # {} /\ None \notin {"e", "d"}

VARIABLES
  state,           \* "request", "print" or "sent"
  request,         \* [protocol, method, resource, language, keep_alive]
  context,         \* struct ProcessorPrintContext: language, requested, previous
  page, script,    \* the page, and the entries of it still to be printed
  one, two,        \* g_internal_buffer_*: [stale, size]
  open,            \* the HTML elements that are open in the page
  links,           \* the links printed
  gap,             \* an empty line stands before the last entry
  announced,       \* the HTTP header: [length, keep_alive]
  response,        \* [status, keep_alive]
  goal             \* the link that was followed
vars == <<state, request, context, page, script, one, two, open, links, gap,
          announced, response, goal>>

Http == {"HTTP", "HTTPS"}
IsQuestion == Http \cup {"Gemini", "Guppy"}
IsPlaintext == {"Gopher", "Finger", "Nex", "Text"}
IMPLICIT_LANGUAGE == "e"

------------------------------------------------------------------------------
(* language.c *)
language_get(w) == CASE w \in {"en", "english"} -> "e" [] w = "de" -> "d" [] OTHER -> None
Code == [e |-> "en", d |-> "de"]
(* Mutant of language_explicit: the language a browser prefers counts for nothing. *)
language_explicit_ignoring(l, requested, implicit) == l # IMPLICIT_LANGUAGE \/ requested = l
language_explicit(l, requested, implicit) ==
  LET i == IF implicit = None THEN IMPLICIT_LANGUAGE ELSE implicit
  IN  l # i \/ (requested # None /\ requested = i)
language_question(l, requested, implicit) ==
  IF language_explicit(l, requested, implicit) THEN <<"?", "lang=", Code[l]>> ELSE <<>>
language_slash(l, requested, implicit) ==
  IF language_explicit(l, requested, implicit) THEN <<"/", Code[l]>> ELSE <<>>

(* generic.c: the page a resource names, and the language it asks for. *)
trim_leading_shash(r) ==
  LET n == SelectInSeq(r, LAMBDA c : c # "/") IN IF n = 0 THEN <<>> ELSE SubSeq(r, n, Len(r))
trim_trailing_shash(r) == SubSeq(r, 1, SelectLastInSeq(r, LAMBDA c : c # "/"))

(* The last segment is a language if it is exactly the word of one; "english" *)
(* is longer than MAX_LANGUAGE_SIZE.                                          *)
(* Mutant of normalize_slash: only the slashes in front are removed. *)
normalize_slash_front(r) ==
  LET t == trim_leading_shash(r)
      n == SelectLastInSeq(t, LAMBDA c : c = "/")
      l == IF Len(t) = n + 1 /\ t[n + 1] # "english" THEN language_get(t[n + 1]) ELSE None
  IN  IF l = None THEN [resource |-> t, language |-> None]
      ELSE [resource |-> trim_trailing_shash(SubSeq(t, 1, n)), language |-> l]
normalize_slash(r) ==
  LET t == trim_trailing_shash(trim_leading_shash(r))
      n == SelectLastInSeq(t, LAMBDA c : c = "/")
      l == IF Len(t) = n + 1 /\ t[n + 1] # "english" THEN language_get(t[n + 1]) ELSE None
  IN  IF l = None THEN [resource |-> t, language |-> None]
      ELSE [resource |-> trim_trailing_shash(SubSeq(t, 1, n)), language |-> l]

(* The resource ends at the first ? or #.  Behind a ?, the last "?lang=" decides; *)
(* the first two letters behind it fill language_str, and what follows them is    *)
(* skipped up to another ?.                                                       *)
normalize_question(r) ==
  LET t == trim_leading_shash(r)
      n == SelectInSeq(t, LAMBDA c : c \in {"?", "#"})
      m == SelectLastInSeq(t, LAMBDA c : c = "?")
  IN  IF n = 0 THEN [resource |-> trim_trailing_shash(t), language |-> None]
      ELSE [resource |-> trim_trailing_shash(SubSeq(t, 1, n - 1)),
            language |-> IF t[n] = "?" /\ m + 2 <= Len(t) /\ t[m + 1] = "lang="
                           THEN language_get(t[m + 2]) ELSE None]

------------------------------------------------------------------------------
(* The pages: entries [style, ref], where a reference names a page of the  *)
(* site in a language and a protocol.  Both languages print the same       *)
(* styles; two links of the index change places.                           *)
Pages == {"", "about", "twinkleshine", "smolnet", "contact", "projects", "resume"}
Name(p) == IF p = "" THEN <<>> ELSE <<p>>
Entry(style, ref) == [style |-> style, ref |-> ref]
Times(n, style) == [i \in 1 .. n |-> Entry(style, None)]
Para(n) == Times(n, "PARAGRAPH")
Internal(p, l) == Entry("INTERNAL", [page |-> p, language |-> l])
Elsewhere(n) == Times(n, "EXTERNAL")
Links(l, ps) == [i \in DOMAIN ps |-> Internal(ps[i], l)]

processor_generic_contact(a) ==
  (IF a \in IsPlaintext THEN Times(2, "NORMAL") ELSE Elsewhere(2)) \o Elsewhere(3)
processor_generic_protocols == Times(9, "ITEMIZE")
(* The page in the other languages: context->language is changed and restored. *)
processor_generic_header(l, p) == Links("e", IF l # "e" THEN <<p>> ELSE <<>>)
                               \o Links("d", IF l # "d" THEN <<p>> ELSE <<>>)

(* The same page over the seven other protocols. *)
OtherProtocols(a) ==
  LET Other(b) == IF b = a \/ (b = "HTTP" /\ a \in Http) THEN <<>> ELSE <<b>>
  IN  Other("HTTP") \o Other("Gopher") \o Other("Finger") \o Other("Gemini")
   \o Other("Spartan") \o Other("Nex") \o Other("Text") \o Other("Guppy")
processor_generic_footer(a, l, p) ==
  LET others == OtherProtocols(a)
  IN  Times(1, "LARGE") \o Times(1, "NORMAL")
   \o [i \in DOMAIN others |->
         Entry("EXTERNAL", [page |-> p, language |-> l, protocol |-> others[i]])]
   \o Links(l, <<"smolnet">>) \o Links(l, IF p # "" THEN <<"">> ELSE <<>>)
   \o Times(1, "NORMAL")

IndexPage(l) ==
  Para(2) \o Links(l, <<"about", "twinkleshine", "smolnet">>
                   \o (IF l = "d" THEN <<"projects", "resume">> ELSE <<"resume", "projects">>)
                   \o <<"contact">>) \o Para(1)
AboutPage(l) == Para(4) \o Links(l, <<"resume">>) \o Para(1) \o Links(l, <<"projects">>)
TwinkleshinePage ==
  Para(2) \o Elsewhere(1) \o Para(2) \o Times(1, "LARGE") \o Para(1)
  \o processor_generic_protocols
  \o Times(1, "LARGE") \o Para(3) \o Times(1, "LARGE") \o Para(2)
SmolnetPage ==
  Times(1, "LARGE") \o Para(3) \o Times(1, "LARGE") \o Para(1) \o Times(1, "LARGE") \o Para(3)
  \o Times(1, "LARGE") \o Para(1) \o Elsewhere(4) \o Para(1) \o Elsewhere(2)
ProjectsPage ==
  LET project == Times(1, "LARGE") \o Para(1) \o Elsewhere(1)
  IN  Para(1) \o project \o project \o project \o project \o project \o project
ResumePage(a) ==
  LET Larger == Times(1, "LARGER")
      Large(n, items) == Times(1, "LARGE") \o Times(n, "NORMAL") \o Times(items, "ITEMIZE")
  IN  processor_generic_contact(a) \o Times(1, "NORMAL")
   \o Larger \o Large(7, 0) \o Large(6, 0) \o Large(2, 0)
   \o Larger \o Large(3, 2) \o Large(3, 2) \o Large(3, 2)
   \o Larger \o Large(0, 2) \o Large(0, 2) \o Large(0, 3)
   \o Larger \o Times(1, "ITEMIZE") \o Larger \o Times(2, "ITEMIZE")
   \o Larger \o Times(1, "ITEMIZE")

Body(a, l, p) ==
  CASE p = "" -> IndexPage(l) [] p = "about" -> AboutPage(l)
    [] p = "twinkleshine" -> TwinkleshinePage [] p = "smolnet" -> SmolnetPage
    [] p = "contact" -> Times(1, "NORMAL") \o processor_generic_contact(a)
    [] p = "projects" -> ProjectsPage [] OTHER -> ResumePage(a)
Script(a, l, p) ==
  Times(1, "INITIALIZE") \o Times(1, "HEADER") \o processor_generic_header(l, p)
  \o Body(a, l, p) \o processor_generic_footer(a, l, p) \o Times(1, "FINALIZE")

------------------------------------------------------------------------------
(* Printing: the buffers.  What an earlier response left in them is stale  *)
(* until they are overwritten.                                             *)
Copy == [stale |-> FALSE, size |-> 1]
Clear == [stale |-> FALSE, size |-> 0]
Grow(b) == [b EXCEPT !.size = @ + 1]

processor_generic_paragraph(style) ==
  style \in {"PARAGRAPH", "QUOTE", "LARGE", "LARGER", "LARGEST", "HEADER"}
Separated(style) ==
  /\ processor_generic_paragraph(style) \/ processor_generic_paragraph(context.previous)
  /\ style # "FINALIZE" /\ context.previous # "INITIALIZE"

(* The reference of a link, as each protocol prints it. *)
Slashed(p) == IF p = "" THEN <<>> ELSE <<"/", p>>
InternalReference(a, ref) ==
  LET question == language_question(ref.language, context.requested, request.language)
      slash == language_slash(ref.language, context.requested, request.language)
  IN  CASE a \in IsQuestion -> <<"/">> \o Name(ref.page) \o question
        [] a = "Gopher" -> Name(ref.page) \o slash
        [] a = "Nex" -> Slashed(ref.page) \o slash \o <<"/">>
        [] OTHER -> Slashed(ref.page) \o slash

(* The footer's address of the page in another protocol, behind its host. *)
FooterReference(ref) ==
  LET question == language_question(ref.language, context.requested, IMPLICIT_LANGUAGE)
      slash == language_slash(ref.language, context.requested, IMPLICIT_LANGUAGE)
      tail == IF ref.protocol \in IsQuestion THEN question ELSE slash
      gopher == ref.protocol = "Gopher"
      nonempty == ref.page # "" \/ gopher \/ question # <<>>
      starts == ref.page = "" /\ ~gopher /\ question # <<>> /\ ref.protocol \notin IsQuestion
  IN  (IF nonempty /\ ~starts THEN <<"/">> ELSE <<>>)
   \o (IF gopher THEN <<"1">> ELSE <<>>) \o Name(ref.page) \o tail
   \o (IF ref.protocol = "Nex" THEN <<"/">> ELSE <<>>)

(* How a browser asks for an address: Gopher's has its type, 1, in front.  *)
Selector(protocol, address) ==
  IF protocol = "Gopher" THEN SubSeq(address, 3, Len(address)) ELSE address
Printed(e) ==
  CASE e.style = "INTERNAL" ->
         {[protocol |-> request.protocol, page |-> e.ref.page, language |-> e.ref.language,
           internal |-> TRUE, resource |-> InternalReference(request.protocol, e.ref)]}
    [] e.style = "EXTERNAL" /\ e.ref # None ->
         {[protocol |-> e.ref.protocol, page |-> e.ref.page, language |-> e.ref.language,
           internal |-> FALSE, resource |-> Selector(e.ref.protocol, FooterReference(e.ref))]}
    [] OTHER -> {}

(* The elements an entry opens and closes in HTML, in their order. *)
Opening(style) ==
  CASE style = "INITIALIZE" -> <<"html", "body">> [] style = "PARAGRAPH" -> <<"p">>
    [] style = "ITEMIZE" ->
         (IF context.previous # style THEN <<"ul">> ELSE <<>>) \o <<"li">>
    [] style = "ENUMERATION" ->
         (IF context.previous # style THEN <<"ol">> ELSE <<>>) \o <<"li">>
    [] style = "QUOTE" -> <<"blockquote", "p">> [] style = "LARGE" -> <<"h3", "p">>
    [] style = "LARGER" -> <<"h2", "p">> [] style = "LARGEST" -> <<"h1", "p">>
    [] style = "HEADER" -> <<"header", "h1">>
    [] style \in {"INTERNAL", "EXTERNAL"} -> <<"a">> [] OTHER -> <<>>
Closing(style) ==
  CASE style \in {"ITEMIZE", "ENUMERATION"} -> <<"li">>
    [] style = "INITIALIZE" -> <<>> [] style = "FINALIZE" -> <<"body", "html">>
    [] OTHER -> Reverse(Opening(style))
(* Mutant of ListEnd: a heading does not end a list. *)
ListEnd_heading(style) ==
  CASE context.previous = "ITEMIZE" /\ style \notin {"ITEMIZE", "LARGE", "LARGER"} -> <<"ul">>
    [] context.previous = "ENUMERATION" /\ style # "ENUMERATION" -> <<"ol">>
    [] OTHER -> <<>>
ListEnd(style) ==
  CASE context.previous = "ITEMIZE" /\ style # "ITEMIZE" -> <<"ul">>
    [] context.previous = "ENUMERATION" /\ style # "ENUMERATION" -> <<"ol">>
    [] OTHER -> <<>>
Close(elements, tags) ==
  LET n == Len(elements) - Len(tags)
  IN  IF n >= 0 /\ SubSeq(elements, n + 1, Len(elements)) = Reverse(tags)
        THEN SubSeq(elements, 1, n) ELSE Append(elements, "mismatch")

(* HTML goes to the second buffer; the header, with its size, comes last. *)
processor_print_http(e) ==
  /\ two' = IF e.style = "INITIALIZE" THEN Copy ELSE Grow(two)
  /\ IF e.style = "FINALIZE"
       THEN one' = Copy /\ announced' = [length |-> two'.size, keep_alive |-> request.keep_alive]
       ELSE UNCHANGED <<one, announced>>
  /\ open' = Close(Close(open, ListEnd(e.style)) \o Opening(e.style), Closing(e.style))
  /\ gap' = FALSE

(* The other protocols print into the first buffer, entry by entry. *)
(* Mutant of Plain: the second buffer is left as it is. *)
Plain_one(e, first, separated) ==
  /\ one' = CASE e.style = "INITIALIZE" -> first [] e.style = "FINALIZE" -> one
              [] OTHER -> Grow(one)
  /\ gap' = separated
  /\ UNCHANGED <<two, open, announced>>
Plain(e, first, separated) ==
  /\ one' = CASE e.style = "INITIALIZE" -> first [] e.style = "FINALIZE" -> one
              [] OTHER -> Grow(one)
  /\ two' = IF e.style = "INITIALIZE" THEN Clear ELSE two
  /\ gap' = separated
  /\ UNCHANGED <<open, announced>>

processor_print_gopher(e) == Plain(e, Clear, Separated(e.style))
processor_print_finger(e) == Plain(e, Clear, Separated(e.style))
processor_print_nex(e) == Plain(e, Clear, Separated(e.style))
processor_print_gemini(e) == Plain(e, Copy, e.style \in {"NORMAL", "PARAGRAPH"})
(* Text inherits from Nex, Spartan and Guppy from Gemini, but for their    *)
(* first line and their links.                                             *)
Overloaded(e) == e.style \in {"INITIALIZE", "INTERNAL"}
processor_print_text(e) ==
  IF Overloaded(e) THEN Plain(e, Copy, FALSE) ELSE processor_print_nex(e)
processor_print_spartan(e) ==
  IF Overloaded(e) THEN Plain(e, Copy, FALSE) ELSE processor_print_gemini(e)
processor_print_guppy(e) ==
  IF Overloaded(e) THEN Plain(e, Copy, FALSE) ELSE processor_print_gemini(e)

processor_print ==
  LET e == Head(script)
  IN  /\ state = "print" /\ script # <<>>
      /\ LET a == request.protocol
         IN  \/ a \in Http /\ processor_print_http(e)
             \/ a = "Gopher" /\ processor_print_gopher(e)
             \/ a = "Finger" /\ processor_print_finger(e)
             \/ a = "Gemini" /\ processor_print_gemini(e)
             \/ a = "Spartan" /\ processor_print_spartan(e)
             \/ a = "Nex" /\ processor_print_nex(e)
             \/ a = "Text" /\ processor_print_text(e)
             \/ a = "Guppy" /\ processor_print_guppy(e)
      /\ links' = links \cup Printed(e)
      /\ context' = [context EXCEPT !.previous = e.style]
      /\ script' = Tail(script)
      /\ UNCHANGED <<state, request, page, response, goal>>

------------------------------------------------------------------------------
(* Answering a request. *)
Normalized ==
  IF request.protocol \in IsQuestion THEN normalize_question(request.resource)
                                     ELSE normalize_slash(request.resource)
Valid == request.protocol \notin Http \/ request.method = "get"
PageOf(r) == {p \in Pages : Name(p) = r}

(* The page's language: asked for, else preferred by the browser, else implicit. *)
PageLanguage(l) ==
  CASE l # None -> l [] l = None /\ request.language # None -> request.language
    [] OTHER -> IMPLICIT_LANGUAGE
processor_generic ==
  /\ state = "request" /\ Valid
  /\ \E p \in PageOf(Normalized.resource) :
       LET l == PageLanguage(Normalized.language)
       IN  /\ page' = p
           /\ script' = Script(request.protocol, l, p)
           /\ context' = [language |-> l, requested |-> Normalized.language, previous |-> "INITIALIZE"]
  /\ state' = "print" /\ links' = {} /\ open' = <<>>
  /\ UNCHANGED <<request, one, two, gap, announced, response, goal>>

(* The page is complete: processor_construct_response. *)
processor_process ==
  /\ state = "print" /\ script = <<>>
  /\ state' = "sent"
  /\ response' = [status |-> "200", keep_alive |-> request.keep_alive]
  /\ UNCHANGED <<request, context, page, script, one, two, open, links, gap, announced, goal>>

(* No page: the protocol's own answer, and for HTTP a page of its own. *)
Robots == Valid /\ request.resource = <<"/", "robots.txt">>
Specific(status, keep_alive) ==
  /\ state = "request" /\ (Valid => PageOf(Normalized.resource) = {})
  /\ response' = [status |-> status, keep_alive |-> keep_alive]
  /\ state' = "sent" /\ page' = None /\ links' = {} /\ open' = <<>>
  /\ UNCHANGED <<request, context, script, gap, goal>>

(* Mutant of processor_process_http: robots.txt is announced like a page. *)
processor_process_http_alive ==
  /\ request.protocol \in Http
  /\ Specific(CASE ~Valid -> "405" [] Robots -> "robots" [] OTHER -> "404", ~Robots /\ request.keep_alive)
  /\ two' = [Copy EXCEPT !.size = IF Robots THEN 1 ELSE 3] /\ one' = Copy
  /\ announced' = [length |-> two'.size, keep_alive |-> request.keep_alive]
processor_process_http ==
  /\ request.protocol \in Http
  /\ Specific(CASE ~Valid -> "405" [] Robots -> "robots" [] OTHER -> "404", ~Robots /\ request.keep_alive)
  /\ two' = [Copy EXCEPT !.size = IF Robots THEN 1 ELSE 3] /\ one' = Copy
  /\ announced' = [length |-> two'.size, keep_alive |-> response'.keep_alive]

(* Elsewhere a text that never changes, not from the buffers. *)
processor_process_plain ==
  /\ request.protocol \notin Http
  /\ Specific("invalid", FALSE) /\ UNCHANGED <<one, two, announced>>

processor_specific == processor_process_http \/ processor_process_plain

------------------------------------------------------------------------------
(* The visitor: types a resource, and follows the links of the pages.  Only *)
(* HTTP has methods, keeps connections and says which language it prefers.  *)
Requests(a, r, methods) ==
  [protocol : {a}, method : methods, resource : {r},
   language : IF a \in Http THEN {None, "e", "d"} ELSE {None},
   keep_alive : IF a \in Http THEN BOOLEAN ELSE {FALSE}]

Init ==
  /\ \E a \in Protocols, r \in TypedResources :
       request \in Requests(a, r, IF a \in Http THEN {"get", "post"} ELSE {None})
  /\ state = "request" /\ page = None /\ script = <<>> /\ open = <<>> /\ links = {} /\ gap = FALSE
  /\ context = [language |-> None, requested |-> None, previous |-> "INITIALIZE"]
  /\ one = Clear /\ two = Clear
  /\ announced = [length |-> 0, keep_alive |-> FALSE]
  /\ response = [status |-> "none", keep_alive |-> FALSE]
  /\ goal = None

Follow(link) ==
  /\ state = "sent" /\ link.protocol \in Protocols
  /\ \E r \in Requests(link.protocol, link.resource, {IF link.protocol \in Http THEN "get" ELSE None}) :
       /\ link.internal => r.language = request.language
       /\ request' = r
  /\ goal' = [link EXCEPT !.resource = <<>>]
  /\ state' = "request" /\ page' = None /\ links' = {} /\ open' = <<>>
  /\ one' = [stale |-> TRUE, size |-> 0] /\ two' = [stale |-> two.size > 0, size |-> 0]
  /\ UNCHANGED <<context, script, gap, announced, response>>

Next ==
  \/ processor_generic \/ processor_print \/ processor_process \/ processor_specific
  \/ \E link \in links : Follow(link)
Spec == Init /\ [][Next]_vars

------------------------------------------------------------------------------
TypeOK ==
  /\ request.protocol \in Protocols /\ page \in Pages \cup {None}
  /\ context.language \in {"e", "d", None} /\ context.requested \in {"e", "d", None}
  /\ state = "print" => context.language # None

(* Every link a page prints, to itself in the other language, to another   *)
(* page or to another protocol, leads to the page it is meant for.         *)
NoDeadLinks ==
  state = "sent" /\ goal # None => page = goal.page /\ response.status = "200"

(* ... and in the language it is meant for, whatever the browser prefers.  *)
(* Only an address of the footer for HTTP, which leaves the implicit       *)
(* language out, leaves the choice to a browser that prefers another.      *)
LanguageKept ==
  state = "sent" /\ goal # None /\ (goal.internal \/ request.language # "d")
    => context.language = goal.language

(* Lists are opened and closed around their items only, and a page leaves  *)
(* no HTML element open.                                                   *)
HtmlBalanced ==
  /\ "mismatch" \notin Range(open)
  /\ state = "sent" => open = <<>>

(* The buffers are shared by all requests of all protocols: nothing of an  *)
(* earlier response is sent with a later one.                              *)
NothingStale ==
  state = "sent" /\ (page # None \/ request.protocol \in Http) => ~one.stale /\ ~two.stale

(* The header of an HTTP response tells the size of what follows it, and   *)
(* whether the server will close the connection.                           *)
HeaderIsTrue ==
  state = "sent" /\ request.protocol \in Http =>
    announced = [length |-> two.size, keep_alive |-> response.keep_alive]

-----------------------------------------------------------------------------
(* What the repository says and the code does not do: TLC refutes it, see  *)
(* the README, section 5.                                                  *)

(* "Others: maintain space before, after and between paragraphs"           *)
(* (generic.c): next to a paragraph there is an empty line, but at the     *)
(* beginning and at the end of the page.                                   *)
SpaceAroundParagraphs ==
  [][processor_print /\ context.previous # "INITIALIZE" /\ Head(script).style # "FINALIZE"
     /\ (processor_generic_paragraph(Head(script).style) \/ processor_generic_paragraph(context.previous))
       => gap']_vars
=============================================================================
