------------------------------ MODULE Language ------------------------------
(***************************************************************************)
(* The language a browser prefers (source/parser/http_parser.c):           *)
(* parser_parse_http_language reads the header "Accept-Language" character *)
(* by character and keeps the best of the languages the site has.          *)
(*                                                                         *)
(* A weight q is counted in thousandths: of its decimals MaxDecimals count.*)
(***************************************************************************)
EXTENDS Integers, Sequences, SequencesExt, FiniteSetsExt

CONSTANTS
  Elements,           \* [text, language, q, valid]: what a header is made of
  MaxElements,        \* bound: elements of a header
  MAX_LANGUAGE_SIZE,  \* characters of a language that are kept
  None                \* no language

LanguageAssumption ==
  /\ MAX_LANGUAGE_SIZE \in Nat /\ MAX_LANGUAGE_SIZE > 1 /\ MaxElements \in Nat
  /\ \A e \in Elements : e.text \in Seq(STRING)

VARIABLES
  header,             \* the elements of the header
  text, pos,          \* its characters, and how many are read
  state, language, language_size, q, decimals,
  best                \* [language, q]: best_language and best_q
vars == <<header, text, pos, state, language, language_size, q, decimals, best>>

One == 1000
MaxDecimals == 3
Place == <<100, 10, 1>>     \* what q_multiplier is behind the point
Lower(c) == CASE c = "E" -> "e" [] c = "N" -> "n" [] c = "U" -> "u" [] OTHER -> c
Letters == {"e", "n", "d", "u", "f", "q", "E", "N", "U", "*"}
Digits == [c \in {"0", "1", "5", "7", "8", "9"} |->
             CASE c = "0" -> 0 [] c = "1" -> 1 [] c = "5" -> 5
               [] c = "7" -> 7 [] c = "8" -> 8 [] OTHER -> 9]

language_get(l, size) ==
  CASE size = 2 /\ l = <<"e", "n">> -> "e"
    [] size = 2 /\ l = <<"d", "e">> -> "d"
    [] OTHER -> None

(* Clamps the weight; only a strictly better language replaces the best.   *)
Clamp(w) == IF w > One THEN One ELSE w
(* Mutant of commit: the last of equally good languages is taken. *)
commit_last(w) ==
  LET result == language_get(language, language_size)
  IN  IF result # None /\ Clamp(w) >= best.q
        THEN [language |-> result, q |-> Clamp(w)] ELSE best
commit(w) ==
  LET result == language_get(language, language_size)
  IN  IF result # None /\ Clamp(w) > best.q
        THEN [language |-> result, q |-> Clamp(w)] ELSE best

------------------------------------------------------------------------------
Element(e) == e.text
Init ==
  /\ header \in SeqOf(Elements, MaxElements)
  /\ text = FlattenSeq([i \in DOMAIN header |->
              (IF i = 1 THEN <<>> ELSE <<",", " ">>) \o Element(header[i])])
  /\ pos = 0 /\ state = "LANGUAGE_BEGIN"
  /\ language = <<>> /\ language_size = 0 /\ q = 0 /\ decimals = -1
  /\ best = [language |-> None, q |-> 0]

c == text[pos + 1]
Goto(s) == state' = s
Same == UNCHANGED <<language, language_size, q, decimals, best>>
Stay == Goto(state) /\ Same
Invalid == Goto("return") /\ Same
Committed(w) ==
  /\ best' = commit(w) /\ Goto("LANGUAGE_BEGIN")
  /\ UNCHANGED <<language, language_size, q, decimals>>

LanguageBegin ==
  /\ state = "LANGUAGE_BEGIN"
  /\ CASE c = " " -> Stay
       [] c \in Letters ->
            /\ language' = <<Lower(c)>> /\ language_size' = 1
            /\ q' = One /\ decimals' = -1 /\ UNCHANGED best
            /\ Goto("LANGUAGE_FIRST_CHARACTERS")
       [] OTHER -> Invalid

LanguageFirst ==
  /\ state = "LANGUAGE_FIRST_CHARACTERS"
  /\ CASE c \in {" ", "-"} -> Goto("COMMA_SEMICOLON") /\ Same
       [] c = "," -> Committed(One)
       [] c = ";" -> Goto("Q") /\ Same
       [] c \in Letters ->
            /\ language' = Append(language, Lower(c))
            /\ language_size' = language_size + 1
            /\ Goto(IF language_size' = MAX_LANGUAGE_SIZE THEN "COMMA_SEMICOLON" ELSE state)
            /\ UNCHANGED <<q, decimals, best>>
       [] OTHER -> Invalid

(* More letters: it is none of the languages the site has. *)
CommaSemicolon ==
  /\ state = "COMMA_SEMICOLON"
  /\ CASE c \in {" ", "-"} -> Stay
       [] c = "," -> Committed(One)
       [] c = ";" -> Goto("Q") /\ Same
       [] c \in Letters ->
            /\ language_size' = MAX_LANGUAGE_SIZE + 1 /\ Goto(state)
            /\ UNCHANGED <<language, q, decimals, best>>
       [] OTHER -> Invalid

WaitQ ==
  /\ state = "Q"
  /\ CASE c = " " -> Stay
       [] c = "q" -> Goto("EQUAL") /\ Same
       [] OTHER -> Invalid

WaitEqual ==
  /\ state = "EQUAL"
  /\ CASE c = " " -> Stay
       [] c = "=" ->
            /\ q' = 0 /\ Goto("NUMBER")
            /\ UNCHANGED <<language, language_size, decimals, best>>
       [] OTHER -> Invalid

(* decimals is -1 before the point, and then how often q_multiplier was divided. *)
WaitNumber ==
  /\ state = "NUMBER"
  /\ CASE c = " " -> Stay
       [] c = "," -> Committed(q)
       [] c = "." ->
            /\ decimals' = 0 /\ Goto(state)
            /\ UNCHANGED <<language, language_size, q, best>>
       [] c \in DOMAIN Digits ->
            /\ \/ decimals < 0 /\ q' = 10 * q + One * Digits[c] /\ UNCHANGED decimals
               \/ /\ decimals \in 0 .. MaxDecimals - 1 /\ decimals' = decimals + 1
                  /\ q' = q + Place[decimals'] * Digits[c]
               \/ decimals = MaxDecimals /\ UNCHANGED <<q, decimals>>
            /\ Goto(state) /\ UNCHANGED <<language, language_size, best>>
       [] OTHER -> Invalid

Character ==
  /\ state \notin {"return", "end"} /\ pos < Len(text)
  /\ pos' = pos + 1
  /\ \/ LanguageBegin \/ LanguageFirst \/ CommaSemicolon
     \/ WaitQ \/ WaitEqual \/ WaitNumber
  /\ UNCHANGED <<header, text>>

(* The end of the header ends its last element. *)
End ==
  /\ state \notin {"return", "end"} /\ pos = Len(text)
  /\ best' = IF state = "LANGUAGE_BEGIN" THEN best ELSE commit(q)
  /\ Goto("end")
  /\ UNCHANGED <<header, text, pos, language, language_size, q, decimals>>

Next == Character \/ End
Spec == Init /\ [][Next]_vars

------------------------------------------------------------------------------
(* language[language_size] is never written behind its MAX_LANGUAGE_SIZE   *)
(* characters.                                                             *)
TypeOK ==
  /\ pos \in 0 .. Len(text) /\ Len(language) <= MAX_LANGUAGE_SIZE
  /\ language_size \in 0 .. MAX_LANGUAGE_SIZE + 1
  /\ q \in Nat /\ decimals \in -1 .. MaxDecimals
  /\ best.language \in {"e", "d", None} /\ best.q \in 0 .. One

(* The languages of the header up to the first malformed element, and the  *)
(* one the browser prefers: the heaviest the site has, the earlier one of  *)
(* equals, none with the weight 0.                                         *)
Wellformed ==
  LET bad == {i \in DOMAIN header : ~header[i].valid}
  IN  IF bad = {} THEN DOMAIN header ELSE 1 .. Min(bad) - 1
Wanted == {i \in Wellformed : header[i].language # None /\ header[i].q > 0}
Preferred ==
  IF Wanted = {} THEN None
  ELSE header[Min({i \in Wanted : \A j \in Wanted : header[j].q <= header[i].q})].language

(* parser_parse_http_language returns the language the browser prefers,    *)
(* whatever weights, cases, spaces, regions and unknown languages the      *)
(* header has, and nothing behind a malformed element counts.              *)
PreferredIsChosen == state \in {"return", "end"} => best.language = Preferred
=============================================================================
