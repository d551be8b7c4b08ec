------------------------------- MODULE Values -------------------------------
(***************************************************************************)
(* Values (source/value.c): bytes in a ring, which lie in VALUE_PARTS = 2  *)
(* pieces of memory when they wrap around its end.  The operators walk the *)
(* parts as the code does; the properties compare them with what they mean *)
(* for the bytes as one sequence, wherever the seam is.                    *)
(*                                                                         *)
(* The specification is the loop of the HTTP parser over the elements of   *)
(* the header "Connection" (parser_parse_http_name_value).                 *)
(***************************************************************************)
EXTENDS Integers, Sequences, SequencesExt, FiniteSetsExt

CONSTANTS
  Alphabet,      \* the characters of a value
  UINT_MAX,      \* the largest unsigned int
  MaxValue       \* bound: characters of a value

ValuesAssumption == UINT_MAX \in Nat /\ UINT_MAX > 9 /\ MaxValue \in Nat

VARIABLES
  header,        \* the value of the header
  value,         \* what the loop has left of it
  current_value, \* the element it looks at
  pc, keep_alive
vars == <<header, value, current_value, pc, keep_alive>>

Part(s, first, last) == SubSeq(s, first, last)
Flat(v) == v[1] \o v[2]
Zero == <<<<>>, <<>>>>
Seams(s) == {<<Part(s, 1, n), Part(s, n + 1, Len(s))>> : n \in 0 .. Len(s)}

Spaces == {" ", "tab", "cr", "lf"}
Digits == [c \in {"0", "1", "2", "9"} |->
             CASE c = "0" -> 0 [] c = "1" -> 1 [] c = "2" -> 2 [] OTHER -> 9]
Lower(c) == IF c = "K" THEN "k" ELSE c

------------------------------------------------------------------------------
(* Comparison: memcmp part by part, or character by character. *)
value_compare_mem(v, b) ==
  /\ Len(v[1]) + Len(v[2]) = Len(b)
  /\ v[1] = Part(b, 1, Len(v[1]))
  /\ v[2] = Part(b, Len(v[1]) + 1, Len(b))

value_compare_case_mem(v, b) ==
  value_compare_mem([i \in 1 .. 2 |-> [j \in DOMAIN v[i] |-> Lower(v[i][j])]], b)

(* Splits v at its first comma.  Without one everything is the result, and *)
(* success says whether that was anything.                                 *)
CommaIn(p) == SelectInSeq(p, LAMBDA c : c = ",")
Before(p) == Part(p, 1, CommaIn(p) - 1)
Behind(p) == Part(p, CommaIn(p) + 1, Len(p))

(* Mutant of value_parse_comma: a comma in the second part forgets the first. *)
value_parse_comma_second(v) ==
  CASE CommaIn(v[1]) > 0 -> [result |-> <<Before(v[1]), <<>>>>,
                             rest |-> <<Behind(v[1]), v[2]>>, success |-> TRUE]
    [] CommaIn(v[1]) = 0 /\ CommaIn(v[2]) > 0 ->
                            [result |-> <<<<>>, Before(v[2])>>,
                             rest |-> <<<<>>, Behind(v[2])>>, success |-> TRUE]
    [] OTHER -> [result |-> v, rest |-> Zero, success |-> Flat(v) # <<>>]

(* Mutant of value_parse_comma: nothing found is a success too. *)
value_parse_comma_always(v) ==
  CASE CommaIn(v[1]) > 0 -> [result |-> <<Before(v[1]), <<>>>>,
                             rest |-> <<Behind(v[1]), v[2]>>, success |-> TRUE]
    [] CommaIn(v[1]) = 0 /\ CommaIn(v[2]) > 0 ->
                            [result |-> <<v[1], Before(v[2])>>,
                             rest |-> <<<<>>, Behind(v[2])>>, success |-> TRUE]
    [] OTHER -> [result |-> v, rest |-> Zero, success |-> TRUE]

value_parse_comma(v) ==
  CASE CommaIn(v[1]) > 0 -> [result |-> <<Before(v[1]), <<>>>>,
                             rest |-> <<Behind(v[1]), v[2]>>, success |-> TRUE]
    [] CommaIn(v[1]) = 0 /\ CommaIn(v[2]) > 0 ->
                            [result |-> <<v[1], Before(v[2])>>,
                             rest |-> <<<<>>, Behind(v[2])>>, success |-> TRUE]
    [] OTHER -> [result |-> v, rest |-> Zero, success |-> Flat(v) # <<>>]

(* The two loops of value_trim: from the front to the first part with      *)
(* something else than spaces, and from the back, unless nothing is left.  *)
Ink(p) == {i \in DOMAIN p : p[i] \notin Spaces}
TrimFront(p) == IF Ink(p) = {} THEN <<>> ELSE Part(p, Min(Ink(p)), Len(p))
TrimBack(p) == IF Ink(p) = {} THEN <<>> ELSE Part(p, 1, Max(Ink(p)))

(* Mutant of value_trim: the spaces behind are looked for in the last part. *)
value_trim_last_part(v) ==
  LET w == IF Ink(v[1]) # {} THEN <<TrimFront(v[1]), v[2]>>
                             ELSE <<<<>>, TrimFront(v[2])>>
  IN <<w[1], TrimBack(w[2])>>

value_trim(v) ==
  LET w == IF Ink(v[1]) # {} THEN <<TrimFront(v[1]), v[2]>>
                             ELSE <<<<>>, TrimFront(v[2])>>
  IN IF Ink(w[2]) # {} THEN <<w[1], TrimBack(w[2])>> ELSE <<TrimBack(w[1]), <<>>>>

(* A number, or -1: each digit is refused if ten times what there is so    *)
(* far could exceed an unsigned int.                                       *)
(* Mutant of NextDigit: the limit forgets the digit to be added. *)
NextDigit_no_margin(n, c) ==
  IF n = -1 \/ n > UINT_MAX \div 10 \/ c \notin DOMAIN Digits THEN -1
  ELSE 10 * n + Digits[c]

NextDigit(n, c) ==
  IF n = -1 \/ n >= (UINT_MAX - 9) \div 10 \/ c \notin DOMAIN Digits THEN -1
  ELSE 10 * n + Digits[c]
Read(p, n) ==
  LET read[i \in 0 .. Len(p)] == IF i = 0 THEN n ELSE NextDigit(read[i - 1], p[i])
  IN read[Len(p)]
value_to_uint(v) == Read(v[2], Read(v[1], 0))

(* The first n characters, and the rest. *)
value_first(v, n) ==
  IF Len(v[1]) > n THEN <<Part(v[1], 1, n), <<>>>>
  ELSE <<v[1], Part(v[2], 1, Min({n - Len(v[1]), Len(v[2])}))>>

(* Mutant of value_second: the second part loses n characters too. *)
value_second_twice(v, n) ==
  IF Len(v[1]) > n THEN <<Part(v[1], n + 1, Len(v[1])), Part(v[2], n + 1, Len(v[2]))>>
  ELSE <<<<>>, Part(v[2], n - Len(v[1]) + 1, Len(v[2]))>>

value_second(v, n) ==
  IF Len(v[1]) > n THEN <<Part(v[1], n + 1, Len(v[1])), v[2]>>
  ELSE <<<<>>, Part(v[2], n - Len(v[1]) + 1, Len(v[2]))>>

value_first_second(v, n) == <<value_first(v, n), value_second(v, n)>>

(* One piece of memory: a part that is everything, else a copy. *)
value_to_continuous(v) ==
  CASE v[2] = <<>> -> v[1] [] v[1] = <<>> -> v[2] [] OTHER -> v[1] \o v[2]

------------------------------------------------------------------------------
(* The loop over "Connection". *)
Init ==
  /\ \E s \in BoundedSeq(Alphabet, MaxValue) : header \in Seams(s)
  /\ value = header /\ current_value = Zero
  /\ pc = "parse" /\ keep_alive = FALSE

(* Mutant of parse_element: the rest keeps only its second part. *)
parse_element_raw ==
  /\ pc = "parse" /\ value' = <<value_parse_comma(value).rest[2]>>
  /\ pc' = "done" /\ UNCHANGED <<header, current_value, keep_alive>>

parse_element ==
  LET r == value_parse_comma(value)
  IN /\ pc = "parse"
     /\ value' = r.rest
     /\ current_value' = value_trim(r.result)
     /\ keep_alive' = value_compare_case_mem(current_value', <<"k", "a">>)
     /\ pc' = IF keep_alive' \/ ~r.success THEN "done" ELSE "parse"
     /\ UNCHANGED header

Terminating == pc = "done" /\ UNCHANGED vars

Next == parse_element \/ Terminating
Spec == Init /\ [][Next]_vars /\ WF_vars(parse_element)

------------------------------------------------------------------------------
(* What the operators mean for one sequence of characters.                 *)
TrimmedSeq(s) == IF Ink(s) = {} THEN <<>> ELSE Part(s, Min(Ink(s)), Max(Ink(s)))
Commas(s) == {i \in DOMAIN s : s[i] = ","}
Elements(s) ==      \* between two neighbours of these positions
  LET ends == Commas(s) \union {0, Len(s) + 1}
  IN {Part(s, i + 1, Min({j \in ends : j > i}) - 1) : i \in ends \ {Len(s) + 1}}
Decimal(s) ==
  LET number[i \in 0 .. Len(s)] == IF i = 0 THEN 0 ELSE 10 * number[i - 1] + Digits[s[i]]
  IN number[Len(s)]
IsNumber(s) == \A i \in DOMAIN s : s[i] \in DOMAIN Digits

TypeOK ==
  /\ keep_alive \in BOOLEAN /\ pc \in {"parse", "done"}
  /\ \A v \in {header, value, current_value} :
       Len(v) = 2 /\ Len(Flat(v)) <= MaxValue /\ Range(Flat(v)) \subseteq Alphabet

(* value_trim removes the spaces at both ends, and nothing else, also when *)
(* one of the parts is nothing but spaces.                                 *)
TrimIsExact == Flat(value_trim(value)) = TrimmedSeq(Flat(value))

(* value_to_uint never wraps around: what it accepts is the exact number,  *)
(* and it accepts every number below the last ten.                         *)
UintIsExact ==
  LET s == Flat(value) n == value_to_uint(value)
  IN /\ n # -1 => IsNumber(s) /\ n = Decimal(s) /\ n <= UINT_MAX
     /\ IsNumber(s) /\ Decimal(s) < 10 * ((UINT_MAX - 9) \div 10) => n = Decimal(s)

(* Cutting a value anywhere loses and repeats nothing, wherever its seam   *)
(* is (value_first, value_second, value_first_second), and a copy or a     *)
(* piece of it is the same text (value_to_continuous).                     *)
CutIsExact ==
  \A n \in 0 .. Len(Flat(value)) :
    LET cut == value_first_second(value, n) s == Flat(value)
    IN /\ Flat(cut[1]) = Part(s, 1, n) /\ Flat(cut[2]) = Part(s, n + 1, Len(s))
       /\ value_to_continuous(cut[2]) = Flat(cut[2])
       /\ value_compare_mem(cut[1], Part(s, 1, n))

(* The loop finds keep-alive exactly if it is an element of the header,    *)
(* with spaces around it or not, wherever the header wraps in the ring.    *)
KeepAliveIsExact ==
  pc = "done" =>
    (keep_alive <=> \E e \in Elements(Flat(header)) :
                      value_compare_case_mem(<<TrimmedSeq(e), <<>>>>, <<"k", "a">>))

(* The loop ends: value_parse_comma at last has nothing to return. *)
LoopEnds == <>(pc = "done")
=============================================================================
