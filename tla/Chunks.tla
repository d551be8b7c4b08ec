------------------------------- MODULE Chunks -------------------------------
(***************************************************************************)
(* A page for Guppy is cut into chunks twice, by two pieces of code that   *)
(* share nothing but conventions.  guppy_insert_markers                    *)
(* (source/processor/guppy_processor.c) measures the chunks forwards and   *)
(* then moves the page apart, backwards and in place, to put a sequence    *)
(* number in front of each.  server_send_message                           *)
(* (source/server/low_level.c) later cuts the result by sizes that it      *)
(* guesses from the number of chunks.  The last chunk has no payload; the  *)
(* numbers begin anywhere, so that they may gain a digit on the way.       *)
(***************************************************************************)
EXTENDS Integers, Sequences, SequencesExt

CONSTANTS
  CHUNK_SIZE,
  Sizes,      \* the sizes of a page
  Seqs        \* what random_rand may return for the first chunk

VARIABLES
  page,             \* history: the size of the page
  buffer,           \* the page, byte by byte; then what it becomes
  first_chunk, chunk_number, seq,
  chunk_total_sizes, total_size, payload_size,
  message,          \* of server_send_message: what is not yet cut off
  packets,          \* the chunks as they are sent
  pc

vars == <<page, buffer, first_chunk, chunk_number, seq, chunk_total_sizes,
          total_size, payload_size, message, packets, pc>>

(* Length and threshold, which grow until the threshold is above a: after  *)
(* a \div 10 turns at the latest.                                          *)
int_length(a) ==
  LET loop[turn \in 0 .. a \div 10] ==
        IF turn = 0 THEN <<1, 10>>
        ELSE LET last == loop[turn - 1]
             IN  IF a >= last[2] THEN <<last[1] + 1, last[2] * 10>> ELSE last
  IN loop[a \div 10][1]

ChunksAssumption ==
  /\ CHUNK_SIZE \in Nat /\ Sizes \subseteq Nat \ {0} /\ Seqs \subseteq Nat
  /\ \A s \in Seqs, n \in Sizes : int_length(s + n) + 2 < CHUNK_SIZE

(* Byte n of the page; byte i of a marker: a number, of which "%u" prints  *)
(* digits until nothing is left, and what follows it.                      *)
Byte(n) == [text |-> n]
Digits(n) ==
  LET left[d \in 0 .. n + 1] == IF d = 0 THEN n ELSE left[d - 1] \div 10
  IN CHOOSE d \in 1 .. n + 1 : left[d] = 0 /\ (d > 1 => left[d - 1] # 0)
extra(n) == [i \in 1 .. Digits(n) + (IF n = first_chunk THEN 1 ELSE 2) |-> [marker |-> n, at |-> i]]
Unset == [text |-> 0]       \* memory that string_resize adds

Init ==
  /\ page \in Sizes
  /\ buffer = [i \in 1 .. page |-> Byte(i)]
  /\ first_chunk \in Seqs /\ seq = first_chunk /\ chunk_number = 0
  /\ chunk_total_sizes = <<0, 0>> /\ total_size = 0 /\ payload_size = 0
  /\ message = <<>> /\ packets = <<>> /\ pc = "measure"

------------------------------------------------------------------------------
(* Mutant of Measure: a chunk has CHUNK_SIZE bytes besides its marker. *)
Measure_besides ==
  LET chunk_extra_size == int_length(seq) + (IF total_size = 0 THEN 1 ELSE 2)
      room == CHUNK_SIZE
      chunk_payload_size == IF page - payload_size < room THEN page - payload_size ELSE room
      chunk_total_size == chunk_extra_size + chunk_payload_size
  IN /\ pc = "measure"
     /\ chunk_total_sizes' = <<chunk_total_sizes[2], chunk_total_size>>
     /\ payload_size' = payload_size + chunk_payload_size
     /\ total_size' = total_size + chunk_total_size
     /\ IF chunk_payload_size = 0
        THEN /\ pc' = "insert"
             /\ chunk_number' = seq - first_chunk + 1
             /\ buffer' = buffer \o [i \in 1 .. total_size' - page |-> Unset]
             /\ UNCHANGED seq
        ELSE seq' = seq + 1 /\ UNCHANGED <<pc, chunk_number, buffer>>
     /\ UNCHANGED <<page, first_chunk, message, packets>>

(* One turn of the first loop: the size of the next chunk. *)
Measure ==
  LET chunk_extra_size == int_length(seq) + (IF total_size = 0 THEN 1 ELSE 2)
      room == CHUNK_SIZE - chunk_extra_size
      chunk_payload_size == IF page - payload_size < room THEN page - payload_size ELSE room
      chunk_total_size == chunk_extra_size + chunk_payload_size
  IN /\ pc = "measure"
     /\ chunk_total_sizes' = <<chunk_total_sizes[2], chunk_total_size>>
     /\ payload_size' = payload_size + chunk_payload_size
     /\ total_size' = total_size + chunk_total_size
     /\ IF chunk_payload_size = 0
        THEN /\ pc' = "insert"
             /\ chunk_number' = seq - first_chunk + 1
             /\ buffer' = buffer \o [i \in 1 .. total_size' - page |-> Unset]
             /\ UNCHANGED seq
        ELSE seq' = seq + 1 /\ UNCHANGED <<pc, chunk_number, buffer>>
     /\ UNCHANGED <<page, first_chunk, message, packets>>

(* memmove of n bytes, then memcpy of s: the first has its source as it was *)
(* before, also where both overlap.                                        *)
memmove(b, to, from, n) ==
  [i \in DOMAIN b |-> IF i \in (to + 1) .. (to + n) THEN b[i - to + from] ELSE b[i]]
memcpy(b, to, s) ==
  [i \in DOMAIN b |-> IF i \in (to + 1) .. (to + Len(s)) THEN s[i - to] ELSE b[i]]

(* Mutant of Insert: the marker is put in front of the chunk's place. *)
Insert_before ==
  LET chunk_total_size == chunk_total_sizes[2]
      chunk_payload_size == chunk_total_size - Len(extra(seq))
  IN /\ pc = "insert"
     /\ chunk_total_sizes' = <<CHUNK_SIZE, chunk_total_sizes[1]>>
     /\ payload_size' = payload_size - chunk_payload_size
     /\ total_size' = total_size - chunk_total_size
     /\ buffer' = memcpy(memmove(buffer, total_size', payload_size', chunk_payload_size),
                         total_size' - Len(extra(seq)), extra(seq))
     /\ IF seq = first_chunk
        THEN pc' = "send" /\ message' = buffer' /\ UNCHANGED seq
        ELSE seq' = seq - 1 /\ UNCHANGED <<pc, message>>
     /\ UNCHANGED <<page, first_chunk, chunk_number, packets>>

(* One turn of the second loop, from the last chunk to the first. *)
Insert ==
  LET chunk_total_size == chunk_total_sizes[2]
      chunk_payload_size == chunk_total_size - Len(extra(seq))
  IN /\ pc = "insert"
     /\ chunk_total_sizes' = <<CHUNK_SIZE, chunk_total_sizes[1]>>
     /\ payload_size' = payload_size - chunk_payload_size
     /\ total_size' = total_size - chunk_total_size
     /\ buffer' = memcpy(memmove(buffer, total_size' + Len(extra(seq)), payload_size', chunk_payload_size),
                         total_size', extra(seq))
     /\ IF seq = first_chunk
        THEN pc' = "send" /\ message' = buffer' /\ UNCHANGED seq
        ELSE seq' = seq - 1 /\ UNCHANGED <<pc, message>>
     /\ UNCHANGED <<page, first_chunk, chunk_number, packets>>

------------------------------------------------------------------------------
(* server_send_message *)
last_chunk == first_chunk + chunk_number - 1
(* Mutant of last_chunk_size: the last marker ends like the first. *)
last_chunk_size_space == int_length(last_chunk) + 1

last_chunk_size == int_length(last_chunk) + 2
second_last_chunk_size == Len(buffer) - last_chunk_size - CHUNK_SIZE * (chunk_number - 2)

chunk_size(chunk) ==
  CASE chunk = last_chunk - 1 -> second_last_chunk_size
    [] chunk = last_chunk -> last_chunk_size
    [] OTHER -> CHUNK_SIZE

(* One turn of its loop; module Values has value_first_second. *)
Cut ==
  LET n == chunk_size(first_chunk + Len(packets))
  IN /\ pc = "send"
     /\ packets' = Append(packets, SubSeq(message, 1, n))
     /\ message' = SubSeq(message, n + 1, Len(message))
     /\ pc' = IF Len(packets') = chunk_number THEN "done" ELSE "send"
     /\ UNCHANGED <<page, buffer, first_chunk, chunk_number, seq, chunk_total_sizes, total_size, payload_size>>

Terminating == pc = "done" /\ UNCHANGED vars

Next == Measure \/ Insert \/ Cut \/ Terminating
Spec == Init /\ [][Next]_vars

------------------------------------------------------------------------------
TypeOK ==
  /\ pc \in {"measure", "insert", "send", "done"}
  /\ seq \in first_chunk .. (first_chunk + page + 1)
  /\ total_size \in Nat /\ payload_size \in 0 .. page
  /\ \A i \in 1 .. 2 : chunk_total_sizes[i] \in 0 .. CHUNK_SIZE
  /\ Len(message) + Len(FlattenSeq(packets)) <= Len(buffer)

Marked(k) == extra(first_chunk + k - 1)
Payload(k) == SubSeq(packets[k], Len(Marked(k)) + 1, Len(packets[k]))

(* The two pieces of code agree.  Every packet that leaves the server is   *)
(* the marker of its number and a piece of the page, no packet exceeds     *)
(* CHUNK_SIZE, the pieces in their order are the page, and exactly the     *)
(* last one is empty, which tells the peer that it has everything.         *)
Reassembled ==
  pc = "done" =>
    /\ message = <<>>
    /\ \A k \in 1 .. chunk_number :
         /\ Len(packets[k]) <= CHUNK_SIZE
         /\ IsPrefix(Marked(k), packets[k])
         /\ Payload(k) = <<>> <=> k = chunk_number
    /\ FlattenSeq([k \in 1 .. chunk_number |-> Payload(k)]) = [i \in 1 .. page |-> Byte(i)]

(* Moving the page apart in place destroys nothing: while markers are put  *)
(* in from the back, what is still to be moved is still the page.          *)
FrontUntouched ==
  pc = "insert" => SubSeq(buffer, 1, payload_size) = [i \in 1 .. payload_size |-> Byte(i)]
=============================================================================
