------------------------------ MODULE ByteQueue ------------------------------
(***************************************************************************)
(* What a Ring promises to the rest of the server: an unbounded first-in   *)
(* first-out queue of bytes.  Neither the capacity nor the place of a byte *)
(* in memory is visible here.  The queue is a function on 0..(count-1), so *)
(* that an index is the "offset" of struct ValueLocation.                  *)
(***************************************************************************)
EXTENDS Integers

CONSTANTS
  Byte,       \* the values a queued byte can have
  Garbage,    \* the content of memory nobody has written yet
  MaxSize     \* the largest size a caller passes to one operation

VARIABLES
  count,      \* how many bytes are queued
  bytes,      \* the queued bytes, oldest first
  out,        \* the bytes the last successful removal handed to its caller
  error       \* how the last call ended

vars == <<count, bytes, out, error>>

Cell  == Byte \cup {Garbage}
Sizes == 0 .. MaxSize

(***************************************************************************)
(* The errors a caller can be told of: more bytes removed than queued, a   *)
(* location outside the queue, more bytes added than reserved, no memory,  *)
(* or a failing socket.                                                    *)
(***************************************************************************)
Errors == {"none", "underflow", "range", "capacity", "memory"}

Nothing == [i \in {} |-> Garbage]

Init ==
  /\ count = 0
  /\ bytes = Nothing
  /\ out = Nothing
  /\ error = "none"

(* n new bytes go behind the queued ones. *)
Append(n, data) ==
  /\ count' = count + n
  /\ bytes' = [i \in 0 .. (count + n - 1) |->
                 IF i < count THEN bytes[i] ELSE data[i - count]]
  /\ out' = Nothing
  /\ error' = "none"

(* The n oldest bytes leave the queue and the caller gets to see them. *)
Remove(n) ==
  /\ n <= count
  /\ count' = count - n
  /\ bytes' = [i \in 0 .. (count - n - 1) |-> bytes[i + n]]
  /\ out' = [i \in 0 .. (n - 1) |-> bytes[i]]
  /\ error' = "none"

(* The n youngest bytes are taken back. *)
TakeBack(n) ==
  /\ n <= count
  /\ count' = count - n
  /\ bytes' = [i \in 0 .. (count - n - 1) |-> bytes[i]]
  /\ out' = Nothing
  /\ error' = "none"

(* n bytes from offset on are overwritten in place. *)
Overwrite(offset, n, data) ==
  /\ offset + n <= count
  /\ bytes' = [i \in 0 .. (count - 1) |->
                 IF offset <= i /\ i < offset + n THEN data[i - offset]
                                                  ELSE bytes[i]]
  /\ out' = Nothing
  /\ error' = "none"
  /\ UNCHANGED count

(* A call that changes no byte: more room was reserved, or the call failed. *)
Keep(e) ==
  /\ e = "underflow" => \E n \in Sizes : n > count
  /\ e = "range" => \E offset, n \in Sizes : offset + n > count
  /\ out' = Nothing
  /\ error' = e
  /\ UNCHANGED <<count, bytes>>

(* The queue is thrown away, after an error of the socket or by its owner. *)
Discard(e) ==
  /\ count' = 0
  /\ bytes' = Nothing
  /\ out' = Nothing
  /\ error' = e

Next ==
  \/ \E n \in Sizes : \E data \in [0 .. (n - 1) -> Cell] : Append(n, data)
  \/ \E n \in Sizes : Remove(n) \/ TakeBack(n)
  \/ \E n \in Sizes, offset \in 0 .. count : \E data \in [0 .. (n - 1) -> Cell] :
       Overwrite(offset, n, data)
  \/ \E e \in Errors : Keep(e)
  \/ \E e \in {"none", "io"} : Discard(e)

Spec == Init /\ [][Next]_vars
==============================================================================
