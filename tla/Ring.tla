-------------------------------- MODULE Ring --------------------------------
(***************************************************************************)
(* struct Ring (include/ring.h, source/ring.c): a growing circular byte    *)
(* buffer.  Every client owns three of them, and everything it receives    *)
(* and everything it is sent passes through one.                           *)
(*                                                                         *)
(* The functions of ring.c are operators on a ring; an action is one call  *)
(* made by the server, with all the ring operations the caller performs.   *)
(* The caller reads and writes the bytes through a struct MutableValue:    *)
(* two continuous parts, the second used when the bytes wrap around the    *)
(* end of the memory.  p = NULL is capacity = 0.                           *)
(***************************************************************************)
EXTENDS Integers

CONSTANTS
  Byte,         \* the values of a byte
  Garbage,      \* the content of a byte of memory nobody has written
  MaxSize,      \* bound: the largest size passed to one call
  MaxCapacity   \* bound: the largest capacity asked of ring_reserve

ASSUME RingAssumption ==
  /\ Garbage \notin Byte
  /\ MaxSize \in Nat
  /\ MaxCapacity \in Nat

VARIABLES
  ring,         \* the struct Ring
  g_memory,     \* bytes counted by count_realloc and count_free
  out,          \* the bytes the last removal handed to its caller
  error         \* how the last call ended

vars == <<ring, g_memory, out, error>>

Cell    == Byte \cup {Garbage}
Sizes   == 0 .. MaxSize
Nothing == [i \in {} |-> Garbage]
Data(n) == [0 .. (n - 1) -> Byte]

------------------------------------------------------------------------------
(* struct MutableValue: two parts, each a first address and a size.        *)

Value(p1, n1, p2, n2) == <<[p |-> p1, size |-> n1], [p |-> p2, size |-> n2]>>

value_size(v) == v[1].size + v[2].size

(* The address of byte i of a value. *)
Address(v, i) ==
  IF i < v[1].size THEN v[1].p + i ELSE v[2].p + (i - v[1].size)

value_read(r, v) == [i \in 0 .. (value_size(v) - 1) |-> r.p[Address(v, i)]]

(* The first k bytes of the value get the bytes of data, part after part. *)
Written(r, v, k, data) ==
  [r EXCEPT !.p =
    [a \in 0 .. (r.capacity - 1) |->
      IF v[1].p <= a /\ a < v[1].p + v[1].size /\ a - v[1].p < k
        THEN data[a - v[1].p]
      ELSE IF v[2].p <= a /\ a < v[2].p + v[2].size
              /\ v[1].size + (a - v[2].p) < k
        THEN data[v[1].size + (a - v[2].p)]
      ELSE r.p[a]]]

value_write(r, v, data) == Written(r, v, value_size(v), data)

------------------------------------------------------------------------------
(* The functions of ring.c.                                                *)

EmptyRing == [p |-> Nothing, size |-> 0, capacity |-> 0, begin |-> 0]

ContinuousAfterBegin(r) == r.capacity - r.begin

(***************************************************************************)
(* The result of the doubling loop of ring_reserve: the first of b, 2b,    *)
(* 4b ... that is at least c.  It is never below the capacity, so that the *)
(* branch "Shrinking" of the function cannot be entered.                   *)
(***************************************************************************)
NewCapacities(r, c) ==
  LET b == IF r.capacity = 0 THEN 1 ELSE r.capacity
  IN  {n \in b .. (b + 2 * c) :
         /\ c <= n
         /\ n = b \/ n < 2 * c
         /\ \E k \in 0 .. n : n = b * 2^k}

(* Mutant of Expanded: the wrapped first part is not moved to the new end. *)
ExpandedInPlace(r, n) ==
  [p        |-> [a \in 0 .. (n - 1) |-> IF a < r.capacity THEN r.p[a] ELSE Garbage],
   size     |-> r.size,
   capacity |-> n,
   begin    |-> r.begin]

(* realloc to n > capacity bytes, then the first part moves to the new end. *)
Expanded(r, n) ==
  LET wrapped == r.size > ContinuousAfterBegin(r)
      expand  == n - r.capacity
  IN  [p        |-> [a \in 0 .. (n - 1) |->
                       IF wrapped /\ a >= r.begin + expand THEN r.p[a - expand]
                       ELSE IF a < r.capacity THEN r.p[a]
                       ELSE Garbage],
       size     |-> r.size,
       capacity |-> n,
       begin    |-> IF wrapped THEN r.begin + expand ELSE r.begin]

Reserved(r, n) == IF n = r.capacity THEN r ELSE Expanded(r, n)

ring_get_all(r) ==
  IF r.capacity = 0 THEN Value(0, 0, 0, 0)
  ELSE IF r.size <= ContinuousAfterBegin(r) THEN Value(r.begin, r.size, 0, 0)
  ELSE Value(r.begin, ContinuousAfterBegin(r),
             0, r.size - ContinuousAfterBegin(r))

(* Mutant of PartsAt: behind the wrap, the distance from it is forgotten. *)
PartsAtWrap(r, offset, n) ==
  LET after == ContinuousAfterBegin(r) - offset
  IN  IF n = 0 THEN Value(0, 0, 0, 0)
      ELSE IF after <= 0 THEN Value(0, n, 0, 0)
      ELSE IF n <= after THEN Value(r.begin + offset, n, 0, 0)
      ELSE Value(r.begin + offset, after, 0, n - after)

(* The parts holding the n bytes from an offset, counted from the oldest. *)
PartsAt(r, offset, n) ==
  LET after == ContinuousAfterBegin(r) - offset
  IN  IF n = 0 THEN Value(0, 0, 0, 0)
      ELSE IF after = 0 THEN Value(0, n, 0, 0)
      ELSE IF after < 0 THEN Value(0 - after, n, 0, 0)
      ELSE IF n <= after THEN Value(r.begin + offset, n, 0, 0)
      ELSE Value(r.begin + offset, after, 0, n - after)

(* A location's offset counts from the oldest byte, or from the youngest. *)
First(r, offset, n, latest) == IF latest THEN r.size - n - offset ELSE offset

ring_get(r, offset, n, latest) == PartsAt(r, First(r, offset, n, latest), n)

Pushed(r, n) == [r EXCEPT !.size = r.size + n]

push_get(r, n) == ring_get(Pushed(r, n), 0, n, TRUE)

Popped(r, n) ==
  LET begin == IF n <= ContinuousAfterBegin(r)
                 THEN r.begin + n
                 ELSE n - ContinuousAfterBegin(r)
  IN  [r EXCEPT !.size  = r.size - n,
                !.begin = IF r.size - n = 0 THEN 0 ELSE begin]

Unpushed(r, n) == [r EXCEPT !.size = r.size - n]

------------------------------------------------------------------------------
(* The calls.                                                              *)

Init ==
  /\ ring = EmptyRing
  /\ g_memory = 0
  /\ out = Nothing
  /\ error = "none"

Fail(e) ==
  /\ error' = e
  /\ out' = Nothing
  /\ UNCHANGED <<ring, g_memory>>

Succeed(r) ==
  /\ ring' = r
  /\ g_memory' = g_memory + (r.capacity - ring.capacity)
  /\ out' = Nothing
  /\ error' = "none"

(* Mutant of ring_finalize: free instead of count_free. *)
ring_finalize_uncounted ==
  /\ ring' = EmptyRing
  /\ out' = Nothing
  /\ error' = "none"
  /\ UNCHANGED g_memory

ring_finalize == Succeed(EmptyRing)

(* realloc is called, and can fail, only when the capacity changes. *)
NoMemory(n) == n # ring.capacity /\ Fail("memory")

ring_reserve(c) ==
  \E n \in NewCapacities(ring, c) :
    \/ Succeed(Reserved(ring, n))
    \/ NoMemory(n)

(* The caller has not written yet: the bytes are what the memory holds. *)
ring_push(n) ==
  \/ /\ ring.size + n <= ring.capacity
     /\ Succeed(Pushed(ring, n))
  \/ /\ ring.size + n > ring.capacity
     /\ Fail("capacity")

ring_push_write(n, data) ==
  \/ /\ ring.size + n <= ring.capacity
     /\ Succeed(value_write(Pushed(ring, n), push_get(ring, n), data))
  \/ /\ ring.size + n > ring.capacity
     /\ Fail("capacity")

(* A response's metadata is patched in place through ring_get. *)
ring_get_write(offset, n, latest, data) ==
  \/ /\ offset + n <= ring.size
     /\ Succeed(value_write(ring, ring_get(ring, offset, n, latest), data))
  \/ /\ offset + n > ring.size
     /\ Fail("range")

ring_pop_read(n) ==
  \/ /\ n <= ring.size
     /\ ring' = Popped(ring, n)
     /\ out' = value_read(ring, ring_get(ring, 0, n, FALSE))
     /\ error' = "none"
     /\ UNCHANGED g_memory
  \/ /\ n > ring.size
     /\ Fail("underflow")

ring_unpush(n) ==
  \/ /\ n <= ring.size
     /\ Succeed(Unpushed(ring, n))
  \/ /\ n > ring.size
     /\ Fail("underflow")

------------------------------------------------------------------------------
(* The callers that perform several ring operations in a row.              *)

(***************************************************************************)
(* server_receive_stream: n bytes are reserved and pushed, read() fills    *)
(* the first k of them part after part, the rest is pushed back.           *)
(***************************************************************************)
server_receive_stream(n, k, data) ==
  /\ ring.size + n <= MaxCapacity
  /\ \E m \in NewCapacities(ring, ring.size + n) :
       LET r == Reserved(ring, m)
           w == Written(Pushed(r, n), push_get(r, n), k, data)
       IN  \/ Succeed(Unpushed(w, n - k))
           \/ NoMemory(m)

(***************************************************************************)
(* A failing read() leaves the pushed bytes in the ring; the caller then   *)
(* closes the client, and client_finalize drops the ring, in the same call *)
(* of server_process_client.                                               *)
(***************************************************************************)
server_receive_stream_failed ==
  /\ ring' = EmptyRing
  /\ g_memory' = g_memory - ring.capacity
  /\ out' = Nothing
  /\ error' = "io"

(* server_reserve_push_value: a value of two parts is appended. *)
server_reserve_push_value(n, k, data) ==
  /\ ring.size + n <= MaxCapacity
  /\ \E m \in NewCapacities(ring, ring.size + n) :
       LET r  == Reserved(ring, m)
           r1 == value_write(Pushed(r, k), push_get(r, k), data)
           r2 == value_write(Pushed(r1, n - k), push_get(r1, n - k),
                             [i \in 0 .. (n - k - 1) |-> data[k + i]])
       IN  \/ Succeed(r2)
           \/ NoMemory(m)

(* server_send_long_output_buffer: send() takes k bytes of the whole value. *)
server_send_long_output_buffer(k) ==
  /\ k <= ring.size
  /\ ring' = Popped(ring, k)
  /\ out' = [i \in 0 .. (k - 1) |-> value_read(ring, ring_get_all(ring))[i]]
  /\ error' = "none"
  /\ UNCHANGED g_memory

Next ==
  \/ ring_finalize
  \/ \E c \in 0 .. MaxCapacity : ring_reserve(c)
  \/ \E n \in Sizes :
       \/ ring_push(n)
       \/ ring_pop_read(n)
       \/ ring_unpush(n)
       \/ server_send_long_output_buffer(n)
  \/ \E n \in Sizes : \E data \in Data(n) :
       \/ ring_push_write(n, data)
       \/ \E offset \in Sizes, latest \in BOOLEAN :
            ring_get_write(offset, n, latest, data)
       \/ \E k \in 0 .. n : server_receive_stream(n, k, data)
       \/ \E k \in 0 .. n : server_reserve_push_value(n, k, data)
  \/ server_receive_stream_failed

Spec == Init /\ [][Next]_vars

------------------------------------------------------------------------------
(* Properties.                                                             *)

(* A ring's memory holds capacity bytes and its fields stay inside it. *)
RingOK(r) ==
  r \in [p : [0 .. (r.capacity - 1) -> Cell], size : 0 .. r.capacity,
         capacity : Nat, begin : 0 .. r.capacity]

(* The ring is well formed and g_memory counts exactly its memory. *)
TypeOK ==
  /\ RingOK(ring)
  /\ g_memory = ring.capacity
  /\ error \in {"none", "underflow", "range", "capacity", "memory", "io"}

(* The place in memory of the byte at an offset from the oldest one. *)
Slot(r, i) ==
  IF r.begin + i < r.capacity THEN r.begin + i ELSE r.begin + i - r.capacity

Contents(r) == [i \in 0 .. (r.size - 1) |-> r.p[Slot(r, i)]]

Queue == INSTANCE ByteQueue WITH count <- ring.size, bytes <- Contents(ring)

(***************************************************************************)
(* However the bytes lie in memory, every call does to the queue of bytes  *)
(* what its comment in ring.h says: bytes leave in the order they came,    *)
(* growing, wrapping and unpushing lose, repeat or reorder none, and a     *)
(* refused call changes nothing.                                           *)
(***************************************************************************)
IsQueue == Queue!Spec

(***************************************************************************)
(* The parts handed out by ring_get lie inside the memory and address the  *)
(* bytes of the asked location, in order, whether counted from the oldest  *)
(* byte or from the youngest.                                              *)
(***************************************************************************)
GetAddressesLocation ==
  \A offset, n \in 0 .. ring.size : \A latest \in BOOLEAN :
    offset + n <= ring.size =>
      LET v == ring_get(ring, offset, n, latest)
      IN  /\ value_size(v) = n
          /\ \A j \in 1 .. 2 : v[j].p + v[j].size <= ring.capacity
          /\ \A i \in 0 .. (n - 1) :
               Address(v, i) =
                 Slot(ring, (IF latest THEN ring.size - offset - n ELSE offset) + i)

(***************************************************************************)
(* ring.h says ring_reserve "frees excess memory, unlike a buffer": asked  *)
(* for at most half of the capacity, with the content fitting, it shrinks. *)
(***************************************************************************)
ReserveFreesExcess ==
  [][\A c \in 1 .. MaxCapacity :
       /\ ring_reserve(c)
       /\ error' = "none"
       /\ ring.size <= c
       /\ 2 * c <= ring.capacity
       => ring'.capacity < ring.capacity]_vars
=============================================================================
