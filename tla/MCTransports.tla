---------------------------- MODULE MCTransports ----------------------------
(* Guppy with pages of three chunks, two of them sent at a time, and enough *)
(* datagrams for a page to arrive and be acknowledged.                     *)
EXTENDS Transports

(* Where each peer asks twice: pages of two chunks, one after the other. *)
TwoRequests ==
  [CHUNK_SEND_SIMULTANEOUS |-> 1, ChunkNumbers |-> {0, 2}, MaxRequests |-> 2, MaxFaults |-> 1]
WithoutFaults == [TwoRequests EXCEPT !.MaxFaults = 0]
(* Numbers around 10 and 100: a page gains a digit in its middle.          *)
PageSizes == 1 .. 40
FirstChunks == (6 .. 13) \union (94 .. 101)
=============================================================================
