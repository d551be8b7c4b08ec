----------------------------- MODULE Transports ------------------------------
(* What carries a response over datagrams: Guppy (with one request of each *)
(* peer, and with peers that ask again and faults) and the cutting of a    *)
(* page into its chunks.  They share no state, so every behaviour is one   *)
(* of one of them.  The variable machine tells of which; the variables of  *)
(* Chunks are Off in the others, and those of Guppy stay as they are in    *)
(* the beginning.                                                          *)
EXTENDS Guppy

CONSTANTS
  Off,
  Again,                   \* Guppy's constants where peers ask again
  CHUNK_SIZE, Sizes, Seqs  \* of Chunks

VARIABLES
  machine,
  page, buffer, first_chunk, chunk_number, seq, chunk_total_sizes,
  total_size, payload_size, packets,                           \* Chunks
  cut, step                              \* message and pc of Chunks

ofChunks == <<page, buffer, first_chunk, chunk_number, seq, chunk_total_sizes, total_size,
              payload_size, packets, cut, step>>
transportVars == <<machine, vars, ofChunks>>

ChunksOff ==
  /\ page = Off /\ buffer = Off /\ first_chunk = Off /\ chunk_number = Off /\ seq = Off
  /\ chunk_total_sizes = Off /\ total_size = Off /\ payload_size = Off /\ packets = Off /\ cut = Off
  /\ step = Off

A == INSTANCE Guppy WITH
  CHUNK_SEND_SIMULTANEOUS <- Again.CHUNK_SEND_SIMULTANEOUS, ChunkNumbers <- Again.ChunkNumbers,
  MaxRequests <- Again.MaxRequests, MaxFaults <- Again.MaxFaults
C == INSTANCE Chunks WITH pc <- step, message <- cut

ASSUME TransportsAssumption == GuppyAssumption /\ A!GuppyAssumption /\ C!ChunksAssumption

-----------------------------------------------------------------------------
TransportInit ==
  \/ /\ \/ machine = "guppy" /\ Init
        \/ machine = "again" /\ A!Init
     /\ ChunksOff
  \/ machine = "chunks" /\ C!Init /\ Init

OnlyGuppy(own) == machine = own /\ UNCHANGED <<machine, ofChunks>>

Serve == OnlyGuppy("guppy") /\ Server
Time == OnlyGuppy("guppy") /\ Wake
Datagrams == OnlyGuppy("guppy") /\ Next
DatagramsAgain == OnlyGuppy("again") /\ A!Next
Cutting == machine = "chunks" /\ C!Next /\ UNCHANGED <<machine, vars>>

TransportNext == Datagrams \/ DatagramsAgain \/ Cutting

(* The server goes on.  While poll() is armed, time passes, however often  *)
(* other events wake it.  Datagrams need not arrive.                       *)
TransportSpec ==
  /\ TransportInit /\ [][TransportNext]_transportVars
  /\ WF_transportVars(Serve) /\ SF_transportVars(Time)

-----------------------------------------------------------------------------
(* The state of each component is what its C declarations allow: indices,  *)
(* counters of repetitions and sizes stay in their ranges.                 *)
TypesOK ==
  CASE machine = "guppy" -> TypeOK
    [] machine = "again" -> A!TypeOK
    [] machine = "chunks" -> C!TypeOK

(* A datagram goes to the client of the peer that sent it, and none waits  *)
(* when clients_remove_finalized runs, whatever comes late, twice or       *)
(* between: as long as no client is closed whose datagram waits            *)
(* (MessageTaken of Guppy; for the others MCTransportsOwner).              *)
NoMessageLeft ==
  CASE machine = "guppy" -> MessageTaken
    [] machine = "again" -> A!MessageTaken
    [] machine = "chunks" -> TRUE

(* Every transfer ends, however many datagrams are lost: the server wakes  *)
(* to repeat its chunks and counts the repetitions.  (The behaviour may    *)
(* stop before, when a client is closed that owns the shared response.)    *)
AllTransfersEnd ==
  \A t \in Transfers :
    (machine = "guppy" /\ outcome[t] = "open")
      ~> (machine = "guppy" => outcome[t] # "open" \/ pc = "orphaned")

(* The packets that server_send_message cuts off are the ones that         *)
(* guppy_insert_markers laid out, and put together they are the page;      *)
(* moving the page apart in place destroys nothing still to be moved.      *)
Reassembled == machine = "chunks" => C!Reassembled /\ C!FrontUntouched
=============================================================================
