SPECIFICATION TransportSpec
CONSTANTS
  p1 = p1
  p2 = p2
  Peers = {p1, p2}
  MAX_CLIENTS = 2
  CHUNK_SEND_REPEATS = 2
  CHUNK_SEND_SIMULTANEOUS = 2
  CHUNK_SEND_REPEAT_TIME = 1
  ChunkNumbers = {0, 3}
  MaxRequests = 1
  MaxReceived = 4
  MaxFaults = 0
  Again <- TwoRequests
  CHUNK_SIZE = 8
  Sizes <- PageSizes
  Seqs <- FirstChunks
  Off = Off
INVARIANTS
  TypesOK NoMessageLeft
  Reassembled
PROPERTIES
  Delivered Patient AllTransfersEnd
