SPECIFICATION FairSpec
CONSTANTS
  MAX_CLIENTS = 1
  ACCEPTING_SOCKETS = 1
  MAX_REQUEST_SIZE = 2
  MAX_REQUEST_STREAM_SIZE = 3
  MAX_RESPONSE_STREAM_SIZE = 3
  MaxConns = 1
  MaxTraffic = 4
  MaxResponse = 2
INVARIANT InOrder
INVARIANT Accounting
INVARIANT ServedInFull
PROPERTY CycleEnds
