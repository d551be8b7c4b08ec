SPECIFICATION Spec
CONSTANTS
  MAX_CLIENTS = 1
  ACCEPTING_SOCKETS = 2
  MAX_REQUEST_SIZE = 2
  MAX_REQUEST_STREAM_SIZE = 2
  MAX_RESPONSE_STREAM_SIZE = 2
  MaxConns = 2
  MaxTraffic = 2
  MaxResponse = 2
INVARIANT TypeOK
INVARIANT InOrder
INVARIANT NoPanic
INVARIANT NoLostWakeup
INVARIANT StreamsBounded
PROPERTY ClosedIsFinal
