SPECIFICATION Spec
CONSTANTS
  MAX_CLIENTS = 1
  ACCEPTING_SOCKETS = 2
  MAX_REQUEST_SIZE = 1
  MAX_REQUEST_STREAM_SIZE = 1
  MAX_RESPONSE_STREAM_SIZE = 1
  MaxConns = 3
  MaxTraffic = 1
  MaxResponse = 2
INVARIANT ClientLimit
