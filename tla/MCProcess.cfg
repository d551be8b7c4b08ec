SPECIFICATION ProcessSpec
CONSTANTS
  RAND_MAX = 7
  MaxClients = 5
  Ports = 3
  Connections <- ThreeConnections
  One <- OneClient
  Other <- TwoClients
  MaxFrames = 4
  Directories <- LogDirectories
  MAX_TOTAL_LOG_NUMBER = 3
  MAX_TOTAL_LOG_SIZE = 5
  MAX_LOG_AGE = 4
  MAX_LOG_SIZE = 1
  DAY = 2
  Lengths = {1, 2}
  MaxTime = 7
  MaxOpenSize = 7
  Off = Off
INVARIANTS
  TypesOK EveryOnce Unbiased
  SocketsInPlace NothingLeaked
  TimeoutsInTime
  ErrorsHandled LogsKept
PROPERTY
  IdleEnds
