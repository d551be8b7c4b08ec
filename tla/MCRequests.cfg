SPECIFICATION RequestSpec
CONSTANTS
  None = None
  Off = Off
  MAX_RESPONSE_STREAM_SIZE = 3
  RecordsOf = 2
  MaxRecords = 3
  Proper <- ProperRequests
  Disturbed <- DisturbedRequests
  Alphabet <- Characters
  UINT_MAX = 195
  MaxValue = 4
  HeaderElements <- LanguageElements
  MaxElements = 3
  MAX_LANGUAGE_SIZE = 2
  SiteProtocols <- Browsers
  TypedResources <- Typed
INVARIANTS
  TypesOK Accounted ShutDownOnce
  RequestInside TotalRequestSize
  SeamIsInvisible HeadersUnderstood
  LinksLead ResponseIsWhole
PROPERTY
  AllRecognised
