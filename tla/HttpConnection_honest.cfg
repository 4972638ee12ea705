\* Well-behaved clients pipelining two requests, delivered in every chunking,
\* the peer closing at any point.
CONSTANTS
  NULL = NULL
  MallocOutcomes <- MCFrameFailures
  HttpPaths <- MCHttpPaths
  HandlerResult <- MCHandlerResult
  WsInitResult <- MCWsInitResult
  Streams <- MCHonestStreams
SPECIFICATION SafetySpec
INVARIANT TypeOK
 
INVARIANT FiniOnlyAfterInit
INVARIANT ResponsesMatchRequests
CHECK_DEADLOCK FALSE
