\* Every chunking of the client's stream, the reactor calling http_io_read
\* whenever bytes arrive; checks that all input is eventually consumed.
CONSTANTS
  NULL = NULL
  MallocOutcomes <- MCNoFailures
  HttpPaths <- MCHttpPaths
  HandlerResult <- MCHandlerResult
  WsInitResult <- MCWsInitResult
  Streams <- MCNoPipelineAfterPost
SPECIFICATION SafetySpec
PROPERTY InputConsumed
CHECK_DEADLOCK FALSE
