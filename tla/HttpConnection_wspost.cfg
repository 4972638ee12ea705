\* A complete POST to a WebSocket route: http_read_post dispatches it
\* through the hp_callback http_add_websocket never set.
CONSTANTS
  NULL = NULL
  MallocOutcomes <- MCNoFailures
  HttpPaths <- MCHttpPaths
  HandlerResult <- MCHandlerResult
  WsInitResult <- MCWsInitResult
  Streams <- MCPostToWs
SPECIFICATION SafetySpec
INVARIANT CallbacksInitialized
CHECK_DEADLOCK FALSE
