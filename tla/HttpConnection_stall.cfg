\* Input left in the queue when http_handle_input returns: a request behind a
\* POST body or behind a stray empty line, a frame whose payload mymalloc could
\* not allocate; it waits for bytes that may never come.
CONSTANTS
  NULL = NULL
  MallocOutcomes <- MCFrameFailures
  HttpPaths <- MCHttpPaths
  HandlerResult <- MCHandlerResult
  WsInitResult <- MCWsInitResult
  Streams <- MCBufferedBehindReturn
SPECIFICATION SafetySpec
PROPERTY InputConsumed
CHECK_DEADLOCK FALSE
