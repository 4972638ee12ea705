\* A POST refused for its Content-Length (absent, or above 16 MiB) or because
\* malloc of its buffer failed: the refusal does not close the connection and
\* its body is read as requests.
CONSTANTS
  NULL = NULL
  MallocOutcomes <- MCPostFailures
  HttpPaths <- MCHttpPaths
  HandlerResult <- MCHandlerResult
  WsInitResult <- MCWsInitResult
  Streams <- MCRefusedPostStreams
SPECIFICATION SafetySpec
INVARIANT RequestsFramedAsSent
CHECK_DEADLOCK FALSE
