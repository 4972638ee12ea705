\* The target of a request: in every registration order the WebSocket route
\* is never shadowed, and a request line is accepted only with the three
\* fields it has and resolves to the route its URL field names (on a build
\* where char is unsigned).
CONSTANTS
  NULL = NULL
  PlainRoutes <- MCPlainRoutes
  WsPaths <- MCWsPathsOne
  Urls <- MCUrls
  CharSigned = FALSE
  CmdTab <- MCCmdTab
  VersionTab <- MCVersionTab
  Lines <- MCLines
  Glyph <- MCGlyph
SPECIFICATION Spec
INVARIANT TypeOK
INVARIANT WsRouteNeverShadowed
INVARIANT RequestTargetAsSent
CHECK_DEADLOCK FALSE
