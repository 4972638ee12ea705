\* The same column: a child hidden, faded out, and then retired.
CONSTANTS
  NULL = NULL
  Ids <- MCIds
  InitReq <- MCInitReq
  ReqChoices <- MCReqChoices
  Autofade = TRUE
  Alignment = "top"
  Spacing = 2
  Paddings <- MCPaddings
  RcWidth = 20
  Heights = {30, 60}
  FadeSteps = 2
SPECIFICATION Spec
PROPERTY RetiredChildDestroyed
CHECK_DEADLOCK FALSE
