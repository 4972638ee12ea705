\* Constraint cache across every signal path, spacing changes included.
CONSTANTS
  NULL = NULL
  Ids <- MCIdsRow
  InitReq <- MCInitReq
  ReqChoices <- MCReqChoicesCache
  Homogenous = FALSE
  Alignment = "left"
  Spacings = {0, 3}
  Paddings <- MCPaddings
  Widths = {50}
  Height = 20
SPECIFICATION Spec
INVARIANT TypeOK
INVARIANT ConstraintsMatchChildren
CHECK_DEADLOCK FALSE
