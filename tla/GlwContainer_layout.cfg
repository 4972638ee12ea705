\* Layout in the padded area, row of label, weighted, icon and plain children.
CONSTANTS
  NULL = NULL
  Ids <- MCIdsRow
  InitReq <- MCInitReq
  ReqChoices <- MCReqChoices
  Homogenous = FALSE
  Alignment = "left"
  Spacings = {0}
  Paddings <- MCPaddings
  Widths = {30, 60, 100}
  Height = 20
SPECIFICATION Spec
INVARIANT ChildrenSpanPaddedArea
INVARIANT ChildrenWithinContainer
CHECK_DEADLOCK FALSE
