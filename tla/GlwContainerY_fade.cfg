\* A faded column of a label, a weighted and a square child, retired and
\* hidden in every order; layout passes of a height that fits and one that
\* scales.
CONSTANTS
  NULL = NULL
  Ids <- MCIds
  InitReq <- MCInitReq
  ReqChoices <- MCReqChoices
  Autofade = TRUE
  Alignment = "top"
  Spacing = 2
  Paddings <- MCPaddings
  RcWidth = 20
  Heights = {30, 60}
  FadeSteps = 2
SPECIFICATION Spec
INVARIANT TypeOK
INVARIANT ConstraintsMatchChildren
INVARIANT SettledChildrenSpanPaddedArea
PROPERTY RetiredChildReleased
CHECK_DEADLOCK FALSE
