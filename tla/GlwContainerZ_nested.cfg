\* A container_z holding a container_x row, a backdrop and an overlay.
CONSTANTS
  NULL = NULL
  Ids <- MCIds
  InitReq <- MCInitReq
  ReqChoices <- MCReqChoices
  Homogenous = FALSE
  Alignment = "left"
  Spacings = {3}
  Paddings <- MCPaddings
  Widths = {50}
  Height = 20
  Row = "row"
  Leaves <- MCLeaves
  LeafInit <- MCLeafInit
  LeafChoices <- MCLeafChoices
  Unconstrained <- MCUnconstrained
SPECIFICATION Spec
INVARIANT ZConstraintsCurrent
CHECK_DEADLOCK FALSE
