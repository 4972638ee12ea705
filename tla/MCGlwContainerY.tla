-------------------------- MODULE MCGlwContainerY --------------------------
EXTENDS GlwContainerY

R(f, x, y, w) == [f |-> f, x |-> x, y |-> y, weight |-> w]

\* A label of fixed size, a weighted child and a square (aspect -1) child.
FirstReq ==
  [fix |-> R({"X", "Y"}, 30, 10, 0),
   wgt |-> R({"W"}, 0, 0, 2),
   asp |-> R({"W"}, 0, 0, -1)]

\* The weighted child loses its weight and asks for a height instead.
MoreReq ==
  [fix |-> {},
   wgt |-> {R({"Y"}, 0, 14, 0)},
   asp |-> {}]

MCIds == {"fix", "wgt", "asp"}
MCInitReq == [c \in Ids |-> FirstReq[c]]
MCReqChoices == [c \in Ids |-> MoreReq[c]]
MCPaddings == {<<0, 0, 0, 0>>, <<4, 2, 6, 2>>}
=============================================================================
