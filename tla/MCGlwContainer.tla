--------------------------- MODULE MCGlwContainer ---------------------------
EXTENDS GlwContainer

R(f, x, y, w) == [f |-> f, x |-> x, y |-> y, weight |-> w]

\* A fixed-width child (label), a weighted child and two square
\* (aspect -1) children (icons).
FirstReq ==
  [fix   |-> R({"X", "Y"}, 20, 10, 0),
   wgt   |-> R({"W"}, 0, 0, 2),
   asp   |-> R({"W"}, 0, 0, -1),
   asp2  |-> R({"W"}, 0, 0, -1)]

\* The label's text grows; the weighted child's weight drops to 0 or it
\* loses its constraints (counted with weight 1) and asks for a height.
MoreReq ==
  [fix   |-> {R({"X", "Y"}, 40, 10, 0)},
   wgt   |-> {R({"W"}, 0, 0, 0), R({"Y"}, 0, 14, 0)},
   asp   |-> {},
   asp2  |-> {}]

MCInitReq == [c \in Ids |-> FirstReq[c]]
MCReqChoices == [c \in Ids |-> MoreReq[c]]

\* The cache run: the label keeps its text.
MCReqChoicesCache == [c \in Ids |-> IF c = "fix" THEN {} ELSE MoreReq[c]]

MCIdsRow       == {"fix", "wgt", "asp"}
MCIdsIcons     == {"fix", "asp", "asp2"}

MCPaddings == {<<0, 0, 0, 0>>, <<4, 2, 6, 2>>}
=============================================================================
