-------------------------- MODULE MCGlwContainerZ --------------------------
EXTENDS GlwContainerZ

R(f, x, y, w) == [f |-> f, x |-> x, y |-> y, weight |-> w]

\* The row: a label and a weighted child that may lose its constraints and
\* ask for a height.
MCIds == {"fix", "wgt"}
RowReq == [fix |-> R({"X", "Y"}, 20, 10, 0), wgt |-> R({"W"}, 0, 0, 2)]
RowMoreReq == [fix |-> {}, wgt |-> {R({"Y"}, 0, 14, 0)}]
MCInitReq == [c \in MCIds |-> RowReq[c]]
MCReqChoices == [c \in MCIds |-> RowMoreReq[c]]

\* A backdrop with a fixed size that may drop its constraints, and an
\* overlay of a GLW_UNCONSTRAINED class.
MCLeaves == {"bg", "ovl"}
MCLeafInit == [c \in MCLeaves |->
                 IF c = "bg" THEN R({"X", "Y"}, 50, 30, 0) ELSE R({}, 0, 0, 0)]
MCLeafChoices == [c \in MCLeaves |->
                    IF c = "bg" THEN {R({}, 0, 0, 0)} ELSE {}]
MCUnconstrained == {"ovl"}

MCPaddings == {<<4, 2, 6, 2>>}
=============================================================================
