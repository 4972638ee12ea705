--------------------------- MODULE GlwContainerZ ---------------------------
(***************************************************************************)
(* container_z of src/src/ui/glw/glw_container.c holding a container_x     *)
(* among its children: a row (GlwContainer) stacked with leaf widgets.     *)
(*                                                                         *)
(* container_z publishes the constraints of one child: the first visible  *)
(* child with constraint flags, else the first visible child whose class  *)
(* is not GLW_UNCONSTRAINED (glw_container_z_constraints).  The row's      *)
(* constraints are those its own constraint round publishes; every round  *)
(* of the row that changes them signals CHILD_CONSTRAINTS_CHANGED to the  *)
(* parent (glw_set_constraints, in glw.c outside this repository).         *)
(* A z layout pass lays out every visible child with the same rc, which   *)
(* for the row is glw_container_x_layout.                                  *)
(***************************************************************************)
EXTENDS Integers, Sequences, SequencesExt, FiniteSets

CONSTANTS
  Ids, InitReq, ReqChoices, Homogenous, Alignment, Spacings, Paddings,
  Widths, Height, NULL,   \* the row's children and attributes (GlwContainer)
  Row,           \* the container_x child of the container_z
  Leaves,        \* leaf widgets that may be created in the container_z
  LeafInit,      \* [Leaves -> constraints]: a leaf's first constraints
  LeafChoices,   \* [Leaves -> SUBSET constraints]: ones it may move to
  Unconstrained  \* leaves whose class has GLW_UNCONSTRAINED

VARIABLES
  childs, hidden, req, co, creq, refresh, laid,  \* the row
  zchilds,       \* glw_childs of the container_z, in TAILQ order
  zhidden,       \* GLW_HIDDEN of each of its children
  zreq,          \* each leaf's constraints [f, x, y, weight]
  zc             \* the container_z's own constraints

rowvars == <<childs, hidden, req, co, creq, refresh, laid>>
zvars == <<zchilds, zhidden, zreq, zc>>
vars == <<rowvars, zvars>>

X == INSTANCE GlwContainer

ZIds == Leaves \cup {Row}

(* glw_clear_constraints: no flags, no sizes, no weight.                   *)
Clear == [f |-> {}, x |-> 0, y |-> 0, weight |-> 0]

(* What glw_copy_constraints copies from a child: the row publishes       *)
(* width + spacing_width, its height and cflags, with no weight.           *)
ChildCons(c, rowreq, lreq) ==
  IF c = Row THEN [f |-> rowreq.f, x |-> rowreq.x, y |-> rowreq.y, weight |-> 0]
  ELSE lreq[c]

(* glw_container_z_constraints(w, skip).                                   *)
z_constraints(cs, hid, rowreq, lreq, skip) ==
  LET vis == SelectSeq(cs, LAMBDA c : ~hid[c] /\ c # skip)
      i1  == SelectInSeq(vis, LAMBDA c : ChildCons(c, rowreq, lreq).f # {})
      i2  == SelectInSeq(vis, LAMBDA c : c \notin Unconstrained)
  IN  CASE i1 # 0 -> ChildCons(vis[i1], rowreq, lreq)
        [] i2 # 0 -> ChildCons(vis[i2], rowreq, lreq)
        [] OTHER  -> Clear

\* Mutation: CHILD_DESTROYED runs the round without skipping the child.
z_callback_noskip(signal, extra) == NULL

\* glw_container_z_callback: the signals it handles and the child to skip;
\* CHILD_HIDDEN and CHILD_UNHIDDEN fall to "default: return 0".
ZHandled == {"constraints", "created", "destroyed"}
z_callback(signal, extra) == IF signal = "destroyed" THEN extra ELSE NULL

\* The container_z receives a signal about a child; unhandled ones change
\* nothing.
ZSignal(signal, extra, cs, hid, rowreq, lreq) ==
  zc' = IF signal \in ZHandled
        THEN z_constraints(cs, hid, rowreq, lreq, z_callback(signal, extra))
        ELSE zc

-----------------------------------------------------------------------------
Init ==
  /\ X!Init
  /\ zchilds = <<Row>>
  /\ zhidden = [c \in ZIds |-> FALSE]
  /\ zreq = LeafInit
  /\ zc = z_constraints(<<Row>>, zhidden, creq, zreq, NULL)

(* A step of the row that runs its constraint round; when the constraints *)
(* it publishes change, the container_z gets CHILD_CONSTRAINTS_CHANGED.    *)
RowStep ==
  /\ \/ \E c \in Ids : X!Create(c) \/ X!Destroy(c)
     \/ \E c \in Ids, h \in BOOLEAN : X!SetHidden(c, h)
     \/ \E c \in Ids : \E r \in ReqChoices[c] : X!ChildConstraints(c, r)
     \/ \E v \in Spacings : X!glw_container_set_int(v)
     \/ \E p \in Paddings : X!container_set_int16_4(p)
  /\ IF creq' # creq
     THEN ZSignal("constraints", Row, zchilds, zhidden, creq', zreq)
     ELSE zc' = zc
  /\ UNCHANGED <<zchilds, zhidden, zreq>>

\* A leaf is created at the tail of the list, then CHILD_CREATED.
ZCreate(c) ==
  /\ c \notin Range(zchilds)
  /\ zchilds' = Append(zchilds, c)
  /\ ZSignal("created", c, zchilds', zhidden, creq, zreq)
  /\ UNCHANGED <<rowvars, zhidden, zreq>>

\* glw_destroy of a leaf: CHILD_DESTROYED while still listed, then removal.
ZDestroy(c) ==
  /\ c \in Range(zchilds)
  /\ ZSignal("destroyed", c, zchilds, zhidden, creq, zreq)
  /\ zchilds' = SelectSeq(zchilds, LAMBDA d : d # c)
  /\ zhidden' = [zhidden EXCEPT ![c] = FALSE]
  /\ zreq' = [zreq EXCEPT ![c] = LeafInit[c]]
  /\ UNCHANGED rowvars

\* GLW_HIDDEN set or cleared on a child (the row included), then
\* CHILD_HIDDEN / CHILD_UNHIDDEN.
ZSetHidden(c, h) ==
  /\ c \in Range(zchilds)
  /\ zhidden[c] # h
  /\ zhidden' = [zhidden EXCEPT ![c] = h]
  /\ ZSignal(IF h THEN "hidden" ELSE "unhidden", c, zchilds, zhidden', creq, zreq)
  /\ UNCHANGED <<rowvars, zchilds, zreq>>

\* A leaf's constraints change: CHILD_CONSTRAINTS_CHANGED.
ZChildConstraints(c, r) ==
  /\ c \in Range(zchilds)
  /\ zreq[c] # r
  /\ zreq' = [zreq EXCEPT ![c] = r]
  /\ ZSignal("constraints", c, zchilds, zhidden, creq, zreq')
  /\ UNCHANGED <<rowvars, zchilds, zhidden>>

\* glw_container_z_layout: glw_layout0 of every visible child with the
\* container's rc; the row lays out its children at rc_width rcw.
glw_container_z_layout(rcw) ==
  /\ ~zhidden[Row]
  /\ X!glw_container_x_layout(rcw)
  /\ UNCHANGED zvars

Next ==
  \/ RowStep
  \/ \E c \in Leaves : ZCreate(c) \/ ZDestroy(c)
  \/ \E c \in ZIds, h \in BOOLEAN : ZSetHidden(c, h)
  \/ \E c \in Leaves : \E r \in LeafChoices[c] : ZChildConstraints(c, r)
  \/ \E rcw \in Widths : glw_container_z_layout(rcw)

Spec == Init /\ [][Next]_vars

-----------------------------------------------------------------------------
(***************************************************************************)
(* Properties.                                                             *)
(***************************************************************************)
(* The constraints the container_z publishes are the current constraints  *)
(* of a child still in its list (or cleared): a change of the row's own   *)
(* constraints, made by the row's children and attributes, reaches the    *)
(* parent, and CHILD_DESTROYED does not leave the constraints of the       *)
(* child that went away.                                                   *)
ZConstraintsCurrent ==
  \/ zc = Clear
  \/ \E c \in Range(zchilds) : zc = ChildCons(c, creq, zreq)

(* The constraints the container_z publishes are those its constraint     *)
(* round gives for its current children: the first visible constrained    *)
(* child's, else the first visible constrained-class child's, else none;  *)
(* a hidden child's constraints are not published.                        *)
ZConstraintsMatchChildren ==
  zc = z_constraints(zchilds, zhidden, creq, zreq, NULL)
=============================================================================
