--------------------------- MODULE GlwContainer ---------------------------
(***************************************************************************)
(* The horizontal GUI container container_x of                             *)
(* src/src/ui/glw/glw_container.c: the constraint round run on every       *)
(* child signal (glw_container_x_constraints), the cached sums it leaves   *)
(* in glw_container_t, the spacing and padding attributes, and the layout  *)
(* pass glw_container_x_layout that places the visible children.           *)
(*                                                                         *)
(* Sizes and weights are integers (aspect weights negative integers), so  *)
(* every float the layout computes is a rational with the denominator     *)
(* weight_sum (requests fit) or width (requests scaled); rintf is rounding *)
(* half to even of that rational.  Positions stay far below 2^24, where    *)
(* float arithmetic is exact on the integers involved.                     *)
(***************************************************************************)
EXTENDS Integers, Sequences, SequencesExt, FiniteSets, FiniteSetsExt

CONSTANTS
  Ids,          \* child widgets that may be created in the container
  InitReq,      \* [Ids -> request]: each child's first constraints
  ReqChoices,   \* [Ids -> SUBSET request]: constraints a child may move to
  Homogenous,   \* GLW2_HOMOGENOUS on the container
  Alignment,    \* glw_alignment: "left", "center" or "right"
  Spacings,     \* values the spacing attribute may be set to
  Paddings,     \* values the padding attribute may be set to (4-tuples)
  Widths,       \* rc_width values of the layout passes
  Height,       \* rc_height of the layout passes
  NULL          \* no skipped child

(* A request is what glw_filter_constraints(c) and the child's fields     *)
(* give: f the filtered constraint flags, x/y the requested sizes, weight *)
(* the requested weight.                                                  *)
Flags == {"X", "Y", "W"}

VARIABLES
  childs,       \* glw_childs, in TAILQ order
  hidden,       \* GLW_HIDDEN of each child
  req,          \* each child's current request
  co,           \* the glw_container_t fields
  creq,         \* the container's own constraints (glw_set_constraints)
  refresh,      \* glw_need_refresh was requested
  laid          \* the glw_container_item_t data of the last layout pass

vars == <<childs, hidden, req, co, creq, refresh, laid>>

(* Whatever an out-of-range float-to-int conversion yields: INT_MIN on    *)
(* x86 (cvttss2si), 0 for NaN on ARM.                                     *)
IntMin == -2147483647 - 1
UBInts == {IntMin, 0}

-----------------------------------------------------------------------------
(***************************************************************************)
(* glw_container_x_constraints(co, skip).                                  *)
(***************************************************************************)
Wt(r) == IF "W" \in r.f THEN r.weight ELSE 1

VisibleSeq(cs, hid, skip) == SelectSeq(cs, LAMBDA c : ~hid[c] /\ c # skip)

\* Mutation: the filtered flags are not masked to X|Y.
ConstraintFlags_nomask(r) == r.f

\* cflags |= f & (GLW_CONSTRAINT_X | GLW_CONSTRAINT_Y)
ConstraintFlags(r) == r.f \cap {"X", "Y"}

x_constraints(cs, hid, rq, c0, skip) ==
  LET vs    == Range(VisibleSeq(cs, hid, skip))
      fx    == {c \in vs : "X" \in rq[c].f}
      wch   == {c \in vs \ fx : "W" \in rq[c].f}
      plain == vs \ (fx \cup wch)
      big   == IF Homogenous /\ fx # {}
               THEN Max({rq[c].x : c \in fx}) ELSE 0
      fixw  == IF Homogenous THEN Cardinality(fx) * big
               ELSE MapThenSumSet(LAMBDA c : rq[c].x, fx)
      elems == Cardinality(vs) - Cardinality({c \in wch : rq[c].weight = 0})
  IN [c0 EXCEPT
        !.biggest       = big,
        !.using_aspect  = \E c \in wch : rq[c].weight < 0,
        !.weight_sum    = MapThenSumSet(LAMBDA c : rq[c].weight,
                                        {c \in wch : rq[c].weight > 0})
                          + Cardinality(plain),
        !.width         = c0.padding[1] + c0.padding[3] + fixw,
        !.spacing_width = IF elems > 0 THEN (elems - 1) * c0.spacing ELSE 0,
        !.cflags        = UNION {ConstraintFlags(rq[c]) : c \in vs}]

\* The round's local height: the tallest Y request plus top/bottom padding.
x_height(cs, hid, rq, c0, skip) ==
  LET vs == Range(VisibleSeq(cs, hid, skip)) IN
  Max({0} \cup {rq[c].y : c \in {d \in vs : "Y" \in rq[d].f}})
  + c0.padding[4] + c0.padding[2]

\* The four cached fields whose change requests a refresh.
Cached(c0) == <<c0.weight_sum, c0.width, c0.spacing_width, c0.cflags>>

\* The constraint round as a step: the cache, the refresh request and the
\* container's own constraints (width + spacing_width, height, flags).
ConstraintRound(cs, hid, rq, c0, skip) ==
  LET c1 == x_constraints(cs, hid, rq, c0, skip) IN
  /\ co' = c1
  /\ refresh' = (refresh \/ Cached(c1) # Cached(c0))
  /\ creq' = [x |-> c1.width + c1.spacing_width,
              y |-> x_height(cs, hid, rq, c0, skip), f |-> c1.cflags]

\* Mutation: CHILD_DESTROYED runs the round without skipping the child.
x_callback_noskip(signal, extra) == NULL

\* glw_container_x_callback: the child to skip in the constraint round.
x_callback(signal, extra) == IF signal = "destroyed" THEN extra ELSE NULL

-----------------------------------------------------------------------------
(***************************************************************************)
(* glw_container_x_layout(w, rc), with glw_alpha >= 0.01.                  *)
(***************************************************************************)
\* rintf under the default rounding mode: n / d (d > 0) to nearest, ties even.
Rint(n, d) ==
  LET q == n \div d
      r == n % d
  IN  IF 2 * r < d THEN q
      ELSE IF 2 * r > d THEN q + 1
      ELSE IF q % 2 = 0 THEN q ELSE q + 1

\* rc0.rc_height and the width the aspect-constrained children consume.
RowHeight(c0) == Height - c0.padding[2] - c0.padding[4]

\* Mutation: the aspect width is summed whether or not co_using_aspect.
AspectWidth_unguarded(cs, rq, c0) ==
  MapThenSumSet(LAMBDA c : RowHeight(c0) * (-Wt(rq[c])),
                {c \in Range(cs) : Wt(rq[c]) < 0})

AspectWidth(cs, rq, c0) ==
  IF c0.using_aspect
  THEN MapThenSumSet(LAMBDA c : RowHeight(c0) * (-Wt(rq[c])),
                     {c \in Range(cs) : Wt(rq[c]) < 0})
  ELSE 0

\* The requests do not fit and fixed widths are scaled.
Scales(cs, rq, c0, rcw) ==
  c0.width + AspectWidth(cs, rq, c0) + c0.spacing_width > rcw

\* Mutation: the aspect width is not taken from the room fixed widths get.
FixScaleNum_noaspect(rcw, aw, c0) == rcw - c0.spacing_width

\* The numerator of fixscale: the room the aspect and spacing widths leave.
FixScaleNum(rcw, aw, c0) == rcw - aw - c0.spacing_width

(* One item per placed child: [id, left, right] in pixels.  In the scaled *)
(* case fixscale = num / width; with width = 0 it is not finite and so is *)
(* every position, whose int conversion is undefined.                     *)
x_layout(cs, hid, rq, c0, rcw) ==
  LET aw    == AspectWidth(cs, rq, c0)
      sc    == Scales(cs, rq, c0, rcw)
      num   == FixScaleNum(rcw, aw, c0)
      wsum  == c0.width + aw + c0.spacing_width
      den   == IF sc THEN c0.width
               ELSE IF c0.weight_sum > 0 THEN c0.weight_sum ELSE 1
      avail == IF sc THEN 0 ELSE rcw - wsum
      start == CASE sc -> c0.padding[1] * num
                 [] c0.weight_sum = 0 /\ Alignment = "center" ->
                      (rcw \div 2 - wsum \div 2) * den
                 [] c0.weight_sum = 0 /\ Alignment = "right" -> (rcw - wsum) * den
                 [] OTHER -> c0.padding[1] * den
      place == SelectSeq(VisibleSeq(cs, hid, NULL),
                         LAMBDA c : "X" \in rq[c].f \/ Wt(rq[c]) # 0)
      Cw(c) == CASE "X" \in rq[c].f ->
                      (IF Homogenous THEN c0.biggest ELSE rq[c].x)
                      * (IF sc THEN num ELSE den)
                 [] Wt(rq[c]) > 0 -> avail * Wt(rq[c])
                 [] OTHER -> RowHeight(c0) * (-Wt(rq[c])) * den
      End(k) == start + FoldLeft(LAMBDA a, c : a + Cw(c), 0, SubSeq(place, 1, k))
                + (k - 1) * c0.spacing * den
      Right(k) == Rint(End(k), den)
      Left(k)  == IF k = 1 THEN Rint(start, den) ELSE Right(k - 1) + c0.spacing
  IN  IF sc /\ c0.width = 0
      THEN {[k \in 1..Len(place) |-> [id |-> place[k], left |-> u, right |-> u]]
              : u \in UBInts}
      ELSE {[k \in 1..Len(place) |-> [id |-> place[k], left |-> Left(k),
                                      right |-> Right(k)]]}

-----------------------------------------------------------------------------
(***************************************************************************)
(* Operations.                                                             *)
(***************************************************************************)
Init ==
  /\ childs = <<>>
  /\ hidden = [c \in Ids |-> FALSE]
  /\ req = InitReq
  /\ co = [cflags |-> {}, weight_sum |-> 0, width |-> 0, spacing_width |-> 0,
           height |-> 0, padding |-> <<0, 0, 0, 0>>, spacing |-> 0,
           biggest |-> 0, using_aspect |-> FALSE]
  /\ creq = [x |-> 0, y |-> 0, f |-> {}]
  /\ refresh = FALSE
  /\ laid = <<>>

InList(c) == c \in Range(childs)

\* A child is created at the tail of the list, then GLW_SIGNAL_CHILD_CREATED.
Create(c) ==
  /\ ~InList(c)
  /\ childs' = Append(childs, c)
  /\ ConstraintRound(childs', hidden, req, co, x_callback("created", c))
  /\ UNCHANGED <<hidden, req, laid>>

\* glw_destroy: GLW_SIGNAL_CHILD_DESTROYED while still listed, then removal.
Destroy(c) ==
  /\ InList(c)
  /\ ConstraintRound(childs, hidden, req, co, x_callback("destroyed", c))
  /\ childs' = SelectSeq(childs, LAMBDA d : d # c)
  /\ hidden' = [hidden EXCEPT ![c] = FALSE]
  /\ req' = [req EXCEPT ![c] = InitReq[c]]
  /\ UNCHANGED laid

\* GLW_HIDDEN set or cleared, then CHILD_HIDDEN / CHILD_UNHIDDEN.
SetHidden(c, h) ==
  /\ InList(c)
  /\ hidden[c] # h
  /\ hidden' = [hidden EXCEPT ![c] = h]
  /\ ConstraintRound(childs, hidden', req, co, x_callback("hidden", c))
  /\ UNCHANGED <<childs, req, laid>>

\* A child's constraints change: GLW_SIGNAL_CHILD_CONSTRAINTS_CHANGED.
ChildConstraints(c, r) ==
  /\ InList(c)
  /\ req[c] # r
  /\ req' = [req EXCEPT ![c] = r]
  /\ ConstraintRound(childs, hidden, req', co, x_callback("constraints", c))
  /\ UNCHANGED <<childs, hidden, laid>>

\* glw_container_set_int(GLW_ATTRIB_SPACING): stores the value, nothing more.
glw_container_set_int(v) ==
  /\ co.spacing # v
  /\ co' = [co EXCEPT !.spacing = v]
  /\ UNCHANGED <<childs, hidden, req, creq, refresh, laid>>

\* container_set_int16_4(GLW_ATTRIB_PADDING): stores the value and signals
\* CHILD_CONSTRAINTS_CHANGED to the container itself.
container_set_int16_4(p) ==
  /\ co.padding # p
  /\ ConstraintRound(childs, hidden, req, [co EXCEPT !.padding = p],
                     x_callback("constraints", NULL))
  /\ UNCHANGED <<childs, hidden, req, laid>>

\* A layout pass of rc_width rcw: the items' pos/scale/size.
glw_container_x_layout(rcw) ==
  /\ \E items \in x_layout(childs, hidden, req, co, rcw) :
       laid' = [k \in DOMAIN items |-> items[k] @@ [rcw |-> rcw]]
  /\ refresh' = FALSE
  /\ UNCHANGED <<childs, hidden, req, co, creq>>

Next ==
  \/ \E c \in Ids : Create(c) \/ Destroy(c)
  \/ \E c \in Ids, h \in BOOLEAN : SetHidden(c, h)
  \/ \E c \in Ids : \E r \in ReqChoices[c] : ChildConstraints(c, r)
  \/ \E v \in Spacings : glw_container_set_int(v)
  \/ \E p \in Paddings : container_set_int16_4(p)
  \/ \E rcw \in Widths : glw_container_x_layout(rcw)

Spec == Init /\ [][Next]_vars

-----------------------------------------------------------------------------
(***************************************************************************)
(* Properties.                                                             *)
(***************************************************************************)
Request == [f : SUBSET Flags, x : Int, y : Int, weight : Int]

\* The container's cache and the item list have their C shapes; cflags
\* only ever holds the X and Y bits the constraint round masks in.
TypeOK ==
  /\ childs \in Seq(Ids) /\ IsInjective(childs)
  /\ hidden \in [Ids -> BOOLEAN]
  /\ req \in [Ids -> Request]
  /\ co.cflags \subseteq {"X", "Y"} /\ creq.f \subseteq {"X", "Y"}
  /\ co.weight_sum >= 0 /\ co.spacing_width >= 0 /\ co.biggest >= 0
  /\ refresh \in BOOLEAN
  /\ \A k \in DOMAIN laid : laid[k].id \in Ids /\ laid[k].rcw \in Widths

(* After any sequence of creations, destructions, hides, unhides, child   *)
(* constraint changes and padding changes, the sums cached in             *)
(* glw_container_t (weight_sum, width, cflags, co_biggest,                *)
(* co_using_aspect) and the constraints the container published are those *)
(* of its current visible children: no signal path leaves them stale, and *)
(* CHILD_DESTROYED does not count the child that is going away.           *)
ConstraintsMatchChildren ==
  LET r == x_constraints(childs, hidden, req, co, NULL) IN
  /\ <<co.weight_sum, co.width, co.cflags, co.biggest, co.using_aspect>>
       = <<r.weight_sum, r.width, r.cflags, r.biggest, r.using_aspect>>
  /\ creq = [x |-> co.width + co.spacing_width,
             y |-> x_height(childs, hidden, req, co, NULL), f |-> co.cflags]

(* When the requests fit the row (no scaling), glw_container_x_layout     *)
(* places every visible child inside the padded area [padding left,       *)
(* rc_width - padding right], and the last child ends exactly at the      *)
(* right padding when some child is weighted (the weighted children take  *)
(* all the room the fixed, aspect and spacing widths leave) or when none  *)
(* is and the container is right-aligned.                                 *)
ChildrenSpanPaddedArea ==
  \A rcw \in Widths : ~Scales(childs, req, co, rcw) =>
    \A l \in x_layout(childs, hidden, req, co, rcw) :
      /\ \A k \in DOMAIN l :
           /\ co.padding[1] <= l[k].left
           /\ l[k].left <= l[k].right
           /\ l[k].right <= rcw - co.padding[3]
      /\ (co.weight_sum > 0 \/ Alignment = "right") /\ l # <<>> =>
           l[Len(l)].right = rcw - co.padding[3]

(* Whatever the requests, every visible child of a layout pass gets an    *)
(* interval of non-negative width inside [0, rc_width]: the scaled case   *)
(* shrinks fixed widths to what the aspect and spacing widths leave.      *)
ChildrenWithinContainer ==
  \A rcw \in Widths :
    \A l \in x_layout(childs, hidden, req, co, rcw) :
      \A k \in DOMAIN l : 0 <= l[k].left /\ l[k].left <= l[k].right
                          /\ l[k].right <= rcw
=============================================================================
