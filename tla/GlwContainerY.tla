-------------------------- MODULE GlwContainerY ---------------------------
(***************************************************************************)
(* The vertical GUI container container_y of src/src/ui/glw/glw_container.c *)
(* with GLW2_AUTOFADE: the constraint round glw_container_y_constraints run *)
(* on every child signal, the padding attribute, retire_child, and the     *)
(* layout pass glw_container_y_layout, whose loop fades hidden and retired *)
(* children out and destroys a retired child once it has faded.           *)
(*                                                                         *)
(* A child's fade (glw_container_item_t.fade, moved by glw_lp towards 0 or *)
(* 1 by a quarter of the distance per call) is an integer 0..FadeSteps:    *)
(* each glw_lp call moves it one step, and 0 stands for "below 0.01".      *)
(* Positions are exact rationals [n, d]; d = 0 is a value that is not      *)
(* finite (a division by zero), whose rintf conversion is undefined.       *)
(* The glw_need_refresh requests are left out: nothing here reads them.    *)
(***************************************************************************)
EXTENDS Integers, Sequences, SequencesExt, FiniteSets, FiniteSetsExt

CONSTANTS
  Ids,          \* child widgets that may be created in the container
  InitReq,      \* [Ids -> request]: each child's first constraints
  ReqChoices,   \* [Ids -> SUBSET request]: constraints a child may move to
  Autofade,     \* GLW2_AUTOFADE on the container
  Alignment,    \* glw_alignment: "top", "center" or "bottom"
  Spacing,      \* co_spacing
  Paddings,     \* values the padding attribute may be set to (4-tuples)
  RcWidth,      \* rc_width of the layout passes
  Heights,      \* rc_height values of the layout passes
  FadeSteps,    \* glw_lp steps from fade 1 down to below 0.01
  NULL          \* no skipped child

VARIABLES
  childs,       \* glw_childs, in TAILQ order
  hidden,       \* GLW_HIDDEN of each child
  retired,      \* GLW_RETIRED of each child
  req,          \* each child's current request [f, x, y, weight]
  co,           \* the glw_container_t fields
  creq,         \* the container's own constraints (glw_set_constraints)
  fade          \* glw_container_item_t.fade of each child

vars == <<childs, hidden, retired, req, co, creq, fade>>

(* Whatever an out-of-range float-to-int conversion yields: INT_MIN on    *)
(* x86 (cvttss2si), 0 for NaN on ARM.                                     *)
IntMin == -2147483647 - 1
UBInts == {IntMin, 0}

-----------------------------------------------------------------------------
(***************************************************************************)
(* glw_container_y_constraints(co, skip).                                  *)
(***************************************************************************)
Wt(r) == IF "W" \in r.f THEN r.weight ELSE 1

VisibleSeq(cs, hid, skip) == SelectSeq(cs, LAMBDA c : ~hid[c] /\ c # skip)

\* cflags |= f & (GLW_CONSTRAINT_X | GLW_CONSTRAINT_Y)
ConstraintFlags(r) == r.f \cap {"X", "Y"}

y_constraints(cs, hid, rq, c0, skip) ==
  LET vs    == Range(VisibleSeq(cs, hid, skip))
      ych   == {c \in vs : "Y" \in rq[c].f}
      wch   == {c \in vs \ ych : "W" \in rq[c].f}
      plain == vs \ (ych \cup wch)
  IN [c0 EXCEPT
        !.using_aspect = \E c \in wch : rq[c].weight <= 0,
        !.height       = c0.padding[4] + c0.padding[2]
                         + MapThenSumSet(LAMBDA c : rq[c].y, ych)
                         + (IF vs # {} THEN (Cardinality(vs) - 1) * Spacing
                            ELSE 0),
        !.weight_sum   = MapThenSumSet(LAMBDA c : rq[c].weight,
                                       {c \in wch : rq[c].weight > 0})
                         + Cardinality(plain),
        !.cflags       = UNION {ConstraintFlags(rq[c]) : c \in vs}]

\* The round's local width: the widest X request plus left/right padding.
y_width(cs, hid, rq, c0, skip) ==
  LET vs == Range(VisibleSeq(cs, hid, skip)) IN
  Max({0} \cup {rq[c].x : c \in {d \in vs : "X" \in rq[d].f}})
  + c0.padding[1] + c0.padding[3]

\* The round's result: the cache and the constraints glw_set_constraints
\* publishes (Y dropped if any child is weighted).
Round(cs, hid, rq, c0, skip) ==
  LET c1 == y_constraints(cs, hid, rq, c0, skip) IN
  [co      |-> c1,
   creq    |-> [x |-> y_width(cs, hid, rq, c0, skip), y |-> c1.height,
                f |-> IF c1.weight_sum # 0 THEN c1.cflags \ {"Y"}
                      ELSE c1.cflags]]

ConstraintRound(cs, hid, rq, c0, skip) ==
  LET r == Round(cs, hid, rq, c0, skip) IN
  /\ co' = r.co
  /\ creq' = r.creq

\* Mutation: CHILD_DESTROYED runs the round without skipping the child.
y_callback_noskip(signal, extra) == NULL

\* glw_container_y_callback: the child to skip in the constraint round.
y_callback(signal, extra) == IF signal = "destroyed" THEN extra ELSE NULL

-----------------------------------------------------------------------------
(***************************************************************************)
(* glw_container_y_layout(w, rc), with glw_alpha >= 0.01.                  *)
(***************************************************************************)
RECURSIVE GCD(_, _)
GCD(a, b) == IF b = 0 THEN a ELSE GCD(b, a % b)

Abs(n) == IF n < 0 THEN -n ELSE n

\* The float n / d: a reduced rational, or not finite when d = 0.
NotFinite == [n |-> 0, d |-> 0]
Q(n, d) ==
  IF d = 0 THEN NotFinite
  ELSE LET g == GCD(Abs(n), Abs(d))
           s == IF d < 0 THEN -1 ELSE 1
       IN  [n |-> (s * n) \div g, d |-> (s * d) \div g]
QAdd(p, q) ==
  IF p.d = 0 \/ q.d = 0 THEN NotFinite ELSE Q(p.n * q.d + q.n * p.d, p.d * q.d)
QMul(p, k) == IF p.d = 0 THEN NotFinite ELSE Q(p.n * k, p.d)

\* (int) of a float: truncation towards zero (d > 0).
Trunc(n, d) == IF n >= 0 THEN n \div d ELSE -((-n) \div d)

\* rintf under the default rounding mode: to nearest, ties even; a value
\* that is not finite converts to the build's undefined result u.
Rint(q, u) ==
  IF q.d = 0 THEN u
  ELSE LET k == q.n \div q.d
           r == q.n % q.d
       IN  IF 2 * r < q.d THEN k
           ELSE IF 2 * r > q.d THEN k + 1
           ELSE IF k % 2 = 0 THEN k ELSE k + 1

\* Mutation: the step is not clamped at the target.
Lp_unclamped(v, target) == IF target = 0 THEN v - 1 ELSE v + 1

\* glw_lp(&fade, root, target, 0.25): one step towards 0 or towards 1.
Lp(v, target) ==
  IF target = 0 THEN (IF v > 0 THEN v - 1 ELSE 0)
  ELSE (IF v < FadeSteps THEN v + 1 ELSE FadeSteps)

\* Mutation: the fade threshold is never reached (fade < 0).
FadedOut_never(v) == v < 0

\* cd->fade < 0.01
FadedOut(v) == v = 0

\* Mutation: the aspect children's heights are not added.
AspectHeight_none(cs, rq, c0, rw) == c0.height

\* height += rc0.rc_width / -w for every listed child of negative weight,
\* hidden or not, truncated to int on each addition.
AspectHeight(cs, rq, c0, rw) ==
  IF c0.using_aspect
  THEN FoldLeft(LAMBDA h, c : IF Wt(rq[c]) < 0
                              THEN Trunc(h * (-Wt(rq[c])) + rw, -Wt(rq[c]))
                              ELSE h,
                c0.height, cs)
  ELSE c0.height

\* The size cw of child c: its Y request scaled, its share of weightavail
\* by the weight_sum read now, or rc_width / -w for weights <= 0.
ChildSize(c, c0, g) ==
  IF "Y" \in req[c].f THEN QMul(g.fixscale, req[c].y)
  ELSE IF Wt(req[c]) > 0 THEN Q(g.weightavail * Wt(req[c]), c0.weight_sum)
  ELSE Q(g.rw, -Wt(req[c]))

\* glw_destroy(c) inside the loop: CHILD_DESTROYED runs the constraint
\* round (skipping c) before c leaves the list.
DestroyInLoop(c, L) ==
  LET r == Round(L.cs, hidden, req, L.co, y_callback("destroyed", c)) IN
  [L EXCEPT !.co = r.co, !.creq = r.creq,
            !.cs = SelectSeq(@, LAMBDA d : d # c)]

\* The loop body from "int f = glw_filter_constraints(c)" for a child that
\* is placed: pos and bottom advance, a retired child that has faded is
\* destroyed (and top stays), any other child gets its item and fade.
Place(c, L, g, u) ==
  LET pos1   == QAdd(L.pos, ChildSize(c, L.co, g))
      bottom == Rint(pos1, u)
      f1     == CASE ~Autofade  -> FadeSteps
                  [] retired[c] -> Lp(L.fade[c], 0)
                  [] ~hidden[c] -> Lp(L.fade[c], FadeSteps)
                  [] OTHER      -> L.fade[c]
  IN  IF Autofade /\ retired[c] /\ FadedOut(f1)
      THEN DestroyInLoop(c, [L EXCEPT !.pos = pos1, !.fade[c] = f1])
      ELSE [L EXCEPT !.fade[c] = f1,
                     !.items = Append(@, [id |-> c, top |-> L.top,
                                          bottom |-> bottom]),
                     !.top = bottom + Spacing,
                     !.pos = QAdd(pos1, Q(Spacing, 1))]

\* One iteration for child c: a hidden child is skipped (fade 0) without
\* AUTOFADE, fades and is skipped once faded with it, else it is placed.
Visit(c, L, g, u) ==
  CASE hidden[c] /\ ~Autofade -> [L EXCEPT !.fade[c] = 0]
    [] hidden[c] /\ FadedOut(Lp(L.fade[c], 0)) -> [L EXCEPT !.fade[c] = 0]
    [] hidden[c] -> Place(c, [L EXCEPT !.fade[c] = Lp(@, 0)], g, u)
    [] OTHER -> Place(c, L, g, u)

\* The loop over the children still to visit, on the set of loop states
\* the iterations so far can lead to.
RECURSIVE Loop(_, _, _, _)
Loop(rest, Ls, g, u) ==
  IF rest = <<>> THEN Ls
  ELSE Loop(Tail(rest), {Visit(Head(rest), L, g, u) : L \in Ls}, g, u)

(* The pass from "if(height > rc->rc_height)" on, for the height h that  *)
(* includes the aspect children: scaling or the free pixels, the start    *)
(* position, then the loop over the list as it was at the start (n is     *)
(* read before c may be destroyed).                                       *)
Pass(rch, rw, h, u) ==
  LET sc  == h > rch
      pos == CASE sc -> Q(co.padding[2] * rch, h)
               [] co.weight_sum = 0 /\ Alignment = "center" ->
                    Q(rch \div 2 - h \div 2, 1)
               [] co.weight_sum = 0 /\ Alignment = "bottom" -> Q(rch - h, 1)
               [] OTHER -> Q(co.padding[2], 1)
      L0  == [cs |-> childs, co |-> co, creq |-> creq, fade |-> fade,
              pos |-> pos, top |-> Rint(pos, u), items |-> <<>>]
  IN  UNION {Loop(childs, {L0}, g, u) :
               g \in {[rw |-> rw, fixscale |-> IF sc THEN Q(rch, h) ELSE Q(1, 1),
                       weightavail |-> IF sc THEN 0 ELSE rch - h]}}

\* glw_container_y_layout for rc_height rch: the set of loop states the
\* pass ends in (one per value of u).
y_layout(rch, u) ==
  LET rw == RcWidth - co.padding[1] - co.padding[3] IN
  UNION {Pass(rch, rw, h, u) : h \in {AspectHeight(childs, req, co, rw)}}

-----------------------------------------------------------------------------
(***************************************************************************)
(* Operations.                                                             *)
(***************************************************************************)
Init ==
  /\ childs = <<>>
  /\ hidden = [c \in Ids |-> FALSE]
  /\ retired = [c \in Ids |-> FALSE]
  /\ req = InitReq
  /\ co = [cflags |-> {}, weight_sum |-> 0, height |-> 0,
           padding |-> <<0, 0, 0, 0>>, using_aspect |-> FALSE]
  /\ creq = [x |-> 0, y |-> 0, f |-> {}]
  /\ fade = [c \in Ids |-> 0]

InList(c) == c \in Range(childs)

\* A child is created at the tail of the list with zeroed item data, then
\* GLW_SIGNAL_CHILD_CREATED.
Create(c) ==
  /\ ~InList(c)
  /\ childs' = Append(childs, c)
  /\ fade' = [fade EXCEPT ![c] = 0]
  /\ ConstraintRound(childs', hidden, req, co, y_callback("created", c))
  /\ UNCHANGED <<hidden, retired, req>>

\* The state a destroyed child leaves: unlisted, flags and request reset.
Released(c) ==
  /\ childs' = SelectSeq(childs, LAMBDA d : d # c)
  /\ hidden' = [hidden EXCEPT ![c] = FALSE]
  /\ retired' = [retired EXCEPT ![c] = FALSE]
  /\ req' = [req EXCEPT ![c] = InitReq[c]]
  /\ UNCHANGED fade

\* glw_destroy: GLW_SIGNAL_CHILD_DESTROYED while still listed, then removal.
Destroy(c) ==
  /\ InList(c)
  /\ ConstraintRound(childs, hidden, req, co, y_callback("destroyed", c))
  /\ Released(c)

\* retire_child: with AUTOFADE the child is marked and its subscriptions
\* suspended; without it the child is destroyed.
Retire(c) ==
  /\ InList(c) /\ ~retired[c]
  /\ IF Autofade
     THEN /\ retired' = [retired EXCEPT ![c] = TRUE]
          /\ UNCHANGED <<childs, hidden, req, co, creq, fade>>
     ELSE Destroy(c)

\* GLW_HIDDEN set or cleared by the child's subscriptions, then
\* CHILD_HIDDEN / CHILD_UNHIDDEN; a retired child's are suspended.
SetHidden(c, h) ==
  /\ InList(c) /\ ~retired[c]
  /\ hidden[c] # h
  /\ hidden' = [hidden EXCEPT ![c] = h]
  /\ ConstraintRound(childs, hidden', req, co, y_callback("hidden", c))
  /\ UNCHANGED <<childs, retired, req, fade>>

\* A child's constraints change: GLW_SIGNAL_CHILD_CONSTRAINTS_CHANGED.
ChildConstraints(c, r) ==
  /\ InList(c)
  /\ req[c] # r
  /\ req' = [req EXCEPT ![c] = r]
  /\ ConstraintRound(childs, hidden, req', co, y_callback("constraints", c))
  /\ UNCHANGED <<childs, hidden, retired, fade>>

\* container_set_int16_4(GLW_ATTRIB_PADDING): stores the value and signals
\* CHILD_CONSTRAINTS_CHANGED to the container itself.
container_set_int16_4(p) ==
  /\ co.padding # p
  /\ ConstraintRound(childs, hidden, req, [co EXCEPT !.padding = p],
                     y_callback("constraints", NULL))
  /\ UNCHANGED <<childs, hidden, retired, req, fade>>

\* A layout pass of rc_height rch; the positions it computes are not kept.
glw_container_y_layout(rch) ==
  \E L \in y_layout(rch, IntMin) :
    LET gone == Range(childs) \ Range(L.cs) IN
        /\ childs' = L.cs
        /\ co' = L.co
        /\ creq' = L.creq
        /\ fade' = L.fade
        /\ hidden' = [c \in Ids |-> hidden[c] /\ c \notin gone]
        /\ retired' = [c \in Ids |-> retired[c] /\ c \notin gone]
        /\ req' = [c \in Ids |-> IF c \in gone THEN InitReq[c] ELSE req[c]]

Next ==
  \/ \E c \in Ids : Create(c) \/ Destroy(c) \/ Retire(c)
  \/ \E c \in Ids, h \in BOOLEAN : SetHidden(c, h)
  \/ \E c \in Ids : \E r \in ReqChoices[c] : ChildConstraints(c, r)
  \/ \E p \in Paddings : container_set_int16_4(p)
  \/ \E rch \in Heights : glw_container_y_layout(rch)

Spec == Init /\ [][Next]_vars

\* The state a layout pass leaves does not depend on rc_height (only the
\* positions it computes do), so one rc_height decides whether a pass
\* would change the state: it is ENABLED of the pass as a state change.
LayoutChanges ==
  \E L \in y_layout(Min(Heights), IntMin) :
    <<L.cs, L.co, L.creq, L.fade>> # <<childs, co, creq, fade>>

\* The glw frame loop lays the whole widget tree out once per frame, so a
\* pass that would change the state is eventually taken.  A step that moves
\* a fade stands for a pass: only passes move fades, apart from Create
\* resetting the fade a destroyed child left, which needs a pass to recur.
\* This is weaker than weak fairness of the pass, so what holds under it
\* holds under the code's frame loop; runs state it as the premise of a
\* liveness property.
FairLayout == <>[]LayoutChanges => []<><<fade' # fade>>_vars

-----------------------------------------------------------------------------
(***************************************************************************)
(* Properties.                                                             *)
(***************************************************************************)
Request == [f : SUBSET {"X", "Y", "W"}, x : Int, y : Int, weight : Int]

\* The list, flags, item fades and cache have their C shapes.
TypeOK ==
  /\ childs \in Seq(Ids) /\ IsInjective(childs)
  /\ hidden \in [Ids -> BOOLEAN] /\ retired \in [Ids -> BOOLEAN]
  /\ req \in [Ids -> Request]
  /\ fade \in [Ids -> 0..FadeSteps]
  /\ co.cflags \subseteq {"X", "Y"} /\ creq.f \subseteq {"X", "Y"}
  /\ co.weight_sum >= 0 /\ co.height >= 0

(* After any sequence of creations, hides, constraint and padding changes, *)
(* retirements and layout passes, the height, weight_sum, cflags and       *)
(* co_using_aspect cached in glw_container_t, and the constraints the      *)
(* container published, are those of its current visible children: the   *)
(* destroy of a faded retired child in the middle of a layout pass leaves  *)
(* them as they are for the children that stay.                            *)
ConstraintsMatchChildren ==
  LET r == Round(childs, hidden, req, co, NULL) IN
  /\ <<co.height, co.weight_sum, co.cflags, co.using_aspect>>
       = <<r.co.height, r.co.weight_sum, r.co.cflags, r.co.using_aspect>>
  /\ creq = r.creq

\* No child is fading out: every retired child is gone and every hidden
\* one has faded.
Settled == \A c \in Range(childs) : ~retired[c] /\ (hidden[c] => fade[c] = 0)

(* Once no child is fading out and the requests fit rc_height, a layout    *)
(* pass places the visible children one below the other inside the padded *)
(* area [padding top, rc_height - padding bottom], and the last one ends   *)
(* at the bottom padding when some child is weighted: the weighted         *)
(* children take exactly what the Y requests, the aspect children and the  *)
(* spacing leave.                                                          *)
SettledChildrenSpanPaddedArea ==
  Settled =>
    \A rch \in Heights, u \in UBInts :
      LET rw == RcWidth - co.padding[1] - co.padding[3]
      IN  AspectHeight(childs, req, co, rw) <= rch =>
          \A L \in y_layout(rch, u) : LET l == L.items IN
            /\ \A k \in DOMAIN l :
                 /\ co.padding[2] <= l[k].top
                 /\ l[k].top <= l[k].bottom
                 /\ l[k].bottom <= rch - co.padding[4]
            /\ co.weight_sum > 0 /\ l # <<>> =>
                 l[Len(l)].bottom = rch - co.padding[4]

(* A child retired while visible (retire_child with GLW2_AUTOFADE) is      *)
(* eventually destroyed by the layout passes that fade it out.             *)
RetiredChildReleased ==
  FairLayout => \A c \in Ids : (InList(c) /\ retired[c] /\ ~hidden[c]) ~> ~InList(c)

(* Every retired child is eventually destroyed and leaves the list,        *)
(* whether or not it was hidden when it was retired.                       *)
RetiredChildDestroyed ==
  FairLayout => \A c \in Ids : (InList(c) /\ retired[c]) ~> ~InList(c)
=============================================================================
