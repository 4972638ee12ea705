--------------------------- MODULE RouteRegistry ---------------------------
(***************************************************************************)
(* The process-wide route list http_paths of                               *)
(* src/src/networking/http_server.c: registration of plain routes          *)
(* (http_path_add, sorted by descending prefix length) and of WebSocket    *)
(* routes (http_add_websocket, inserted at the head), and the lookup       *)
(* http_resolve that splits a request URL into route, remainder and query  *)
(* string.                                                                 *)
(*                                                                         *)
(* Strings are sequences of one-character strings; a URL is checked        *)
(* character by character exactly as strncmp and the switch on *v do.     *)
(***************************************************************************)
EXTENDS Naturals, Sequences, SequencesExt

CONSTANTS
  PlainRoutes,  \* records [path, leaf] offered to http_path_add (leaf 0 or 1)
  WsPaths,      \* paths offered to http_add_websocket
  Urls,         \* request URLs the lookup is evaluated on
  NULL          \* the NULL pointer: no route, no remainder, no query string

ASSUME \A r \in PlainRoutes : r.leaf \in {0, 1}

VARIABLES
  http_paths    \* the LIST of http_path_t, head first

vars == <<http_paths>>

\* hp_leaf = 2 marks a WebSocket route (http_add_websocket).
WsLeaf == 2

WsRoutes == {[path |-> p, leaf |-> WsLeaf] : p \in WsPaths}

AllRoutes == PlainRoutes \cup WsRoutes

TypeOK ==
  /\ http_paths \in Seq(AllRoutes)
  /\ Len(http_paths) <= Cardinality(AllRoutes)

(***************************************************************************)
(* LIST_INSERT_SORTED with hp_cmp(a, b) = b->hp_len - a->hp_len: the new   *)
(* entry goes before the first entry it compares below, i.e. the first one *)
(* with a shorter path; entries of equal length keep registration order.   *)
(***************************************************************************)
\* Mutation: a new route goes before entries of equal length too.
InsertSorted_ties(list, hp) ==
  LET i == SelectInSeq(list, LAMBDA e : Len(e.path) <= Len(hp.path))
  IN  IF i = 0 THEN Append(list, hp) ELSE InsertAt(list, i, hp)

InsertSorted(list, hp) ==
  LET i == SelectInSeq(list, LAMBDA e : Len(e.path) < Len(hp.path))
  IN  IF i = 0 THEN Append(list, hp) ELSE InsertAt(list, i, hp)

Registered(hp) == \E i \in 1..Len(http_paths) : http_paths[i] = hp

\* http_path_add: one registration at startup.
http_path_add(hp) ==
  /\ ~Registered(hp)
  /\ http_paths' = InsertSorted(http_paths, hp)

\* Mutation: the WebSocket route is given a plain route's hp_leaf.
http_add_websocket_leaf(hp) ==
  /\ ~Registered(hp)
  /\ http_paths' = <<[hp EXCEPT !.leaf = 1]>> \o http_paths

\* http_add_websocket: LIST_INSERT_HEAD, whatever the path's length.
http_add_websocket(hp) ==
  /\ ~Registered(hp)
  /\ http_paths' = <<hp>> \o http_paths

Init == http_paths = <<>>

Next ==
  \/ \E hp \in PlainRoutes : http_path_add(hp)
  \/ \E hp \in WsRoutes : http_add_websocket(hp)

Spec == Init /\ [][Next]_vars

(***************************************************************************)
(* http_resolve.  A route matches when the URL starts with its path and    *)
(* the next character is the end of the string, '/' or '?'.  The first    *)
(* match in list order wins.                                               *)
(***************************************************************************)
Matches(hp, url) ==
  /\ IsPrefix(hp.path, url)
  /\ \/ Len(url) = Len(hp.path)
     \/ url[Len(hp.path) + 1] \in {"/", "?"}

\* Index of the first "?" in s, 0 when there is none (strchr).
QMark(s) == SelectInSeq(s, LAMBDA c : c = "?")

\* What follows the route's path: the switch(*v) of http_resolve.
\* '/' then '?': the query string is taken from v + 1, the '?' included.
\* '/' otherwise: the remainder runs to the first '?', the query after it.
\* '?': the query string is v + 1.
Split(v) ==
  CASE v = <<>> -> [remain |-> NULL, args |-> NULL]
    [] v[1] = "/" /\ Len(v) >= 2 /\ v[2] = "?" ->
         [remain |-> NULL, args |-> Tail(v)]
    [] v[1] = "/" /\ QMark(Tail(v)) = 0 ->
         [remain |-> Tail(v), args |-> NULL]
    [] v[1] = "/" ->
         LET t == Tail(v) IN
         [remain |-> SubSeq(t, 1, QMark(t) - 1),
          args   |-> SubSeq(t, QMark(t) + 1, Len(t))]
    [] v[1] = "?" -> [remain |-> NULL, args |-> Tail(v)]

http_resolve(paths, url) ==
  LET i == SelectInSeq(paths, LAMBDA hp : Matches(hp, url))
  IN  IF i = 0 THEN NULL
      ELSE [hp |-> paths[i]]
             @@ Split(SubSeq(url, Len(paths[i].path) + 1, Len(url)))

-----------------------------------------------------------------------------
(***************************************************************************)
(* Properties.                                                             *)
(***************************************************************************)

\* Longest prefix wins: whatever order the routes were registered in, the
\* route http_resolve picks for a URL has a path at least as long as every
\* registered route that matches it, so a shorter prefix never shadows a
\* more specific route (spec 4.2; http_path_add sorts, http_add_websocket
\* puts its route at the head).
LongestMatchWins ==
  \A url \in Urls :
    LET r == http_resolve(http_paths, url) IN
    r # NULL =>
      \A i \in 1..Len(http_paths) :
        Matches(http_paths[i], url) => Len(http_paths[i].path) <= Len(r.hp.path)

\* A WebSocket route is never shadowed: when a WebSocket route is a longest
\* match for a URL (ties with a plain route of the same path included), the
\* lookup returns a WebSocket route, so an upgrade to it is never answered
\* 405 by a plain route registered before or after it (http_add_websocket's
\* head insertion against http_path_add's sorted insertion).
WsRouteNeverShadowed ==
  \A url \in Urls :
    (\E i \in 1..Len(http_paths) :
       /\ http_paths[i].leaf = WsLeaf
       /\ Matches(http_paths[i], url)
       /\ \A j \in 1..Len(http_paths) :
            Matches(http_paths[j], url) =>
              Len(http_paths[j].path) <= Len(http_paths[i].path))
    => http_resolve(http_paths, url).hp.leaf = WsLeaf

\* The query string handed on is the text after the first '?' of the URL,
\* trimmed out of the remainder (spec 4.2, resolve).  Not a run: the
\* "/?" case of the switch in http_resolve (http_server.c:226) takes it
\* from the '?' itself (README, known disagreements).
QueryAfterFirstMark ==
  \A url \in Urls :
    LET r == http_resolve(http_paths, url) IN
    r # NULL /\ QMark(url) # 0 =>
      r.args = SubSeq(url, QMark(url) + 1, Len(url))
=============================================================================
