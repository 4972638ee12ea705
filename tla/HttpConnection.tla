--------------------------- MODULE HttpConnection ---------------------------
(***************************************************************************)
(* One accepted connection of the HTTP/WebSocket server in                 *)
(* src/src/networking/http_server.c, from http_accept to http_close.       *)
(*                                                                         *)
(* The client writes a stream of units (a request line, a header line, a   *)
(* blank line, a byte of POST body, a WebSocket frame); the reactor hands  *)
(* whatever has arrived to http_io_read, which runs the loop of            *)
(* http_handle_input until it returns and then http_write.  One step       *)
(* IoRead is that whole callback: the reactor is single-threaded, so no    *)
(* other step of this connection interleaves with it.                      *)
(***************************************************************************)
EXTENDS Integers, Sequences, SequencesExt

CONSTANTS
  HttpPaths,     \* the route list http_paths as registration left it
  HandlerResult, \* [path -> int]: what a plain route's hp_callback returns
  WsInitResult,  \* [path -> int]: what a WebSocket route's hp_ws_init returns
  Streams,       \* the unit streams a client may write on the connection
  MallocOutcomes,\* [post, frame]: which allocations of one read fail
  NULL

LOCAL Reg == INSTANCE RouteRegistry
               WITH http_paths <- HttpPaths, PlainRoutes <- {}, WsPaths <- {},
                    Urls <- {}

(***************************************************************************)
(* What the client writes.  A line is abstracted to what http_tokenize and *)
(* the header parser make of it; a body byte carries the line its bytes    *)
(* would form if they were read as a line.                                 *)
(***************************************************************************)
Req(c, u, v)  == [k |-> "req", cmd |-> c, url |-> u, ver |-> v]
Hdr(n, v)     == [k |-> "hdr", name |-> n, val |-> v]
Lws           == [k |-> "lws"]     \* a line starting with ' ' or '\t'
Blank         == [k |-> "blank"]   \* the empty line ending the headers
Junk          == [k |-> "junk"]    \* no ':' / not three tokens
Long          == [k |-> "long"]    \* '\n' found at offset >= 1023
Body(l)       == [k |-> "body", line |-> l]
Frame(op)     == [k |-> "frame", op |-> op]

\* HTTP_cmdtab and HTTP_versiontab; other words map to -1.
Methods  == {"GET", "HEAD", "POST", "SUBSCRIBE", "UNSUBSCRIBE"}
Versions == {"HTTP/1.0", "HTTP/1.1"}

\* POST bodies above 16 MiB are refused (http_cmd_post).
MaxPost == 16 * 1024 * 1024

VARIABLES
  stream,  \* the client's whole stream, chosen when it connects
  nsent,   \* how many units of stream have reached the server
  q,       \* the input queue asyncio passes to http_io_read
  hc,      \* the fields of struct http_connection the protocol uses
  wrote,   \* everything http_write handed to asyncio_sendq, in order
  parsed,  \* units accepted as request lines in HCS_COMMAND (history)
  app,     \* calls made into WebSocket route callbacks (history)
  conn     \* "open", "closed" (http_close ran) or "aborted" (process died)

vars == <<stream, nsent, q, hc, wrote, parsed, app, conn>>

(***************************************************************************)
(* Header lists: http_header_add appends, http_header_get returns the      *)
(* first entry whose name matches (names and the keyword values compared   *)
(* are written in one case here, as strcasecmp compares them).             *)
(***************************************************************************)
HeaderGet(h, n) ==
  LET i == SelectInSeq(h, LAMBDA e : e.name = n)
  IN  IF i = 0 THEN NULL ELSE h[i].val

\* http_header_add_lws: the continuation is joined with a space onto the
\* last value; the result no longer equals any keyword, and atoi of a
\* number followed by text is still the number.
http_header_add_lws(h) ==
  IF h = <<>> THEN h
  ELSE [h EXCEPT ![Len(h)].val = IF @ \in Int THEN @ ELSE "folded"]

\* atoi of Content-Length assigned to size_t hc_post_len: text gives 0, a
\* negative number wraps to a size above MaxPost.
PostLen(v) ==
  CASE v \in Nat -> v
    [] v \in Int -> MaxPost + 1
    [] OTHER     -> 0

(***************************************************************************)
(* The world one call of http_io_read works on: the connection, its input *)
(* queue, hc_output (out), what was already written, the histories, and   *)
(* whether the process is still running.  go = FALSE ends the while(1).    *)
(* mf says which allocations fail during this call: the POST buffer        *)
(* (malloc in http_cmd_post) and frame payloads (mymalloc in               *)
(* websocket_input).                                                       *)
(***************************************************************************)
Queue(w, item) == [w EXCEPT !.out = Append(@, item)]

\* http_write: asyncio_sendq takes all of hc_output.
http_write(w) == [w EXCEPT !.wrote = @ \o w.out, !.out = <<>>]

\* http_send_reply / http_send_header: the status line carries rc (0 means
\* 200) and the Connection header; the body is dropped for HEAD.
http_send_reply(w, rc) ==
  Queue(w, [t |-> "resp", rc |-> IF rc = 0 THEN 200 ELSE rc,
            body |-> ~w.hc.no_output, ka |-> w.hc.keep_alive])

\* http_error: an HTML error page through http_send_reply.
http_error(w, code) == http_send_reply(w, code)

\* http_send_raw with no body (the 101 of the WebSocket handshake).
http_send_raw(w, rc) == Queue(w, [t |-> "raw", rc |-> rc])

\* http_exec: call the route's callback and act on its result.  A
\* WebSocket route was allocated by http_add_websocket without
\* hp_callback being set: calling it jumps through an uninitialized
\* pointer, modelled as the process dying.
http_exec(w, hp) ==
  IF hp.leaf = Reg!WsLeaf
  THEN [w EXCEPT !.app = Append(@, [ev |-> "uninit_callback", path |-> hp.path]),
                 !.alive = FALSE, !.go = FALSE]
  ELSE LET err == HandlerResult[hp.path] IN
       CASE err = 200 -> http_send_reply(w, 0)       \* "OK\n"
         [] err > 0   -> http_error(w, err)
         [] err = 0   -> http_send_reply(w, 0)       \* the callback replied
         [] OTHER     -> [w EXCEPT !.alive = FALSE, !.go = FALSE]  \* abort()

\* Mutation: hc_path set before hp_ws_init is called, even when it fails.
http_cmd_start_websocket_path_first(w, hp) ==
  IF HeaderGet(w.hc.hdrs, "Sec-WebSocket-Key") = NULL
  THEN http_error(w, 400)
  ELSE LET err == WsInitResult[hp.path]
           w1  == [w EXCEPT !.hc.path = hp,
                            !.app = Append(@, [ev |-> "init", path |-> hp.path,
                                               rc |-> err])]
       IN  IF err # 0 THEN http_error(w1, err)
           ELSE [http_send_raw(w1, 101) EXCEPT !.hc.state = "WEBSOCKET"]

\* http_cmd_start_websocket: needs Sec-WebSocket-Key, then hp_ws_init; on
\* success the 101 reply is queued and hc_path remembers the route.
http_cmd_start_websocket(w, hp) ==
  IF HeaderGet(w.hc.hdrs, "Sec-WebSocket-Key") = NULL
  THEN http_error(w, 400)
  ELSE LET err == WsInitResult[hp.path]
           w1  == [w EXCEPT !.app = Append(@, [ev |-> "init", path |-> hp.path,
                                                rc |-> err])]
       IN  IF err # 0 THEN http_error(w1, err)
           ELSE [http_send_raw(w1, 101) EXCEPT !.hc.state = "WEBSOCKET",
                                               !.hc.path = hp]

\* http_cmd_get: GET, HEAD, SUBSCRIBE and UNSUBSCRIBE.
http_cmd_get(w) ==
  LET r == Reg!http_resolve(HttpPaths, w.hc.url)
      c == HeaderGet(w.hc.hdrs, "Connection")
      u == HeaderGet(w.hc.hdrs, "Upgrade")
  IN  CASE r = NULL \/ (r.hp.leaf # 0 /\ r.remain # NULL) -> http_error(w, 404)
        [] c = "upgrade" /\ u = "websocket" ->
             IF r.hp.leaf # Reg!WsLeaf THEN http_error(w, 405)
             ELSE http_cmd_start_websocket(w, r.hp)
        [] r.hp.leaf = Reg!WsLeaf -> http_error(w, 405)
        [] OTHER -> http_exec(w, r.hp)

\* Mutation: the copy is not limited to what the body still lacks.
http_read_post_unclamped(w) ==
  LET w1 == [w EXCEPT !.q = <<>>, !.hc.post_offset = @ + Len(w.q)]
      r  == Reg!http_resolve(HttpPaths, w.hc.url)
  IN  IF w1.hc.post_offset < w1.hc.post_len THEN w1
      ELSE LET w2 == [w1 EXCEPT !.hc.state = "COMMAND"] IN
           CASE HeaderGet(w.hc.hdrs, "Content-Type") = "" -> http_error(w2, 400)
             [] r = NULL -> http_error(w2, 404)
             [] OTHER    -> http_exec(w2, r.hp)

http_read_post(w) ==
  LET size == IF Len(w.q) < w.hc.post_len - w.hc.post_offset
              THEN Len(w.q) ELSE w.hc.post_len - w.hc.post_offset
      w1   == [w EXCEPT !.q = SubSeq(@, size + 1, Len(@)),
                        !.hc.post_offset = @ + size]
      r    == Reg!http_resolve(HttpPaths, w.hc.url)
  IN  IF w1.hc.post_offset < w1.hc.post_len THEN w1
      ELSE LET w2 == [w1 EXCEPT !.hc.state = "COMMAND"] IN
           CASE HeaderGet(w.hc.hdrs, "Content-Type") = "" -> http_error(w2, 400)
             [] r = NULL -> http_error(w2, 404)
             [] OTHER    -> http_exec(w2, r.hp)

\* http_cmd_post: no Content-Length, more than 16 MiB or no memory for the
\* body returns 1.
http_cmd_post(w) ==
  LET v == HeaderGet(w.hc.hdrs, "Content-Length")
      n == PostLen(v)
      w1 == [w EXCEPT !.hc.post_len = n, !.hc.post_offset = 0,
                      !.hc.state = "POSTDATA"]
  IN  CASE v = NULL    -> [w EXCEPT !.ret = 1]
        [] n > MaxPost \/ w.mf.post ->
             [w EXCEPT !.hc.post_len = n, !.hc.keep_alive = FALSE, !.ret = 1]
        [] OTHER -> http_read_post(
                      IF HeaderGet(w.hc.hdrs, "Expect") = "100-continue"
                      THEN Queue(w1, [t |-> "continue"]) ELSE w1)

\* http_handle_request: on the blank line ending the headers.
http_handle_request(w) ==
  LET v  == HeaderGet(w.hc.hdrs, "Connection")
      ka == IF w.hc.version = "HTTP/1.0" THEN v = "keep-alive" ELSE v # "close"
      w1 == [w EXCEPT !.hc.state = "COMMAND", !.hc.keep_alive = ka,
                      !.hc.no_output = (w.hc.cmd = "HEAD"), !.ret = 0]
  IN  CASE w.hc.cmd = "POST"  -> http_cmd_post(w1)
        [] w.hc.cmd \in Methods -> http_cmd_get(w1)
        [] OTHER -> http_error(w1, 501)

(***************************************************************************)
(* http_read_line: 0 when no '\n' has arrived, -1 when the line is too    *)
(* long for the 1024-byte buffer (it is then left in the queue), 1 when a *)
(* line was taken.  What the bytes of a unit read as a line say:           *)
(***************************************************************************)
LineStatus(qu) ==
  CASE qu = <<>>          -> 0
    [] Head(qu).k = "long" -> -1
    [] OTHER              -> 1

LineOf(u) ==
  CASE u.k = "body"  -> u.line
    [] u.k = "frame" -> Junk
    [] OTHER         -> u

\* Mutation: the request headers of the previous request are not freed.
CommandStep_keep_headers(w) ==
  IF LineStatus(w.q) # 1 THEN [w EXCEPT !.go = FALSE]
  ELSE
    LET u  == Head(w.q)
        l  == LineOf(u)
        w1 == [w EXCEPT !.q = Tail(@)]
    IN  CASE l.k # "req" -> [w1 EXCEPT !.go = FALSE]
          [] l.ver \notin Versions ->
               [w1 EXCEPT !.hc.cmd = l.cmd, !.hc.url = l.url,
                          !.hc.version = "unknown", !.go = FALSE]
          [] OTHER ->
               [w1 EXCEPT !.hc.cmd = l.cmd, !.hc.url = l.url,
                          !.hc.version = l.ver, !.hc.state = "HEADERS",
                          !.parsed = Append(@, u)]

\* Mutation: no fall-through; the loop returns after the request line.
CommandStep_no_fallthru(w) ==
  IF LineStatus(w.q) # 1 THEN [w EXCEPT !.go = FALSE]
  ELSE
    LET u  == Head(w.q)
        l  == LineOf(u)
        w1 == [w EXCEPT !.q = Tail(@)]
    IN  CASE l.k # "req" -> [w1 EXCEPT !.go = FALSE]
          [] l.ver \notin Versions ->
               [w1 EXCEPT !.hc.cmd = l.cmd, !.hc.url = l.url,
                          !.hc.version = "unknown", !.go = FALSE]
          [] OTHER ->
               [w1 EXCEPT !.hc.cmd = l.cmd, !.hc.url = l.url,
                          !.hc.version = l.ver, !.hc.state = "HEADERS",
                          !.hc.hdrs = <<>>, !.parsed = Append(@, u),
                          !.go = FALSE]

\* One pass of the while(1) of http_handle_input in HCS_COMMAND (falling
\* through to HCS_HEADERS is the next pass).  Every "return" ends the loop.
CommandStep(w) ==
  IF LineStatus(w.q) # 1 THEN [w EXCEPT !.go = FALSE]
  ELSE
    LET u  == Head(w.q)
        l  == LineOf(u)
        w1 == [w EXCEPT !.q = Tail(@)]
    IN  CASE l.k # "req" -> [w1 EXCEPT !.go = FALSE]
          [] l.ver \notin Versions ->
               [w1 EXCEPT !.hc.cmd = l.cmd, !.hc.url = l.url,
                          !.hc.version = "unknown", !.go = FALSE]
          [] OTHER ->
               [w1 EXCEPT !.hc.cmd = l.cmd, !.hc.url = l.url,
                          !.hc.version = l.ver, !.hc.state = "HEADERS",
                          !.hc.hdrs = <<>>, !.parsed = Append(@, u)]

\* HCS_HEADERS: a continuation, a header, or the blank line that dispatches
\* the request; after dispatch the loop returns when nothing was queued and
\* keep-alive is off.
HeadersStep(w) ==
  IF LineStatus(w.q) # 1 THEN [w EXCEPT !.go = FALSE]
  ELSE
    LET l  == LineOf(Head(w.q))
        w1 == [w EXCEPT !.q = Tail(@)]
    IN  CASE l.k = "lws" -> [w1 EXCEPT !.hc.hdrs = http_header_add_lws(@)]
          [] l.k = "hdr" ->
               [w1 EXCEPT !.hc.hdrs = Append(@, [name |-> l.name, val |-> l.val])]
          [] l.k = "blank" ->
               LET w2 == http_handle_request(w1) IN
               IF w2.ret = 1 \/ (w2.out = <<>> /\ ~w2.hc.keep_alive)
               THEN [w2 EXCEPT !.go = FALSE] ELSE w2
          [] OTHER -> [w1 EXCEPT !.go = FALSE]

\* websocket_input: a whole frame is taken from the queue; a ping is
\* answered by websocket_send (which calls http_write), anything else goes
\* to the route's hp_ws_data.  An opcode read from a unit that is not a
\* frame is some other data opcode.  When mymalloc of the payload fails it
\* returns 1 with the frame still in the queue.
WebsocketStep(w) ==
  IF w.q = <<>> \/ w.mf.frame THEN [w EXCEPT !.go = FALSE]
  ELSE
    LET u  == Head(w.q)
        op == IF u.k = "frame" THEN u.op ELSE "other"
        w1 == [w EXCEPT !.q = Tail(@)]
    IN  IF op = "ping"
        THEN http_write(Queue(w1, [t |-> "frame", op |-> "pong"]))
        ELSE [w1 EXCEPT !.app = Append(@, [ev |-> "data", path |-> w.hc.path.path,
                                           op |-> op])]

\* http_handle_input: the while(1) over hc_state.  Every pass consumes a
\* unit of the queue or ends the loop, so the recursion is bounded by it.
RECURSIVE http_handle_input(_)
http_handle_input(w) ==
  IF ~w.go THEN w
  ELSE http_handle_input(
         CASE w.hc.state = "COMMAND"   -> CommandStep(w)
           [] w.hc.state = "HEADERS"   -> HeadersStep(w)
           [] w.hc.state = "POSTDATA"  -> [http_read_post(w) EXCEPT !.go = FALSE]
           [] w.hc.state = "WEBSOCKET" -> WebsocketStep(w))

-----------------------------------------------------------------------------
(***************************************************************************)
(* Steps of the connection.                                                *)
(***************************************************************************)

\* http_accept: calloc'ed connection, state HCS_COMMAND.
InitConn ==
  [state |-> "COMMAND", cmd |-> "GET", url |-> NULL, version |-> "HTTP/1.0",
   keep_alive |-> FALSE, no_output |-> FALSE, hdrs |-> <<>>,
   post_len |-> 0, post_offset |-> 0, path |-> NULL]

Init ==
  /\ stream \in Streams
  /\ nsent = 0
  /\ q = <<>>
  /\ hc = InitConn
  /\ wrote = <<>>
  /\ parsed = <<>>
  /\ app = <<>>
  /\ conn = "open"

\* http_io_read: k more units have arrived; run http_handle_input (its
\* return value is dropped) and then http_write.  mf: the allocations that
\* fail during the call.
http_io_read(k, mf) ==
  /\ conn = "open"
  /\ nsent + k <= Len(stream)
  /\ LET w0 == [hc |-> hc, q |-> q \o SubSeq(stream, nsent + 1, nsent + k),
                out |-> <<>>, wrote |-> wrote, parsed |-> parsed, app |-> app,
                alive |-> TRUE, go |-> TRUE, ret |-> 0, mf |-> mf]
         w1 == http_write(http_handle_input(w0))
     IN  /\ nsent' = nsent + k
         /\ q' = w1.q
         /\ hc' = w1.hc
         /\ wrote' = w1.wrote
         /\ parsed' = w1.parsed
         /\ app' = w1.app
         /\ conn' = IF w1.alive THEN "open" ELSE "aborted"
  /\ UNCHANGED stream

\* http_io_error -> http_close: the peer went away or a write failed; the
\* WebSocket route's hp_ws_fini runs when hc_path was set.
http_close ==
  /\ conn = "open"
  /\ conn' = "closed"
  /\ app' = IF hc.path # NULL
            THEN Append(app, [ev |-> "fini", path |-> hc.path.path])
            ELSE app
  /\ UNCHANGED <<stream, nsent, q, hc, wrote, parsed>>

Next ==
  \/ \E k \in 1..Len(stream), mf \in MallocOutcomes : http_io_read(k, mf)
  \/ http_close

SafetySpec == Init /\ [][Next]_vars

\* The reactor delivers what the client wrote and calls http_io_read each
\* time bytes arrive; the peer may close at any time, so http_close is not
\* fair.
Spec == SafetySpec /\ WF_vars(\E k \in 1..Len(stream), mf \in MallocOutcomes :
                                 http_io_read(k, mf))

\* The same weak fairness written out, WF_v(A) = <>[]ENABLED <<A>>_v =>
\* []<><<A>>_v: http_io_read is enabled exactly when the connection is open
\* and bytes remain unsent (the handler always has a result), and a read
\* step is one that takes bytes.  Runs state it as the premise of a
\* liveness property, which TLC evaluates without re-running the handler.
ReadsEnabled == conn = "open" /\ nsent < Len(stream)
FairReads == <>[]ReadsEnabled => []<><<nsent' > nsent>>_vars

-----------------------------------------------------------------------------
(***************************************************************************)
(* Properties.                                                             *)
(***************************************************************************)

TypeOK ==
  /\ nsent \in 0..Len(stream)
  /\ hc.state \in {"COMMAND", "HEADERS", "POSTDATA", "WEBSOCKET"}
  /\ hc.post_offset \in 0..hc.post_len
  /\ hc.path = NULL \/ hc.path.leaf = Reg!WsLeaf
  /\ conn \in {"open", "closed", "aborted"}

\* The request lines the client sent, in order (frames and body bytes are
\* not request lines).
ClientRequests == SelectSeq(stream, LAMBDA u : u.k = "req")

\* The server cuts the client's stream into the requests the client sent:
\* every line it accepts as a request line was sent as one, in order, none
\* skipped and none taken from a POST body (http_cmd_post's Content-Length
\* accounting and http_read_post across partial reads).
RequestsFramedAsSent == IsPrefix(parsed, ClientRequests)

\* hp_ws_fini runs at most once on a connection, and only after the same
\* route's hp_ws_init succeeded on it (http_cmd_start_websocket sets hc_path
\* only after a successful init; http_close calls fini when hc_path is set).
FiniOnlyAfterInit ==
  \A i \in 1..Len(app) :
    app[i].ev = "fini" =>
      /\ \A j \in 1..Len(app) : app[j].ev = "fini" => j = i
      /\ \E j \in 1..(i - 1) :
           app[j].ev = "init" /\ app[j].path = app[i].path /\ app[j].rc = 0

\* No request is ever handed to a route's hp_callback that was never set:
\* http_add_websocket leaves it uninitialized, so every way to http_exec
\* must avoid WebSocket routes (http_cmd_get answers them 405 unless it is
\* an upgrade; http_read_post resolves and dispatches a POST itself).
CallbacksInitialized ==
  \A i \in 1..Len(app) : app[i].ev # "uninit_callback"

(***************************************************************************)
(* What the spec (sections 4.2 to 4.4) says each request is answered      *)
(* with, computed from the client's stream alone: the request line, the    *)
(* header lines that follow it, the longest registered prefix matching the *)
(* URL.                                                                    *)
(***************************************************************************)
RECURSIVE RequestsIn(_)
RequestsIn(s) ==
  LET i == SelectInSeq(s, LAMBDA u : u.k = "req") IN
  IF i = 0 THEN <<>>
  ELSE LET rest == SubSeq(s, i + 1, Len(s))
           e    == SelectInSeq(rest, LAMBDA u : u.k # "hdr")
           hs   == SubSeq(rest, 1, IF e = 0 THEN Len(rest) ELSE e - 1)
       IN  << [line |-> s[i],
               hdrs |-> [j \in 1..Len(hs) |-> [name |-> hs[j].name,
                                               val |-> hs[j].val]]] >>
           \o RequestsIn(rest)

SpecRoute(url) ==
  LET m == {i \in 1..Len(HttpPaths) : Reg!Matches(HttpPaths[i], url)} IN
  IF m = {} THEN NULL
  ELSE HttpPaths[CHOOSE i \in m :
                   \A j \in m : Len(HttpPaths[j].path) <= Len(HttpPaths[i].path)]

\* The path segment after the route's prefix, without the query string, is
\* not empty.
SpecRemainder(url, route) ==
  LET v == SubSeq(url, Len(route.path) + 1, Len(url)) IN
  /\ v # <<>>
  /\ v[1] = "/"
  /\ Len(v) >= 2
  /\ v[2] # "?"

SpecReplies(r) ==
  LET l       == r.line
      h       == r.hdrs
      c       == HeaderGet(h, "Connection")
      ka      == IF l.ver = "HTTP/1.0" THEN c = "keep-alive" ELSE c # "close"
      Final(rc) == [t |-> "resp", rc |-> rc, body |-> l.cmd # "HEAD", ka |-> ka]
      route   == SpecRoute(l.url)
      Handled == IF HandlerResult[route.path] = 0 THEN Final(200)
                 ELSE Final(HandlerResult[route.path])
      upgrade == c = "upgrade" /\ HeaderGet(h, "Upgrade") = "websocket"
  IN  CASE l.cmd = "POST" ->
             (IF HeaderGet(h, "Expect") = "100-continue"
              THEN <<[t |-> "continue"]>> ELSE <<>>)
             \o << CASE HeaderGet(h, "Content-Type") = "" -> Final(400)
                      [] route = NULL -> Final(404)
                      [] OTHER -> Handled >>
        [] l.cmd \notin Methods -> <<Final(501)>>
        [] route = NULL -> <<Final(404)>>
        [] route.leaf = 1 /\ SpecRemainder(l.url, route) -> <<Final(404)>>
        [] upgrade /\ route.leaf # Reg!WsLeaf -> <<Final(405)>>
        [] upgrade /\ HeaderGet(h, "Sec-WebSocket-Key") = NULL -> <<Final(400)>>
        [] upgrade /\ WsInitResult[route.path] # 0 ->
             <<Final(WsInitResult[route.path])>>
        [] upgrade -> <<[t |-> "raw", rc |-> 101]>>
        [] route.leaf = Reg!WsLeaf -> <<Final(405)>>
        [] OTHER -> <<Handled>>

\* What the server has written, WebSocket frames left aside, is in order
\* what the spec says the client's requests are answered with: each status
\* line, its Connection header (keep-alive decided per request from that
\* request's own headers) and whether a body follows (none for HEAD), with
\* 100 Continue ahead of its POST's reply.  A reply computed from a
\* previous request's headers or flags, a missed or an extra reply all
\* break it.
ResponsesMatchRequests ==
  LET reqs == RequestsIn(stream) IN
  IsPrefix(SelectSeq(wrote, LAMBDA o : o.t # "frame"),
           FlattenSeq([i \in 1..Len(reqs) |-> SpecReplies(reqs[i])]))

\* Once the client has written its whole stream, the server eventually
\* consumes all of it, unless the connection ends first: bytes already in
\* the queue never wait for a read callback that will not come (the loop of
\* http_handle_input returns after HCS_POSTDATA and after dropped lines).
InputConsumed ==
  FairReads => ((nsent = Len(stream)) ~> (q = <<>> \/ conn # "open"))
=============================================================================
