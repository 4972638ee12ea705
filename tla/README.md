# TLA+ models of the showtime HTTP/WebSocket server

This directory holds TLA+ models of the embedded HTTP/1.x and WebSocket server
in `src/src/networking/http_server.c` and of the three GUI containers (horizontal, vertical, stacked) in
`src/src/ui/glw/glw_container.c`. They are checked with TLC. Every
definition is translated from those files. The line ranges each definition
stands for are listed under `map` in `PROJECT.json`.

## The system

`http_server.c` is a single-threaded, callback-driven server. The reactor
(asyncio, outside `src/`) calls:

- `http_accept` for a new socket;
- `http_io_read` whenever bytes arrive;
- `http_io_error` when the peer goes away.

`http_io_read` runs `http_handle_input`. This is a `while(1)` over the
connection state `hc_state`:

- COMMAND reads the request line.
- HEADERS reads header lines. A continuation line is folded onto the previous
  header, and the blank line calls `http_handle_request`.
- POSTDATA accumulates the body through `http_read_post`.
- WEBSOCKET reads frames through `websocket_input`.

After the loop, `http_write` hands `hc_output` to the reactor.

Requests are dispatched through a process-wide route list, `http_paths`:

- `http_path_add` inserts plain routes, sorted by decreasing path length.
- `http_add_websocket` inserts WebSocket routes at the head.
- `http_resolve` splits a URL into route, remainder and query string.

Plain routes call `hp_callback`. WebSocket routes call `hp_ws_init` on
upgrade, `hp_ws_data` per frame and `hp_ws_fini` from `http_close`.

The other files under `src/` belong to other subsystems:

- `glw_container.c`, `glw_bloom.c` and `glw_video_rpi.c` are the GUI;
- `posix.c` and `android.c` are platform start-up.

They do not interact with the server. Of these, only `glw_container.c` has state and a protocol of its own. A container keeps sums over its children: the total weight, the fixed width, the spacing width and the constraint flags. Signals from the children recompute these sums: created, destroyed, hidden, unhidden, constraints changed. The layout pass then places the visible children from the sums.

### Components and what makes each correct

| Component | State | Operations | What must hold |
|---|---|---|---|
| Route registry | `http_paths` | `http_path_add`, `http_add_websocket`, `http_resolve` | longest prefix wins; the boundary rule; a WebSocket route is preferred on a tie; the remainder and query string are split at the first `?` |
| Connection | `hc_state`, request headers, `hc_keep_alive`, `hc_no_output`, `hc_post_len/offset`, `hc_path`, `hc_output`, the input queue | `http_accept`, `http_io_read` (the whole loop), `http_close` | the stream is cut into requests exactly as the client sent them; one reply per request, decided by that request alone; protocol errors close the connection; input is eventually consumed; `hp_ws_fini` only after a successful `hp_ws_init` |
| Line and header utilities | none (pure) | `http_read_line`, `http_tokenize`, header add, get and fold | an over-long line is refused; a request line is accepted only with its three fields, kept whole; folding joins onto the last header |
| WebSocket framer | the input queue | `websocket_input`, `websocket_send_hdr` | ping answered by pong and never delivered; the three length formats; unmasking |
| Response builders | `hc_output` | `http_send_reply`, `http_error`, `http_send_raw` | the status, the Connection header and the body presence (none for HEAD) |
| GUI containers | cached sums in `glw_container_t`, per-child `pos/scale/size` | the signal handler, `glw_container_set_int`, `container_set_int16_4`, `glw_container_{x,y,z}_layout` | the cached sums are those of the visible children; children stay inside the padded area and weighted children fill it |

### Hard behaviours in this code

- **Partial reads.** The reactor delivers bytes in arbitrary chunks. A request, a header block or a POST body can be split anywhere. Several pipelined requests can arrive in one read.
- **Dropped return value.** Every "return 1" of `http_handle_input` was meant to close the connection, but `http_io_read` ignores it.
- **Returning while input is buffered.** The loop returns after a completed POST body, after a junk line and after an over-long line. Any input already buffered then waits for a read callback.
- **Per-connection fields reused by pipelined requests.** These are the header lists, `hc_keep_alive`, `hc_no_output` and the POST counters.
- **Registration order** decides which route answers.
- **Plain `char`.** `http_tokenize` and `http_read_line` compare bytes as `char`, which is signed on x86 builds and unsigned on ARM ones.
- **Uninitialized callbacks.** `http_add_websocket` allocates with `malloc` and never sets `hp_callback`.
- **Allocation failure.** `malloc` of a POST buffer and `mymalloc` of a frame payload may fail; both paths return 1, which is dropped.
- **Nested containers.** A container's constraints are copied by its parent, so a change deep in the widget tree must travel up through the signals.

## Modules

### `RouteRegistry.tla`: route list and lookup

- **Variable:** `http_paths`, a sequence of `[path, leaf]` records. A path is a tuple of one-character strings, and leaf 2 marks a WebSocket route.
- **Actions:**
  - `http_path_add(hp)` translates `LIST_INSERT_SORTED` with `hp_cmp`: the new route goes before the first entry with a shorter path.
  - `http_add_websocket(hp)` is `LIST_INSERT_HEAD`.
  - Each route is registered once (`~Registered(hp)`), as the callers do at start-up.
- **Lookup:** `http_resolve(paths, url)` translates the lookup loop (`Matches`: `strncmp` plus the boundary character) and the `switch(*v)` (`Split`). It returns the route with the remainder and the query string, or `NULL`.

`QueryAfterFirstMark` states the spec's split of the query string; it is not a run (see "Known disagreements").

### `HttpRequestLine.tla`: reading a request line

This module has no variables. It translates, byte by byte:

- the trim at the end of `http_read_line` (`read_line_trim`);
- `http_tokenize` (`SkipsBefore` is the skip loop, `InToken` the token loop, and the `vecsize`-th token runs to the end of the string);
- the HCS_COMMAND use of both in `http_handle_input` (`command_line`): three tokens, the verb and version looked up with `str2val`.

A line is a sequence of byte values. The constant `CharSigned` is the build's signedness of `char`, and `Char(b)` the value a comparison sees. `Fields` is the reference: the request line as spec 4.3 reads it, the maximal runs of bytes other than space and tab.

### `RequestTarget.tla`: a request line resolved against the routes

This module composes the two above. Routes are registered at start-up while the server may already be taking requests, so `RequestTargetAsSent` resolves the URL that `command_line` keeps against the table in every state of the registry. It compares the result with resolving the URL field that was actually sent. `Glyph` writes URL bytes as the registry's path characters.

`MCRequestTarget.tla` sets up the composition for one run:

- five plain routes (`/`, `/a`, `/b` (leaf), `/ab`, `/a/b` (leaf));
- the WebSocket route `/a`;
- every URL of up to four characters over `/ a b ?`;
- request lines built from fields: an optional leading and trailing space or 0xE9, a verb (`G`, `H` or `G` followed by 0xE9), a URL of up to three of `/`, `a` and 0xE9, the version `H`, and separators of one space, two spaces or 0xE9;
- every line of up to four bytes over space, `/`, `G`, `H` and 0xE9;
- four-field lines `G <url> H G`.

Every registration order is reached.

### `HttpConnection.tla`: one connection

- **The client.** The client's whole stream is chosen in `Init` from the constant `Streams`. Its units are:
  - a request line, a header, a continuation, a blank line;
  - a malformed line or an over-long line;
  - a POST body byte, which carries the line its bytes would form if read as a line;
  - a WebSocket frame.
- **Variables:**
  - `nsent`: how much has been delivered;
  - `q`: the input queue;
  - `hc`: the fields of `struct http_connection` the protocol uses;
  - `wrote`: everything handed to `asyncio_sendq`;
  - `conn`: open, closed or aborted;
  - two history variables: `parsed` (lines accepted as request lines) and `app` (calls into WebSocket callbacks).
- **`http_io_read(k)`** is one step. It delivers `k` more units and runs the recursive operator `http_handle_input` over a record of the connection (`w`) to its end. The operator makes one pass of the `while(1)` per call: `CommandStep`, `HeadersStep`, `http_read_post` or `WebsocketStep`. The step then runs `http_write`. The reactor is single-threaded, so nothing interleaves with this callback.
- **`http_close`** may happen at any time while the connection is open. It stands for `http_io_error`.
- **Callbacks.** Route callbacks are constants:
  - `HandlerResult` is the value a plain route's `hp_callback` returns;
  - `WsInitResult` is the value a WebSocket route's `hp_ws_init` returns.
- **Uninitialized `hp_callback`.** A call through it is undefined behaviour. It is modelled as an `uninit_callback` event followed by the process dying.
- **Allocation failure.** Each read picks from the constant `MallocOutcomes` which allocations fail during the call: the POST buffer (`http_cmd_post` then clears keep-alive and returns 1) and frame payloads (`websocket_input` returns 1 with the frame still queued).

`HttpConnection` instantiates `RouteRegistry` for `http_resolve`. The route list is the constant `HttpPaths`.

`MCHttpConnection.tla` defines:

- the routes `/w` and `/v` (WebSocket), `/a/b` (leaf, answers 403) and `/a` (replies itself), in the order registration leaves them;
- the stream sets below.

| Set | What it holds |
|---|---|
| `MCHonestStreams` | two pipelined requests: the first from {GET, HEAD 1.0 keep-alive, POST with `Expect: 100-continue`, unknown verb}, the second from {GET with `Connection: close`, the POST, upgrade to `/w` (accepted), upgrade to `/v` (refused 401)}, each upgrade followed by a ping and a text frame |
| `MCHostileStreams`, `MCRefusedPostStreams` | POSTs refused for their Content-Length; with them, a well-formed POST (for a failed buffer allocation) |
| `MCPostToWs` | a POST to a WebSocket route |
| `MCNoPipelineAfterPost` | streams with nothing behind a POST body |
| `MCBufferedBehindReturn` | a request behind a POST body, a request behind a stray empty line, an upgrade followed by frames |

The allocation outcomes are `MCNoFailures`, `MCFrameFailures` (frame payloads may fail) and `MCPostFailures` (the POST buffer may fail). Every chunking of every stream is explored, with every choice of failing reads.

### `WsFrame.tla`: WebSocket frame codec

This module is the byte-level counterpart of `WebsocketStep`.

- **Client reference.** The client's frames are encoded as RFC 6455 prescribes: `RfcHeader`, with payload bytes XORed with the mask. This encoding is independent of the code. The input queue is viewed as a function from offsets to bytes (`StreamByte`). Payload bytes beyond the tracked prefix follow a fixed pattern, so frames of 64 KiB need no 64 KiB sequences.
- **Variables:**
  - `stream`, the frames the client sends;
  - `arrived`, the bytes delivered so far;
  - `consumed`, the bytes `websocket_input` has dropped;
  - `handled`, the frames given to `hp_ws_data`, or answered for a ping;
  - `written`, the frames sent.
- **Actions:**
  - `http_io_read(c)` delivers bytes up to offset `c` and runs `WsLoop`, the `while(1)` of `http_handle_input` in WEBSOCKET state, with `websocket_input` translated line by line. It uses the 14-byte peek, the three length formats, the mask and the unmasking loop, a pong for a ping (`websocket_send`), and "need more data" as an early return.
  - `RouteSend(len)` is a route's own `websocket_send` with an arbitrary length. It is bounded by `MaxSends`.
- **Build constant.** `LenOrder` is the wire order of the 64-bit length. The code `memcpy`s the length in host order and byte-swaps it only `#if defined(__LITTLE_ENDIAN__)`. GCC does not define that macro; it defines `__ORDER_LITTLE_ENDIAN__`. So a GCC build on x86 or ARM uses little-endian order (`"little"`). A build that defines the macro, or a big-endian host, gets the order the RFC requires (`"big"`).
- **Integer width.** TLC integers are 32-bit. `Huge` stands for every 64-bit length of 2^31 or more, and such a frame can never complete under the bounds.
- **Cut points.** `Cuts` places reads at every byte of the first `SplitWindow` bytes and around every frame boundary. So a header split after 1, 2, 3, 4, 8 or 10 bytes, and a payload split in its middle, are all explored.

`MCWsFrame.tla` defines the frames. A masked ping is followed or preceded by one of: a masked 5-byte text frame, an empty frame, and frames of 125, 126, 65535 and 65536 bytes (the three length formats on both sides of each boundary). The sent lengths are 0, 125, 126, 65535 and 65536.

### `GlwContainer.tla`: the horizontal GUI container

- **Children.** A child is an id with a request: its filtered constraint flags `f` (`glw_filter_constraints`), its `x` and `y` sizes and its weight. The constants `InitReq` and `ReqChoices` give its first request and the ones it may change to.
- **Variables:**
  - `childs` (`glw_childs` in list order) and `hidden` (`GLW_HIDDEN`);
  - `req`, each child's request;
  - `co`, the fields of `glw_container_t`;
  - `creq`, the container's own constraints as passed to `glw_set_constraints`;
  - `refresh`, whether `glw_need_refresh` was called;
  - `laid`, the items of the last layout.
- **Constraint round.** `x_constraints` translates `glw_container_x_constraints` as sums over sets of children. `ConstraintRound` adds its three effects: the cache, the refresh request and the container's own constraints. `x_callback` is the signal handler's choice of the child to skip.
- **Actions:** each operation that signals the container is one action: `Create`, `Destroy`, `SetHidden` and `ChildConstraints`. Each performs the list or flag change of `glw.c` (outside `src/`) in the order the handler's `skip` argument requires, and then the handler. `glw_container_set_int` only stores the spacing. `container_set_int16_4` stores the padding and signals the container itself. `glw_container_x_layout(rcw)` records the layout.
- **Layout arithmetic.** Sizes and weights are integers, with aspect children weighted -1, so every float of the layout is a rational. Its denominator is `weight_sum` when the requests fit, or `width` when they are scaled. `Rint` is `rintf`: rounding half to even. At the pixel sizes used, float arithmetic is exact on these values, so the rational model is faithful. When `width` is 0 in the scaled case, the positions are not finite and their conversion to `int` is undefined. It is a choice between `INT_MIN` (x86) and 0 (ARM, NaN).

`MCGlwContainer.tla` defines four children:

- a label (X and Y constraints, 20 pixels, which may grow to 40);
- a weighted child (weight 2, which may drop to 0 or lose its constraints and count with weight 1);
- two square icons (weight -1).

The paddings are none and `<4,2,6,2>`. The row height is 20.

### `GlwContainerY.tla`: the vertical GUI container with AUTOFADE

`glw_container_y` differs from `container_x` in the part that changes state over frames. With `GLW2_AUTOFADE` each child's alpha is filtered towards 1 (visible) or 0 (hidden) by `glw_lp` once per layout. A hidden child is skipped only when its fade is below 0.01. `retire_child` marks a child `GLW_RETIRED` and suspends its subscriptions; the layout loop destroys the child when its fade has fallen that far.

- **Variables:** `childs`, `hidden` and `req` as in `GlwContainer`; `retired` (`GLW_RETIRED`); `co` and `creq`; `fade`, each child's `autofade` as a level in `0..FadeSteps` (one `glw_lp` step per layout, 0 standing for "below 0.01").
- **Constraint round.** `y_constraints` translates `glw_container_y_constraints`: the height with both paddings and the spacing, the weight sum, `co_using_aspect`, the width from the widest child, and the Y flag dropped when there is weight. `y_callback` is the signal handler.
- **Actions:** `Create`, `Destroy`, `SetHidden`, `ChildConstraints`, `Retire` (`retire_child`: with AUTOFADE the child is marked, without it it is destroyed), `container_set_int16_4`, and `glw_container_y_layout(rch)`. The layout action is the whole function: the aspect height, the scale, the loop with its fade step, hidden-child skip, size, position, and the destroy of a faded retired child, which signals `CHILD_DESTROYED` and reruns the constraint round in the middle of the loop. The loop is `Loop`, which carries the state through the children in list order, so a child after a destroyed one reads the new `co`.
- **Arithmetic** is rational, as in `GlwContainer`. `rc_width / -w` for weight 0 and the division by a zero `weight_sum` for a fading hidden child give `NotFinite`; `Rint` turns it into the build's undefined conversion.

`MCGlwContainerY.tla` defines three children: a label (30 by 10, fixed), a weighted child (weight 2, which may turn into a fixed 14-pixel row) and a square child (weight -1). The paddings are none and `<4,2,6,2>`, the spacing is 2, the column is 20 wide and 30 or 60 high, and a fade takes two layouts.

### `GlwContainerZ.tla`: a stacked container holding a row

`container_z` stacks its children and publishes the constraints of one of them. `glw_container_z_constraints` picks the first visible child with constraint flags, else the first visible child whose class is not `GLW_UNCONSTRAINED`, else none. The module composes it with the component it most often holds, a `container_x` row: `X == INSTANCE GlwContainer`, whose variables are part of the state.

- **Variables:** the row's seven (`GlwContainer`); `zchilds` (the row first, then leaves in creation order), `zhidden`, `zreq` (each leaf's constraints) and `zc`, the container's own constraints.
- **Actions:**
  - `RowStep`: any step of the row that runs its constraint round. When the constraints the row publishes change, `glw_set_constraints` (`glw_container.c:131`) signals `CHILD_CONSTRAINTS_CHANGED` to the parent and `container_z` runs its round.
  - `ZCreate`, `ZDestroy`, `ZSetHidden`, `ZChildConstraints`: the leaf operations and hides, each followed by `glw_container_z_callback`. `CHILD_HIDDEN` and `CHILD_UNHIDDEN` reach its `default: return 0`.
  - `glw_container_z_layout(rcw)`: lays out the visible children, which for the row is `glw_container_x_layout`.
- **Assumption about `glw.c`.** The module assumes that `glw_set_constraints` signals the parent when the constraints change, and that `glw_copy_constraints` copies flags, sizes and weight.

`MCGlwContainerZ.tla` defines:

- a row holding a label and a weighted child, with one spacing change and one padding change;
- a backdrop with a fixed size that may drop its constraints;
- an overlay of an unconstrained class.

## Runs

| Run | Expect | What it shows |
|---|---|---|
| `RequestTarget` | pass | `TypeOK`, `WsRouteNeverShadowed`, `RequestTargetAsSent`. In every registration order, a WebSocket route that is a longest match wins the lookup, ties with a plain route of the same path included. On a build where `char` is unsigned, a request line of any of the bytes above is accepted only if it has exactly three fields, and the verb and version kept are those fields. The URL kept resolves, in every registry state, to the route and remainder of the URL field sent. A fourth field, or a trailing one cut off by `http_read_line`, never gets through. |
| `HttpConnection_honest` | pass | `TypeOK`, `RequestsFramedAsSent`, `FiniOnlyAfterInit`, `ResponsesMatchRequests`. Under every chunking, the server accepts exactly the client's request lines, in order. Its replies are, in order, what the spec prescribes per request. `hp_ws_fini` runs at most once and only after a successful init. All of this still holds when `mymalloc` of a frame payload fails in some reads: the frame stays whole in the queue. |
| `HttpConnection_smuggle` | violation | A POST refused for its Content-Length does not close the connection, and neither does a well-formed POST whose buffer `malloc` failed (`:713`). Its body is parsed as a request. |
| `HttpConnection_wspost` | violation | A POST to a WebSocket route calls the uninitialized `hp_callback`. |
| `HttpConnection_live` | pass | `InputConsumed`: for pipelined pairs of GET, HEAD or OPTIONS followed by GET, a POST or an upgrade to the WebSocket route, with no allocation failing, all input is consumed under fair reads. The run leaves out:<br>- a request behind a POST body or behind a stray empty line;<br>- a refused upgrade to a plain route followed by frames;<br>- an over-long line;<br>- memory failures.<br>`HttpConnection_stall` shows the first of these stalling. |
| `HttpConnection_stall` | violation | Input left in the queue when `http_handle_input` returns waits forever for another read. There are three such cases, and TLC finds each on its own: a request pipelined behind a POST body (`:1024`); a request behind a stray empty line, which is consumed with "return 1" (`:972`); and a frame whose payload `mymalloc` could not allocate (`:918`). |
| `WsFrame_big` | pass | `TypeOK`, `FramesDecodedAsSent`, `CompleteFramesHandled`, `WrittenHeadersPerRfc`, under every split of the stream. Every complete frame is handled exactly once, with the client's opcode, length and unmasked data. Each ping gets one pong with the ping's data. `consumed` is always a frame boundary. Every header written is the RFC header for its length. |
| `GlwContainer_cache` | pass | `TypeOK`, `ConstraintsMatchChildren`. Through every order of creations, destructions, hides, unhides, constraint, spacing and padding changes and layouts, the cached sums and published constraints match the visible children. |
| `GlwContainer_layout` | pass | `ChildrenSpanPaddedArea`, `ChildrenWithinContainer`: with a label, a weighted child and an icon, left-aligned, at widths 30 (scaled), 60 and 100, every fitting layout stays inside the padded area and the weighted child ends at the right padding, and the scaled layout keeps every child inside the row. |
| `GlwContainerY_fade` | pass | `TypeOK`, `ConstraintsMatchChildren`, `SettledChildrenSpanPaddedArea`, `RetiredChildReleased`: through every order of creations, hides, retirements, destroys, constraint and padding changes and layouts at heights 30 and 60, the cache matches the visible children even across a destroy inside the layout loop; a column with no child fading out fills the padded area; and a child retired while visible is eventually destroyed. |
| `GlwContainerZ_nested` | pass | `ZConstraintsCurrent`: through every order of the row's and the leaves' steps, `container_z` publishes the current constraints of a child it still holds. A change of the row made by the row's own children reaches the parent. A destroyed child's constraints do not linger. About 113,000 states in 35 seconds. |
| `GlwContainerY_leak` | violation | `RetiredChildDestroyed`: a child that is hidden and faded out when it is retired is never destroyed. The hidden branch (`glw_container.c:399-401`) continues before the `GLW_RETIRED` branch (`:423`), and the child's subscriptions are suspended, so nothing unhides it. |

### Known disagreements outside the runs

The model shows these when its bounds are widened. Each is listed as a hazard in `PROJECT.json`, at its line, with the property that catches it.

- **Query split.** For `<path>/?x`, `http_resolve` hands on the query string `?x`, not `x` (`http_server.c:226`). `QueryAfterFirstMark` in `RouteRegistry` states the spec's rule. With `RequestTarget.cfg` and that invariant, TLC finds it violated once `/` is registered.
- **Signed `char` in the request line.** On an x86 build `char` is signed. There `http_tokenize` ends a token at a byte of 128 or more without skipping it (`http_server.c:530-537`). `GET /caf\xE9 HTTP/1.1` (Latin-1) is therefore accepted with the URL `/caf`. The 0xE9 is overwritten with the terminator, and the next field is still read as the version. Two such bytes before a version make empty verb and URL tokens: `\xE9\xE9H` is accepted as three tokens. `http_read_line` also cuts trailing bytes of 128 and more (`:797`). Byte 0xFF equals the delimiter -1 and separates tokens. `RequestTargetAsSent` with `CharSigned = TRUE` is violated in the initial state: a line whose separator is 0xE9 is accepted with three tokens from two fields.
- **Leaf route with a trailing slash.** `GET /a/b/` on a leaf route gets 404 rather than the handler's answer (`ResponsesMatchRequests`, with a stream ending the path in `/`).
- **Over-long line.** An over-long line is never consumed. The connection neither closes nor progresses (`InputConsumed`, with that line in the stream).
- **64-bit length on receive.** Without `__LITTLE_ENDIAN__` on a little-endian host (a GCC build), a client frame of 64 KiB or more is read with a byte-swapped length and never completes (`CompleteFramesHandled` with `LenOrder = "little"`, `http_server.c:899`).
- **`container_z` and hidden children.** `glw_container_z_callback` has no `CHILD_HIDDEN` case (`glw_container.c:698-711`). Hiding the child whose constraints `container_z` copied leaves them published, although `glw_container_z_constraints` skips hidden children (`:474`). `ZConstraintsMatchChildren` in `GlwContainerZ` states the rule. With `GlwContainerZ_nested.cfg` and that invariant, TLC finds it violated: the row gets a constrained child, the row is hidden, and `zc` still holds the row's constraints.
- **64-bit length on send.** A GCC build writes the 64-bit length of a frame of 64 KiB or more in little-endian order (`WrittenHeadersPerRfc` with `LenOrder = "little"`).
- **Hidden aspect children.** With one icon hidden and one visible, the weighted child ends short of the right padding. The aspect-width loop does not skip hidden children (`glw_container.c:171`).
- **Spacing changes.** `glw_container_set_int` does not rerun the constraint round, so the children overrun the right padding after a spacing increase (`:729`).
- **Right alignment.** Right-aligned children end padding-left + padding-right before the edge (`:202`).
- **Trailing space after the version.** `http_read_line` cuts trailing control bytes but not spaces, so `GET / HTTP/1.1 ` is refused as a version mismatch. RFC 7230 does not allow the space, so this is not treated as a disagreement.
- **Longest match across kinds.** With plain `/a/b` registered and then WebSocket `/a`, `/a/b/...` resolves to `/a`, because WebSocket routes are inserted at the head (`http_server.c:192`). `LongestMatchWins` in `RouteRegistry.tla` states the spec's rule; TLC finds it violated.
- **Aspect overflow in `container_x`.** Two icons in a 30-pixel row with no fixed child: `fixscale` divides by `co->width` = 0 and positions are undefined; with a fixed child they go negative (`:184`, `ChildrenWithinContainer` at width 30 with two icons).
- **`container_y` weight 0.** A weighted child whose weight drops to 0 gets `rc_width / -0.0` (`:414`); `container_x` skips weight 0 (`:226`), `container_y` does not.
- **`container_y` fading weighted child.** While the only weighted child fades out after a hide, its height is `weightavail * w / weight_sum` with `weight_sum` = 0 (`:412`).
- **`container_y` centre and bottom alignment** ignore the top padding (`:374`, `:376`), like `container_x`'s right alignment.
- **`container_y` spacing** is cached in `co->height` and goes stale after `glw_container_set_int` the same way (`:729`).

`ResponsesMatchRequests` compares what the server wrote with `SpecReplies`. `SpecReplies` is computed from the client's stream alone, by the rules of spec sections 4.2 to 4.4:

- the longest matching route;
- keep-alive from the request's own Connection header;
- no body for HEAD;
- 404 for a non-empty remainder on a leaf route;
- 405, 400 or 101 for upgrades;
- 100 Continue ahead of the POST reply.

So the property compares the code against an independent statement of the spec, not against itself.

Each property of a passing run has a mutant in `PROJECT.json`. A mutant is an operator next to the definition it replaces, and it mimics a plausible slip in that code:

- the POST copy not clamped;
- the body taken as complete one byte early;
- `hc_path` set before `hp_ws_init`;
- the header list not freed;
- no fall-through after the request line;
- sorted insertion before equal-length entries;
- a WebSocket route registered with the wrong `hp_leaf`;
- the last token of `http_tokenize` terminated before the `vecsize` check;
- the frame consumed one byte too far;
- the mask indexed from 1;
- the 16-bit length format chosen at 126 bytes;
- only one frame decoded per read;
- constraint flags not masked to X|Y;
- `CHILD_DESTROYED` handled without skipping the child;
- the aspect width summed without the `co_using_aspect` guard;
- the scaled room computed without subtracting the aspect width;
- `glw_lp` not clamped at the target;
- `container_y`'s handler not skipping a destroyed child;
- the aspect height left out;
- a faded child never counted as faded.

TLC finds the property violated for each one.

### Bounds

- **Routes.** Four routes cover every kind: leaf, non-leaf, accepted WebSocket and refused WebSocket. `/a/b` extends `/a`, so longest-match and leaf-remainder questions arise.
- **Requests.** Two pipelined requests are enough for every carry-over between requests: stale headers, `hc_no_output`, keep-alive and POST counters.
- **POST body.** Two bytes can be split across reads, and the second byte forms a request line.
- **WebSocket frames.** A ping and a text frame exercise both branches of `websocket_input`.
- **Registry.** URLs of up to four characters reach every case of the `switch(*v)` and the boundary rule.
- **Request lines.** The lines are built from fields rather than enumerated byte by byte, so that URLs reach the routes: a high byte inside a field, before it, as a separator or at the end of the line, a doubled space, and every line of up to four bytes besides. The four-field lines reach the unterminated last token. That is about 5,000 lines. `RequestTargetAsSent` quantifies over all of them and reads `http_paths`, so TLC evaluates it in each of the registry's 130 states; the run takes about 35 seconds. On an unsigned build, 0xFF behaves like 0xE9 (both are above 32), so it is left out.
- **Frame lengths.** 0, 125, 126, 65535 and 65536 sit on both sides of both length-format boundaries. `MaxTracked` = 5 keeps the data of the short frames, and one route send covers the send side.
- **Container.** The cache run uses three children (label, weighted, icon), two spacings and two paddings; the label keeps its text there, since a growing label only changes the width the other steps already change. Every list order and every hidden/request combination is reached. The layout run uses the same children with one spacing, at one width that scales and two that fit. Adding a spacing change, a second icon or right alignment makes `ChildrenSpanPaddedArea` fail, as described under "Known disagreements" below.
- **Nested containers.** The row has two children (the label keeps its text), so its constraints can change and can become empty; one spacing and one padding change are enough to change them without a child step. Two leaves reach both branches of `glw_container_z_constraints`: the backdrop has flags, and the overlay has none and an unconstrained class. With the icon as a third child of the row the run takes over 20 minutes.
- **Vertical container.** Three children reach every kind (fixed, weighted that can become fixed, aspect); two paddings and two heights give a layout that fits and one that scales. Two fade levels are enough for a child to be half faded (its position still counted) and faded (skipped or destroyed), and with three children a destroy in the loop has children after it. About 51,000 states in 90 seconds.

### Fairness

The reactor calls `http_io_read` whenever bytes are readable. So reads are weakly fair: a connection with unsent bytes eventually gets them delivered. The peer may close at any time, so `http_close` is not fair.

`Spec` states this as `WF_vars` of the read action. The runs use `SafetySpec` plus the equivalent formula `FairReads`, which is the premise of `InputConsumed`. `FairReads` says that if a read stays enabled, bytes are eventually delivered. TLC checks it without evaluating `ENABLED` of the recursive handler, and `ENABLED` of the handler is exponentially slow for TLC.

The vertical container's layout runs once per frame while the container is visible: the frame loop of the glw root calls it for every visible widget. So a layout that would change the state is eventually taken. `FairLayout` says exactly that: if layouts keep being able to change the state, the fade state eventually changes. It is weaker than weak fairness of the layout action, and it is the premise of `RetiredChildReleased` and `RetiredChildDestroyed`. It is written without `ENABLED` because TLC re-evaluates the recursive layout loop in `ENABLED` without caching. Creations, hides and retirements are user actions and are not fair.

## What is not modelled, and why

- **Formatting:** the text of headers, dates, reason phrases, the HTML error template and `http_redirect` (which has no caller in `src/`). The model keeps only what a client can act on: the status, the Connection header and whether a body follows.
- **SHA-1 and base64** of the handshake (out of scope in the spec).
- **The query-argument parser** (`http.c`, outside `src/`).
- **Other allocation failures.** `calloc` in `http_accept` and `malloc` in `http_add_websocket` are not checked by the code; a failure there is a crash, outside what the model says.
- **`http.c` helpers.** The header-list operations `http_header_get` and `http_header_add_lws` live in `http.c`, outside `src/`. They are modelled from the spec and marked `spec_modelled`.
- **Alpha of `container_z`** (`:510`) and its spacing attribute, which its layout never reads.
- **`container_y` without AUTOFADE, alpha and position smoothing.** The model takes `GLW2_AUTOFADE` on. It does not model the container's own `glw_alpha` (computed by the glw root): an invisible container returns before its loop (`:342`). `glw_need_refresh` requests are left out of `GlwContainerY`, and the spacing is a constant there (its setter is modelled in `GlwContainer`).
- **The glw root** (`glw.c`, outside `src/`): who consumes `glw_need_refresh`, how a child's request is filtered, and how signals are delivered. The model takes the order the signal handler's `skip` argument implies: `CHILD_DESTROYED` is sent while the child is still listed.
- **Rendering:** `glw_container_*_render` only draw what the layout computed.
- **GUI rendering** (`glw_bloom.c`, `glw_video_rpi.c`) and **platform glue** (`posix.c`, `android.c`): calls into OpenGL, OMX and the OS, with no state a model checker can say anything about.

## Plan

Done in this round:

- `WsFrame`: byte-level framing, with the build's byte-order branch as a constant;
- `GlwContainer`: `container_x`;
- `GlwContainerY`: `container_y` with AUTOFADE, `retire_child`, and the destroy inside the layout loop, with its liveness;
- `GlwContainerZ`: `container_z` composed with a `container_x` row;
- allocation failures in `HttpConnection`;
- the stray empty line before a pipelined request;
- `HttpRequestLine`: `http_tokenize` and the trim of `http_read_line`, byte by byte, with the signedness of `char`.
- `RequestTarget`: the request line and the route registry composed, with the URL kept resolved in every registry state.

Left:

1. **The spacing setter in `GlwContainerY`.**
2. **An abstract `HttpExchange` spec** (requests in, replies out, in order). `HttpConnection` is to be shown to refine it with `INSTANCE ... WITH`.
3. **More streams** (a HEAD then a GET on HTTP/1.1).
