------------------------- MODULE MCHttpConnection -------------------------
(* Routes, handler results and client streams for checking HttpConnection. *)
EXTENDS HttpConnection

\* Paths and URLs as tuples of one-character strings.
P_a  == <<"/", "a">>
P_ab == <<"/", "a", "/", "b">>
P_w  == <<"/", "w">>
P_v  == <<"/", "v">>
U_ax == <<"/", "a", "/", "x">>
U_z  == <<"/", "z">>

\* The list http_paths holds after http_path_add("/a/b", leaf),
\* http_path_add("/a"), http_add_websocket("/v"), http_add_websocket("/w").
MCHttpPaths ==
  << [path |-> P_w, leaf |-> 2], [path |-> P_v, leaf |-> 2],
     [path |-> P_ab, leaf |-> 1], [path |-> P_a, leaf |-> 0] >>

\* "/a" replies itself (0), "/a/b" answers 403.
MCHandlerResult == (P_a :> 0) @@ (P_ab :> 403)

\* "/w" accepts the upgrade, "/v" refuses it with 401.
MCWsInitResult == (P_w :> 0) @@ (P_v :> 401)

\* A body whose last bytes form the line "GET /a/b HTTP/1.1".
Smuggled == Req("GET", P_ab, "HTTP/1.1")

\* Requests a well-behaved client sends.
GetAX    == <<Req("GET", U_ax, "HTTP/1.1"), Blank>>
GetZ     == <<Req("GET", U_z, "HTTP/1.1"), Hdr("Connection", "close"), Blank>>
HeadAB   == <<Req("HEAD", P_ab, "HTTP/1.0"), Hdr("Connection", "keep-alive"), Blank>>
Options  == <<Req("OPTIONS", P_a, "HTTP/1.1"), Blank>>
PostA    == <<Req("POST", P_a, "HTTP/1.1"), Hdr("Content-Length", 2),
              Hdr("Expect", "100-continue"), Blank, Body(Junk), Body(Smuggled)>>
Upgrade(p) ==
  <<Req("GET", p, "HTTP/1.1"), Hdr("Connection", "upgrade"),
    Hdr("Upgrade", "websocket"), Hdr("Sec-WebSocket-Key", "key"), Blank,
    Frame("ping"), Frame("text")>>

\* Two requests pipelined on one connection, the second possibly an upgrade.
MCHonestStreams ==
  { a \o b : a \in {GetAX, HeadAB, PostA, Options},
             b \in {GetZ, PostA, Upgrade(P_w), Upgrade(P_v)} }

\* A POST whose Content-Length exceeds 16 MiB, and one with none, whose
\* body bytes form the line of Smuggled.
MCHostileStreams ==
  { <<Req("POST", P_a, "HTTP/1.1"), Hdr("Content-Length", 17000000), Blank,
      Body(Smuggled), Body(Blank)>>,
    <<Req("POST", P_a, "HTTP/1.1"), Blank, Body(Smuggled), Body(Blank)>> }
\* Streams after which nothing is pipelined behind a POST body, and ones
\* where a request follows it.
MCNoPipelineAfterPost ==
  { a \o b : a \in {GetAX, HeadAB, Options},
             b \in {GetZ, PostA, Upgrade(P_w)} }
MCPipelineAfterPost == { PostA \o GetZ }
\* Input left in the queue when http_handle_input returns: a request behind
\* a POST body, a request behind a stray empty line, a frame whose payload
\* could not be allocated.
MCBufferedBehindReturn ==
  MCPipelineAfterPost \cup { GetAX \o <<Blank>> \o GetZ, Upgrade(P_w) }
\* A complete POST to the WebSocket route "/w".
MCPostToWs ==
  { <<Req("POST", P_w, "HTTP/1.1"), Hdr("Content-Length", 1),
      Hdr("Content-Type", "text/plain"), Blank, Body(Junk)>> }

\* Which allocations of one http_io_read call fail: none; frame payloads;
\* the POST buffer.
MCNoFailures == {[post |-> FALSE, frame |-> FALSE]}
MCFrameFailures == MCNoFailures \cup {[post |-> FALSE, frame |-> TRUE]}
MCPostFailures == MCNoFailures \cup {[post |-> TRUE, frame |-> FALSE]}
\* The hostile streams and a well-formed POST whose buffer malloc fails.
MCRefusedPostStreams == MCHostileStreams \cup { PostA }
=============================================================================
