--------------------------- MODULE RequestTarget ---------------------------
(***************************************************************************)
(* The two halves of finding a request's target, composed: HCS_COMMAND of *)
(* http_handle_input keeps hc_url from the request line (HttpRequestLine), *)
(* and http_find_path resolves it against the routes registered so far    *)
(* (RouteRegistry).  Registration runs at start-up while the server may    *)
(* already be taking requests, so a line is resolved against every table  *)
(* the registry passes through.                                            *)
(***************************************************************************)
EXTENDS RouteRegistry, HttpRequestLine

CONSTANT Glyph  \* the path character of each byte value of a URL

\* A URL as bytes, written the way RouteRegistry writes paths.
AsPath(bytes) == [i \in DOMAIN bytes |-> Glyph[bytes[i]]]

(***************************************************************************)
(* A request line the server accepts (http_handle_input does not return 1 *)
(* in HCS_COMMAND) has the three space-separated fields of spec 4.3; it    *)
(* keeps the verb (or "none", answered 501) and the version as sent, and   *)
(* the URL it kept resolves, against the routes registered now, to the    *)
(* route and remainder the URL field sent resolves to.  This is about      *)
(* http_read_line trimming and http_tokenize splitting with plain char     *)
(* comparisons, and about the third token running to the end of the line. *)
(***************************************************************************)
RequestTargetAsSent ==
  \A line \in Lines :
    LET r == command_line(line)
        f == Fields(line)
    IN  r.ok => /\ Len(f) = 3
                /\ r.cmd \in {f[1], "none"}
                /\ r.version = f[3]
                /\ http_resolve(http_paths, AsPath(r.url))
                     = http_resolve(http_paths, AsPath(f[2]))

=============================================================================
