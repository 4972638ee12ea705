-------------------------- MODULE MCRequestTarget --------------------------
(* Route tables, URLs and request lines for checking RequestTarget       *)
(* (RouteRegistry and HttpRequestLine) with TLC: how the server finds    *)
(* the target of a request.                                                *)
(* Paths are written as tuples of one-character strings, request lines as *)
(* tuples of byte values.                                                  *)
EXTENDS RequestTarget

Chars == {"/", "a", "b", "?"}

\* Every URL of up to four characters that starts with '/'.
MCUrls == {<<"/">> \o s : s \in BoundedSeq(Chars, 3)}

\* Plain routes whose paths are prefixes of one another at a '/' boundary,
\* one that is a prefix only without a boundary ("/a" of "/ab"), and two of
\* equal length so that registration order matters.
MCPlainRoutes ==
  { [path |-> <<"/">>,                leaf |-> 0],
    [path |-> <<"/", "a">>,           leaf |-> 0],
    [path |-> <<"/", "b">>,           leaf |-> 1],
    [path |-> <<"/", "a", "b">>,      leaf |-> 0],
    [path |-> <<"/", "a", "/", "b">>, leaf |-> 1] }

\* One WebSocket route, sharing its path with a plain route.
MCWsPathsOne == { <<"/", "a">> }

\* Two WebSocket routes, one a prefix of the other.
MCWsPathsTwo == { <<"/", "a">>, <<"/", "a", "/", "b">> }
\* Bytes of request lines: ' ', 'G' (the verb), 'H' (the version), '/',
\* 'a' and the Latin-1 letter 0xE9; Glyph writes them as path characters.
LineBytes == {32, 47, 71, 72, 97, 233}

MCGlyph == (32 :> " ") @@ (47 :> "/") @@ (71 :> "G") @@ (72 :> "H")
             @@ (97 :> "a") @@ (233 :> "E9")

\* Request lines built from fields: optional leading and trailing bytes,
\* a verb, a URL of up to three of '/', 'a' and 0xE9, the version, and
\* separators of a space, two spaces or 0xE9.
Edge == {<<>>, <<32>>, <<233>>}
Verb == {<<71>>, <<72>>, <<71, 233>>}
Sep  == {<<32>>, <<32, 32>>, <<233>>}
Url  == BoundedSeq({47, 97, 233}, 3) \ {<<>>}

\* The lines of fields, every line of up to four bytes, and lines of four
\* fields.
MCLines ==
  { e1 \o v \o s1 \o u \o s2 \o <<72>> \o e2 :
      e1 \in Edge, v \in Verb, s1 \in Sep, u \in Url, s2 \in Sep, e2 \in Edge }
  \cup BoundedSeq({32, 47, 71, 72, 233}, 4)
  \cup {<<71, 32>> \o u \o <<32, 72, 32, 71>> : u \in Url}

MCCmdTab == {<<71>>}
MCVersionTab == {<<72>>}
=============================================================================
