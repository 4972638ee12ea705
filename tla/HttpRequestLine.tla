-------------------------- MODULE HttpRequestLine --------------------------
(***************************************************************************)
(* How src/src/networking/http_server.c reads a request line: the bytes    *)
(* up to '\n', with trailing control bytes cut by http_read_line, split by *)
(* http_tokenize(buf, argv, 3, -1), then the verb and version looked up    *)
(* with str2val (HCS_COMMAND of http_handle_input).                        *)
(*                                                                         *)
(* A line is a sequence of byte values 0..255.  The C code compares them  *)
(* as plain char: signed on x86 builds, unsigned on ARM ones.  CharSigned *)
(* picks the build; Char(b) is the value a comparison sees.                *)
(***************************************************************************)
EXTENDS Integers, Sequences, SequencesExt

CONSTANTS
  CharSigned,   \* TRUE when plain char is signed in the build
  CmdTab,       \* verbs of HTTP_cmdtab, as byte sequences
  VersionTab,   \* versions of HTTP_versiontab, as byte sequences
  Lines         \* request lines (without '\n') a client may send

ASSUME CharSigned \in BOOLEAN

\* The value of a byte read through a plain char.
Char(b) == IF CharSigned /\ b >= 128 THEN b - 256 ELSE b

\* http_read_line: buf[len - 1] < 32 is cut while len > 0.
RECURSIVE read_line_trim(_)
read_line_trim(buf) ==
  IF buf # <<>> /\ Char(Last(buf)) < 32 THEN read_line_trim(Front(buf))
  ELSE buf

(***************************************************************************)
(* http_tokenize(buf, vec, vecsize, delimiter), returning vec[0..n-1].     *)
(* Bytes 1..32 and the delimiter are skipped before a token; a token runs *)
(* while the byte is above 32 and not the delimiter, and the byte ending  *)
(* it is overwritten with 0.  The vecsize-th token is not terminated: it  *)
(* runs to the end of the string.                                          *)
(***************************************************************************)
SkipsBefore(b, delim) == (Char(b) > 0 /\ Char(b) < 33) \/ Char(b) = delim
InToken(b, delim) == Char(b) > 32 /\ Char(b) # delim

\* Mutation: the token is terminated before the vecsize check.
http_tokenize_cut(buf, vecsize, delim) ==
  LET RECURSIVE tok(_, _)
      tok(s, vec) ==
        LET i == SelectInSeq(s, LAMBDA b : ~SkipsBefore(b, delim))
            t == SubSeq(s, i, Len(s))
            j == SelectInSeq(t, LAMBDA b : ~InToken(b, delim))
        IN  CASE i = 0 -> vec
              [] j = 0 -> Append(vec, t)
              [] Len(vec) + 1 = vecsize -> Append(vec, SubSeq(t, 1, j - 1))
              [] OTHER -> tok(SubSeq(t, j + 1, Len(t)), Append(vec, SubSeq(t, 1, j - 1)))
  IN  tok(buf, <<>>)

http_tokenize(buf, vecsize, delim) ==
  LET RECURSIVE tok(_, _)
      tok(s, vec) ==
        LET i == SelectInSeq(s, LAMBDA b : ~SkipsBefore(b, delim))
            t == SubSeq(s, i, Len(s))
            j == SelectInSeq(t, LAMBDA b : ~InToken(b, delim))
        IN  CASE i = 0 -> vec
              [] Len(vec) + 1 = vecsize \/ j = 0 -> Append(vec, t)
              [] OTHER -> tok(SubSeq(t, j + 1, Len(t)), Append(vec, SubSeq(t, 1, j - 1)))
  IN  tok(buf, <<>>)

\* HCS_COMMAND: not ok where http_handle_input returns 1, else what it
\* keeps (hc_cmd, hc_url, hc_version); an unknown verb is kept as "none"
\* (str2val gives -1) and answered 501 at dispatch.
command_line(line) ==
  LET argv == http_tokenize(read_line_trim(line), 3, -1) IN
  IF Len(argv) # 3 \/ argv[3] \notin VersionTab THEN [ok |-> FALSE]
  ELSE [ok      |-> TRUE,
        cmd     |-> IF argv[1] \in CmdTab THEN argv[1] ELSE "none",
        url     |-> argv[2],
        version |-> argv[3]]

-----------------------------------------------------------------------------
(***************************************************************************)
(* The request line as spec 4.3 reads it: three fields separated by        *)
(* spaces.  Fields are the maximal runs of bytes other than ' ' (32) and   *)
(* '\t' (9), found from where each starts.                                 *)
(***************************************************************************)
Sp == {9, 32}

FieldStarts(s) == {i \in DOMAIN s : s[i] \notin Sp /\ (i = 1 \/ s[i - 1] \in Sp)}

FieldAt(s, i) ==
  LET ends == {j \in i..Len(s) : \A k \in i..j : s[k] \notin Sp}
  IN  SubSeq(s, i, Max(ends))

Fields(s) == [k \in 1..Cardinality(FieldStarts(s)) |->
                FieldAt(s, SetToSortSeq(FieldStarts(s), <)[k])]

=============================================================================
