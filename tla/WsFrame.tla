------------------------------ MODULE WsFrame ------------------------------
(***************************************************************************)
(* The WebSocket framer of src/src/networking/http_server.c at the level   *)
(* of bytes: websocket_input decoding client frames from the input queue   *)
(* (peek of 14 header bytes, the three length formats, the mask key, the   *)
(* unmasking loop), the HCS_WEBSOCKET loop of http_handle_input, and       *)
(* websocket_send_hdr / websocket_send encoding server frames.             *)
(*                                                                         *)
(* The client sends frames encoded as RFC 6455 (and spec 4.4) prescribe;   *)
(* the reactor delivers the bytes in chunks.  The byte order of the 64-bit *)
(* length is a property of the build: websocket_send_hdr and               *)
(* websocket_input byte-swap only when __LITTLE_ENDIAN__ is defined.       *)
(***************************************************************************)
EXTENDS Integers, Sequences, SequencesExt, Bitwise

CONSTANTS
  Streams,      \* sequences of client frames [op, len, mask, data]
  LenOrder,     \* "big" or "little": the wire order of the 64-bit length
  SendLengths,  \* payload lengths a route passes to websocket_send
  MaxSends,     \* bound on websocket_send calls by the route
  MaxTracked,   \* payloads up to this length are compared byte by byte
  SplitWindow,  \* chunks may end anywhere in the first SplitWindow bytes
  NULL

ASSUME LenOrder \in {"big", "little"}

VARIABLES
  stream,    \* the client's frames
  arrived,   \* bytes of the encoded stream that reached the input queue
  consumed,  \* bytes websocket_input has dropped from the queue
  handled,   \* frames websocket_input completed, in order (history)
  written    \* frames the server wrote: pongs and websocket_send calls

vars == <<stream, arrived, consumed, handled, written>>

(***************************************************************************)
(* The client side: RFC 6455 encoding, big-endian lengths, masked payload  *)
(* byte k is data[k] XOR mask[(k-1) % 4 + 1].  A payload longer than its   *)
(* data field continues with the byte pattern k % 256.                     *)
(***************************************************************************)
\* Byte k (0 = least significant) of a length; lengths stay below 2^31.
ByteOf(n, k) == IF k >= 4 THEN 0 ELSE (n \div 2^(8 * k)) % 256

BigEndian(n, nbytes) == [i \in 1..nbytes |-> ByteOf(n, nbytes - i)]

RfcHeader(op, len, mask) ==
  LET mb == IF mask = <<>> THEN 0 ELSE 128 IN
  <<128 + op>>
  \o (CASE len <= 125  -> <<mb + len>>
        [] len < 65536 -> <<mb + 126>> \o BigEndian(len, 2)
        [] OTHER       -> <<mb + 127>> \o BigEndian(len, 8))
  \o mask

PayloadAt(f, k) == IF k <= Len(f.data) THEN f.data[k] ELSE k % 256

FrameLen(f) == Len(RfcHeader(f.op, f.len, f.mask)) + f.len

FrameByte(f, i) ==
  LET h == RfcHeader(f.op, f.len, f.mask) IN
  IF i <= Len(h) THEN h[i]
  ELSE IF f.mask = <<>> THEN PayloadAt(f, i - Len(h))
  ELSE PayloadAt(f, i - Len(h)) ^^ f.mask[((i - Len(h) - 1) % 4) + 1]

\* Offset of frame j in the encoded stream; Off(Len(stream) + 1) is its length.
Off(j) == FoldLeft(LAMBDA a, f : a + FrameLen(f), 0, SubSeq(stream, 1, j - 1))

StreamByte(i) ==
  LET j == CHOOSE j \in 1..Len(stream) : Off(j) < i /\ i <= Off(j + 1)
  IN  FrameByte(stream[j], i - Off(j))

(***************************************************************************)
(* The server side.                                                        *)
(***************************************************************************)
\* The 64-bit length as memcpy'd into int64_t and swapped (or not).  A
\* value of 2^31 or more is Huge (-1 stands for all of them): no queue of
\* this model holds that many bytes, so the frame is never complete.
Huge == -1

Len64(b) ==
  LET v == IF LenOrder = "big" THEN b ELSE Reverse(b) IN
  IF \E i \in 1..4 : v[i] # 0 \/ v[5] >= 128 THEN Huge
  ELSE FoldLeft(LAMBDA a, x : a * 256 + x, 0, SubSeq(v, 5, 8))

\* Mutation: 126 still sent in the 7-bit length field.
websocket_send_hdr_126(opcode, len) ==
  <<128 | (opcode & 15)>>
  \o (CASE len <= 126  -> <<len>>
        [] len < 65536 -> <<126, (len \div 256) % 256, len % 256>>
        [] OTHER       ->
             <<127>> \o (IF LenOrder = "big" THEN BigEndian(len, 8)
                         ELSE Reverse(BigEndian(len, 8))))

\* websocket_send_hdr: hdr[0] = 0x80 | (opcode & 0xf), then the length in
\* 1, 3 or 9 bytes (uint8_t stores keep the low byte).
websocket_send_hdr(opcode, len) ==
  <<128 | (opcode & 15)>>
  \o (CASE len <= 125  -> <<len>>
        [] len < 65536 -> <<126, (len \div 256) % 256, len % 256>>
        [] OTHER       ->
             <<127>> \o (IF LenOrder = "big" THEN BigEndian(len, 8)
                         ELSE Reverse(BigEndian(len, 8))))

\* websocket_send: header and payload to hc_output, then http_write.
websocket_send(w, opcode, data, len) ==
  [w EXCEPT !.written = Append(@, [op |-> opcode, len |-> len, data |-> data,
                                   hdr |-> websocket_send_hdr(opcode, len)])]

\* websocket_input up to the point where the frame is known complete:
\* NULL is "return 0", otherwise the opcode, length, header size and mask.
WsHeader(h, size) ==
  LET p      == Len(h)
      l7     == h[2] & 127
      hoff0  == CASE l7 = 126 -> 4 [] l7 = 127 -> 10 [] OTHER -> 2
      len    == CASE l7 = 126 -> h[3] * 256 + h[4]
                  [] l7 = 127 -> Len64(SubSeq(h, 3, 10))
                  [] OTHER    -> l7
      masked == h[2] >= 128
      hoff   == IF masked THEN hoff0 + 4 ELSE hoff0
  IN  IF p < 2 \/ p < hoff0 \/ (masked /\ p < hoff)
         \/ len = Huge \/ size < hoff + len
      THEN NULL
      ELSE [op |-> h[1] & 15, len |-> len, hoff |-> hoff,
            mask |-> IF masked THEN SubSeq(h, hoff0 + 1, hoff0 + 4) ELSE NULL]

\* Mutation: one byte too many dropped after the payload.
websocket_input_overrun(w) ==
  LET size == w.avail - w.consumed
      h    == [i \in 1..Min({14, size}) |-> StreamByte(w.consumed + i)]
      fr   == WsHeader(h, size)
      base == w.consumed + IF fr = NULL THEN 0 ELSE fr.hoff
      d    == IF fr = NULL \/ fr.len > MaxTracked THEN NULL
              ELSE [i \in 1..fr.len |->
                      IF fr.mask = NULL THEN StreamByte(base + i)
                      ELSE StreamByte(base + i) ^^ fr.mask[((i - 1) & 3) + 1]]
      w1   == IF fr = NULL THEN w
              ELSE [w EXCEPT !.consumed = base + fr.len + 1,
                             !.handled = Append(@, [op |-> fr.op, len |-> fr.len,
                                                    data |-> d])]
  IN  CASE fr = NULL  -> [w1 EXCEPT !.go = FALSE]
        [] fr.op = 9  -> websocket_send(w1, 10, d, fr.len)
        [] OTHER      -> w1

\* Mutation: the mask key indexed with the 1-based byte number.
websocket_input_mask_index(w) ==
  LET size == w.avail - w.consumed
      h    == [i \in 1..Min({14, size}) |-> StreamByte(w.consumed + i)]
      fr   == WsHeader(h, size)
      base == w.consumed + IF fr = NULL THEN 0 ELSE fr.hoff
      d    == IF fr = NULL \/ fr.len > MaxTracked THEN NULL
              ELSE [i \in 1..fr.len |->
                      IF fr.mask = NULL THEN StreamByte(base + i)
                      ELSE StreamByte(base + i) ^^ fr.mask[(i & 3) + 1]]
      w1   == IF fr = NULL THEN w
              ELSE [w EXCEPT !.consumed = base + fr.len,
                             !.handled = Append(@, [op |-> fr.op, len |-> fr.len,
                                                    data |-> d])]
  IN  CASE fr = NULL  -> [w1 EXCEPT !.go = FALSE]
        [] fr.op = 9  -> websocket_send(w1, 10, d, fr.len)
        [] OTHER      -> w1

\* websocket_input: peek, decode, drop the header, read and unmask the
\* payload (d[i] ^= m[i & 3]); a ping is answered with a pong through
\* websocket_send, anything else goes to hp_ws_data.
websocket_input(w) ==
  LET size == w.avail - w.consumed
      h    == [i \in 1..Min({14, size}) |-> StreamByte(w.consumed + i)]
      fr   == WsHeader(h, size)
      base == w.consumed + IF fr = NULL THEN 0 ELSE fr.hoff
      d    == IF fr = NULL \/ fr.len > MaxTracked THEN NULL
              ELSE [i \in 1..fr.len |->
                      IF fr.mask = NULL THEN StreamByte(base + i)
                      ELSE StreamByte(base + i) ^^ fr.mask[((i - 1) & 3) + 1]]
      w1   == IF fr = NULL THEN w
              ELSE [w EXCEPT !.consumed = base + fr.len,
                             !.handled = Append(@, [op |-> fr.op, len |-> fr.len,
                                                    data |-> d])]
  IN  CASE fr = NULL  -> [w1 EXCEPT !.go = FALSE]
        [] fr.op = 9  -> websocket_send(w1, 10, d, fr.len)
        [] OTHER      -> w1

\* Mutation: the loop returns after every frame, as for "return r".
WsLoop_one(w) == websocket_input(w)

\* The HCS_WEBSOCKET case of http_handle_input: frames until "return 0".
RECURSIVE WsLoop(_)
WsLoop(w) == IF ~w.go THEN w ELSE WsLoop(websocket_input(w))

-----------------------------------------------------------------------------
StreamLen == Off(Len(stream) + 1)

\* Where a chunk may end: anywhere in the first SplitWindow bytes, and
\* within two bytes of every frame boundary and of the end.
Cuts ==
  ((0..SplitWindow) \cup {Off(j) + e : j \in 1..Len(stream) + 1, e \in -2..2})
  \cap 1..StreamLen

Init ==
  /\ stream \in Streams
  /\ arrived = 0
  /\ consumed = 0
  /\ handled = <<>>
  /\ written = <<>>

\* http_io_read with the connection in HCS_WEBSOCKET: the queue grows to
\* c bytes and the loop runs.
http_io_read(c) ==
  /\ arrived < c
  /\ arrived' = c
  /\ LET w == WsLoop([consumed |-> consumed, handled |-> handled,
                      written |-> written, avail |-> c, go |-> TRUE])
     IN  /\ consumed' = w.consumed
         /\ handled' = w.handled
         /\ written' = w.written
  /\ UNCHANGED stream

\* The route sends a binary frame of a given length (websocket_send).
RouteSend(len) ==
  /\ Len(SelectSeq(written, LAMBDA e : e.op # 10)) < MaxSends
  /\ written' = websocket_send([written |-> written], 2, NULL, len).written
  /\ UNCHANGED <<stream, arrived, consumed, handled>>

Next ==
  \/ \E c \in Cuts : http_io_read(c)
  \/ \E len \in SendLengths : RouteSend(len)

Spec == Init /\ [][Next]_vars

-----------------------------------------------------------------------------
(***************************************************************************)
(* Properties.                                                             *)
(***************************************************************************)

TypeOK ==
  /\ 0 <= consumed /\ consumed <= arrived /\ arrived <= StreamLen
  /\ Len(handled) <= Len(stream)
  /\ \A e \in Range(written) : e.op \in 0..15

\* Every frame websocket_input completes is, in order, the frame the client
\* sent: the same opcode and length whichever length format carried it,
\* the payload unmasked with the key at the right offset, and a ping
\* answered by a pong echoing its payload (spec 4.4 and section 8).
FramesDecodedAsSent ==
  /\ Len(handled) <= Len(stream)
  /\ \A i \in 1..Len(handled) :
       /\ handled[i].op = stream[i].op
       /\ handled[i].len = stream[i].len
       /\ handled[i].data # NULL => handled[i].data = stream[i].data
  /\ LET pongs == SelectSeq(written, LAMBDA e : e.op = 10)
         pings == SelectSeq(handled, LAMBDA e : e.op = 9)
     IN  /\ Len(pongs) = Len(pings)
         /\ \A i \in 1..Len(pongs) : pongs[i].data = pings[i].data

\* The HCS_WEBSOCKET loop never returns to the reactor while a complete
\* frame is in the queue, and it consumes exactly the bytes of the frames
\* it completed: every frame whose last byte has arrived has been handled.
CompleteFramesHandled ==
  /\ consumed = Off(Len(handled) + 1)
  /\ \A j \in 1..Len(stream) : Off(j + 1) <= arrived => j <= Len(handled)

\* Every frame the server writes (pongs and websocket_send) starts with the
\* header the spec prescribes: FIN set, the opcode, and the length in 7
\* bits, in 16 bits after 126 or in 64 big-endian bits after 127, unmasked.
WrittenHeadersPerRfc ==
  \A e \in Range(written) : e.hdr = RfcHeader(e.op, e.len, <<>>)
=============================================================================
