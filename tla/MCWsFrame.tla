----------------------------- MODULE MCWsFrame -----------------------------
(* Client frames and limits for checking WsFrame.                         *)
EXTENDS WsFrame

Key == <<55, 250, 18, 129>>

\* Frame constructors: opcode, payload length, mask key, tracked payload.
Ping    == [op |-> 9, len |-> 2, mask |-> Key, data |-> <<104, 105>>]
Text5   == [op |-> 1, len |-> 5, mask |-> Key, data |-> <<1, 2, 3, 4, 200>>]
Empty   == [op |-> 2, len |-> 0, mask |-> <<>>, data |-> <<>>]
Bin125  == [op |-> 2, len |-> 125, mask |-> <<>>, data |-> <<>>]
Bin126  == [op |-> 2, len |-> 126, mask |-> Key, data |-> <<>>]
Bin65535 == [op |-> 2, len |-> 65535, mask |-> <<>>, data |-> <<>>]
Bin65536 == [op |-> 2, len |-> 65536, mask |-> Key, data |-> <<>>]

\* Each length format followed by a ping, and a ping then a text frame.
MCStreams ==
  { <<f, Ping>> : f \in {Text5, Empty, Bin125, Bin126, Bin65535, Bin65536} }
  \cup { <<Ping, Text5>> }

\* The lengths of spec section 8: all three header formats and their edges.
MCSendLengths == {0, 125, 126, 65535, 65536}
=============================================================================
