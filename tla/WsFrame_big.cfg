\* A build whose 64-bit lengths are big-endian on the wire (__LITTLE_ENDIAN__
\* defined on a little-endian host, or a big-endian host).
CONSTANTS
  NULL = NULL
  LenOrder = "big"
  Streams <- MCStreams
  SendLengths <- MCSendLengths
  MaxSends = 1
  MaxTracked = 5
  SplitWindow = 16
SPECIFICATION Spec
INVARIANT TypeOK
INVARIANT FramesDecodedAsSent
INVARIANT CompleteFramesHandled
INVARIANT WrittenHeadersPerRfc
CHECK_DEADLOCK FALSE
