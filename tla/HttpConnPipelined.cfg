\* A client that sends its second request before the first is answered.
SPECIFICATION FairSpec
CONSTANTS
  c1 = c1
  c2 = c2
  b1 = b1
  b2 = b2
  Conns = {c1}
  Buffers = {b1}
  NoConn = NoConn
  NoBuffer = NoBuffer
  InitSize = 2
  maxRequestSize = 4
  Streams <- FittingStreams
  MaxRequests = 3
  Depth <- NobodyWaits
PROPERTIES
  EveryRequestAnswered
CHECK_DEADLOCK FALSE
