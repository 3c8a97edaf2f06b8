\* Two connections share two buffers; client c1 waits for each answer, client
\* c2 sends its next request before the answer to the one before.
SPECIFICATION FairSpec
CONSTANTS
  c1 = c1
  c2 = c2
  b1 = b1
  b2 = b2
  Conns = {c1, c2}
  Buffers = {b1, b2}
  NoConn = NoConn
  NoBuffer = NoBuffer
  InitSize = 2
  maxRequestSize = 4
  Streams <- MixedStreams
  MaxRequests = 2
  Depth <- OneWaits
INVARIANTS
  BuffersExclusive
  BuffersBounded
  BufferIsOwnStream
  AnswersInOrder
  ClosedForCause
PROPERTIES
  PatientClientsAnswered
  ConnectionsEnd
CHECK_DEADLOCK FALSE
