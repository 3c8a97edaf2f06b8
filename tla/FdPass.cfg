\* Two peers and a channel for two descriptors, every goroutine scheduled.
SPECIFICATION FairSpec
CONSTANTS
  p1 = p1
  p2 = p2
  Peers = {p1, p2}
  Plans <- MCPlans
  Room = 2
  Capacity = 2
INVARIANTS
  OnePlace
  ServedInOrder
PROPERTIES
  ReceivedAreSettled
CHECK_DEADLOCK FALSE
