\* acceptLoop closes the channel that a recvLoop is about to send on.
SPECIFICATION Spec
CONSTANTS
  p1 = p1
  p2 = p2
  Peers = {p1}
  Plans <- ShortPlans
  Room = 2
  Capacity = 2
INVARIANT NeverPanics
CHECK_DEADLOCK FALSE
