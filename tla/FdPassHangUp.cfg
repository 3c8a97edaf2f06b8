\* A peer closes its end of a control connection.
SPECIFICATION FairSpec
CONSTANTS
  p1 = p1
  p2 = p2
  Peers = {p1}
  Plans <- ShortPlans
  Room = 2
  Capacity = 2
PROPERTY ControlConnectionsEnd
CHECK_DEADLOCK FALSE
