\* Two processes, started up to twice, and a table with room for two of three connections.
SPECIFICATION FairSpec
CONSTANTS
  api1 = api1
  api2 = api2
  c1 = c1
  c2 = c2
  c3 = c3
  Apis = {api1, api2}
  Conns = {c1, c2, c3}
  Target <- MCTarget
  MaxOpen = 2
  MaxBoots = 2
INVARIANTS
  TakenByReady
PROPERTIES
  RefusedForCause
  StartedServe
  WaitingAreTaken
CHECK_DEADLOCK FALSE
