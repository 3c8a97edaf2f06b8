\* The sizes of IVFSearch.cfg; a pass after a repair keeps a neighbour twice.
SPECIFICATION Spec
CONSTANTS
  K = 3
  MaxInt64 <- MCMaxInt64
  MaxUint32 <- MCMaxUint32
  DenyAt = 2
  NProbe = 2
  AmbiguousNProbe = 3
  MaxIVFProbe = 4
  Repair = TRUE
  Instances <- MCInstances
  Queries <- MCQueries
INVARIANT DistinctNeighbours
