\* Clusters of two dimensions and blocks of two lanes; at most four clusters;
\* two neighbours; VPMULLD with products of seven bits.
SPECIFICATION Spec
CONSTANTS
  Dim = 2
  NClusters = 4
  blockSize = 2
  Inputs <- SmallInputs
  Disturbed <- SomeInputs
  NoValue = NoValue
  NoIndex = NoIndex
  NoQuery = NoQuery
  K = 2
  MaxInt64 = 1000
  MaxUint32 = 1000
  Queries <- SomeQueries
  MaxProduct = 63
  MaskBits = 4
INVARIANTS
  Partitioned
  BalancedSizes
  CentroidNearMean
  LoadedIsSaved
  LoadedWellFormed
  ScanKeepsNearest
  ScalarKeepsDistances
