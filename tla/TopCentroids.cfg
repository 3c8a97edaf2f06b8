\* With AVX2, and clusters that fill their blocks.
SPECIFICATION Spec
CONSTANTS
  Centroids <- MCCentroids
  Probes <- MCProbes
  blockSize = 2
  useIVFAVX2 = TRUE
  MaxInt64 <- MCMaxInt64
INVARIANTS
  TopSoFar
  BoxTestIsExact
