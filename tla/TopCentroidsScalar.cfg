\* Without AVX2: every distance stops early.
SPECIFICATION Spec
CONSTANTS
  Centroids <- MCCentroids
  Probes <- MCProbes
  blockSize = 2
  useIVFAVX2 = FALSE
  MaxInt64 <- MCMaxInt64
INVARIANT NoneNearerLeftOut
