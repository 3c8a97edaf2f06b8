\* Three neighbours kept, four clusters: two probed at first, three when the
\* count is ambiguous, all four when a rule doubts it.
SPECIFICATION FairSpec
CONSTANTS
  K = 3
  MaxInt64 <- MCMaxInt64
  MaxUint32 <- MCMaxUint32
  DenyAt = 2
  NProbe = 2
  AmbiguousNProbe = 3
  MaxIVFProbe = 4
  Repair = TRUE
  Instances <- MCInstances
  Queries <- MCQueries
INVARIANTS
  NothingMissed
  CutoffIsSafe
  DistinctUntilRescan
  AnswerIsExact
  FirstPassFills
  DoubtfulAnswersAreSearched
  LateDenialsAreDenied
PROPERTIES
  KeepsNearest
  WorstOnlyImproves
  SearchReturns
