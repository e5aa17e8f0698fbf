SPECIFICATION FairSpec
CONSTANTS
  Workers = {w1, w2}
  Inputs <- FarWeight
  Granularities = {4}
  UpperBounds = {2, 6, 100}
  MaxRuns = 2
CHECK_DEADLOCK FALSE
INVARIANT NeighborhoodExact
