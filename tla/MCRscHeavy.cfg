SPECIFICATION MCSpec
CONSTANTS
  WeightModulus = 16
  WEIGHT_MAX = 5
  Graphs <- HeavyGraphs
  HashValues = {1, 2, 3}
INVARIANTS
  HeavyIsRejected
