SPECIFICATION RoundsSpec
CONSTANTS
  WeightModulus = 16
  Graphs <- SmallGraphs
  Gpus = {g1}
  max_batch_edge_n = 2
  Aggressive = FALSE
  HashValues = {1, 2}
  TrimOverlap = FALSE
INVARIANTS
  TypeOK
  DanglingHasNoEdge
  LabelsDense
  RoundsExact
  NeverSplitsEquivalent
PROPERTIES
  LabelGivenOnce
  RoundsReduce
  Termination
