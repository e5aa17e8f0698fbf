SPECIFICATION IdealSpec
CONSTANTS
  WeightModulus = 16
  Graphs <- SinkGraphs
  Gpus = {g1, g2}
  max_batch_edge_n = 2
  Aggressive = FALSE
  HashValues = {1}
  TrimOverlap = TRUE
INVARIANTS
  DoneIsReduction
