SPECIFICATION AnySpec
CONSTANTS
  WeightModulus = 16
  WEIGHT_MAX = 5
  Graphs <- SmallGraphs
  HashValues = {1, 2, 3}
  TwoGpus = {g1, g2}
INVARIANTS
  SumsExact
  CollisionsOnlyLump
  EachTypeOK
  OwnsWholeNodes
  LabelsNotShared
  TwoGpusExact
  UnreadIntact
  NoParallelEdges
  FollowsQuotient
PROPERTIES
  AnswerIsCoarsest
  EndsWhenIdeal
