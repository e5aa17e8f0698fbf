SPECIFICATION AnySpec
CONSTANTS
  Workers = {w1, w2}
  Kinds = {"fair", "lowmem"}
  Graphs <- FewGraphs
  RootLists <- SomeRoots
  Filters <- SomeFilters
  Granularities = {1, 2}
  MayStop = TRUE
  MaxVisits = 2
INVARIANTS
  ToldOnce
  DoneIsComplete
  EachExact
PROPERTIES
  LevelVisitSpec
  AllEnd
