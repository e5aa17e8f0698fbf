SPECIFICATION AnySpec
CONSTANTS
  Graphs <- SomeGraphs
  SymmetricGraphs <- SmallSymmetric
  Algorithms = {"top_sort", "is_acyclic", "symm_seq", "kosaraju"}
  Kinds = {"nopred", "pred", "path"}
  Filters <- SomeFilters
  RootLists <- SomeRoots
  MayStop = TRUE
  ReuseBroken = FALSE
  MaxVisits = 2
INVARIANTS
  PathIsStacked
  OrderIsDfs
  TarjanExact
  OrdersExact
  SccsExact
PROPERTIES
  WhitePaths
  AllEnd
