SPECIFICATION Spec
CONSTANTS
  MaxThreads = 3
  Inputs <- MCInputs
CHECK_DEADLOCK FALSE
INVARIANTS
  TransformExact
  StoredExact
PROPERTIES
  StoreEnds
