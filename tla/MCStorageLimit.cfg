SPECIFICATION Spec
CONSTANTS
  MaxThreads = 3
  Inputs <- FewerArcs
CHECK_DEADLOCK FALSE
INVARIANT LimitKept
