SPECIFICATION Spec
CONSTANTS
  MaxThreads = 3
  Inputs <- DirectedPermuted
CHECK_DEADLOCK FALSE
INVARIANT PermutationApplied
