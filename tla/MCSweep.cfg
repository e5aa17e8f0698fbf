SPECIFICATION FairSpec
CONSTANTS
  Inputs <- SomeInputs
  Wanted = {"All", "AllForward", "RadiusDiameter", "Diameter", "Radius"}
  Unbounded = 1000
CHECK_DEADLOCK FALSE
INVARIANTS
  BoundsBracket
  AnswersExact
PROPERTIES
  Ends
