CONSTANTS
  Groups <- ByTest
  PartialPoints = {}
SPECIFICATION Spec
CHECK_DEADLOCK FALSE
INVARIANT EachTestScore
