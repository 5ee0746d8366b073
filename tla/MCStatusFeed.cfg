CONSTANTS
  s1 = s1
  s2 = s2
  Submission = {s1, s2}
  MaxTests = 2
  TestsNumber <- MCTestsNumber
  MaxFaults = 1
SPECIFICATION Spec
INVARIANTS NothingIsMissed NoRowIsForgotten
PROPERTIES ShownNeverGoesBack ResultsAreStored UpdatesArrive
CHECK_DEADLOCK FALSE
