CONSTANTS
  Groups <- Chain
  PartialPoints = {1}
SPECIFICATION FairSpec
CHECK_DEADLOCK FALSE
INVARIANTS
  TypeOK
  ResultsAreDeserved
  VerdictIsDeserved
PROPERTIES
  NoUselessTest
  KeepsContract
  IsReturned
