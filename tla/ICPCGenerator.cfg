CONSTANT TestsNumber = 4
SPECIFICATION FairSpec
INVARIANT VerdictIsDeserved
PROPERTIES ShownIsFinal KeepsContract IsReturned
CHECK_DEADLOCK FALSE
