CONSTANTS
  Submission = {s1}
  TestsNumber = 2
  NoJob = NoJob
  Address = {a1}
  Registrations = 2
  Epoch = {1, 2}
  Capacity = {2}
SYMMETRY Symmetry
SPECIFICATION Spec
CHECK_DEADLOCK FALSE
INVARIANTS
  JobIsInOnePlace
  AcceptedResultIsAwaited
  OneTrackerPerAddress
  HoldersMatchAssignments
  NoPanic
PROPERTY KeepsLedger
