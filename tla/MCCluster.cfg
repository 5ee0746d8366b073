CONSTANTS
  Submission = {s1}
  TestsNumber = 0
  NoJob = NoJob
  Address = {a1}
  Registrations = 2
  Epoch = {1, 2, 3, 4}
  Capacity = {0, 1}
  MaxJobs = 1
  MaxStatuses = 1
  MaxEpoch = 4
  MaxFaults = 1
SYMMETRY Symmetry
SPECIFICATION ClusterSpec
CHECK_DEADLOCK FALSE
INVARIANT
  NoFalseDisappearance
PROPERTY ImplementsRegistry
