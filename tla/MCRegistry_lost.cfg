CONSTANTS
  Submission = {s1}
  TestsNumber = 0
  NoJob = NoJob
  Address = {a1}
  Registrations = 1
  Epoch = {1}
  Capacity = {1}
SPECIFICATION Spec
CHECK_DEADLOCK FALSE
INVARIANT NoLostJob
