CONSTANTS
  Submission = {s1}
  TestsNumber = 1
  NoJob = NoJob
  Address = {a1}
  Registrations = 1
  Epoch = {1, 2, 3, 4, 5, 6, 7, 8, 9, 10}
  Capacity = {0, 1, 2}
  MaxJobs = 2
  MaxStatuses = 3
  MaxEpoch = 10
  MaxFaults = 0
SPECIFICATION LiveSpec
CHECK_DEADLOCK FALSE
PROPERTY EverySubmissionFinishes
