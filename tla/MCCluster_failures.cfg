CONSTANTS
  Submission = {s1}
  TestsNumber = 0
  NoJob = NoJob
  Address = {a1}
  Registrations = 1
  Epoch = {1, 2, 3, 4, 5, 6, 7, 8, 9, 10}
  Capacity = {0, 1, 2, 3}
  MaxJobs = 3
  MaxStatuses = 2
  MaxEpoch = 10
  MaxFaults = 1
SPECIFICATION LiveSpec
CHECK_DEADLOCK FALSE
PROPERTIES
  FailedTrackerIsRemoved
  NoReplyEnds
