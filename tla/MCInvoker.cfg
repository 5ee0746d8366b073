CONSTANTS
  c1 = c1
  t1 = t1
  source = source
  program = program
  data = data
  CompileJob = {c1}
  TestJob = {t1}
  File = {source, program, data}
  Files <- MCFiles
  SizeOf <- MCSizeOf
  SizeBound = 1
  Sandboxes = 2
  Runners = 1
  SimpleSandbox = FALSE
  MaxResets = 1
  MaxFaults = 1
  Again = {c1}
SPECIFICATION Spec
INVARIANTS TypeOK FilesAreThere LocksMatchJobs OnlyLockedFilesExceed FilesAreFresh FailuresAreReal ResultsAreSent
CHECK_DEADLOCK FALSE
PROPERTIES AcceptedJobsEnd ShutdownEnds
