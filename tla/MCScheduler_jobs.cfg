SPECIFICATION FairSpec
CONSTANTS
  Clients = {c1}
  Processors = {p1, p2}
  Timespans = {0, 1, 2}
  NoJob = NoJob
  MaxJobs = 3
  MaxTime = 2
INVARIANTS
  JobsInOnePlace
  NotBeforeDue
  CallersOrder
PROPERTY InsertedJobsRun
CHECK_DEADLOCK FALSE
