SPECIFICATION FairSpec
CONSTANTS
  Worker = {w1}
  Scheduler = s
  Nil = Nil
  MaxJobs = 1
PROPERTY WaitReturns
CHECK_DEADLOCK FALSE
