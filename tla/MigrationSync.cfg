SPECIFICATION FairSpec
CONSTANTS
  Worker = {w1, w2, w3}
  Scheduler = s
  Nil = Nil
  MaxJobs = 3
INVARIANTS TypeOK NoStrandedJob
PROPERTIES WaitEmptiesQueue EveryJobDone DestructorReturns
CHECK_DEADLOCK FALSE
