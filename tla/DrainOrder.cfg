SPECIFICATION Spec
CONSTANTS
  Worker = {w1, w2}
  Scheduler = s
  Nil = Nil
  MaxJobs = 2
SYMMETRY Sym
PROPERTY DrainAppliesFinished
CHECK_DEADLOCK FALSE
