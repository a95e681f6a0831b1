CONSTANTS
  PHILOSOPHERS = 3
  Forked = 3
  FirstPid = 3
  Preempt = TRUE
SPECIFICATION Spec
INVARIANT ReadsPid
