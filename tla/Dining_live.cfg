CONSTANTS
  PHILOSOPHERS = 4
  Forked = 3
  FirstPid = 3
  Preempt = FALSE
SPECIFICATION FairSpec
INVARIANT TypeOK
PROPERTY SomebodyEats
