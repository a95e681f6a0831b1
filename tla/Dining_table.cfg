CONSTANTS
  PHILOSOPHERS = 4
  Forked = 4
  FirstPid = 3
  Preempt = FALSE
SPECIFICATION Spec
INVARIANTS NeighboursExclusive ForksHeld
PROPERTY NotTwice
