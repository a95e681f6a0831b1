CONSTANTS
  WeightLo = 16777215
  WeightHi = 16777216
  GcdLo = 2
  GcdHi = 5
  PrimeLo = 24
  PrimeHi = 26
  Rounds = 1
  Sessions <- MCSessions
SPECIFICATION FairSpec
INVARIANTS StacksEmpty ResultsRight
PROPERTIES ImplementsThreads EveryoneRuns
