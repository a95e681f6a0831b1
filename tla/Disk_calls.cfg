CONSTANTS
  BlockNum = 2
  BlockLen = 2
  SignBit = 8
  Addresses = {0, 1, 2, 9}
  Bytes = {0, 171}
  WrLens = {0, 1, 2}
  RdLens = {2}
  MaxFaults = 3
SPECIFICATION FairSpec
INVARIANT InStep
PROPERTIES FailsForCause EveryCallReturns ImplementsBlockDevice
CHECK_DEADLOCK FALSE
