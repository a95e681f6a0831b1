CONSTANTS
  a = a  b = b
  Names <- MCNames
  GroupOf <- MCGroupOf
  Bytes = {0, 1}
  Callers = {1, 2}
  Modes <- MCModes
  Buffers <- MCBuffers
  Sizes = {1, 2}
  MaxFd = 5
  MaxQueued = 2
SPECIFICATION Spec
INVARIANTS TypeOK PipesDistinct
PROPERTY ImplementsNamedPipes

