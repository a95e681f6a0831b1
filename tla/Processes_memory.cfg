CONSTANTS
  console = console  worker = worker  DP = DP  philosopher = philosopher
  Stacks = 2
  StackSize = 2
  MaxPid = 3
  Data = {0, 1}
  Console = console
  Programs <- AnyPrograms
  Loads <- AnyLoads
  Uses <- AnyUses
SPECIFICATION Spec
INVARIANTS TypeOK PidsUnique StacksExclusive SpInOwnStack
PROPERTIES ImplementsVirtualCPUs DeadStayDead
CHECK_DEADLOCK FALSE
