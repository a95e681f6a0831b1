CONSTANTS
  console = console  worker = worker  DP = DP  philosopher = philosopher
  Stacks = 2
  StackSize = 1
  MaxPid = 3
  Data = {0}
  Console = console
  Programs <- MCPrograms
  Loads <- MCLoads
  Uses <- ShippedUses
SPECIFICATION FairSpec
PROPERTY ForkFailsOnlyWhenFull
