CONSTANTS
  console = console  P5 = P5  waiter = waiter  philosopher = philosopher  none = none
  Stacks = 3
  StackSize = 1
  MaxPid = 4
  Data = {0}
  Console = console
  Waiter = waiter
  NoImage = none
  Programs <- MCPrograms
  Loads <- MCLoads
  Uses <- MCUses
  Linked <- MCLinked
  Lines <- MCLines
  AtZero <- MCAtZero
  Width = 8
  Mkfifos = 1
  Patient = TRUE
SPECIFICATION ShellSpec
INVARIANT ConsoleContinues
CHECK_DEADLOCK FALSE
