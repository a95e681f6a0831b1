CONSTANTS
  Queues = {ready, pipe}
  Items = {first, second}
  Blocks = 10
SPECIFICATION Spec
INVARIANTS TypeOK ListsDisjoint
PROPERTIES LeaksOnlyNodes ImplementsFifos
CHECK_DEADLOCK FALSE
