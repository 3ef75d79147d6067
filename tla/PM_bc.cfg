SPECIFICATION FairSpec
CONSTANTS
  Tree <- BCTree
  Kind <- BCKind
  StartCond <- BCStart
  StopCond <- BCStop
  Cap = 1
  MaxApplies = 2
  MaxDeaths = 1
  MaxPlugin = 0
INVARIANTS OneChild
PROPERTIES DeadRestarted WaiterStarts
CHECK_DEADLOCK FALSE
