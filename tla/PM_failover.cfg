SPECIFICATION Spec
CONSTANTS
  Tree <- GMTree
  Kind <- GMKind
  StartCond <- GMStart
  StopCond <- GMStop
  Cap = 1
  MaxApplies = 1
  MaxDeaths = 1
  MaxPlugin = 4
INVARIANTS LiveHasRun DeadReported
CHECK_DEADLOCK FALSE
