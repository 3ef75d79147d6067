SPECIFICATION TBCSpec
CONSTANTS
  WindowSize = 1
  NoOffset = NoOffset
  TRPorts <- OnePort
  TBCDPLLs = {"p1"}
  Leading = "p1"
  Controlled = "tt"
  HardwarePath = TRUE
  HoldoverTimeout0 = FALSE
  TBCOffsets = {0,2}
  Ptp4lOffsets = {0}
  TBCEvents = {}
  TS2PHCStates = {}
  Aging = {"dpll"}
  Faulty = 9
  InSyncThreshold = 1
  InSyncTimes = 1
  ToFreeRunThreshold = 3
  MaxInSpec = 1
  UpClasses = {6}
  TREventsCap = 1
  MaxJobs = 0
INVARIANTS LossSeen
PROPERTIES ImplementsFSM
CHECK_DEADLOCK FALSE
