SPECIFICATION TBCSpec
CONSTANTS
  WindowSize = 1
  NoOffset = NoOffset
  TRPorts <- OnePort
  TBCDPLLs = {"p1"}
  Leading = "p1"
  Controlled = "tt"
  HardwarePath = TRUE
  HoldoverTimeout0 = FALSE
  TBCOffsets = {0}
  Ptp4lOffsets = {}
  TBCEvents = {"reset","os"}
  TS2PHCStates = {"FREERUN"}
  Aging = {}
  Faulty = 9
  InSyncThreshold = 1
  InSyncTimes = 1
  ToFreeRunThreshold = 3
  MaxInSpec = 1
  UpClasses = {6}
  TREventsCap = 1
  MaxJobs = 1
INVARIANTS NoStaleUpstream LocalClassAnnounced
CHECK_DEADLOCK FALSE
