SPECIFICATION DPLLSpec
CONSTANTS
  Sources = {"ptp4l", "gnss", "pps"}
  FlagSets = {{}}
  PinOffsets = {0, 9}
  LocalMaxHoldoverOffSet = 4
  MaxInSpecOffset = 2
  LocalHoldoverTimeout = 2
  FaultyPhaseOffset = 99
  DPLLEventsCap = 1
  Reported = {"FREERUN", "LOCKED", "HOLDOVER"}
  MaxStarts = 1
INVARIANTS  ReportCurrent
PROPERTIES HoldoverEnds
CHECK_DEADLOCK FALSE
