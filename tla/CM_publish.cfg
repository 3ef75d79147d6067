SPECIFICATION Spec
CONSTANTS
  Cfg = {c1}
  IFace = {i1}
  Class = {k1}
  NoClass = NoClass
  Sources = {"os", "reset"}
  NoIFace = NoIFace
  NoEntry = NoEntry
  InCap = 1
  Cap = 1
  MaxHoldovers = 1
  MaxApplies = 2
INVARIANTS PublishedSyncState PublishedPortState OverallCurrent E3Current
CHECK_DEADLOCK FALSE
