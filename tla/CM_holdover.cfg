SPECIFICATION FairSpec
CONSTANTS
  Cfg = {c1}
  IFace = {i1}
  Class = {k1}
  NoClass = NoClass
  Sources = {"pmc", "reset", "synce"}
  NoIFace = NoIFace
  NoEntry = NoEntry
  InCap = 1
  Cap = 1
  MaxHoldovers = 2
  MaxApplies = 1
 
PROPERTIES ExpiryOfThisHoldover HoldoverEnds
CHECK_DEADLOCK FALSE
