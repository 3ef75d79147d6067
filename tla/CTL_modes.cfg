SPECIFICATION CtlSpec
CONSTANTS
  Modes = {"hybrid", "full"}
  HwNames = {"h1", "h2"}
  Related <- MCRelated
  ClockTyped = {"h1"}
  Gnss = {"h1"}
  Specs = {"v1", "v2"}
  PtpInputs <- MCInputs
  NodeName = "n1"
  NodeLabels = {"worker"}
  Initially <- MCInitially
  UpdateChCap = 1
  MaxChanges = 2
  MaxFailures = 1
PROPERTIES  RunsOnStored AuthReapplied StatusReported
CHECK_DEADLOCK FALSE
