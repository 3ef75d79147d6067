SPECIFICATION Spec
CONSTANTS
  WindowSize = 1
  NoOffset = NoOffset
  GMIFaces = {"i1", "i2"}
  GMReceiver = "i1"
  GMAccuracies = {"250ns"}
  GMOSStates = {"LOCKED"}
  DefaultClass = 248
  HAMembers = {"m1", "m2"}
  HAForeign = "x"
  OSOffsets = {0, 2, 5}
  OSInSync = 1
  OSOutOfSync = 3
  OSSamples = 2
  MaxCount = 3
  Dump <- MCDump
  DeviceType <- MCDeviceType
  Defaults <- MCDefaults
  Templates <- MCTemplates
  Nics <- MCNics
  PtpDevices <- MCPtpDevices
  Updates <- MCUpdates
  PtpConfigs <- MCPtpConfigs
  LabelMap <- MCLabelMap
  HwDefs = {"e810", "e825", "e830"}
  IntBits = 8
  MaxFaults = 1
  TSRoles = {"sink", "source"}
  TSIfaces = {"i1", "i2"}
  TSPhc <- MCPhc
  TSDevices = {"p1", "p2"}
  MaxSecond = 4
  LeapAt = 5
  LeapChanges <- MCChanges
  LeapBase = 37
  LeapFileEvents <- MCFile
  LeapAllowed = {"GPS"}
  LeapSources = {"GPS", "BeiDou"}
  pmcWindowStart = 4
  pmcWindowEnd = 1
  MaxNow = 7
  NanosPerSecond = 5
  MinInt <- MCMinInt
  MaxInt = 15
  ResidualThreshold = 1
  PHCTimes <- MCPHCTimes
  Deviations <- MCDeviations
  MaxError = 1
  MaxDelay = 2
  StepProfiles <- MCStepProfiles
INVARIANTS   GMPublishedCurrent NodeSyncState CachedAsOrdered   UtcOffsetTrue LeapSignalled Stepped
PROPERTIES ProfileIsolation 
CHECK_DEADLOCK FALSE
