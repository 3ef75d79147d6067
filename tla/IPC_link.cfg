SPECIFICATION FairSpec
CONSTANTS
  Keys <- PortKeys
  Values = {v1, v2}
  NoEntry = NoEntry
  OutCap = 2
  WireCap = 1
  MaxConns = 2
  MaxSends = 3
  MaxClears = 1
  MaxTimeouts = 1
  MaxCrashes = 1
INVARIANTS PeerFollows
PROPERTIES Converges
CHECK_DEADLOCK FALSE
