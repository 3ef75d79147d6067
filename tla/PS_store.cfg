SPECIFICATION Spec
CONSTANTS
  Res = {r1}
  Client = {c1, c2}
  None = None
  MaxIds = 3
  MaxUpdates = 2
  MaxFails = 1
  MaxCrashes = 1
INVARIANTS IndexMatches SavedIsActive NotifiedOfCurrent
SYMMETRY Symmetry
CHECK_DEADLOCK FALSE
