SPECIFICATION Spec
CONSTANTS
  Accesses = {a1, a2, a3}
  FirstHour = 3
  LastHour = 6
  LowWindow = 3
  HighWindow = 2
  IncludeCurrent = TRUE
  LowThreshold = 2
  HighThreshold = 1
  Retention = 4
  LastModified = 1
  None = None
SYMMETRY Symmetry
INVARIANTS
  LowSound
