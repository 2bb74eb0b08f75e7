SPECIFICATION Spec
CONSTANTS
  UserTags = {t1, t2}
  Marker = Marker
  Conflict = Conflict
  TagLimit = 2
  Size = 3
  RestoreDays = 1
  Limits <- MCLimits
  None = None
  Ongoing = Ongoing
  MaxVersions = 2
  MaxChanges = 1
  MaxVisits = 2
  LastDay = 1
SYMMETRY Symmetry
CHECK_DEADLOCK FALSE
INVARIANTS
  TypeOK
  MutationsWithinBudget
  MutationsReserved
  OnlyJudgedChanged
  UnchargedOnlyIfExpired
PROPERTIES
  UnrelatedTagsKept
