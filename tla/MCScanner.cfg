SPECIFICATION Spec
CONSTANTS
  Scopes <- MCScopes
  Buckets <- MCBuckets
  Objects <- MCObjects
  Excluded <- MCExcluded
  Directories <- MCDirectories
  ChunkSize = 2
  PageSize = 2
  None = None
  MaxChanges = 1
  MaxFailures = 2
INVARIANTS
  TypeOK
  CursorCovers
  ReworkBounded
PROPERTIES
  TraversalCovers
