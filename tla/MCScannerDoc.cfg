SPECIFICATION FairSpec
CONSTANTS
  Scopes <- MCScopes
  Buckets <- MCBuckets
  Objects <- MCObjects
  Excluded <- MCExcluded
  Directories <- MCDirectories
  ChunkSize = 2
  PageSize = 2
  None = None
  MaxChanges = 0
  MaxFailures = 2
PROPERTIES
  FullTraversalAfterChange
