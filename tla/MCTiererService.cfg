SPECIFICATION TiererFairSpec
CONSTANTS
  Scopes <- MCScopes
  Buckets <- MCBuckets
  Objects <- MCObjects
  Excluded <- MCExcluded
  Directories = {}
  ChunkSize = 2
  PageSize = 2
  None = None
  MaxChanges = 1
  MaxFailures = 2
INVARIANTS
  RedisOutlivesScanner
PROPERTIES
  ServiceStops
  TraversalsComplete
