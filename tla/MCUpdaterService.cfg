SPECIFICATION ServiceFairSpec
CONSTANTS
  r1 = r1
  r2 = r2
  r3 = r3
  r4 = r4
  Requests = {r1, r2, r3, r4}
  Keys <- MCKeys
  Body <- MCBody
  Request <- MCRequest
  MaxRecords = 2
  QueueSize = 1
  MaxEvents = 3
  MaxKeys = 2
  NoRequest = NoRequest
INVARIANTS
  ClientOutlivesBatcher
  GracefulShutdown
  CountedInFull
  DecodedFits
PROPERTIES
  ServiceReturns
