SPECIFICATION Spec
CONSTANTS
  r1 = r1
  r2 = r2
  r3 = r3
  r4 = r4
  r5 = r5
  ka = ka
  kb = kb
  kc = kc
  Requests = {r1, r2, r3, r4}
  Keys = {ka, kb, kc}
  Request <- MCRequest
  QueueSize = 2
  MaxEvents = 3
  MaxKeys = 2
  NoRequest = NoRequest
INVARIANTS
  TypeOK
  JobsConserved
  NothingAbandoned
  AckedOnlyIfCounted
  CountedAtMostOnce
  CountersExact
  BatchWithinLimits
  DepthAccounting
  DiscardOnlyAfterDeadline
PROPERTIES
  NoFlushAfterStop
