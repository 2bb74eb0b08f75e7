SPECIFICATION FairSpec
CONSTANTS
  r1 = r1
  r2 = r2
  r3 = r3
  r4 = r4
  r5 = r5
  ka = ka
  kb = kb
  kc = kc
  Requests = {r1, r2, r3, r5}
  Keys = {ka, kb, kc}
  Request <- MCRequest
  QueueSize = 1
  MaxEvents = 3
  MaxKeys = 2
  NoRequest = NoRequest
PROPERTIES
  KeepsPromise
  AcceptedIsAnswered
  StopReturns
