SPECIFICATION PromptSpec
CONSTANTS
  a = a
  Requests = {r1, r2, r3}
  Keys = {a}
  Request <- MCRequest
  QueueSize = 1
  MaxEvents = 3
  MaxKeys = 2
  NoRequest = NoRequest
  MaxWait = 1
  OperationTimeout = 2
  CommandTime = 2
SYMMETRY Symmetry
CHECK_DEADLOCK FALSE
INVARIANTS
  AckWithinBudget
