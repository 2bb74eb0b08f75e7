SPECIFICATION Spec
CONSTANTS
  c1 = c1
  c2 = c2
  c3 = c3
  s1 = s1
  s2 = s2
  a = a
  b = b
  Calls = {c1, c2, c3}
  Owner <- MCOwner
  Batch <- MCBatch
  Keys = {a, b}
  MaxInt64 = 4
  Malformed = Malformed
  MaxRestarts = 2
CHECK_DEADLOCK FALSE
INVARIANTS
  TypeOK
  ExecutedOnce
  DefiniteErrorNotExecuted
  AllOrNothing
