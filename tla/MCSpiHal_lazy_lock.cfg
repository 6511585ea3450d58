SPECIFICATION Spec
CONSTANTS
  a = a
  b = b
  c = c
  None = None
  Tasks = {a, b}
  Starters = {a, b}
  Starts <- SingleStart
  Calls <- RaceCalls
  SerialStart = FALSE
  MaxMutexes = 2
INVARIANTS AccessExclusive
