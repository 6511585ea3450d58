SPECIFICATION Spec
CONSTANTS
  a = a
  b = b
  c = c
  None = None
  Tasks = {a, b}
  Starters = {a}
  Starts <- SingleStart
  Calls <- WordCalls
  SerialStart = TRUE
  MaxMutexes = 1
INVARIANTS WireOrder
