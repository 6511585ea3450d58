SPECIFICATION Spec
CONSTANTS
  a = a
  b = b
  c = c
  None = None
  Tasks = {a, b, c}
  Starters = {a, b}
  Starts <- StartCalls
  Calls <- OwnerCalls
  SerialStart = TRUE
  MaxMutexes = 1
INVARIANTS TypeOK IInv AccessExclusive OwnReply ConfigStable WireOrder ResultOrder
PROPERTIES ImplementsOwnership
