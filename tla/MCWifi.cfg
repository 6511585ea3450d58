SPECIFICATION FairSpec
CONSTANTS
  a = a
  b = b
  ev = ev
  ip1 = ip1
  ip2 = ip2
  none = none
  Tasks = {a, b}
  EventTask = ev
  Calls <- CallsOf
  Addresses = {ip1, ip2}
  NoAddress = none
  Locals = {244, 250}
  MaxCalls = 3
  MaxFaults = 1
INVARIANTS TypeOK InitOnce  StatusFollowsLink
PROPERTIES KeepsOther Reconnects
CHECK_DEADLOCK FALSE
