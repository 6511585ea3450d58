SPECIFICATION Spec
CONSTANTS
  a = a
  b = b
  idle0 = idle0
  idle1 = idle1
  Tasks = {a, b}
  Idle = {idle0, idle1}
  Calls = {"disable"}
  Timeouts <- OneTimeout
  Boot = 2
  DisableAlone = TRUE
INVARIANTS SilentWhenOff
CHECK_DEADLOCK FALSE
