SPECIFICATION Spec
CONSTANTS
  a = a
  b = b
  idle0 = idle0
  idle1 = idle1
  Tasks = {a, b}
  Idle = {idle0, idle1}
  Calls <- AllCalls
  Timeouts <- TwoTimeouts
  Boot = 3
  DisableAlone = TRUE
SYMMETRY Symmetry
INVARIANTS TypeOK NoFalseAlarm 
CHECK_DEADLOCK FALSE
