SPECIFICATION PartsSpec
CONSTANTS
  a = a
  b = b
  z = z
  None = None
  Tasks = {a, b, z}
  Cores = {0, 1}
  Affinity <- AffinityOf
  MaxNest = 2
  Callers = {a, b}
  Timers <- TwoTimers
  Freqs = {100}
  Duties = {75}
  MaxCalls = 4
  Objects = {x, y}
INVARIANTS PartsTypeOK OwnLock  MountedIsRegistered
CHECK_DEADLOCK FALSE
